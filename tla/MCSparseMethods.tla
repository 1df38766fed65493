--------------------------- MODULE MCSparseMethods ---------------------------
EXTENDS SparseMethods

MCRequests == {"a", "b", "c"}
MCAnswer == "a" :> 3 @@ "b" :> 4 @@ "c" :> 5

Prompts(a, b, c) == "a" :> a @@ "b" :> b @@ "c" :> c
Ones(n) == [i \in 1..n |-> 1]
Twos(n) == [i \in 1..n |-> 2]
OnesThenTwos(n, m) == [i \in 1..(n + m) |-> IF i <= n THEN 1 ELSE 2]
Threes(n) == [i \in 1..n |-> 3]
Nothing == [r \in MCRequests |-> 0]

NewLoad(m, ps, h, b, t, st, sl, ab) ==
    [method |-> m, prompt |-> ps, hbm |-> h, budget |-> b, threshold |-> t,
     stored |-> st, slow |-> sl, aborts |-> ab]

(* two long prompts with a common prefix and a short one, in chunks: with  *)
(* little memory and transfers that are done at once, with clients that    *)
(* give up, and the long ones with memory for both and slow transfers      *)
EsaPrompts == Prompts(OnesThenTwos(5, 4), Ones(7), Threes(3))
EsaLoads ==
    {NewLoad("ESA", EsaPrompts, 7, 12, 4, Nothing, FALSE, {}),
     NewLoad("ESA", EsaPrompts, 8, 12, 0, Nothing, FALSE, {"PREEMPTED", "WAITING"}),
     NewLoad("ESA", Prompts(OnesThenTwos(5, 4), Ones(7), <<>>), 16, 12, 4, Nothing, TRUE, {})}

(* prompts without a common prefix, and memory for those that run *)
StarPrompts == Prompts(Twos(7), Ones(11), Threes(3))
StarShort == Prompts(Twos(7), Ones(7), Threes(3))
StarLoads ==
    {NewLoad("KVStarMultiStep", StarPrompts, 13, 12, 4, Nothing, TRUE, {}),
     NewLoad("KVStarMultiStep", StarShort, 13, 12, 0, Nothing, FALSE, {"RUNNING"})}

(* in chunks and preempted; or with a part of the prompts in the store *)
GsaPrompts == Prompts(OnesThenTwos(5, 4), Ones(9), Threes(5))
GsaLoads ==
    {NewLoad("GSAOnDevice", GsaPrompts, 8, 12, 4, Nothing, FALSE, {}),
     NewLoad("GSAOnDevice", GsaPrompts, 16, 20, 0, "a" :> 6 @@ "b" :> 8 @@ "c" :> 0, FALSE, {"WAITING"})}

(* a long prompt in chunks with a short one whose client gives up, or with *)
(* another long one; short ones that are preempted; threads that fall behind *)
ChosenLoads ==
    {NewLoad("GSA", Prompts(OnesThenTwos(5, 4), Ones(3), <<>>), 16, 12, 4, Nothing, FALSE, {"RUNNING"}),
     NewLoad("GSA", Prompts(OnesThenTwos(5, 4), <<>>, Twos(9)), 16, 12, 4, Nothing, FALSE, {}),
     NewLoad("GSA", Prompts(OnesThenTwos(5, 3), Ones(7), Threes(3)), 7, 12, 4, Nothing, FALSE, {"PREEMPTED"}),
     NewLoad("GSA", Prompts(Ones(9), <<>>, <<>>), 16, 12, 4, Nothing, TRUE, {})}

(* prompts longer than the window, of its length and shorter, in chunks and *)
(* preempted; or with a common prefix, and clients that give up             *)
RectifiedPrompts == Prompts(OnesThenTwos(3, 5), Ones(4), Threes(2))
RectifiedLoads ==
    {NewLoad("ReRoPE", RectifiedPrompts, 9, 7, 3, Nothing, FALSE, {}),
     NewLoad("ReRoPE", Prompts(Ones(6), OnesThenTwos(4, 1), <<>>), 16, 12, 0, Nothing, FALSE, {"RUNNING"})}

MCLoads == EsaLoads \cup StarLoads \cup GsaLoads \cup ChosenLoads \cup RectifiedLoads

(* what the properties leave out: prefilled tokens that fill their last    *)
(* block; a prompt whose last full block is block 1; a prompt in chunks    *)
(* that continues one in the store; a last block that was chosen; threads  *)
(* that fall behind; a long prompt with a part in the store                *)
EsaFullLoads ==
    {NewLoad("ESA", Prompts(Ones(8), Twos(7), Threes(3)), 16, 12, 0, Nothing, FALSE, {})}
StarFirstLoads ==
    {NewLoad("KVStarMultiStep", Prompts(Threes(3), Twos(3), Ones(9)), 6, 12, 0, Nothing, FALSE, {"RUNNING"})}
GsaChunkedLoads ==
    {NewLoad("GSAOnDevice", Prompts(Ones(9), Twos(5), Threes(5)), 16, 20, 2, "a" :> 4 @@ "b" :> 0 @@ "c" :> 0, FALSE, {})}
GsaLastLoads ==
    {NewLoad("GSA", Prompts(Ones(20), <<>>, <<>>), 16, 20, 8, Nothing, FALSE, {})}
GsaSlowLoads ==
    {NewLoad("GSA", Prompts(Ones(9), <<>>, <<>>), 16, 12, 4, Nothing, TRUE, {})}
GsaRowsLoads ==
    {NewLoad("GSAOnDevice", Prompts(Ones(7), Threes(3), <<>>), 16, 20, 0, Nothing, FALSE, {})}
ReropeReloadedLoads ==
    {NewLoad("ReRoPE", RectifiedPrompts, 16, 12, 0, "a" :> 4 @@ "b" :> 0 @@ "c" :> 0, FALSE, {})}

(* The Ascend runner makes of every step what the GPU's makes of it        *)
(* (vllm_ascend_patch.py, _update_states, _process_reqs, execute_model).   *)
Ascend == INSTANCE AscendForward
RunnersAgree == Ascend!RunnersAgree
=============================================================================
