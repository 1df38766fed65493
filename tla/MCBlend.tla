------------------------------- MODULE MCBlend -------------------------------
EXTENDS BlendForward

MCRequests == {"a", "b", "c"}
MCAnswer == "a" :> 3 @@ "b" :> 4 @@ "c" :> 5
End == 9

Prompts(a, b, c) == "a" :> a @@ "b" :> b @@ "c" :> c
Stored(a, b, c) == Prompts(a, b, c)

NewLoad(ps, h, st, ab) ==
    [method |-> "Blend", prompt |-> ps, hbm |-> h, budget |-> 30, threshold |-> 0,
     stored |-> st, slow |-> FALSE, aborts |-> ab]

ChunkA == <<1, 1, 1, End>>
ChunkC == <<2, End>>
ChunkD == <<2, 2, 2, End>>

(* a chunk, and two prompts that have it behind another chunk; two prompts *)
(* with the same chunks in both orders, one of which the store has a block *)
(* of; the same with little memory                                         *)
MCLoads ==
    {NewLoad(Prompts(ChunkC, ChunkA \o ChunkC \o <<3>>, ChunkD \o ChunkC \o <<4, 4>>), 14, Stored(0, 0, 0), {"RUNNING"}),
     NewLoad(Prompts(ChunkD, ChunkA \o ChunkD \o <<3>>, ChunkD \o ChunkA \o <<3>>), 16, Stored(0, 2, 0), {}),
     NewLoad(Prompts(ChunkD, ChunkA \o ChunkD \o <<3>>, ChunkD \o ChunkA \o <<3>>), 7, Stored(4, 4, 0), {"PREEMPTED"})}

(* the first two chunks of a prompt are the beginning of another one *)
PrefixLoads ==
    {NewLoad(Prompts(ChunkD, ChunkA \o ChunkC \o <<3>>, ChunkA \o ChunkC \o ChunkD \o <<3>>), 16, Stored(4, 0, 0), {})}
=============================================================================
