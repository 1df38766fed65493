----------------------------- MODULE BlendForward -----------------------------
(***************************************************************************)
(* The forward pass of a step with the hooks of Blend: what                *)
(* GPUModelRunner.execute_model, the models' forward methods and the       *)
(* attention op (patch_funcs/v092/vllm_patch.py) hand to one another while *)
(* attention_begin, ffn_begin, layer_begin and execute_finished            *)
(* (sparse/blend/blend.py) take rows out of it.                            *)
(*                                                                         *)
(* A tensor is the sequence of the tokens its rows belong to: numbers from *)
(* 1 in the order of the batch, 0 for a row of zeros.  slot_mapping names  *)
(* a slot by the token it is for.  Eager, one stage of pipeline, text      *)
(* only, no speculative decoding, as in the example.                       *)
(***************************************************************************)
EXTENDS Blend

CONSTANTS Layers,      \* layers of the model
          BlendLayer,  \* the layer compute_meta names
          Model,       \* "llama" or "qwen2"
          PatchedBy    \* how vLLM is patched: "file" (git apply) or "import" (apply_patch.py)

ASSUME BlendForwardAssumption ==
    /\ Layers \in Nat /\ BlendLayer \in 1..Layers
    /\ Model \in {"llama", "qwen2"} /\ PatchedBy \in {"file", "import"}

Row(t, i) == IF i \in DOMAIN t THEN t[i] ELSE 0
All == [k \in 1..Total |-> k]

(* tensor[compute_mask] *)
Masked(t, mask) == LET kept == SelectSeq(All, LAMBDA k : k \in mask) IN [i \in DOMAIN kept |-> t[kept[i]]]

(* execute_model, _prepare_inputs, the embedding: what the first layer is  *)
(* given, and the attention metadata; nothing is blended yet               *)
Embedded ==
    [positions |-> All, hidden_states |-> All, residual |-> All,
     slot_mapping |-> All,
     query_start_loc |-> [i \in 1..(Len(UpdatedBatch) + 1) |-> QueryStart(i)],
     num_actual_tokens |-> Total,
     compute_mask |-> 1..Total, need_re_index |-> FALSE,
     written |-> {}]

----------------------------------------------------------------------------
(* the hooks of Blend *)

_index_tensor(f, t) == IF f.need_re_index THEN Masked(t, f.compute_mask) ELSE t

\* Mutant: the positions are left as they are.
LayerBeginUntouched(f) == f

layer_begin(f) ==
    IF Len(f.positions) # Len(f.hidden_states)
    THEN [f EXCEPT !.positions = _index_tensor(f, @)]
    ELSE f

(* a pair: what is contiguous is cut, the other is indexed *)
ffn_begin(f, hidden_states, residual) ==
    IF f.need_re_index /\ Len(residual) = Total
    THEN <<SubSeq(hidden_states, 1, f.num_actual_tokens), _index_tensor(f, residual)>>
    ELSE <<hidden_states, residual>>

(* _update_attn_metadata: in place, for this layer and those after it *)
_update_attn_metadata(f, mask) ==
    LET lens(n) == FoldLeft(LAMBDA s, i : s + QueryLen(i), 0, [i \in 1..n |-> i])
    IN [f EXCEPT !.slot_mapping = Masked(@, mask),
                 !.query_start_loc = [i \in DOMAIN @ |-> lens(i - 1)],
                 !.num_actual_tokens = lens(Len(UpdatedBatch)),
                 !.compute_mask = mask, !.need_re_index = TRUE]

(* attention_begin of layer l, in the metadata it leaves *)
attention_begin(f, l, top) ==
    IF l = BlendLayer /\ NeedUpdate THEN _update_attn_metadata(f, compute_mask(top)) ELSE f

(* the rows of query, key or value it answers *)
Answered(f, l, t) == IF l = BlendLayer /\ NeedUpdate THEN Masked(t, f.compute_mask) ELSE t

\* Mutant: the rows of the whole batch are sampled from.
LogitsOfAll(f) == [i \in DOMAIN UpdatedBatch |-> QueryStart(i + 1)]

(* execute_finished: the rows the next tokens are sampled from, from 1 *)
execute_finished(f) ==
    IF f.need_re_index
    THEN [i \in DOMAIN UpdatedBatch |-> f.query_start_loc[i + 1]]
    ELSE [i \in DOMAIN UpdatedBatch |-> QueryStart(i + 1)]

----------------------------------------------------------------------------
(* The attention op.  The patch file takes all that attention_begin        *)
(* answers; the patch at import only the query, and the whole output,      *)
(* which what attention_begin answers is the first rows of.  The kernel    *)
(* writes as many keys as there are slots, and computes as many rows as    *)
(* there are actual tokens.                                                *)
kernel(g, query, key, rows_) ==
    [g EXCEPT !.hidden_states = [i \in 1..rows_ |-> IF i <= g.num_actual_tokens THEN Row(query, i) ELSE 0],
              !.written = {<<g.slot_mapping[i], Row(key, i)>> : i \in DOMAIN g.slot_mapping}]

unified_attention_with_output(g, l, qkv) ==
    kernel(g, Answered(g, l, qkv), IF PatchedBy = "file" THEN Answered(g, l, qkv) ELSE qkv, Len(qkv))

(* Attention.forward: an output of the shape of the query; rotary          *)
(* embedding came first, of the rows' positions: a row whose position is   *)
(* not that of its token is of none                                        *)
attn_forward(f, l, top) ==
    unified_attention_with_output(attention_begin(f, l, top), l,
        [i \in DOMAIN f.hidden_states |->
            IF Row(f.positions, i) = f.hidden_states[i] THEN f.hidden_states[i] ELSE 0])

(* the rest of a layer of either model; the second takes the hook's        *)
(* arguments the other way round, and its answers                          *)
WithRows(f, hidden_states, residual) == [f EXCEPT !.hidden_states = hidden_states, !.residual = residual]

llamaDecoderLayer_forward(f) ==
    LET ffn == ffn_begin(f, f.hidden_states, f.residual) IN WithRows(f, ffn[1], ffn[2])

qwen2DecoderLayer_forward(f) ==
    LET ffn == ffn_begin(f, f.residual, f.hidden_states) IN WithRows(f, ffn[2], ffn[1])

(* the models: what each layer leaves, the last of them the model's answer *)
llamaModel_forward(top) ==
    LET after[l \in 0..Layers] ==
            IF l = 0 THEN Embedded
            ELSE llamaDecoderLayer_forward(attn_forward(layer_begin(after[l - 1]), l, top))
    IN after

qwen2Model_forward(top) ==
    LET after[l \in 0..Layers] ==
            IF l = 0 THEN Embedded
            ELSE qwen2DecoderLayer_forward(attn_forward(layer_begin(after[l - 1]), l, top))
    IN after

model_output(top) == IF Model = "llama" THEN llamaModel_forward(top) ELSE qwen2Model_forward(top)

(* sample_hidden_states, of which the logits are computed *)
Rows(t, indices) == [i \in DOMAIN indices |-> Row(t, indices[i])]
Sampled_rows(f) == Rows(f.hidden_states, execute_finished(f))

----------------------------------------------------------------------------
Walks == pc = "execute" /\ ~Raises /\ Foreseen

(* the row at index i of the tensors is one of the request query_start_loc *)
(* says                                                                    *)
OfItsRequest(f, i) ==
    \A r \in DOMAIN UpdatedBatch :
        f.query_start_loc[r] < i /\ i <= f.query_start_loc[r + 1] =>
            QueryStart(r) < f.hidden_states[i] /\ f.hidden_states[i] <= QueryStart(r + 1)

(* After every layer, whichever rows were picked and wherever they were    *)
(* taken out, hidden states, residuals and KV are of the same tokens: no   *)
(* row is added to another's, rotated to another's position, written to    *)
(* another's slot or attended to with another request's KV.                *)
Together(f) ==
    /\ f.hidden_states = f.residual
    /\ \A w \in f.written : w[1] = w[2]
    /\ \A i \in DOMAIN f.hidden_states : OfItsRequest(f, i)
AllTogether(after) == \A l \in 1..Layers : Together(after[l])
RowsTogether == Walks => \A top \in TopKIndices : AllTogether(model_output(top))

(* Each request's next token is sampled from its own last row, whichever   *)
(* rows were taken out (execute_finished).                                 *)
LogitsAreOwn ==
    Walks => \A top \in TopKIndices :
        Sampled_rows(model_output(top)[Layers]) = [i \in DOMAIN UpdatedBatch |-> QueryStart(i + 1)]

=============================================================================
