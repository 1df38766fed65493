---------------------------- MODULE AscendForward ----------------------------
(***************************************************************************)
(* The rest of a step of the Ascend runner, from the inputs made of the    *)
(* batch to the tokens it keeps: the attention of a layer with the hooks   *)
(* of a sparse method around it, for grouped queries and for MLA, the      *)
(* calls to the connector and the method, and the sampling                 *)
(* (patch_funcs/v092/vllm_ascend_patch.py).  A row of a tensor is the      *)
(* request and position of its token.  One layer stands for all; eager,    *)
(* text only, one stage of pipeline, no speculative decoding.  The kernels *)
(* and reorder_batch are vllm-ascend's.                                    *)
(***************************************************************************)
EXTENDS AscendRunner

NoRow == <<>>
Each(in, value(_, _)) ==
    FlattenSeq([i \in DOMAIN in.req_ids |-> [k \in 1..in.num_scheduled_tokens[i] |-> value(i, k)]])

(* the requests with one token come first in a batch of an MLA model *)
OneToken(place) == out.n[place.req[1]] = 1
reorder_batch(b, mla) ==
    IF mla THEN SelectSeq(b, OneToken) \o SelectSeq(b, LAMBDA place : ~OneToken(place)) ELSE b

(* _process_reqs: positions, and the ids taken at them *)
positions(in) == Each(in, LAMBDA i, k : computed[in.req_ids[i]] + k)
input_ids(in) == Each(in, LAMBDA i, k : <<in.req_ids[i], computed[in.req_ids[i]] + k>>)
logits_indices(in) ==
    [i \in DOMAIN in.req_ids |-> FoldLeft(LAMBDA n, m : n + m, 0, SubSeq(in.num_scheduled_tokens, 1, i))]

(* attn_metadata_builder.build: how many rows are decoded, each of them a  *)
(* request with one token                                                  *)
num_decode_tokens(in) == Cardinality({i \in DOMAIN in.req_ids : in.num_scheduled_tokens[i] = 1})

----------------------------------------------------------------------------
(* What is left of a layer: its output, the places written with the row    *)
(* each is given, and what the hooks were called with.                     *)
Call(hook, phase, t) == <<hook, phase, t>>

(* A kernel takes its rows for those of these requests: the requests that  *)
(* are decoded have one each, and the others follow, row by row.           *)
Kernel(t, owners) == [i \in DOMAIN t |-> IF t[i][1] = owners[i] THEN t[i] ELSE NoRow]
_forward_decode(in, t) == Kernel(t, SubSeq(in.req_ids, 1, num_decode_tokens(in)))
_forward_prefill(in, t) ==
    Kernel(t, FlattenSeq([i \in DOMAIN in.req_ids |->
                 IF i <= num_decode_tokens(in) THEN <<>>
                 ELSE [k \in 1..in.num_scheduled_tokens[i] |-> in.req_ids[i]]]))
impl_forward(in, t) == Kernel(t, Each(in, LAMBDA i, k : in.req_ids[i]))

rotary_emb(pos, t) == [i \in DOMAIN t |-> IF t[i][2] = pos[i] THEN t[i] ELSE NoRow]
_npu_reshape_and_cache(slots, key) == {<<slots[i], key[i]>> : i \in DOMAIN slots}

maybe_execute_sparse_attention_begin(phase, t) == Call("attention_begin", phase, t)
maybe_execute_sparse_attention_finished(phase, t) == Call("attention_finished", phase, t)

(* the two parts of a tensor in AscendMLAImpl.forward *)
Decodes(in, t) == SubSeq(t, 1, num_decode_tokens(in))
Prefills(in, t) == SubSeq(t, num_decode_tokens(in) + 1, Len(t))

(* the keys: each part rotated by the positions of its metadata *)
k_pe(in, t) ==
    rotary_emb(Decodes(in, positions(in)), Decodes(in, t)) \o rotary_emb(Prefills(in, positions(in)), Prefills(in, t))

(* the calls for a part, nothing when it is empty *)
HookCalls(phase, t) ==
    IF t = <<>> THEN <<>>
    ELSE <<maybe_execute_sparse_attention_begin(phase, t), maybe_execute_sparse_attention_finished(phase, t)>>

mla_forward(in, t) ==
    [output |-> _forward_decode(in, Decodes(in, t)) \o _forward_prefill(in, Prefills(in, t)),
     written |-> _npu_reshape_and_cache(in.slot_mapping, k_pe(in, t)),
     calls |-> HookCalls("prefill", Prefills(in, t)) \o HookCalls("decode", Decodes(in, t))]

(* with MLA the hooks are those of the implementation *)
unified_ascend_attention_with_output(in, t, mla) ==
    IF mla THEN mla_forward(in, t)
    ELSE [output |-> impl_forward(in, t),
          written |-> _npu_reshape_and_cache(in.slot_mapping, rotary_emb(positions(in), t)),
          calls |-> HookCalls("", t)]

----------------------------------------------------------------------------
(* execute_model, of the batch _update_states leaves *)

maybe_setup_kv_connector == <<Call("start_load_kv", "", <<>>)>>
maybe_execute_ucm_sparse_begin == <<Call("build_sparse_meta", "", <<>>), Call("execute_begin", "", <<>>)>>
maybe_wait_for_kv_save == <<Call("wait_for_save", "", <<>>)>>

(* with the argument of the patch file: the patch at import gives none *)
maybe_execute_ucm_sparse_finished == <<Call("execute_finished", "", <<>>)>>

_process_reqs(layer) ==
    [layer EXCEPT !.calls =
        maybe_setup_kv_connector \o maybe_execute_ucm_sparse_begin \o @
            \o maybe_wait_for_kv_save \o maybe_execute_ucm_sparse_finished]

(* the sampled token is of the row's request, and right after its last one *)
sampler(row) == IF row # NoRow /\ row[2] = Len(tokens[row[1]]) THEN <<Answer[row[1]]>> ELSE <<NoRow>>

discard_sampled_tokens_req_indices(in) ==
    {i \in DOMAIN in.req_ids :
        computed[in.req_ids[i]] + in.num_scheduled_tokens[i] < Len(tokens[in.req_ids[i]])}

valid_sampled_token_ids(in, hidden_states) ==
    [i \in DOMAIN in.req_ids |->
        IF i \in discard_sampled_tokens_req_indices(in) THEN <<>>
        ELSE sampler(hidden_states[logits_indices(in)[i]])]

(* the tokens of the requests in the persistent batch afterwards *)
token_ids_cpu(in, sampled_token_ids) ==
    [r \in ToSet(in.req_ids) |-> tokens[r] \o sampled_token_ids[CHOOSE i \in DOMAIN in.req_ids : in.req_ids[i] = r]]

execute_model(in, mla) ==
    LET step == _process_reqs(unified_ascend_attention_with_output(in, input_ids(in), mla))
    IN [written |-> step.written, calls |-> step.calls, output |-> step.output,
        token_ids |-> token_ids_cpu(in, valid_sampled_token_ids(in, step.output))]

----------------------------------------------------------------------------
(* Every token of the step is in one pair of calls, that of its phase, of  *)
(* its own row and no other.                                               *)
PhasesAreRight(in, calls, mla) ==
    LET begun(phase) == {c \in ToSet(calls) : c[1] = "attention_begin" /\ c[2] = phase}
        rows_(phase) == UNION {ToSet(c[3]) : c \in begun(phase)}
    IN /\ \A c \in ToSet(calls) : IsInjective(c[3])
       /\ IF mla
          THEN /\ rows_("decode") = {t \in ToSet(input_ids(in)) : out.n[t[1]] = 1}
               /\ rows_("prefill") = {t \in ToSet(input_ids(in)) : out.n[t[1]] # 1}
          ELSE rows_("") = ToSet(input_ids(in))

(* The output of every row is its own; the KV of every token is written    *)
(* where the GPU's runner writes it; and the tokens kept of each request   *)
(* are those the scheduler has after the step.                             *)
StepIsRight(in, step, mla, table) ==
    /\ step.output = input_ids(in)
    /\ step.written =
          UNION {{LET p == SlotOf(r, k) + 1
                  IN <<<<BlockAt(table[r], p), PlaceOf(p)>>, <<r, computed[r] + k>>>> : k \in 1..out.n[r]} : r \in Scheduled}
    /\ PhasesAreRight(in, step.calls, mla)
    /\ step.token_ids = [r \in Scheduled |-> IF r \in Sampled THEN Append(tokens[r], Answer[r]) ELSE tokens[r]]

WalkIsRight(in, mla, table) == StepIsRight(in, execute_model(in, mla), mla, table)

(* The Ascend runner, which keeps the batch by index, fills gaps and moves *)
(* rows, has the same requests with the same block tables; no two tokens   *)
(* of a step are written to one place, each where the GPU's runner writes  *)
(* it; and the kernel chosen fits: nothing from before is attended to, or  *)
(* each request has one token (_update_states, _process_reqs).  Then each  *)
(* row goes through the hooks and kernel of its own phase, its KV to the   *)
(* same place, and each request keeps the tokens the scheduler gives it.   *)
Agree(in, b, table) ==
    LET place(r, p) == <<BlockAt(table[r], p), PlaceOf(p)>>
    IN /\ in.req_ids = b /\ in.block_table = [i \in DOMAIN b |-> table[b[i]]]
       /\ in.slot_mapping = FlattenSeq([i \in DOMAIN b |->
             [k \in 1..out.n[b[i]] |-> place(b[i], SlotOf(b[i], k) + 1)]])
       /\ IsInjective(in.slot_mapping)
       /\ in.seq_lens = [i \in DOMAIN b |-> SeqLen(b[i])]
       /\ CASE in.attn_state = "PrefillNoCache" -> in.seq_lens = in.num_scheduled_tokens
            [] in.attn_state = "DecodeOnly" -> \A i \in DOMAIN b : in.num_scheduled_tokens[i] = 1
            [] OTHER -> TRUE
RunnersAgree ==
    pc = "execute" /\ out.order # <<>> =>
        /\ Agree(Inputs, UpdatedBatch, UpdatedRows)
        /\ \A mla \in BOOLEAN : WalkIsRight(InputsOf(reorder_batch(Condensed, mla)), mla, UpdatedRows)

=============================================================================
