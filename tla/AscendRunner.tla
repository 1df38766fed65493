----------------------------- MODULE AscendRunner -----------------------------
(***************************************************************************)
(* NPUModelRunner as UCM patches it (patch_funcs/v092/                     *)
(* vllm_ascend_patch.py): the persistent batch, kept by index with its     *)
(* block tables, and the inputs of a step made from it.  SparseEngine says *)
(* the same by request, for the GPU; the scheduler is the same for both.   *)
(* The input batch itself (add_request, condense) is vllm-ascend's.        *)
(***************************************************************************)
EXTENDS SparseEngine

(* a place of the batch: a request with its block table, or a gap *)
Place(r, row) == [req |-> <<r>>, row |-> row]
Gap == [req |-> <<>>, row |-> <<>>]
With(b, i, place) == [j \in DOMAIN b |-> IF j = i THEN place ELSE b[j]]
Filled(b) == {i \in DOMAIN b : b[i] # Gap}

----------------------------------------------------------------------------
(* _update_states *)

removed_req_indices == {i \in DOMAIN batch : batch[i] \in finished \/ batch[i] \notin Scheduled}

(* the requests that stay, with the blocks the scheduler sent *)
Kept ==
    [i \in DOMAIN batch |->
        IF i \in removed_req_indices THEN Gap
        ELSE LET r == batch[i]
             IN Place(r, (IF Sparsed(r) THEN <<>> ELSE rows[r]) \o out.blocks[r])]

\* Mutant: in the order the scheduler took them.
ToAddInOrder == SelectSeq(out.order, LAMBDA r : \A i \in DOMAIN batch : batch[i] = r => i \in removed_req_indices)

req_ids_to_add ==
    LET come == SelectSeq(out.order, LAMBDA r : \A i \in DOMAIN batch : batch[i] = r => i \in removed_req_indices)
        new  == SelectSeq(come, LAMBDA r : r \in out.new)
        back == SelectSeq(come, LAMBDA r : r \notin out.new)
    IN new \o back

(* add_request: into the given gap, or behind the others *)
AddRequest(st, r) ==
    IF st.removed = <<>>
    THEN [st EXCEPT !.batch = Append(@, Place(r, BlockIds(r)))]
    ELSE [batch |-> With(st.batch, Head(st.removed), Place(r, BlockIds(r))), removed |-> Tail(st.removed)]

(* removed_req_indices.sort(reverse=True), taken from its end *)
Gaps == SetToSortSeq(removed_req_indices, <)
Added == FoldLeft(AddRequest, [batch |-> Kept, removed |-> Gaps], req_ids_to_add)

(* condense: the last request moves to the smallest gap, until none is below it *)
CloseGap(b, i) ==
    LET last == Max(Filled(b) \cup {0})
    IN IF i >= last THEN b ELSE With(With(b, i, b[last]), last, Gap)
Closed(added) == FoldLeft(CloseGap, added.batch, added.removed)
Trimmed(b) == SubSeq(b, 1, Cardinality(Filled(b)))
Condensed == Trimmed(Closed(Added))

----------------------------------------------------------------------------
(* _process_reqs: of each token its row and its position in it, and where  *)
(* its KV goes; a compressed request writes its first token behind what it *)
(* kept.  The kernel is chosen before the lengths of such requests are put *)
(* in.                                                                     *)
attn_state(n, past) ==
    IF \A i \in DOMAIN n : past[i] = 0 THEN "PrefillNoCache"
    ELSE IF \A i \in DOMAIN n : n[i] = 1 THEN "DecodeOnly"
    ELSE "ChunkedPrefill"

InputsOf(b) ==
    LET reqs == [i \in DOMAIN b |-> b[i].req[1]]
        n    == [i \in DOMAIN b |-> out.n[reqs[i]]]
        past == [i \in DOMAIN b |-> computed[reqs[i]]]
        place(i, k) ==
            LET p == IF Sparsed(reqs[i]) /\ k = 1 THEN out.slots[reqs[i]] ELSE past[i] + k
            IN <<BlockAt(b[i].row, p), PlaceOf(p)>>
    IN [req_ids |-> reqs,
        block_table |-> [i \in DOMAIN b |-> b[i].row],
        num_scheduled_tokens |-> n,
        slot_mapping |-> FlattenSeq([i \in DOMAIN b |-> [k \in 1..n[i] |-> place(i, k)]]),
        seq_lens |-> [i \in DOMAIN b |-> IF Sparsed(reqs[i]) THEN out.slots[reqs[i]] ELSE past[i] + n[i]],
        attn_state |-> attn_state(n, past)]
Inputs == InputsOf(Condensed)

=============================================================================
