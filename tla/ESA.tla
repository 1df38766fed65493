-------------------------------- MODULE ESA --------------------------------
(***************************************************************************)
(* ESA (ucm/sparse/esa/esa.py).  A request decodes with its first blocks   *)
(* (the init window), its last ones (the local window) and the top_k of    *)
(* the blocks in the middle, which retrieval chooses anew every            *)
(* retrieval_stride steps from a representation of each, kept in a slot of *)
(* a pool, and which are loaded from the store into the request's blocks   *)
(* while it goes on decoding.                                              *)
(*                                                                         *)
(* The store holds the blocks that are asked for.  A transfer ends at any  *)
(* time before it is awaited, at once in a load that is not slow.          *)
(***************************************************************************)
EXTENDS SparseEngine

CONSTANTS EsaInit, EsaLocal,  \* init_window_sz, local_window_sz
          EsaMinBlocks,       \* min_blocks
          EsaRatio,           \* sparse_ratio, in per cent
          EsaStride,          \* retrieval_stride
          EsaModelLen         \* max_model_len

VARIABLES preempt_req_output_tokens,  \* of the scheduler side
          req_states,                 \* of the worker side, of one layer
          data,                       \* [slots of the pool -> what its block held]
          free_slots,                 \* of the pool
          tasks                       \* the blocks being loaded: [of, block, kv]

esaVars == <<preempt_req_output_tokens, req_states, data, free_slots, tasks>>

num_slots == (EsaModelLen * MaxRunning) \div BlockSize
is_sparsed_request(r) == Len(Prompt(r)) >= BlockSize * EsaMinBlocks
sparse_range(r) == Ceil(Len(Prompt(r)), BlockSize) - EsaInit - EsaLocal
top_k(r) == (sparse_range(r) * EsaRatio) \div 100

----------------------------------------------------------------------------
(* the scheduler side *)

(* outputs since the last preemption *)
NumOutputTokens(r) ==
    Outputs(r) - (IF r \in DOMAIN preempt_req_output_tokens THEN preempt_req_output_tokens[r] ELSE 0)

estimate_num_slots_sparsed(r) ==
    IF computed[r] = 0 \/ NumOutputTokens(r) = 0 \/ ~is_sparsed_request(r)
    THEN INVALID_SLOT
    ELSE LET flaw  == Len(Prompt(r)) % BlockSize
             local == IF flaw = 0 THEN BlockSize * EsaLocal ELSE flaw + BlockSize * (EsaLocal - 1)
         IN (EsaInit + top_k(r)) * BlockSize + local + Outputs(r)

\* Mutant: the blocks of the prefill are not given up.
AllocateAnew(r, slots) ==
    TakeBlocks(IF NumOutputTokens(r) = 1 THEN <<>> ELSE blocks[r], free, cached, slots)

(* the first sparse step gives up all blocks and starts anew *)
allocate_slots(r, slots) ==
    IF NumOutputTokens(r) = 1
    THEN TakeBlocks(<<>>, Released(r, Reverse(blocks[r])), cached, slots)
    ELSE TakeBlocks(blocks[r], free, cached, slots)

patched_allocate_slots(r, slots, from, n, hits) ==
    IF slots # INVALID_SLOT THEN allocate_slots(r, slots)
    ELSE original_allocate_slots(r, from, n, hits)

RunningTurn ==
    /\ pc = "running" /\ at <= Len(running)
    /\ LET r     == running[at]
           slots == estimate_num_slots_sparsed(r)
       IN ScheduleRunning(r, slots,
              patched_allocate_slots(r, slots, computed[r], NewTokens(r, computed[r]), <<>>))
    /\ UNCHANGED esaVars

WaitingTurn ==
    /\ CanAdmit
    /\ LET r    == Head(waiting)
           hits == CachedPrefix(r)
           from == Len(hits) * BlockSize
       IN /\ ScheduleWaiting(r, INVALID_SLOT, from,
                 patched_allocate_slots(r, INVALID_SLOT, from, NewTokens(r, from), hits))
          /\ preempt_req_output_tokens' =
                 IF status[r] = "PREEMPTED" THEN (r :> Outputs(r)) @@ preempt_req_output_tokens
                 ELSE preempt_req_output_tokens
    /\ UNCHANGED <<req_states, data, free_slots, tasks>>

----------------------------------------------------------------------------
(* the worker side *)

NewState == [step |-> 0, slots |-> <<>>, init_window |-> <<>>, local_window |-> <<>>, pre_topk |-> <<>>]

(* the requests of the metadata: build_sparse_meta *)
InMeta == {r \in Scheduled : is_sparsed_request(r)}

(* request_finished_in_worker, then get_or_create_layerwise_req_state: the *)
(* state of a resumed request is made anew                                 *)
Created(r) == r \in InMeta /\ (r \in out.resumed \/ r \notin DOMAIN req_states \ finished)
StateOf(r) == IF Created(r) THEN NewState ELSE req_states[r]
Dropped == {r \in DOMAIN req_states : r \in finished \/ (r \in InMeta /\ r \in out.resumed)}
\* Mutant: the slots of requests that are not in this step are freed too.
FreedSlotsOfAbsent ==
    free_slots \cup UNION {ToSet(req_states[r].slots) : r \in Dropped \cup (DOMAIN req_states \ Scheduled)}

FreedSlots == free_slots \cup UNION {ToSet(req_states[r].slots) : r \in Dropped}

(* diff_two_map: a block of map1 whose content is wanted stays as it is,   *)
(* the other contents of map2 go to the other blocks, paired at random     *)
diff_two_map(map1, map2) ==
    LET same  == {k \in DOMAIN map1 \cap DOMAIN map2 : map1[k] \in Range(map2)}
        keys  == DOMAIN map2 \ same
        diffs == Injection(keys, Range(map2) \ {map1[k] : k \in same})
    IN {[updated |-> Restrict(map1, same) @@ d, diff |-> d] : d \in diffs}

(* wait_retrieval_and_start_load: retrieval answers any top_k of the slots *)
wait_retrieval_and_start_load(r, row, st) ==
    LET picks  == Injection(1..top_k(r), DOMAIN st.slots)
        target == SubSeq(row, EsaInit + 1, EsaInit + top_k(r))
    IN UNION {diff_two_map(st.pre_topk,
                  [v \in ToSet(target) |-> pick[CHOOSE i \in DOMAIN target : target[i] = v]]) : pick \in picks}

Retrieves(st) == st.step = 1 \/ (st.step > 0 /\ st.step % EsaStride = 0)

(* what the retrievals of a step may answer *)
Retrievals ==
    LET answers == [r \in InMeta |->
            IF Retrieves(StateOf(r)) THEN wait_retrieval_and_start_load(r, UpdatedHeld[r], StateOf(r))
            ELSE {[updated |-> StateOf(r).pre_topk, diff |-> <<>>]}]
    IN {f \in [InMeta -> UNION Range(answers)] : \A r \in InMeta : f[r] \in answers[r]}

(* the blocks a diff loads, from the prompt's blocks in the middle *)
LoadsOf(r, diff) ==
    {[of |-> r, block |-> v, kv |-> BlockKV(Prompt(r), EsaInit + diff[v])] : v \in DOMAIN diff}

Landed(m, loads) ==
    [v \in DOMAIN m |-> IF \E t \in loads : t.block = v THEN (CHOOSE t \in loads : t.block = v).kv ELSE m[v]]

\* Mutant: only the init window is put back.
RestoredInit(m, row, st) ==
    LET in(v) == {i \in 1..EsaInit : row[i] = v}
    IN [v \in DOMAIN m |-> IF in(v) # {} THEN st.init_window[CHOOSE i \in in(v) : TRUE] ELSE m[v]]

Restored(m, row, st) ==
    LET last == Len(row) - Len(st.local_window)
        in(v) == {i \in 1..EsaInit : row[i] = v}
        lo(v) == {i \in 1..Len(st.local_window) : row[last + i] = v}
    IN [v \in DOMAIN m |->
          IF lo(v) # {} THEN st.local_window[CHOOSE i \in lo(v) : TRUE]
          ELSE IF in(v) # {} THEN st.init_window[CHOOSE i \in in(v) : TRUE] ELSE m[v]]

(* attention_begin of one request *)
attention_begin(m, r, got) ==
    LET st    == StateOf(r)
        loads == {t \in tasks : t.of = r} \cup (IF st.step = 1 THEN LoadsOf(r, got[r].diff) ELSE {})
    IN IF st.step % EsaStride # 1 THEN m
       ELSE Landed(IF st.step = 1 THEN Restored(m, UpdatedHeld[r], st) ELSE m, loads)

Begun(got) == FoldLeft(LAMBDA m, r : IF r \in InMeta THEN attention_begin(m, r, got) ELSE m, hbm, out.order)

ContextOk(m, r, upTo) ==
    IF Sparsed(r)
    THEN SparseContext(m, UpdatedRows[r], r, upTo, EsaInit, top_k(r), sparse_range(r))
    ELSE \A p \in 1..upTo : KV(m, UpdatedRows[r], p) = SubSeq(tokens[r], 1, p)

(* the attention of all requests *)
Attended(m0) ==
    FoldLeft(LAMBDA m, r : Attend(m, UpdatedRows, r, ContextOk(m, r, SeqLen(r) - out.n[r])), m0, out.order)

is_last_chunk(r) == computed[r] + out.n[r] >= Len(tokens[r])
Represents == {r \in InMeta : StateOf(r).step = 0 /\ is_last_chunk(r)}

(* block_repre_data: a slot for each block in the middle, the windows kept *)
block_repre_data(m, r, slots) ==
    LET row == UpdatedHeld[r]
        local == EsaInit + sparse_range(r)
    IN [StateOf(r) EXCEPT !.step = 1, !.slots = slots,
                          !.init_window = [i \in 1..EsaInit |-> m[row[i]]],
                          !.local_window = [i \in 1..(Len(row) - local) |-> m[row[local + i]]]]

(* the pool's slots for the requests of a sequence, in turn *)
AllocatedSlots(rs) ==
    LET sorted == [i \in 1..Cardinality(FreedSlots) |->
                      CHOOSE s \in FreedSlots : Cardinality({t \in FreedSlots : t < s}) = i - 1]
        before(i) == FoldLeft(LAMBDA n, r : n + sparse_range(r), 0, SubSeq(rs, 1, i - 1))
    IN [r \in ToSet(rs) |-> LET i == CHOOSE j \in DOMAIN rs : rs[j] = r
                            IN SubSeq(sorted, before(i) + 1, before(i) + sparse_range(r))]

(* the step of the worker: _update_states, the metadata, attention_begin   *)
(* of all requests, the attention, attention_finished of all requests      *)
Execute ==
    /\ pc = "execute"
    /\ \E got \in Retrievals :
         LET m     == Attended(Begun(got))
             fresh == SelectSeq(out.order, LAMBDA r : r \in Represents)
             given == AllocatedSlots(fresh)
             short == \E r \in Represents : Len(given[r]) < sparse_range(r)
             done(r) == LET st == StateOf(r) IN
                 IF r \in Represents THEN block_repre_data(m, r, given[r])
                 ELSE IF st.step = 0 THEN st
                 ELSE [st EXCEPT !.step = @ + 1, !.pre_topk = got[r].updated]
             kept     == {t \in tasks : t.of \in DOMAIN req_states \ Dropped
                                        => ~(t.of \in InMeta /\ StateOf(t.of).step % EsaStride = 1)}
             launched == UNION {LoadsOf(r, got[r].diff) : r \in {q \in InMeta : StateOf(q).step % EsaStride = 0}}
         IN /\ StepEnds(short)
            /\ req_states' = [r \in (DOMAIN req_states \ finished) \cup InMeta |->
                                 IF r \in InMeta THEN done(r) ELSE req_states[r]]
            /\ free_slots' = FreedSlots \ UNION Range([r \in Represents |-> ToSet(given[r])])
            /\ data' = [s \in 0..(num_slots - 1) |->
                          LET of == {r \in Represents : s \in ToSet(given[r])} IN
                          IF of = {} THEN data[s]
                          ELSE LET r == CHOOSE q \in of : TRUE
                                   i == CHOOSE j \in DOMAIN given[r] : given[r][j] = s
                               IN m[UpdatedHeld[r][EsaInit + i]]]
            /\ tasks' = {[t EXCEPT !.of = IF @ \in Dropped THEN "nobody" ELSE @] : t \in kept}
                        \cup (IF load.slow THEN launched ELSE {})
            /\ hbm' = IF load.slow THEN m ELSE Landed(m, launched)
    /\ UNCHANGED preempt_req_output_tokens

(* a transfer ends *)
LoadLands ==
    \E t \in tasks :
        /\ hbm' = Landed(hbm, {t})
        /\ tasks' = tasks \ {t}
        /\ UNCHANGED <<load, engine, schedulerVars, scheduleVars, held, rows, batch,
                       preempt_req_output_tokens, req_states, data, free_slots>>

Init ==
    /\ EngineInit
    /\ preempt_req_output_tokens = <<>> /\ req_states = <<>>
    /\ data = [s \in 0..(num_slots - 1) |-> Junk]
    /\ free_slots = 0..(num_slots - 1)
    /\ tasks = {}

(* what the engine does, and its clients *)
Steps ==
    \/ (Schedule \/ RunningDone \/ WaitingDone) /\ UNCHANGED esaVars
    \/ RunningTurn \/ WaitingTurn
    \/ Execute
    \/ LoadLands

Clients == \E r \in Requests : (Arrive(r) \/ Abort(r)) /\ UNCHANGED esaVars

Next == Steps \/ Clients

=============================================================================
