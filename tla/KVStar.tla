------------------------------- MODULE KVStar -------------------------------
(***************************************************************************)
(* KVStarMultiStep (ucm/sparse/kvstar/multistep.py).  A request decodes    *)
(* with its first blocks (the init window), its last ones and a share of   *)
(* those in the middle.  At its first decode step it keeps the last blocks *)
(* of its table, gives up the others, and the worker restores the windows  *)
(* and loads what a retrieval chose into the blocks between them.  Later   *)
(* retrievals work in the background for a group of retrieval_stride       *)
(* steps, and what they chose is loaded one group later.                   *)
(*                                                                         *)
(* The store holds the blocks that are asked for.  A transfer ends at any  *)
(* time before it is awaited, at once in a load that is not slow.          *)
(***************************************************************************)
EXTENDS SparseEngine

CONSTANTS StarInit, StarLocal,  \* init_window_sz, local_window_sz
          StarRatio,            \* sparse_ratio, in per cent
          StarStride            \* retrieval_stride

VARIABLES req_states,  \* of the worker side, of one layer
          tasks        \* the blocks being loaded: [of, block, kv]

starVars == <<req_states, tasks>>

----------------------------------------------------------------------------
(* the scheduler side *)

num_prefill_fully_block(r) == Len(Prompt(r)) \div BlockSize
num_prefill_keep_fixed_blk(r) == Least(StarInit + StarLocal, num_prefill_fully_block(r))
Middle(r) == num_prefill_fully_block(r) - num_prefill_keep_fixed_blk(r)
TopK(blks) == Ceil(blks * StarRatio, 100)

estimate_num_slots_sparsed(r) ==
    LET tail  == Len(tokens[r]) % BlockSize
        total == Ceil(Len(tokens[r]), BlockSize) - (Middle(r) - TopK(Middle(r)))
    IN IF Outputs(r) = 0 THEN INVALID_SLOT
       ELSE IF tail # 0 THEN (total - 1) * BlockSize + tail ELSE total * BlockSize

(* the last blocks of the table are kept, none of them stays cached *)
allocate_slots(r, slots) ==
    LET given == Len(blocks[r]) - Least(Ceil(slots, BlockSize), Len(blocks[r]))
        kept  == SubSeq(blocks[r], given + 1, Len(blocks[r]))
        known == [v \in 1..HbmBlocks |-> IF v \in ToSet(blocks[r]) THEN Junk ELSE cached[v]]
    IN TakeBlocks(kept, Released(r, SubSeq(blocks[r], 1, given)), known, slots)

patched_allocate_slots(r, slots, from, n, hits) ==
    IF slots # INVALID_SLOT THEN allocate_slots(r, slots)
    ELSE original_allocate_slots(r, from, n, hits)

RunningTurn ==
    /\ pc = "running" /\ at <= Len(running)
    /\ LET r     == running[at]
           slots == estimate_num_slots_sparsed(r)
       IN ScheduleRunning(r, slots,
              patched_allocate_slots(r, slots, computed[r], NewTokens(r, computed[r]), <<>>))
    /\ UNCHANGED starVars

WaitingTurn ==
    /\ CanAdmit
    /\ LET r     == Head(waiting)
           hits  == CachedPrefix(r)
           from  == Len(hits) * BlockSize
           slots == estimate_num_slots_sparsed(r)
       IN ScheduleWaiting(r, slots, from, patched_allocate_slots(r, slots, from, NewTokens(r, from), hits))
    /\ UNCHANGED starVars

----------------------------------------------------------------------------
(* the worker side *)

NONE == -1

(* blk_repre: how many blocks in the middle have a representation, or NONE *)
NewState == [blk_repre |-> 0, init_window |-> <<>>, local_window |-> <<>>,
             pre_swap |-> <<>>, retrieved |-> {}]

InMeta == {r \in Scheduled : Len(Prompt(r)) > BlockSize}
StateOf(r) == IF r \in DOMAIN req_states \ finished THEN req_states[r] ELSE NewState

InDecode(r) == Outputs(r) > 0
step(r) == Outputs(r)
is_last_chunk(r) == computed[r] + out.n[r] >= Len(Prompt(r))

Sparse(r) == r \in InMeta /\ InDecode(r) /\ StateOf(r).blk_repre # NONE
LoadsNow(r) == Sparse(r) /\ step(r) = 1

LoadsAhead(r) == Sparse(r) /\ step(r) >= 2 * StarStride /\ step(r) % StarStride = 0

Awaits(r) == Sparse(r) /\ (step(r) = 1 \/ step(r) % StarStride = 1)

(* get_retrieve_candidate_block_ids *)
Candidates(r) ==
    SubSeq(UpdatedHeld[r], StarInit + 1, Least(StarInit + TopK(StateOf(r).blk_repre), Len(UpdatedHeld[r])))

(* load_retrieve_result_async: a candidate whose content is wanted keeps   *)
(* it, the rest of what was retrieved goes to the others in turn           *)
load_retrieve_result_async(r, result) ==
    LET pre   == StateOf(r).pre_swap
        same  == {v \in ToSet(Candidates(r)) \cap DOMAIN pre : pre[v] \in ToSet(result)}
        swap  == Without(Candidates(r), same)
        fetch == Without(result, {pre[v] : v \in same})
        diff  == [v \in ToSet(swap) |-> fetch[CHOOSE i \in DOMAIN swap : swap[i] = v]]
    IN [updated |-> Restrict(pre, same) @@ diff, diff |-> diff]

(* what the retrievals of a step may answer: any top k of the middle *)
Retrievals ==
    LET results(r) == Injection(1..Len(Candidates(r)), 1..StateOf(r).blk_repre)
        answers == [r \in InMeta |->
            IF LoadsNow(r) \/ LoadsAhead(r) THEN {load_retrieve_result_async(r, s) : s \in results(r)}
            ELSE {[updated |-> StateOf(r).pre_swap, diff |-> <<>>]}]
    IN {f \in [InMeta -> UNION Range(answers)] : \A r \in InMeta : f[r] \in answers[r]}

LoadsOf(r, diff) ==
    {[of |-> r, block |-> v, kv |-> BlockKV(Prompt(r), StarInit + diff[v])] : v \in DOMAIN diff}

Landed(m, loads) ==
    [v \in DOMAIN m |-> IF \E t \in loads : t.block = v THEN (CHOOSE t \in loads : t.block = v).kv ELSE m[v]]

(* a window is put back into the blocks of a part of the table *)
PutBack(m, part, window) ==
    [v \in DOMAIN m |-> IF v \in ToSet(part) THEN window[CHOOSE i \in DOMAIN part : part[i] = v] ELSE m[v]]

prepare_init_and_local_window(m, r) ==
    LET row == UpdatedHeld[r]
        st  == StateOf(r)
    IN PutBack(PutBack(m, SubSeq(row, 1, StarInit), st.init_window),
               SubSeq(row, Len(row) - Len(st.local_window) + 1, Len(row)), st.local_window)

(* attention_begin of one request *)
attention_begin(m, r, got) ==
    IF LoadsNow(r) THEN Landed(prepare_init_and_local_window(m, r), LoadsOf(r, got[r].diff))
    ELSE IF Awaits(r) THEN Landed(m, {t \in tasks : t.of = r})
    ELSE m

Begun(got) == FoldLeft(LAMBDA m, r : attention_begin(m, r, got), hbm, out.order)

ContextOk(m, r, upTo) ==
    IF Sparsed(r)
    THEN SparseContext(m, UpdatedRows[r], r, upTo, Least(StarInit, num_prefill_fully_block(r)),
                       TopK(Middle(r)), Middle(r))
    ELSE \A p \in 1..upTo : KV(m, UpdatedRows[r], p) = SubSeq(tokens[r], 1, p)

Attended(m0) ==
    FoldLeft(LAMBDA m, r : Attend(m, UpdatedRows, r, ContextOk(m, r, SeqLen(r) - out.n[r])), m0, out.order)

(* compute_block_repre at the end of a prefill, and the windows *)
compute_block_repre(m, r) ==
    LET row   == UpdatedHeld[r]
        full  == (computed[r] + out.n[r]) \div BlockSize
        local == Least(StarLocal, Len(row) - StarInit)
    IN [StateOf(r) EXCEPT
          !.blk_repre = IF row[full] < 2 \/ full <= 2 THEN NONE
                        ELSE IF full > StarInit + StarLocal THEN full - StarInit - StarLocal ELSE 0,
          !.init_window = [i \in 1..StarInit |-> m[row[i]]],
          !.local_window = [i \in 1..local |-> m[row[Len(row) - local + i]]]]

(* the first step of the group whose retrieval is launched, or waited for *)
GroupOf(s) == s - StarStride + 1

(* _update_states, the metadata, attention_begin of all requests, the      *)
(* attention, attention_finished of all requests.  A hook raises for a     *)
(* finished request without a state, for several tokens of a request that  *)
(* decodes, and for a retrieval that was never launched.                   *)
Execute ==
    /\ pc = "execute"
    /\ \E got \in Retrievals :
         LET m      == Attended(Begun(got))
             raised == \/ \E r \in finished : r \notin DOMAIN req_states
                       \/ \E r \in InMeta : Sparse(r) /\ out.n[r] # 1
                       \/ \E r \in InMeta : LoadsAhead(r)
                                            /\ GroupOf(step(r) - StarStride) \notin StateOf(r).retrieved
             done(r) == IF ~InDecode(r)
                        THEN IF is_last_chunk(r) THEN compute_block_repre(m, r) ELSE StateOf(r)
                        ELSE [StateOf(r) EXCEPT
                                !.pre_swap = got[r].updated,
                                !.retrieved = IF Sparse(r) /\ step(r) % StarStride = 0
                                              THEN @ \cup {GroupOf(step(r))} ELSE @]
             launched == UNION {LoadsOf(r, got[r].diff) : r \in {q \in InMeta : LoadsAhead(q)}}
         IN /\ StepEnds(raised)
            /\ req_states' = [r \in (DOMAIN req_states \ finished) \cup InMeta |->
                                 IF r \in InMeta THEN done(r) ELSE req_states[r]]
            /\ tasks' = {t \in tasks : ~Awaits(t.of)} \cup (IF load.slow THEN launched ELSE {})
            /\ hbm' = IF load.slow THEN m ELSE Landed(m, launched)

(* a transfer ends *)
LoadLands ==
    \E t \in tasks :
        /\ hbm' = Landed(hbm, {t})
        /\ tasks' = tasks \ {t}
        /\ UNCHANGED <<load, engine, schedulerVars, scheduleVars, held, rows, batch, req_states>>

Init ==
    /\ EngineInit
    /\ req_states = <<>>
    /\ tasks = {}

(* what the engine does, and its clients *)
Steps ==
    \/ (Schedule \/ RunningDone \/ WaitingDone) /\ UNCHANGED starVars
    \/ RunningTurn \/ WaitingTurn
    \/ Execute
    \/ LoadLands

Clients == \E r \in Requests : (Arrive(r) \/ Abort(r)) /\ UNCHANGED starVars

Next == Steps \/ Clients

=============================================================================
