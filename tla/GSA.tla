--------------------------------- MODULE GSA ---------------------------------
(***************************************************************************)
(* GSA (ucm/sparse/gsa): the gsa.py agent, its prefetch_engine.py, and the *)
(* threads of offload_ops that choose blocks on the CPU, with the switches *)
(* of ucm/sparse/utils.py as they are (neither CUDA_TOPK nor               *)
(* PTOPK_PREFETCH_ENABLE).  All KV stays on the device.  A representation  *)
(* of each block is kept in a slot of kpre_caches; every third step at the *)
(* earliest the queries of the batch are copied out, and the threads score *)
(* the blocks of each long request against its query.  What they chose is  *)
(* taken three steps later at the earliest, and from then on the request   *)
(* attends to these blocks and the ones that follow.                       *)
(*                                                                         *)
(* Grouped queries on CUDA, one layer.  Which blocks score best is open.   *)
(* In a load that is not slow a step's copies are made before the next one *)
(* begins; otherwise the copy thread runs on its own.  Blocks are numbered *)
(* from 1.                                                                 *)
(***************************************************************************)
EXTENDS SparseEngine

CONSTANTS GsaThreshold,            \* SEG_PREFILL_THRESHOLD, in tokens
          GsaMinTopk, GsaMaxTopk,  \* min_topk_len, max_topk_len
          GsaPrefetch,             \* num_prefetch_blocks
          GsaSlots                 \* MAX_BS

VARIABLES gsa_stats,               \* GSAReqStat of each request
          cache_map, free_cache,   \* TopKAndKpreManger: slots in use, free slots
          kpre_caches,             \* [slots -> [blocks -> what the representation was made of]]
          is_gsa_req_id, topk_space,
          topk_bs, topk_buf_tmp,   \* the last batch blocks were chosen for, and the choice
          offload                  \* CalKpreAndTopk

gsaVars == <<gsa_stats, cache_map, free_cache, kpre_caches, is_gsa_req_id, topk_space,
             topk_bs, topk_buf_tmp, offload>>

----------------------------------------------------------------------------
(* the scheduler side: estimate_num_slots_sparsed is INVALID_SLOT *)

RunningTurn ==
    /\ pc = "running" /\ at <= Len(running)
    /\ LET r == running[at]
       IN ScheduleRunning(r, INVALID_SLOT,
              original_allocate_slots(r, computed[r], NewTokens(r, computed[r]), <<>>))
    /\ UNCHANGED gsaVars

WaitingTurn ==
    /\ CanAdmit
    /\ LET r    == Head(waiting)
           hits == CachedPrefix(r)
           from == Len(hits) * BlockSize
       IN ScheduleWaiting(r, INVALID_SLOT, from,
              original_allocate_slots(r, from, NewTokens(r, from), hits))
    /\ UNCHANGED gsaVars

----------------------------------------------------------------------------
(* the state of a request *)

InDecode(r) == Len(Prompt(r)) <= computed[r]
is_gsa(r) == Len(Prompt(r)) > GsaThreshold /\ InDecode(r)
is_last_chunk(r) == computed[r] + out.n[r] = Len(Prompt(r))

(* the blocks whose representation this step makes: all but a prompt's last *)
Represented(r, from, to) == from..(IF is_last_chunk(r) THEN to - 1 ELSE to)

(* a new request, or one that is resumed *)
add_req_new(r) ==
    [blocks |-> UpdatedHeld[r], sparse_len |-> 0, topk |-> <<>>,
     calc |-> Represented(r, 1, Len(UpdatedHeld[r]))]

(* in its first decode step *)
_get_sparse_and_free_block(r, st) == IF Len(Prompt(r)) = computed[r] THEN Len(st.blocks) ELSE st.sparse_len

(* what was a prompt takes its new blocks; what decodes the last block, if *)
(* its blocks are not as many as they were                                 *)
updata_req_state(r, st) ==
    LET now == UpdatedHeld[r]
        sparse_len == _get_sparse_and_free_block(r, st)
    IN IF ~InDecode(r) THEN [st EXCEPT !.blocks = now, !.calc = Represented(r, Len(st.blocks) + 1, Len(now))]
       ELSE IF Len(now) # sparse_len
       THEN [st EXCEPT !.blocks = Append(@, Last(now)), !.sparse_len = Len(now), !.calc = {Len(st.blocks) + 1}]
       ELSE [st EXCEPT !.sparse_len = sparse_len, !.calc = {}]

(* get_model_input, after request_finished_in_worker *)
StatsBuilt ==
    [r \in (DOMAIN gsa_stats \ finished) \cup Scheduled |->
        IF r \notin Scheduled THEN gsa_stats[r]
        ELSE IF r \in out.new \cup out.resumed THEN add_req_new(r) ELSE updata_req_state(r, gsa_stats[r])]

(* a request has a slot from its first step until it is finished *)
Freed ==
    LET gone == DOMAIN cache_map \cap finished
    IN [map |-> Restrict(cache_map, DOMAIN cache_map \ gone),
        free |-> free_cache \o SetToSeq({cache_map[r] : r \in gone})]
Alloc(slots, r) ==
    IF r \in DOMAIN slots.map \/ slots.free = <<>> THEN slots
    ELSE [map |-> Put(slots.map, r, Head(slots.free)), free |-> Tail(slots.free)]
SlotsAllocated ==
    LET allocated[i \in 0..Len(out.order)] ==
            IF i = 0 THEN Freed ELSE Alloc(allocated[i - 1], out.order[i])
    IN allocated[Len(out.order)]

----------------------------------------------------------------------------
(* GSAPrefetchBase: what a step attends with *)

(* _set_req_stat *)
RunTypes ==
    LET known == DOMAIN is_gsa_req_id \ (finished \cup out.resumed)
    IN [r \in known \cup Scheduled |->
           (r \in known /\ is_gsa_req_id[r]) \/ (r \in Scheduled /\ is_gsa(r))]

(* _get_run_type *)
atb_gsa_enable == \E r \in Scheduled : is_gsa(r)

(* blocks are chosen anew when the last choice is done *)
is_topk_cal == atb_gsa_enable /\ offload.topk_flag /\ topk_space % 3 = 0

compute_topk_len(n) ==
    LET part == Ceil(30 * n, 100)
    IN IF part < GsaMinTopk THEN Least(GsaMinTopk, n) ELSE Least(part, GsaMaxTopk)

(* _topk_tmp_deal: the last choice goes to its requests, and this batch is *)
(* the next to be chosen for; nothing chosen yet is block 1, all over      *)
Dealt(stats) ==
    [r \in DOMAIN stats |->
        LET mine == {i \in DOMAIN topk_bs : topk_bs[i].req = r /\ topk_bs[i].gsa}
        IN IF mine = {} THEN stats[r]
           ELSE LET i == CHOOSE j \in mine : TRUE
                IN [stats[r] EXCEPT !.topk = SubSeq(topk_buf_tmp[i], 1, topk_bs[i].len)]]
ChosenFor(stats) ==
    [i \in DOMAIN UpdatedBatch |->
        LET r == UpdatedBatch[i]
            n == Len(stats[r].blocks)
        IN [req |-> r, gsa |-> is_gsa(r), len |-> compute_topk_len(n) + GsaPrefetch, blocks |-> n]]
Zeros(bs) == [i \in DOMAIN bs |-> [j \in 1..bs[i].len |-> 1]]

\* Mutant: the last block is not added to what was chosen.
InsertNothing(r, st) == st

(* the last block is always attended to *)
_topk_insert_last_idx(r, st) ==
    IF r \notin Scheduled \/ st.topk = <<>> \/ Len(st.blocks) \in ToSet(st.topk) THEN st
    ELSE [st EXCEPT !.topk = Append(@, Len(st.blocks))]

(* model_input_deal *)
StatsUsed ==
    LET dealt == IF is_topk_cal THEN Dealt(StatsBuilt) ELSE StatsBuilt
    IN IF atb_gsa_enable THEN [r \in DOMAIN dealt |-> _topk_insert_last_idx(r, dealt[r])] ELSE StatsBuilt

(* the blocks of r that are attended to, in this order, and how many tokens *)
_no_gsa_input_deal(r, st) ==
    LET n    == computed[r] + out.n[r]
        rest == n % BlockSize
        k    == Len(st.topk)
    IN IF RunTypes[r] /\ st.topk # <<>> /\ Max(ToSet(st.topk)) <= Len(st.blocks)
       THEN [idx |-> st.topk, len |-> IF rest = 0 THEN k * BlockSize ELSE (k - 1) * BlockSize + rest]
       ELSE [idx |-> [i \in DOMAIN st.blocks |-> i], len |-> n]

(* attention_begin: the block table and the length that replace those of the runner *)
InputOf(r, st) ==
    IF atb_gsa_enable THEN _no_gsa_input_deal(r, st)
    ELSE [idx |-> [i \in DOMAIN UpdatedRows[r] |-> i], len |-> SeqLen(r)]
TableOf(r, st, in) == IF atb_gsa_enable THEN [i \in DOMAIN in.idx |-> st.blocks[in.idx[i]]] ELSE UpdatedRows[r]

(* The KV attended to in a memory m is that of distinct positions of the   *)
(* request: those before `upTo`, the last one its newest.                  *)
RightPositions(m, r, in, table, upTo) ==
    LET position == [j \in 1..in.len |-> (in.idx[BlockOf(j)] - 1) * BlockSize + PlaceOf(j)]
    IN /\ IsInjective(position)
       /\ position[in.len] = SeqLen(r)
       /\ \A j \in 1..in.len : position[j] <= upTo =>
             KV(m, table, j) = SubSeq(tokens[r], 1, position[j])
       /\ \A j \in 1..in.len : position[j] <= SeqLen(r)
ContextOk(m, r, stats, upTo) ==
    LET in == InputOf(r, stats[r])
    IN RightPositions(m, r, in, TableOf(r, stats[r], in), upTo)

(* the attention of all requests *)
Attended(stats) ==
    FoldLeft(LAMBDA m, r : Attend(m, UpdatedRows, r, ContextOk(m, r, stats, computed[r])), hbm, out.order)

(* copy_k: the representations of this step's blocks, once per layer *)
Copied(m, stats, slots) ==
    [s \in DOMAIN kpre_caches |->
        LET mine == {r \in Scheduled \cap DOMAIN slots : slots[r] = s}
        IN IF mine = {} THEN kpre_caches[s]
           ELSE LET r == CHOOSE q \in mine : TRUE
                IN [i \in stats[r].calc |-> m[stats[r].blocks[i]]] @@ kpre_caches[s]]

----------------------------------------------------------------------------
(* CalKpreAndTopk: the copy thread and the one that scores *)

(* SetTopkParam, and copy requests: the queries before the keys *)
Asked(o, queries, keys) ==
    [o EXCEPT !.needCalTopk = @ \/ queries,
              !.copyQueue = @ \o (IF queries THEN <<[of |-> "q", needCalKpre |-> keys]>> ELSE <<>>)
                              \o (IF keys THEN <<[of |-> "k", needCalKpre |-> TRUE]>> ELSE <<>>)]

(* the copy thread takes a request and copies *)
CopyData(o) ==
    [o EXCEPT !.copyQueue = Tail(@), !.copied = Head(o.copyQueue).of,
              !.needCalPre = IF Head(o.copyQueue).of = "q" THEN Head(o.copyQueue).needCalKpre ELSE @]

(* then it says so, in some cases under m_calLock *)
NeedsLock(o) == o.copied = "k" \/ ~o.needCalPre
SetDataReady(o) ==
    IF o.copied = "k"
    THEN [o EXCEPT !.copied = "nothing", !.needCalPre = TRUE, !.topk_flag = FALSE, !.kReady = TRUE]
    ELSE [o EXCEPT !.copied = "nothing", !.qReady = TRUE, !.topk_flag = @ /\ o.needCalPre]

CheckDataStatus(o) == IF o.needCalPre THEN o.kReady ELSE o.qReady
CanCalculate(o) == (o.needCalPre => o.kReady) /\ (o.needCalTopk => o.qReady)

ResetReady(o) ==
    [o EXCEPT !.calc = "waits", !.needCalTopk = FALSE, !.needCalPre = FALSE,
              !.qReady = @ /\ ~o.needCalTopk, !.kReady = @ /\ ~o.needCalPre]

(* TopKImpl: the first block, the last two, and the best of the others *)
TopKImpl(n, k) ==
    {<<1, n - 1, n>> \o pick : pick \in {SetToSeq(S) : S \in kSubset(k - 3, 2..(n - 2))}}

(* the choice for each request of the batch that decodes *)
CalculateTopk ==
    IF ~offload.needCalTopk THEN {topk_buf_tmp}
    ELSE LET of(i) == IF topk_bs[i].gsa THEN TopKImpl(topk_bs[i].blocks, topk_bs[i].len) ELSE {topk_buf_tmp[i]}
         IN {f \in [DOMAIN topk_bs -> UNION {of(i) : i \in DOMAIN topk_bs}] : \A i \in DOMAIN topk_bs : f[i] \in of(i)}

Drained(o) ==
    FoldLeft(LAMBDA p, c : SetDataReady(CopyData(p)), o, o.copyQueue)

Threads(o) ==
    /\ offload' = o
    /\ UNCHANGED <<engineVars, gsa_stats, cache_map, free_cache, kpre_caches, is_gsa_req_id, topk_space, topk_bs>>

CopyTakes ==
    /\ offload.copied = "nothing" /\ offload.copyQueue # <<>>
    /\ Threads(CopyData(offload)) /\ UNCHANGED topk_buf_tmp

CopyDone ==
    /\ offload.copied # "nothing"
    /\ NeedsLock(offload) => offload.calc = "waits"
    /\ Threads(SetDataReady(offload)) /\ UNCHANGED topk_buf_tmp

(* Calculate: it has m_calLock from here until ResetReady *)
CalculateBegins ==
    /\ load.slow /\ offload.calc = "waits" /\ CheckDataStatus(offload)
    /\ Threads([offload EXCEPT !.calc = "runs"]) /\ UNCHANGED topk_buf_tmp

CalForOneLayer ==
    /\ offload.calc = "runs" /\ CanCalculate(offload)
    /\ topk_buf_tmp' \in CalculateTopk
    /\ Threads([offload EXCEPT !.calc = "ends", !.topk_flag = TRUE])

CalculateEnds ==
    /\ offload.calc = "ends"
    /\ Threads(ResetReady(offload)) /\ UNCHANGED topk_buf_tmp

(* in a load that is not slow, the same without the steps of the engine in between *)
CalculateAtOnce ==
    /\ ~load.slow /\ CheckDataStatus(offload) /\ CanCalculate(offload)
    /\ topk_buf_tmp' \in CalculateTopk
    /\ Threads(ResetReady([offload EXCEPT !.topk_flag = TRUE]))

----------------------------------------------------------------------------
(* the step of the worker; a step without tokens runs no hook but that of  *)
(* the finished requests                                                   *)
Execute ==
    /\ pc = "execute"
    /\ LET stats == StatsUsed
           m     == Attended(stats)
           slots == SlotsAllocated
           asked == Asked(offload, is_topk_cal, \E r \in Scheduled : stats[r].calc # {})
       IN /\ StepEnds(\E r \in Scheduled : r \notin DOMAIN slots.map)
          /\ hbm' = m
          /\ gsa_stats' = stats
          /\ cache_map' = slots.map /\ free_cache' = slots.free
          /\ kpre_caches' = Copied(m, stats, slots.map)
          /\ is_gsa_req_id' = RunTypes
          /\ topk_space' = IF out.order = <<>> THEN topk_space ELSE (topk_space + 1) % 3
          /\ topk_bs' = IF is_topk_cal THEN ChosenFor(stats) ELSE topk_bs
          /\ topk_buf_tmp' = IF is_topk_cal THEN Zeros(ChosenFor(stats)) ELSE topk_buf_tmp
          /\ offload' = IF load.slow THEN asked ELSE Drained(asked)

Init ==
    /\ EngineInit
    /\ gsa_stats = <<>>
    /\ cache_map = <<>> /\ free_cache = [i \in 1..GsaSlots |-> i - 1]
    /\ kpre_caches = [s \in 0..(GsaSlots - 1) |-> <<>>]
    /\ is_gsa_req_id = <<>> /\ topk_space = 0 /\ topk_bs = <<>> /\ topk_buf_tmp = <<>>
    /\ offload = [topk_flag |-> TRUE, needCalTopk |-> FALSE, needCalPre |-> FALSE, kReady |-> FALSE,
                  qReady |-> FALSE, copyQueue |-> <<>>, copied |-> "nothing", calc |-> "waits"]

(* what the engine and the threads do, and the clients *)
Steps ==
    \/ (Schedule \/ RunningDone \/ WaitingDone) /\ UNCHANGED gsaVars
    \/ RunningTurn \/ WaitingTurn
    \/ Execute
    \/ CopyTakes \/ CopyDone \/ CalculateBegins \/ CalForOneLayer \/ CalculateEnds \/ CalculateAtOnce

Clients == \E r \in Requests : (Arrive(r) \/ Abort(r)) /\ UNCHANGED gsaVars

Next == Steps \/ Clients

=============================================================================
