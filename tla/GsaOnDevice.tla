----------------------------- MODULE GsaOnDevice -----------------------------
(***************************************************************************)
(* GSAOnDevice (ucm/sparse/gsa_on_device/gsa_on_device.py) on CUDA with    *)
(* grouped queries.  All KV stays on the device.  Beside the KV the worker *)
(* keeps a hash of the key of every position; in a decode step the hashes  *)
(* of the request's positions are scored against the hash of its query,    *)
(* and the best hash_topk_tokens are attended to.                          *)
(*                                                                         *)
(* The connector's part, and the engine's part in telling it, are external:*)
(* the blocks of the prompt that the store holds are matched when a        *)
(* request is admitted, and loaded before the attention of its first step. *)
(* Which positions score best is left open.                                *)
(***************************************************************************)
EXTENDS SparseEngine

CONSTANT TopkTokens  \* vllm_hash_attention_topk

VARIABLES is_prefill_flag,
          num_external_computed_tokens_per_req,  \* of the SchedulerOutput
          k_hash                                 \* [0..HbmBlocks -> the KV its positions are hashes of]

gsaVars == <<is_prefill_flag, num_external_computed_tokens_per_req, k_hash>>

----------------------------------------------------------------------------
(* the scheduler side: estimate_num_slots_sparsed is always INVALID_SLOT *)

RunningTurn ==
    /\ pc = "running" /\ at <= Len(running)
    /\ LET r == running[at]
       IN ScheduleRunning(r, INVALID_SLOT,
              original_allocate_slots(r, computed[r], NewTokens(r, computed[r]), <<>>))
    /\ UNCHANGED gsaVars

(* the store is asked for what follows the blocks found on the device *)
WaitingTurn ==
    /\ CanAdmit
    /\ LET r    == Head(waiting)
           hits == CachedPrefix(r)
           here == Len(hits) * BlockSize
           ext  == IF load.stored[r] > here THEN load.stored[r] - here ELSE 0
           a    == original_allocate_slots(r, here + ext, NewTokens(r, here + ext), hits)
       IN /\ ScheduleWaiting(r, INVALID_SLOT, here + ext, a)
          /\ num_external_computed_tokens_per_req' =
                 IF a.ok THEN (r :> ext) @@ num_external_computed_tokens_per_req
                 ELSE num_external_computed_tokens_per_req
    /\ UNCHANGED <<is_prefill_flag, k_hash>>

----------------------------------------------------------------------------
(* the worker side *)

ExternalTokens(r) ==
    IF r \in DOMAIN num_external_computed_tokens_per_req
    THEN num_external_computed_tokens_per_req[r] ELSE 0

\* Mutant: the flags of finished requests stay.
FlagsOfAll == Restrict(is_prefill_flag, DOMAIN is_prefill_flag \ out.resumed)

(* update_states: the finished and the resumed requests start anew *)
Flags == Restrict(is_prefill_flag, DOMAIN is_prefill_flag \ (finished \cup out.resumed))

(* build_sparse_meta *)
LongEnough(r) == Len(Prompt(r)) >= TopkTokens
IsDecode(r) == LongEnough(r) /\ r \in DOMAIN Flags /\ ~Flags[r]
IsFirstPrefill(r) == LongEnough(r) /\ r \notin DOMAIN Flags
IsLastChunk(r) == computed[r] + out.n[r] >= Len(Prompt(r))
Decodes == {r \in Scheduled : IsDecode(r)}
DecodeOnly == Decodes = Scheduled

UpdatedFlags ==
    [r \in DOMAIN Flags \cup {q \in Scheduled : LongEnough(q)} |->
        IF r \in Scheduled /\ ~IsDecode(r) THEN ~IsLastChunk(r) ELSE Flags[r]]

\* Mutant: no hashes of prefixes that were loaded.
PrefixHitsNone == {}

(* rebuild_prefix_cache_info_for_req, for a request the store had a part of *)
PrefixHits == {r \in Scheduled : IsFirstPrefill(r) /\ ExternalTokens(r) > 0}
num_prefix_tokens(r) == Len(Prompt(r)) - out.n[r]

(* update_seq_lens: whole blocks are dropped until topk_token tokens are left *)
update_seq_lens(n) == n - Ceil(IF n > TopkTokens THEN n - TopkTokens ELSE 0, BlockSize) * BlockSize

(* update_decode_topk_gqa_cuda: the row of the query that is taken for r, *)
(* and the rows that are r's own                                          *)
IndexInBatch(r) == CHOOSE i \in DOMAIN UpdatedBatch : UpdatedBatch[i] = r
QueryStart(r) == FoldLeft(LAMBDA n, q : n + out.n[q], 0, SubSeq(UpdatedBatch, 1, IndexInBatch(r) - 1))
QueryRow(r) == IndexInBatch(r) - 1

(* place j of block v is one of these positions of r *)
At(r, v, j, positions) == \E p \in positions : BlockAt(UpdatedRows[r], p) = v /\ PlaceOf(p) = j

(* start_load_kv of the connector *)
Loaded ==
    LET loading == {r \in Scheduled : ExternalTokens(r) > 0}
        part(r) == (computed[r] - ExternalTokens(r) + 1)..computed[r]
        by(v, j) == {r \in loading : At(r, v, j, part(r))}
    IN [v \in DOMAIN hbm |-> [j \in 1..BlockSize |->
          IF by(v, j) = {} THEN hbm[v][j]
          ELSE LET r == CHOOSE q \in by(v, j) : TRUE
               IN SubSeq(tokens[r], 1, CHOOSE p \in part(r) : BlockAt(UpdatedRows[r], p) = v /\ PlaceOf(p) = j)]]

Attended(m0) ==
    FoldLeft(LAMBDA m, r : Attend(m, UpdatedRows, r, DenseContext(m, UpdatedRows, r)), m0, out.order)

(* cache_k_hash_gqa_cuda: the hashes of the new keys, then those of the     *)
(* prefixes that were loaded, from the KV cache the attention has not yet  *)
(* written to                                                              *)
cache_k_hash(m0, m) ==
    [v \in DOMAIN k_hash |-> [j \in 1..BlockSize |->
        IF \E r \in PrefixHits : At(r, v, j, 1..num_prefix_tokens(r)) THEN m0[v][j]
        ELSE IF \E r \in Scheduled : At(r, v, j, (computed[r] + 1)..(computed[r] + out.n[r])) THEN m[v][j]
        ELSE k_hash[v][j]]]

Execute ==
    /\ pc = "execute"
    /\ LET m0 == Loaded
           m  == Attended(m0)
       IN /\ StepEnds(\E r \in PrefixHits : num_prefix_tokens(r) < 0)
          /\ hbm' = m
          /\ k_hash' = cache_k_hash(m0, m)
    /\ is_prefill_flag' = UpdatedFlags
    /\ num_external_computed_tokens_per_req' = <<>>

Init ==
    /\ EngineInit
    /\ is_prefill_flag = <<>>
    /\ num_external_computed_tokens_per_req = <<>>
    /\ k_hash = [v \in 0..HbmBlocks |-> [j \in 1..BlockSize |-> Junk]]

(* what the engine does, and its clients *)
Steps ==
    \/ (Schedule \/ RunningDone \/ WaitingDone) /\ UNCHANGED gsaVars
    \/ RunningTurn \/ WaitingTurn
    \/ Execute

Clients == \E r \in Requests : (Arrive(r) \/ Abort(r)) /\ UNCHANGED gsaVars

Next == Steps \/ Clients

=============================================================================
