---------------------------- MODULE SparseMethods ----------------------------
(***************************************************************************)
(* The engine with the sparse method it is configured with                 *)
(* (ucm/sparse/factory.py, state.py): one agent per process, of the method *)
(* named in ucm_sparse_config.  The method of a behaviour is that of its   *)
(* load; the state of the others never changes.                            *)
(***************************************************************************)
EXTENDS SparseEngine

CONSTANTS EsaInit, EsaLocal, EsaMinBlocks, EsaRatio, EsaStride, EsaModelLen,
          StarInit, StarLocal, StarRatio, StarStride,
          TopkTokens, NumLayers, RollbackLayers, SkipLayers, SeqLenThreshold,
          GsaThreshold, GsaMinTopk, GsaMaxTopk, GsaPrefetch, GsaSlots,
          ReropeWindow, QueryHeads, KvHeads, BlockM, Segments

(* what each of the methods assumes of its configuration *)
ASSUME EsaAssumption ==
    /\ {EsaInit, EsaLocal, EsaMinBlocks, EsaRatio, EsaModelLen} \subseteq Nat \ {0}
    /\ EsaInit + EsaLocal < EsaMinBlocks /\ EsaStride \in Nat /\ EsaStride > 2
ASSUME KVStarAssumption ==
    /\ {StarInit, StarLocal, StarRatio} \subseteq Nat \ {0}
    /\ StarStride \in Nat /\ StarStride > 1
ASSUME GsaOnDeviceAssumption ==
    /\ TopkTokens \in Nat \ {0} /\ TopkTokens % BlockSize = 0 /\ TopkTokens > 2 * BlockSize
    /\ SeqLenThreshold \in Nat /\ SeqLenThreshold >= TopkTokens
    /\ NumLayers \in Nat
    \* a layer that skips comes after one that scores (configs/)
    /\ \A l \in SkipLayers \ RollbackLayers : \E k \in 1..(l - 1) : k \notin SkipLayers \cup RollbackLayers
(* a long request has more blocks than are ever chosen (utils.py) *)
ASSUME GsaAssumption ==
    /\ {GsaThreshold, GsaMinTopk, GsaMaxTopk, GsaPrefetch, GsaSlots} \subseteq Nat \ {0}
    /\ 2 < GsaMinTopk /\ GsaMinTopk <= GsaMaxTopk
    /\ (GsaMaxTopk + GsaPrefetch) * BlockSize <= GsaThreshold

ASSUME ReRoPEAssumption ==
    /\ {ReropeWindow, QueryHeads, KvHeads, BlockM, Segments} \subseteq Nat \ {0}
    /\ QueryHeads % KvHeads = 0 /\ QueryHeads <= KvHeads * BlockM

VARIABLES preempt_req_output_tokens, esa_states, data, free_slots, esa_tasks,
          star_states, star_tasks,
          is_prefill_flag, num_external_computed_tokens_per_req, k_hash,
          gsa_stats, cache_map, free_cache, kpre_caches, is_gsa_req_id, topk_space,
          topk_bs, topk_buf_tmp, offload,
          use_rerope_map, value_cache, key_cache2, external_hits

ESA == INSTANCE ESA WITH req_states <- esa_states, tasks <- esa_tasks
KVStar == INSTANCE KVStar WITH req_states <- star_states, tasks <- star_tasks
Hash == INSTANCE GsaLayers
GSA == INSTANCE GSA
ReRoPE == INSTANCE ReRoPE

esaVars == <<preempt_req_output_tokens, esa_states, data, free_slots, esa_tasks>>
starVars == <<star_states, star_tasks>>
hashVars == <<is_prefill_flag, num_external_computed_tokens_per_req, k_hash>>
gsaVars == <<gsa_stats, cache_map, free_cache, kpre_caches, is_gsa_req_id, topk_space,
             topk_bs, topk_buf_tmp, offload>>
reropeVars == <<use_rerope_map, value_cache, key_cache2, external_hits>>
vars == <<engineVars, esaVars, starVars, hashVars, gsaVars, reropeVars>>

(* create_sparse_method: the agents of both roles are made from the config *)
Init == ESA!Init /\ KVStar!Init /\ Hash!Init /\ GSA!Init /\ ReRoPE!Init

(* the state of a method only changes when it is the agent: ensure_ucm_sparse_initialized *)
EsaNext == load.method = "ESA" /\ ESA!Next /\ UNCHANGED <<starVars, hashVars, gsaVars, reropeVars>>
KVStarNext == load.method = "KVStarMultiStep" /\ KVStar!Next /\ UNCHANGED <<esaVars, hashVars, gsaVars, reropeVars>>
HashNext == load.method = "GSAOnDevice" /\ Hash!Next /\ UNCHANGED <<esaVars, starVars, gsaVars, reropeVars>>
GsaNext == load.method = "GSA" /\ GSA!Next /\ UNCHANGED <<esaVars, starVars, hashVars, reropeVars>>
ReropeNext == load.method = "ReRoPE" /\ ReRoPE!Next /\ UNCHANGED <<esaVars, starVars, hashVars, gsaVars>>

Next == EsaNext \/ KVStarNext \/ HashNext \/ GsaNext \/ ReropeNext

(* The loop of the engine goes on while it has requests: each phase of a   *)
(* step, whose turns are finitely many, comes to its end.  What clients do *)
(* is not fair.                                                            *)
Busy == engine = "up" /\ (pc # "idle" \/ waiting # <<>> \/ running # <<>> \/ finished # {})
PhaseEnds == Busy /\ \E p \in {"idle", "running", "waiting", "execute"} : pc' = p

Spec == Init /\ [][Next]_vars
FairSpec == Spec /\ WF_pc(PhaseEnds)

----------------------------------------------------------------------------
TypeOK ==
    /\ engine \in {"up", "down"} /\ pc \in {"idle", "running", "waiting", "execute"}
    /\ status \in [Requests -> {"new", "WAITING", "RUNNING", "PREEMPTED", "FINISHED"}]
    /\ ToSet(waiting) = {r \in Requests : status[r] \in {"WAITING", "PREEMPTED"}}
    /\ ToSet(running) = {r \in Requests : status[r] = "RUNNING"}
    /\ IsInjective(waiting) /\ IsInjective(running)
    /\ \A r \in Requests : computed[r] \in 0..Len(tokens[r]) /\ Outputs(r) \in 0..MaxOutput
    /\ Len(running) <= MaxRunning /\ budget \in 0..load.budget
    /\ free_slots \subseteq 0..(ESA!num_slots - 1)

(* Every block of the device is free, once, or held by a request: no       *)
(* allocate_slots of a method, preemption or abort loses a block or frees  *)
(* one that is in use.                                                     *)
BlocksAreWhole ==
    LET used == UNION {ToSet(blocks[r]) : r \in Requests}
    IN /\ IsInjective(free)
       /\ ToSet(free) \cap used = {}
       /\ ToSet(free) \cup used = 1..load.hbm

(* The block tables the worker attends with are those the scheduler        *)
(* allocated, whether a request's table grew, was replaced by a compressed *)
(* one, left the persistent batch or came back (_update_states), and the   *)
(* batch has each scheduled request once.                                  *)
TablesAgree ==
    pc = "execute" =>
        /\ \A r \in Scheduled : UpdatedHeld[r] = blocks[r] /\ UpdatedRows[r] = blocks[r]
        /\ IsInjective(UpdatedBatch) /\ ToSet(UpdatedBatch) = Scheduled

(* ESA: what a request attends to is the KV of its tokens: all of it while *)
(* it is not compressed; afterwards its first and last blocks, everything  *)
(* generated, and top_k distinct blocks of the middle, whatever retrieval  *)
(* chooses.  Requests whose prefilled tokens fill their last block are     *)
(* left out (EsaFullLoads).                                                *)
EsaPrefilled(r) == Len(tokens[r]) - ESA!NumOutputTokens(r)
EsaAttends(r) ==
    \A got \in ESA!Retrievals : ESA!ContextOk(ESA!Attended(ESA!Begun(got)), r, SeqLen(r))
EsaContextIsRight ==
    load.method = "ESA" /\ pc = "execute" =>
        \A r \in Scheduled : (Sparsed(r) => EsaPrefilled(r) % BlockSize # 0) => EsaAttends(r)

(* The same without leaving any out.                                       *)
EsaAllContextIsRight ==
    load.method = "ESA" /\ pc = "execute" => \A r \in Scheduled : EsaAttends(r)

(* KVStar: likewise, once windows are restored into the blocks that were   *)
(* kept and the rest is loaded.  Requests without a representation are     *)
(* left out (StarFirstLoads).                                              *)
KVStarAttends(r) ==
    \A got \in KVStar!Retrievals : KVStar!ContextOk(KVStar!Attended(KVStar!Begun(got)), r, SeqLen(r))
KVStarContextIsRight ==
    load.method = "KVStarMultiStep" /\ pc = "execute" =>
        \A r \in Scheduled :
            (r \in KVStar!InMeta => KVStar!StateOf(r).blk_repre # KVStar!NONE) => KVStarAttends(r)

(* The same without leaving any out.                                       *)
KVStarAllContextIsRight ==
    load.method = "KVStarMultiStep" /\ pc = "execute" => \A r \in Scheduled : KVStarAttends(r)

(* Both.                                                                   *)
CompressedContextIsRight == EsaContextIsRight /\ KVStarContextIsRight

(* GSA: what a request attends to once blocks were chosen for it, on other *)
(* threads and for an earlier step, is the KV of distinct tokens of its    *)
(* own, its newest the last of all (model_input_deal, attention_begin).    *)
(* Left out: loads in which the copy thread falls behind (GsaSlowLoads) and*)
(* steps whose last block was chosen, not added (GsaLastBlock).            *)
LastIsChosen(in, st) == Len(st.blocks) \in ToSet(SubSeq(in.idx, 1, Len(in.idx) - 1))
GsaContextIsRight ==
    load.method = "GSA" /\ pc = "execute" /\ ~load.slow =>
        LET stats == GSA!StatsUsed
            m     == GSA!Attended(stats)
        IN \A r \in Scheduled :
             LastIsChosen(GSA!InputOf(r, stats[r]), stats[r]) \/ GSA!ContextOk(m, r, stats, SeqLen(r))

(* The same without leaving any out.                                       *)
GsaAllContextIsRight ==
    load.method = "GSA" /\ pc = "execute" =>
        LET stats == GSA!StatsUsed
            m     == GSA!Attended(stats)
        IN \A r \in Scheduled : GSA!ContextOk(m, r, stats, SeqLen(r))

(* GSA: the two threads never wait for each other: the one that scores,    *)
(* which has the lock, for queries the other cannot hand over without it.  *)
ThreadsGoOn ==
    ~ (/\ offload.calc = "runs" /\ ~GSA!CanCalculate(offload)
       /\ offload.copied = "q" /\ GSA!NeedsLock(offload))

(* ESA, GSA: a slot is free or of one request, and holds the               *)
(* representation of the block of that request it stands for               *)
(* (block_repre_data, copy_k), however requests come, finish and are       *)
(* preempted.  GSA never represents the last block of a prompt, and        *)
(* represents a generated block when its first token is there; a block     *)
(* that two chunks share is represented by the first.                      *)
EsaSlotsAreOwn ==
    \A r \in DOMAIN esa_states :
        LET own == esa_states[r].slots IN
        /\ ToSet(own) \cap free_slots = {}
        /\ \A q \in DOMAIN esa_states \ {r} : ToSet(own) \cap ToSet(esa_states[q].slots) = {}
        /\ \A i \in DOMAIN own : data[own[i]] = BlockKV(Prompt(r), EsaInit + i)
GsaSlotsAreOwn ==
    /\ IsInjective(cache_map) /\ IsInjective(free_cache) /\ Range(cache_map) \cap ToSet(free_cache) = {}
    /\ \A r \in DOMAIN gsa_stats :
         \A i \in 1..((Len(Prompt(r)) - 1) \div BlockSize) :
             i * BlockSize <= computed[r] /\ r \notin finished =>
                 r \in DOMAIN cache_map /\ i \in DOMAIN kpre_caches[cache_map[r]]
                     /\ kpre_caches[cache_map[r]][i] = BlockKV(Prompt(r), i)
SlotsAreOwn == EsaSlotsAreOwn /\ (pc = "idle" => GsaSlotsAreOwn)


(* GSAOnDevice: the hashes a decode step scores are those of the keys in   *)
(* place, for computed, cached and loaded positions alike                  *)
(* (cache_k_hash_gqa_cuda), and what is left of the sequence fits the      *)
(* table of the best blocks (update_seq_lens).                             *)
KHashIsRight ==
    load.method = "GSAOnDevice" /\ pc = "execute" =>
        LET m == Hash!Attended(Hash!Loaded)
            k == Hash!cache_k_hash(Hash!Loaded, m)
        IN \A r \in Hash!Decodes :
             /\ \A p \in 1..SeqLen(r) : KV(k, UpdatedRows[r], p) = SubSeq(tokens[r], 1, p)
             /\ \A p \in 1..SeqLen(r) : KV(m, UpdatedRows[r], p) = SubSeq(tokens[r], 1, p)
             /\ Hash!update_seq_lens(SeqLen(r)) \in 1..TopkTokens
             /\ (Hash!update_seq_lens(SeqLen(r)) - SeqLen(r)) % BlockSize = 0

(* GSAOnDevice: in every layer each decoding request attends to whole      *)
(* blocks of its own that the last scoring chose, and its newest token     *)
(* comes last: the shortened length fits the shortened table; others, and  *)
(* rollback layers, attend to everything; and the metadata are back in     *)
(* full afterwards (attention_begin, attention_finished).  On NPU, steps   *)
(* in which short requests decode behind long ones are left out.           *)
DecodeTablesAreRight ==
    load.method = "GSAOnDevice" /\ pc = "execute" =>
        \A variant \in Hash!Variants : \A top \in 1..3 :
            (variant = "gqa_npu" => ~Hash!RowsAreLeft) => Hash!TablesAreRight(variant, Hash!Batch(variant), top)

(* The same without leaving any out (GsaNpuRows).                          *)
AllDecodeTablesAreRight ==
    load.method = "GSAOnDevice" /\ pc = "execute" =>
        \A variant \in Hash!Variants : Hash!TablesAreRight(variant, Hash!Batch(variant), 1)

(* ReRoPE: in a batch with a long prompt, each token attends in each head *)
(* to every position of its own up to itself, once, however the kernels    *)
(* deal rows, blocks and segments to programs: at the relative position,   *)
(* or the window when that is farther.  A batch without is computed as it  *)
(* is, of requests with short prompts only.  One position short of the     *)
(* window either is allowed, and nothing comes from a store                *)
(* (ReropeReloaded).                                                       *)
Attends(in, got, i, k, h, either) ==
    LET r     == UpdatedBatch[i]
        query == computed[r] + k - 1
        seen  == got[<<in.query_start_loc[i - 1] + k - 1, h>>]
        own(p)  == SubSeq(tokens[r], 1, p + 1)
        near(p) == {Least(query - p, ReropeWindow)} \cup (IF query - p \in either THEN {ReropeWindow} ELSE {})
    IN /\ \A x \in DOMAIN seen : seen[x] = 1
       /\ Cardinality(DOMAIN seen) = query + 1
       /\ \A p \in 0..query : \E d \in near(p) : <<<<p, own(p), d>>, own(p)>> \in DOMAIN seen
Rectified(either) ==
    load.method = "ReRoPE" /\ pc = "execute" /\ out.order # <<>> =>
        LET in    == ReRoPE!AttnMetadata
            cache == ReRoPE!unified_attention_with_output
            got   == ReRoPE!unified_attention_rerope(in, cache)
        IN IF in.use_rerope
           THEN \A i \in DOMAIN UpdatedBatch : \A k \in 1..out.n[UpdatedBatch[i]] :
                  \A h \in 0..(QueryHeads - 1) : Attends(in, got, i, k, h, either)
           ELSE \A r \in Scheduled : ReRoPE!InPlace(cache, r) /\ Len(Prompt(r)) <= ReropeWindow
RectifiedIsRight == Rectified({ReropeWindow - 1})

(* The same with the window as documented.                                 *)
RectifiedAsDocumented == Rectified({})


(* What a method keeps of a request goes when the request does: when it is *)
(* reported finished, or resumed.                                          *)
NothingStays ==
    \A r \in UNION {DOMAIN esa_states, DOMAIN star_states, DOMAIN is_prefill_flag, DOMAIN gsa_stats,
                   DOMAIN cache_map, DOMAIN is_gsa_req_id} :
        status[r] # "FINISHED" \/ r \in finished

(* Every request that arrives is served or given up, although requests     *)
(* preempt each other and compressed ones are allocated anew.              *)
AllServed == \A r \in Requests : status[r] = "WAITING" ~> (status[r] = "FINISHED" \/ engine = "down")

=============================================================================
