-------------------------------- MODULE Blend --------------------------------
(***************************************************************************)
(* Cache blending: UCMBlendConnector (integration/vllm/blend_connector.py) *)
(* with the Blend method of the workers (sparse/blend/blend.py).  A text   *)
(* chunk is a part of a prompt that ends, at the end of a block, with a    *)
(* fixed token.  The KV of a chunk, computed where the chunk is a prompt's *)
(* beginning, is reused in other prompts wherever the chunk stands: it is  *)
(* loaded, its keys are rotated to their new positions, and at one layer   *)
(* the tokens whose keys differ most from the right ones are picked; only  *)
(* these, and what was not loaded, are computed from there on.             *)
(*                                                                         *)
(* KV of a position is a triple: the tokens it was computed from, which    *)
(* end with its own, the position its key is rotated to, and whether it    *)
(* was computed from other than exact KV.  <<>> is KV of anything else.    *)
(* One layer is modelled, one after that where the tokens are picked.      *)
(* Loads and dumps succeed, but for blocks the store does not hold; prefix *)
(* caching on the device is off, as the connector requires.                *)
(***************************************************************************)
EXTENDS SparseEngine

CONSTANTS ChunkEnd,           \* chunk_end_token_id
          MinBlendThreshold,  \* min_blend_threshold
          Ratio               \* compute_meta[layer].ratio, percent

ASSUME BlendAssumption == MinBlendThreshold \in Nat \ {0} /\ Ratio \in 0..100

VARIABLES requests_blend_meta,  \* of the connector in the scheduler
          store                 \* [ids of blocks -> KV of their positions]

blendVars == <<requests_blend_meta, store>>
vars == <<engineVars, blendVars>>

Exact(t) == <<t, Len(t), FALSE>>
IsExact(kv, t) == kv = Exact(t)

(* the KV that a block with this id stands for: that of the last tokens of *)
(* a sequence that begins at position 1                                    *)
IdKV(id) == [j \in 1..BlockSize |-> Exact(SubSeq(id, 1, Len(id) - BlockSize + j))]
JunkBlock == [j \in 1..BlockSize |-> Junk]

----------------------------------------------------------------------------
(* the scheduler's connector *)

(* the id of a full block: the tokens of its sequence up to its end *)
generate_hash(t) == [i \in 1..(Len(t) \div BlockSize) |-> SubSeq(t, 1, i * BlockSize)]

ChunkEnds(t) == {i \in 1..(Len(t) \div BlockSize) : t[i * BlockSize] = ChunkEnd}

(* ChunkMetaData: positions and lengths in blocks, from 0 *)
ChunkMeta(t, first, end) ==
    [start_blk_idx |-> first, chunk_blks_len |-> end - first, cached_start |-> 0,
     chunk_blks_hash |-> generate_hash(SubSeq(t, first * BlockSize + 1, end * BlockSize)),
     store_hits |-> <<>>]

Compressed(c, s) == {s[i] : i \in {j \in DOMAIN c.store_hits : c.store_hits[j] /\ j \in DOMAIN s}}

\* Mutant: rotated back instead of forward.
OffsetBack(c) == (c.cached_start - c.start_blk_idx) * BlockSize

position_offset(c) == (c.start_blk_idx - c.cached_start) * BlockSize

(* the first n blocks of the prompt are loaded as a prefix instead *)
update_meta_partial_pc(c, n) ==
    [c EXCEPT !.start_blk_idx = @ + n, !.chunk_blks_len = @ - n, !.cached_start = @ + n,
              !.chunk_blks_hash = SubSeq(@, n + 1, Len(@)), !.store_hits = SubSeq(@, n + 1, Len(@))]

(* the chunks of a request; a prompt that is nothing but chunks is built,  *)
(* not blended                                                             *)
_process_req(t) ==
    LET ends == SetToSortSeq(ChunkEnds(t), <)
    IN IF Last(t) = ChunkEnd /\ Len(t) % BlockSize = 0 THEN <<>>
       ELSE [k \in DOMAIN ends |-> ChunkMeta(t, IF k = 1 THEN 0 ELSE ends[k - 1], ends[k])]

lookup(ids) == [i \in DOMAIN ids |-> ids[i] \in DOMAIN store]
CountHits(hits) == Cardinality({i \in DOMAIN hits : hits[i]})
LeadingHits(hits) == CHOOSE n \in 0..Len(hits) :
    (\A i \in 1..n : hits[i]) /\ (n < Len(hits) => ~hits[n + 1])

(* _get_req_chunk_hit: the chunks with what the store has of them *)
ChunksHit(chunks, hits, pc_hits) ==
    LET met == [k \in DOMAIN chunks |-> [chunks[k] EXCEPT !.store_hits =
                   SubSeq(hits, chunks[k].start_blk_idx + 1,
                          chunks[k].start_blk_idx + chunks[k].chunk_blks_len)]]
        first == update_meta_partial_pc(met[1], pc_hits)
    IN IF first.chunk_blks_len = 0 THEN Tail(met) ELSE <<first>> \o Tail(met)

(* get_num_new_matched_tokens: what it notes of a request *)
BlendRequestMeta(t) ==
    LET prefix  == generate_hash(t)
        chunks  == _process_req(t)
        hashes  == FlattenSeq([k \in DOMAIN chunks |-> chunks[k].chunk_blks_hash])
        pc_hits == LeadingHits(lookup(prefix))
        found   == lookup(SubSeq(hashes, pc_hits + 1, Len(hashes)))
        blend   == chunks # <<>> /\ CountHits(found) >= MinBlendThreshold
    IN [ucm_block_hashs |-> IF blend THEN hashes ELSE prefix,
        pc_hit_block_num |-> pc_hits,
        is_blend_cache |-> blend,
        chunks_meta |-> IF blend
                        THEN ChunksHit(chunks, [i \in 1..pc_hits |-> TRUE] \o found, pc_hits)
                        ELSE <<>>]

(* ... and what it answers: the last token is always computed *)
PcHitTokens(t) ==
    LET n == BlendRequestMeta(t).pc_hit_block_num * BlockSize
    IN IF n = Len(t) THEN n - 1 ELSE n

RunningTurn ==
    /\ pc = "running" /\ at <= Len(running)
    /\ LET r == running[at]
       IN ScheduleRunning(r, INVALID_SLOT,
              original_allocate_slots(r, computed[r], NewTokens(r, computed[r]), <<>>))
    /\ UNCHANGED blendVars

WaitingTurn ==
    /\ CanAdmit
    /\ LET r     == Head(waiting)
           short == Len(tokens[r]) < BlockSize
           from  == IF short THEN 0 ELSE PcHitTokens(tokens[r])
       IN /\ ScheduleWaiting(r, INVALID_SLOT, from,
                 original_allocate_slots(r, from, NewTokens(r, from), <<>>))
          /\ requests_blend_meta' = IF short THEN requests_blend_meta
                                    ELSE (r :> BlendRequestMeta(tokens[r])) @@ requests_blend_meta
    /\ UNCHANGED store

(* build_connector_meta: a cached request with one token to compute is     *)
(* taken for one that decodes; notes are kept for good                     *)
InMeta(r) == r \in Scheduled /\ r \in DOMAIN requests_blend_meta /\ (r \in out.new \/ out.n[r] # 1)
MetaOf(r) == requests_blend_meta[r]

(* _generate_blend_dispatch_meta: pairs of an id and a block of the device *)
Zipped(ids, row, first, last) ==
    {<<ids[i], row[i]>> : i \in first..Least(last, Least(Len(ids), Len(row)))}
VllmIds(r, c) == SubSeq(out.blocks[r], c.start_blk_idx + 1, c.start_blk_idx + c.chunk_blks_len)
ChunkLoads(r, c) == LET ids == c.chunk_blks_hash
                    IN Compressed(c, [i \in 1..Least(Len(ids), Len(VllmIds(r, c))) |-> <<ids[i], VllmIds(r, c)[i]>>])

LoadsOf(r) == Zipped(MetaOf(r).ucm_block_hashs, out.blocks[r], 1, MetaOf(r).pc_hit_block_num)
              \cup UNION {ChunkLoads(r, c) : c \in ToSet(MetaOf(r).chunks_meta)}

\* Mutant: what was blended is dumped as well.
DumpsOfAll(r) == Zipped(MetaOf(r).ucm_block_hashs, out.blocks[r], MetaOf(r).pc_hit_block_num + 1,
                        Len(MetaOf(r).ucm_block_hashs))

DumpsOf(r) == IF MetaOf(r).is_blend_cache THEN {}
              ELSE Zipped(MetaOf(r).ucm_block_hashs, out.blocks[r], MetaOf(r).pc_hit_block_num + 1,
                          Len(MetaOf(r).ucm_block_hashs))

AllLoads == UNION {LoadsOf(r) : r \in {q \in Scheduled : InMeta(q)}}
AllDumps == UNION {DumpsOf(r) : r \in {q \in Scheduled : InMeta(q)}}

(* bind_connector_metadata: the blocks to rotate, and by how much *)
DeltaRope == UNION {UNION {{<<v, position_offset(c)>> : v \in Compressed(c, VllmIds(r, c))}
                             : c \in ToSet(MetaOf(r).chunks_meta)} : r \in {q \in Scheduled : InMeta(q)}}

----------------------------------------------------------------------------
(* the worker *)

(* start_load_kv *)
Loaded ==
    [v \in DOMAIN hbm |->
        IF \E l \in AllLoads : l[2] = v
        THEN LET id == (CHOOSE l \in AllLoads : l[2] = v)[1]
             IN IF id \in DOMAIN store THEN store[id] ELSE JunkBlock
        ELSE hbm[v]]

(* wait_for_layer_load *)
Roped(m) ==
    [v \in DOMAIN m |-> [j \in 1..BlockSize |->
        IF m[v][j] # Junk /\ \E d \in DeltaRope : d[1] = v
        THEN [m[v][j] EXCEPT ![2] = @ + (CHOOSE d \in DeltaRope : d[1] = v)[2]]
        ELSE m[v][j]]]

(* query_start_loc: the tokens of the batch before row i, of Total *)
QueryStart(i) == FoldLeft(LAMBDA n, q : n + out.n[q], 0, SubSeq(UpdatedBatch, 1, i - 1))
Total == QueryStart(Len(UpdatedBatch) + 1)

(* reset_blend_meta, add_request: the new requests with chunks, taken to   *)
(* stand behind all cached ones in the batch                               *)
blend_start_req_idx == Cardinality(Scheduled \ out.new)
NewReqs == SelectSeq(out.order, LAMBDA r : r \in out.new)

ReqMeta(i) ==
    LET chunks == MetaOf(NewReqs[i]).chunks_meta
    IN [req_idx |-> blend_start_req_idx + i,
        chunk_hit_mask |-> FlattenSeq([k \in DOMAIN chunks |-> chunks[k].store_hits])]

BlendReqs == {ReqMeta(i) : i \in {j \in DOMAIN NewReqs : InMeta(NewReqs[j]) /\ MetaOf(NewReqs[j]).chunks_meta # <<>>}}
need_blend(q) == CountHits(q.chunk_hit_mask) > 0
NeedUpdate == \E q \in BlendReqs : need_blend(q)

ChunksLen(q) == Len(q.chunk_hit_mask) * BlockSize
CandidateLen(q) == CountHits(q.chunk_hit_mask) * BlockSize
TopK(q) == (CandidateLen(q) * Ratio) \div 100

(* build_sparse_meta wants metadata of every new request; the keys of a    *)
(* request's chunks are to be in the batch                                 *)
Raises == \/ \E r \in out.new : ~InMeta(r)
          \/ \E q \in BlendReqs : need_blend(q) /\ QueryStart(q.req_idx) + ChunksLen(q) > Total

(* the tokens, among those of chunks that were hit, whose keys may differ most *)
HitTokens(q) == {k \in 1..ChunksLen(q) : q.chunk_hit_mask[BlockOf(k)]}
TopKIndices ==
    LET topk(q) == kSubset(TopK(q), HitTokens(q))
    IN {f \in [BlendReqs -> UNION {topk(q) : q \in BlendReqs}] : \A q \in BlendReqs : f[q] \in topk(q)}

(* update_req_compute_mask: the tokens of the batch, from 1, a request keeps *)
ReqComputeMask(q, top) ==
    LET start == QueryStart(q.req_idx)
        end   == QueryStart(q.req_idx + 1)
    IN IF ~need_blend(q) THEN (start + 1)..end
       ELSE {start + k : k \in ((1..ChunksLen(q)) \ HitTokens(q)) \cup top}
            \cup ((start + ChunksLen(q) + 1)..end)

(* attention_begin: the tokens that are computed, and how many of each row *)
compute_mask(top) ==
    IF ~NeedUpdate THEN 1..Total
    ELSE (1..blend_start_req_idx) \cup UNION {ReqComputeMask(q, top[q]) : q \in BlendReqs}

QueryLen(i) == out.n[UpdatedBatch[i]] -
    (IF \E q \in BlendReqs : q.req_idx = i /\ need_blend(q)
     THEN LET q == CHOOSE p \in BlendReqs : p.req_idx = i IN CandidateLen(q) - TopK(q)
     ELSE 0)

(* The tokens of a row are its own when as many are kept as it is said to  *)
(* have, in it and before it.                                              *)
Kept(mask, i) == Cardinality({k \in mask : k > QueryStart(i) /\ k <= QueryStart(i + 1)})
RowIsOwn(mask, i) == Kept(mask, i) = QueryLen(i)
Aligned(mask, i) == \A j \in 1..i : RowIsOwn(mask, j)

(* KV that may stand for position p of r: exact or blended KV of its       *)
(* tokens, or that of its chunk                                            *)
ChunkStart(t, p) == FoldSet(LAMBDA i, n : IF i * BlockSize < p /\ i > n THEN i ELSE n, 0, ChunkEnds(t)) * BlockSize
Right(kv, t, p) ==
    /\ kv # Junk /\ kv[2] = p
    /\ \/ kv[1] = SubSeq(t, 1, p)
       \/ ~kv[3] /\ kv[1] = SubSeq(t, ChunkStart(t, p) + 1, p)

(* the attention of the request in row i in memory m *)
AttendRow(mask, m, i) ==
    LET r == UpdatedBatch[i]
        row == UpdatedRows[r]
        kept == {computed[r] + k - QueryStart(i) : k \in {h \in mask : h > QueryStart(i) /\ h <= QueryStart(i + 1)}}
        fine(p) == Aligned(mask, i) /\ \A o \in 1..(p - 1) : o \in kept \/ Right(KV(m, row, o), tokens[r], o)
        exact(p) == \A o \in 1..(p - 1) : o \in kept \/ IsExact(KV(m, row, o), SubSeq(tokens[r], 1, o))
        writes(v, j) == {p \in kept : BlockAt(row, p) = v /\ PlaceOf(p) = j}
    IN [v \in DOMAIN m |-> [j \in 1..BlockSize |->
          IF writes(v, j) = {} THEN m[v][j]
          ELSE LET p == CHOOSE o \in writes(v, j) : TRUE
               IN IF fine(p) THEN <<SubSeq(tokens[r], 1, p), p, ~exact(p)>> ELSE Junk]]

Attended(mask) ==
    FoldLeft(LAMBDA m, i : AttendRow(mask, m, i), Roped(Loaded), [i \in DOMAIN UpdatedBatch |-> i])

(* wait_for_save *)
Saved(m) ==
    LET ids == {d[1] : d \in AllDumps}
    IN [id \in ids |-> m[(CHOOSE d \in AllDumps : d[1] = id)[2]]] @@ store

Execute ==
    /\ pc = "execute"
    /\ StepEnds(Raises)
    /\ IF Raises
       THEN UNCHANGED <<hbm, store>>
       ELSE \E top \in TopKIndices :
               LET m == Attended(compute_mask(top))
               IN hbm' = m /\ store' = Saved(m)
    /\ UNCHANGED requests_blend_meta

Init ==
    /\ EngineInit
    /\ requests_blend_meta = <<>>
    /\ store = LET ids == {id \in UNION {ToSet(generate_hash(Prompt(r))) : r \in Requests} :
                             \E r \in Requests : IsPrefix(id, Prompt(r)) /\ Len(id) <= load.stored[r]}
               IN [id \in ids |-> IdKV(id)]

Steps ==
    \/ (Schedule \/ RunningDone \/ WaitingDone) /\ UNCHANGED blendVars
    \/ RunningTurn \/ WaitingTurn
    \/ Execute

Clients == \E r \in Requests : (Arrive(r) \/ Abort(r)) /\ UNCHANGED blendVars

Next == Steps \/ Clients

Spec == Init /\ [][Next]_vars

----------------------------------------------------------------------------
TypeOK ==
    /\ engine \in {"up", "down"} /\ pc \in {"idle", "running", "waiting", "execute"}
    /\ DOMAIN requests_blend_meta \subseteq Requests
    /\ pc = "execute" => \A r \in Scheduled : out.n[r] > 0 /\ computed[r] + out.n[r] <= Len(tokens[r])
    /\ \A v \in 1..HbmBlocks : \A j \in 1..BlockSize :
          hbm[v][j] # Junk => hbm[v][j][2] \in Nat /\ hbm[v][j][3] \in BOOLEAN

(* What the comments of blend.py and blend_connector.py take for granted   *)
(* of a step: where a request is blended, the cached requests decode and   *)
(* stand in front in the batch, and the new ones all have chunks; a        *)
(* request that comes back has more than one token to compute.  (Neither   *)
(* is so in every behaviour: BlendBatch, BlendResumed.)                    *)
Foreseen ==
    /\ NeedUpdate => /\ \A i \in 1..blend_start_req_idx : UpdatedBatch[i] \notin out.new /\ out.n[UpdatedBatch[i]] = 1
                     /\ \A r \in out.new : MetaOf(r).chunks_meta # <<>>
    /\ \A r \in out.resumed : out.n[r] # 1

(* what the step builds on is right: the KV of earlier steps, and the      *)
(* blocks of the store it loads                                            *)
PastIsRight ==
    /\ \A r \in Scheduled \ (out.new \cup out.resumed) : \A p \in 1..computed[r] :
          Right(KV(hbm, UpdatedRows[r], p), tokens[r], p)
    /\ \A l \in AllLoads : l[1] \in DOMAIN store => store[l[1]] = IdKV(l[1])

StepIsRight == \A top \in TopKIndices :
    LET m == Attended(compute_mask(top))
    IN \A r \in Scheduled : \A p \in 1..(computed[r] + out.n[r]) :
          Right(KV(m, UpdatedRows[r], p), tokens[r], p)

(* A step that begins with right KV ends with right KV, for every request  *)
(* it runs and whatever tokens are picked: a position holds the KV of the  *)
(* request's tokens, or of its chunk there, rotated to that very position, *)
(* and nothing the store lacks was counted on (the chunk lookup, the       *)
(* dispatch of loads, the delta rope and the compute mask agree).          *)
BlendIsRight == pc = "execute" /\ ~Raises /\ Foreseen /\ PastIsRight => StepIsRight

(* Blended KV, good for one prompt only, is never stored: a block that is  *)
(* dumped is exact for its id, be it a chunk's or a prefix's               *)
(* (_generate_blend_dispatch_meta).                                        *)
DumpedIsRight ==
    pc = "execute" /\ ~Raises /\ Foreseen /\ PastIsRight =>
        \A top \in TopKIndices : \A d \in AllDumps : Attended(compute_mask(top))[d[2]] = IdKV(d[1])

(* The same of every step: "for decode req in the front of the batch"      *)
(* (blend.py:117) is not so once a new request takes the place, in the     *)
(* persistent batch, of one that finished, or is not blended itself.       *)
ContextIsRight == pc = "execute" /\ ~Raises /\ PastIsRight => StepIsRight

(* The same of steps that blend nothing: not so where a request comes back *)
(* with one token to compute, and nothing is loaded for it.                *)
UnblendedIsRight == pc = "execute" /\ ~Raises /\ PastIsRight /\ ~NeedUpdate => StepIsRight


(* "clear finished request" (blend_connector.py:462): not so, the notes    *)
(* that are cleared are those of the connector this one derives from.      *)
NotesGo == \A r \in DOMAIN requests_blend_meta : status[r] # "FINISHED" \/ r \in finished

=============================================================================
