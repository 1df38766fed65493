------------------------------- MODULE ReRoPE -------------------------------
(***************************************************************************)
(* Rectified rotary positions, as patched into vLLM's engine               *)
(* (patch_funcs/v092/vllm_rerope_patch.py) and its Triton kernels          *)
(* (ucm/sparse/rerope/triton_unified_attention_rerope.py).  A batch with a *)
(* request whose prompt is longer than the window is computed so that no   *)
(* relative position beyond the window occurs: of a key farther away the   *)
(* unrotated copy is scored, against a query rotated to the window.  The   *)
(* cache of a layer has three parts for this: keys (hbm), values, and      *)
(* unrotated keys.                                                         *)
(*                                                                         *)
(* The kernels are modelled by which program scores and writes what: the   *)
(* result of a row is the set of keys it attended to, each with the        *)
(* relative position it was scored at; sums over them are left out, like   *)
(* soft caps, slopes, sliding windows, fp8, cascades and local attention.  *)
(* These patches are applied in place of the sparse ones; the scheduler is *)
(* vLLM's, which the patched one equals when no slots are estimated.  The  *)
(* attention of other batches (unified_attention) is vLLM's.               *)
(***************************************************************************)
EXTENDS SparseEngine

CONSTANTS ReropeWindow,      \* REROPE_WINDOW
          QueryHeads, KvHeads,
          BlockM,            \* BLOCK_M: rows of a program, 16
          Segments           \* NUM_SEGMENTS of a sequence, 16

VARIABLES use_rerope_map,    \* of the requests seen so far
          value_cache, key_cache2,
          external_hits      \* tokens the connector loads for new requests

reropeVars == <<use_rerope_map, value_cache, key_cache2, external_hits>>

----------------------------------------------------------------------------
(* the scheduler *)

RunningTurn ==
    /\ pc = "running" /\ at <= Len(running)
    /\ LET r == running[at]
       IN ScheduleRunning(r, INVALID_SLOT,
              original_allocate_slots(r, computed[r], NewTokens(r, computed[r]), <<>>))
    /\ UNCHANGED reropeVars

(* the store is asked for what follows the blocks found on the device *)
WaitingTurn ==
    /\ CanAdmit
    /\ LET r    == Head(waiting)
           hits == CachedPrefix(r)
           here == Len(hits) * BlockSize
           ext  == IF load.stored[r] > here THEN load.stored[r] - here ELSE 0
           a    == original_allocate_slots(r, here + ext, NewTokens(r, here + ext), hits)
       IN /\ ScheduleWaiting(r, INVALID_SLOT, here + ext, a)
          /\ external_hits' = IF a.ok THEN (r :> ext) @@ external_hits ELSE external_hits
    /\ UNCHANGED <<use_rerope_map, value_cache, key_cache2>>

----------------------------------------------------------------------------
(* the model runner: _prepare_inputs *)

UpdatedMap == [r \in out.new |-> Len(Prompt(r)) > ReropeWindow] @@ use_rerope_map

use_rerope == \E r \in Scheduled : UpdatedMap[r]

(* where the tokens of each request of the batch start, how long each is   *)
(* with them, and the position of each token                               *)
PreparedInputs ==
    LET b     == UpdatedBatch
        start == [i \in 0..Len(b) |-> FoldLeft(LAMBDA n, r : n + out.n[r], 0, SubSeq(b, 1, i))]
    IN [query_start_loc |-> start,
        seq_lens        |-> [i \in DOMAIN b |-> computed[b[i]] + out.n[b[i]]],
        positions       |-> FlattenSeq([i \in DOMAIN b |-> [k \in 1..out.n[b[i]] |-> computed[b[i]] + k - 1]]),
        max_query_len   |-> CHOOSE n \in {out.n[r] : r \in Scheduled} : \A r \in Scheduled : out.n[r] <= n,
        use_rerope      |-> use_rerope]

(* TritonAttentionMetadataBuilder.build: what the attention is given *)
AttnMetadata == PreparedInputs @@ [block_table |-> [i \in DOMAIN UpdatedBatch |-> UpdatedRows[UpdatedBatch[i]]]]

----------------------------------------------------------------------------
(* Qwen2Attention.forward and its like: the positions a token's query and  *)
(* its copy are rotated to (the scale of long contexts is left out)        *)
Rotated(in, t) ==
    LET position == in.positions[t + 1]
    IN [q |-> position, q2 |-> IF in.use_rerope THEN ReropeWindow ELSE position]

(* the cache: TritonAttentionImpl.forward writes each part at the slots of *)
(* the new tokens                                                          *)

Cache == [key |-> hbm, value |-> value_cache, key2 |-> key_cache2]

(* start_load_kv of the connector, whose addresses of a layer that is no   *)
(* pair are those of its first part (register_kv_caches)                   *)
Loaded(cache) ==
    LET from(r) == computed[r] - external_hits[r]
        by(v, j) == {r \in Scheduled \cap DOMAIN external_hits :
                        \E p \in (from(r) + 1)..computed[r] : BlockAt(UpdatedRows[r], p) = v /\ PlaceOf(p) = j}
        position(r, v, j) == CHOOSE p \in (from(r) + 1)..computed[r] : BlockAt(UpdatedRows[r], p) = v /\ PlaceOf(p) = j
    IN [cache EXCEPT !.key =
          [v \in 0..HbmBlocks |-> [j \in 1..BlockSize |->
             IF by(v, j) = {} THEN cache.key[v][j]
             ELSE LET r == CHOOSE q \in by(v, j) : TRUE IN SubSeq(tokens[r], 1, position(r, v, j))]]]

InPlace(cache, r) == \A part \in DOMAIN cache : DenseContext(cache[part], UpdatedRows, r)

\* Mutant: the unrotated keys are written in rerope batches only.
reshape_and_cache_if(cache) ==
    FoldLeft(LAMBDA c, r :
        [part \in DOMAIN c |-> IF part = "key2" /\ ~use_rerope THEN c[part]
                               ELSE Attend(c[part], UpdatedRows, r, InPlace(c, r))], cache, out.order)

reshape_and_cache(cache) ==
    FoldLeft(LAMBDA c, r :
        [part \in DOMAIN c |-> Attend(c[part], UpdatedRows, r, InPlace(c, r))], cache, out.order)

----------------------------------------------------------------------------
(* unified_attention_rerope.  Programs, blocks, rows and positions are     *)
(* numbered from 0 as in the kernels.                                      *)

num_queries_per_kv == QueryHeads \div KvHeads
BlockQ == BlockM \div num_queries_per_kv
num_seqs(in) == Len(in.seq_lens)

(* the sequence of a program, or of a token: the last that starts there or *)
(* before, found by bisection                                              *)
find_seq_idx(start, n, target, inBlocks) ==
    LET value(mid) == IF inBlocks THEN (start[mid] \div BlockQ) + mid ELSE start[mid]
        search[left \in 0..n, right \in 0..n] ==
            IF left >= right THEN left - 1
            ELSE LET mid == (left + right) \div 2
                 IN IF value(mid) <= target THEN search[mid + 1, right] ELSE search[left, mid]
    IN search[0, n]

(* the queries a program works on: of which sequence, from which on *)
QBlock(in, program) ==
    LET s     == find_seq_idx(in.query_start_loc, num_seqs(in), program, TRUE)
        start == in.query_start_loc[s]
    IN [seq         |-> s,
        start       |-> start,
        first       |-> (program - ((start \div BlockQ) + s)) * BlockQ,
        query_len   |-> in.query_start_loc[s + 1] - start,
        seq_len     |-> in.seq_lens[s + 1]]

(* One row of a program: query `pos` of its sequence against the tiles     *)
(* that fall to it.  A key near the query is scored as rotated, at the     *)
(* distance of the two; any other unrotated, at the window.                *)
rerope_mask(query, key) ==
    LET diff == query + 1 - key IN (IF diff < 0 THEN -diff ELSE diff) < ReropeWindow

RowOf(in, cache, b, pos, tiles) ==
    LET query == b.seq_len - b.query_len + pos
        rot   == Rotated(in, b.start + pos)
        table == in.block_table[b.seq + 1]
        place(part, p) == KV(cache[part], table, p + 1)
        scored(p) == IF rerope_mask(query, p)
                     THEN <<p, place("key", p), rot.q - (Len(place("key", p)) - 1)>>
                     ELSE <<p, place("key2", p), rot.q2>>
    IN {<<scored(p), place("value", p)>> :
           p \in {q \in {j * BlockSize + n : j \in tiles, n \in 0..(BlockSize - 1)} : q < query + 1}}

(* the rows of a program that are queries of its sequence, for a kv head: *)
(* some are rows of the next program as well                              *)
Rows(b) == {m \in 0..(BlockM - 1) : b.first + (m \div num_queries_per_kv) < b.query_len}
Blocks(in) == {b \in {QBlock(in, g) : g \in 0..((in.query_start_loc[num_seqs(in)] \div BlockQ) + num_seqs(in) - 1)} :
                  b.first < b.query_len}

(* what a program stores: the result of each row, for each head *)
Stored(in, cache, b, segm, tiles) ==
    {[token |-> b.start + b.first + (m \div num_queries_per_kv),
      head  |-> h * num_queries_per_kv + (m % num_queries_per_kv),
      segm  |-> segm,
      row   |-> RowOf(in, cache, b, b.first + (m \div num_queries_per_kv), tiles)] :
        m \in Rows(b), h \in 0..(KvHeads - 1)}

kernel_unified_attention_2d(in, cache) ==
    UNION {Stored(in, cache, b, 0, 0..(Ceil(b.seq_len, BlockSize) - 1)) : b \in Blocks(in)}

(* the blocks of a sequence are dealt to its segments *)
blocks_per_segment(seq_len) == Ceil(seq_len, Segments * BlockSize)
TilesOf(b, segm) ==
    (segm * blocks_per_segment(b.seq_len))..
        (Least((segm + 1) * blocks_per_segment(b.seq_len), Ceil(b.seq_len, BlockSize)) - 1)

kernel_unified_attention_3d(in, cache) ==
    LET parts(b) == {s \in 0..(Segments - 1) : s * blocks_per_segment(b.seq_len) * BlockSize < b.seq_len}
    IN UNION {UNION {Stored(in, cache, b, s, TilesOf(b, s)) : s \in parts(b)} : b \in Blocks(in)}

(* what may be in one place of a result: what was written there; when two  *)
(* programs wrote differently, or none, nothing that can be told           *)
Written(writes, t, h, s) == {w.row : w \in {v \in writes : v.token = t /\ v.head = h /\ v.segm = s}}
Unknown == {<<>>}
Settled(results) == IF Cardinality(results) = 1 THEN CHOOSE x \in results : TRUE ELSE Unknown

(* the sum over the segments of a token's sequence that have a part of it: *)
(* how often each key is in it                                             *)
reduce_segments(in, writes, t, h) ==
    LET s     == find_seq_idx(in.query_start_loc, num_seqs(in), t, FALSE)
        len   == in.seq_lens[s + 1]
        parts == [i \in 0..(Ceil(len, blocks_per_segment(len) * BlockSize) - 1) |-> Settled(Written(writes, t, h, i))]
        all   == UNION {parts[i] : i \in DOMAIN parts}
    IN [x \in all |-> Cardinality({i \in DOMAIN parts : x \in parts[i]})]

(* the kernel is chosen by the batch: whether any request has more than    *)
(* one token, or the programs are many                                     *)
UsesSegments(in) ==
    ~(\/ in.max_query_len > 1
      \/ ((in.query_start_loc[num_seqs(in)] \div BlockQ) + num_seqs(in)) * KvHeads > 128)

(* [token, head -> how often each key is attended to, with its position] *)
unified_attention_rerope(in, cache) ==
    LET writes == IF UsesSegments(in) THEN kernel_unified_attention_3d(in, cache)
                  ELSE kernel_unified_attention_2d(in, cache)
    IN [th \in (0..(Len(in.positions) - 1)) \X (0..(QueryHeads - 1)) |->
          IF UsesSegments(in) THEN reduce_segments(in, writes, th[1], th[2])
          ELSE [x \in Settled(Written(writes, th[1], th[2], 0)) |-> 1]]

----------------------------------------------------------------------------
(* a layer: its load is waited for before its attention writes the cache *)
unified_attention_with_output == reshape_and_cache(Loaded(Cache))

Execute ==
    /\ pc = "execute"
    /\ LET cache == unified_attention_with_output
       IN /\ StepEnds(FALSE)
          /\ hbm' = cache.key /\ value_cache' = cache.value /\ key_cache2' = cache.key2
    /\ use_rerope_map' = UpdatedMap
    /\ external_hits' = <<>>

NoCache == [v \in 0..HbmBlocks |-> [j \in 1..BlockSize |-> Junk]]

Init ==
    /\ EngineInit
    /\ use_rerope_map = <<>>
    /\ value_cache = NoCache /\ key_cache2 = NoCache
    /\ external_hits = <<>>

(* what the engine does, and its clients *)
Steps ==
    \/ (Schedule \/ RunningDone \/ WaitingDone) /\ UNCHANGED reropeVars
    \/ RunningTurn \/ WaitingTurn
    \/ Execute

Clients == \E r \in Requests : (Arrive(r) \/ Abort(r)) /\ UNCHANGED reropeVars

Next == Steps \/ Clients

=============================================================================
