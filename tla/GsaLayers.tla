------------------------------- MODULE GsaLayers -------------------------------
(***************************************************************************)
(* What GSAOnDevice attends to, layer by layer of a step: attention_begin  *)
(* puts the best blocks and the lengths they leave into the attention      *)
(* metadata, attention_finished puts the full ones back, and layers that   *)
(* skip the scoring take what the last one scored                          *)
(* (ucm/sparse/gsa_on_device/gsa_on_device.py).  Three variants: grouped   *)
(* queries on CUDA, which the other module is about, and on NPU, and MLA   *)
(* on CUDA.                                                                *)
(*                                                                         *)
(* Tensors are shared: a table is a name in `heap`, and the metadata, what *)
(* is kept of before, and what is kept for skipping layers are names.  A   *)
(* table holds the block tables and lengths of the rows of the batch.  The *)
(* scoring kernels are external: the first and the last block of a request *)
(* and as many between as fit, in their order.                             *)
(***************************************************************************)
EXTENDS GsaOnDevice

CONSTANTS NumLayers,
          RollbackLayers,   \* vllm_hash_attention_rollback_layers
          SkipLayers,       \* vllm_hash_attention_skip_layers
          SeqLenThreshold   \* seq_len_threshhold

(* get_layer_state *)
LayerKind(l) ==
    CASE l \in RollbackLayers -> "rollback"
      [] l \in SkipLayers \ RollbackLayers -> "skip"
      [] OTHER -> "hash"

Variants == {"gqa_cuda", "gqa_npu", "mla_cuda"}
Table(rows_, lens) == [rows |-> rows_, lens |-> lens]

(* The rows of the metadata: the batch (patched_build), or, for MLA, the   *)
(* requests with one token, which its builder moves to the front and whose *)
(* metadata are its decode part.                                           *)
Batch(variant) ==
    IF variant = "mla_cuda" THEN Without(UpdatedBatch, {r \in Scheduled : out.n[r] # 1}) ELSE UpdatedBatch

AttnMetadata(b) ==
    Table([i \in DOMAIN b |-> UpdatedRows[b[i]]], [i \in DOMAIN b |-> SeqLen(b[i])])

----------------------------------------------------------------------------
(* The kernels.  The blocks between are some that follow one another, from *)
(* another place in each layer.                                            *)
TopkBlocks == TopkTokens \div BlockSize

Best(n, l, top) ==
    LET last == Ceil(n, BlockSize)
    IN IF last <= TopkBlocks THEN 1..last
       ELSE {1, last} \cup {2 + ((top + l + i) % (last - 2)) : i \in 1..(TopkBlocks - 2)}

(* cuda_hamming_topk, npu_hamming_dist_top_k, of the request in a row *)
hamming_topk(row, n, l, top) ==
    LET all == [i \in 1..Ceil(n, BlockSize) |-> i]
        ind == Without(all, DOMAIN all \ Best(n, l, top))
    IN [i \in DOMAIN ind |-> row[ind[i]]]

----------------------------------------------------------------------------
(* what a step finds before the first layer *)

(* is_decode of build_sparse_meta, and on NPU lengths once any is *)
decode_mask(r) == out.n[r] = 1 /\ SeqLen(r) >= SeqLenThreshold

(* build_decode_attention_meta_npu: of a batch b, when the first rows are   *)
(* those to be scored, only they are                                        *)
num_decode_requests == Cardinality({r \in Scheduled : decode_mask(r)})
slice_enabled(b) == num_decode_requests > 0 /\ \A i \in 1..num_decode_requests : decode_mask(b[i])
AttnStateDecodeOnly ==
    (\A r \in Scheduled : out.n[r] = 1) /\ \E r \in Scheduled : SeqLen(r) # out.n[r]

(* cache_k_hash_gqa_npu: how many rows are scored *)
batch_size_for_hamming(b) == IF slice_enabled(b) THEN num_decode_requests ELSE Len(b)

(* the rows whose table and length are replaced *)
SparseRows(variant, b, has_decode) ==
    {i \in DOMAIN b : CASE variant = "gqa_cuda" -> IsDecode(b[i])
                         [] variant = "gqa_npu" -> has_decode /\ decode_mask(b[i])
                         [] variant = "mla_cuda" -> TRUE}

\* Mutant: the full table is kept without a copy.
OriShared(variant) == IF variant = "mla_cuda" THEN "none" ELSE "table"

(* build_sparse_meta, build_decode_attention_meta_npu: the name of what is put back *)
ori_block_table_decode(variant) == IF variant = "mla_cuda" THEN "none" ELSE "clone"

(* the metadata of a step, with a batch b and its table (patched_build,     *)
(* patched_build_decode); a layer that skips never is the first that asks   *)
(* for a table                                                              *)
Built(variant, b, full) ==
    [heap |-> [table |-> full, clone |-> full, chosen |-> Table(<<>>, <<>>)],
     meta |-> "table", ori |-> ori_block_table_decode(variant), topk |-> "none",
     has_decode |-> Decodes # {}, sparse |-> SparseRows(variant, b, Decodes # {}),
     scored |-> batch_size_for_hamming(b), slice |-> slice_enabled(b) /\ ~AttnStateDecodeOnly,
     seen |-> Table(<<>>, <<>>)]

----------------------------------------------------------------------------
(* the hooks *)

(* a table with the rows of a set replaced by what is scored in another *)
Scored(t, c, rows_, l, top) ==
    Table([i \in DOMAIN t.rows |-> IF i \in rows_ THEN hamming_topk(c.rows[i], c.lens[i], l, top) ELSE t.rows[i]],
          [i \in DOMAIN t.lens |-> IF i \in rows_ THEN update_seq_lens(c.lens[i]) ELSE t.lens[i]])

(* new_block_table is the table of the metadata, written in place *)
update_decode_topk_gqa_cuda(w, l, top) ==
    [w EXCEPT !.heap.table = Scored(@, w.heap[w.ori], w.sparse, l, top), !.meta = "table", !.topk = "table"]

(* Either the first rows of a copy are replaced, or the whole table is what *)
(* the kernel leaves: the tables of other requests as they were, and as     *)
(* many rows as were scored.  The lengths are those of the whole batch.     *)
update_decode_topk_gqa_npu(w, l, top) ==
    LET t == Scored(w.heap[w.ori], w.heap[w.ori], w.sparse, l, top)
    IN [w EXCEPT !.heap.chosen = IF w.slice THEN t ELSE Table(SubSeq(t.rows, 1, w.scored), t.lens),
                 !.meta = "chosen", !.topk = "chosen"]

(* all rows are scored, in a table of their own *)
hash_topk_mla(w, l, top) ==
    [w EXCEPT !.heap.chosen = Scored(w.heap[w.meta], w.heap[w.meta], w.sparse, l, top), !.topk = "chosen"]

update_decode_topk_mla(w) == [w EXCEPT !.ori = w.meta, !.meta = w.topk]

attention_begin(variant, w, l, top) ==
    IF LayerKind(l) = "rollback" \/ ~(variant = "mla_cuda" \/ w.has_decode) THEN w
    ELSE CASE variant = "mla_cuda" ->
                update_decode_topk_mla(IF LayerKind(l) = "hash" THEN hash_topk_mla(w, l, top) ELSE w)
           [] variant # "mla_cuda" /\ LayerKind(l) = "skip" -> [w EXCEPT !.meta = w.topk]
           [] variant = "gqa_cuda" /\ LayerKind(l) = "hash" -> update_decode_topk_gqa_cuda(w, l, top)
           [] variant = "gqa_npu" /\ LayerKind(l) = "hash" -> update_decode_topk_gqa_npu(w, l, top)

attention_finished(variant, w, l) ==
    IF (IF variant = "mla_cuda" THEN LayerKind(l) # "rollback" ELSE w.has_decode)
    THEN [w EXCEPT !.meta = w.ori]
    ELSE w

attended(w) == [w EXCEPT !.seen = w.heap[w.meta]]

(* The attention of a layer: with MLA the decode part, if there is one     *)
(* (MLACommonImpl.forward).                                                *)
forward(variant, b, w, l, top) ==
    IF b = <<>> THEN w
    ELSE attention_finished(variant, attended(attention_begin(variant, w, l, top)), l)

(* what each layer leaves *)
Layers(variant, b, top) ==
    LET after[l \in 0..NumLayers] ==
            IF l = 0 THEN Built(variant, b, AttnMetadata(b)) ELSE forward(variant, b, after[l - 1], l, top)
    IN after

----------------------------------------------------------------------------
(* what a row with this block table and length attends to *)
Places(row, n) == {<<BlockAt(row, p), PlaceOf(p)>> : p \in 1..n}

(* The layer whose choice layer l attends to.                              *)
ScoredAt(l) == CHOOSE h \in 1..l : LayerKind(h) = "hash" /\ \A k \in (h + 1)..l : LayerKind(k) # "hash"

RowIsRight(row, len, own, n, best) ==
    IF best = {}
    THEN len = n /\ Places(row, n) = Places(own, n)
    ELSE LET kept == {p \in 1..n : BlockOf(p) \in best}
         IN /\ len = Cardinality(kept) /\ len <= TopkTokens
            /\ Places(row, len) = {<<BlockAt(own, p), PlaceOf(p)>> : p \in kept}

LayersAreRight(full, b, after, top) ==
    /\ b # <<>> =>
        \A l \in 1..NumLayers :
            LET w == after[l] IN
            /\ DOMAIN w.seen.rows = DOMAIN b
            /\ \A i \in DOMAIN b :
                 RowIsRight(w.seen.rows[i], w.seen.lens[i], full.rows[i], full.lens[i],
                     IF LayerKind(l) = "rollback" \/ i \notin w.sparse THEN {}
                     ELSE Best(full.lens[i], ScoredAt(l), top))
    /\ after[NumLayers].heap[after[NumLayers].meta] = full

TablesAreRight(variant, b, top) == LayersAreRight(AttnMetadata(b), b, Layers(variant, b, top), top)

(* Fewer rows are scored than are attended with, and no others are there.  *)
RowsAreLeft ==
    /\ Decodes # {} /\ slice_enabled(UpdatedBatch) /\ AttnStateDecodeOnly
    /\ num_decode_requests < Len(UpdatedBatch)

----------------------------------------------------------------------------
(* What the worker allocates beside the KV on CUDA, in bytes, for n blocks *)
(* of a layer with these KV heads and head size and elements of this size: *)
(* the hashes of a layer that scores, of 16 bits in an element of 2 bytes. *)
khash_scale(itemsize) == itemsize * 8
page_size(mla, heads, dim, itemsize) == (IF mla THEN 1 ELSE 2) * (BlockSize * heads * dim * itemsize)
khash_page_size(heads, dim) == BlockSize * heads * ((dim \div 16) * 2)

(* _patch_get_kv_cache_config_uniform_type: of the blocks there is memory for *)
new_num_blocks(num_blocks, itemsize) ==
    (num_blocks * khash_scale(itemsize)) \div (khash_scale(itemsize) + 1)

=============================================================================
