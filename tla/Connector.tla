----------------------------- MODULE Connector -----------------------------
(***************************************************************************)
(* UCMConnector (ucm/integration/vllm/ucm_connector.py) with its direct,   *)
(* layer-wise and mock connectors: for every request of the vLLM engine it *)
(* decides which full blocks of KV cache are taken from the store, which   *)
(* are computed and saved.  The direct connector runs the loads before and *)
(* the dumps after the forward pass; the layer-wise one awaits each layer's*)
(* loads before that layer and starts its dumps behind it; the mock forgets*)
(* hits beyond a ratio.                                                    *)
(*                                                                         *)
(* Device memory is in areas: the keys of each layer, and the values unless*)
(* the model is MLA, which has them in one.  A shard of a stored block is  *)
(* what one area holds of it.                                              *)
(*                                                                         *)
(* The engine itself (the scheduler, its block pool with prefix caching,   *)
(* the forward pass) is external: it is modelled by what the connector is  *)
(* called with.  The store is the contract of ucmstore_v1.h: a set of      *)
(* blocks looked up, read and written by id, found once all shards are in. *)
(*                                                                         *)
(* A token is a number and the KV of a position is named by the tokens up  *)
(* to and including it, which determine it: <<>> is KV of anything else.   *)
(* The id of a block is named by the tokens up to its end, as the chained  *)
(* hash is taken to have no collisions.  One engine step schedules one     *)
(* request; one worker rank is modelled (the other ranks only re-hash).    *)
(***************************************************************************)
EXTENDS Integers, SequencesExt, TLC

CONSTANTS Requests,      \* request ids
          Loads,         \* the loads the engine may meet (see below)
          MaxOutput,     \* bound: tokens a request generates
          Reply,         \* [Requests -> token]: what the model answers
          BlockSize,     \* tokens per block
          HbmBlocks,     \* the most blocks of device memory of any load
          Budget         \* max_num_batched_tokens of the engine

(* A load: which connector; the layers, and whether they are MLA; the mock's *)
(* hit_ratio, in per cent; the prompts; the blocks of device memory; the ids *)
(* that earlier engines stored; what may fail.                               *)
ASSUME ConnectorAssumption ==
    /\ {BlockSize, HbmBlocks, Budget} \subseteq Nat \ {0}
    /\ MaxOutput \in Nat /\ Reply \in [Requests -> Nat]
    /\ \A l \in Loads :
         /\ l.kind \in {"direct", "layerwise", "mock"}
         /\ l.layers \in Nat \ {0} /\ l.is_mla \in BOOLEAN /\ l.hit_ratio \in 0..100
         /\ l.hbm \in 1..HbmBlocks /\ l.prompt \in [Requests -> Seq(Nat)] /\ l.stored \subseteq Seq(Nat)
         /\ l.faults \subseteq {"lookup", "load", "dump", "wait"}

VARIABLES load,          \* the load of this behaviour
          meta,          \* requests_meta, by request id
          store,         \* [id -> [areas -> KV of the block]], the shards that were dumped
          hbm,           \* [areas -> [1..HbmBlocks -> KV of each of its positions]]
          lost,          \* the ids of which a dump was refused or failed
          engine,        \* "up", or "down" once a worker raised
          \* the layer-wise connector's step
          step,          \* the step in progress, or NoStep
          loading,       \* load_tasks in flight: [area, ids, blocks, kept]
          dumping,       \* dump_tasks in flight: [area, ids, blocks, kept]
          \* the engine's own state
          status, waiting, running, tokens, computed, blocks,
          free,          \* free blocks, least recently used first
          cached,        \* [1..HbmBlocks -> the id a block is cached under]
          finished       \* finished_req_ids of the next step

workerVars == <<store, hbm, lost, engine, step, loading, dumping>>
engineVars == <<status, waiting, running, tokens, computed, blocks, free, cached, finished>>
vars == <<load, meta, workerVars, engineVars>>

prompt == load.prompt

Junk == <<>>

Least(a, b) == IF a < b THEN a ELSE b

(* f where it is defined, g elsewhere *)
Over(f, g) == [x \in DOMAIN f \cup DOMAIN g |-> IF x \in DOMAIN f THEN f[x] ELSE g[x]]

(* s[a:b] *)
Slice(s, a, b) == SubSeq(s, a + 1, Least(b, Len(s)))

(* the KV of the positions of block i of a request with these tokens *)
BlockKV(t, i) == [j \in 1..BlockSize |-> SubSeq(t, 1, (i - 1) * BlockSize + j)]

(* the areas of device memory and those of a layer: k_base_ptrs, then v_base_ptrs *)
Areas == 1..(IF load.is_mla THEN load.layers ELSE 2 * load.layers)
AreasOf(layer) == {layer, layer + load.layers} \cap Areas

(* the block of a position and its place there; the KV an area m has for it *)
BlockOf(p) == ((p - 1) \div BlockSize) + 1
PlaceOf(p) == ((p - 1) % BlockSize) + 1
KV(m, held, p) == m[held[BlockOf(p)]][PlaceOf(p)]

(* lookup: the ids all of whose shards are stored *)
Stored == {id \in DOMAIN store : DOMAIN store[id] = Areas}

generate_hash(t) == [i \in 1..(Len(t) \div BlockSize) |-> SubSeq(t, 1, i * BlockSize)]

(* the number of leading members of ids in S: where `if not hit: break` stops *)
LeadingHits(ids, S) ==
    CHOOSE k \in 0..Len(ids) : /\ \A i \in 1..k : ids[i] \in S
                               /\ k < Len(ids) => ids[k + 1] \notin S

----------------------------------------------------------------------------
(* The connector, scheduler side *)

(* the notes with this one under r *)
Noted(r, note) == [q \in DOMAIN meta \cup {r} |-> IF q = r THEN note ELSE meta[q]]

\* Mutant: external hits are counted without those on the device.
MatchExternalOnly(r, hbmHit, lookupOk) ==
    LET ids  == generate_hash(tokens[r])
        hit  == IF lookupOk THEN LeadingHits(Slice(ids, hbmHit, Len(ids)), Stored) ELSE 0
    IN IF Slice(ids, hbmHit, Len(ids)) = <<>>
       THEN [tokens |-> 0, metas |-> meta]
       ELSE [tokens |-> hit * BlockSize - (IF hit * BlockSize = Len(tokens[r]) THEN 1 ELSE 0),
             metas |-> Noted(r, [ucm_block_ids |-> ids, hbm_hit |-> hbmHit, total_hit |-> hit,
                       num_token_ids |-> Len(tokens[r]), vllm_block_ids |-> <<>>,
                       token_processed |-> hit * BlockSize])]

(* lookupOk is FALSE when the store's lookup raised *)
get_num_new_matched_tokens(r, hbmHit, lookupOk) ==
    LET ids      == generate_hash(tokens[r])
        external == Slice(ids, hbmHit, Len(ids))
        hit      == IF lookupOk THEN LeadingHits(external, Stored) ELSE 0
        total    == (hbmHit + hit) * BlockSize
    IN IF external = <<>>
       THEN [tokens |-> 0, metas |-> meta]
       ELSE [tokens |-> hit * BlockSize - (IF total = Len(tokens[r]) THEN 1 ELSE 0),
             metas |-> Noted(r, [ucm_block_ids |-> ids, hbm_hit |-> hbmHit, total_hit |-> hbmHit + hit,
                       num_token_ids |-> Len(tokens[r]), vllm_block_ids |-> <<>>,
                       token_processed |-> total])]

(* UCMMockConnector: hits beyond the ratio are forgotten *)
HijackedMatch(r, match) ==
    LET expect == (load.hit_ratio * Len(prompt[r])) \div 100
        n      == expect \div BlockSize
    IN IF match.tokens <= expect THEN match
       ELSE [tokens |-> n * BlockSize,
             metas  |-> [match.metas EXCEPT ![r].total_hit = n, ![r].hbm_hit = Least(n, @)]]

(* UCMConnector: the connector that was configured *)
Match(r, hbmHit, lookupOk) ==
    LET match == get_num_new_matched_tokens(r, hbmHit, lookupOk)
    IN IF load.kind = "mock" THEN HijackedMatch(r, match) ELSE match

NoBlocks == [ids |-> <<>>, blocks |-> <<>>]

\* Mutant: the last block is dumped before it is full.
DispatchRoundsUp(m, newTokens, vllmBlocks, needLoad) ==
    LET known == m.vllm_block_ids \o vllmBlocks
        more  == m.token_processed < m.num_token_ids
        first == m.token_processed \div BlockSize
        end   == (m.token_processed + newTokens + BlockSize - 1) \div BlockSize
    IN [meta |-> [m EXCEPT !.vllm_block_ids = known,
                           !.token_processed = IF more THEN @ + newTokens ELSE @],
        load |-> IF needLoad
                 THEN [ids    |-> Slice(m.ucm_block_ids, m.hbm_hit, m.total_hit),
                       blocks |-> Slice(vllmBlocks, m.hbm_hit, m.total_hit)]
                 ELSE NoBlocks,
        dump |-> IF more THEN [ids    |-> Slice(m.ucm_block_ids, first, end),
                               blocks |-> Slice(known, first, end)]
                 ELSE NoBlocks]

_generate_dispatch_meta(m, newTokens, vllmBlocks, needLoad) ==
    LET known == m.vllm_block_ids \o vllmBlocks
        more  == m.token_processed < m.num_token_ids
        first == m.token_processed \div BlockSize
        end   == (m.token_processed + newTokens) \div BlockSize
    IN [meta |-> [m EXCEPT !.vllm_block_ids = known,
                           !.token_processed = IF more THEN @ + newTokens ELSE @],
        load |-> IF needLoad
                 THEN [ids    |-> Slice(m.ucm_block_ids, m.hbm_hit, m.total_hit),
                       blocks |-> Slice(vllmBlocks, m.hbm_hit, m.total_hit)]
                 ELSE NoBlocks,
        dump |-> IF more THEN [ids    |-> Slice(m.ucm_block_ids, first, end),
                               blocks |-> Slice(known, first, end)]
                 ELSE NoBlocks]

\* Mutant: only new and resumed requests are dumped, not the later chunks.
BuildForNewOnly(r, metas, newTokens, vllmBlocks, needLoad) ==
    LET d == IF r \in DOMAIN metas /\ needLoad
             THEN _generate_dispatch_meta(metas[r], newTokens, vllmBlocks, needLoad)
             ELSE [meta |-> IF r \in DOMAIN metas THEN metas[r] ELSE NoBlocks, load |-> NoBlocks, dump |-> NoBlocks]
    IN [d EXCEPT !.meta = [q \in DOMAIN metas \ finished |-> IF q = r THEN d.meta ELSE metas[q]]]

(* metas: requests_meta as it is when the step was scheduled; needLoad is  *)
(* TRUE for a new request and for one resumed from preemption.  The notes  *)
(* of the finished requests are dropped.                                   *)
build_connector_meta(r, metas, newTokens, vllmBlocks, needLoad) ==
    LET d == IF r \in DOMAIN metas
             THEN _generate_dispatch_meta(metas[r], newTokens, vllmBlocks, needLoad)
             ELSE [meta |-> NoBlocks, load |-> NoBlocks, dump |-> NoBlocks]
    IN [d EXCEPT !.meta = [q \in DOMAIN metas \ finished |-> IF q = r THEN d.meta ELSE metas[q]]]

----------------------------------------------------------------------------
(* The connector, worker side *)

(* a task is refused when its lists differ in length (store_binder.h) *)
Fits(t) == Len(t.ids) = Len(t.blocks)

(* a shard: what the area holds of each block of the list; none when it fails *)
Loaded(m, area, t, ok) ==
    [v \in 1..HbmBlocks |->
        IF \E i \in DOMAIN t.blocks : t.blocks[i] = v
        THEN IF ok THEN store[t.ids[CHOOSE i \in DOMAIN t.blocks : t.blocks[i] = v]][area]
             ELSE [j \in 1..BlockSize |-> Junk]
        ELSE m[v]]

(* device memory after the loads; a load that fails leaves garbage *)
start_load_kv(t, ok) == [a \in Areas |-> Loaded(hbm[a], a, t, ok)]

(* the shards of each block saved, read from device memory m *)
Saved(t, m, areas) ==
    [id \in {t.ids[i] : i \in DOMAIN t.blocks} |->
        [a \in areas |-> m[a][t.blocks[CHOOSE i \in DOMAIN t.blocks : t.ids[i] = id]]]]

(* A shard already in the store is written again or left: the cache skips  *)
(* a block it still holds, the file system replaces the file.              *)
Written(t, m, areas) ==
    LET new     == Saved(t, m, areas)
        ids     == DOMAIN new
        old(id) == IF id \in DOMAIN store THEN store[id] ELSE <<>>
    IN {Over([id \in ids |-> Over(new[id], old(id))], store), Over([id \in ids |-> Over(old(id), new[id])], store)}

(* A dump that is refused is logged; when waiting for it raises, the       *)
(* handler logs and then reads save_end_time, which was never assigned.    *)
wait_for_save(dump, m) ==
    \/ Fits(dump) /\ store' \in Written(dump, m, Areas) /\ UNCHANGED <<lost, engine>>
    \/ /\ dump.ids # <<>>
       /\ \/ (~Fits(dump) \/ "dump" \in load.faults) /\ UNCHANGED engine
          \/ Fits(dump) /\ "wait" \in load.faults /\ engine' = "down"
       /\ lost' = lost \cup ToSet(dump.ids)
       /\ UNCHANGED store

----------------------------------------------------------------------------
(* The engine *)

(* get_computed_blocks: cached blocks of the longest prefix, never all of the tokens *)
HbmHits(r) ==
    LET ids == Slice(generate_hash(tokens[r]), 0, (Len(tokens[r]) - 1) \div BlockSize)
        n   == LeadingHits(ids, {cached[v] : v \in 1..HbmBlocks})
    IN [i \in 1..n |-> CHOOSE v \in 1..HbmBlocks : cached[v] = ids[i]]

(* the number of blocks to allocate so that n more tokens fit *)
Missing(held, from, n) == (from + n + BlockSize - 1) \div BlockSize - Len(held)

(* the members of s, in order, that are not in S *)
Without(s, S) ==
    LET kept[i \in 0..Len(s)] ==
            IF i = 0 THEN <<>> ELSE IF s[i] \in S THEN kept[i - 1] ELSE Append(kept[i - 1], s[i])
    IN kept[Len(s)]

(* blocks that are full when the step ends are cached at once, under r's ids *)
CacheFull(r, held, full, fresh) ==
    [v \in 1..HbmBlocks |->
        IF \E i \in 1..full : held[i] = v
        THEN generate_hash(tokens[r])[CHOOSE i \in 1..full : held[i] = v]
        ELSE IF v \in fresh THEN Junk ELSE cached[v]]

(* the blocks r holds are free again unless another request shares them *)
Released(r) ==
    free \o Reverse(Without(blocks[r], UNION {ToSet(blocks[q]) : q \in Requests \ {r}}))

(* a layer of the forward pass over the tokens of r after the first `from`, *)
(* in one of its areas m: their KV is right only if the context is          *)
Context(r, held, from, m) == \A p \in 1..from : KV(m, held, p) = SubSeq(tokens[r], 1, p)
Forward(r, held, from, n, m, context) ==
    LET next == (from + 1)..(from + n)
    IN [v \in 1..HbmBlocks |-> [j \in 1..BlockSize |->
          IF \E p \in next : held[BlockOf(p)] = v /\ PlaceOf(p) = j
          THEN LET p == CHOOSE p \in next : held[BlockOf(p)] = v /\ PlaceOf(p) = j
               IN IF context THEN SubSeq(tokens[r], 1, p) ELSE Junk
          ELSE m[v][j]]]

(* update_from_output: with a failed load r goes back to its first invalid *)
(* block; otherwise, when it has caught up, it gets a token or is finished *)
Update(r, done, held, invalid) ==
    LET upTo == IF invalid = {} THEN done
                ELSE (CHOOSE i \in DOMAIN held : held[i] \in invalid /\ \A j \in 1..(i - 1) : held[j] \notin invalid)
                       * BlockSize - BlockSize
        full == Len(tokens[r]) = Len(prompt[r]) + MaxOutput
    IN /\ computed' = [computed EXCEPT ![r] = upTo]
       /\ tokens' = IF upTo = Len(tokens[r]) /\ ~full
                    THEN [tokens EXCEPT ![r] = Append(@, Reply[r])] ELSE tokens

(* the direct connector's worker: loads, computes all layers and saves *)
LoadComputeSave(r, d, held, from, n) ==
    \E ok \in {Fits(d.load)} \cup (IF "load" \in load.faults /\ d.load.ids # <<>> THEN {FALSE} ELSE {}) :
        LET loaded  == start_load_kv(d.load, ok)
            context == \A a \in Areas : Context(r, held, from, loaded[a])
            after   == [a \in Areas |-> Forward(r, held, from, n, loaded[a], context)]
        IN /\ hbm' = after
           /\ wait_for_save(d.dump, after)
           /\ Update(r, from + n, held, IF ok THEN {} ELSE ToSet(d.load.blocks))
           /\ UNCHANGED <<step, loading, dumping>>

NoStep == <<>>

(* start_load_kv of the layer-wise connector: a task for every area of every *)
(* layer; when one is refused the tasks are forgotten, those begun go on     *)
StartLayerLoads(r, d, held, from, n) ==
    LET task(a, kept) == [area |-> a, ids |-> d.load.ids, blocks |-> d.load.blocks, kept |-> kept]
        begins(refused) ==
            /\ loading' = loading \cup (IF d.load.ids = <<>> THEN {} ELSE
                  {task(a, refused = 0) : a \in {b \in Areas : \A l \in 1..load.layers :
                       b \in AreasOf(l) => refused = 0 \/ l < refused}})
            /\ step' = [r |-> r, held |-> held, from |-> from, n |-> n, dump |-> d.dump, layer |-> 1,
                        right |-> TRUE, invalid |-> IF refused = 0 THEN {} ELSE ToSet(d.load.blocks)]
    IN /\ \/ Fits(d.load) /\ begins(0)
          \/ ~Fits(d.load) /\ begins(1)
          \/ "load" \in load.faults /\ Fits(d.load) /\ d.load.ids # <<>> /\ \E l \in 1..load.layers : begins(l)
       /\ UNCHANGED <<hbm, store, lost, engine, dumping, tokens, computed>>

(* One engine step for r, whose blocks held end with those in new: the     *)
(* connector's metadata is built and the finished requests dropped from    *)
(* it, then the worker loads, computes n tokens after `from` and saves.    *)
Execute(r, metas, held, new, from, n, needLoad) ==
    LET d == build_connector_meta(r, metas, n, new, needLoad)
    IN /\ meta' = d.meta
       /\ finished' = {}
       /\ blocks' = [blocks EXCEPT ![r] = held]
       /\ IF load.kind = "layerwise" THEN StartLayerLoads(r, d, held, from, n)
          ELSE LoadComputeSave(r, d, held, from, n)

----------------------------------------------------------------------------
(* The layer-wise connector within a step *)

(* a transfer of the store ends *)
LoadLands(t) ==
    /\ t \in loading
    /\ loading' = loading \ {t}
    /\ hbm' = [hbm EXCEPT ![t.area] = Loaded(@, t.area, t, TRUE)]
    /\ UNCHANGED <<load, meta, store, lost, engine, step, dumping, engineVars>>

DumpLands(t) ==
    /\ t \in dumping
    /\ dumping' = dumping \ {t}
    /\ store' \in Written(t, hbm, {t.area})
    /\ UNCHANGED <<load, meta, hbm, lost, engine, step, loading, engineVars>>

\* Mutant: the loads of the layer before are awaited.
AwaitsLayerBefore(layer) == {t \in loading : t.kept /\ t.area \in AreasOf(layer - 1)}

(* wait_for_layer_load: the tasks it waits for *)
Awaited(layer) == {t \in loading : t.kept /\ t.area \in AreasOf(layer)}

(* The next layer: its loads have ended, or one failed; its KV is computed *)
(* and its dumps begin (save_kv_layer), keys before values; after one was  *)
(* refused the layer has no further one.                                   *)
ComputeLayer ==
    /\ step # NoStep /\ step.layer <= load.layers
    /\ LET l      == step.layer
           mine   == Awaited(l)
           failed == [a \in Areas |->
               IF \E t \in mine : t.area = a THEN Loaded(hbm[a], a, CHOOSE t \in mine : t.area = a, FALSE) ELSE hbm[a]]
           right  == step.right /\ \A a \in AreasOf(l) : Context(step.r, step.held, step.from, failed[a])
           begun(areas) == {[area |-> a, ids |-> step.dump.ids, blocks |-> step.dump.blocks, kept |-> TRUE] : a \in areas}
       IN /\ mine = {} \/ "load" \in load.faults
          /\ loading' = loading \ mine
          /\ hbm' = [a \in Areas |->
                IF a \in AreasOf(l) THEN Forward(step.r, step.held, step.from, step.n, failed[a], right) ELSE failed[a]]
          /\ step' = [step EXCEPT !.layer = l + 1, !.right = right,
                                  !.invalid = @ \cup UNION {ToSet(t.blocks) : t \in mine}]
          /\ IF step.dump.ids = <<>> THEN UNCHANGED <<dumping, lost>>
             ELSE \/ Fits(step.dump) /\ dumping' = dumping \cup begun(AreasOf(l)) /\ UNCHANGED lost
                  \/ /\ ~Fits(step.dump) \/ "dump" \in load.faults
                     /\ \E areas \in IF Fits(step.dump) THEN {{}, {l}} \ {AreasOf(l)} ELSE {{}} : dumping' = dumping \cup begun(areas)
                     /\ lost' = lost \cup ToSet(step.dump.ids)
    /\ UNCHANGED <<load, meta, store, engine, engineVars>>

(* wait_for_save: the dumps are awaited layer by layer; when waiting for   *)
(* one raises, the later ones are forgotten while they go on               *)
EndStep ==
    /\ step # NoStep /\ step.layer > load.layers
    /\ LET mine == {t \in dumping : t.kept}
           turn(t) == IF t.area <= load.layers THEN 2 * t.area ELSE 2 * (t.area - load.layers) + 1
       IN \/ mine = {} /\ UNCHANGED <<dumping, lost>>
          \/ /\ "wait" \in load.faults
             /\ \E t \in mine :
                  /\ \A u \in mine : turn(t) <= turn(u)
                  /\ dumping' = (dumping \ mine) \cup {[u EXCEPT !.kept = FALSE] : u \in mine \ {t}}
                  /\ lost' = lost \cup ToSet(t.ids)
    /\ step' = NoStep
    /\ Update(step.r, step.from + step.n, step.held, step.invalid)
    /\ UNCHANGED <<load, meta, store, hbm, engine, loading, status, waiting, running, blocks, free, cached, finished>>

----------------------------------------------------------------------------
(* the requests that generated their last token have left the engine *)
Ready ==
    /\ engine = "up" /\ step = NoStep
    /\ \A r \in Requests : status[r] = "running" => computed[r] < Len(tokens[r])

(* a request reaches the engine *)
Arrive(r) ==
    /\ Ready /\ status[r] = "new"
    /\ status' = [status EXCEPT ![r] = "waiting"]
    /\ waiting' = Append(waiting, r)
    /\ UNCHANGED <<load, meta, workerVars, running, tokens, computed, blocks, free, cached, finished>>

(* The first waiting request, new or preempted, is matched with the device *)
(* and then with the store, and starts when its blocks can be allocated;   *)
(* when they cannot, what the connector noted about it stays.              *)
Admit(r, n) ==
    /\ Ready /\ waiting # <<>> /\ r = Head(waiting)
    /\ \E lookupOk \in {TRUE} \cup (IF "lookup" \in load.faults THEN {FALSE} ELSE {}) :
       LET hits   == HbmHits(r)
           match  == Match(r, Len(hits), lookupOk)
           from   == Len(hits) * BlockSize + match.tokens
           need   == Missing(hits, from, n)
           spare  == Without(free, ToSet(hits))
           fresh  == SubSeq(spare, 1, need)
           held   == hits \o fresh
       IN /\ from + n <= Len(tokens[r])
          /\ \/ /\ need <= Len(spare)
                /\ status' = [status EXCEPT ![r] = "running"]
                /\ waiting' = Tail(waiting)
                /\ running' = Append(running, r)
                /\ free' = SubSeq(spare, need + 1, Len(spare))
                /\ cached' = CacheFull(r, held, (from + n) \div BlockSize, ToSet(fresh))
                /\ Execute(r, match.metas, held, held, from, n, TRUE)
                /\ UNCHANGED load
             \/ /\ need > Len(spare)
                /\ meta' = match.metas
                /\ UNCHANGED <<load, workerVars, engineVars>>

(* the next n tokens of a running request *)
Continue(r, n) ==
    LET need  == Missing(blocks[r], computed[r], n)
        fresh == IF need > 0 THEN SubSeq(free, 1, need) ELSE <<>>
        held  == blocks[r] \o fresh
    IN /\ Ready /\ status[r] = "running"
       /\ computed[r] + n <= Len(tokens[r])
       /\ need <= Len(free)
       /\ free' = SubSeq(free, Len(fresh) + 1, Len(free))
       /\ cached' = CacheFull(r, held, (computed[r] + n) \div BlockSize, ToSet(fresh))
       /\ Execute(r, meta, held, fresh, computed[r], n, FALSE)
       /\ UNCHANGED <<load, status, waiting, running>>

(* no block for the next tokens of r: the request that started last gives up its own *)
Preempt(r, n) ==
    LET victim == Last(running)
    IN /\ Ready /\ status[r] = "running"
       /\ computed[r] + n <= Len(tokens[r])
       /\ Missing(blocks[r], computed[r], n) > Len(free)
       /\ status' = [status EXCEPT ![victim] = "waiting"]
       /\ waiting' = <<victim>> \o waiting
       /\ running' = Front(running)
       /\ computed' = [computed EXCEPT ![victim] = 0]
       /\ free' = Released(victim)
       /\ blocks' = [blocks EXCEPT ![victim] = <<>>]
       /\ UNCHANGED <<load, meta, workerVars, tokens, cached, finished>>

(* a request that generated its last token leaves; the connector hears of it in the next step *)
Finish(r) ==
    /\ engine = "up" /\ step = NoStep /\ status[r] = "running"
    /\ computed[r] = Len(tokens[r])
    /\ status' = [status EXCEPT ![r] = "finished"]
    /\ running' = Without(running, {r})
    /\ finished' = finished \cup {r}
    /\ free' = Released(r)
    /\ blocks' = [blocks EXCEPT ![r] = <<>>]
    /\ UNCHANGED <<load, meta, workerVars, waiting, tokens, computed, cached>>

----------------------------------------------------------------------------
Init ==
    /\ load \in Loads
    /\ meta = <<>>
    /\ store = [id \in load.stored |-> [a \in Areas |-> BlockKV(id, Len(id) \div BlockSize)]]
    /\ hbm = [a \in Areas |-> [v \in 1..HbmBlocks |-> [j \in 1..BlockSize |-> Junk]]]
    /\ lost = {} /\ engine = "up"
    /\ step = NoStep /\ loading = {} /\ dumping = {}
    /\ status = [r \in Requests |-> "new"]
    /\ waiting = <<>> /\ running = <<>> /\ finished = {}
    /\ free = [v \in 1..load.hbm |-> v]
    /\ tokens = prompt
    /\ computed = [r \in Requests |-> 0]
    /\ blocks = [r \in Requests |-> <<>>]
    /\ cached = [v \in 1..HbmBlocks |-> Junk]

Next ==
    \/ \E r \in Requests :
        \/ Arrive(r)
        \/ \E n \in 1..Budget : Admit(r, n) \/ Continue(r, n) \/ Preempt(r, n)
        \/ Finish(r)
    \/ ComputeLayer \/ EndStep
    \/ \E t \in loading : LoadLands(t)
    \/ \E t \in dumping : DumpLands(t)

Spec == Init /\ [][Next]_vars

----------------------------------------------------------------------------
(* Shapes of the state: the connector's notes are consistent with one      *)
(* another, and every block is free or held, never both.                   *)
TypeOK ==
    /\ engine \in {"up", "down"}
    /\ \A r \in Requests :
         /\ status[r] \in {"new", "waiting", "running", "finished"}
         /\ computed[r] \in 0..Len(tokens[r])
         /\ r \in DOMAIN meta =>
              /\ meta[r].hbm_hit <= meta[r].total_hit
              /\ meta[r].total_hit <= Len(meta[r].ucm_block_ids)
    /\ IsInjective(free)
    /\ \A r \in Requests : IsInjective(blocks[r]) /\ ToSet(blocks[r]) \cap ToSet(free) = {}

(* What a later request will load: a block is stored with the KV of the    *)
(* tokens that its id names, whichever request saved it, in whatever step. *)
(* ucm_connector.py 384-398: the saved ids and device blocks are two lists *)
(* cut by counters kept across steps.                                      *)
StoredIsRight ==
    \A id \in DOMAIN store : \A a \in DOMAIN store[id] : store[id][a] = BlockKV(id, Len(id) \div BlockSize)

(* The model never attends to wrong KV: what a running request counts as   *)
(* computed, found in device memory, loaded or computed by itself, is the  *)
(* KV of its own tokens.                                                   *)
ComputedIsRight ==
    \A r \in Requests : status[r] = "running" =>
        \A a \in Areas : Context(r, blocks[r], computed[r], hbm[a])

(* Nothing is missed: when the whole prompt of a request is computed, in   *)
(* however many chunks and after however many preemptions, the store has   *)
(* every full block of it that device memory did not have when the         *)
(* connector last looked, unless its dump was refused.                     *)
PromptIsKept ==
    \A r \in DOMAIN meta : status[r] = "running" /\ computed[r] >= Len(prompt[r]) =>
        \A i \in (meta[r].hbm_hit + 1)..(Len(prompt[r]) \div BlockSize) :
            SubSeq(prompt[r], 1, i * BlockSize) \in Stored \cup lost

(* A failure of a dump is logged and the engine goes on (ucm_connector.py  *)
(* 621-622 handles the RuntimeError of the wait by an error message).      *)
EngineGoesOn == engine = "up"
=============================================================================
