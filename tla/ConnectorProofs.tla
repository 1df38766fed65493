-------------------------- MODULE ConnectorProofs --------------------------
(***************************************************************************)
(* Connector, for any requests, prompts, block and step sizes, loads and   *)
(* faults: the counters of a request and of its note keep to one another,  *)
(* and a block of device memory is free once or held, never both.          *)
(*                                                                         *)
(* The inductive invariant Inv adds to TypeOK what holds while a layer-    *)
(* wise step goes on (Within): the step stays within its request's tokens, *)
(* a load that is kept is for the step's own blocks and for a layer that   *)
(* is still to be awaited, and the blocks are no more than the tokens fill *)
(* while a load may still fail.  Without it the rollback to the first      *)
(* block that failed to load could leave a request more tokens computed    *)
(* than it has.  Between two steps no load is kept (Between).              *)
(*                                                                         *)
(* For the direct connector, of whose loads none fails: what is stored and *)
(* what a running request counts as computed is KV of the right tokens, as *)
(* long as the notes agree with the block tables (NotesAgree), which they  *)
(* do when no request is preempted.  Right is inductive over Inv: it says  *)
(* what the device's prefix cache, the blocks of a running request and the *)
(* notes say of one another.                                               *)
(***************************************************************************)
EXTENDS Connector, SequenceLemmas

----------------------------------------------------------------------------
(* Sequences: the lists of blocks, ids and requests.                       *)

\* A slice s[a:b] has members of the list only, whatever a and b.
LEMMA SliceIn ==
    ASSUME NEW T, NEW s \in Seq(T), NEW a \in Nat, NEW b \in Nat
    PROVE  Slice(s, a, b) \in Seq(T) /\ ToSet(Slice(s, a, b)) \subseteq ToSet(s)
<1>1. Len(s) \in Nat /\ Least(b, Len(s)) \in Nat /\ Least(b, Len(s)) <= Len(s)
  BY DEF Least
<1>2. CASE a <= Least(b, Len(s))
  <2>1. PICK m \in Nat : m <= Len(s) /\ a <= m /\ Slice(s, a, b) = SubSeq(s, a + 1, m)
    BY <1>1, <1>2 DEF Slice
  <2>2. SubSeq(s, a + 1, m) \in Seq(T)
    BY <2>1, Cut
  <2>3. ToSet(SubSeq(s, a + 1, m)) = {s[i] : i \in (a + 1)..m}
    BY <2>1, Cut
  <2>4. \A i \in (a + 1)..m : s[i] \in ToSet(s)
    BY <1>1, <2>1, SetOf
  <2> QED
    BY <2>1, <2>2, <2>3, <2>4
<1>3. CASE a > Least(b, Len(s))
  <2>1. Slice(s, a, b) = <<>>
    BY <1>1, <1>3 DEF Slice
  <2>2. <<>> \in Seq(T) /\ ToSet(<<>>) = {}
    BY DEF ToSet
  <2> QED
    BY <2>1, <2>2
<1> QED
  BY <1>1, <1>2, <1>3

\* What Without leaves of a list, as when blocks that others share stay out of the free ones.
LEMMA Filtered ==
    ASSUME NEW T, NEW s \in Seq(T), NEW S
    PROVE  /\ Without(s, S) \in Seq(T)
           /\ ToSet(Without(s, S)) = ToSet(s) \ S
           /\ IsInjective(s) => IsInjective(Without(s, S))
<1>1. Without(s, S) = Kept(s, S)
  BY Zenon DEF Without, Kept
<1> QED
  BY <1>1, KeptOf

----------------------------------------------------------------------------
(* Blocks of tokens: division by BlockSize.                                *)

\* The sizes that the engine is configured with.
LEMMA Sizes == BlockSize \in Nat \ {0} /\ HbmBlocks \in Nat \ {0} /\ Budget \in Nat \ {0} /\ MaxOutput \in Nat
BY ConnectorAssumption

\* The blocks to allocate for a tokens: enough, and none that stays empty.
LEMMA Ceil ==
    ASSUME NEW a \in Nat \ {0}, NEW b \in Nat \ {0}
    PROVE  LET c == (a + b - 1) \div b
           IN c \in Nat \ {0} /\ (c - 1) * b < a /\ \A k \in Nat : k * b < a => k < c
<1> DEFINE c == (a + b - 1) \div b
<1>1. a + b - 1 \in Nat /\ a + b - 1 >= b
  OBVIOUS
<1>2. c \in Nat /\ (a + b - 1) % b \in 0..(b - 1) /\ a + b - 1 = b * c + ((a + b - 1) % b)
  <2> DEFINE x == a + b - 1
  <2>1. x \in Nat
    BY <1>1
  <2> HIDE DEF x
  <2>2. x \div b \in Nat /\ x % b \in 0..(b - 1) /\ x = b * (x \div b) + (x % b)
    BY <2>1
  <2> QED
    BY <2>2 DEF x
<1> HIDE DEF c
<1>3. PICK r \in 0..(b - 1) : a + b - 1 = b * c + r
  BY <1>2
<1>4. b * c <= a + b - 1 /\ a <= b * c
  BY <1>2, <1>3
<1>5. c # 0
  BY <1>2, <1>4
<1>6. (c - 1) * b = b * c - b
  BY <1>2
<1>7. ASSUME NEW k \in Nat, k * b < a PROVE k < c
  <2>1. CASE k >= c
    <3>1. k * b >= b * c
      BY <1>2, <2>1
    <3> QED
      BY <1>2, <1>4, <1>7, <3>1
  <2> QED
    BY <1>2, <2>1
<1> QED
  BY <1>2, <1>4, <1>5, <1>6, <1>7 DEF c

\* The ids of a request's full blocks are those of longer and longer prefixes.
LEMMA GenHash ==
    ASSUME NEW t \in Seq(Nat)
    PROVE  /\ generate_hash(t) \in Seq(Seq(Nat)) /\ Len(generate_hash(t)) = Len(t) \div BlockSize
           /\ Len(t) \div BlockSize \in Nat
           /\ BlockSize * (Len(t) \div BlockSize) <= Len(t)
           /\ \A i \in 1..(Len(t) \div BlockSize) :
                 generate_hash(t)[i] = SubSeq(t, 1, i * BlockSize) /\ Len(generate_hash(t)[i]) = i * BlockSize
<1>1. Len(t) \in Nat
  OBVIOUS
<1>2. PICK n \in Nat : n = Len(t) \div BlockSize /\ BlockSize * n <= Len(t)
  BY <1>1, Divided, Sizes
<1>3. ASSUME NEW i \in 1..n
      PROVE  i * BlockSize \in Nat /\ i * BlockSize <= Len(t)
  <2>1. i * BlockSize <= BlockSize * n
    BY Sizes
  <2> QED
    BY <1>1, <1>2, <2>1, Sizes
<1>4. ASSUME NEW i \in 1..n PROVE SubSeq(t, 1, i * BlockSize) \in Seq(Nat) /\ Len(SubSeq(t, 1, i * BlockSize)) = i * BlockSize
  <2>1. PICK k \in Nat : k = i * BlockSize /\ k <= Len(t)
    BY <1>3
  <2>2. SubSeq(t, 1, k) \in Seq(Nat) /\ Len(SubSeq(t, 1, k)) = k
    BY <1>1, <2>1
  <2> QED
    BY <2>1, <2>2
<1>5. generate_hash(t) = [i \in 1..n |-> SubSeq(t, 1, i * BlockSize)]
  BY <1>2 DEF generate_hash
<1>6. generate_hash(t) \in Seq(Seq(Nat)) /\ Len(generate_hash(t)) = n
  BY <1>4, <1>5
<1>7. \A i \in 1..n : generate_hash(t)[i] = SubSeq(t, 1, i * BlockSize)
  BY <1>5
<1> QED
  BY <1>2, <1>4, <1>6, <1>7

\* The loop over the lookup's results stops at the first miss.
LEMMA LeadingHitsOf ==
    ASSUME NEW ids, Len(ids) \in Nat, NEW S
    PROVE  /\ LeadingHits(ids, S) \in 0..Len(ids)
           /\ \A i \in 1..LeadingHits(ids, S) : ids[i] \in S
           /\ LeadingHits(ids, S) < Len(ids) => ids[LeadingHits(ids, S) + 1] \notin S
<1> DEFINE n == Len(ids)
           P(k) == /\ \A i \in 1..k : ids[i] \in S
                   /\ k < n => ids[k + 1] \notin S
           T == {k \in 0..n : ~ (k < n => ids[k + 1] \in S)}
<1>1. \E k \in 0..n : P(k)
  <2>1. CASE \A i \in 1..n : ids[i] \in S
    <3>1. P(n) /\ n \in 0..n
      BY <2>1
    <3> QED
      BY <3>1
  <2>2. CASE ~ \A i \in 1..n : ids[i] \in S
    <3>1. PICK j \in 1..n : ids[j] \notin S
      BY <2>2
    <3>2. j - 1 \in 0..n /\ j - 1 < n /\ (j - 1) + 1 = j
      BY <3>1
    <3>3. j - 1 \in T
      BY <3>1, <3>2
    <3>4. T \in SUBSET Nat /\ T # {}
      BY <3>3
    <3>5. PICK k \in T : \A y \in T : k <= y
      BY <3>4, NatLeast
    <3>6. k \in 0..n /\ k < n /\ ids[k + 1] \notin S
      BY <3>5
    <3>7. ASSUME NEW i \in 1..k PROVE ids[i] \in S
      <4>1. i - 1 \in 0..n /\ i - 1 < n /\ (i - 1) + 1 = i /\ ~ (k <= i - 1)
        BY <3>6
      <4>2. i - 1 \notin T
        BY <3>5, <4>1
      <4> QED
        BY <4>1, <4>2
    <3>8. P(k)
      BY <3>6, <3>7
    <3> QED
      BY <3>6, <3>8
  <2> QED
    BY <2>1, <2>2
<1>2. LeadingHits(ids, S) = CHOOSE k \in 0..n : P(k)
  BY DEF LeadingHits
<1> DEFINE h == LeadingHits(ids, S)
<1>3. h \in 0..n /\ P(h)
  <2> HIDE DEF P, h
  <2> QED
    BY <1>1, <1>2 DEF h
<1> QED
  BY <1>3

----------------------------------------------------------------------------
(* What the connector's own operations return.                             *)

DeviceBlocks == 1..HbmBlocks

\* A RequestMeta; the ids and device blocks of a load or dump; requests_meta.
Note == [ucm_block_ids : Seq(Seq(Nat)), hbm_hit : Nat, total_hit : Nat, num_token_ids : Nat,
         vllm_block_ids : Seq(DeviceBlocks), token_processed : Nat]
Task == [ids : Seq(Seq(Nat)), blocks : Seq(DeviceBlocks)]
Notes(metas) ==
    /\ DOMAIN metas \subseteq Requests
    /\ \A q \in DOMAIN metas :
         metas[q] \in Note /\ metas[q].hbm_hit <= metas[q].total_hit
                           /\ metas[q].total_hit <= Len(metas[q].ucm_block_ids)

\* A note whose counters agree may be put among the notes.
LEMMA NotePut ==
    ASSUME Notes(meta), NEW r \in Requests, NEW m \in Note,
           m.hbm_hit <= m.total_hit, m.total_hit <= Len(m.ucm_block_ids)
    PROVE  Notes(Noted(r, m))
<1> DEFINE f == Noted(r, m)
<1>1. DOMAIN f = {r} \cup DOMAIN meta /\ \A q \in DOMAIN f : f[q] = IF q = r THEN m ELSE meta[q]
  BY DEF Noted
<1> HIDE DEF f
<1> QED
  BY <1>1 DEF Notes, f

\* What the scheduler is told is never a negative number of tokens, although a full hit counts
\* for one token less, and the counters of the note agree.
LEMMA Matched ==
    ASSUME tokens \in [Requests -> Seq(Nat)], Notes(meta), NEW r \in Requests, NEW h \in Nat, NEW ok \in BOOLEAN,
           NEW m, m = get_num_new_matched_tokens(r, h, ok)
    PROVE  /\ m.tokens \in Nat /\ Notes(m.metas)
           /\ m.tokens # 0 => /\ r \in DOMAIN m.metas
                              /\ m.tokens <= m.metas[r].total_hit * BlockSize
                              /\ m.metas = [q \in DOMAIN m.metas |-> m.metas[q]]
<1>1. PICK ids : /\ ids = generate_hash(tokens[r]) /\ ids \in Seq(Seq(Nat)) /\ Len(ids) \in Nat
                 /\ BlockSize * Len(ids) <= Len(tokens[r]) /\ Len(tokens[r]) \in Nat
  <2>1. tokens[r] \in Seq(Nat)
    OBVIOUS
  <2> QED
    BY <2>1, GenHash
<1> DEFINE ext == Slice(ids, h, Len(ids))
           hit == IF ok THEN LeadingHits(ext, Stored) ELSE 0
           total == (h + hit) * BlockSize
           told == hit * BlockSize - (IF total = Len(tokens[r]) THEN 1 ELSE 0)
           note == [ucm_block_ids |-> ids, hbm_hit |-> h, total_hit |-> h + hit,
                    num_token_ids |-> Len(tokens[r]), vllm_block_ids |-> <<>>, token_processed |-> total]
<1>2. m = IF ext = <<>> THEN [tokens |-> 0, metas |-> meta] ELSE [tokens |-> told, metas |-> Noted(r, note)]
  BY <1>1 DEF get_num_new_matched_tokens
<1>3. CASE ext = <<>>
  BY <1>2, <1>3
<1>4. CASE ext # <<>>
  <2>1. ext = SubSeq(ids, h + 1, Len(ids))
    BY <1>1 DEF Slice, Least
  <2>2. h < Len(ids)
    BY <1>1, <1>4, <2>1
  <2>3. Len(ext) = Len(ids) - h
    BY <1>1, <2>1, <2>2
  <2>4. hit \in Nat /\ h + hit <= Len(ids)
    <3>1. LeadingHits(ext, Stored) \in 0..Len(ext)
      <4>1. Len(ext) \in Nat
        BY <1>1, <2>2, <2>3
      <4> HIDE DEF ext
      <4> QED
        BY <4>1, LeadingHitsOf
    <3> HIDE DEF ext
    <3> QED
      BY <1>1, <2>2, <2>3, <3>1
  <2> HIDE DEF ext, hit
  <2>5. total \in Nat /\ hit * BlockSize \in Nat /\ hit * BlockSize <= (h + hit) * BlockSize
    BY <2>4, Sizes
  <2>6. told \in Nat /\ told <= (h + hit) * BlockSize
    <3>1. CASE hit = 0
      <4>1. total = h * BlockSize /\ hit * BlockSize = 0
        BY <3>1, Sizes
      <4>2. h * BlockSize < BlockSize * Len(ids)
        <5>1. h * BlockSize < Len(ids) * BlockSize
          BY <1>1, <2>2, Times, Sizes
        <5>2. Len(ids) * BlockSize = BlockSize * Len(ids)
          BY <1>1, Times, Sizes
        <5> QED
          BY <5>1, <5>2
      <4>3. total # Len(tokens[r])
        BY <1>1, <2>5, <4>1, <4>2, Sizes
      <4> QED
        BY <2>5, <4>1, <4>3
    <3>2. CASE hit # 0
      <4>1. hit * BlockSize >= 1
        <5>1. hit \in Nat /\ hit > 0
          BY <2>4, <3>2
        <5>2. hit * BlockSize >= BlockSize
          BY <5>1, Times, Sizes
        <5> QED
          BY <2>5, <5>2, Sizes
      <4> QED
        BY <2>5, <4>1
    <3> QED
      BY <3>1, <3>2
  <2> HIDE DEF total, told
  <2>7. note \in Note /\ note.hbm_hit = h /\ note.total_hit = h + hit /\ note.ucm_block_ids = ids
    BY <1>1, <2>4, <2>5 DEF Note
  <2>8. h <= h + hit
    BY <2>4
  <2> HIDE DEF note
  <2>9. Notes(Noted(r, note))
    BY <2>4, <2>7, <2>8, NotePut
  <2>10. m.tokens = told /\ m.metas = Noted(r, note)
    BY <1>2, <1>4
  <2>11. r \in DOMAIN m.metas /\ m.metas[r] = note /\ m.metas = [q \in DOMAIN m.metas |-> m.metas[q]]
    BY <2>10 DEF Noted
  <2> QED
    BY <2>6, <2>7, <2>9, <2>10, <2>11
<1> QED
  BY <1>3, <1>4

\* The mock's cut keeps the counters of the note in agreement.
LEMMA MatchOf ==
    ASSUME load \in Loads, tokens \in [Requests -> Seq(Nat)], Notes(meta),
           NEW r \in Requests, NEW h \in Nat, NEW ok \in BOOLEAN
    PROVE  Match(r, h, ok).tokens \in Nat /\ Notes(Match(r, h, ok).metas)
<1>1. PICK m : m = get_num_new_matched_tokens(r, h, ok)
  OBVIOUS
<1>2. /\ m.tokens \in Nat /\ Notes(m.metas)
      /\ m.tokens # 0 => /\ r \in DOMAIN m.metas
                         /\ m.tokens <= m.metas[r].total_hit * BlockSize
                         /\ m.metas = [q \in DOMAIN m.metas |-> m.metas[q]]
  BY <1>1, Matched
<1>3. CASE load.kind # "mock"
  BY <1>1, <1>2, <1>3 DEF Match
<1>4. CASE load.kind = "mock"
  <2>1. PICK e \in Nat : e = (load.hit_ratio * Len(prompt[r])) \div 100
    <3>1. load.hit_ratio \in 0..100
      BY ConnectorAssumption
    <3>2. load.hit_ratio \in Nat
      <4>1. \A x \in 0..100 : x \in Nat
        OBVIOUS
      <4> QED
        BY <3>1, <4>1, Zenon
    <3>3. load.prompt[r] \in Seq(Nat)
      BY ConnectorAssumption
    <3>4. load.hit_ratio \in Nat /\ Len(prompt[r]) \in Nat
      BY <3>2, <3>3 DEF prompt
    <3>5. PICK p \in Nat : p = load.hit_ratio * Len(prompt[r])
      BY <3>4
    <3>6. p \div 100 \in Nat
      OBVIOUS
    <3> QED
      BY <3>5, <3>6
  <2>2. PICK n \in Nat : n = e \div BlockSize /\ BlockSize * n <= e
    BY <2>1, Divided, Sizes
  <2>3. Match(r, h, ok) = IF m.tokens <= e THEN m
                          ELSE [tokens |-> n * BlockSize,
                                metas  |-> [m.metas EXCEPT ![r].total_hit = n, ![r].hbm_hit = Least(n, @)]]
    BY <1>1, <1>4, <2>1, <2>2 DEF Match, HijackedMatch
  <2>4. CASE m.tokens <= e
    BY <1>2, <2>3, <2>4
  <2>5. CASE m.tokens > e
    <3>1. m.tokens # 0 /\ BlockSize * n < m.tokens
      BY <1>2, <2>2, <2>5, Sizes
    <3>2. r \in DOMAIN m.metas /\ m.metas[r] \in Note /\ m.metas[r].hbm_hit \in Nat
          /\ m.metas[r].total_hit \in Nat /\ m.metas[r].total_hit <= Len(m.metas[r].ucm_block_ids)
          /\ Len(m.metas[r].ucm_block_ids) \in Nat
      BY <1>2, <3>1 DEF Notes, Note
    <3>3. n < m.metas[r].total_hit
      <4>1. CASE n >= m.metas[r].total_hit
        <5>1. m.metas[r].total_hit * BlockSize <= n * BlockSize /\ n * BlockSize = BlockSize * n /\ n * BlockSize \in Nat
          BY <3>2, <4>1, Times, Sizes
        <5>2. m.metas[r].total_hit * BlockSize \in Nat
          BY <3>2, Times, Sizes
        <5>3. m.tokens \in Nat /\ m.tokens <= m.metas[r].total_hit * BlockSize
          BY <1>2, <3>1
        <5>4. BlockSize * n < m.tokens
          BY <3>1
        <5> QED
          BY <5>1, <5>2, <5>3, <5>4
      <4> QED
        BY <3>2, <4>1
    <3> DEFINE f == [m.metas EXCEPT ![r].total_hit = n, ![r].hbm_hit = Least(n, @)]
               c == [m.metas[r] EXCEPT !.total_hit = n, !.hbm_hit = Least(n, @)]
    <3>4. DOMAIN f = DOMAIN m.metas /\ f[r] = c /\ \A q \in DOMAIN m.metas : q # r => f[q] = m.metas[q]
      BY <1>2, <3>1, <3>2
    <3>5. c \in Note /\ c.hbm_hit <= c.total_hit /\ c.total_hit <= Len(c.ucm_block_ids)
      <4>1. Least(n, m.metas[r].hbm_hit) \in Nat /\ Least(n, m.metas[r].hbm_hit) <= n
        BY <3>2 DEF Least
      <4>2. c \in Note /\ c.total_hit = n /\ c.hbm_hit = Least(n, m.metas[r].hbm_hit)
            /\ c.ucm_block_ids = m.metas[r].ucm_block_ids
        BY <3>2, <4>1 DEF Note
      <4> QED
        BY <3>2, <3>3, <4>1, <4>2
    <3>6. Match(r, h, ok).tokens = n * BlockSize /\ Match(r, h, ok).metas = f
      BY <1>2, <2>3, <2>5
    <3> HIDE DEF f, c
    <3>7. Notes(f)
      BY <1>2, <3>4, <3>5 DEF Notes
    <3>8. n * BlockSize \in Nat
      BY Sizes
    <3> QED
      BY <3>6, <3>7, <3>8
  <2> QED
    BY <1>2, <2>4, <2>5
<1> QED
  BY <1>3, <1>4

\* Nothing to load or dump.
LEMMA EmptyTask == NoBlocks \in Task /\ NoBlocks.ids = <<>> /\ NoBlocks.blocks = <<>> /\ ToSet(NoBlocks.blocks) = {}
BY DEF NoBlocks, Task, ToSet

\* What the scheduler side hands to the worker: a load only of blocks it was given just now.
LEMMA Dispatched ==
    ASSUME NEW metas, Notes(metas), NEW r \in Requests, NEW n \in Nat, NEW new \in Seq(DeviceBlocks), NEW needLoad \in BOOLEAN,
           NEW d, d = build_connector_meta(r, metas, n, new, needLoad)
    PROVE  /\ d.load \in Task /\ ToSet(d.load.blocks) \subseteq ToSet(new)
           /\ ~needLoad => d.load = NoBlocks
           /\ d.dump \in Task
           /\ Notes(d.meta)
<1> DEFINE m == metas[r]
           g == _generate_dispatch_meta(m, n, new, needLoad)
<1>1. CASE r \notin DOMAIN metas
  <2>1. d.load = NoBlocks /\ d.dump = NoBlocks
        /\ d.meta = [q \in DOMAIN metas \ finished |-> IF q = r THEN NoBlocks ELSE metas[q]]
    BY <1>1 DEF build_connector_meta
  <2>2. Notes(d.meta)
    BY <1>1, <2>1 DEF Notes
  <2>3. {} \subseteq ToSet(new)
    OBVIOUS
  <2> QED
    BY <2>1, <2>2, <2>3, EmptyTask
<1>2. CASE r \in DOMAIN metas
  <2>1. /\ m \in Note /\ m.hbm_hit \in Nat /\ m.total_hit \in Nat /\ m.num_token_ids \in Nat /\ m.token_processed \in Nat
        /\ m.ucm_block_ids \in Seq(Seq(Nat)) /\ m.vllm_block_ids \in Seq(DeviceBlocks)
        /\ m.hbm_hit <= m.total_hit /\ m.total_hit <= Len(m.ucm_block_ids)
    BY <1>2 DEF Notes, Note
  <2>2. /\ d.load = g.load /\ d.dump = g.dump
        /\ d.meta = [q \in DOMAIN metas \ finished |-> IF q = r THEN g.meta ELSE metas[q]]
    BY <1>2 DEF build_connector_meta, _generate_dispatch_meta
  <2> DEFINE known == m.vllm_block_ids \o new
             more  == m.token_processed < m.num_token_ids
             first == m.token_processed \div BlockSize
             end   == (m.token_processed + n) \div BlockSize
  <2>3. /\ g.meta = [m EXCEPT !.vllm_block_ids = known, !.token_processed = IF more THEN @ + n ELSE @]
        /\ g.load = IF needLoad THEN [ids    |-> Slice(m.ucm_block_ids, m.hbm_hit, m.total_hit),
                                      blocks |-> Slice(new, m.hbm_hit, m.total_hit)] ELSE NoBlocks
        /\ g.dump = IF more THEN [ids    |-> Slice(m.ucm_block_ids, first, end),
                                  blocks |-> Slice(known, first, end)] ELSE NoBlocks
    BY DEF _generate_dispatch_meta
  <2>4. first \in Nat /\ end \in Nat
    BY <2>1, Divided, Sizes
  <2>5. known \in Seq(DeviceBlocks)
    BY <2>1, Joined
  <2> HIDE DEF known, more, first, end, g, m
  <2>6. g.load \in Task /\ ToSet(g.load.blocks) \subseteq ToSet(new) /\ (~needLoad => g.load = NoBlocks)
    <3>1. CASE needLoad
      <4>1. Slice(m.ucm_block_ids, m.hbm_hit, m.total_hit) \in Seq(Seq(Nat))
        BY <2>1, SliceIn
      <4>2. Slice(new, m.hbm_hit, m.total_hit) \in Seq(DeviceBlocks)
            /\ ToSet(Slice(new, m.hbm_hit, m.total_hit)) \subseteq ToSet(new)
        BY <2>1, SliceIn
      <4> QED
        BY <2>3, <3>1, <4>1, <4>2 DEF Task
    <3>2. CASE ~needLoad
      <4>1. {} \subseteq ToSet(new)
        OBVIOUS
      <4> QED
        BY <2>3, <3>2, <4>1, EmptyTask
    <3> QED
      BY <3>1, <3>2
  <2>7. g.dump \in Task
    <3>1. CASE more
      <4>1. Slice(m.ucm_block_ids, first, end) \in Seq(Seq(Nat))
        BY <2>1, <2>4, SliceIn
      <4>2. Slice(known, first, end) \in Seq(DeviceBlocks)
        BY <2>4, <2>5, SliceIn
      <4> QED
        BY <2>3, <3>1, <4>1, <4>2 DEF Task
    <3>2. CASE ~more
      BY <2>3, <3>2, EmptyTask
    <3> QED
      BY <3>1, <3>2
  <2>8. g.meta \in Note /\ g.meta.hbm_hit = m.hbm_hit /\ g.meta.total_hit = m.total_hit
        /\ g.meta.ucm_block_ids = m.ucm_block_ids
    <3>1. m.token_processed + n \in Nat
      BY <2>1
    <3> QED
      BY <2>1, <2>3, <2>5, <3>1 DEF Note
  <2>9. Notes(d.meta)
    <3>1. DOMAIN d.meta = DOMAIN metas \ finished /\ \A q \in DOMAIN d.meta : d.meta[q] = IF q = r THEN g.meta ELSE metas[q]
      BY <2>2
    <3> QED
      BY <2>1, <2>8, <3>1 DEF Notes
  <2> QED
    BY <2>2, <2>6, <2>7, <2>9
<1> QED
  BY <1>1, <1>2

----------------------------------------------------------------------------
(* What the engine's operations do.                                        *)

\* A step counts no more tokens than the request has, also when it goes back to the block that
\* failed to load.
LEMMA Updated ==
    ASSUME tokens \in [Requests -> Seq(Nat)], computed \in [Requests -> Nat],
           \A q \in Requests : computed[q] <= Len(tokens[q]),
           NEW r \in Requests, NEW done \in Nat, done <= Len(tokens[r]), NEW held \in Seq(DeviceBlocks),
           NEW invalid, invalid \subseteq ToSet(held), invalid # {} => Len(held) * BlockSize <= Len(tokens[r]) + BlockSize,
           Update(r, done, held, invalid)
    PROVE  /\ tokens' \in [Requests -> Seq(Nat)] /\ computed' \in [Requests -> Nat]
           /\ \A q \in Requests : computed'[q] <= Len(tokens'[q])
<1> DEFINE P(i) == held[i] \in invalid /\ \A j \in 1..(i - 1) : held[j] \notin invalid
           upTo == IF invalid = {} THEN done ELSE (CHOOSE i \in DOMAIN held : P(i)) * BlockSize - BlockSize
<1>1. upTo \in Nat /\ upTo <= Len(tokens[r])
  <2>1. CASE invalid = {}
    BY <2>1
  <2>2. CASE invalid # {}
    <3>1. DOMAIN held = 1..Len(held) /\ Len(held) \in Nat
      OBVIOUS
    <3>2. \E i \in DOMAIN held : P(i)
      <4> DEFINE T == {i \in 1..Len(held) : held[i] \in invalid}
      <4>1. T \in SUBSET Nat /\ T # {}
        <5>1. PICK x \in invalid : x \in ToSet(held)
          BY <2>2
        <5>2. PICK i \in 1..Len(held) : x = held[i]
          BY <5>1, SetOf
        <5>3. i \in T
          BY <5>1, <5>2
        <5>4. \A j \in 1..Len(held) : j \in Nat
          BY <3>1
        <5> QED
          BY <5>3, <5>4
      <4>2. PICK i \in T : \A y \in T : i <= y
        BY <4>1, NatLeast
      <4>3. i \in 1..Len(held) /\ held[i] \in invalid
        BY <4>2
      <4>4. ASSUME NEW j \in 1..(i - 1) PROVE held[j] \notin invalid
        <5>1. j \in 1..Len(held) /\ ~ (i <= j)
          BY <3>1, <4>3
        <5> QED
          BY <4>2, <5>1
      <4> QED
        BY <3>1, <4>3, <4>4
    <3>3. PICK i \in 1..Len(held) : i = CHOOSE k \in DOMAIN held : P(k)
      <4> HIDE DEF P
      <4> QED
        BY <3>1, <3>2
    <3>4. upTo = i * BlockSize - BlockSize
      BY <2>2, <3>3
    <3> HIDE DEF upTo
    <3>5. i \in Nat /\ i # 0 /\ i <= Len(held)
      BY <3>1
    <3>6. i * BlockSize >= BlockSize /\ i * BlockSize \in Nat
      BY <3>5, Times, Sizes
    <3>7. i * BlockSize <= Len(held) * BlockSize
      BY <3>1, <3>5, Times, Sizes
    <3>8. Len(held) * BlockSize <= Len(tokens[r]) + BlockSize /\ Len(tokens[r]) \in Nat /\ Len(held) * BlockSize \in Nat
      BY <2>2, <3>1, Times, Sizes
    <3> QED
      BY <3>4, <3>6, <3>7, <3>8, Sizes
  <2> QED
    BY <2>1, <2>2
<1>2. /\ computed' = [computed EXCEPT ![r] = upTo]
      /\ tokens' = tokens \/ tokens' = [tokens EXCEPT ![r] = Append(@, Reply[r])]
  BY DEF Update
<1> HIDE DEF upTo
<1>3. Reply[r] \in Nat
  BY ConnectorAssumption
<1>4. Append(tokens[r], Reply[r]) \in Seq(Nat) /\ Len(Append(tokens[r], Reply[r])) = Len(tokens[r]) + 1 /\ Len(tokens[r]) \in Nat
  BY <1>3
<1>5. tokens' \in [Requests -> Seq(Nat)]
  BY <1>2, <1>4
<1>6. \A q \in Requests : Len(tokens[q]) <= Len(tokens'[q]) /\ Len(tokens[q]) \in Nat /\ Len(tokens'[q]) \in Nat
  <2> SUFFICES ASSUME NEW q \in Requests
               PROVE  Len(tokens[q]) <= Len(tokens'[q]) /\ Len(tokens[q]) \in Nat /\ Len(tokens'[q]) \in Nat
    OBVIOUS
  <2>1. tokens[q] \in Seq(Nat) /\ tokens'[q] \in Seq(Nat)
    BY <1>5
  <2>2. Len(tokens[q]) \in Nat /\ Len(tokens'[q]) \in Nat
    BY <2>1
  <2>3. tokens'[q] = tokens[q] \/ (q = r /\ tokens'[q] = Append(tokens[r], Reply[r]))
    BY <1>2
  <2> QED
    BY <1>4, <2>2, <2>3
<1>7. computed' \in [Requests -> Nat] /\ \A q \in Requests : computed'[q] <= Len(tokens[q])
  BY <1>1, <1>2
<1> QED
  BY <1>5, <1>6, <1>7

\* The engine's hits on the device are blocks of it, each once.
LEMMA HbmHitsOf ==
    ASSUME tokens \in [Requests -> Seq(Nat)], NEW r \in Requests
    PROVE  HbmHits(r) \in Seq(DeviceBlocks) /\ IsInjective(HbmHits(r))
<1>1. PICK t \in Seq(Nat) : t = tokens[r]
  OBVIOUS
<1>2. PICK all \in Seq(Seq(Nat)) : all = generate_hash(t)
  BY GenHash
<1>3. Len(all) \in Nat /\ \A i \in 1..Len(all) : Len(all[i]) = i * BlockSize
  BY <1>2, GenHash
<1> DEFINE b == (Len(t) - 1) \div BlockSize
           ids == Slice(all, 0, b)
<1>4. b \in Int
  <2>1. Len(t) - 1 \in Int
    OBVIOUS
  <2> QED
    BY <2>1, Sizes
<1>5. Len(ids) \in Nat /\ Len(ids) <= Len(all) /\ \A i \in 1..Len(ids) : ids[i] = all[i]
  <2>1. PICK m \in Int : m <= Len(all) /\ ids = SubSeq(all, 1, m)
    <3>1. Least(b, Len(all)) \in Int /\ Least(b, Len(all)) <= Len(all)
      BY <1>3, <1>4 DEF Least
    <3>2. ids = SubSeq(all, 1, Least(b, Len(all)))
      BY DEF Slice
    <3> QED
      BY <3>1, <3>2
  <2> HIDE DEF ids
  <2> QED
    BY <1>3, <2>1
<1> HIDE DEF ids, b
<1> DEFINE S == {cached[v] : v \in 1..HbmBlocks}
           n == LeadingHits(ids, S)
           hit(i) == CHOOSE v \in 1..HbmBlocks : cached[v] = ids[i]
<1>6. HbmHits(r) = [i \in 1..n |-> hit(i)]
  BY <1>1, <1>2 DEF HbmHits, ids, b
<1>7. n \in 0..Len(ids) /\ \A i \in 1..n : ids[i] \in S
  <2> HIDE DEF S
  <2> QED
    BY <1>5, LeadingHitsOf
<1> HIDE DEF n
<1>8. ASSUME NEW i \in 1..n PROVE hit(i) \in DeviceBlocks /\ cached[hit(i)] = all[i]
  <2>1. i \in 1..Len(ids) /\ \E v \in 1..HbmBlocks : cached[v] = ids[i]
    <3>1. i \in 1..Len(ids)
      BY <1>5, <1>7
    <3>2. ids[i] \in S
      BY <1>7
    <3> QED
      BY <3>1, <3>2
  <2>2. hit(i) \in 1..HbmBlocks /\ cached[hit(i)] = ids[i]
    BY <2>1
  <2> HIDE DEF hit
  <2> QED
    BY <1>5, <2>1, <2>2 DEF DeviceBlocks
<1> HIDE DEF hit
<1>9. HbmHits(r) \in Seq(DeviceBlocks) /\ DOMAIN HbmHits(r) = 1..n
  BY <1>6, <1>7, <1>8
<1>10. ASSUME NEW i \in 1..n, NEW j \in 1..n, HbmHits(r)[i] = HbmHits(r)[j] PROVE i = j
  <2>1. all[i] = all[j] /\ i \in 1..Len(all) /\ j \in 1..Len(all)
    <3>1. i \in 1..Len(all) /\ j \in 1..Len(all)
      BY <1>3, <1>5, <1>7
    <3>2. hit(i) = hit(j)
      BY <1>6, <1>10
    <3> QED
      BY <1>8, <3>1, <3>2
  <2>2. i * BlockSize = j * BlockSize
    BY <1>3, <2>1
  <2>3. i \in Nat /\ j \in Nat
    BY <1>7
  <2>4. i < j => i * BlockSize < j * BlockSize
    BY <2>3, Times, Sizes
  <2>5. j < i => j * BlockSize < i * BlockSize
    BY <2>3, Times, Sizes
  <2>6. i * BlockSize \in Nat /\ j * BlockSize \in Nat
    BY <2>3, Times, Sizes
  <2> QED
    BY <2>2, <2>3, <2>4, <2>5, <2>6
<1> QED
  BY <1>9, <1>10 DEF IsInjective

----------------------------------------------------------------------------
(* The invariant.                                                          *)

StepType == [r : Requests, held : Seq(DeviceBlocks), from : Nat, n : Nat, dump : Task, layer : Nat,
             right : BOOLEAN, invalid : SUBSET DeviceBlocks]

\* The queues, and the notes of the connector.
Shapes ==
    /\ load \in Loads /\ engine \in {"up", "down"} /\ Notes(meta)
    /\ status \in [Requests -> {"new", "waiting", "running", "finished"}]
    /\ waiting \in Seq(Requests) /\ running \in Seq(Requests)
    /\ \A r \in Requests : status[r] = "running" => r \in ToSet(running)

\* No request has more tokens computed than it has.
Counted ==
    /\ tokens \in [Requests -> Seq(Nat)] /\ computed \in [Requests -> Nat]
    /\ \A r \in Requests : computed[r] <= Len(tokens[r])

\* A block is free once or held, never both; no request holds it twice.
Pool ==
    /\ free \in Seq(DeviceBlocks) /\ IsInjective(free)
    /\ blocks \in [Requests -> Seq(DeviceBlocks)]
    /\ \A r \in Requests : IsInjective(blocks[r]) /\ ToSet(blocks[r]) \cap ToSet(free) = {}

\* A layer-wise step goes on: loads that are kept are for its blocks and for layers to come, and
\* when one may fail the request can go back to any of its blocks.
Within ==
    /\ step \in StepType
    /\ step.from + step.n <= Len(tokens[step.r])
    /\ step.invalid \subseteq ToSet(step.held)
    /\ (step.invalid # {} \/ \E t \in loading : t.kept) =>
         Len(step.held) * BlockSize <= Len(tokens[step.r]) + BlockSize
    /\ \A t \in loading : t.kept =>
         ToSet(t.blocks) \subseteq ToSet(step.held) /\ \E l \in step.layer..load.layers : t.area \in AreasOf(l)

Between == step = NoStep /\ \A t \in loading : ~t.kept

Inv == Shapes /\ Counted /\ Pool /\ (Between \/ Within)

\* A step that goes on is one.
LEMMA WithinIsStep == Within => step # NoStep
<1> SUFFICES ASSUME step \in StepType, step = <<>> PROVE FALSE
  BY DEF Within, NoStep
<1>1. "r" \in DOMAIN step
  BY DEF StepType
<1>2. DOMAIN <<>> = {}
  OBVIOUS
<1> QED
  BY <1>1, <1>2

\* Freed blocks come behind the free ones, and none of them is held by another request.
LEMMA ReleasedApart ==
    ASSUME Pool, NEW r \in Requests, free' = Released(r), blocks' = [blocks EXCEPT ![r] = <<>>]
    PROVE  Pool'
<1> DEFINE others == UNION {ToSet(blocks[q]) : q \in Requests \ {r}}
<1>1. PICK gone : gone = Without(blocks[r], others)
  OBVIOUS
<1>2. PICK back : back = Reverse(gone)
  OBVIOUS
<1>3. free' = free \o back
  BY <1>1, <1>2 DEF Released
<1>4. /\ free \in Seq(DeviceBlocks) /\ IsInjective(free) /\ blocks \in [Requests -> Seq(DeviceBlocks)]
      /\ \A q \in Requests : IsInjective(blocks[q]) /\ ToSet(blocks[q]) \cap ToSet(free) = {}
  BY DEF Pool
<1>5. \A q \in Requests \ {r} : ToSet(blocks[q]) \cap others = ToSet(blocks[q])
  OBVIOUS
<1> HIDE DEF others
<1>6. blocks[r] \in Seq(DeviceBlocks) /\ IsInjective(blocks[r])
  BY <1>4
<1>7. gone \in Seq(DeviceBlocks) /\ ToSet(gone) = ToSet(blocks[r]) \ others /\ IsInjective(gone)
  BY <1>1, <1>6, Filtered
<1>8. back \in Seq(DeviceBlocks) /\ ToSet(back) = ToSet(gone) /\ IsInjective(back)
  BY <1>2, <1>7, Reversed
<1>9. ToSet(free) \cap ToSet(back) = {}
  BY <1>4, <1>7, <1>8
<1>10. free' \in Seq(DeviceBlocks) /\ ToSet(free') = ToSet(free) \cup ToSet(back)
  BY <1>3, <1>4, <1>8, Joined
<1>11. IsInjective(free')
  BY <1>3, <1>4, <1>8, <1>9, JoinedApart
<1>12. <<>> \in Seq(DeviceBlocks) /\ IsInjective(<<>>) /\ ToSet(<<>>) = {}
  <2>1. DOMAIN <<>> = {}
    OBVIOUS
  <2> QED
    BY <2>1 DEF IsInjective, ToSet
<1>13. blocks' \in [Requests -> Seq(DeviceBlocks)]
  BY <1>4, <1>12
<1>14. ASSUME NEW q \in Requests PROVE IsInjective(blocks'[q]) /\ ToSet(blocks'[q]) \cap ToSet(free') = {}
  <2>1. CASE q = r
    <3>1. blocks'[q] = <<>>
      BY <1>4, <2>1
    <3> QED
      BY <1>12, <3>1
  <2>2. CASE q # r
    <3>1. blocks'[q] = blocks[q]
      BY <1>4, <2>2
    <3>2. ToSet(blocks[q]) \cap ToSet(back) = {}
      BY <1>5, <1>7, <1>8, <2>2
    <3> QED
      BY <1>4, <1>10, <3>1, <3>2
  <2> QED
    BY <2>1, <2>2
<1> QED
  BY <1>10, <1>11, <1>13, <1>14 DEF Pool

\* The blocks that a request holds after an allocation are no longer among the free ones.
LEMMA PoolGiven ==
    ASSUME Pool, NEW r \in Requests, NEW held \in Seq(DeviceBlocks), IsInjective(held),
           blocks' = [blocks EXCEPT ![r] = held],
           free' \in Seq(DeviceBlocks), IsInjective(free'), ToSet(free') \subseteq ToSet(free),
           ToSet(held) \cap ToSet(free') = {}
    PROVE  Pool'
<1>1. /\ blocks \in [Requests -> Seq(DeviceBlocks)]
      /\ \A q \in Requests : IsInjective(blocks[q]) /\ ToSet(blocks[q]) \cap ToSet(free) = {}
  BY DEF Pool
<1>2. blocks' \in [Requests -> Seq(DeviceBlocks)]
  BY <1>1
<1>3. ASSUME NEW q \in Requests PROVE IsInjective(blocks'[q]) /\ ToSet(blocks'[q]) \cap ToSet(free') = {}
  <2>1. CASE q = r
    <3>1. blocks'[q] = held
      BY <1>1, <2>1
    <3> QED
      BY <3>1
  <2>2. CASE q # r
    <3>1. blocks'[q] = blocks[q]
      BY <1>1, <2>2
    <3> QED
      BY <1>1, <3>1
  <2> QED
    BY <2>1, <2>2
<1> QED
  BY <1>2, <1>3 DEF Pool

\* Every area is in a layer, so a load that is kept will be awaited.
LEMMA AreaHasLayer ==
    ASSUME load \in Loads, NEW a \in Areas
    PROVE  \E l \in 1..load.layers : a \in AreasOf(l)
<1>1. PICK n \in Nat \ {0} : n = load.layers
  BY ConnectorAssumption
<1>2. Areas = 1..(IF load.is_mla THEN n ELSE 2 * n)
  BY <1>1 DEF Areas
<1>3. a \in 1..(2 * n)
  <2>1. CASE load.is_mla
    BY <1>1, <1>2, <2>1
  <2>2. CASE ~load.is_mla
    BY <1>2, <2>2
  <2> QED
    BY <2>1, <2>2
<1>4. CASE a <= n
  <2>1. a \in 1..n /\ a \in AreasOf(a)
    BY <1>3, <1>4 DEF AreasOf
  <2> QED
    BY <1>1, <2>1
<1>5. CASE a > n
  <2>1. a - n \in 1..n /\ (a - n) + n = a
    BY <1>3, <1>5
  <2>2. a \in AreasOf(a - n)
    BY <1>1, <2>1 DEF AreasOf
  <2> QED
    BY <1>1, <2>1, <2>2
<1> QED
  BY <1>3, <1>4, <1>5

\* The layer-wise start_load_kv: the tasks of every layer begin, or those begun are forgotten.
LEMMA LoadsStarted ==
    ASSUME load \in Loads, load' = load, Counted, Between, NEW r \in Requests, NEW d, NEW held \in Seq(DeviceBlocks),
           NEW from \in Nat, NEW n \in Nat, from + n <= Len(tokens[r]),
           d.dump \in Task, d.load \in Task, ToSet(d.load.blocks) \subseteq ToSet(held),
           d.load = NoBlocks \/ Len(held) * BlockSize <= Len(tokens[r]) + BlockSize,
           StartLayerLoads(r, d, held, from, n)
    PROVE  engine' = engine /\ Counted' /\ Within'
<1> DEFINE task(a, kept) == [area |-> a, ids |-> d.load.ids, blocks |-> d.load.blocks, kept |-> kept]
           areas(refused) == {b \in Areas : \A l \in 1..load.layers : b \in AreasOf(l) => refused = 0 \/ l < refused}
           begins(refused) ==
               /\ loading' = loading \cup (IF d.load.ids = <<>> THEN {} ELSE {task(a, refused = 0) : a \in areas(refused)})
               /\ step' = [r |-> r, held |-> held, from |-> from, n |-> n, dump |-> d.dump, layer |-> 1,
                           right |-> TRUE, invalid |-> IF refused = 0 THEN {} ELSE ToSet(d.load.blocks)]
<1>1. PICK refused \in Nat : begins(refused) /\ UNCHANGED <<engine, tokens, computed>>
  <2>1. (begins(0) \/ begins(1) \/ \E l \in 1..load.layers : begins(l)) /\ UNCHANGED <<engine, tokens, computed>>
    BY Zenon DEF StartLayerLoads
  <2>2. 0 \in Nat /\ 1 \in Nat /\ \A l \in 1..load.layers : l \in Nat
    OBVIOUS
  <2> HIDE DEF begins
  <2> QED
    BY <2>1, <2>2
<1>2. Counted'
  BY <1>1 DEF Counted
<1>3. ToSet(held) \subseteq DeviceBlocks
  BY SetOf
<1>4. step' \in StepType
  <2>1. (IF refused = 0 THEN {} ELSE ToSet(d.load.blocks)) \in SUBSET DeviceBlocks
    BY <1>3
  <2> QED
    BY <1>1, <2>1 DEF StepType
<1>5. /\ step'.r = r /\ step'.from = from /\ step'.n = n /\ step'.held = held /\ step'.layer = 1
      /\ step'.invalid = IF refused = 0 THEN {} ELSE ToSet(d.load.blocks)
  BY <1>1
<1>6. tokens'[r] = tokens[r]
  BY <1>1
<1>7. ASSUME NEW t \in loading', t.kept
      PROVE  /\ d.load # NoBlocks
             /\ ToSet(t.blocks) \subseteq ToSet(held) /\ \E l \in 1..load.layers : t.area \in AreasOf(l)
  <2>1. t \notin loading
    BY <1>7 DEF Between
  <2>2. d.load.ids # <<>> /\ t \in {task(a, refused = 0) : a \in areas(refused)}
    BY <1>1, <1>7, <2>1
  <2>3. d.load # NoBlocks
    BY <2>2, EmptyTask
  <2>4. PICK a \in areas(refused) : t = task(a, refused = 0)
    BY <2>2
  <2>5. a \in Areas /\ t.area = a /\ t.blocks = d.load.blocks
    BY <2>4
  <2> QED
    BY <2>3, <2>5, AreaHasLayer
<1>8. ASSUME NEW t \in loading', t.kept
      PROVE ToSet(t.blocks) \subseteq ToSet(step'.held) /\ \E l \in step'.layer..load'.layers : t.area \in AreasOf(l)'
  <2>1. PICK l \in 1..load.layers : t.area \in AreasOf(l)
    BY <1>7, <1>8
  <2>2. t.area \in AreasOf(l)'
    BY <2>1 DEF AreasOf, Areas
  <2>3. l \in step'.layer..load'.layers
    BY <1>5, <2>1
  <2> QED
    BY <1>5, <1>7, <1>8, <2>2, <2>3
<1>9. (step'.invalid # {} \/ \E t \in loading' : t.kept) => d.load # NoBlocks
  <2>1. step'.invalid # {} => d.load # NoBlocks
    BY <1>5, EmptyTask
  <2> QED
    BY <1>7, <2>1
<1>10. step'.from + step'.n <= Len(tokens'[step'.r]) /\ step'.invalid \subseteq ToSet(step'.held)
       /\ ((step'.invalid # {} \/ \E t \in loading' : t.kept) =>
             Len(step'.held) * BlockSize <= Len(tokens'[step'.r]) + BlockSize)
  BY <1>5, <1>6, <1>9
<1>11. Within'
  BY <1>4, <1>8, <1>10 DEF Within
<1> QED
  BY <1>1, <1>2, <1>11

\* A step of the direct connector is over when it returns; one of the layer-wise connector goes on.
LEMMA Executed ==
    ASSUME Shapes, load' = load, Counted, Between, NEW metas, Notes(metas), NEW r \in Requests,
           NEW held \in Seq(DeviceBlocks), NEW new \in Seq(DeviceBlocks), ToSet(new) \subseteq ToSet(held),
           NEW from \in Nat, NEW n \in Nat, from + n <= Len(tokens[r]), NEW needLoad \in BOOLEAN,
           needLoad => Len(held) * BlockSize <= Len(tokens[r]) + BlockSize,
           Execute(r, metas, held, new, from, n, needLoad)
    PROVE  /\ engine' \in {"up", "down"} /\ Notes(meta)' /\ blocks' = [blocks EXCEPT ![r] = held]
           /\ Counted' /\ (Between \/ Within)'
<1>1. PICK d : d = build_connector_meta(r, metas, n, new, needLoad)
  OBVIOUS
<1>2. /\ meta' = d.meta /\ blocks' = [blocks EXCEPT ![r] = held]
      /\ IF load.kind = "layerwise" THEN StartLayerLoads(r, d, held, from, n)
         ELSE LoadComputeSave(r, d, held, from, n)
  BY <1>1 DEF Execute
<1>3. /\ d.load \in Task /\ ToSet(d.load.blocks) \subseteq ToSet(new)
      /\ ~needLoad => d.load = NoBlocks
      /\ d.dump \in Task /\ Notes(d.meta)
  BY <1>1, Dispatched
<1>4. Notes(meta)'
  BY <1>2, <1>3 DEF Notes
<1>5. load \in Loads /\ engine \in {"up", "down"}
  BY DEF Shapes
<1>6. d.load = NoBlocks \/ Len(held) * BlockSize <= Len(tokens[r]) + BlockSize
  BY <1>3
<1>7. ToSet(d.load.blocks) \subseteq ToSet(held)
  BY <1>3
<1>8. CASE load.kind = "layerwise"
  <2>1. StartLayerLoads(r, d, held, from, n)
    BY <1>2, <1>8
  <2>2. engine' = engine /\ Counted' /\ Within'
    BY <1>3, <1>5, <1>6, <1>7, <2>1, LoadsStarted
  <2> QED
    BY <1>2, <1>4, <1>5, <2>2
<1>9. CASE load.kind # "layerwise"
  <2>1. LoadComputeSave(r, d, held, from, n)
    BY <1>2, <1>9
  <2>2. \E ok \in BOOLEAN : /\ \E m : wait_for_save(d.dump, m)
                            /\ Update(r, from + n, held, IF ok THEN {} ELSE ToSet(d.load.blocks))
                            /\ UNCHANGED <<step, loading, dumping>>
    <3>1. Fits(d.load) \in BOOLEAN
      BY DEF Fits
    <3>2. ({Fits(d.load)} \cup (IF "load" \in load.faults /\ d.load.ids # <<>> THEN {FALSE} ELSE {})) \subseteq BOOLEAN
      BY <3>1
    <3> QED
      BY <2>1, <3>2, Zenon DEF LoadComputeSave
  <2>3. PICK ok \in BOOLEAN : /\ \E m : wait_for_save(d.dump, m)
                              /\ Update(r, from + n, held, IF ok THEN {} ELSE ToSet(d.load.blocks))
                              /\ UNCHANGED <<step, loading, dumping>>
    BY <2>2
  <2>4. engine' \in {"up", "down"}
    BY <1>5, <2>3 DEF wait_for_save
  <2>5. PICK invalid : invalid = IF ok THEN {} ELSE ToSet(d.load.blocks)
    OBVIOUS
  <2>6. invalid \subseteq ToSet(held) /\ (invalid # {} => Len(held) * BlockSize <= Len(tokens[r]) + BlockSize)
    BY <1>6, <1>7, <2>5, EmptyTask
  <2>7. Update(r, from + n, held, invalid)
    BY <2>3, <2>5
  <2>8. from + n \in Nat
    OBVIOUS
  <2>9. Counted'
    BY <2>6, <2>7, <2>8, Updated DEF Counted
  <2>10. Between'
    BY <2>3 DEF Between
  <2> QED
    BY <1>2, <1>4, <2>4, <2>9, <2>10
<1> QED
  BY <1>8, <1>9

----------------------------------------------------------------------------
(* Every step keeps the invariant.                                         *)

\* Between steps there is no step that goes on.
LEMMA IsBetween == ASSUME Inv, step = NoStep PROVE Between
BY WithinIsStep DEF Inv

\* A step that is not touched goes on, while loads end.
LEMMA StepStays ==
    ASSUME Between \/ Within, load' = load, step' = step, loading' \subseteq loading, tokens' = tokens
    PROVE  (Between \/ Within)'
<1>1. CASE Between
  BY <1>1 DEF Between
<1>2. CASE Within
  <2>1. \A l : AreasOf(l)' = AreasOf(l)
    BY DEF AreasOf, Areas
  <2> QED
    BY <1>2, <2>1 DEF Within
<1> QED
  BY <1>1, <1>2

\* A request reaches the engine.
LEMMA ArriveStep == ASSUME Inv, NEW r \in Requests, Arrive(r) PROVE Inv'
<1> USE DEF Arrive, workerVars
<1>1. Shapes'
  <2>1. waiting' \in Seq(Requests)
    BY DEF Inv, Shapes
  <2>2. status' \in [Requests -> {"new", "waiting", "running", "finished"}]
        /\ \A q \in Requests : status'[q] = "running" => status[q] = "running"
    BY DEF Inv, Shapes
  <2> QED
    BY <2>1, <2>2 DEF Inv, Shapes, Notes
<1>2. Counted'
  BY DEF Inv, Counted
<1>3. Pool'
  BY DEF Inv, Pool
<1>4. (Between \/ Within)'
  BY StepStays DEF Inv
<1> QED
  BY <1>1, <1>2, <1>3, <1>4 DEF Inv

\* The blocks of an admitted request are just enough for the tokens of its first step.
LEMMA JustEnough ==
    ASSUME NEW h \in Nat, NEW from \in Nat, h * BlockSize <= from, NEW n \in Nat \ {0}, NEW L \in Nat, from + n <= L,
           NEW need, need = (from + n + BlockSize - 1) \div BlockSize - h
    PROVE  need \in Nat /\ (h + need) * BlockSize <= L + BlockSize
<1>1. PICK a \in Nat \ {0} : a = from + n
  OBVIOUS
<1>2. PICK c \in Nat \ {0} : c = (a + BlockSize - 1) \div BlockSize /\ (c - 1) * BlockSize < a
                             /\ \A k \in Nat : k * BlockSize < a => k < c
  BY Ceil, Sizes
<1>3. h * BlockSize < a
  <2>1. h * BlockSize \in Nat
    BY Times, Sizes
  <2> QED
    BY <1>1, <2>1
<1>4. h < c
  BY <1>2, <1>3
<1>5. need = c - h
  BY <1>1, <1>2
<1>6. c * BlockSize <= L + BlockSize
  <2>1. PICK b \in Nat : c = b + 1
    <3>1. c - 1 \in Nat /\ c = (c - 1) + 1
      OBVIOUS
    <3> QED
      BY <3>1
  <2>2. (c - 1) * BlockSize = b * BlockSize
    BY <2>1
  <2>3. (b + 1) * BlockSize = b * BlockSize + BlockSize /\ b * BlockSize \in Nat
    BY Sizes
  <2> QED
    BY <1>1, <1>2, <2>1, <2>2, <2>3, Sizes
<1>7. h + need = c /\ need \in Nat
  BY <1>4, <1>5
<1> QED
  BY <1>6, <1>7

\* The first waiting request starts, with its hits and free blocks, or stays where it is.
LEMMA AdmitStep == ASSUME Inv, NEW r \in Requests, NEW n \in 1..Budget, Admit(r, n) PROVE Inv'
<1>1. Shapes /\ Counted /\ Pool /\ Between
  BY IsBetween DEF Admit, Ready, Inv
<1>2. PICK hits : hits = HbmHits(r) /\ hits \in Seq(DeviceBlocks) /\ IsInjective(hits)
  BY <1>1, HbmHitsOf DEF Counted
<1>3. PICK ok \in BOOLEAN :
       LET match == Match(r, Len(hits), ok)
           from  == Len(hits) * BlockSize + match.tokens
           need  == Missing(hits, from, n)
           spare == Without(free, ToSet(hits))
           fresh == SubSeq(spare, 1, need)
           held  == hits \o fresh
       IN /\ from + n <= Len(tokens[r])
          /\ \/ /\ need <= Len(spare)
                /\ status' = [status EXCEPT ![r] = "running"]
                /\ waiting' = Tail(waiting)
                /\ running' = Append(running, r)
                /\ free' = SubSeq(spare, need + 1, Len(spare))
                /\ Execute(r, match.metas, held, held, from, n, TRUE)
                /\ UNCHANGED load
             \/ /\ need > Len(spare)
                /\ meta' = match.metas
                /\ UNCHANGED <<load, workerVars, engineVars>>
  <2>1. ({TRUE} \cup (IF "lookup" \in load.faults THEN {FALSE} ELSE {})) \subseteq BOOLEAN
    OBVIOUS
  <2> QED
    BY <1>2, <2>1 DEF Admit
<1>4. waiting # <<>>
  BY DEF Admit
<1>5. PICK match : match = Match(r, Len(hits), ok) /\ match.tokens \in Nat /\ Notes(match.metas)
  <2>1. Len(hits) \in Nat
    BY <1>2
  <2> QED
    BY <1>1, <2>1, MatchOf DEF Shapes, Counted
<1>6. PICK from \in Nat : from = Len(hits) * BlockSize + match.tokens /\ Len(hits) * BlockSize <= from
  <2>1. Len(hits) \in Nat
    BY <1>2
  <2>2. Len(hits) * BlockSize \in Nat
    BY <2>1, Times, Sizes
  <2>3. Len(hits) * BlockSize + match.tokens \in Nat /\ Len(hits) * BlockSize <= Len(hits) * BlockSize + match.tokens
    BY <1>5, <2>2
  <2> QED
    BY <2>3
<1>7. PICK need : need = Missing(hits, from, n)
  OBVIOUS
<1>8. PICK spare : spare = Without(free, ToSet(hits))
  OBVIOUS
<1>9. /\ from + n <= Len(tokens[r])
      /\ \/ /\ need <= Len(spare)
            /\ status' = [status EXCEPT ![r] = "running"]
            /\ waiting' = Tail(waiting)
            /\ running' = Append(running, r)
            /\ free' = SubSeq(spare, need + 1, Len(spare))
            /\ Execute(r, match.metas, hits \o SubSeq(spare, 1, need), hits \o SubSeq(spare, 1, need), from, n, TRUE)
            /\ UNCHANGED load
         \/ /\ meta' = match.metas
            /\ UNCHANGED <<load, workerVars, engineVars>>
  BY <1>3, <1>5, <1>6, <1>7, <1>8, Zenon
<1>10. CASE meta' = match.metas /\ UNCHANGED <<load, workerVars, engineVars>>
  <2> USE DEF workerVars, engineVars
  <2>1. Shapes'
    BY <1>1, <1>5, <1>10 DEF Shapes, Notes
  <2>2. Counted' /\ Pool'
    BY <1>1, <1>10 DEF Counted, Pool
  <2>3. Between'
    BY <1>1, <1>10 DEF Between
  <2> QED
    BY <2>1, <2>2, <2>3 DEF Inv
<1>11. CASE /\ need <= Len(spare)
            /\ status' = [status EXCEPT ![r] = "running"]
            /\ waiting' = Tail(waiting)
            /\ running' = Append(running, r)
            /\ free' = SubSeq(spare, need + 1, Len(spare))
            /\ Execute(r, match.metas, hits \o SubSeq(spare, 1, need), hits \o SubSeq(spare, 1, need), from, n, TRUE)
            /\ UNCHANGED load
  <2>1. free \in Seq(DeviceBlocks) /\ IsInjective(free)
    BY <1>1 DEF Pool
  <2>2. spare \in Seq(DeviceBlocks) /\ ToSet(spare) = ToSet(free) \ ToSet(hits) /\ IsInjective(spare)
    BY <1>8, <2>1, Filtered
  <2>3. tokens[r] \in Seq(Nat)
    BY <1>1 DEF Counted
  <2>4. need \in Nat /\ (Len(hits) + need) * BlockSize <= Len(tokens[r]) + BlockSize
    <3>1. Len(hits) \in Nat /\ Len(tokens[r]) \in Nat /\ n \in Nat \ {0}
      BY <1>2, <2>3, Sizes
    <3>2. need = (from + n + BlockSize - 1) \div BlockSize - Len(hits)
      BY <1>7 DEF Missing
    <3> QED
      BY <1>6, <1>9, <3>1, <3>2, JustEnough
  <2>5. PICK fresh : fresh = SubSeq(spare, 1, need)
    OBVIOUS
  <2>6. /\ fresh \in Seq(DeviceBlocks) /\ Len(fresh) = need /\ IsInjective(fresh)
        /\ free' \in Seq(DeviceBlocks) /\ IsInjective(free')
        /\ ToSet(fresh) \subseteq ToSet(spare) /\ ToSet(free') \subseteq ToSet(spare)
        /\ ToSet(fresh) \cap ToSet(free') = {}
    BY <1>11, <2>2, <2>4, <2>5, Parts
  <2>7. PICK held : held = hits \o fresh
    OBVIOUS
  <2>8. held \in Seq(DeviceBlocks) /\ Len(held) = Len(hits) + need /\ ToSet(held) = ToSet(hits) \cup ToSet(fresh)
    <3>1. hits \in Seq(DeviceBlocks) /\ fresh \in Seq(DeviceBlocks) /\ Len(fresh) = need
      BY <1>2, <2>6
    <3> QED
      BY <2>7, <3>1, Joined
  <2>9. IsInjective(held)
    <3>1. ToSet(hits) \cap ToSet(fresh) = {}
      BY <2>2, <2>6
    <3> QED
      BY <1>2, <2>6, <2>7, <3>1, JoinedApart
  <2>10. /\ engine' \in {"up", "down"} /\ Notes(meta)' /\ blocks' = [blocks EXCEPT ![r] = held]
         /\ Counted' /\ (Between \/ Within)'
    <3>1. Execute(r, match.metas, held, held, from, n, TRUE)
      BY <1>11, <2>5, <2>7, Zenon
    <3>4. load' = load /\ n \in Nat
      BY <1>11, Sizes
    <3>2. Len(held) * BlockSize <= Len(tokens[r]) + BlockSize
      BY <2>4, <2>8
    <3>3. ToSet(held) \subseteq ToSet(held) /\ TRUE \in BOOLEAN
      OBVIOUS
    <3> QED
      BY <1>1, <1>5, <1>6, <1>9, <2>8, <3>1, <3>2, <3>3, <3>4, Executed
  <2>11. Pool'
    <3>1. ToSet(free') \subseteq ToSet(free) /\ ToSet(held) \cap ToSet(free') = {}
      BY <2>2, <2>6, <2>8
    <3> QED
      BY <1>1, <2>6, <2>8, <2>9, <2>10, <3>1, PoolGiven
  <2>12. Shapes'
    <3>1. waiting' \in Seq(Requests)
      BY <1>1, <1>4, <1>11 DEF Shapes
    <3>2. running' \in Seq(Requests) /\ ToSet(running') = ToSet(running) \cup {r}
      <4>1. PICK one \in Seq(Requests) : one = <<r>> /\ ToSet(one) = {r}
        <5>1. <<r>> \in Seq(Requests) /\ DOMAIN <<r>> = {1} /\ <<r>>[1] = r
          OBVIOUS
        <5>2. ToSet(<<r>>) = {r}
          BY <5>1 DEF ToSet
        <5> QED
          BY <5>1, <5>2
      <4>2. running \in Seq(Requests) /\ running' = running \o one
        BY <1>1, <1>11, <4>1 DEF Shapes
      <4>3. running \o one \in Seq(Requests) /\ ToSet(running \o one) = ToSet(running) \cup ToSet(one)
        BY <4>1, <4>2, Joined
      <4> QED
        BY <4>1, <4>2, <4>3
    <3>3. status' \in [Requests -> {"new", "waiting", "running", "finished"}]
          /\ \A q \in Requests : status'[q] = "running" => q = r \/ status[q] = "running"
      BY <1>1, <1>11 DEF Shapes
    <3>4. \A q \in Requests : status'[q] = "running" => q \in ToSet(running')
      BY <1>1, <3>2, <3>3 DEF Shapes
    <3>5. load' \in Loads
      BY <1>1, <1>11 DEF Shapes
    <3> QED
      BY <2>10, <3>1, <3>2, <3>3, <3>4, <3>5 DEF Shapes
  <2> QED
    BY <2>10, <2>11, <2>12 DEF Inv
<1> QED
  BY <1>9, <1>10, <1>11

\* A running request goes on, with free blocks when it needs some.
LEMMA ContinueStep == ASSUME Inv, NEW r \in Requests, NEW n \in 1..Budget, Continue(r, n) PROVE Inv'
<1>1. Shapes /\ Counted /\ Pool /\ Between
  BY IsBetween DEF Continue, Ready, Inv
<1>2. PICK need : need = Missing(blocks[r], computed[r], n)
  OBVIOUS
<1>3. PICK fresh : fresh = IF need > 0 THEN SubSeq(free, 1, need) ELSE <<>>
  OBVIOUS
<1>4. PICK held : held = blocks[r] \o fresh
  OBVIOUS
<1>5. /\ computed[r] + n <= Len(tokens[r]) /\ need <= Len(free)
      /\ free' = SubSeq(free, Len(fresh) + 1, Len(free))
      /\ Execute(r, meta, held, fresh, computed[r], n, FALSE)
      /\ UNCHANGED <<load, status, waiting, running>>
  BY <1>2, <1>3, <1>4 DEF Continue
<1>6. free \in Seq(DeviceBlocks) /\ IsInjective(free) /\ Len(free) \in Nat
      /\ blocks[r] \in Seq(DeviceBlocks) /\ IsInjective(blocks[r]) /\ ToSet(blocks[r]) \cap ToSet(free) = {}
  BY <1>1 DEF Pool
<1>7. PICK k \in Nat : k <= Len(free) /\ fresh = SubSeq(free, 1, k)
  <2>1. need \in Int
    <3>1. computed[r] \in Nat /\ Len(blocks[r]) \in Nat /\ n \in Nat \ {0}
      BY <1>1, <1>6, Sizes DEF Counted
    <3>2. computed[r] + n + BlockSize - 1 \in Nat
      BY <3>1, Sizes
    <3>3. (computed[r] + n + BlockSize - 1) \div BlockSize \in Nat
      BY <3>2, Divided, Sizes
    <3> QED
      BY <1>2, <3>1, <3>3 DEF Missing
  <2>2. CASE need > 0
    BY <1>3, <1>5, <2>1, <2>2
  <2>3. CASE ~ (need > 0)
    <3>1. fresh = SubSeq(free, 1, 0) /\ 0 \in Nat /\ 0 <= Len(free)
      BY <1>3, <1>6, <2>3
    <3> QED
      BY <3>1
  <2> QED
    BY <2>2, <2>3
<1>8. /\ fresh \in Seq(DeviceBlocks) /\ Len(fresh) = k /\ IsInjective(fresh)
      /\ free' \in Seq(DeviceBlocks) /\ IsInjective(free')
      /\ ToSet(fresh) \subseteq ToSet(free) /\ ToSet(free') \subseteq ToSet(free)
      /\ ToSet(fresh) \cap ToSet(free') = {}
  <2>1. Len(fresh) = k
    BY <1>6, <1>7, Parts
  <2>2. free' = SubSeq(free, k + 1, Len(free))
    BY <1>5, <2>1
  <2> QED
    BY <1>6, <1>7, <2>1, <2>2, Parts
<1>9. held \in Seq(DeviceBlocks) /\ ToSet(held) = ToSet(blocks[r]) \cup ToSet(fresh)
  <2>1. blocks[r] \in Seq(DeviceBlocks) /\ fresh \in Seq(DeviceBlocks)
    BY <1>6, <1>8
  <2> QED
    BY <1>4, <2>1, Joined
<1>10. IsInjective(held)
  <2>1. ToSet(blocks[r]) \cap ToSet(fresh) = {}
    BY <1>6, <1>8
  <2> QED
    BY <1>4, <1>6, <1>8, <2>1, JoinedApart
<1>11. /\ engine' \in {"up", "down"} /\ Notes(meta)' /\ blocks' = [blocks EXCEPT ![r] = held]
       /\ Counted' /\ (Between \/ Within)'
  <2>1. n \in Nat /\ load' = load /\ ToSet(fresh) \subseteq ToSet(held) /\ FALSE \in BOOLEAN
    BY <1>5, <1>9, Sizes
  <2>2. computed[r] \in Nat /\ Notes(meta)
    BY <1>1 DEF Shapes, Counted
  <2>3. Execute(r, meta, held, fresh, computed[r], n, FALSE)
    BY <1>5
  <2> QED
    BY <1>1, <1>5, <1>8, <1>9, <2>1, <2>2, <2>3, Executed
<1>12. Pool'
  <2>1. ToSet(held) \cap ToSet(free') = {}
    BY <1>6, <1>8, <1>9
  <2> QED
    BY <1>1, <1>8, <1>9, <1>10, <1>11, <2>1, PoolGiven
<1>13. Shapes'
  BY <1>1, <1>5, <1>11 DEF Shapes
<1> QED
  BY <1>11, <1>12, <1>13 DEF Inv

\* The request that started last waits again and its blocks are free.
LEMMA PreemptStep == ASSUME Inv, NEW r \in Requests, NEW n \in 1..Budget, Preempt(r, n) PROVE Inv'
<1>1. Shapes /\ Counted /\ Pool /\ Between
  BY IsBetween DEF Preempt, Ready, Inv
<1>2. PICK m \in Nat : m = Len(running)
  BY <1>1 DEF Shapes
<1>3. PICK victim : victim = running[m]
  OBVIOUS
<1>4. /\ status[r] = "running" /\ status' = [status EXCEPT ![victim] = "waiting"]
      /\ waiting' = <<victim>> \o waiting
      /\ running' = SubSeq(running, 1, m - 1)
      /\ computed' = [computed EXCEPT ![victim] = 0]
      /\ free' = Released(victim)
      /\ blocks' = [blocks EXCEPT ![victim] = <<>>]
      /\ UNCHANGED <<load, meta, workerVars, tokens>>
  BY <1>2, <1>3 DEF Preempt, Last, Front
<1>5. running \in Seq(Requests) /\ waiting \in Seq(Requests) /\ r \in ToSet(running)
  BY <1>1, <1>4 DEF Shapes
<1>6. ToSet(running) = {running[i] : i \in 1..m}
  BY <1>2, <1>5, SetOf
<1>7. m # 0
  BY <1>5, <1>6
<1>8. victim \in Requests
  BY <1>2, <1>3, <1>5, <1>7
<1>9. running' \in Seq(Requests) /\ ToSet(running') = {running[i] : i \in 1..(m - 1)}
  <2>1. PICK a \in Nat, b \in Nat : a = 0 /\ b = m - 1 /\ a <= b /\ b <= Len(running)
    <3>1. 0 \in Nat /\ m - 1 \in Nat /\ 0 <= m - 1 /\ m - 1 <= Len(running)
      BY <1>2, <1>7
    <3> QED
      BY <3>1
  <2>2. running' = SubSeq(running, a + 1, b) /\ (a + 1)..b = 1..(m - 1)
    BY <1>4, <2>1
  <2>3. SubSeq(running, a + 1, b) \in Seq(Requests)
    BY <1>5, <2>1, Cut
  <2>4. ToSet(SubSeq(running, a + 1, b)) = {running[i] : i \in (a + 1)..b}
    <3>1. PICK s : s = running
      OBVIOUS
    <3>2. s \in Seq(Requests) /\ a <= b /\ b <= Len(s)
      BY <1>5, <2>1, <3>1
    <3>3. ToSet(SubSeq(s, a + 1, b)) = {s[i] : i \in (a + 1)..b}
      BY <3>2, Cut
    <3> QED
      BY <3>1, <3>3, Zenon
  <2> QED
    BY <2>2, <2>3, <2>4
<1>10. ToSet(running) = ToSet(running') \cup {victim}
  <2>1. 1..m = (1..(m - 1)) \cup {m}
    BY <1>7
  <2> QED
    BY <1>3, <1>6, <1>9, <2>1
<1>11. Shapes'
  <2>1. waiting' \in Seq(Requests)
    BY <1>4, <1>5, <1>8
  <2>2. status' \in [Requests -> {"new", "waiting", "running", "finished"}]
        /\ \A q \in Requests : status'[q] = "running" => status[q] = "running" /\ q # victim
    BY <1>1, <1>4, <1>8 DEF Shapes
  <2>3. \A q \in Requests : status'[q] = "running" => q \in ToSet(running')
    BY <1>1, <1>10, <2>2 DEF Shapes
  <2> QED
    BY <1>1, <1>4, <1>9, <2>1, <2>2, <2>3 DEF Shapes, Notes, workerVars
<1>12. Counted'
  BY <1>1, <1>4, <1>8 DEF Counted
<1>13. Pool'
  BY <1>1, <1>4, <1>8, ReleasedApart
<1>14. Between'
  BY <1>1, <1>4 DEF Between, workerVars
<1> QED
  BY <1>11, <1>12, <1>13, <1>14 DEF Inv

\* A request leaves the engine with its blocks.
LEMMA FinishStep == ASSUME Inv, NEW r \in Requests, Finish(r) PROVE Inv'
<1>1. Shapes /\ Counted /\ Pool /\ Between
  BY IsBetween DEF Finish, Inv
<1>2. /\ status' = [status EXCEPT ![r] = "finished"]
      /\ running' = Without(running, {r})
      /\ free' = Released(r)
      /\ blocks' = [blocks EXCEPT ![r] = <<>>]
      /\ UNCHANGED <<load, meta, workerVars, waiting, tokens, computed>>
  BY DEF Finish
<1>3. running' \in Seq(Requests) /\ ToSet(running') = ToSet(running) \ {r}
  <2>1. running \in Seq(Requests)
    BY <1>1 DEF Shapes
  <2>2. Without(running, {r}) \in Seq(Requests) /\ ToSet(Without(running, {r})) = ToSet(running) \ {r}
    BY <2>1, Filtered
  <2> QED
    BY <1>2, <2>2
<1>4. Shapes'
  <2>1. status' \in [Requests -> {"new", "waiting", "running", "finished"}]
        /\ \A q \in Requests : status'[q] = "running" => status[q] = "running" /\ q # r
    BY <1>1, <1>2 DEF Shapes
  <2>2. \A q \in Requests : status'[q] = "running" => q \in ToSet(running')
    BY <1>1, <1>3, <2>1 DEF Shapes
  <2> QED
    BY <1>1, <1>2, <1>3, <2>1, <2>2 DEF Shapes, Notes, workerVars
<1>5. Counted'
  BY <1>1, <1>2 DEF Counted
<1>6. Pool'
  BY <1>1, <1>2, ReleasedApart
<1>7. Between'
  BY <1>1, <1>2 DEF Between, workerVars
<1> QED
  BY <1>4, <1>5, <1>6, <1>7 DEF Inv

\* A transfer of the store ends.
LEMMA LandsStep == ASSUME Inv, NEW t, LoadLands(t) \/ DumpLands(t) PROVE Inv'
<1>1. /\ UNCHANGED <<load, meta, engine, step, engineVars>>
      /\ loading' \subseteq loading
  BY DEF LoadLands, DumpLands
<1> USE DEF engineVars
<1>2. Shapes' /\ Counted' /\ Pool'
  BY <1>1 DEF Inv, Shapes, Notes, Counted, Pool
<1>3. (Between \/ Within)'
  BY <1>1, StepStays DEF Inv
<1> QED
  BY <1>2, <1>3 DEF Inv

\* The loads of the layer are awaited or failed, and those that stay are for the layers after it.
LEMMA ComputeLayerStep == ASSUME Inv, ComputeLayer PROVE Inv'
<1>1. Shapes /\ Counted /\ Pool /\ Within
  BY DEF ComputeLayer, Between, Inv
<1>2. PICK l : l = step.layer
  OBVIOUS
<1>3. PICK mine : mine = Awaited(l)
  OBVIOUS
<1>4. PICK right \in BOOLEAN :
        step' = [step EXCEPT !.layer = l + 1, !.right = right,
                             !.invalid = @ \cup UNION {ToSet(t.blocks) : t \in mine}]
  <2>1. \E C \in BOOLEAN : step' = [step EXCEPT !.layer = l + 1, !.right = step.right /\ C,
                                                !.invalid = @ \cup UNION {ToSet(t.blocks) : t \in mine}]
    BY <1>2, <1>3, Zenon DEF ComputeLayer
  <2>2. PICK C \in BOOLEAN : step' = [step EXCEPT !.layer = l + 1, !.right = step.right /\ C,
                                                  !.invalid = @ \cup UNION {ToSet(t.blocks) : t \in mine}]
    BY <2>1
  <2>3. (step.right /\ C) \in BOOLEAN
    OBVIOUS
  <2> QED
    BY <2>2, <2>3
<1>5. loading' = loading \ mine
  BY <1>2, <1>3 DEF ComputeLayer
<1>6. UNCHANGED <<load, meta, store, engine, engineVars>>
  BY DEF ComputeLayer
<1>7. /\ step \in StepType /\ l \in Nat /\ step.from + step.n <= Len(tokens[step.r])
      /\ step.held \in Seq(DeviceBlocks) /\ step.invalid \subseteq ToSet(step.held)
      /\ (step.invalid # {} \/ \E t \in loading : t.kept) =>
           Len(step.held) * BlockSize <= Len(tokens[step.r]) + BlockSize
      /\ \A t \in loading : t.kept =>
           ToSet(t.blocks) \subseteq ToSet(step.held) /\ \E k \in l..load.layers : t.area \in AreasOf(k)
  BY <1>1, <1>2 DEF Within, StepType
<1>8. PICK more : more = UNION {ToSet(t.blocks) : t \in mine}
  OBVIOUS
<1>9. more \subseteq ToSet(step.held) /\ (more # {} => \E t \in loading : t.kept)
  BY <1>3, <1>7, <1>8 DEF Awaited
<1>10. ToSet(step.held) \subseteq DeviceBlocks
  BY <1>7, SetOf
<1>11. step' = [step EXCEPT !.layer = l + 1, !.right = right, !.invalid = @ \cup more]
  BY <1>4, <1>8
<1>12. /\ step' \in StepType /\ step'.r = step.r /\ step'.held = step.held /\ step'.from = step.from /\ step'.n = step.n
       /\ step'.layer = l + 1 /\ step'.invalid = step.invalid \cup more
  <2>1. step.invalid \cup more \in SUBSET DeviceBlocks /\ l + 1 \in Nat
    BY <1>7, <1>9, <1>10
  <2> QED
    BY <1>7, <1>11, <2>1 DEF StepType
<1>13. tokens' = tokens
  BY <1>6 DEF engineVars
<1>14. ASSUME NEW t \in loading', t.kept
       PROVE ToSet(t.blocks) \subseteq ToSet(step'.held) /\ \E k \in step'.layer..load'.layers : t.area \in AreasOf(k)'
  <2>1. t \in loading /\ t \notin mine
    BY <1>5
  <2>2. PICK k \in l..load.layers : t.area \in AreasOf(k)
    BY <1>7, <1>14, <2>1
  <2>3. k # l
    BY <1>3, <1>14, <2>1, <2>2 DEF Awaited
  <2>4. load' = load /\ t.area \in AreasOf(k)'
    BY <1>6, <2>2 DEF AreasOf, Areas
  <2>5. load.layers \in Nat
    BY <1>1, ConnectorAssumption DEF Shapes
  <2>6. k \in step'.layer..load'.layers
    BY <1>7, <1>12, <2>2, <2>3, <2>4, <2>5
  <2>7. ToSet(t.blocks) \subseteq ToSet(step.held)
    BY <1>7, <1>14, <2>1
  <2> QED
    BY <1>12, <2>4, <2>6, <2>7
<1>15. (step'.invalid # {} \/ \E t \in loading' : t.kept) =>
          Len(step'.held) * BlockSize <= Len(tokens'[step'.r]) + BlockSize
  BY <1>5, <1>7, <1>9, <1>12, <1>13
<1>16. Within'
  BY <1>7, <1>9, <1>12, <1>13, <1>14, <1>15 DEF Within
<1>17. Shapes' /\ Counted' /\ Pool'
  BY <1>1, <1>6 DEF Shapes, Notes, Counted, Pool, engineVars
<1> QED
  BY <1>16, <1>17 DEF Inv

\* After the last layer no load is kept, and the step's tokens are counted.
LEMMA EndStepStep == ASSUME Inv, EndStep PROVE Inv'
<1>1. Shapes /\ Counted /\ Pool /\ Within
  BY DEF EndStep, Between, Inv
<1>2. /\ step.layer > load.layers /\ step' = NoStep
      /\ Update(step.r, step.from + step.n, step.held, step.invalid)
      /\ UNCHANGED <<load, meta, store, hbm, engine, loading, status, waiting, running, blocks, free, cached, finished>>
  BY DEF EndStep
<1>3. /\ step.r \in Requests /\ step.from + step.n \in Nat /\ step.held \in Seq(DeviceBlocks) /\ step.layer \in Nat
      /\ step.from + step.n <= Len(tokens[step.r]) /\ step.invalid \subseteq ToSet(step.held)
      /\ step.invalid # {} => Len(step.held) * BlockSize <= Len(tokens[step.r]) + BlockSize
  BY <1>1 DEF Within, StepType
<1>4. PICK r \in Requests, done \in Nat, held \in Seq(DeviceBlocks), invalid \in SUBSET ToSet(step.held) :
        r = step.r /\ done = step.from + step.n /\ held = step.held /\ invalid = step.invalid
  BY <1>3
<1>5. done <= Len(tokens[r]) /\ invalid \subseteq ToSet(held) /\ Update(r, done, held, invalid)
      /\ (invalid # {} => Len(held) * BlockSize <= Len(tokens[r]) + BlockSize)
  BY <1>2, <1>3, <1>4
<1>6. Counted'
  BY <1>1, <1>5, Updated DEF Counted
<1>7. Shapes' /\ Pool'
  BY <1>1, <1>2 DEF Shapes, Notes, Pool
<1>8. Between'
  <2>1. load.layers \in Nat
    BY <1>1, ConnectorAssumption DEF Shapes
  <2>2. step.layer..load.layers = {}
    BY <1>2, <1>3, <2>1
  <2>3. \A t \in loading : ~t.kept
    BY <1>1, <2>2 DEF Within
  <2> QED
    BY <1>2, <2>3 DEF Between
<1> QED
  BY <1>6, <1>7, <1>8 DEF Inv

\* The engine starts with its blocks free and no request.
LEMMA InitInv == Init => Inv
<1> SUFFICES ASSUME Init PROVE Inv
  OBVIOUS
<1> USE DEF Init
<1>1. load \in Loads /\ load.hbm \in 1..HbmBlocks /\ load.prompt \in [Requests -> Seq(Nat)]
  BY ConnectorAssumption
<1>2. <<>> \in Seq(Requests) /\ <<>> \in Seq(DeviceBlocks) /\ ToSet(<<>>) = {} /\ IsInjective(<<>>)
  <2>1. DOMAIN <<>> = {}
    OBVIOUS
  <2> QED
    BY <2>1 DEF IsInjective, ToSet
<1>3. Notes(meta)
  <2>1. DOMAIN meta = {}
    OBVIOUS
  <2> QED
    BY <2>1 DEF Notes
<1>4. Shapes
  BY <1>1, <1>2, <1>3 DEF Shapes
<1>5. tokens \in [Requests -> Seq(Nat)] /\ computed = [q \in Requests |-> 0]
  BY <1>1 DEF prompt
<1>6. Counted
  <2>1. \A q \in Requests : tokens[q] \in Seq(Nat) /\ computed[q] = 0
    BY <1>5
  <2>2. \A q \in Requests : Len(tokens[q]) \in Nat
    BY <2>1
  <2> QED
    BY <1>5, <2>1, <2>2 DEF Counted
<1>7. Pool
  <2>1. PICK h \in 1..HbmBlocks : h = load.hbm
    BY <1>1
  <2>2. free = [v \in 1..h |-> v]
    BY <2>1
  <2>3. h \in Nat /\ \A v \in 1..h : v \in DeviceBlocks
    BY Sizes DEF DeviceBlocks
  <2>4. free \in Seq(DeviceBlocks) /\ DOMAIN free = 1..h
    <3>1. PICK D : D = DeviceBlocks
      OBVIOUS
    <3>2. h \in Nat /\ \A v \in 1..h : v \in D
      BY <2>3, <3>1
    <3>3. [v \in 1..h |-> v] \in [1..h -> D]
      BY <3>2
    <3>4. [v \in 1..h |-> v] \in Seq(D)
      BY <3>2, <3>3
    <3> QED
      BY <2>2, <3>1, <3>4
  <2>5. IsInjective(free)
    BY <2>2, <2>4 DEF IsInjective
  <2>6. blocks \in [Requests -> Seq(DeviceBlocks)] /\ \A r \in Requests : blocks[r] = <<>>
    BY <1>2
  <2> QED
    BY <1>2, <2>4, <2>5, <2>6 DEF Pool
<1>8. Between
  BY DEF Between
<1> QED
  BY <1>4, <1>6, <1>7, <1>8 DEF Inv

\* The invariant is inductive.
LEMMA NextInv == Inv /\ [Next]_vars => Inv'
<1> SUFFICES ASSUME Inv, [Next]_vars PROVE Inv'
  OBVIOUS
<1>1. CASE UNCHANGED vars
  BY <1>1 DEF Inv, Shapes, Notes, Counted, Pool, Between, Within, AreasOf, Areas, vars, workerVars, engineVars
<1>2. ASSUME NEW r \in Requests, NEW n \in 1..Budget, Admit(r, n) \/ Continue(r, n) \/ Preempt(r, n) PROVE Inv'
  BY <1>2, AdmitStep, ContinueStep, PreemptStep
<1>3. ASSUME NEW r \in Requests, Arrive(r) \/ Finish(r) PROVE Inv'
  BY <1>3, ArriveStep, FinishStep
<1>4. CASE ComputeLayer \/ EndStep
  BY <1>4, ComputeLayerStep, EndStepStep
<1>5. ASSUME NEW t, LoadLands(t) \/ DumpLands(t) PROVE Inv'
  BY <1>5, LandsStep
<1> QED
  BY <1>1, <1>2, <1>3, <1>4, <1>5 DEF Next

\* The counters of a note agree with one another, a request has no more tokens computed than
\* tokens, and a block of device memory is free or held, never both and never twice, whatever
\* fails, is preempted or goes back to a block that failed to load: ucm_connector.py and the
\* scheduler's free list.
THEOREM TypeCorrect == Spec => []TypeOK
<1>1. Inv => TypeOK
  <2> SUFFICES ASSUME Inv PROVE TypeOK
    OBVIOUS
  <2>1. \A r \in Requests : computed[r] \in 0..Len(tokens[r])
    <3>1. \A r \in Requests : computed[r] \in Nat /\ computed[r] <= Len(tokens[r]) /\ tokens[r] \in Seq(Nat)
      BY DEF Inv, Counted
    <3>2. \A r \in Requests : Len(tokens[r]) \in Nat
      BY <3>1
    <3> QED
      BY <3>1, <3>2
  <2> QED
    BY <2>1 DEF Inv, Shapes, Pool, Notes, TypeOK
<1>2. Init => Inv
  BY InitInv
<1>3. Inv /\ [Next]_vars => Inv'
  BY NextInv
<1> QED
  BY <1>1, <1>2, <1>3, PTL DEF Spec

----------------------------------------------------------------------------
(* The KV that the direct connector loads and saves.                       *)

\* The note of a running request lists the blocks the request holds (_generate_dispatch_meta).
NotesAgree == \A r \in DOMAIN meta : status[r] = "running" => meta[r].vllm_block_ids = blocks[r]

\* The direct connector, between two steps.
Direct ==
    /\ load.kind = "direct" /\ "load" \notin load.faults
    /\ step = NoStep /\ loading = {} /\ dumping = {}

Of(id) == BlockKV(id, Len(id) \div BlockSize)
Prefix(r, i) == SubSeq(tokens[r], 1, i * BlockSize)
Full(r, i) == i * BlockSize <= computed[r]

\* An area holds a list of KV per block; what is cached under an id is the KV of that id.
Memory(m) == DOMAIN m = DeviceBlocks /\ \A v \in DeviceBlocks : m[v] = [j \in 1..BlockSize |-> m[v][j]]
DeviceIsRight ==
    /\ DOMAIN cached = DeviceBlocks
    /\ \A a \in Areas : Memory(hbm[a]) /\ \A v \in DeviceBlocks : cached[v] # Junk => hbm[a][v] = Of(cached[v])

\* A running request: its full blocks are cached under its ids, the others are its own.
HoldsItsOwn(r) ==
    /\ computed[r] \in 1..(Len(blocks[r]) * BlockSize)
    /\ \A i \in 1..Len(blocks[r]) :
         IF Full(r, i) THEN cached[blocks[r][i]] = Prefix(r, i)
         ELSE cached[blocks[r][i]] = Junk /\ \A q \in Requests \ {r} : blocks[r][i] \notin ToSet(blocks[q])
    /\ \A a \in Areas : Context(r, blocks[r], computed[r], hbm[a])

\* What a note says of the request's tokens, and of the store while it has no blocks.
Noticed(r, m) ==
    /\ Len(m.ucm_block_ids) * BlockSize <= Len(tokens[r])
    /\ \A i \in 1..Len(m.ucm_block_ids) : m.ucm_block_ids[i] = Prefix(r, i)
Expected(m) ==
    /\ m.token_processed = m.total_hit * BlockSize
    /\ \A i \in (m.hbm_hit + 1)..m.total_hit : m.ucm_block_ids[i] \in Stored

NotesAreRight ==
    \A r \in DOMAIN meta :
        /\ status[r] # "new"
        /\ status[r] \in {"waiting", "running"} => Noticed(r, meta[r])
        /\ status[r] = "waiting" /\ meta[r].vllm_block_ids = <<>> => Expected(meta[r])
        /\ status[r] = "running" /\ meta[r].token_processed < meta[r].num_token_ids =>
              meta[r].token_processed <= computed[r]

\* A request waits once, or runs once.
Queues ==
    /\ IsInjective(waiting) /\ \A r \in ToSet(waiting) : status[r] = "waiting"
    /\ IsInjective(running) /\ \A r \in ToSet(running) : status[r] = "running"
    /\ \A r \in finished : status[r] = "finished"

Right ==
    /\ Direct /\ StoredIsRight /\ DeviceIsRight /\ NotesAreRight /\ Queues
    /\ \A r \in Requests : IF status[r] = "running" THEN HoldsItsOwn(r) ELSE blocks[r] = <<>>

\* A position is at one place of one block, and each place of a block is of one position.
LEMMA PlaceOfPosition ==
    ASSUME NEW p \in Nat \ {0}
    PROVE  /\ BlockOf(p) \in Nat \ {0} /\ PlaceOf(p) \in 1..BlockSize
           /\ p = (BlockOf(p) - 1) * BlockSize + PlaceOf(p)
<1>1. PICK a \in Nat : a = p - 1
  OBVIOUS
<1>2. a \div BlockSize \in Nat /\ a % BlockSize \in 0..(BlockSize - 1) /\ a = BlockSize * (a \div BlockSize) + (a % BlockSize)
  BY Sizes
<1>3. PICK q \in Nat, m \in 0..(BlockSize - 1) : q = a \div BlockSize /\ m = a % BlockSize /\ a = BlockSize * q + m
  BY <1>2
<1>4. BlockOf(p) = q + 1 /\ PlaceOf(p) = m + 1
  BY <1>1, <1>3 DEF BlockOf, PlaceOf
<1>5. p = a + 1 /\ BlockSize * q = q * BlockSize /\ (q + 1) - 1 = q /\ q * BlockSize \in Nat
  BY <1>1, Sizes
<1>6. m + 1 \in 1..BlockSize /\ q + 1 \in Nat \ {0}
  BY Sizes
<1>7. p = q * BlockSize + (m + 1)
  BY <1>3, <1>5, Sizes
<1> QED
  BY <1>4, <1>5, <1>6, <1>7

LEMMA PositionOfPlace ==
    ASSUME NEW i \in Nat \ {0}, NEW j \in 1..BlockSize, NEW p, p = (i - 1) * BlockSize + j
    PROVE  /\ p \in Nat \ {0} /\ BlockOf(p) = i /\ PlaceOf(p) = j
           /\ p <= i * BlockSize /\ p > (i - 1) * BlockSize
<1>1. PICK k \in Nat : i = k + 1 /\ i - 1 = k
  <2>1. i - 1 \in Nat /\ i = (i - 1) + 1
    OBVIOUS
  <2> QED
    BY <2>1
<1>2. k * BlockSize \in Nat /\ (k + 1) * BlockSize = k * BlockSize + BlockSize
  BY Sizes
<1>3. PICK x \in Nat : x = k * BlockSize
  BY <1>2
<1>4. p = x + j /\ i * BlockSize = x + BlockSize /\ (i - 1) * BlockSize = x
  BY <1>1, <1>2, <1>3
<1>5. p \in Nat \ {0} /\ p <= i * BlockSize /\ p > (i - 1) * BlockSize
  BY <1>3, <1>4, Sizes
<1>6. BlockOf(p) \in Nat \ {0} /\ PlaceOf(p) \in 1..BlockSize
      /\ p = (BlockOf(p) - 1) * BlockSize + PlaceOf(p)
  BY <1>5, PlaceOfPosition
<1>7. PICK l \in Nat : BlockOf(p) = l + 1 /\ BlockOf(p) - 1 = l
  <2>1. PICK u \in Nat \ {0} : u = BlockOf(p)
    BY <1>6
  <2>2. u - 1 \in Nat /\ u = (u - 1) + 1
    BY <2>1
  <2> QED
    BY <2>1, <2>2
<1>8. p = l * BlockSize + PlaceOf(p) /\ l * BlockSize \in Nat /\ p = k * BlockSize + j
  BY <1>3, <1>4, <1>6, <1>7, Sizes
<1>9. l < k => l * BlockSize + BlockSize <= k * BlockSize
  BY Times, Sizes
<1>10. k < l => k * BlockSize + BlockSize <= l * BlockSize
  BY Times, Sizes
<1>11. PICK y \in Nat, w \in 1..BlockSize : y = l * BlockSize /\ w = PlaceOf(p)
  BY <1>6, <1>8
<1>12. x + j = y + w /\ (l < k => y + BlockSize <= x) /\ (k < l => x + BlockSize <= y)
  BY <1>3, <1>4, <1>8, <1>9, <1>10, <1>11
<1>13. ~(l < k) /\ ~(k < l)
  BY <1>3, <1>11, <1>12, Sizes
<1>14. l = k
  BY <1>13
<1>15. w = j
  BY <1>3, <1>11, <1>12, <1>14
<1> QED
  BY <1>1, <1>5, <1>7, <1>11, <1>14, <1>15

\* The KV of a block is that of the tokens its id names.
LEMMA KVOfPrefix ==
    ASSUME NEW t \in Seq(Nat), NEW i \in Nat \ {0}, i * BlockSize <= Len(t)
    PROVE  /\ SubSeq(t, 1, i * BlockSize) # Junk /\ Len(SubSeq(t, 1, i * BlockSize)) = i * BlockSize
           /\ Of(SubSeq(t, 1, i * BlockSize)) = BlockKV(t, i)
<1>1. PICK k \in Nat : k = i * BlockSize /\ k <= Len(t) /\ k >= BlockSize
  BY Times, Sizes
<1>2. PICK id : id = SubSeq(t, 1, k)
  OBVIOUS
<1>3. id \in Seq(Nat) /\ Len(id) = k /\ \A x \in 1..k : id[x] = t[x]
  <2>1. Len(t) \in Nat
    OBVIOUS
  <2> QED
    BY <1>1, <1>2, <2>1
<1>4. id # Junk
  <2>1. Len(Junk) = 0
    BY DEF Junk
  <2> QED
    BY <1>1, <1>3, <2>1, Sizes
<1>5. k \div BlockSize = i
  <2>1. k \div BlockSize \in Nat /\ BlockSize * (k \div BlockSize) <= k /\ k < BlockSize * (k \div BlockSize) + BlockSize
    BY <1>1, Divided, Sizes
  <2>2. PICK q \in Nat : q = k \div BlockSize /\ q * BlockSize <= k /\ k < q * BlockSize + BlockSize
    <3>1. PICK q \in Nat : q = k \div BlockSize
      BY <2>1
    <3>2. BlockSize * q = q * BlockSize
      BY <3>1, Sizes
    <3> QED
      BY <2>1, <3>1, <3>2
  <2>3. q * BlockSize \in Nat /\ (q < i => q * BlockSize + BlockSize <= i * BlockSize)
        /\ (i < q => i * BlockSize + BlockSize <= q * BlockSize)
    BY <2>2, Times, Sizes
  <2>4. ~(q < i) /\ ~(i < q)
    BY <1>1, <2>2, <2>3, Sizes
  <2> QED
    BY <2>2, <2>4
<1>6. ASSUME NEW j \in 1..BlockSize
      PROVE  SubSeq(id, 1, (i - 1) * BlockSize + j) = SubSeq(t, 1, (i - 1) * BlockSize + j)
  <2>1. PICK p \in Nat \ {0} : p = (i - 1) * BlockSize + j /\ p <= k
    BY <1>1, PositionOfPlace
  <2>2. p <= Len(t) /\ p <= Len(id) /\ Len(t) \in Nat
    BY <1>1, <1>3, <2>1
  <2>3. \A x \in 1..p : id[x] = t[x]
    BY <1>3, <2>1
  <2>4. SubSeq(id, 1, p) = [x \in 1..p |-> id[x]] /\ SubSeq(t, 1, p) = [x \in 1..p |-> t[x]]
    BY <1>3, <2>2
  <2>5. SubSeq(id, 1, p) = SubSeq(t, 1, p)
    BY <2>3, <2>4
  <2> QED
    BY <2>1, <2>5
<1>7. BlockKV(id, i) = BlockKV(t, i)
  BY <1>6 DEF BlockKV
<1>8. Of(id) = BlockKV(id, i)
  BY <1>3, <1>5 DEF Of
<1> QED
  BY <1>1, <1>2, <1>3, <1>4, <1>7, <1>8

\* A full block in a right context holds what its id names.
LEMMA FullBlock ==
    ASSUME NEW r \in Requests, tokens[r] \in Seq(Nat), NEW held \in Seq(DeviceBlocks),
           NEW k \in Nat, k <= Len(tokens[r]), NEW m, Memory(m), Context(r, held, k, m),
           NEW i \in 1..Len(held), i * BlockSize <= k
    PROVE  m[held[i]] = Of(Prefix(r, i))
<1>1. i \in Nat \ {0} /\ held[i] \in DeviceBlocks
  OBVIOUS
<1>2. PICK t \in Seq(Nat) : t = tokens[r]
  OBVIOUS
<1>3. ASSUME NEW j \in 1..BlockSize PROVE m[held[i]][j] = SubSeq(t, 1, (i - 1) * BlockSize + j)
  <2>1. PICK p \in Nat \ {0} : p = (i - 1) * BlockSize + j /\ BlockOf(p) = i /\ PlaceOf(p) = j /\ p <= i * BlockSize
    BY <1>1, PositionOfPlace
  <2>2. p \in 1..k
    <3>1. i * BlockSize \in Nat
      BY <1>1, Times, Sizes
    <3> QED
      BY <2>1, <3>1
  <2>3. KV(m, held, p) = SubSeq(t, 1, p)
    BY <1>2, <2>2 DEF Context
  <2> QED
    BY <2>1, <2>3 DEF KV
<1>4. m[held[i]] = BlockKV(t, i)
  <2>1. m[held[i]] = [j \in 1..BlockSize |-> m[held[i]][j]]
    BY <1>1 DEF Memory
  <2> QED
    BY <1>3, <2>1 DEF BlockKV
<1>5. i * BlockSize <= Len(t)
  <2>1. i * BlockSize \in Nat /\ Len(t) \in Nat
    BY <1>1, Times, Sizes
  <2> QED
    BY <1>2, <2>1
<1>6. Of(SubSeq(t, 1, i * BlockSize)) = BlockKV(t, i)
  BY <1>1, <1>5, KVOfPrefix
<1> QED
  BY <1>2, <1>4, <1>6 DEF Prefix

\* The forward pass when the context is right.
Grown(r, held, from, n, m) == Forward(r, held, from, n, m, TRUE)

\* The forward pass adds the KV of the next tokens, and touches nothing that was full.
LEMMA Forwarded ==
    ASSUME NEW r \in Requests, NEW held \in Seq(DeviceBlocks), IsInjective(held),
           NEW from \in Nat, NEW n \in Nat \ {0}, from + n <= Len(held) * BlockSize,
           NEW m, Memory(m), Context(r, held, from, m),
           NEW g, g = Grown(r, held, from, n, m)
    PROVE  /\ Memory(g) /\ Context(r, held, from + n, g)
           /\ \A v \in DeviceBlocks \ ToSet(held) : g[v] = m[v]
           /\ \A i \in 1..Len(held) : i * BlockSize <= from => g[held[i]] = m[held[i]]
<1> DEFINE next == (from + 1)..(from + n)
           at(v, j, p) == held[BlockOf(p)] = v /\ PlaceOf(p) = j
           kv(v, j) == IF \E p \in next : at(v, j, p) THEN SubSeq(tokens[r], 1, CHOOSE p \in next : at(v, j, p)) ELSE m[v][j]
<1>1. g = [v \in DeviceBlocks |-> [j \in 1..BlockSize |-> kv(v, j)]]
  BY DEF Grown, Forward, DeviceBlocks
<1>2. Memory(g)
  BY <1>1 DEF Memory
<1>3. Len(held) \in Nat /\ from + n \in Nat /\ \A p \in 1..(from + n) : p \in Nat \ {0}
  OBVIOUS
<1>4. ASSUME NEW p \in 1..(from + n)
      PROVE  /\ p \in Nat \ {0} /\ BlockOf(p) \in 1..Len(held) /\ PlaceOf(p) \in 1..BlockSize
             /\ p = (BlockOf(p) - 1) * BlockSize + PlaceOf(p)
             /\ held[BlockOf(p)] \in DeviceBlocks /\ held[BlockOf(p)] \in ToSet(held)
  <2>1. BlockOf(p) \in Nat \ {0} /\ PlaceOf(p) \in 1..BlockSize /\ p = (BlockOf(p) - 1) * BlockSize + PlaceOf(p)
    BY <1>3, PlaceOfPosition
  <2>2. PICK k \in Nat, w \in 1..BlockSize : BlockOf(p) = k + 1 /\ p = k * BlockSize + w /\ w = PlaceOf(p)
    <3>1. PICK u \in Nat \ {0} : u = BlockOf(p)
      BY <2>1
    <3>2. u - 1 \in Nat /\ u = (u - 1) + 1
      BY <3>1
    <3> QED
      BY <2>1, <3>1, <3>2
  <2>3. k < Len(held)
    <3>1. k * BlockSize \in Nat /\ k * BlockSize < from + n
      BY <1>3, <2>2, Sizes
    <3>2. Len(held) <= k => Len(held) * BlockSize <= k * BlockSize
      BY <1>3, Times, Sizes
    <3>3. Len(held) * BlockSize \in Nat
      BY <1>3, Times, Sizes
    <3> QED
      BY <1>3, <3>1, <3>2, <3>3
  <2>4. BlockOf(p) \in 1..Len(held)
    BY <1>3, <2>2, <2>3
  <2> QED
    BY <1>3, <2>1, <2>4, SetOf
<1>5. ASSUME NEW p \in 1..(from + n), NEW q \in 1..(from + n), at(held[BlockOf(p)], PlaceOf(p), q) PROVE p = q
  <2>1. BlockOf(q) = BlockOf(p)
    <3>1. BlockOf(p) \in DOMAIN held /\ BlockOf(q) \in DOMAIN held
      BY <1>4
    <3> QED
      BY <1>5, <3>1 DEF IsInjective
  <2> QED
    BY <1>4, <1>5, <2>1
<1>6. \A p \in 1..(from + n) : p \notin next => p \in 1..from
  OBVIOUS
<1>7. next \subseteq 1..(from + n)
  OBVIOUS
<1> HIDE DEF next
<1>8. ASSUME NEW p \in 1..(from + n) PROVE KV(g, held, p) = SubSeq(tokens[r], 1, p)
  <2>1. PICK v \in DeviceBlocks, j \in 1..BlockSize : v = held[BlockOf(p)] /\ j = PlaceOf(p)
    BY <1>4
  <2>2. KV(g, held, p) = kv(v, j)
    <3> HIDE DEF kv
    <3>1. g[v] = [x \in 1..BlockSize |-> kv(v, x)]
      BY <1>1, <2>1
    <3>2. g[v][j] = kv(v, j)
      BY <2>1, <3>1
    <3> QED
      BY <2>1, <3>2 DEF KV
  <2>3. CASE p \in next
    <3>1. at(v, j, p)
      BY <2>1
    <3>2. PICK c : c = CHOOSE q \in next : at(v, j, q)
      OBVIOUS
    <3>3. c \in next /\ at(v, j, c)
      BY <2>3, <3>1, <3>2
    <3>4. c = p
      BY <1>5, <1>7, <2>1, <3>3
    <3> QED
      BY <2>2, <2>3, <3>1, <3>2, <3>4
  <2>4. CASE p \notin next
    <3>1. ~\E q \in next : at(v, j, q)
      BY <1>5, <1>7, <2>1, <2>4
    <3>2. kv(v, j) = m[v][j]
      BY <3>1
    <3>3. KV(m, held, p) = SubSeq(tokens[r], 1, p)
      BY <1>6, <2>4 DEF Context
    <3> QED
      BY <2>1, <2>2, <3>2, <3>3 DEF KV
  <2> QED
    BY <2>3, <2>4
<1>9. ASSUME NEW v \in DeviceBlocks, \A j \in 1..BlockSize : \A p \in next : ~at(v, j, p) PROVE g[v] = m[v]
  <2>1. \A j \in 1..BlockSize : kv(v, j) = m[v][j]
    BY <1>9
  <2>2. g[v] = [j \in 1..BlockSize |-> kv(v, j)] /\ m[v] = [j \in 1..BlockSize |-> m[v][j]]
    BY <1>1 DEF Memory
  <2> HIDE DEF kv
  <2> QED
    BY <2>1, <2>2
<1>10. ASSUME NEW v \in DeviceBlocks \ ToSet(held) PROVE g[v] = m[v]
  BY <1>4, <1>7, <1>9
<1>11. ASSUME NEW i \in 1..Len(held), i * BlockSize <= from PROVE g[held[i]] = m[held[i]]
  <2>1. held[i] \in DeviceBlocks /\ i \in DOMAIN held
    OBVIOUS
  <2>2. ASSUME NEW p \in next, held[BlockOf(p)] = held[i] PROVE FALSE
    <3>1. p \in 1..(from + n) /\ p > from /\ p \in Nat
      BY <1>3, <1>7 DEF next
    <3>2. BlockOf(p) = i
      <4>1. BlockOf(p) \in DOMAIN held
        BY <1>4, <3>1
      <4> QED
        BY <2>1, <2>2, <4>1 DEF IsInjective
    <3>3. p <= i * BlockSize
      <4>1. PlaceOf(p) \in 1..BlockSize /\ p = (i - 1) * BlockSize + PlaceOf(p) /\ i \in Nat \ {0}
        BY <1>4, <3>1, <3>2
      <4> QED
        BY <4>1, PositionOfPlace
    <3>4. i * BlockSize \in Nat
      BY Times, Sizes
    <3> QED
      BY <1>11, <3>1, <3>3, <3>4
  <2> QED
    BY <1>9, <2>1, <2>2
<1>12. Context(r, held, from + n, g)
  BY <1>8 DEF Context
<1> QED
  BY <1>2, <1>10, <1>11, <1>12

\* What is cached once the first `full` blocks of r are: the others keep their id unless fresh.
Recached(r, held, full, fresh, c) ==
    /\ DOMAIN c = DeviceBlocks
    /\ \A i \in 1..full : c[held[i]] = Prefix(r, i)
    /\ \A v \in DeviceBlocks : (\A i \in 1..full : held[i] # v) => c[v] = IF v \in fresh THEN Junk ELSE cached[v]

\* Blocks full when the step ends are cached under the request's ids; fresh ones lose their old id.
LEMMA CachedFull ==
    ASSUME NEW r \in Requests, tokens[r] \in Seq(Nat), NEW held \in Seq(DeviceBlocks), IsInjective(held),
           NEW full \in Nat, full <= Len(held), full * BlockSize <= Len(tokens[r]), NEW fresh,
           NEW c, c = CacheFull(r, held, full, fresh)
    PROVE  Recached(r, held, full, fresh, c)
<1>1. PICK t \in Seq(Nat) : t = tokens[r]
  OBVIOUS
<1>2. PICK all : all = generate_hash(t)
  OBVIOUS
<1>3. ASSUME NEW i \in 1..full PROVE all[i] = SubSeq(t, 1, i * BlockSize)
  <2>1. PICK k \in Nat : k = Len(t) \div BlockSize /\ Len(t) < BlockSize * k + BlockSize
    <3>1. Len(t) \in Nat
      OBVIOUS
    <3> QED
      BY <3>1, Divided, Sizes
  <2>2. full <= k
    <3>1. k < full => k * BlockSize + BlockSize <= full * BlockSize
      BY Times, Sizes
    <3>2. k * BlockSize \in Nat /\ BlockSize * k = k * BlockSize /\ full * BlockSize \in Nat /\ Len(t) \in Nat
      BY Times, Sizes
    <3>3. PICK x \in Nat, y \in Nat : x = full * BlockSize /\ y = k * BlockSize
      BY <3>2
    <3>4. x <= Len(t) /\ Len(t) < y + BlockSize /\ (k < full => y + BlockSize <= x)
      BY <1>1, <2>1, <3>1, <3>2, <3>3
    <3> QED
      BY <2>1, <3>2, <3>4, Sizes
  <2>3. i \in 1..(Len(t) \div BlockSize)
    BY <2>1, <2>2
  <2> QED
    BY <1>2, <2>3, GenHash
<1> DEFINE P(v, i) == held[i] = v
           put(v) == IF \E i \in 1..full : P(v, i) THEN all[CHOOSE i \in 1..full : P(v, i)]
                     ELSE IF v \in fresh THEN Junk ELSE cached[v]
<1>4. c = [v \in DeviceBlocks |-> put(v)]
  BY <1>1, <1>2 DEF CacheFull, DeviceBlocks
<1>5. ASSUME NEW i \in 1..full PROVE held[i] \in DeviceBlocks /\ put(held[i]) = Prefix(r, i)
  <2>1. \A j \in 1..full : j \in DOMAIN held
    OBVIOUS
  <2>2. \A j \in 1..full : held[j] = held[i] => j = i
    BY <2>1 DEF IsInjective
  <2>3. PICK j : j = CHOOSE k \in 1..full : P(held[i], k)
    OBVIOUS
  <2>4. \E k \in 1..full : P(held[i], k)
    OBVIOUS
  <2>5. j \in 1..full /\ P(held[i], j)
    <3> HIDE DEF P
    <3> QED
      BY <2>3, <2>4
  <2>6. j = i
    BY <2>2, <2>5
  <2>7. put(held[i]) = all[i]
    <3> HIDE DEF P
    <3> QED
      BY <2>3, <2>4, <2>6
  <2>8. held[i] \in DeviceBlocks
    BY <2>1
  <2> HIDE DEF put
  <2> QED
    BY <1>1, <1>3, <2>7, <2>8 DEF Prefix
<1>6. ASSUME NEW v \in DeviceBlocks, \A i \in 1..full : held[i] # v PROVE put(v) = IF v \in fresh THEN Junk ELSE cached[v]
  BY <1>6
<1> HIDE DEF put
<1>7. DOMAIN c = DeviceBlocks /\ \A v \in DeviceBlocks : c[v] = put(v)
  BY <1>4
<1> QED
  BY <1>5, <1>6, <1>7 DEF Recached

\* The blocks allocated are enough for the tokens of the step.
LEMMA Enough ==
    ASSUME NEW a \in Nat \ {0}, NEW L \in Nat, (a + BlockSize - 1) \div BlockSize <= L
    PROVE  a <= L * BlockSize
<1>1. PICK x \in Nat : x = a + BlockSize - 1
  BY Sizes
<1>2. PICK c \in Nat : c = x \div BlockSize /\ x < BlockSize * c + BlockSize
  BY <1>1, Divided, Sizes
<1>3. BlockSize * c = c * BlockSize /\ c * BlockSize <= L * BlockSize /\ c * BlockSize \in Nat /\ L * BlockSize \in Nat
  <2>1. c <= L
    BY <1>1, <1>2
  <2> QED
    BY <2>1, Times, Sizes
<1> QED
  BY <1>1, <1>2, <1>3, Sizes

\* The block of a position is among the first k when the position is no further than their tokens.
LEMMA BlockWithin ==
    ASSUME NEW k \in Nat, NEW p \in Nat \ {0}, p <= k * BlockSize
    PROVE  BlockOf(p) \in 1..k /\ PlaceOf(p) \in 1..BlockSize /\ p = (BlockOf(p) - 1) * BlockSize + PlaceOf(p)
<1>1. BlockOf(p) \in Nat \ {0} /\ PlaceOf(p) \in 1..BlockSize /\ p = (BlockOf(p) - 1) * BlockSize + PlaceOf(p)
  BY PlaceOfPosition
<1>2. PICK u \in Nat, w \in 1..BlockSize : BlockOf(p) = u + 1 /\ w = PlaceOf(p) /\ p = u * BlockSize + w
  <2>1. PICK b \in Nat \ {0} : b = BlockOf(p)
    BY <1>1
  <2>2. b - 1 \in Nat /\ b = (b - 1) + 1
    BY <2>1
  <2> QED
    BY <1>1, <2>1, <2>2
<1>3. u < k
  <2>1. k <= u => k * BlockSize <= u * BlockSize
    BY Times, Sizes
  <2>2. u * BlockSize \in Nat /\ k * BlockSize \in Nat
    BY Times, Sizes
  <2> QED
    BY <1>2, <2>1, <2>2
<1> QED
  BY <1>1, <1>2, <1>3

----------------------------------------------------------------------------
(* A step of the worker.                                                   *)

\* The blocks of a step of r: full ones cached under its ids, some of its own, and fresh ones.
Prepared(r, held, from, fresh) ==
    /\ held \in Seq(DeviceBlocks) /\ IsInjective(held)
    /\ \A q \in Requests : ToSet(blocks[q]) \cap fresh = {}
    /\ \A i \in 1..Len(held) : held[i] \notin fresh =>
         IF i * BlockSize <= from THEN cached[held[i]] = Prefix(r, i)
         ELSE cached[held[i]] = Junk /\ \A q \in Requests \ {r} : held[i] \notin ToSet(blocks[q])

\* Device memory once the loads of the step are in: they went to fresh blocks, or changed nothing.
LoadsAreIn(r, held, from, fresh, loaded) ==
    \A a \in Areas : /\ Memory(loaded[a]) /\ Context(r, held, from, loaded[a])
                     /\ \A v \in DeviceBlocks \ fresh : loaded[a][v] = hbm[a][v]

\* What LoadComputeSave makes of device memory and of the engine's tables, the loads being in.
Ran(r, held, from, n, fresh, loaded) ==
    /\ load' = load
    /\ hbm' = [a \in Areas |-> Grown(r, held, from, n, loaded[a])]
    /\ cached' = CacheFull(r, held, (from + n) \div BlockSize, fresh)
    /\ blocks' = [blocks EXCEPT ![r] = held]
    /\ computed' = [computed EXCEPT ![r] = from + n]
    /\ \A q \in Requests \ {r} : tokens'[q] = tokens[q]
    /\ \A p \in 1..Len(tokens[r]) : SubSeq(tokens'[r], 1, p) = SubSeq(tokens[r], 1, p)

\* After a step of r the blocks that are full hold what their ids name, and so does what is cached
\* on the device; the blocks that other requests hold are as they were.
LEMMA RanMemory ==
    ASSUME tokens \in [Requests -> Seq(Nat)], blocks \in [Requests -> Seq(DeviceBlocks)], DeviceIsRight,
           NEW r \in Requests, NEW held, NEW from \in Nat, NEW n \in Nat \ {0}, NEW fresh, NEW loaded,
           Prepared(r, held, from, fresh), LoadsAreIn(r, held, from, fresh, loaded),
           from + n <= Len(tokens[r]), from + n <= Len(held) * BlockSize, Ran(r, held, from, n, fresh, loaded)
    PROVE  /\ DeviceIsRight'
           /\ \A i \in 1..Len(held) : i * BlockSize <= from + n => cached'[held[i]] = Prefix(r, i)
           /\ \A i \in 1..Len(held) : ~(i * BlockSize <= from + n) => cached'[held[i]] = Junk
           /\ \A a \in Areas : Memory(hbm'[a]) /\ Context(r, held, from + n, hbm'[a])
           /\ \A a \in Areas : \A i \in 1..Len(held) : i * BlockSize <= from + n => hbm'[a][held[i]] = Of(Prefix(r, i))
           /\ \A q \in Requests \ {r} : \A v \in ToSet(blocks[q]) :
                 cached'[v] = cached[v] /\ \A a \in Areas : hbm'[a][v] = hbm[a][v]
<1>1. tokens[r] \in Seq(Nat) /\ Len(tokens[r]) \in Nat /\ held \in Seq(DeviceBlocks) /\ IsInjective(held) /\ Len(held) \in Nat
  BY DEF Prepared
<1>2. PICK k \in Nat : k = from + n /\ k # 0 /\ k <= Len(tokens[r]) /\ k <= Len(held) * BlockSize
  OBVIOUS
<1>3. PICK full \in Nat : full = k \div BlockSize /\ BlockSize * full <= k /\ k < BlockSize * full + BlockSize
  BY <1>2, Divided, Sizes
<1>4. full * BlockSize \in Nat /\ full * BlockSize <= k /\ k < full * BlockSize + BlockSize
  <2>1. full * BlockSize = BlockSize * full /\ full * BlockSize \in Nat
    BY Times, Sizes
  <2> QED
    BY <1>3, <2>1
<1>5. ASSUME NEW i \in Nat PROVE i * BlockSize \in Nat /\ (i * BlockSize <= k <=> i <= full)
  <2>1. PICK x \in Nat, y \in Nat : x = i * BlockSize /\ y = full * BlockSize
    BY Times, Sizes
  <2>2. (full < i => y + BlockSize <= x) /\ (i <= full => x <= y)
    <3>1. full < i => full * BlockSize + BlockSize <= i * BlockSize
      BY Times, Sizes
    <3>2. i <= full => i * BlockSize <= full * BlockSize
      BY Times, Sizes
    <3> QED
      BY <2>1, <3>1, <3>2
  <2>3. y <= k /\ k < y + BlockSize
    BY <1>4, <2>1
  <2>4. x <= k <=> i <= full
    BY <2>2, <2>3, Sizes
  <2> QED
    BY <2>1, <2>4
<1>6. full <= Len(held)
  <2>1. PICK x \in Nat : x = Len(held) * BlockSize
    BY <1>1, Times, Sizes
  <2>2. Len(held) < full => Len(held) * BlockSize + BlockSize <= full * BlockSize
    BY <1>1, Times, Sizes
  <2> QED
    BY <1>1, <1>2, <1>4, <2>1, <2>2, Sizes
<1>7. /\ DOMAIN cached' = DeviceBlocks
      /\ \A i \in 1..full : cached'[held[i]] = Prefix(r, i)
      /\ \A v \in DeviceBlocks : (\A i \in 1..full : held[i] # v) => cached'[v] = IF v \in fresh THEN Junk ELSE cached[v]
  <2>1. cached' = CacheFull(r, held, full, fresh)
    BY <1>2, <1>3 DEF Ran
  <2>2. full * BlockSize <= Len(tokens[r])
    BY <1>1, <1>2, <1>4
  <2>3. PICK c : c = CacheFull(r, held, full, fresh)
    OBVIOUS
  <2>4. tokens[r] \in Seq(Nat) /\ held \in Seq(DeviceBlocks) /\ IsInjective(held) /\ full \in Nat /\ full <= Len(held)
    BY <1>1, <1>6
  <2>5. Recached(r, held, full, fresh, c)
    BY <2>2, <2>3, <2>4, CachedFull
  <2> QED
    BY <2>1, <2>3, <2>5 DEF Recached
<1>8. /\ ToSet(held) = {held[i] : i \in 1..Len(held)}
      /\ \A i \in 1..Len(held) : i \in Nat /\ held[i] \in DeviceBlocks /\ held[i] \in ToSet(held)
  BY <1>1, SetOf
<1>9. ASSUME NEW a \in Areas
      PROVE  /\ Memory(hbm'[a]) /\ Context(r, held, k, hbm'[a])
             /\ \A v \in DeviceBlocks \ ToSet(held) : hbm'[a][v] = loaded[a][v]
  <2>1. PICK m : m = loaded[a]
    OBVIOUS
  <2>2. Memory(m) /\ Context(r, held, from, m)
    BY <2>1 DEF LoadsAreIn
  <2>3. PICK g : g = Grown(r, held, from, n, m)
    OBVIOUS
  <2>4. hbm'[a] = g
    BY <2>1, <2>3 DEF Ran
  <2>5. held \in Seq(DeviceBlocks) /\ IsInjective(held) /\ from + n <= Len(held) * BlockSize
    BY <1>1
  <2>6. Memory(g) /\ Context(r, held, from + n, g) /\ \A v \in DeviceBlocks \ ToSet(held) : g[v] = m[v]
    BY <2>2, <2>3, <2>5, Forwarded
  <2> QED
    BY <1>2, <2>1, <2>4, <2>6
<1>10. ASSUME NEW i \in 1..Len(held), i * BlockSize <= k
       PROVE  i \in 1..full /\ cached'[held[i]] = Prefix(r, i) /\ \A a \in Areas : hbm'[a][held[i]] = Of(Prefix(r, i))
  <2>1. i \in 1..full
    BY <1>5, <1>8, <1>10
  <2>2. ASSUME NEW a \in Areas PROVE hbm'[a][held[i]] = Of(Prefix(r, i))
    BY <1>1, <1>2, <1>9, <1>10, FullBlock
  <2> QED
    BY <1>7, <2>1, <2>2
<1>11. ASSUME NEW i \in 1..Len(held), ~(i * BlockSize <= k) PROVE cached'[held[i]] = Junk
  <2>1. \A j \in 1..full : held[j] # held[i]
    <3>1. \A j \in 1..full : j \in DOMAIN held /\ j # i
      <4>1. ~(i <= full) /\ i \in Nat
        BY <1>5, <1>8, <1>11
      <4>2. \A j \in 1..full : j <= full /\ j \in 1..Len(held)
        BY <1>1, <1>6
      <4>3. DOMAIN held = 1..Len(held)
        BY <1>1
      <4> QED
        BY <4>1, <4>2, <4>3
    <3>2. i \in DOMAIN held
      BY <1>1
    <3> QED
      BY <1>1, <3>1, <3>2 DEF IsInjective
  <2>2. cached'[held[i]] = IF held[i] \in fresh THEN Junk ELSE cached[held[i]]
    BY <1>7, <1>8, <2>1
  <2>3. ~(i * BlockSize <= from)
    <3>1. i * BlockSize \in Nat
      BY <1>5, <1>8
    <3> QED
      BY <1>2, <1>11, <3>1
  <2> QED
    BY <2>2, <2>3 DEF Prepared
<1>12. ASSUME NEW v \in DeviceBlocks, cached'[v] # Junk, NEW a \in Areas PROVE hbm'[a][v] = Of(cached'[v])
  <2>1. CASE \E i \in 1..Len(held) : held[i] = v
    <3>1. PICK i \in 1..Len(held) : held[i] = v
      BY <2>1
    <3>2. i * BlockSize <= k
      BY <1>11, <1>12, <3>1
    <3> QED
      BY <1>10, <3>1, <3>2
  <2>2. CASE ~\E i \in 1..Len(held) : held[i] = v
    <3>1. v \notin ToSet(held)
      BY <1>8, <2>2
    <3>2. \A i \in 1..full : held[i] # v
      BY <1>1, <1>6, <2>2
    <3>3. cached'[v] = cached[v] /\ v \notin fresh
      BY <1>7, <1>12, <3>2
    <3>4. hbm'[a][v] = loaded[a][v] /\ loaded[a][v] = hbm[a][v]
      BY <1>9, <3>1, <3>3 DEF LoadsAreIn
    <3> QED
      BY <1>12, <3>3, <3>4 DEF DeviceIsRight
  <2> QED
    BY <2>1, <2>2
<1>13. DeviceIsRight'
  <2>1. Areas' = Areas
    BY DEF Ran, Areas
  <2> QED
    BY <1>7, <1>9, <1>12, <2>1 DEF DeviceIsRight
<1>14. ASSUME NEW q \in Requests \ {r}, NEW v \in ToSet(blocks[q])
       PROVE  cached'[v] = cached[v] /\ \A a \in Areas : hbm'[a][v] = hbm[a][v]
  <2>1. v \notin fresh /\ v \in DeviceBlocks
    <3>1. blocks[q] \in Seq(DeviceBlocks)
      OBVIOUS
    <3>2. ToSet(blocks[q]) \subseteq DeviceBlocks
      BY <3>1, SetOf
    <3> QED
      BY <3>2 DEF Prepared
  <2>2. CASE \E i \in 1..Len(held) : held[i] = v
    <3>1. PICK i \in 1..Len(held) : held[i] = v
      BY <2>2
    <3>2. i * BlockSize <= from /\ cached[v] = Prefix(r, i)
      BY <2>1, <3>1 DEF Prepared
    <3>3. i * BlockSize <= k /\ i \in Nat /\ i # 0 /\ i * BlockSize \in Nat
      <4>1. i \in Nat /\ i # 0
        BY <1>8
      <4>2. i * BlockSize \in Nat
        BY <1>5, <4>1
      <4>3. from <= k
        BY <1>2
      <4> QED
        BY <3>2, <4>1, <4>2, <4>3
    <3>4. cached'[v] = Prefix(r, i)
      BY <1>10, <3>1, <3>3
    <3>5. cached[v] # Junk
      <4>1. i * BlockSize <= Len(tokens[r]) /\ i \in Nat \ {0}
        BY <1>1, <1>2, <3>3
      <4> QED
        BY <1>1, <3>2, <4>1, KVOfPrefix DEF Prefix
    <3> QED
      BY <1>12, <2>1, <3>2, <3>4, <3>5 DEF DeviceIsRight
  <2>3. CASE ~\E i \in 1..Len(held) : held[i] = v
    <3>1. v \notin ToSet(held)
      BY <1>8, <2>3
    <3>2. \A i \in 1..full : held[i] # v
      BY <1>1, <1>6, <2>3
    <3> QED
      BY <1>7, <1>9, <2>1, <3>1, <3>2 DEF LoadsAreIn
  <2> QED
    BY <2>2, <2>3
<1> QED
  BY <1>2, <1>9, <1>10, <1>11, <1>13, <1>14

\* After a step of r every running request holds its own blocks, in the sense of the invariant.
LEMMA RanHolds ==
    ASSUME tokens \in [Requests -> Seq(Nat)], blocks \in [Requests -> Seq(DeviceBlocks)],
           computed \in [Requests -> Nat], \A q \in Requests : computed[q] <= Len(tokens[q]), DeviceIsRight,
           NEW r \in Requests, NEW held, NEW from \in Nat, NEW n \in Nat \ {0}, NEW fresh, NEW loaded,
           Prepared(r, held, from, fresh), LoadsAreIn(r, held, from, fresh, loaded),
           from + n <= Len(tokens[r]), from + n <= Len(held) * BlockSize, Ran(r, held, from, n, fresh, loaded)
    PROVE  HoldsItsOwn(r)' /\ \A q \in Requests \ {r} : HoldsItsOwn(q) => HoldsItsOwn(q)'
<1>1. /\ \A i \in 1..Len(held) : i * BlockSize <= from + n => cached'[held[i]] = Prefix(r, i)
      /\ \A i \in 1..Len(held) : ~(i * BlockSize <= from + n) => cached'[held[i]] = Junk
      /\ \A a \in Areas : Context(r, held, from + n, hbm'[a])
      /\ \A q \in Requests \ {r} : \A v \in ToSet(blocks[q]) :
            cached'[v] = cached[v] /\ \A a \in Areas : hbm'[a][v] = hbm[a][v]
  BY RanMemory
<1>2. /\ held \in Seq(DeviceBlocks) /\ Len(held) \in Nat /\ ToSet(held) = {held[i] : i \in 1..Len(held)}
      /\ \A i \in 1..Len(held) : held[i] \in ToSet(held)
  BY SetOf DEF Prepared
<1>3. /\ Areas' = Areas /\ blocks'[r] = held /\ computed'[r] = from + n
      /\ \A q \in Requests \ {r} : blocks'[q] = blocks[q] /\ computed'[q] = computed[q] /\ tokens'[q] = tokens[q]
      /\ \A p \in 1..Len(tokens[r]) : SubSeq(tokens'[r], 1, p) = SubSeq(tokens[r], 1, p)
  BY DEF Ran, Areas
<1>4. tokens[r] \in Seq(Nat) /\ Len(tokens[r]) \in Nat
  OBVIOUS
<1>5. PICK k \in Nat : k = from + n /\ k # 0 /\ from <= k /\ k <= Len(tokens[r]) /\ k <= Len(held) * BlockSize
  OBVIOUS
<1>6. \A i \in 1..Len(held) : i * BlockSize \in Nat \ {0} /\ i \in Nat \ {0}
  <2> SUFFICES ASSUME NEW i \in 1..Len(held) PROVE i * BlockSize \in Nat \ {0} /\ i \in Nat \ {0}
    OBVIOUS
  <2>1. i \in Nat \ {0}
    BY <1>2
  <2>2. i * BlockSize \in Nat /\ i * BlockSize >= BlockSize
    BY <2>1, Times, Sizes
  <2> QED
    BY <2>1, <2>2, Sizes
<1>7. HoldsItsOwn(r)'
  <2>1. from + n \in 1..(Len(held) * BlockSize)
    <3>1. Len(held) * BlockSize \in Nat
      BY <1>2, Times, Sizes
    <3> QED
      BY <1>5, <3>1
  <2>2. ASSUME NEW i \in 1..Len(held)
        PROVE  IF i * BlockSize <= from + n THEN cached'[held[i]] = Prefix(r, i)'
               ELSE cached'[held[i]] = Junk /\ \A q \in Requests \ {r} : held[i] \notin ToSet(blocks'[q])
    <3>1. CASE i * BlockSize <= from + n
      <4>1. i * BlockSize \in 1..Len(tokens[r])
        BY <1>4, <1>5, <1>6, <3>1
      <4>2. Prefix(r, i)' = Prefix(r, i)
        BY <1>3, <4>1 DEF Prefix
      <4> QED
        BY <1>1, <3>1, <4>2
    <3>2. CASE ~(i * BlockSize <= from + n)
      <4>1. ~(i * BlockSize <= from)
        BY <1>5, <1>6, <3>2
      <4>2. ASSUME NEW q \in Requests \ {r} PROVE held[i] \notin ToSet(blocks[q])
        BY <4>1 DEF Prepared
      <4>3. cached'[held[i]] = Junk
        BY <1>1, <3>2
      <4> QED
        BY <1>3, <3>2, <4>2, <4>3
    <3> QED
      BY <3>1, <3>2
  <2>3. ASSUME NEW a \in Areas PROVE Context(r, blocks[r], computed[r], hbm[a])'
    <3>1. ASSUME NEW p \in 1..(from + n) PROVE KV(hbm'[a], held, p) = SubSeq(tokens'[r], 1, p)
      <4>1. p \in 1..Len(tokens[r])
        BY <1>4, <1>5
      <4>2. KV(hbm'[a], held, p) = SubSeq(tokens[r], 1, p)
        BY <1>1 DEF Context
      <4> QED
        BY <1>3, <4>1, <4>2
    <3> QED
      BY <1>3, <3>1 DEF Context, KV
  <2> QED
    BY <1>3, <2>1, <2>2, <2>3 DEF HoldsItsOwn, Full
<1>8. ASSUME NEW q \in Requests \ {r}, HoldsItsOwn(q) PROVE HoldsItsOwn(q)'
  <2>1. /\ blocks[q] \in Seq(DeviceBlocks) /\ Len(blocks[q]) \in Nat /\ computed[q] \in Nat
        /\ \A i \in 1..Len(blocks[q]) : blocks[q][i] \in ToSet(blocks[q])
        /\ computed[q] \in 1..(Len(blocks[q]) * BlockSize) /\ Len(blocks[q]) * BlockSize \in Nat
    <3>1. blocks[q] \in Seq(DeviceBlocks) /\ computed[q] \in Nat
      OBVIOUS
    <3>2. Len(blocks[q]) \in Nat /\ \A i \in 1..Len(blocks[q]) : blocks[q][i] \in ToSet(blocks[q])
      BY <3>1, SetOf
    <3>3. Len(blocks[q]) * BlockSize \in Nat
      BY <3>2, Times, Sizes
    <3> QED
      BY <1>8, <3>1, <3>2, <3>3 DEF HoldsItsOwn
  <2>2. ASSUME NEW i \in 1..Len(blocks[q]), ~Full(q, i) PROVE blocks[q][i] \notin ToSet(held)
    <3>1. PICK v : v = blocks[q][i] /\ v \in ToSet(blocks[q])
      BY <2>1
    <3>2. cached[v] = Junk /\ v \notin fresh
      BY <1>8, <2>2, <3>1 DEF HoldsItsOwn, Prepared
    <3>3. ASSUME NEW j \in 1..Len(held), held[j] = v PROVE FALSE
      <4>1. j * BlockSize <= from /\ cached[v] = Prefix(r, j)
        BY <3>1, <3>2, <3>3 DEF Prepared
      <4>2. j * BlockSize <= Len(tokens[r]) /\ j \in Nat \ {0}
        BY <1>4, <1>5, <1>6, <4>1
      <4>3. Prefix(r, j) # Junk
        BY <1>4, <4>2, KVOfPrefix DEF Prefix
      <4> QED
        BY <3>2, <4>1, <4>3
    <3> QED
      BY <1>2, <3>1, <3>3
  <2>3. ASSUME NEW i \in 1..Len(blocks[q])
        PROVE  IF Full(q, i) THEN cached'[blocks[q][i]] = Prefix(q, i)'
               ELSE cached'[blocks[q][i]] = Junk /\ \A x \in Requests \ {q} : blocks[q][i] \notin ToSet(blocks'[x])
    <3>1. cached'[blocks[q][i]] = cached[blocks[q][i]] /\ Prefix(q, i)' = Prefix(q, i)
      BY <1>1, <1>3, <2>1 DEF Prefix
    <3>2. CASE Full(q, i)
      BY <1>8, <3>1, <3>2 DEF HoldsItsOwn
    <3>3. CASE ~Full(q, i)
      <4>1. cached[blocks[q][i]] = Junk /\ \A x \in Requests \ {q} : blocks[q][i] \notin ToSet(blocks[x])
        BY <1>8, <3>3 DEF HoldsItsOwn
      <4>2. ASSUME NEW x \in Requests \ {q} PROVE blocks[q][i] \notin ToSet(blocks'[x])
        <5>1. blocks[q][i] \notin ToSet(held)
          BY <2>2, <3>3
        <5>2. CASE x = r
          BY <1>3, <5>1, <5>2
        <5>3. CASE x # r
          BY <1>3, <4>1, <5>3
        <5> QED
          BY <5>2, <5>3
      <4> QED
        BY <3>1, <3>3, <4>1, <4>2
    <3> QED
      BY <3>2, <3>3
  <2>4. ASSUME NEW a \in Areas PROVE Context(q, blocks[q], computed[q], hbm[a])'
    <3>1. ASSUME NEW p \in 1..computed[q] PROVE KV(hbm'[a], blocks[q], p) = SubSeq(tokens[q], 1, p)
      <4>1. p \in Nat \ {0} /\ p <= Len(blocks[q]) * BlockSize
        BY <2>1
      <4>2. BlockOf(p) \in 1..Len(blocks[q])
        BY <2>1, <4>1, BlockWithin
      <4>3. hbm'[a][blocks[q][BlockOf(p)]] = hbm[a][blocks[q][BlockOf(p)]]
        BY <1>1, <2>1, <4>2
      <4>4. KV(hbm[a], blocks[q], p) = SubSeq(tokens[q], 1, p)
        BY <1>8 DEF HoldsItsOwn, Context
      <4> QED
        BY <4>3, <4>4 DEF KV
    <3> QED
      BY <1>3, <3>1 DEF Context, KV
  <2> QED
    BY <1>3, <2>1, <2>3, <2>4 DEF HoldsItsOwn, Full
<1> QED
  BY <1>7, <1>8

\* Of two functions laid over one another each value is from one of them.
LEMMA OverOf ==
    ASSUME NEW f, NEW g, NEW h, h = Over(f, g), NEW x \in DOMAIN h
    PROVE  (h[x] = f[x] /\ x \in DOMAIN f) \/ (h[x] = g[x] /\ x \in DOMAIN g)
<1> DEFINE D == DOMAIN f \cup DOMAIN g
           val(y) == IF y \in DOMAIN f THEN f[y] ELSE g[y]
<1>1. h = [y \in D |-> val(y)]
  BY DEF Over
<1>2. x \in D /\ h[x] = val(x)
  <2> HIDE DEF D, val
  <2> QED
    BY <1>1
<1> QED
  BY <1>2

\* The first k tokens' full blocks in m hold what their ids name; a dump is of some of them.
AreFull(r, held, k, m) == \A a \in Areas : \A i \in 1..Len(held) : i * BlockSize <= k => m[a][held[i]] = Of(Prefix(r, i))
DumpsFull(r, held, k, dump) ==
    \A i \in DOMAIN dump.blocks : \E j \in 1..Len(held) :
        j * BlockSize <= k /\ dump.blocks[i] = held[j] /\ dump.ids[i] = Prefix(r, j)

\* Blocks are saved with the KV of their ids, and a block once found in the store stays found.
LEMMA SavedRight ==
    ASSUME StoredIsRight, NEW r, NEW held, NEW k, NEW m, NEW dump, NEW s, s \in Written(dump, m, Areas),
           AreFull(r, held, k, m), DumpsFull(r, held, k, dump)
    PROVE  /\ \A id \in DOMAIN s : \A a \in DOMAIN s[id] : s[id][a] = Of(id)
           /\ \A id \in Stored : id \in DOMAIN s /\ DOMAIN s[id] = Areas
<1>1. PICK new : new = Saved(dump, m, Areas)
  OBVIOUS
<1>2. PICK ids : ids = DOMAIN new
  OBVIOUS
<1> DEFINE old(id) == IF id \in DOMAIN store THEN store[id] ELSE <<>>
           first == [id \in ids |-> Over(new[id], old(id))]
           last == [id \in ids |-> Over(old(id), new[id])]
<1>3. s = Over(first, store) \/ s = Over(last, store)
  BY <1>1, <1>2 DEF Written
<1>4. ASSUME NEW id \in ids PROVE DOMAIN new[id] = Areas /\ \A a \in Areas : new[id][a] = Of(id)
  <2> DEFINE P(i) == dump.ids[i] = id
  <2>1. ids = {dump.ids[i] : i \in DOMAIN dump.blocks}
    BY <1>1, <1>2 DEF Saved
  <2>2. PICK c : c = CHOOSE i \in DOMAIN dump.blocks : P(i)
    OBVIOUS
  <2>3. new[id] = [a \in Areas |-> m[a][dump.blocks[c]]]
    BY <1>1, <2>1, <2>2 DEF Saved
  <2>4. c \in DOMAIN dump.blocks /\ P(c)
    <3>1. \E i \in DOMAIN dump.blocks : P(i)
      BY <2>1
    <3> HIDE DEF P
    <3> QED
      BY <2>2, <3>1
  <2>5. PICK j \in 1..Len(held) : j * BlockSize <= k /\ dump.blocks[c] = held[j] /\ id = Prefix(r, j)
    BY <2>4 DEF DumpsFull
  <2> QED
    BY <2>3, <2>5 DEF AreFull
<1>5. \A id \in DOMAIN store : \A a \in DOMAIN store[id] : store[id][a] = Of(id)
  BY DEF StoredIsRight, Of
<1>6. \A id : \A a \in DOMAIN old(id) : id \in DOMAIN store /\ old(id)[a] = Of(id)
  <2>1. DOMAIN <<>> = {}
    OBVIOUS
  <2> QED
    BY <1>5, <2>1
<1>7. \A id \in Stored : id \in DOMAIN store /\ DOMAIN store[id] = Areas /\ DOMAIN old(id) = Areas
  BY DEF Stored
<1> HIDE DEF old
<1>8. ASSUME NEW f, f = first \/ f = last, s = Over(f, store), NEW id \in DOMAIN s, NEW a \in DOMAIN s[id]
      PROVE  s[id][a] = Of(id)
  <2>1. CASE id \in ids
    <3>1. s[id] = Over(new[id], old(id)) \/ s[id] = Over(old(id), new[id])
      BY <1>8, <2>1 DEF Over
    <3>2. (s[id][a] = new[id][a] /\ a \in DOMAIN new[id]) \/ (s[id][a] = old(id)[a] /\ a \in DOMAIN old(id))
      <4>1. CASE s[id] = Over(new[id], old(id))
        BY <1>8, <4>1, OverOf
      <4>2. CASE s[id] = Over(old(id), new[id])
        <5>1. PICK x, y, z : x = old(id) /\ y = new[id] /\ z = s[id]
          OBVIOUS
        <5>2. z = Over(x, y) /\ a \in DOMAIN z
          BY <1>8, <4>2, <5>1
        <5>3. (z[a] = x[a] /\ a \in DOMAIN x) \/ (z[a] = y[a] /\ a \in DOMAIN y)
          BY <5>2, OverOf
        <5> QED
          BY <5>1, <5>3
      <4> QED
        BY <3>1, <4>1, <4>2
    <3> QED
      BY <1>4, <1>6, <2>1, <3>2
  <2>2. CASE id \notin ids
    <3>1. DOMAIN f = ids
      BY <1>8
    <3>2. s[id] = store[id] /\ id \in DOMAIN store
      BY <1>8, <2>2, <3>1 DEF Over
    <3> QED
      BY <1>5, <1>8, <3>2
  <2> QED
    BY <2>1, <2>2
<1>9. ASSUME NEW f, f = first \/ f = last, s = Over(f, store), NEW id \in Stored
      PROVE  id \in DOMAIN s /\ DOMAIN s[id] = Areas
  <2>1. DOMAIN f = ids /\ id \in DOMAIN s
    BY <1>7, <1>9 DEF Over
  <2>2. CASE id \in ids
    <3>1. s[id] = Over(new[id], old(id)) \/ s[id] = Over(old(id), new[id])
      BY <1>9, <2>1, <2>2 DEF Over
    <3>2. DOMAIN s[id] = DOMAIN new[id] \cup DOMAIN old(id)
      <4>1. CASE s[id] = Over(new[id], old(id))
        BY <4>1 DEF Over
      <4>2. CASE s[id] = Over(old(id), new[id])
        BY <4>2 DEF Over
      <4> QED
        BY <3>1, <4>1, <4>2
    <3> QED
      BY <1>4, <1>7, <2>1, <2>2, <3>2
  <2>3. CASE id \notin ids
    <3>1. s[id] = store[id]
      BY <1>9, <2>1, <2>3 DEF Over
    <3> QED
      BY <1>7, <2>1, <3>1
  <2> QED
    BY <2>2, <2>3
<1>10. PICK f : (f = first \/ f = last) /\ s = Over(f, store)
  BY <1>3
<1> HIDE DEF first, last
<1>11. \A id \in DOMAIN s : \A a \in DOMAIN s[id] : s[id][a] = Of(id)
  BY <1>8, <1>10
<1>12. \A id \in Stored : id \in DOMAIN s /\ DOMAIN s[id] = Areas
  BY <1>9, <1>10
<1> QED
  BY <1>11, <1>12

\* The loads of a step, none of which fails.
Fetched(t) == start_load_kv(t, TRUE)

\* The loads are of full blocks of r, by their ids, which the store has.
LoadsFull(r, held, t) ==
    \A i \in DOMAIN t.blocks : \E j \in 1..Len(held) :
        /\ j * BlockSize <= Len(tokens[r]) /\ t.blocks[i] = held[j]
        /\ t.ids[i] = Prefix(r, j) /\ t.ids[i] \in Stored

\* What an area holds once they are in.
HasLoaded(r, held, t, a, m) ==
    /\ Memory(m)
    /\ \A v \in DeviceBlocks : (\A i \in DOMAIN t.blocks : t.blocks[i] # v) => m[v] = hbm[a][v]
    /\ \A i \in DOMAIN t.blocks : \E j \in 1..Len(held) :
         /\ j * BlockSize <= Len(tokens[r]) /\ t.blocks[i] = held[j] /\ m[held[j]] = Of(Prefix(r, j))

\* Loads of full blocks of r by their ids put the right KV into its blocks, and touch no others.
LEMMA LoadedRight ==
    ASSUME StoredIsRight, DeviceIsRight, NEW r \in Requests, tokens[r] \in Seq(Nat),
           NEW held \in Seq(DeviceBlocks), NEW t, NEW m, m = Fetched(t), LoadsFull(r, held, t)
    PROVE  \A a \in Areas : HasLoaded(r, held, t, a, m[a])
<1> SUFFICES ASSUME NEW a \in Areas PROVE HasLoaded(r, held, t, a, m[a])
  OBVIOUS
<1> DEFINE P(v, i) == t.blocks[i] = v
           src(v) == CHOOSE i \in DOMAIN t.blocks : P(v, i)
           got(v) == IF \E i \in DOMAIN t.blocks : P(v, i) THEN store[t.ids[src(v)]][a] ELSE hbm[a][v]
<1>1. m[a] = [v \in DeviceBlocks |-> got(v)]
  BY DEF Fetched, start_load_kv, Loaded, DeviceBlocks
<1>2. ASSUME NEW v \in DeviceBlocks, NEW x \in DOMAIN t.blocks, t.blocks[x] = v
      PROVE  \E j \in 1..Len(held) : /\ j * BlockSize <= Len(tokens[r]) /\ v = held[j]
                                     /\ got(v) = Of(Prefix(r, j)) /\ got(v) = [y \in 1..BlockSize |-> got(v)[y]]
  <2>1. PICK c : c = src(v)
    OBVIOUS
  <2>2. \E i \in DOMAIN t.blocks : P(v, i)
    BY <1>2
  <2>3. c \in DOMAIN t.blocks /\ P(v, c)
    <3> HIDE DEF P
    <3> QED
      BY <2>1, <2>2
  <2>4. PICK j \in 1..Len(held) : /\ j * BlockSize <= Len(tokens[r]) /\ v = held[j]
                                  /\ t.ids[c] = Prefix(r, j) /\ t.ids[c] \in Stored
    BY <2>3 DEF LoadsFull
  <2>5. got(v) = store[Prefix(r, j)][a]
    <3> HIDE DEF src, P
    <3> QED
      BY <2>1, <2>2, <2>4
  <2>6. store[Prefix(r, j)][a] = Of(Prefix(r, j))
    BY <2>4 DEF Stored, StoredIsRight, Of
  <2>7. Of(Prefix(r, j)) = [y \in 1..BlockSize |-> Of(Prefix(r, j))[y]]
    BY DEF Of, BlockKV
  <2> HIDE DEF got
  <2> QED
    BY <2>4, <2>5, <2>6, <2>7
<1>3. ASSUME NEW v \in DeviceBlocks, \A i \in DOMAIN t.blocks : t.blocks[i] # v
      PROVE  got(v) = hbm[a][v] /\ got(v) = [y \in 1..BlockSize |-> got(v)[y]]
  <2>1. got(v) = hbm[a][v]
    BY <1>3
  <2>2. hbm[a][v] = [y \in 1..BlockSize |-> hbm[a][v][y]]
    BY DEF DeviceIsRight, Memory
  <2> HIDE DEF got
  <2> QED
    BY <2>1, <2>2
<1> HIDE DEF got
<1>4. ASSUME NEW v \in DeviceBlocks PROVE m[a][v] = got(v) /\ got(v) = [y \in 1..BlockSize |-> got(v)[y]]
  <2>1. got(v) = [y \in 1..BlockSize |-> got(v)[y]]
    <3>1. CASE \E x \in DOMAIN t.blocks : t.blocks[x] = v
      BY <1>2, <3>1
    <3>2. CASE ~\E x \in DOMAIN t.blocks : t.blocks[x] = v
      BY <1>3, <3>2
    <3> QED
      BY <3>1, <3>2
  <2> QED
    BY <1>1, <2>1
<1>5. Memory(m[a])
  <2>1. ASSUME NEW v \in DeviceBlocks PROVE m[a][v] = [y \in 1..BlockSize |-> m[a][v][y]]
    BY <1>4
  <2> QED
    BY <1>1, <2>1 DEF Memory
<1>6. ASSUME NEW i \in DOMAIN t.blocks
      PROVE \E j \in 1..Len(held) : /\ j * BlockSize <= Len(tokens[r]) /\ t.blocks[i] = held[j]
                                    /\ m[a][held[j]] = Of(Prefix(r, j))
  <2>1. PICK v : v = t.blocks[i]
    OBVIOUS
  <2>2. v \in DeviceBlocks
    <3>1. PICK j \in 1..Len(held) : v = held[j]
      BY <2>1 DEF LoadsFull
    <3> QED
      BY <3>1
  <2> QED
    BY <1>2, <1>4, <2>1, <2>2
<1>7. \A v \in DeviceBlocks : (\A i \in DOMAIN t.blocks : t.blocks[i] # v) => m[a][v] = hbm[a][v]
  BY <1>3, <1>4
<1> QED
  BY <1>5, <1>6, <1>7 DEF HasLoaded

\* A request's list of tokens grows only at its end.
LEMMA Grows ==
    ASSUME tokens \in [Requests -> Seq(Nat)], NEW r \in Requests, NEW done, NEW held, Update(r, done, held, {})
    PROVE  /\ computed' = [computed EXCEPT ![r] = done]
           /\ \A q \in Requests \ {r} : tokens'[q] = tokens[q]
           /\ \A p \in 1..Len(tokens[r]) : SubSeq(tokens'[r], 1, p) = SubSeq(tokens[r], 1, p)
           /\ Len(tokens[r]) <= Len(tokens'[r])
<1>1. computed' = [computed EXCEPT ![r] = done] /\ (tokens' = tokens \/ tokens' = [tokens EXCEPT ![r] = Append(@, Reply[r])])
  BY DEF Update
<1>2. PICK t \in Seq(Nat) : t = tokens[r]
  OBVIOUS
<1>3. Reply[r] \in Nat /\ Len(t) \in Nat
  BY ConnectorAssumption
<1>4. PICK u : u = tokens'[r]
  OBVIOUS
<1>5. u = t \/ u = Append(t, Reply[r])
  BY <1>1, <1>2, <1>4
<1>6. u \in Seq(Nat) /\ Len(t) <= Len(u) /\ \A x \in 1..Len(t) : u[x] = t[x]
  <2>1. CASE u = t
    BY <1>3, <2>1
  <2>2. CASE u = Append(t, Reply[r])
    <3>1. PICK y \in Nat : y = Reply[r]
      BY <1>3
    <3>2. Append(t, y) \in Seq(Nat) /\ Len(Append(t, y)) = Len(t) + 1 /\ \A x \in 1..Len(t) : Append(t, y)[x] = t[x]
      OBVIOUS
    <3> QED
      BY <1>3, <2>2, <3>1, <3>2
  <2> QED
    BY <1>5, <2>1, <2>2
<1>7. ASSUME NEW p \in 1..Len(t) PROVE SubSeq(u, 1, p) = SubSeq(t, 1, p)
  <2>1. SubSeq(u, 1, p) = [x \in 1..p |-> u[x]] /\ SubSeq(t, 1, p) = [x \in 1..p |-> t[x]]
    BY <1>3, <1>6
  <2>2. \A x \in 1..p : u[x] = t[x]
    BY <1>3, <1>6
  <2> QED
    BY <2>1, <2>2
<1> QED
  BY <1>1, <1>2, <1>4, <1>6, <1>7

\* What a step of the direct connector comes to.
Taken(r, held, from, n, fresh, d) ==
    /\ meta' = d.meta /\ finished' = {} /\ Ran(r, held, from, n, fresh, Fetched(d.load))
    /\ Len(tokens[r]) <= Len(tokens'[r])
    /\ Direct' /\ StoredIsRight' /\ Stored \subseteq Stored' /\ DeviceIsRight'
    /\ HoldsItsOwn(r)' /\ \A q \in Requests \ {r} : HoldsItsOwn(q) => HoldsItsOwn(q)'

\* A whole step of the direct connector: what it loads, computes and saves is right.
LEMMA StepTaken ==
    ASSUME Counted, Pool, Direct, StoredIsRight, DeviceIsRight, load' = load,
           NEW r \in Requests, NEW metas, NEW held, NEW new, NEW from \in Nat, NEW n \in Nat \ {0}, NEW needLoad,
           NEW fresh, NEW d, d = build_connector_meta(r, metas, n, new, needLoad), Fits(d.load),
           from + n <= Len(tokens[r]), from + n <= Len(held) * BlockSize,
           Prepared(r, held, from, fresh), LoadsAreIn(r, held, from, fresh, Fetched(d.load)),
           Fits(d.dump) => DumpsFull(r, held, from + n, d.dump),
           cached' = CacheFull(r, held, (from + n) \div BlockSize, fresh),
           Execute(r, metas, held, new, from, n, needLoad)
    PROVE  Taken(r, held, from, n, fresh, d)
<1>1. /\ meta' = d.meta /\ finished' = {} /\ blocks' = [blocks EXCEPT ![r] = held]
      /\ LoadComputeSave(r, d, held, from, n)
  BY DEF Execute, Direct
<1> DEFINE E(ok) ==
        LET loaded  == start_load_kv(d.load, ok)
            context == \A a \in Areas : Context(r, held, from, loaded[a])
            after   == [a \in Areas |-> Forward(r, held, from, n, loaded[a], context)]
        IN /\ hbm' = after
           /\ wait_for_save(d.dump, after)
           /\ Update(r, from + n, held, IF ok THEN {} ELSE ToSet(d.load.blocks))
           /\ UNCHANGED <<step, loading, dumping>>
<1>2. E(TRUE)
  <2>1. \E ok \in {Fits(d.load)} \cup (IF "load" \in load.faults /\ d.load.ids # <<>> THEN {FALSE} ELSE {}) : E(ok)
    BY <1>1, Zenon DEF LoadComputeSave
  <2>2. Fits(d.load) = TRUE
    OBVIOUS
  <2>3. "load" \notin load.faults
    BY DEF Direct
  <2> HIDE DEF E
  <2>4. PICK ok \in {TRUE} : E(ok)
    BY <2>1, <2>2, <2>3
  <2> QED
    BY <2>4
<1>3. PICK l : l = Fetched(d.load)
  OBVIOUS
<1>4. LoadsAreIn(r, held, from, fresh, l)
  BY <1>3
<1>5. PICK after : after = [a \in Areas |-> Grown(r, held, from, n, l[a])]
  OBVIOUS
<1>6. /\ hbm' = after /\ wait_for_save(d.dump, after) /\ Update(r, from + n, held, {})
      /\ step' = step /\ loading' = loading /\ dumping' = dumping
  <2>1. (\A a \in Areas : Context(r, held, from, start_load_kv(d.load, TRUE)[a])) = TRUE
    BY <1>3, <1>4 DEF LoadsAreIn, Fetched
  <2>2. after = [a \in Areas |-> Forward(r, held, from, n, start_load_kv(d.load, TRUE)[a],
                                         \A x \in Areas : Context(r, held, from, start_load_kv(d.load, TRUE)[x]))]
    BY <1>3, <1>5, <2>1 DEF Fetched, Grown
  <2> QED
    BY <1>2, <2>2
<1>7. tokens \in [Requests -> Seq(Nat)] /\ computed \in [Requests -> Nat] /\ blocks \in [Requests -> Seq(DeviceBlocks)]
      /\ \A q \in Requests : computed[q] <= Len(tokens[q])
  BY DEF Counted, Pool
<1>8. /\ computed' = [computed EXCEPT ![r] = from + n]
      /\ \A q \in Requests \ {r} : tokens'[q] = tokens[q]
      /\ \A p \in 1..Len(tokens[r]) : SubSeq(tokens'[r], 1, p) = SubSeq(tokens[r], 1, p)
      /\ Len(tokens[r]) <= Len(tokens'[r])
  BY <1>6, <1>7, Grows
<1>9. Ran(r, held, from, n, fresh, l)
  BY <1>1, <1>5, <1>6, <1>8 DEF Ran
<1>10. Areas' = Areas
  BY DEF Areas
<1>11. Direct'
  BY <1>6 DEF Direct
<1>12. /\ DeviceIsRight'
       /\ \A a \in Areas : \A i \in 1..Len(held) : i * BlockSize <= from + n => hbm'[a][held[i]] = Of(Prefix(r, i))
  BY <1>4, <1>7, <1>9, RanMemory
<1>13. HoldsItsOwn(r)' /\ \A q \in Requests \ {r} : HoldsItsOwn(q) => HoldsItsOwn(q)'
  BY <1>4, <1>7, <1>9, RanHolds
<1>14. StoredIsRight' /\ Stored \subseteq Stored'
  <2>1. CASE store' = store
    <3>1. StoredIsRight'
      BY <2>1 DEF StoredIsRight
    <3>2. Stored' = Stored
      BY <1>10, <2>1 DEF Stored
    <3> QED
      BY <3>1, <3>2
  <2>2. CASE Fits(d.dump) /\ store' \in Written(d.dump, after, Areas)
    <3>1. PICK k : k = from + n
      OBVIOUS
    <3>2. AreFull(r, held, k, after)
      BY <1>6, <1>12, <3>1 DEF AreFull
    <3>3. DumpsFull(r, held, k, d.dump)
      BY <2>2, <3>1
    <3>4. PICK s : s = store'
      OBVIOUS
    <3>5. s \in Written(d.dump, after, Areas)
      BY <2>2, <3>4
    <3>6. /\ \A id \in DOMAIN s : \A a \in DOMAIN s[id] : s[id][a] = Of(id)
          /\ \A id \in Stored : id \in DOMAIN s /\ DOMAIN s[id] = Areas
      BY <3>2, <3>3, <3>5, SavedRight
    <3>7. StoredIsRight'
      BY <3>4, <3>6 DEF StoredIsRight, Of
    <3>8. Stored \subseteq Stored'
      BY <1>10, <3>4, <3>6 DEF Stored
    <3> QED
      BY <3>7, <3>8
  <2> QED
    BY <1>6, <2>1, <2>2 DEF wait_for_save
<1> QED
  BY <1>1, <1>3, <1>8, <1>9, <1>11, <1>12, <1>13, <1>14 DEF Taken

----------------------------------------------------------------------------
(* What the scheduler side says to the worker.                             *)

\* A slice s[a:b] is the part of the list up to the nearer of b and its end, or nothing.
LEMMA SliceIs ==
    ASSUME NEW T, NEW s \in Seq(T), NEW a \in Nat, NEW b \in Nat, NEW u, u = Slice(s, a, b)
    PROVE  /\ u \in Seq(T) /\ DOMAIN u = 1..Len(u)
           /\ \E m \in Nat : /\ m <= b /\ m <= Len(s) /\ (b <= Len(s) => m = b)
                             /\ IF a <= m THEN Len(u) = m - a /\ \A i \in 1..(m - a) : u[i] = s[a + i] ELSE Len(u) = 0
<1>1. PICK m \in Nat : m = Least(b, Len(s)) /\ m <= b /\ m <= Len(s) /\ Len(s) \in Nat /\ (b <= Len(s) => m = b)
  <2>1. Len(s) \in Nat
    OBVIOUS
  <2> QED
    BY <2>1 DEF Least
<1>2. u = SubSeq(s, a + 1, m)
  BY <1>1 DEF Slice
<1>3. CASE a <= m
  <2>1. u \in Seq(T) /\ Len(u) = m - a /\ \A i \in 1..(m - a) : u[i] = s[a + i]
    BY <1>1, <1>2, <1>3, Cut
  <2>2. DOMAIN u = 1..Len(u)
    BY <2>1
  <2>3. IF a <= m THEN Len(u) = m - a /\ \A i \in 1..(m - a) : u[i] = s[a + i] ELSE Len(u) = 0
    BY <1>3, <2>1
  <2> QED
    BY <1>1, <2>1, <2>2, <2>3, Zenon
<1>4. CASE a > m
  <2>1. u = <<>>
    BY <1>1, <1>2, <1>4
  <2>2. <<>> \in Seq(T) /\ DOMAIN <<>> = 1..Len(<<>>) /\ Len(<<>>) = 0
    OBVIOUS
  <2> QED
    BY <1>1, <1>4, <2>1, <2>2
<1> QED
  BY <1>1, <1>3, <1>4

\* The members of a slice s[a:b].
LEMMA SliceMember ==
    ASSUME NEW T, NEW s \in Seq(T), NEW a \in Nat, NEW b \in Nat, NEW u, u = Slice(s, a, b), NEW i \in DOMAIN u
    PROVE  i \in Nat \ {0} /\ a + i \in 1..Len(s) /\ a + i <= b /\ u[i] = s[a + i]
<1>1. /\ u \in Seq(T) /\ DOMAIN u = 1..Len(u)
      /\ \E m \in Nat : /\ m <= b /\ m <= Len(s) /\ (b <= Len(s) => m = b)
                        /\ IF a <= m THEN Len(u) = m - a /\ \A x \in 1..(m - a) : u[x] = s[a + x] ELSE Len(u) = 0
  BY SliceIs
<1>2. PICK m \in Nat : /\ m <= b /\ m <= Len(s)
                       /\ IF a <= m THEN Len(u) = m - a /\ \A x \in 1..(m - a) : u[x] = s[a + x] ELSE Len(u) = 0
  BY <1>1
<1>3. a <= m /\ i \in 1..(m - a)
  BY <1>1, <1>2
<1>4. u[i] = s[a + i]
  BY <1>2, <1>3
<1>5. i \in Nat \ {0} /\ a + i >= 1 /\ a + i <= m /\ a + i \in Nat /\ Len(s) \in Nat
  BY <1>3
<1> QED
  BY <1>2, <1>4, <1>5

\* How many members a slice s[a:b] has when the list has so many.
LEMMA SliceLen ==
    ASSUME NEW T, NEW s \in Seq(T), NEW a \in Nat, NEW b \in Nat, a <= b, b <= Len(s)
    PROVE  Len(Slice(s, a, b)) = b - a
<1>1. PICK u : u = Slice(s, a, b)
  OBVIOUS
<1>2. \E m \in Nat : /\ m <= b /\ m <= Len(s) /\ (b <= Len(s) => m = b)
                     /\ IF a <= m THEN Len(u) = m - a /\ \A x \in 1..(m - a) : u[x] = s[a + x] ELSE Len(u) = 0
  BY <1>1, SliceIs
<1> QED
  BY <1>1, <1>2

\* A note of r agrees with the blocks and the tokens of its step.
Follows(r, metas, held, new, from) ==
    r \in DOMAIN metas =>
      /\ metas[r].vllm_block_ids \o new = held /\ Noticed(r, metas[r])
      /\ metas[r].token_processed < metas[r].num_token_ids => metas[r].token_processed <= from

\* The dump of a step is of blocks that are full when it ends, each under its own id, and the note
\* of the request goes on to say so.
LEMMA DispatchRight ==
    ASSUME NEW metas, Notes(metas), NEW r \in Requests, NEW n \in Nat \ {0}, NEW new \in Seq(DeviceBlocks),
           NEW held \in Seq(DeviceBlocks), NEW from \in Nat, NEW needLoad \in BOOLEAN,
           NEW d, d = build_connector_meta(r, metas, n, new, needLoad),
           Follows(r, metas, held, new, from)
    PROVE  /\ Fits(d.dump) => DumpsFull(r, held, from + n, d.dump)
           /\ DOMAIN d.meta = DOMAIN metas \ finished
           /\ \A q \in DOMAIN d.meta \ {r} : d.meta[q] = metas[q]
           /\ r \in DOMAIN d.meta =>
                /\ d.meta[r].ucm_block_ids = metas[r].ucm_block_ids /\ d.meta[r].vllm_block_ids = held
                /\ d.meta[r].token_processed < d.meta[r].num_token_ids => d.meta[r].token_processed <= from + n
<1>1. CASE r \notin DOMAIN metas
  <2>1. d.dump = NoBlocks /\ d.meta = [q \in DOMAIN metas \ finished |-> IF q = r THEN NoBlocks ELSE metas[q]]
    BY <1>1 DEF build_connector_meta
  <2>2. DOMAIN d.dump.blocks = {}
    BY <2>1 DEF NoBlocks
  <2>3. DumpsFull(r, held, from + n, d.dump)
    BY <2>2 DEF DumpsFull
  <2> QED
    BY <1>1, <2>1, <2>3
<1>2. CASE r \in DOMAIN metas
  <2>1. PICK m : m = metas[r]
    OBVIOUS
  <2>2. /\ m \in Note /\ m.num_token_ids \in Nat /\ m.token_processed \in Nat
        /\ m.ucm_block_ids \in Seq(Seq(Nat)) /\ m.vllm_block_ids \in Seq(DeviceBlocks)
        /\ m.vllm_block_ids \o new = held /\ Noticed(r, m)
        /\ (m.token_processed < m.num_token_ids => m.token_processed <= from)
    BY <1>2, <2>1 DEF Notes, Note, Follows
  <2>3. PICK g : g = _generate_dispatch_meta(m, n, new, needLoad)
    OBVIOUS
  <2>4. /\ d.dump = g.dump
        /\ d.meta = [q \in DOMAIN metas \ finished |-> IF q = r THEN g.meta ELSE metas[q]]
    BY <1>2, <2>1, <2>3 DEF build_connector_meta, _generate_dispatch_meta
  <2>5. PICK first \in Nat : first = m.token_processed \div BlockSize
    BY <2>2, Divided, Sizes
  <2>6. PICK end \in Nat : end = (m.token_processed + n) \div BlockSize /\ BlockSize * end <= m.token_processed + n
    <3>1. m.token_processed + n \in Nat
      BY <2>2
    <3> QED
      BY <3>1, Divided, Sizes
  <2>7. /\ g.meta = [m EXCEPT !.vllm_block_ids = held,
                              !.token_processed = IF m.token_processed < m.num_token_ids THEN @ + n ELSE @]
        /\ g.dump = IF m.token_processed < m.num_token_ids
                    THEN [ids |-> Slice(m.ucm_block_ids, first, end), blocks |-> Slice(held, first, end)] ELSE NoBlocks
    BY <2>2, <2>3, <2>5, <2>6 DEF _generate_dispatch_meta
  <2>8. Fits(d.dump) => DumpsFull(r, held, from + n, d.dump)
    <3>1. CASE m.token_processed < m.num_token_ids
      <4>1. PICK ids : ids = Slice(m.ucm_block_ids, first, end)
        OBVIOUS
      <4>2. PICK bs : bs = Slice(held, first, end)
        OBVIOUS
      <4>3. ids \in Seq(Seq(Nat)) /\ \A i \in DOMAIN ids : first + i \in 1..Len(m.ucm_block_ids) /\ ids[i] = m.ucm_block_ids[first + i]
        <5>1. PICK s \in Seq(Seq(Nat)) : s = m.ucm_block_ids
          BY <2>2
        <5>2. ids = Slice(s, first, end)
          BY <4>1, <5>1
        <5>3. ids \in Seq(Seq(Nat))
          BY <5>2, SliceIn
        <5>4. ASSUME NEW i \in DOMAIN ids PROVE first + i \in 1..Len(s) /\ ids[i] = s[first + i]
          BY <5>2, SliceMember
        <5> QED
          BY <5>1, <5>3, <5>4
      <4>4. bs \in Seq(DeviceBlocks)
            /\ \A i \in DOMAIN bs : i \in Nat \ {0} /\ first + i \in 1..Len(held) /\ first + i <= end /\ bs[i] = held[first + i]
        <5>1. bs \in Seq(DeviceBlocks)
          BY <4>2, SliceIn
        <5>2. ASSUME NEW i \in DOMAIN bs
              PROVE  i \in Nat \ {0} /\ first + i \in 1..Len(held) /\ first + i <= end /\ bs[i] = held[first + i]
          BY <4>2, SliceMember
        <5> QED
          BY <5>1, <5>2
      <4>5. d.dump.ids = ids /\ d.dump.blocks = bs
        BY <2>4, <2>7, <3>1, <4>1, <4>2
      <4>6. ASSUME Len(ids) = Len(bs), NEW i \in DOMAIN bs
            PROVE  \E j \in 1..Len(held) : j * BlockSize <= from + n /\ bs[i] = held[j] /\ ids[i] = Prefix(r, j)
        <5>1. PICK j \in 1..Len(held) : j = first + i /\ j <= end /\ j \in Nat
          BY <4>4
        <5>2. i \in DOMAIN ids
          BY <4>3, <4>4, <4>6
        <5>3. ids[i] = Prefix(r, j)
          BY <2>2, <4>3, <5>1, <5>2 DEF Noticed
        <5>4. j * BlockSize <= from + n
          <6>1. j * BlockSize <= end * BlockSize /\ end * BlockSize = BlockSize * end /\ j * BlockSize \in Nat /\ end * BlockSize \in Nat
            BY <5>1, Times, Sizes
          <6>2. m.token_processed + n <= from + n
            BY <2>2, <3>1
          <6>3. m.token_processed + n \in Nat /\ from + n \in Nat
            BY <2>2
          <6> QED
            BY <2>6, <6>1, <6>2, <6>3
        <5>5. bs[i] = held[j]
          BY <4>4, <5>1
        <5> QED
          BY <5>3, <5>4, <5>5
      <4> QED
        BY <4>5, <4>6 DEF Fits, DumpsFull
    <3>2. CASE ~(m.token_processed < m.num_token_ids)
      <4>1. DOMAIN d.dump.blocks = {}
        BY <2>4, <2>7, <3>2 DEF NoBlocks
      <4> QED
        BY <4>1 DEF DumpsFull
    <3> QED
      BY <3>1, <3>2
  <2>9. /\ g.meta.ucm_block_ids = m.ucm_block_ids /\ g.meta.vllm_block_ids = held
        /\ g.meta.token_processed < g.meta.num_token_ids => g.meta.token_processed <= from + n
    <3>1. /\ g.meta.ucm_block_ids = m.ucm_block_ids /\ g.meta.vllm_block_ids = held
          /\ g.meta.num_token_ids = m.num_token_ids
          /\ g.meta.token_processed = IF m.token_processed < m.num_token_ids THEN m.token_processed + n ELSE m.token_processed
      BY <2>2, <2>7 DEF Note
    <3> QED
      BY <2>2, <3>1
  <2> QED
    BY <2>1, <2>4, <2>8, <2>9
<1> QED
  BY <1>1, <1>2

----------------------------------------------------------------------------
(* A request is admitted.                                                  *)

\* The engine's hits on the device are cached under the ids of the request's first blocks.
LEMMA HitsRight ==
    ASSUME tokens \in [Requests -> Seq(Nat)], NEW r \in Requests, NEW hits, hits = HbmHits(r)
    PROVE  /\ Len(hits) \in Nat /\ Len(hits) * BlockSize <= Len(tokens[r])
           /\ \A i \in 1..Len(hits) : cached[hits[i]] = Prefix(r, i)
<1>1. PICK t \in Seq(Nat) : t = tokens[r]
  OBVIOUS
<1>2. PICK all \in Seq(Seq(Nat)) : all = generate_hash(t)
  BY GenHash
<1>3. PICK k \in Nat : /\ k = Len(all) /\ BlockSize * k <= Len(t) /\ Len(t) \in Nat
                       /\ \A i \in 1..k : all[i] = SubSeq(t, 1, i * BlockSize)
  <2>1. Len(all) = Len(t) \div BlockSize /\ Len(t) \div BlockSize \in Nat /\ BlockSize * (Len(t) \div BlockSize) <= Len(t)
        /\ \A i \in 1..(Len(t) \div BlockSize) : all[i] = SubSeq(t, 1, i * BlockSize)
    BY <1>2, GenHash
  <2>2. Len(t) \in Nat
    OBVIOUS
  <2> QED
    BY <2>1, <2>2
<1> DEFINE b == (Len(t) - 1) \div BlockSize
           ids == Slice(all, 0, b)
<1>4. b \in Int
  <2>1. Len(t) - 1 \in Int
    OBVIOUS
  <2> QED
    BY <2>1, Sizes
<1>5. Len(ids) \in Nat /\ Len(ids) <= k /\ \A i \in 1..Len(ids) : ids[i] = all[i]
  <2>1. PICK m \in Int : m <= Len(all) /\ ids = SubSeq(all, 1, m)
    <3>1. Least(b, Len(all)) \in Int /\ Least(b, Len(all)) <= Len(all)
      BY <1>3, <1>4 DEF Least
    <3>2. ids = SubSeq(all, 1, Least(b, Len(all)))
      BY DEF Slice
    <3> QED
      BY <3>1, <3>2
  <2> HIDE DEF ids
  <2> QED
    BY <1>3, <2>1
<1> HIDE DEF ids, b
<1> DEFINE S == {cached[v] : v \in 1..HbmBlocks}
           n == LeadingHits(ids, S)
           hit(i) == CHOOSE v \in 1..HbmBlocks : cached[v] = ids[i]
<1>6. hits = [i \in 1..n |-> hit(i)]
  BY <1>1, <1>2 DEF HbmHits, ids, b
<1>7. n \in 0..Len(ids) /\ \A i \in 1..n : ids[i] \in S
  <2> HIDE DEF S
  <2> QED
    BY <1>5, LeadingHitsOf
<1> HIDE DEF n
<1>8. ASSUME NEW i \in 1..n PROVE cached[hit(i)] = ids[i]
  <2>1. \E v \in 1..HbmBlocks : cached[v] = ids[i]
    <3>1. ids[i] \in S
      BY <1>7
    <3> QED
      BY <3>1
  <2> QED
    BY <2>1
<1> HIDE DEF hit
<1>9. Len(hits) = n /\ n \in Nat /\ n <= k
  BY <1>3, <1>5, <1>6, <1>7
<1>10. ASSUME NEW i \in 1..n PROVE cached[hits[i]] = Prefix(r, i)
  <2>1. i \in 1..Len(ids) /\ i \in 1..k
    BY <1>5, <1>7, <1>9
  <2>2. cached[hits[i]] = all[i]
    BY <1>5, <1>6, <1>8, <2>1
  <2> QED
    BY <1>1, <1>3, <2>1, <2>2 DEF Prefix
<1>11. n * BlockSize <= Len(t)
  <2>1. n * BlockSize <= k * BlockSize /\ k * BlockSize = BlockSize * k /\ n * BlockSize \in Nat /\ k * BlockSize \in Nat
    BY <1>9, Times, Sizes
  <2> QED
    BY <1>3, <2>1
<1> QED
  BY <1>1, <1>9, <1>10, <1>11

\* What the connector notes of a request when blocks beyond the hits remain: those of its tokens
\* that the store has.  Otherwise its note stays.
Found(r, h, told, m) ==
    /\ Noticed(r, m) /\ Expected(m) /\ m.vllm_block_ids = <<>>
    /\ m.hbm_hit = h /\ m.total_hit \in Nat /\ h <= m.total_hit /\ m.total_hit * BlockSize <= Len(tokens[r])
    /\ told \in Nat /\ h * BlockSize + told <= m.total_hit * BlockSize
    /\ m.total_hit * BlockSize <= h * BlockSize + told + 1
    /\ m.token_processed < m.num_token_ids => m.token_processed <= h * BlockSize + told

\* get_num_new_matched_tokens leaves the notes when the device has all full blocks, else notes what it found.
LEMMA MatchIs ==
    ASSUME tokens \in [Requests -> Seq(Nat)], load.kind = "direct", NEW r \in Requests,
           NEW h \in Nat, h * BlockSize <= Len(tokens[r]), NEW ok \in BOOLEAN, NEW m, m = Match(r, h, ok)
    PROVE  \/ m.tokens = 0 /\ m.metas = meta /\ Len(tokens[r]) < h * BlockSize + BlockSize
           \/ \E note : m.metas = Noted(r, note) /\ Found(r, h, m.tokens, note)
<1>1. PICK t \in Seq(Nat) : t = tokens[r]
  OBVIOUS
<1>2. PICK ids \in Seq(Seq(Nat)) : ids = generate_hash(t)
  BY GenHash
<1>3. PICK k \in Nat : /\ k = Len(ids) /\ BlockSize * k <= Len(t) /\ Len(t) \in Nat /\ Len(t) < BlockSize * k + BlockSize
                       /\ \A i \in 1..k : ids[i] = SubSeq(t, 1, i * BlockSize)
  <2>1. Len(ids) = Len(t) \div BlockSize /\ Len(t) \div BlockSize \in Nat
        /\ \A i \in 1..(Len(t) \div BlockSize) : ids[i] = SubSeq(t, 1, i * BlockSize)
    BY <1>2, GenHash
  <2>2. Len(t) \in Nat
    OBVIOUS
  <2>3. BlockSize * (Len(t) \div BlockSize) <= Len(t) /\ Len(t) < BlockSize * (Len(t) \div BlockSize) + BlockSize
    BY <2>2, Divided, Sizes
  <2> QED
    BY <2>1, <2>2, <2>3
<1>4. PICK x \in Nat : x = h * BlockSize /\ x <= Len(t)
  BY <1>1, Times, Sizes
<1>5. PICK y \in Nat : y = k * BlockSize /\ y <= Len(t) /\ Len(t) < y + BlockSize
  <2>1. k * BlockSize \in Nat /\ k * BlockSize = BlockSize * k
    BY Times, Sizes
  <2> QED
    BY <1>3, <2>1
<1>6. h <= k
  <2>1. k < h => k * BlockSize + BlockSize <= h * BlockSize
    BY Times, Sizes
  <2>2. k < h => y + BlockSize <= x
    BY <1>4, <1>5, <2>1
  <2> QED
    BY <1>3, <1>4, <1>5, <2>2, Sizes
<1>7. PICK ext : ext = Slice(ids, h, Len(ids))
  OBVIOUS
<1>8. Len(ext) = k - h /\ \A i \in 1..(k - h) : ext[i] = ids[h + i]
  <2>1. ext = SubSeq(ids, h + 1, k)
    BY <1>3, <1>7 DEF Slice, Least
  <2> QED
    BY <1>3, <1>6, <2>1, Cut
<1>9. PICK hit \in Nat : /\ hit = IF ok THEN LeadingHits(ext, Stored) ELSE 0
                         /\ h + hit <= k /\ \A i \in 1..hit : ext[i] \in Stored
  <2>1. Len(ext) \in Nat
    BY <1>6, <1>8
  <2>2. LeadingHits(ext, Stored) \in 0..Len(ext) /\ \A i \in 1..LeadingHits(ext, Stored) : ext[i] \in Stored
    BY <2>1, LeadingHitsOf
  <2>3. CASE ok
    BY <1>6, <1>8, <2>2, <2>3
  <2>4. CASE ~ok
    BY <1>6, <2>4
  <2> QED
    BY <2>3, <2>4
<1>10. PICK K \in Nat : K = h + hit /\ h <= K /\ K <= k
  BY <1>9
<1>11. PICK T \in Nat, z \in Nat : /\ T = K * BlockSize /\ z = hit * BlockSize /\ x + z = T /\ T <= y
  <2>1. K * BlockSize \in Nat /\ hit * BlockSize \in Nat /\ K * BlockSize <= k * BlockSize
    BY <1>10, Times, Sizes
  <2>2. (h + hit) * BlockSize = h * BlockSize + hit * BlockSize
    BY Sizes
  <2> QED
    BY <1>4, <1>5, <1>10, <2>1, <2>2
<1> DEFINE told == z - (IF T = Len(t) THEN 1 ELSE 0)
           note == [ucm_block_ids |-> ids, hbm_hit |-> h, total_hit |-> K,
                    num_token_ids |-> Len(t), vllm_block_ids |-> <<>>, token_processed |-> T]
<1>12. m = IF ext = <<>> THEN [tokens |-> 0, metas |-> meta] ELSE [tokens |-> told, metas |-> Noted(r, note)]
  <2>1. m = get_num_new_matched_tokens(r, h, ok)
    BY DEF Match
  <2> QED
    BY <1>1, <1>2, <1>7, <1>9, <1>10, <1>11, <2>1 DEF get_num_new_matched_tokens
<1>13. CASE ext = <<>>
  <2>1. k = h
    BY <1>6, <1>8, <1>13
  <2>2. x = y
    BY <1>4, <1>5, <2>1
  <2>3. Len(t) < x + BlockSize
    BY <1>3, <1>5, <2>2
  <2> QED
    BY <1>1, <1>4, <1>12, <1>13, <2>3
<1>14. CASE ext # <<>>
  <2>1. told \in Nat /\ x + told <= T /\ T <= x + told + 1 /\ (T < Len(t) => T <= x + told)
    <3>1. CASE T = Len(t)
      <4>1. z >= 1
        <5>1. hit # 0
          <6>1. CASE hit = 0
            <7>1. K = h /\ T = x /\ K = k
              <8>1. K = h
                BY <1>10, <6>1
              <8>2. h < k => h * BlockSize + BlockSize <= k * BlockSize
                BY Times, Sizes
              <8>3. T = x
                BY <1>4, <1>11, <8>1
              <8>4. ~(h < k)
                BY <1>3, <1>4, <1>5, <3>1, <8>2, <8>3, Sizes
              <8> QED
                BY <1>6, <8>1, <8>3, <8>4
            <7>2. Len(ext) = 0
              BY <1>8, <7>1
            <7>3. ext = <<>>
              <8>1. ext \in Seq(Seq(Nat))
                BY <1>3, <1>7, SliceIn
              <8> QED
                BY <7>2, <8>1
            <7> QED
              BY <1>14, <7>3
          <6> QED
            BY <6>1
        <5>2. hit * BlockSize >= BlockSize
          BY <5>1, Times, Sizes
        <5>3. z \in Nat /\ z >= BlockSize
          BY <1>11, <5>2
        <5> QED
          BY <5>3, Sizes
      <4> QED
        BY <1>11, <3>1, <4>1
    <3>2. CASE T # Len(t)
      BY <1>11, <3>2
    <3> QED
      BY <3>1, <3>2
  <2> HIDE DEF told
  <2>2. Noticed(r, note)
    <3>1. Len(note.ucm_block_ids) = k /\ note.ucm_block_ids = ids /\ k * BlockSize <= Len(t)
      BY <1>3, <1>5
    <3>2. \A i \in 1..k : ids[i] = Prefix(r, i)
      BY <1>1, <1>3 DEF Prefix
    <3> HIDE DEF note
    <3> QED
      BY <1>1, <3>1, <3>2 DEF Noticed
  <2>3. Expected(note)
    <3>1. ASSUME NEW i \in (h + 1)..K PROVE ids[i] \in Stored
      <4>1. PICK j \in 1..hit : i = h + j
        <5>1. i - h \in 1..hit /\ i = h + (i - h)
          BY <1>10
        <5> QED
          BY <5>1
      <4>2. j \in 1..(k - h)
        BY <1>10, <4>1
      <4> QED
        BY <1>8, <1>9, <4>1, <4>2
    <3> QED
      BY <1>11, <3>1 DEF Expected
  <2>4. /\ note.vllm_block_ids = <<>> /\ note.hbm_hit = h /\ note.total_hit = K
        /\ note.token_processed = T /\ note.num_token_ids = Len(t)
    OBVIOUS
  <2> HIDE DEF note
  <2>5. T <= Len(t)
    BY <1>3, <1>5, <1>11
  <2>6. Found(r, h, told, note)
    BY <1>1, <1>4, <1>10, <1>11, <2>1, <2>2, <2>3, <2>4, <2>5 DEF Found
  <2>7. m.tokens = told /\ m.metas = Noted(r, note)
    BY <1>12, <1>14
  <2> QED
    BY <2>6, <2>7
<1> QED
  BY <1>13, <1>14

\* The loads of a step: of blocks that the store has, each under its own id, and of all from the
\* first h blocks, which the device has, to the K-th.
Brings(r, held, h, K, t) ==
    /\ \A i \in DOMAIN t.blocks : \E j \in 1..K :
         t.blocks[i] = held[j] /\ t.ids[i] = Prefix(r, j) /\ t.ids[i] \in Stored
    /\ \A j \in (h + 1)..K : \E i \in DOMAIN t.blocks : t.blocks[i] = held[j]

\* After the loads of an admitted request the KV of its first tokens is on the device.
LEMMA AdmitLoads ==
    ASSUME StoredIsRight, DeviceIsRight, tokens \in [Requests -> Seq(Nat)], Pool, NEW r \in Requests, blocks[r] = <<>>,
           NEW hits \in Seq(DeviceBlocks), \A i \in 1..Len(hits) : cached[hits[i]] = Prefix(r, i),
           NEW fresh \in Seq(DeviceBlocks), ToSet(fresh) \subseteq ToSet(free),
           NEW held, held = hits \o fresh, IsInjective(held), NEW from \in Nat, NEW K \in Nat, Len(hits) <= K,
           K <= Len(held), K * BlockSize <= Len(tokens[r]), Len(hits) * BlockSize <= from, from <= K * BlockSize,
           NEW t, Brings(r, held, Len(hits), K, t)
    PROVE  Prepared(r, held, from, ToSet(fresh)) /\ LoadsAreIn(r, held, from, ToSet(fresh), Fetched(t))
<1>1. PICK h \in Nat : h = Len(hits)
  OBVIOUS
<1>2. /\ held \in Seq(DeviceBlocks) /\ Len(held) = h + Len(fresh) /\ Len(held) \in Nat
      /\ \A i \in 1..h : held[i] = hits[i]
      /\ \A i \in 1..Len(fresh) : held[h + i] = fresh[i]
      /\ ToSet(fresh) = {fresh[i] : i \in 1..Len(fresh)}
      /\ \A i \in 1..Len(held) : held[i] \in DeviceBlocks
  <2>1. held \in Seq(DeviceBlocks)
    BY Joined
  <2> QED
    BY <1>1, <2>1, Joined, SetOf
<1>3. PICK s \in Seq(Nat) : s = tokens[r] /\ Len(s) \in Nat
  OBVIOUS
<1>4. ASSUME NEW i \in 1..Len(held), held[i] \notin ToSet(fresh) PROVE i \in 1..h
  <2>1. CASE i > h
    <3>1. i - h \in 1..Len(fresh) /\ h + (i - h) = i
      BY <1>2, <2>1
    <3> QED
      BY <1>2, <1>4, <3>1
  <2> QED
    BY <2>1
<1>5. ASSUME NEW i \in 1..K
      PROVE  i \in Nat \ {0} /\ i * BlockSize \in Nat /\ i * BlockSize <= Len(s) /\ (i <= h => i * BlockSize <= from)
             /\ i \in 1..Len(held)
  <2>1. i \in Nat \ {0} /\ i \in 1..Len(held)
    BY <1>2
  <2>2. i * BlockSize \in Nat /\ i * BlockSize <= K * BlockSize /\ (i <= h => i * BlockSize <= h * BlockSize)
    BY <2>1, Times, Sizes
  <2>3. K * BlockSize \in Nat /\ h * BlockSize \in Nat
    BY Times, Sizes
  <2>4. PICK x \in Nat, y \in Nat, z \in Nat : x = i * BlockSize /\ y = K * BlockSize /\ z = h * BlockSize
    BY <2>2, <2>3
  <2>5. x <= Len(s) /\ (i <= h => x <= from)
    BY <1>1, <1>3, <2>2, <2>4
  <2> QED
    BY <2>1, <2>4, <2>5
<1>6. Prepared(r, held, from, ToSet(fresh))
  <2>1. ASSUME NEW q \in Requests PROVE ToSet(blocks[q]) \cap ToSet(fresh) = {}
    BY DEF Pool
  <2>2. ASSUME NEW i \in 1..Len(held), held[i] \notin ToSet(fresh) PROVE i * BlockSize <= from /\ cached[held[i]] = Prefix(r, i)
    <3>1. i \in 1..h /\ i \in 1..K
      <4>1. i \in 1..h
        BY <1>4, <2>2
      <4> QED
        BY <1>1, <4>1
    <3> QED
      BY <1>1, <1>2, <1>5, <3>1
  <2> QED
    BY <1>2, <2>1, <2>2 DEF Prepared
<1>7. ASSUME NEW i \in 1..h, NEW a \in Areas
      PROVE  hbm[a][held[i]] = Of(Prefix(r, i)) /\ i \in 1..K
  <2>1. i \in 1..K /\ cached[held[i]] = Prefix(r, i) /\ held[i] \in DeviceBlocks
    BY <1>1, <1>2, <1>5
  <2>2. Prefix(r, i) # Junk
    <3>1. i \in Nat \ {0} /\ i * BlockSize <= Len(s)
      BY <1>5, <2>1
    <3> QED
      BY <1>3, <3>1, KVOfPrefix DEF Prefix
  <2> QED
    BY <2>1, <2>2 DEF DeviceIsRight
<1>8. PICK m : m = Fetched(t)
  OBVIOUS
<1>9. ASSUME NEW a \in Areas
      PROVE  /\ Memory(m[a])
             /\ \A v \in DeviceBlocks : (\A i \in DOMAIN t.blocks : t.blocks[i] # v) => m[a][v] = hbm[a][v]
             /\ \A i \in DOMAIN t.blocks : \E j \in 1..Len(held) :
                  /\ j * BlockSize <= Len(tokens[r]) /\ t.blocks[i] = held[j] /\ m[a][held[j]] = Of(Prefix(r, j))
  <2>1. LoadsFull(r, held, t)
    BY <1>3, <1>5 DEF Brings, LoadsFull
  <2>2. tokens[r] \in Seq(Nat) /\ held \in Seq(DeviceBlocks)
    BY <1>2
  <2>3. \A x \in Areas : HasLoaded(r, held, t, x, m[x])
    BY <1>8, <2>1, <2>2, LoadedRight
  <2>4. HasLoaded(r, held, t, a, m[a])
    BY <2>3
  <2> QED
    BY <2>4 DEF HasLoaded
<1>10. ASSUME NEW a \in Areas, NEW j \in 1..K PROVE m[a][held[j]] = Of(Prefix(r, j))
  <2>1. j \in 1..Len(held) /\ held[j] \in DeviceBlocks
    BY <1>2, <1>5
  <2>2. CASE \E i \in DOMAIN t.blocks : t.blocks[i] = held[j]
    <3>1. PICK i \in DOMAIN t.blocks : t.blocks[i] = held[j]
      BY <2>2
    <3>2. PICK k \in 1..Len(held) : t.blocks[i] = held[k] /\ m[a][held[k]] = Of(Prefix(r, k))
      BY <1>9
    <3>3. k = j
      <4>1. k \in DOMAIN held /\ j \in DOMAIN held
        BY <1>2, <2>1
      <4> QED
        BY <3>1, <3>2, <4>1 DEF IsInjective
    <3> QED
      BY <3>2, <3>3
  <2>3. CASE ~\E i \in DOMAIN t.blocks : t.blocks[i] = held[j]
    <3>1. m[a][held[j]] = hbm[a][held[j]]
      BY <1>9, <2>1, <2>3
    <3>2. j \in 1..h
      <4>1. CASE j > h
        <5>1. j \in (h + 1)..K
          BY <4>1
        <5> QED
          BY <1>1, <2>3, <5>1 DEF Brings
      <4> QED
        BY <4>1
    <3> QED
      BY <1>7, <3>1, <3>2
  <2> QED
    BY <2>2, <2>3
<1>11. ASSUME NEW a \in Areas, NEW p \in 1..from PROVE KV(m[a], held, p) = SubSeq(tokens[r], 1, p)
  <2>1. p \in Nat \ {0} /\ p <= K * BlockSize
    <3>1. K * BlockSize \in Nat
      BY Times, Sizes
    <3> QED
      BY <3>1
  <2>2. PICK j \in 1..K, w \in 1..BlockSize : j = BlockOf(p) /\ w = PlaceOf(p) /\ p = (j - 1) * BlockSize + w
    BY <2>1, BlockWithin
  <2>3. Of(Prefix(r, j)) = BlockKV(s, j)
    <3>1. j \in Nat \ {0} /\ j * BlockSize <= Len(s)
      BY <1>5
    <3> QED
      BY <1>3, <3>1, KVOfPrefix DEF Prefix
  <2>4. BlockKV(s, j)[w] = SubSeq(s, 1, (j - 1) * BlockSize + w)
    BY DEF BlockKV
  <2>5. KV(m[a], held, p) = m[a][held[j]][w]
    BY <2>2 DEF KV
  <2>6. m[a][held[j]] = BlockKV(s, j)
    BY <1>10, <2>3
  <2> QED
    BY <1>3, <2>2, <2>4, <2>5, <2>6
<1>12. ASSUME NEW a \in Areas, NEW v \in DeviceBlocks \ ToSet(fresh) PROVE m[a][v] = hbm[a][v]
  <2>1. CASE \E i \in DOMAIN t.blocks : t.blocks[i] = v
    <3>1. PICK i \in DOMAIN t.blocks : t.blocks[i] = v
      BY <2>1
    <3>2. PICK j \in 1..K : v = held[j]
      BY <3>1 DEF Brings
    <3>3. j \in 1..h
      BY <1>4, <1>5, <3>2
    <3> QED
      BY <1>7, <1>10, <3>2, <3>3
  <2>2. CASE ~\E i \in DOMAIN t.blocks : t.blocks[i] = v
    BY <1>9, <2>2
  <2> QED
    BY <2>1, <2>2
<1>13. LoadsAreIn(r, held, from, ToSet(fresh), m)
  BY <1>9, <1>11, <1>12 DEF LoadsAreIn, Context
<1> QED
  BY <1>6, <1>8, <1>13

\* What the note of an admitted request makes the step load.
Awaits(r, m, h, K, from) ==
    /\ Noticed(r, m) /\ Expected(m) /\ m.vllm_block_ids = <<>>
    /\ m.total_hit <= K /\ (h < K => m.hbm_hit = h /\ m.total_hit = K)
    /\ m.token_processed < m.num_token_ids => m.token_processed <= from

\* The load of an admitted request is of the blocks the store has for it, each under its own id.
LEMMA AdmitDispatch ==
    ASSUME NEW metas, Notes(metas), NEW r \in Requests, NEW n, NEW held \in Seq(DeviceBlocks),
           NEW h \in Nat, NEW K \in Nat, h <= K, K <= Len(held), NEW from,
           IF r \in DOMAIN metas THEN Awaits(r, metas[r], h, K, from) ELSE K = h,
           NEW needLoad, needLoad, NEW d, d = build_connector_meta(r, metas, n, held, needLoad)
    PROVE  Fits(d.load) /\ Brings(r, held, h, K, d.load)
<1>1. CASE r \notin DOMAIN metas
  <2>1. d.load = NoBlocks
    BY <1>1 DEF build_connector_meta
  <2>2. DOMAIN d.load.blocks = {} /\ Len(d.load.ids) = Len(d.load.blocks)
    <3>1. d.load.ids = <<>> /\ d.load.blocks = <<>>
      BY <2>1, EmptyTask
    <3>2. DOMAIN <<>> = {}
      OBVIOUS
    <3> QED
      BY <3>1, <3>2
  <2>3. (h + 1)..K = {}
    BY <1>1
  <2> QED
    BY <2>2, <2>3 DEF Fits, Brings
<1>2. CASE r \in DOMAIN metas
  <2>1. PICK m : m = metas[r]
    OBVIOUS
  <2>2. /\ m \in Note /\ m.hbm_hit \in Nat /\ m.total_hit \in Nat /\ m.ucm_block_ids \in Seq(Seq(Nat))
        /\ m.hbm_hit <= m.total_hit /\ m.total_hit <= Len(m.ucm_block_ids)
    BY <1>2, <2>1 DEF Notes, Note
  <2>3. Awaits(r, m, h, K, from)
    BY <1>2, <2>1
  <2>4. PICK all \in Seq(Seq(Nat)), a \in Nat, b \in Nat :
           /\ all = m.ucm_block_ids /\ a = m.hbm_hit /\ b = m.total_hit
           /\ a <= b /\ b <= Len(all) /\ b <= K /\ b <= Len(held) /\ (h < K => a = h /\ b = K)
    <3>1. Len(held) \in Nat
      OBVIOUS
    <3> QED
      BY <2>2, <2>3, <3>1 DEF Awaits
  <2>5. PICK ids : ids = Slice(all, a, b)
    OBVIOUS
  <2>6. PICK bs : bs = Slice(held, a, b)
    OBVIOUS
  <2>7. d.load.ids = ids /\ d.load.blocks = bs
    BY <1>2, <2>1, <2>4, <2>5, <2>6 DEF build_connector_meta, _generate_dispatch_meta
  <2>8. ids \in Seq(Seq(Nat)) /\ bs \in Seq(DeviceBlocks) /\ Len(ids) = b - a /\ Len(bs) = b - a
    <3>1. ids \in Seq(Seq(Nat))
      BY <2>5, SliceIn
    <3>2. bs \in Seq(DeviceBlocks)
      BY <2>6, SliceIn
    <3>3. Len(ids) = b - a
      BY <2>4, <2>5, SliceLen
    <3>4. Len(bs) = b - a
      BY <2>4, <2>6, SliceLen
    <3> QED
      BY <3>1, <3>2, <3>3, <3>4
  <2>9. ASSUME NEW i \in 1..(b - a) PROVE a + i \in (a + 1)..b /\ ids[i] = all[a + i] /\ bs[i] = held[a + i]
    <3>1. i \in DOMAIN ids /\ i \in DOMAIN bs
      BY <2>8
    <3>2. ids[i] = all[a + i]
      BY <2>5, <3>1, SliceMember
    <3>3. bs[i] = held[a + i]
      BY <2>6, <3>1, SliceMember
    <3>4. a + i \in (a + 1)..b
      BY <2>4
    <3> QED
      BY <3>2, <3>3, <3>4
  <2>10. ASSUME NEW i \in DOMAIN bs
         PROVE  \E j \in 1..K : bs[i] = held[j] /\ ids[i] = Prefix(r, j) /\ ids[i] \in Stored
    <3>1. i \in 1..(b - a)
      BY <2>8
    <3>2. PICK j \in (a + 1)..b : j = a + i /\ ids[i] = all[j] /\ bs[i] = held[j]
      BY <2>9, <3>1
    <3>3. j \in 1..K /\ j \in 1..Len(all)
      BY <2>4
    <3>4. all[j] = Prefix(r, j)
      BY <2>3, <2>4, <3>3 DEF Awaits, Noticed
    <3>5. all[j] \in Stored
      BY <2>3, <2>4 DEF Awaits, Expected
    <3> QED
      BY <3>2, <3>3, <3>4, <3>5
  <2>11. ASSUME NEW j \in (h + 1)..K PROVE \E i \in DOMAIN bs : bs[i] = held[j]
    <3>1. a = h /\ b = K
      BY <2>4
    <3>2. j - a \in 1..(b - a) /\ a + (j - a) = j
      BY <3>1
    <3>3. bs[j - a] = held[j]
      BY <2>9, <3>2
    <3>4. j - a \in DOMAIN bs
      BY <2>8, <3>2
    <3> QED
      BY <3>3, <3>4
  <2> QED
    BY <2>7, <2>8, <2>10, <2>11 DEF Fits, Brings
<1> QED
  BY <1>1, <1>2

----------------------------------------------------------------------------
(* Every step keeps the KV right.                                          *)

\* A step of r, its loads being in, keeps the invariant, the queues aside.
LEMMA StepRight ==
    ASSUME Counted, Counted', Pool, Right, status \in [Requests -> {"new", "waiting", "running", "finished"}], load' = load,
           NEW r \in Requests, NEW metas, Notes(metas), \A q \in DOMAIN metas \ {r} : q \in DOMAIN meta /\ metas[q] = meta[q],
           NEW held, NEW new \in Seq(DeviceBlocks), NEW from \in Nat, NEW n \in Nat \ {0}, NEW needLoad \in BOOLEAN,
           NEW fresh, NEW d, d = build_connector_meta(r, metas, n, new, needLoad), Fits(d.load),
           from + n <= Len(tokens[r]), from + n <= Len(held) * BlockSize,
           Prepared(r, held, from, fresh), LoadsAreIn(r, held, from, fresh, Fetched(d.load)),
           Follows(r, metas, held, new, from),
           cached' = CacheFull(r, held, (from + n) \div BlockSize, fresh),
           Execute(r, metas, held, new, from, n, needLoad), status' = [status EXCEPT ![r] = "running"]
    PROVE  /\ Direct' /\ StoredIsRight' /\ DeviceIsRight' /\ NotesAreRight' /\ finished' = {}
           /\ \A q \in Requests : IF status'[q] = "running" THEN HoldsItsOwn(q)' ELSE blocks'[q] = <<>>
<1>1. held \in Seq(DeviceBlocks)
  BY DEF Prepared
<1>2. /\ Fits(d.dump) => DumpsFull(r, held, from + n, d.dump)
      /\ DOMAIN d.meta = DOMAIN metas \ finished
      /\ \A q \in DOMAIN d.meta \ {r} : d.meta[q] = metas[q]
      /\ r \in DOMAIN d.meta =>
           /\ d.meta[r].ucm_block_ids = metas[r].ucm_block_ids /\ d.meta[r].vllm_block_ids = held
           /\ d.meta[r].token_processed < d.meta[r].num_token_ids => d.meta[r].token_processed <= from + n
  BY <1>1, DispatchRight
<1>3. Direct /\ StoredIsRight /\ DeviceIsRight
  BY DEF Right
<1>4. Fits(d.dump) => DumpsFull(r, held, from + n, d.dump)
  BY <1>2
<1>5. /\ meta' = d.meta /\ finished' = {} /\ Ran(r, held, from, n, fresh, Fetched(d.load))
      /\ Len(tokens[r]) <= Len(tokens'[r])
      /\ Direct' /\ StoredIsRight' /\ Stored \subseteq Stored' /\ DeviceIsRight'
      /\ HoldsItsOwn(r)' /\ \A q \in Requests \ {r} : HoldsItsOwn(q) => HoldsItsOwn(q)'
  <2>1. Taken(r, held, from, n, fresh, d)
    BY <1>3, <1>4, StepTaken
  <2> QED
    BY <2>1 DEF Taken
<1>6. /\ blocks \in [Requests -> Seq(DeviceBlocks)] /\ computed \in [Requests -> Nat] /\ tokens \in [Requests -> Seq(Nat)]
  BY DEF Counted, Pool
<1>7. /\ blocks' = [blocks EXCEPT ![r] = held] /\ computed'[r] = from + n
      /\ \A q \in Requests \ {r} : tokens'[q] = tokens[q] /\ computed'[q] = computed[q] /\ blocks'[q] = blocks[q]
      /\ \A p \in 1..Len(tokens[r]) : SubSeq(tokens'[r], 1, p) = SubSeq(tokens[r], 1, p)
  BY <1>5, <1>6 DEF Ran
<1>8. ASSUME NEW q \in Requests PROVE IF status'[q] = "running" THEN HoldsItsOwn(q)' ELSE blocks'[q] = <<>>
  <2>1. CASE q = r
    BY <1>5, <2>1
  <2>2. CASE q # r
    <3>1. status'[q] = status[q] /\ blocks'[q] = blocks[q]
      BY <1>7, <2>2
    <3>2. IF status[q] = "running" THEN HoldsItsOwn(q) ELSE blocks[q] = <<>>
      BY DEF Right
    <3> QED
      BY <1>5, <2>2, <3>1, <3>2
  <2> QED
    BY <2>1, <2>2
<1>9. ASSUME NEW q \in DOMAIN meta'
      PROVE /\ status'[q] # "new"
            /\ status'[q] \in {"waiting", "running"} => Noticed(q, meta[q])'
            /\ status'[q] = "waiting" /\ meta'[q].vllm_block_ids = <<>> => Expected(meta[q])'
            /\ status'[q] = "running" /\ meta'[q].token_processed < meta'[q].num_token_ids => meta'[q].token_processed <= computed'[q]
  <2>1. q \in DOMAIN metas /\ q \in Requests
    BY <1>2, <1>5 DEF Notes
  <2>2. CASE q = r
    <3>1. status'[q] = "running" /\ status'[q] # "waiting" /\ status'[q] # "new"
      BY <2>2
    <3>2. Noticed(r, metas[r]) /\ meta'[r].ucm_block_ids = metas[r].ucm_block_ids /\ metas[r].ucm_block_ids \in Seq(Seq(Nat))
      BY <1>2, <1>5, <1>9, <2>1, <2>2 DEF Follows, Notes, Note
    <3>3. Noticed(r, meta[r])'
      <4>1. PICK ids \in Seq(Seq(Nat)) : ids = metas[r].ucm_block_ids /\ Len(ids) \in Nat
        BY <3>2
      <4>2. Len(tokens[r]) \in Nat /\ Len(tokens'[r]) \in Nat
        BY DEF Counted
      <4>3. Len(ids) * BlockSize \in Nat /\ Len(ids) * BlockSize <= Len(tokens[r])
        BY <3>2, <4>1, Times, Sizes DEF Noticed
      <4>4. ASSUME NEW i \in 1..Len(ids) PROVE ids[i] = Prefix(r, i)'
        <5>1. i \in Nat \ {0} /\ i * BlockSize <= Len(ids) * BlockSize /\ i * BlockSize \in Nat /\ i * BlockSize >= BlockSize
          <6>1. i \in Nat \ {0} /\ i <= Len(ids)
            BY <4>1
          <6> QED
            BY <4>1, <6>1, Times, Sizes
        <5>2. PICK x \in Nat : x = i * BlockSize /\ x # 0 /\ x <= Len(tokens[r])
          <6>1. PICK x \in Nat, y \in Nat : x = i * BlockSize /\ y = Len(ids) * BlockSize
            BY <4>3, <5>1
          <6> QED
            BY <4>2, <4>3, <5>1, <6>1, Sizes
        <5>3. SubSeq(tokens'[r], 1, x) = SubSeq(tokens[r], 1, x)
          <6>1. x \in 1..Len(tokens[r])
            BY <4>2, <5>2
          <6> QED
            BY <1>7, <6>1
        <5>4. ids[i] = Prefix(r, i)
          BY <3>2, <4>1 DEF Noticed
        <5> QED
          BY <5>2, <5>3, <5>4 DEF Prefix
      <4>5. Len(ids) * BlockSize <= Len(tokens'[r])
        <5>1. PICK y \in Nat : y = Len(ids) * BlockSize /\ y <= Len(tokens[r])
          BY <4>3
        <5> QED
          BY <1>5, <4>2, <5>1
      <4> QED
        BY <3>2, <4>1, <4>4, <4>5 DEF Noticed
    <3> QED
      BY <1>2, <1>5, <1>7, <1>9, <2>2, <3>1, <3>3
  <2>3. CASE q # r
    <3>1. /\ q \in DOMAIN meta /\ meta'[q] = meta[q] /\ status'[q] = status[q]
          /\ tokens'[q] = tokens[q] /\ computed'[q] = computed[q]
      BY <1>2, <1>5, <1>7, <1>9, <2>1, <2>3
    <3>2. /\ status[q] # "new"
          /\ status[q] \in {"waiting", "running"} => Noticed(q, meta[q])
          /\ status[q] = "waiting" /\ meta[q].vllm_block_ids = <<>> => Expected(meta[q])
          /\ status[q] = "running" /\ meta[q].token_processed < meta[q].num_token_ids => meta[q].token_processed <= computed[q]
      BY <3>1 DEF Right, NotesAreRight
    <3>3. Noticed(q, meta[q]) => Noticed(q, meta[q])'
      BY <3>1 DEF Noticed, Prefix
    <3>4. Expected(meta[q]) => Expected(meta[q])'
      BY <1>5, <3>1 DEF Expected
    <3> QED
      BY <3>1, <3>2, <3>3, <3>4
  <2> QED
    BY <2>2, <2>3
<1>10. NotesAreRight'
  BY <1>9 DEF NotesAreRight
<1> QED
  BY <1>5, <1>8, <1>10

\* A queue of one.
LEMMA Single ==
    ASSUME NEW T, NEW x \in T
    PROVE  <<x>> \in Seq(T) /\ IsInjective(<<x>>) /\ ToSet(<<x>>) = {x}
<1>1. <<x>> \in Seq(T) /\ DOMAIN <<x>> = {1} /\ <<x>>[1] = x
  OBVIOUS
<1> QED
  BY <1>1 DEF IsInjective, ToSet

\* A request that joins a queue, behind the others.
LEMMA QueuedLast ==
    ASSUME NEW T, NEW s \in Seq(T), IsInjective(s), NEW x \in T, x \notin ToSet(s)
    PROVE  Append(s, x) \in Seq(T) /\ IsInjective(Append(s, x)) /\ ToSet(Append(s, x)) = ToSet(s) \cup {x}
<1>1. PICK one \in Seq(T) : one = <<x>> /\ IsInjective(one) /\ ToSet(one) = {x}
  BY Single
<1>2. Append(s, x) = s \o one
  BY <1>1
<1>3. ToSet(s) \cap ToSet(one) = {}
  BY <1>1
<1>4. IsInjective(s \o one)
  BY <1>1, <1>3, JoinedApart
<1>5. s \o one \in Seq(T) /\ ToSet(s \o one) = ToSet(s) \cup ToSet(one)
  BY Joined
<1>6. ToSet(s) \cup ToSet(one) = ToSet(s) \cup {x}
  BY <1>1
<1> QED
  BY <1>2, <1>4, <1>5, <1>6

\* A request that joins a queue before the others, as a preempted one does.
LEMMA QueuedFirst ==
    ASSUME NEW T, NEW s \in Seq(T), IsInjective(s), NEW x \in T, x \notin ToSet(s)
    PROVE  (<<x>> \o s) \in Seq(T) /\ IsInjective((<<x>> \o s)) /\ ToSet((<<x>> \o s)) = ToSet(s) \cup {x}
<1>1. PICK one \in Seq(T) : one = <<x>> /\ IsInjective(one) /\ ToSet(one) = {x}
  BY Single
<1>2. (<<x>> \o s) = one \o s
  BY <1>1
<1>3. ToSet(one) \cap ToSet(s) = {}
  BY <1>1
<1>4. IsInjective(one \o s)
  BY <1>1, <1>3, JoinedApart
<1>5. one \o s \in Seq(T) /\ ToSet(one \o s) = ToSet(one) \cup ToSet(s)
  BY Joined
<1>6. ToSet(one) \cup ToSet(s) = ToSet(s) \cup {x}
  BY <1>1
<1> QED
  BY <1>2, <1>4, <1>5, <1>6

\* The first of a queue leaves it.
LEMMA Dequeued ==
    ASSUME NEW T, NEW s \in Seq(T), IsInjective(s), s # <<>>
    PROVE  /\ Head(s) \in ToSet(s)
           /\ Tail(s) \in Seq(T) /\ IsInjective(Tail(s)) /\ ToSet(Tail(s)) \subseteq ToSet(s) /\ Head(s) \notin ToSet(Tail(s))
<1>1. Len(s) \in Nat /\ 1 <= Len(s) /\ DOMAIN s = 1..Len(s)
  OBVIOUS
<1>2. PICK h \in Seq(T), t \in Seq(T) :
         /\ h = SubSeq(s, 1, 1) /\ t = SubSeq(s, 2, Len(s)) /\ Len(h) = 1
         /\ IsInjective(t) /\ ToSet(t) \subseteq ToSet(s) /\ ToSet(h) \cap ToSet(t) = {}
  <2>1. PICK k \in Nat : k = 1 /\ k <= Len(s) /\ k + 1 = 2
    BY <1>1
  <2>2. /\ SubSeq(s, 1, k) \in Seq(T) /\ Len(SubSeq(s, 1, k)) = k
        /\ SubSeq(s, k + 1, Len(s)) \in Seq(T) /\ IsInjective(SubSeq(s, k + 1, Len(s)))
        /\ ToSet(SubSeq(s, k + 1, Len(s))) \subseteq ToSet(s)
        /\ ToSet(SubSeq(s, 1, k)) \cap ToSet(SubSeq(s, k + 1, Len(s))) = {}
    BY <2>1, Parts
  <2> QED
    BY <2>1, <2>2
<1>3. h[1] = s[1] /\ Head(s) = s[1] /\ Tail(s) = t
  BY <1>1, <1>2
<1>4. Head(s) \in ToSet(s)
  BY <1>1, <1>3, SetOf
<1>5. Head(s) \in ToSet(h)
  <2>1. 1 \in 1..Len(h)
    BY <1>2
  <2>2. h[1] \in ToSet(h)
    BY <2>1, SetOf
  <2> QED
    BY <1>3, <2>2
<1> QED
  BY <1>2, <1>3, <1>4, <1>5

\* The last of a list leaves it.
LEMMA Dropped ==
    ASSUME NEW T, NEW s \in Seq(T), IsInjective(s), s # <<>>
    PROVE  /\ Last(s) \in ToSet(s)
           /\ Front(s) \in Seq(T) /\ IsInjective(Front(s)) /\ ToSet(Front(s)) \subseteq ToSet(s) /\ Last(s) \notin ToSet(Front(s))
<1>1. Len(s) \in Nat /\ 1 <= Len(s) /\ DOMAIN s = 1..Len(s)
  OBVIOUS
<1>2. PICK k \in Nat : k = Len(s) - 1 /\ k <= Len(s) /\ k + 1 = Len(s)
  <2>1. PICK n \in Nat : n = Len(s) /\ 1 <= n
    BY <1>1
  <2>2. n - 1 \in Nat /\ n - 1 <= n /\ (n - 1) + 1 = n
    BY <2>1
  <2> QED
    BY <2>1, <2>2
<1>3. PICK f \in Seq(T), l \in Seq(T) :
         /\ f = SubSeq(s, 1, k) /\ l = SubSeq(s, k + 1, Len(s))
         /\ IsInjective(f) /\ ToSet(f) \subseteq ToSet(s) /\ ToSet(f) \cap ToSet(l) = {}
  <2>1. /\ SubSeq(s, 1, k) \in Seq(T) /\ IsInjective(SubSeq(s, 1, k))
        /\ SubSeq(s, k + 1, Len(s)) \in Seq(T)
        /\ ToSet(SubSeq(s, 1, k)) \subseteq ToSet(s)
        /\ ToSet(SubSeq(s, 1, k)) \cap ToSet(SubSeq(s, k + 1, Len(s))) = {}
    BY <1>2, Parts
  <2> QED
    BY <2>1
<1>4. Front(s) = f
  BY <1>2, <1>3 DEF Front
<1>5. Last(s) = s[Len(s)] /\ Len(l) = 1 /\ l[1] = s[Len(s)]
  BY <1>1, <1>2, <1>3 DEF Last
<1>6. Last(s) \in ToSet(s)
  BY <1>1, <1>5, SetOf
<1>7. Last(s) \in ToSet(l)
  <2>1. 1 \in 1..Len(l)
    BY <1>5
  <2>2. l[1] \in ToSet(l)
    BY <2>1, SetOf
  <2> QED
    BY <1>5, <2>2
<1> QED
  BY <1>3, <1>4, <1>6, <1>7

\* The K blocks that an admitted request has on the device when its loads are in, and its note.
Ahead(r, metas, h, K, from) ==
    /\ h <= K /\ K * BlockSize <= Len(tokens[r]) /\ h * BlockSize <= from
    /\ from <= K * BlockSize /\ K * BlockSize <= from + 1
    /\ IF r \in DOMAIN metas THEN Awaits(r, metas[r], h, K, from) ELSE K = h

\* A match says how many blocks an admitted request will have.
LEMMA AheadIs ==
    ASSUME tokens \in [Requests -> Seq(Nat)], Notes(meta), NEW r \in Requests, NEW h \in Nat,
           h * BlockSize <= Len(tokens[r]), NEW m, m.tokens \in Nat, NEW from, from = h * BlockSize + m.tokens,
           \/ /\ m.tokens = 0 /\ m.metas = meta /\ Len(tokens[r]) < h * BlockSize + BlockSize
              /\ r \in DOMAIN meta => Noticed(r, meta[r]) /\ Expected(meta[r]) /\ meta[r].vllm_block_ids = <<>>
           \/ \E note : m.metas = Noted(r, note) /\ Found(r, h, m.tokens, note)
    PROVE  \E K \in Nat : Ahead(r, m.metas, h, K, from)
<1>1. PICK x \in Nat : x = h * BlockSize
  BY Times, Sizes
<1>2. tokens[r] \in Seq(Nat) /\ Len(tokens[r]) \in Nat
  OBVIOUS
<1>3. CASE /\ m.tokens = 0 /\ m.metas = meta /\ Len(tokens[r]) < h * BlockSize + BlockSize
           /\ r \in DOMAIN meta => Noticed(r, meta[r]) /\ Expected(meta[r]) /\ meta[r].vllm_block_ids = <<>>
  <2>1. from = x /\ Len(tokens[r]) < x + BlockSize /\ x <= Len(tokens[r])
    BY <1>1, <1>3
  <2>2. ASSUME r \in DOMAIN meta PROVE Awaits(r, meta[r], h, h, from)
    <3>1. PICK k \in Nat, b \in Nat, tp \in Nat : k = Len(meta[r].ucm_block_ids) /\ b = meta[r].total_hit /\ b <= k /\ tp = meta[r].token_processed
      BY <2>2 DEF Notes, Note
    <3>2. k * BlockSize <= Len(tokens[r]) /\ tp = b * BlockSize
      BY <1>3, <2>2, <3>1 DEF Noticed, Expected
    <3>3. PICK y \in Nat, z \in Nat : y = k * BlockSize /\ z = b * BlockSize
      BY Times, Sizes
    <3>4. h < k => x + BlockSize <= y
      <4>1. h < k => h * BlockSize + BlockSize <= k * BlockSize
        BY Times, Sizes
      <4> QED
        BY <1>1, <3>3, <4>1
    <3>5. y <= Len(tokens[r])
      BY <3>2, <3>3
    <3>6. b <= h
      BY <1>2, <2>1, <3>1, <3>4, <3>5, Sizes
    <3>7. z <= x
      <4>1. b * BlockSize <= h * BlockSize
        BY <3>6, Times, Sizes
      <4> QED
        BY <1>1, <3>3, <4>1
    <3>8. tp <= from
      BY <2>1, <3>2, <3>3, <3>7
    <3> QED
      BY <1>3, <2>2, <3>1, <3>6, <3>8 DEF Awaits
  <2>3. Ahead(r, meta, h, h, from)
    BY <1>1, <2>1, <2>2 DEF Ahead
  <2> QED
    BY <1>3, <2>3
<1>4. CASE \E note : m.metas = Noted(r, note) /\ Found(r, h, m.tokens, note)
  <2>1. PICK note : m.metas = Noted(r, note) /\ Found(r, h, m.tokens, note)
    BY <1>4
  <2>2. r \in DOMAIN m.metas /\ m.metas[r] = note
    BY <2>1 DEF Noted
  <2>3. PICK K \in Nat : K = note.total_hit
    BY <2>1 DEF Found
  <2>4. Awaits(r, note, h, K, from)
    BY <2>1, <2>3 DEF Awaits, Found
  <2>5. h * BlockSize <= from
    BY <1>1
  <2>6. Ahead(r, m.metas, h, K, from)
    BY <2>1, <2>2, <2>3, <2>4, <2>5 DEF Ahead, Found
  <2> QED
    BY <2>6
<1> QED
  BY <1>3, <1>4

\* Nothing before a list that it does not change.
LEMMA NothingBefore == ASSUME NEW T, NEW s \in Seq(T), NEW u \in Seq(T), s \o u = u PROVE s = <<>>
<1>1. Len(s \o u) = Len(s) + Len(u) /\ Len(s) \in Nat /\ Len(u) \in Nat
  OBVIOUS
<1>2. Len(s) = 0
  BY <1>1
<1> QED
  BY <1>2

\* A request is admitted, or only looked up.
LEMMA AdmitRight ==
    ASSUME Inv, Inv', Right, NotesAgree', NEW r \in Requests, NEW n \in 1..Budget, Admit(r, n)
    PROVE  Right'
<1>1. Shapes /\ Counted /\ Pool /\ Counted' /\ Notes(meta)
  BY DEF Inv, Shapes
<1>2. PICK hits : hits = HbmHits(r) /\ hits \in Seq(DeviceBlocks) /\ IsInjective(hits)
  BY <1>1, HbmHitsOf DEF Counted
<1>3. PICK ok \in BOOLEAN :
       LET match == Match(r, Len(hits), ok)
           from  == Len(hits) * BlockSize + match.tokens
           need  == Missing(hits, from, n)
           spare == Without(free, ToSet(hits))
           fresh == SubSeq(spare, 1, need)
           held  == hits \o fresh
       IN /\ from + n <= Len(tokens[r])
          /\ \/ /\ need <= Len(spare)
                /\ status' = [status EXCEPT ![r] = "running"]
                /\ waiting' = Tail(waiting)
                /\ running' = Append(running, r)
                /\ cached' = CacheFull(r, held, (from + n) \div BlockSize, ToSet(fresh))
                /\ Execute(r, match.metas, held, held, from, n, TRUE)
                /\ UNCHANGED load
             \/ /\ meta' = match.metas
                /\ UNCHANGED <<load, workerVars, engineVars>>
  <2>1. ({TRUE} \cup (IF "lookup" \in load.faults THEN {FALSE} ELSE {})) \subseteq BOOLEAN
    OBVIOUS
  <2> QED
    BY <1>2, <2>1 DEF Admit
<1>4. waiting \in Seq(Requests) /\ waiting # <<>> /\ r = Head(waiting)
  BY <1>1 DEF Admit, Shapes
<1>5. /\ tokens \in [Requests -> Seq(Nat)] /\ tokens[r] \in Seq(Nat) /\ blocks \in [Requests -> Seq(DeviceBlocks)]
      /\ Len(tokens[r]) \in Nat /\ free \in Seq(DeviceBlocks) /\ IsInjective(free)
      /\ status \in [Requests -> {"new", "waiting", "running", "finished"}]
  BY <1>1 DEF Counted, Pool, Shapes
<1>6. Direct /\ StoredIsRight /\ DeviceIsRight /\ NotesAreRight /\ Queues
  BY DEF Right
<1>7. status[r] = "waiting" /\ blocks[r] = <<>> /\ r \notin finished
  <2>1. r \in ToSet(waiting)
    BY <1>4, <1>6, Dequeued DEF Queues
  <2>2. status[r] = "waiting"
    BY <1>6, <2>1 DEF Queues
  <2> QED
    BY <1>6, <2>2 DEF Right, Queues
<1>8. PICK h \in Nat : /\ h = Len(hits) /\ h * BlockSize \in Nat /\ h * BlockSize <= Len(tokens[r])
                       /\ \A i \in 1..h : cached[hits[i]] = Prefix(r, i)
  <2>1. Len(hits) \in Nat /\ Len(hits) * BlockSize <= Len(tokens[r])
        /\ \A i \in 1..Len(hits) : cached[hits[i]] = Prefix(r, i)
    BY <1>2, <1>5, HitsRight
  <2>2. Len(hits) * BlockSize \in Nat
    BY <2>1, Times, Sizes
  <2> QED
    BY <2>1, <2>2
<1>9. PICK match : match = Match(r, h, ok) /\ match.tokens \in Nat /\ Notes(match.metas)
  BY <1>1, <1>5, MatchOf DEF Shapes
<1>10. \/ match.tokens = 0 /\ match.metas = meta /\ Len(tokens[r]) < h * BlockSize + BlockSize
       \/ \E note : match.metas = Noted(r, note) /\ Found(r, h, match.tokens, note)
  <2>1. load.kind = "direct"
    BY <1>6 DEF Direct
  <2> QED
    BY <1>5, <1>8, <1>9, <2>1, MatchIs
<1>11. PICK from \in Nat : from = h * BlockSize + match.tokens
  BY <1>8, <1>9
<1>12. PICK need : need = Missing(hits, from, n)
  OBVIOUS
<1>13. PICK spare : spare = Without(free, ToSet(hits))
  OBVIOUS
<1>14. /\ from + n <= Len(tokens[r])
       /\ \/ /\ need <= Len(spare)
             /\ status' = [status EXCEPT ![r] = "running"]
             /\ waiting' = Tail(waiting)
             /\ running' = Append(running, r)
             /\ cached' = CacheFull(r, hits \o SubSeq(spare, 1, need), (from + n) \div BlockSize, ToSet(SubSeq(spare, 1, need)))
             /\ Execute(r, match.metas, hits \o SubSeq(spare, 1, need), hits \o SubSeq(spare, 1, need), from, n, TRUE)
             /\ UNCHANGED load
          \/ /\ meta' = match.metas
             /\ UNCHANGED <<load, workerVars, engineVars>>
  BY <1>3, <1>8, <1>9, <1>11, <1>12, <1>13, Zenon
<1>15. CASE meta' = match.metas /\ UNCHANGED <<load, workerVars, engineVars>>
  <2> USE DEF workerVars, engineVars
  <2>1. Direct' /\ StoredIsRight' /\ Queues'
    BY <1>6, <1>15 DEF Direct, StoredIsRight, Queues
  <2>2. Areas' = Areas /\ Stored' = Stored
    BY <1>15 DEF Areas, Stored
  <2>3. DeviceIsRight'
    BY <1>6, <1>15, <2>2 DEF DeviceIsRight
  <2>4. ASSUME NEW q \in Requests PROVE IF status'[q] = "running" THEN HoldsItsOwn(q)' ELSE blocks'[q] = <<>>
    <3>1. HoldsItsOwn(q)' <=> HoldsItsOwn(q)
      BY <1>15, <2>2 DEF HoldsItsOwn, Full, Prefix, Context
    <3>2. IF status[q] = "running" THEN HoldsItsOwn(q) ELSE blocks[q] = <<>>
      BY DEF Right
    <3> QED
      BY <1>15, <3>1, <3>2
  <2>5. ASSUME NEW q \in DOMAIN meta'
        PROVE /\ status'[q] # "new"
              /\ status'[q] \in {"waiting", "running"} => Noticed(q, meta[q])'
              /\ status'[q] = "waiting" /\ meta'[q].vllm_block_ids = <<>> => Expected(meta[q])'
              /\ status'[q] = "running" /\ meta'[q].token_processed < meta'[q].num_token_ids => meta'[q].token_processed <= computed'[q]
    <3>1. CASE q \in DOMAIN meta /\ meta'[q] = meta[q]
      <4>1. /\ status[q] # "new"
            /\ status[q] \in {"waiting", "running"} => Noticed(q, meta[q])
            /\ status[q] = "waiting" /\ meta[q].vllm_block_ids = <<>> => Expected(meta[q])
            /\ status[q] = "running" /\ meta[q].token_processed < meta[q].num_token_ids => meta[q].token_processed <= computed[q]
        BY <1>6, <3>1 DEF NotesAreRight
      <4>2. Noticed(q, meta[q])' <=> Noticed(q, meta[q])
        BY <1>15, <3>1 DEF Noticed, Prefix
      <4>3. Expected(meta[q])' <=> Expected(meta[q])
        BY <2>2, <3>1 DEF Expected
      <4> QED
        BY <1>15, <3>1, <4>1, <4>2, <4>3
    <3>2. CASE q = r /\ \E note : meta'[r] = note /\ Found(r, h, match.tokens, note)
      <4>1. Found(r, h, match.tokens, meta'[r])
        BY <3>2
      <4>2. Noticed(r, meta[r])'
        BY <1>15, <4>1 DEF Found, Noticed, Prefix
      <4>3. Expected(meta[r])'
        BY <2>2, <4>1 DEF Found, Expected
      <4> QED
        BY <1>7, <1>15, <3>2, <4>2, <4>3
    <3>3. (q \in DOMAIN meta /\ meta'[q] = meta[q]) \/ (q = r /\ \E note : meta'[r] = note /\ Found(r, h, match.tokens, note))
      <4>1. CASE match.metas = meta
        BY <1>15, <2>5, <4>1
      <4>2. CASE \E note : match.metas = Noted(r, note) /\ Found(r, h, match.tokens, note)
        <5>1. PICK note : match.metas = Noted(r, note) /\ Found(r, h, match.tokens, note)
          BY <4>2
        <5>2. DOMAIN meta' = DOMAIN meta \cup {r} /\ meta'[r] = note /\ \A x \in DOMAIN meta \ {r} : meta'[x] = meta[x]
          BY <1>15, <5>1 DEF Noted
        <5> QED
          BY <2>5, <5>1, <5>2
      <4> QED
        BY <1>10, <4>1, <4>2
    <3> QED
      BY <3>1, <3>2, <3>3
  <2>6. NotesAreRight'
    BY <2>5 DEF NotesAreRight
  <2> QED
    BY <2>1, <2>3, <2>4, <2>6 DEF Right
<1>16. CASE /\ need <= Len(spare)
            /\ status' = [status EXCEPT ![r] = "running"]
            /\ waiting' = Tail(waiting)
            /\ running' = Append(running, r)
            /\ cached' = CacheFull(r, hits \o SubSeq(spare, 1, need), (from + n) \div BlockSize, ToSet(SubSeq(spare, 1, need)))
            /\ Execute(r, match.metas, hits \o SubSeq(spare, 1, need), hits \o SubSeq(spare, 1, need), from, n, TRUE)
            /\ UNCHANGED load
  <2>1. spare \in Seq(DeviceBlocks) /\ ToSet(spare) = ToSet(free) \ ToSet(hits) /\ IsInjective(spare)
    BY <1>5, <1>13, Filtered
  <2>2. need = (from + n + BlockSize - 1) \div BlockSize - h
    BY <1>8, <1>12 DEF Missing
  <2>3. n \in Nat \ {0} /\ h * BlockSize <= from
    BY <1>8, <1>9, <1>11, Sizes
  <2>4. need \in Nat
    BY <1>5, <1>14, <2>2, <2>3, JustEnough
  <2>5. PICK fresh : fresh = SubSeq(spare, 1, need)
    OBVIOUS
  <2>6. fresh \in Seq(DeviceBlocks) /\ Len(fresh) = need /\ IsInjective(fresh) /\ ToSet(fresh) \subseteq ToSet(spare)
    BY <1>16, <2>1, <2>4, <2>5, Parts
  <2>7. PICK held : held = hits \o fresh
    OBVIOUS
  <2>8. held \in Seq(DeviceBlocks) /\ Len(held) = h + need
    <3>1. hits \in Seq(DeviceBlocks) /\ fresh \in Seq(DeviceBlocks) /\ Len(fresh) = need
      BY <1>2, <2>6
    <3> QED
      BY <1>8, <2>7, <3>1, Joined
  <2>9. IsInjective(held)
    <3>1. ToSet(hits) \cap ToSet(fresh) = {}
      BY <2>1, <2>6
    <3> QED
      BY <1>2, <2>6, <2>7, <3>1, JoinedApart
  <2>10. PICK needLoad \in BOOLEAN : needLoad = TRUE /\ needLoad
    OBVIOUS
  <2>11. PICK metas : metas = match.metas /\ Notes(metas)
    BY <1>9
  <2>12. /\ Execute(r, metas, held, held, from, n, needLoad)
         /\ cached' = CacheFull(r, held, (from + n) \div BlockSize, ToSet(fresh))
    BY <1>16, <2>5, <2>7, <2>10, <2>11, Zenon
  <2>13. PICK d : d = build_connector_meta(r, metas, n, held, needLoad)
    OBVIOUS
  <2>14. meta' = d.meta /\ blocks' = [blocks EXCEPT ![r] = held]
    BY <2>12, <2>13 DEF Execute
  <2>15. ASSUME metas = meta, r \in DOMAIN meta
         PROVE  Noticed(r, meta[r]) /\ Expected(meta[r]) /\ meta[r].vllm_block_ids = <<>>
    <3>1. meta[r] \in Note /\ metas[r] \in Note /\ r \in DOMAIN metas
      BY <1>1, <2>15 DEF Notes
    <3>2. r \in DOMAIN d.meta /\ d.meta[r].vllm_block_ids = metas[r].vllm_block_ids \o held
      <4>1. PICK m \in Note : m = metas[r]
        BY <3>1
      <4>2. PICK g : g = _generate_dispatch_meta(m, n, held, needLoad)
        OBVIOUS
      <4>3. d.meta = [q \in DOMAIN metas \ finished |-> IF q = r THEN g.meta ELSE metas[q]]
        BY <2>13, <3>1, <4>1, <4>2 DEF build_connector_meta, _generate_dispatch_meta
      <4>4. g.meta.vllm_block_ids = m.vllm_block_ids \o held
        BY <4>1, <4>2 DEF _generate_dispatch_meta, Note
      <4> QED
        BY <1>7, <3>1, <4>1, <4>3, <4>4
    <3>3. r \in DOMAIN d.meta /\ d.meta[r].vllm_block_ids = meta[r].vllm_block_ids \o held
      BY <2>15, <3>2
    <3>4. meta'[r].vllm_block_ids = held
      <4>1. status'[r] = "running" /\ blocks'[r] = held
        BY <1>5, <1>16, <2>14
      <4> QED
        BY <2>14, <3>3, <4>1 DEF NotesAgree
    <3>5. meta[r].vllm_block_ids \o held = held
      BY <2>14, <3>3, <3>4
    <3>6. meta[r].vllm_block_ids \in Seq(DeviceBlocks)
      BY <3>1 DEF Note
    <3>7. meta[r].vllm_block_ids = <<>>
      BY <2>8, <3>5, <3>6, NothingBefore
    <3> QED
      BY <1>6, <1>7, <2>15, <3>7 DEF NotesAreRight
  <2>16. PICK K \in Nat : Ahead(r, metas, h, K, from)
    <3>1. \/ /\ match.tokens = 0 /\ match.metas = meta /\ Len(tokens[r]) < h * BlockSize + BlockSize
             /\ r \in DOMAIN meta => Noticed(r, meta[r]) /\ Expected(meta[r]) /\ meta[r].vllm_block_ids = <<>>
          \/ \E note : match.metas = Noted(r, note) /\ Found(r, h, match.tokens, note)
      BY <1>10, <2>11, <2>15
    <3>2. \E K \in Nat : Ahead(r, match.metas, h, K, from)
      BY <1>1, <1>5, <1>8, <1>9, <1>11, <3>1, AheadIs
    <3> QED
      BY <2>11, <3>2
  <2>17. from + n <= Len(held) * BlockSize
    <3>1. PICK x \in Nat \ {0} : x = from + n
      BY <2>3
    <3>2. (x + BlockSize - 1) \div BlockSize <= Len(held)
      <4>1. x + BlockSize - 1 \in Nat
        BY Sizes
      <4>2. PICK c \in Nat : c = (x + BlockSize - 1) \div BlockSize
        BY <4>1, Divided, Sizes
      <4>3. need = c - h
        BY <2>2, <3>1, <4>2
      <4> QED
        BY <2>4, <2>8, <4>2, <4>3
    <3>3. x <= Len(held) * BlockSize
      BY <2>4, <2>8, <3>1, <3>2, Enough
    <3> QED
      BY <3>1, <3>3
  <2>18. K <= Len(held)
    <3>1. Len(held) \in Nat
      BY <2>8
    <3>2. PICK x \in Nat, y \in Nat : x = K * BlockSize /\ y = Len(held) * BlockSize
      BY <3>1, Times, Sizes
    <3>3. Len(held) < K => y + BlockSize <= x
      <4>1. Len(held) < K => Len(held) * BlockSize + BlockSize <= K * BlockSize
        BY <3>1, Times, Sizes
      <4> QED
        BY <3>2, <4>1
    <3>4. x <= from + 1 /\ from + n <= y
      BY <2>16, <2>17, <3>2 DEF Ahead
    <3> QED
      BY <2>3, <3>1, <3>2, <3>3, <3>4, Sizes
  <2>19. Fits(d.load) /\ Brings(r, held, h, K, d.load)
    <3>1. IF r \in DOMAIN metas THEN Awaits(r, metas[r], h, K, from) ELSE K = h
      BY <2>16 DEF Ahead
    <3>2. h <= K
      BY <2>16 DEF Ahead
    <3> QED
      BY <2>8, <2>10, <2>11, <2>13, <2>18, <3>1, <3>2, AdmitDispatch
  <2>20. Prepared(r, held, from, ToSet(fresh)) /\ LoadsAreIn(r, held, from, ToSet(fresh), Fetched(d.load))
    <3>1. h <= K /\ K * BlockSize <= Len(tokens[r]) /\ h * BlockSize <= from /\ from <= K * BlockSize
      BY <2>16 DEF Ahead
    <3>2. ToSet(fresh) \subseteq ToSet(free)
      BY <2>1, <2>6
    <3>3. PICK t : t = d.load
      OBVIOUS
    <3>4. Brings(r, held, Len(hits), K, t)
      BY <1>8, <2>19, <3>3
    <3>5. \A i \in 1..Len(hits) : cached[hits[i]] = Prefix(r, i)
      BY <1>8
    <3>6. Len(hits) <= K /\ Len(hits) * BlockSize <= from
      BY <1>8, <3>1
    <3>7. Prepared(r, held, from, ToSet(fresh)) /\ LoadsAreIn(r, held, from, ToSet(fresh), Fetched(t))
      BY <1>1, <1>2, <1>5, <1>6, <1>7, <2>6, <2>7, <2>9, <2>18, <3>1, <3>2, <3>4, <3>5, <3>6, AdmitLoads
    <3> QED
      BY <3>3, <3>7
  <2>21. Follows(r, metas, held, held, from)
    <3>1. <<>> \o held = held
      BY <2>8
    <3> QED
      BY <2>16, <3>1 DEF Ahead, Awaits, Follows
  <2>22. \A q \in DOMAIN metas \ {r} : q \in DOMAIN meta /\ metas[q] = meta[q]
    BY <1>10, <2>11 DEF Noted
  <2>23. /\ Direct' /\ StoredIsRight' /\ DeviceIsRight' /\ NotesAreRight' /\ finished' = {}
         /\ \A q \in Requests : IF status'[q] = "running" THEN HoldsItsOwn(q)' ELSE blocks'[q] = <<>>
    BY <1>1, <1>5, <1>14, <1>16, <2>3, <2>8, <2>11, <2>12, <2>13, <2>17, <2>19, <2>20, <2>21, <2>22, StepRight
  <2>24. Queues'
    <3>1. /\ running \in Seq(Requests) /\ IsInjective(running) /\ r \notin ToSet(running)
          /\ IsInjective(waiting) /\ (\A q \in ToSet(waiting) : status[q] = "waiting")
          /\ \A q \in ToSet(running) : status[q] = "running"
      BY <1>1, <1>6, <1>7 DEF Queues, Shapes
    <3>2. IsInjective(running') /\ ToSet(running') = ToSet(running) \cup {r}
      <4>1. PICK s \in Seq(Requests) : s = running /\ IsInjective(s) /\ r \notin ToSet(s)
        BY <3>1
      <4>2. IsInjective(Append(s, r))
        BY <4>1, QueuedLast
      <4>3. ToSet(Append(s, r)) = ToSet(s) \cup {r}
        BY <4>1, QueuedLast
      <4> QED
        BY <1>16, <4>1, <4>2, <4>3
    <3>3. IsInjective(waiting') /\ ToSet(waiting') \subseteq ToSet(waiting) /\ r \notin ToSet(waiting')
      BY <1>4, <1>16, <3>1, Dequeued
    <3>4. ToSet(waiting) \subseteq Requests /\ ToSet(running) \subseteq Requests
      BY <1>4, <3>1, SetOf
    <3>5. status'[r] = "running" /\ \A q \in Requests \ {r} : status'[q] = status[q]
      BY <1>5, <1>16
    <3> QED
      BY <1>6, <2>23, <3>1, <3>2, <3>3, <3>4, <3>5 DEF Queues
  <2> QED
    BY <2>23, <2>24 DEF Right
<1> QED
  BY <1>14, <1>15, <1>16

\* A running request goes on.
LEMMA ContinueRight ==
    ASSUME Inv, Inv', Right, NotesAgree, NEW r \in Requests, NEW n \in 1..Budget, Continue(r, n)
    PROVE  Right'
<1>1. Shapes /\ Counted /\ Pool /\ Counted' /\ Notes(meta)
  BY DEF Inv, Shapes
<1>2. PICK need : need = Missing(blocks[r], computed[r], n)
  OBVIOUS
<1>3. PICK fresh : fresh = IF need > 0 THEN SubSeq(free, 1, need) ELSE <<>>
  OBVIOUS
<1>4. PICK held : held = blocks[r] \o fresh
  OBVIOUS
<1>5. /\ status[r] = "running" /\ computed[r] + n <= Len(tokens[r]) /\ need <= Len(free)
      /\ cached' = CacheFull(r, held, (computed[r] + n) \div BlockSize, ToSet(fresh))
      /\ Execute(r, meta, held, fresh, computed[r], n, FALSE)
      /\ load' = load /\ status' = status /\ waiting' = waiting /\ running' = running
  BY <1>2, <1>3, <1>4 DEF Continue
<1>6. /\ free \in Seq(DeviceBlocks) /\ IsInjective(free) /\ Len(free) \in Nat
      /\ blocks \in [Requests -> Seq(DeviceBlocks)] /\ blocks[r] \in Seq(DeviceBlocks) /\ IsInjective(blocks[r])
      /\ \A q \in Requests : ToSet(blocks[q]) \cap ToSet(free) = {}
      /\ tokens \in [Requests -> Seq(Nat)] /\ tokens[r] \in Seq(Nat) /\ Len(tokens[r]) \in Nat
      /\ status \in [Requests -> {"new", "waiting", "running", "finished"}]
  BY <1>1 DEF Pool, Counted, Shapes
<1>7. PICK from \in Nat : from = computed[r]
  BY <1>1 DEF Counted
<1>8. PICK l \in Nat : l = Len(blocks[r])
  BY <1>6
<1>9. n \in Nat \ {0}
  BY Sizes
<1>10. PICK c \in Nat : c = (from + n + BlockSize - 1) \div BlockSize /\ need = c - l
  <2>1. from + n + BlockSize - 1 \in Nat
    BY <1>9, Sizes
  <2>2. PICK c \in Nat : c = (from + n + BlockSize - 1) \div BlockSize
    BY <2>1, Divided, Sizes
  <2> QED
    BY <1>2, <1>7, <1>8, <2>2 DEF Missing
<1>11. PICK k \in Nat : k <= Len(free) /\ fresh = SubSeq(free, 1, k) /\ c <= l + k
  <2>1. CASE need > 0
    <3>1. need \in Nat /\ c <= l + need
      BY <1>10, <2>1
    <3>2. need <= Len(free) /\ fresh = SubSeq(free, 1, need)
      BY <1>3, <1>5, <2>1
    <3> QED
      BY <3>1, <3>2
  <2>2. CASE ~ (need > 0)
    <3>1. fresh = SubSeq(free, 1, 0) /\ 0 \in Nat /\ 0 <= Len(free)
      BY <1>3, <1>6, <2>2
    <3> QED
      BY <1>10, <2>2, <3>1
  <2> QED
    BY <2>1, <2>2
<1>12. fresh \in Seq(DeviceBlocks) /\ Len(fresh) = k /\ IsInjective(fresh) /\ ToSet(fresh) \subseteq ToSet(free)
  BY <1>6, <1>11, Parts
<1>13. /\ held \in Seq(DeviceBlocks) /\ Len(held) = l + k
       /\ \A i \in 1..l : held[i] = blocks[r][i]
       /\ \A i \in 1..k : held[l + i] = fresh[i]
  <2>1. PICK b \in Seq(DeviceBlocks) : b = blocks[r] /\ Len(b) = l
    BY <1>6, <1>8
  <2>2. held = b \o fresh /\ fresh \in Seq(DeviceBlocks) /\ Len(fresh) = k
    BY <1>4, <1>12, <2>1
  <2>3. held \in Seq(DeviceBlocks) /\ Len(held) = l + k
    BY <2>1, <2>2, Joined
  <2>4. \A i \in 1..l : held[i] = b[i]
    BY <2>1, <2>2, Joined
  <2>5. ASSUME NEW i \in 1..k PROVE held[l + i] = fresh[i]
    <3>1. PICK j \in Nat : j = l + i /\ j > l /\ j <= l + k /\ j - l = i
      OBVIOUS
    <3>2. b \in Seq(DeviceBlocks) /\ fresh \in Seq(DeviceBlocks) /\ Len(b) + Len(fresh) = l + k
      BY <2>1, <2>2
    <3>3. j \in 1..(Len(b) + Len(fresh)) /\ j > Len(b)
      BY <2>1, <3>1, <3>2
    <3>4. (b \o fresh)[j] = fresh[j - Len(b)]
      BY <3>2, <3>3
    <3> QED
      BY <2>1, <2>2, <3>1, <3>4
  <2> QED
    BY <2>1, <2>3, <2>4, <2>5
<1>14. IsInjective(held)
  <2>1. ToSet(blocks[r]) \cap ToSet(fresh) = {}
    BY <1>6, <1>12
  <2> QED
    BY <1>4, <1>6, <1>12, <2>1, JoinedApart
<1>15. Direct /\ StoredIsRight /\ DeviceIsRight /\ NotesAreRight /\ Queues /\ HoldsItsOwn(r)
  BY <1>5 DEF Right
<1>16. PICK needLoad \in BOOLEAN : needLoad = FALSE /\ ~needLoad
  OBVIOUS
<1>17. /\ Execute(r, meta, held, fresh, from, n, needLoad)
       /\ cached' = CacheFull(r, held, (from + n) \div BlockSize, ToSet(fresh))
  BY <1>5, <1>7, <1>16, Zenon
<1>18. PICK d : d = build_connector_meta(r, meta, n, fresh, needLoad)
  OBVIOUS
<1>19. PICK t : t = d.load /\ t = NoBlocks
  BY <1>1, <1>9, <1>12, <1>16, <1>18, Dispatched
<1>20. t.ids = <<>> /\ t.blocks = <<>> /\ DOMAIN t.blocks = {}
  <2>1. DOMAIN <<>> = {}
    OBVIOUS
  <2> QED
    BY <1>19, <2>1, EmptyTask
<1>21. Fits(t)
  BY <1>20 DEF Fits
<1>22. Prepared(r, held, from, ToSet(fresh))
  <2>1. ASSUME NEW q \in Requests PROVE ToSet(blocks[q]) \cap ToSet(fresh) = {}
    BY <1>6, <1>12
  <2>2. ASSUME NEW i \in 1..Len(held), held[i] \notin ToSet(fresh)
        PROVE  IF i * BlockSize <= from THEN cached[held[i]] = Prefix(r, i)
               ELSE cached[held[i]] = Junk /\ \A q \in Requests \ {r} : held[i] \notin ToSet(blocks[q])
    <3>1. i \in 1..l
      <4>1. CASE i > l
        <5>1. i - l \in 1..k /\ l + (i - l) = i
          BY <1>13, <4>1
        <5>2. fresh[i - l] \in ToSet(fresh)
          BY <1>12, <5>1, SetOf
        <5> QED
          BY <1>13, <2>2, <5>1, <5>2
      <4> QED
        BY <4>1
    <3> QED
      BY <1>7, <1>8, <1>13, <1>15, <3>1 DEF HoldsItsOwn, Full
  <2> QED
    BY <1>13, <1>14, <2>1, <2>2 DEF Prepared
<1>23. PICK m : m = Fetched(t)
  OBVIOUS
<1>24. ASSUME NEW a \in Areas PROVE Memory(m[a]) /\ \A v \in DeviceBlocks : m[a][v] = hbm[a][v]
  <2>1. LoadsFull(r, held, t)
    BY <1>20 DEF LoadsFull
  <2>2. \A x \in Areas : HasLoaded(r, held, t, x, m[x])
    BY <1>6, <1>13, <1>15, <1>23, <2>1, LoadedRight
  <2>3. HasLoaded(r, held, t, a, m[a])
    BY <2>2
  <2> QED
    BY <1>20, <2>3 DEF HasLoaded
<1>25. LoadsAreIn(r, held, from, ToSet(fresh), m)
  <2>1. ASSUME NEW a \in Areas, NEW p \in 1..from PROVE KV(m[a], held, p) = SubSeq(tokens[r], 1, p)
    <3>1. p \in Nat \ {0} /\ p <= l * BlockSize
      <4>1. l * BlockSize \in Nat
        BY Times, Sizes
      <4>2. from \in 1..(l * BlockSize)
        BY <1>7, <1>8, <1>15 DEF HoldsItsOwn
      <4> QED
        BY <4>1, <4>2
    <3>2. BlockOf(p) \in 1..l
      BY <3>1, BlockWithin
    <3>3. held[BlockOf(p)] = blocks[r][BlockOf(p)] /\ held[BlockOf(p)] \in DeviceBlocks
      <4>1. BlockOf(p) \in 1..Len(held)
        BY <1>13, <3>2
      <4> QED
        BY <1>13, <3>2, <4>1
    <3>4. KV(hbm[a], blocks[r], p) = SubSeq(tokens[r], 1, p)
      BY <1>7, <1>15 DEF HoldsItsOwn, Context
    <3> QED
      BY <1>24, <3>3, <3>4 DEF KV
  <2> QED
    BY <1>24, <2>1 DEF LoadsAreIn, Context
<1>26. Follows(r, meta, held, fresh, from)
  <2>1. ASSUME r \in DOMAIN meta
        PROVE  /\ meta[r].vllm_block_ids = blocks[r] /\ Noticed(r, meta[r])
               /\ meta[r].token_processed < meta[r].num_token_ids => meta[r].token_processed <= from
    BY <1>5, <1>7, <1>15, <2>1 DEF NotesAgree, NotesAreRight
  <2> QED
    BY <1>4, <2>1 DEF Follows
<1>27. from + n <= Len(held) * BlockSize
  <2>1. PICK x \in Nat \ {0} : x = from + n
    BY <1>9
  <2>2. Len(held) \in Nat /\ (x + BlockSize - 1) \div BlockSize <= Len(held)
    BY <1>10, <1>11, <1>13, <2>1
  <2>3. x <= Len(held) * BlockSize
    BY <2>2, Enough
  <2> QED
    BY <2>1, <2>3
<1>28. \A q \in DOMAIN meta \ {r} : q \in DOMAIN meta /\ meta[q] = meta[q]
  OBVIOUS
<1>29. status' = [status EXCEPT ![r] = "running"] /\ from + n <= Len(tokens[r])
  BY <1>5, <1>6, <1>7
<1>30. /\ Direct' /\ StoredIsRight' /\ DeviceIsRight' /\ NotesAreRight' /\ finished' = {}
       /\ \A q \in Requests : IF status'[q] = "running" THEN HoldsItsOwn(q)' ELSE blocks'[q] = <<>>
  <2>1. Fits(d.load) /\ LoadsAreIn(r, held, from, ToSet(fresh), Fetched(d.load)) /\ load' = load
    BY <1>5, <1>19, <1>21, <1>23, <1>25
  <2> QED
    BY <1>1, <1>6, <1>9, <1>12, <1>17, <1>18, <1>22, <1>26, <1>27, <1>28, <1>29, <2>1, StepRight
<1>31. Queues'
  BY <1>5, <1>15, <1>30 DEF Queues
<1> QED
  BY <1>30, <1>31 DEF Right

\* Requests that join, leave or are preempted change neither the memory nor a note.
LEMMA Moved ==
    ASSUME Right, NotesAgree, Notes(meta), load' = load, meta' = meta, tokens' = tokens, cached' = cached,
           store' = store, hbm' = hbm, step' = step, loading' = loading, dumping' = dumping,
           \A q \in Requests : IF status'[q] = "running"
                               THEN status[q] = "running" /\ blocks'[q] = blocks[q] /\ computed'[q] = computed[q]
                               ELSE blocks'[q] = <<>>,
           \A q \in Requests \cap DOMAIN meta :
               \/ status'[q] = status[q]
               \/ status'[q] = "finished"
               \/ status[q] = "running" /\ status'[q] = "waiting" /\ blocks[q] # <<>>
    PROVE  /\ Direct' /\ StoredIsRight' /\ DeviceIsRight' /\ NotesAreRight'
           /\ \A q \in Requests : IF status'[q] = "running" THEN HoldsItsOwn(q)' ELSE blocks'[q] = <<>>
<1>1. Areas' = Areas /\ Stored' = Stored
  BY DEF Areas, Stored
<1>2. Direct' /\ StoredIsRight'
  BY DEF Right, Direct, StoredIsRight
<1>3. DeviceIsRight'
  BY <1>1 DEF Right, DeviceIsRight
<1>4. ASSUME NEW q \in Requests PROVE ToSet(blocks'[q]) \subseteq ToSet(blocks[q])
  <2>1. ToSet(<<>>) = {}
    BY DEF ToSet
  <2> QED
    BY <2>1
<1>5. ASSUME NEW q \in Requests, status'[q] = "running" PROVE HoldsItsOwn(q)'
  <2>1. status[q] = "running" /\ blocks'[q] = blocks[q] /\ computed'[q] = computed[q]
    BY <1>5
  <2>2. HoldsItsOwn(q)
    BY <2>1 DEF Right
  <2>3. computed'[q] \in 1..(Len(blocks'[q]) * BlockSize)
    BY <2>1, <2>2 DEF HoldsItsOwn
  <2>4. ASSUME NEW i \in 1..Len(blocks'[q])
        PROVE  IF Full(q, i)' THEN cached'[blocks'[q][i]] = Prefix(q, i)'
               ELSE cached'[blocks'[q][i]] = Junk /\ \A s \in Requests \ {q} : blocks'[q][i] \notin ToSet(blocks'[s])
    BY <1>4, <2>1, <2>2 DEF HoldsItsOwn, Full, Prefix
  <2>5. \A a \in Areas' : Context(q, blocks[q], computed[q], hbm[a])'
    BY <1>1, <2>1, <2>2 DEF HoldsItsOwn, Context, KV
  <2> QED
    BY <2>3, <2>4, <2>5 DEF HoldsItsOwn
<1>6. NotesAreRight'
  <2>1. DOMAIN meta \subseteq Requests
    BY DEF Notes
  <2>2. ASSUME NEW q \in DOMAIN meta
        PROVE  /\ status'[q] # "new"
               /\ status'[q] \in {"waiting", "running"} => Noticed(q, meta[q])
               /\ status'[q] = "waiting" /\ meta[q].vllm_block_ids = <<>> => Expected(meta[q])
               /\ status'[q] = "running" /\ meta[q].token_processed < meta[q].num_token_ids =>
                     meta[q].token_processed <= computed'[q]
    BY <2>1, <2>2 DEF NotesAgree, NotesAreRight, Right
  <2>3. \A q \in DOMAIN meta : (Noticed(q, meta[q]))' = Noticed(q, meta[q]) /\ (Expected(meta[q]))' = Expected(meta[q])
    BY <1>1 DEF Noticed, Expected, Prefix
  <2> QED
    BY <2>2, <2>3 DEF NotesAreRight
<1> QED
  BY <1>2, <1>3, <1>5, <1>6

\* A request reaches the engine.
LEMMA ArriveRight == ASSUME Inv, Right, NotesAgree, NEW r \in Requests, Arrive(r) PROVE Right'
<1>1. Shapes /\ Notes(meta)
  BY DEF Inv, Shapes
<1>2. /\ status[r] = "new" /\ status' = [status EXCEPT ![r] = "waiting"] /\ waiting' = Append(waiting, r)
      /\ UNCHANGED <<load, meta, store, hbm, step, loading, dumping, running, tokens, computed, blocks, cached, finished>>
  BY DEF Arrive, workerVars
<1>3. status \in [Requests -> {"new", "waiting", "running", "finished"}]
  BY <1>1 DEF Shapes
<1>4. Queues /\ NotesAreRight /\ r \notin DOMAIN meta
  BY <1>2 DEF Right, NotesAreRight
<1>5. status'[r] = "waiting" /\ \A q \in Requests \ {r} : status'[q] = status[q]
  BY <1>2, <1>3
<1>6. blocks[r] = <<>>
  BY <1>2 DEF Right
<1>7. /\ Direct' /\ StoredIsRight' /\ DeviceIsRight' /\ NotesAreRight'
      /\ \A q \in Requests : IF status'[q] = "running" THEN HoldsItsOwn(q)' ELSE blocks'[q] = <<>>
  <2>1. \A q \in Requests : IF status'[q] = "running"
                            THEN status[q] = "running" /\ blocks'[q] = blocks[q] /\ computed'[q] = computed[q]
                            ELSE blocks'[q] = <<>>
    BY <1>2, <1>5, <1>6 DEF Right
  <2>2. \A q \in Requests \cap DOMAIN meta :
           \/ status'[q] = status[q]
           \/ status'[q] = "finished"
           \/ status[q] = "running" /\ status'[q] = "waiting" /\ blocks[q] # <<>>
    BY <1>4, <1>5
  <2> QED
    BY <1>1, <1>2, <2>1, <2>2, Moved
<1>8. Queues'
  <2>1. PICK s \in Seq(Requests) : s = waiting /\ IsInjective(s)
    BY <1>1, <1>4 DEF Shapes, Queues
  <2>2. r \notin ToSet(s) /\ r \notin ToSet(running) /\ r \notin finished
    BY <1>2, <1>4, <2>1 DEF Queues
  <2>3. IsInjective(Append(s, r))
    BY <2>1, <2>2, QueuedLast
  <2>4. ToSet(Append(s, r)) = ToSet(s) \cup {r}
    BY <2>1, <2>2, QueuedLast
  <2>5. ToSet(s) \subseteq Requests /\ ToSet(running) \subseteq Requests
    BY <1>1, SetOf DEF Shapes
  <2>6. IsInjective(waiting') /\ \A q \in ToSet(waiting') : status'[q] = "waiting"
    BY <1>2, <1>4, <1>5, <2>1, <2>3, <2>4, <2>5 DEF Queues
  <2>7. IsInjective(running') /\ \A q \in ToSet(running') : status'[q] = "running"
    BY <1>2, <1>4, <1>5, <2>2, <2>5 DEF Queues
  <2>8. \A q \in finished' : status'[q] = "finished"
    BY <1>2, <1>3, <1>4, <2>2 DEF Queues
  <2> QED
    BY <2>6, <2>7, <2>8 DEF Queues
<1> QED
  BY <1>7, <1>8 DEF Right

\* The request that started last gives up its blocks; its note still lists them.
LEMMA PreemptRight ==
    ASSUME Inv, Right, NotesAgree, NEW r \in Requests, NEW n \in 1..Budget, Preempt(r, n) PROVE Right'
<1>1. Shapes /\ Notes(meta) /\ Pool
  BY DEF Inv, Shapes
<1>2. PICK s \in Seq(Requests) : s = running /\ r \in ToSet(s)
  BY <1>1 DEF Shapes, Preempt
<1>3. PICK w \in Seq(Requests) : w = waiting
  BY <1>1 DEF Shapes
<1>4. PICK victim : victim = Last(s)
  OBVIOUS
<1>5. /\ status' = [status EXCEPT ![victim] = "waiting"] /\ waiting' = <<victim>> \o w /\ running' = Front(s)
      /\ computed' = [computed EXCEPT ![victim] = 0] /\ blocks' = [blocks EXCEPT ![victim] = <<>>]
      /\ UNCHANGED <<load, meta, store, hbm, step, loading, dumping, tokens, cached, finished>>
  BY <1>2, <1>3, <1>4 DEF Preempt, workerVars
<1>6. Queues /\ NotesAreRight
  BY DEF Right
<1>7. IsInjective(s) /\ s # <<>> /\ IsInjective(w)
  <2>1. ToSet(<<>>) = {}
    BY DEF ToSet
  <2> QED
    BY <1>2, <1>3, <1>6, <2>1 DEF Queues
<1>8. victim \in ToSet(s)
  BY <1>4, <1>7, Dropped
<1>9. ToSet(s) \subseteq Requests /\ ToSet(w) \subseteq Requests
  BY SetOf
<1>10. victim \in Requests /\ status[victim] = "running"
  BY <1>2, <1>6, <1>8, <1>9 DEF Queues
<1>11. status \in [Requests -> {"new", "waiting", "running", "finished"}]
  BY <1>1 DEF Shapes
<1>12. status'[victim] = "waiting" /\ \A q \in Requests \ {victim} : status'[q] = status[q]
  BY <1>5, <1>10, <1>11
<1>13. computed \in [Requests -> Nat] /\ blocks \in [Requests -> Seq(DeviceBlocks)]
  BY DEF Inv, Counted, Pool
<1>14. blocks[victim] # <<>>
  <2>1. HoldsItsOwn(victim)
    BY <1>10 DEF Right
  <2>2. ASSUME blocks[victim] = <<>> PROVE FALSE
    <3>1. Len(blocks[victim]) = 0
      BY <2>2
    <3>2. 0 * BlockSize = 0
      BY Sizes
    <3>3. computed[victim] \in 1..0
      BY <2>1, <3>1, <3>2 DEF HoldsItsOwn
    <3> QED
      BY <3>3
  <2> QED
    BY <2>2
<1>15. /\ Direct' /\ StoredIsRight' /\ DeviceIsRight' /\ NotesAreRight'
       /\ \A q \in Requests : IF status'[q] = "running" THEN HoldsItsOwn(q)' ELSE blocks'[q] = <<>>
  <2>1. \A q \in Requests : IF status'[q] = "running"
                            THEN status[q] = "running" /\ blocks'[q] = blocks[q] /\ computed'[q] = computed[q]
                            ELSE blocks'[q] = <<>>
    BY <1>5, <1>10, <1>12, <1>13 DEF Right
  <2>2. \A q \in Requests \cap DOMAIN meta :
           \/ status'[q] = status[q]
           \/ status'[q] = "finished"
           \/ status[q] = "running" /\ status'[q] = "waiting" /\ blocks[q] # <<>>
    BY <1>10, <1>12, <1>14
  <2> QED
    BY <1>1, <1>5, <2>1, <2>2, Moved
<1>16. Queues'
  <2>1. victim \notin ToSet(w) /\ victim \notin finished
    BY <1>3, <1>6, <1>10 DEF Queues
  <2>2. PICK u : u = <<victim>> \o w /\ IsInjective(u) /\ ToSet(u) = ToSet(w) \cup {victim}
    <3>1. IsInjective((<<victim>> \o w))
      BY <1>7, <1>10, <2>1, QueuedFirst
    <3>2. ToSet((<<victim>> \o w)) = ToSet(w) \cup {victim}
      BY <1>7, <1>10, <2>1, QueuedFirst
    <3> QED
      BY <3>1, <3>2
  <2>3. IsInjective(Front(s)) /\ ToSet(Front(s)) \subseteq ToSet(s) /\ victim \notin ToSet(Front(s))
    BY <1>4, <1>7, Dropped
  <2>4. IsInjective(waiting') /\ \A q \in ToSet(waiting') : status'[q] = "waiting"
    BY <1>3, <1>5, <1>6, <1>9, <1>12, <2>2 DEF Queues
  <2>5. IsInjective(running') /\ \A q \in ToSet(running') : status'[q] = "running"
    BY <1>2, <1>5, <1>6, <1>9, <1>12, <2>3 DEF Queues
  <2>6. \A q \in finished' : status'[q] = "finished"
    BY <1>5, <1>6, <1>11, <2>1 DEF Queues
  <2> QED
    BY <2>4, <2>5, <2>6 DEF Queues
<1> QED
  BY <1>15, <1>16 DEF Right

\* A request leaves the engine; the connector forgets it with the next step.
LEMMA FinishRight == ASSUME Inv, Right, NotesAgree, NEW r \in Requests, Finish(r) PROVE Right'
<1>1. Shapes /\ Notes(meta)
  BY DEF Inv, Shapes
<1>2. /\ status[r] = "running" /\ status' = [status EXCEPT ![r] = "finished"] /\ running' = Without(running, {r})
      /\ finished' = finished \cup {r} /\ blocks' = [blocks EXCEPT ![r] = <<>>]
      /\ UNCHANGED <<load, meta, store, hbm, step, loading, dumping, waiting, tokens, computed, cached>>
  BY DEF Finish, workerVars
<1>3. status \in [Requests -> {"new", "waiting", "running", "finished"}] /\ blocks \in [Requests -> Seq(DeviceBlocks)]
  BY <1>1 DEF Inv, Shapes, Pool
<1>4. status'[r] = "finished" /\ \A q \in Requests \ {r} : status'[q] = status[q]
  BY <1>2, <1>3
<1>5. /\ Direct' /\ StoredIsRight' /\ DeviceIsRight' /\ NotesAreRight'
      /\ \A q \in Requests : IF status'[q] = "running" THEN HoldsItsOwn(q)' ELSE blocks'[q] = <<>>
  <2>1. \A q \in Requests : IF status'[q] = "running"
                            THEN status[q] = "running" /\ blocks'[q] = blocks[q] /\ computed'[q] = computed[q]
                            ELSE blocks'[q] = <<>>
    BY <1>2, <1>3, <1>4 DEF Right
  <2>2. \A q \in Requests \cap DOMAIN meta :
           \/ status'[q] = status[q]
           \/ status'[q] = "finished"
           \/ status[q] = "running" /\ status'[q] = "waiting" /\ blocks[q] # <<>>
    BY <1>4
  <2> QED
    BY <1>1, <1>2, <2>1, <2>2, Moved
<1>6. Queues'
  <2>1. Queues
    BY DEF Right
  <2>2. PICK s \in Seq(Requests) : s = running
    BY <1>1 DEF Shapes
  <2>3. IsInjective(s) /\ r \notin ToSet(waiting) /\ waiting \in Seq(Requests)
    BY <1>1, <1>2, <2>1, <2>2 DEF Queues, Shapes
  <2>4. IsInjective(running') /\ ToSet(running') = ToSet(s) \ {r}
    BY <1>2, <2>2, <2>3, Filtered
  <2>5. ToSet(s) \subseteq Requests /\ ToSet(waiting) \subseteq Requests
    BY <2>3, SetOf
  <2>6. IsInjective(waiting') /\ \A q \in ToSet(waiting') : status'[q] = "waiting"
    BY <1>2, <1>4, <2>1, <2>3, <2>5 DEF Queues
  <2>7. \A q \in ToSet(running') : status'[q] = "running"
    BY <1>4, <2>1, <2>2, <2>4, <2>5 DEF Queues
  <2>8. \A q \in finished' : status'[q] = "finished"
    BY <1>2, <1>3, <2>1 DEF Queues
  <2> QED
    BY <2>4, <2>6, <2>7, <2>8 DEF Queues
<1> QED
  BY <1>5, <1>6 DEF Right

----------------------------------------------------------------------------
(* What the direct connector stores and computes is right.                 *)

\* A new engine: what earlier engines stored is right, device memory is empty.
LEMMA InitRight == Init /\ load.kind = "direct" /\ "load" \notin load.faults => Right
<1> SUFFICES ASSUME Init, load.kind = "direct", "load" \notin load.faults PROVE Right
  OBVIOUS
<1>1. /\ meta = <<>> /\ step = NoStep /\ loading = {} /\ dumping = {} /\ waiting = <<>> /\ running = <<>> /\ finished = {}
      /\ store = [id \in load.stored |-> [a \in Areas |-> BlockKV(id, Len(id) \div BlockSize)]]
      /\ hbm = [a \in Areas |-> [v \in 1..HbmBlocks |-> [j \in 1..BlockSize |-> Junk]]]
      /\ cached = [v \in 1..HbmBlocks |-> Junk]
      /\ status = [r \in Requests |-> "new"] /\ blocks = [r \in Requests |-> <<>>]
  BY DEF Init
<1>2. DOMAIN <<>> = {} /\ ToSet(<<>>) = {} /\ IsInjective(<<>>)
  <2>1. DOMAIN <<>> = {}
    OBVIOUS
  <2> QED
    BY <2>1 DEF ToSet, IsInjective
<1>3. Direct
  BY <1>1 DEF Direct
<1>4. StoredIsRight
  BY <1>1 DEF StoredIsRight
<1>5. DeviceIsRight
  <2>1. DOMAIN cached = DeviceBlocks /\ \A v \in DeviceBlocks : cached[v] = Junk
    BY <1>1 DEF DeviceBlocks
  <2>2. ASSUME NEW a \in Areas PROVE Memory(hbm[a])
    BY <1>1 DEF Memory, DeviceBlocks
  <2> QED
    BY <2>1, <2>2 DEF DeviceIsRight
<1>6. NotesAreRight
  BY <1>1, <1>2 DEF NotesAreRight
<1>7. Queues
  BY <1>1, <1>2 DEF Queues
<1>8. \A r \in Requests : IF status[r] = "running" THEN HoldsItsOwn(r) ELSE blocks[r] = <<>>
  BY <1>1
<1> QED
  BY <1>3, <1>4, <1>5, <1>6, <1>7, <1>8 DEF Right

\* A step that changes nothing.
LEMMA StutterRight == ASSUME Inv, Right, NotesAgree, UNCHANGED vars PROVE Right'
<1>1. /\ UNCHANGED <<load, meta, store, hbm, step, loading, dumping, tokens, cached, computed, blocks>>
      /\ UNCHANGED <<status, waiting, running, finished>>
  BY DEF vars, workerVars, engineVars
<1>2. Notes(meta)
  BY DEF Inv, Shapes
<1>3. \A q \in Requests : IF status'[q] = "running"
                          THEN status[q] = "running" /\ blocks'[q] = blocks[q] /\ computed'[q] = computed[q]
                          ELSE blocks'[q] = <<>>
  BY <1>1 DEF Right
<1>4. /\ Direct' /\ StoredIsRight' /\ DeviceIsRight' /\ NotesAreRight'
      /\ \A q \in Requests : IF status'[q] = "running" THEN HoldsItsOwn(q)' ELSE blocks'[q] = <<>>
  BY <1>1, <1>2, <1>3, Moved
<1>5. Queues'
  BY <1>1 DEF Right, Queues
<1> QED
  BY <1>4, <1>5 DEF Right

\* The direct connector has no step that goes on, and no transfer in flight between steps.
LEMMA NextRight == Inv /\ Inv' /\ Right /\ NotesAgree /\ NotesAgree' /\ [Next]_vars => Right'
<1> SUFFICES ASSUME Inv, Inv', Right, NotesAgree, NotesAgree', [Next]_vars PROVE Right'
  OBVIOUS
<1>1. CASE UNCHANGED vars
  BY <1>1, StutterRight
<1>2. ASSUME NEW r \in Requests, NEW n \in 1..Budget, Admit(r, n) \/ Continue(r, n) \/ Preempt(r, n) PROVE Right'
  BY <1>2, AdmitRight, ContinueRight, PreemptRight
<1>3. ASSUME NEW r \in Requests, Arrive(r) \/ Finish(r) PROVE Right'
  BY <1>3, ArriveRight, FinishRight
<1>4. step = NoStep /\ loading = {} /\ dumping = {}
  BY DEF Right, Direct
<1>5. ~ComputeLayer /\ ~EndStep
  BY <1>4 DEF ComputeLayer, EndStep
<1> QED
  BY <1>1, <1>2, <1>3, <1>4, <1>5 DEF Next

\* Whatever the direct connector stores under an id is the KV of the tokens that the id names, in
\* every area, whichever request saves it and whatever lookups, dumps or waits fail, as long as the
\* note of a running request lists the blocks that the request holds: the lists of ids and blocks
\* that ucm_connector.py 384-398 cuts by counters kept across steps then stay aligned.
THEOREM DirectStoredRight ==
    Spec /\ load.kind = "direct" /\ "load" \notin load.faults /\ []NotesAgree => []StoredIsRight
<1>1. Init => Inv
  BY InitInv
<1>2. Inv /\ [Next]_vars => Inv'
  BY NextInv
<1>3. Init /\ load.kind = "direct" /\ "load" \notin load.faults => Right
  BY InitRight
<1>4. Inv /\ Inv' /\ Right /\ NotesAgree /\ NotesAgree' /\ [Next]_vars => Right'
  BY NextRight
<1>5. Right => StoredIsRight
  BY DEF Right
<1> QED
  BY <1>1, <1>2, <1>3, <1>4, <1>5, PTL DEF Spec

\* Under the same conditions the model never attends to wrong KV: all that a running request counts
\* as computed, found on the device, loaded or computed, is KV of its own tokens in every area.
THEOREM DirectComputedRight ==
    Spec /\ load.kind = "direct" /\ "load" \notin load.faults /\ []NotesAgree => []ComputedIsRight
<1>1. Init => Inv
  BY InitInv
<1>2. Inv /\ [Next]_vars => Inv'
  BY NextInv
<1>3. Init /\ load.kind = "direct" /\ "load" \notin load.faults => Right
  BY InitRight
<1>4. Inv /\ Inv' /\ Right /\ NotesAgree /\ NotesAgree' /\ [Next]_vars => Right'
  BY NextRight
<1>5. Right => ComputedIsRight
  BY DEF Right, HoldsItsOwn, ComputedIsRight
<1> QED
  BY <1>1, <1>2, <1>3, <1>4, <1>5, PTL DEF Spec

----------------------------------------------------------------------------
(* Without a preemption the notes agree.                                   *)

\* The note of a request that waits has no blocks: it never ran, as none is preempted.
Unheld == \A r \in DOMAIN meta : status[r] = "waiting" => meta[r].vllm_block_ids = <<>>

\* _generate_dispatch_meta adds the blocks that are new to those the note has.
Lists(r, metas, new, d) ==
    /\ DOMAIN d.meta = DOMAIN metas \ finished
    /\ \A q \in DOMAIN d.meta \ {r} : d.meta[q] = metas[q]
    /\ r \in DOMAIN d.meta => d.meta[r].vllm_block_ids = metas[r].vllm_block_ids \o new

\* The note of r lists what r holds but for the new blocks; the other notes are those there are.
Carries(r, metas, held, new) ==
    /\ \A q \in DOMAIN metas \ {r} : q \in DOMAIN meta /\ metas[q] = meta[q]
    /\ r \in DOMAIN metas => held = metas[r].vllm_block_ids \o new

\* The notes that a step leaves.
LEMMA NoteGrows ==
    ASSUME NEW metas, Notes(metas), NEW r, NEW n, NEW new, NEW needLoad \in BOOLEAN,
           NEW d, d = build_connector_meta(r, metas, n, new, needLoad)
    PROVE  Lists(r, metas, new, d)
<1>1. CASE r \notin DOMAIN metas
  <2>1. d.meta = [q \in DOMAIN metas \ finished |-> IF q = r THEN NoBlocks ELSE metas[q]]
    BY <1>1 DEF build_connector_meta
  <2> QED
    BY <1>1, <2>1 DEF Lists
<1>2. CASE r \in DOMAIN metas
  <2>1. PICK m \in Note : m = metas[r]
    BY <1>2 DEF Notes
  <2>2. PICK g : g = _generate_dispatch_meta(m, n, new, needLoad)
    OBVIOUS
  <2>3. d.meta = [q \in DOMAIN metas \ finished |-> IF q = r THEN g.meta ELSE metas[q]]
    BY <1>2, <2>1, <2>2 DEF build_connector_meta, _generate_dispatch_meta
  <2>4. g.meta.vllm_block_ids = m.vllm_block_ids \o new
    BY <2>1, <2>2 DEF _generate_dispatch_meta, Note
  <2> QED
    BY <2>1, <2>3, <2>4 DEF Lists
<1> QED
  BY <1>1, <1>2

\* A step of r keeps the notes agreeing when its note lists what r had before the new blocks.
LEMMA StepAgrees ==
    ASSUME NotesAgree, Unheld, NEW r \in Requests, NEW metas, Notes(metas), NEW held, NEW new, NEW from, NEW n,
           NEW needLoad \in BOOLEAN, Execute(r, metas, held, new, from, n, needLoad),
           blocks \in [Requests -> Seq(DeviceBlocks)], status \in [Requests -> {"new", "waiting", "running", "finished"}],
           status' = [status EXCEPT ![r] = "running"],
           Carries(r, metas, held, new)
    PROVE  NotesAgree' /\ Unheld'
<1>1. PICK d : d = build_connector_meta(r, metas, n, new, needLoad)
  OBVIOUS
<1>2. meta' = d.meta /\ blocks' = [blocks EXCEPT ![r] = held]
  BY <1>1 DEF Execute
<1>3. /\ DOMAIN d.meta = DOMAIN metas \ finished
      /\ \A q \in DOMAIN d.meta \ {r} : d.meta[q] = metas[q]
      /\ r \in DOMAIN d.meta => d.meta[r].vllm_block_ids = metas[r].vllm_block_ids \o new
  <2>1. Lists(r, metas, new, d)
    BY <1>1, NoteGrows
  <2> QED
    BY <2>1 DEF Lists
<1>4. r \in DOMAIN meta' => meta'[r].vllm_block_ids = held
  BY <1>2, <1>3 DEF Carries
<1>5. DOMAIN meta' \subseteq Requests
  BY <1>2, <1>3 DEF Notes
<1>6. ASSUME NEW q \in DOMAIN meta', q # r
      PROVE  q \in DOMAIN meta /\ meta'[q] = meta[q] /\ status'[q] = status[q] /\ blocks'[q] = blocks[q]
  BY <1>2, <1>3, <1>5, <1>6 DEF Carries
<1>7. status'[r] = "running" /\ blocks'[r] = held
  BY <1>2
<1> QED
  BY <1>4, <1>6, <1>7 DEF NotesAgree, Unheld

\* Joining or leaving the engine changes no note and no blocks of one that runs.
LEMMA MovedAgrees ==
    ASSUME NotesAgree, Unheld, Notes(meta), meta' = meta,
           \A q \in Requests \cap DOMAIN meta :
               status'[q] = "finished" \/ (status'[q] = status[q] /\ blocks'[q] = blocks[q])
    PROVE  NotesAgree' /\ Unheld'
BY DEF NotesAgree, Unheld, Notes

\* A running request goes on.
LEMMA ContinueAgrees ==
    ASSUME Inv, Right, NotesAgree, Unheld, NEW r \in Requests, NEW n \in 1..Budget, Continue(r, n)
    PROVE  NotesAgree' /\ Unheld'
<1>1. PICK fresh : LET held == blocks[r] \o fresh
                   IN Execute(r, meta, held, fresh, computed[r], n, FALSE) /\ status' = status /\ status[r] = "running"
  BY DEF Continue
<1>2. PICK held : held = blocks[r] \o fresh
  OBVIOUS
<1>3. PICK needLoad \in BOOLEAN : needLoad = FALSE /\ ~needLoad
  OBVIOUS
<1>4. Execute(r, meta, held, fresh, computed[r], n, needLoad)
  BY <1>1, <1>2, <1>3, Zenon
<1>5. /\ Notes(meta) /\ blocks \in [Requests -> Seq(DeviceBlocks)]
      /\ status \in [Requests -> {"new", "waiting", "running", "finished"}]
  BY DEF Inv, Shapes, Pool
<1>6. status' = [status EXCEPT ![r] = "running"]
  BY <1>1, <1>5
<1>7. Carries(r, meta, held, fresh)
  BY <1>1, <1>2 DEF NotesAgree, Carries
<1> QED
  BY <1>4, <1>5, <1>6, <1>7, StepAgrees

\* A request is admitted, or only looked up: its note has no blocks yet.
LEMMA AdmitAgrees ==
    ASSUME Inv, Right, NotesAgree, Unheld, NEW r \in Requests, NEW n \in 1..Budget, Admit(r, n)
    PROVE  NotesAgree' /\ Unheld'
<1>1. Shapes /\ Counted /\ Pool /\ Notes(meta) /\ Direct /\ Queues
  BY DEF Inv, Shapes, Right
<1>2. PICK hits : hits = HbmHits(r) /\ hits \in Seq(DeviceBlocks)
  BY <1>1, HbmHitsOf DEF Counted
<1>3. PICK ok \in BOOLEAN :
       LET match == Match(r, Len(hits), ok)
           from  == Len(hits) * BlockSize + match.tokens
           need  == Missing(hits, from, n)
           spare == Without(free, ToSet(hits))
           held  == hits \o SubSeq(spare, 1, need)
       IN /\ from + n <= Len(tokens[r])
          /\ \/ /\ need <= Len(spare)
                /\ status' = [status EXCEPT ![r] = "running"]
                /\ Execute(r, match.metas, held, held, from, n, TRUE)
             \/ /\ meta' = match.metas
                /\ UNCHANGED <<load, workerVars, engineVars>>
  <2>1. ({TRUE} \cup (IF "lookup" \in load.faults THEN {FALSE} ELSE {})) \subseteq BOOLEAN
    OBVIOUS
  <2> QED
    BY <1>2, <2>1 DEF Admit
<1>4. waiting \in Seq(Requests) /\ waiting # <<>> /\ r = Head(waiting)
  BY <1>1 DEF Admit, Shapes
<1>5. /\ tokens \in [Requests -> Seq(Nat)] /\ tokens[r] \in Seq(Nat) /\ blocks \in [Requests -> Seq(DeviceBlocks)]
      /\ free \in Seq(DeviceBlocks) /\ IsInjective(free)
      /\ status \in [Requests -> {"new", "waiting", "running", "finished"}]
  BY <1>1 DEF Counted, Pool, Shapes
<1>6. status[r] = "waiting"
  <2>1. r \in ToSet(waiting)
    BY <1>1, <1>4, Dequeued DEF Queues
  <2> QED
    BY <1>1, <2>1 DEF Queues
<1>7. PICK h \in Nat : h = Len(hits) /\ h * BlockSize \in Nat /\ h * BlockSize <= Len(tokens[r])
  <2>1. Len(hits) \in Nat /\ Len(hits) * BlockSize <= Len(tokens[r])
    BY <1>1, <1>2, <1>5, HitsRight DEF Right
  <2>2. Len(hits) * BlockSize \in Nat
    BY <2>1, Times, Sizes
  <2> QED
    BY <2>1, <2>2
<1>8. PICK match : match = Match(r, h, ok) /\ match.tokens \in Nat /\ Notes(match.metas)
  BY <1>1, <1>5, <1>7, MatchOf DEF Shapes
<1>9. PICK metas : metas = match.metas /\ Notes(metas)
  BY <1>8
<1>10. \/ metas = meta
       \/ \E note : metas = Noted(r, note) /\ note.vllm_block_ids = <<>>
  <2>1. \/ match.tokens = 0 /\ match.metas = meta /\ Len(tokens[r]) < h * BlockSize + BlockSize
        \/ \E note : match.metas = Noted(r, note) /\ Found(r, h, match.tokens, note)
    BY <1>1, <1>5, <1>7, <1>8, MatchIs DEF Direct
  <2> QED
    BY <1>9, <2>1 DEF Found
<1>11. /\ \A q \in DOMAIN metas \ {r} : q \in DOMAIN meta /\ metas[q] = meta[q]
       /\ r \in DOMAIN metas => metas[r].vllm_block_ids = <<>>
  <2>1. CASE metas = meta
    BY <1>6, <2>1 DEF Unheld
  <2>2. CASE \E note : metas = Noted(r, note) /\ note.vllm_block_ids = <<>>
    BY <2>2 DEF Noted
  <2> QED
    BY <1>10, <2>1, <2>2
<1>12. PICK from \in Nat : from = h * BlockSize + match.tokens
  BY <1>7, <1>8
<1>13. PICK need : need = Missing(hits, from, n)
  OBVIOUS
<1>14. PICK spare : spare = Without(free, ToSet(hits))
  OBVIOUS
<1>15. PICK fresh : fresh = SubSeq(spare, 1, need)
  OBVIOUS
<1>16. PICK held : held = hits \o fresh
  OBVIOUS
<1>17. PICK needLoad \in BOOLEAN : needLoad = TRUE /\ needLoad
  OBVIOUS
<1>18. /\ from + n <= Len(tokens[r])
       /\ \/ /\ need <= Len(spare)
             /\ status' = [status EXCEPT ![r] = "running"]
             /\ Execute(r, metas, held, held, from, n, needLoad)
          \/ meta' = metas /\ UNCHANGED <<load, workerVars, engineVars>>
  BY <1>3, <1>7, <1>8, <1>9, <1>12, <1>13, <1>14, <1>15, <1>16, <1>17, Zenon
<1>19. CASE meta' = metas /\ UNCHANGED <<load, workerVars, engineVars>>
  <2>1. status' = status /\ blocks' = blocks
    BY <1>19 DEF engineVars
  <2> QED
    BY <1>6, <1>11, <1>19, <2>1 DEF NotesAgree, Unheld
<1>20. CASE need <= Len(spare) /\ status' = [status EXCEPT ![r] = "running"] /\ Execute(r, metas, held, held, from, n, needLoad)
  <2>1. spare \in Seq(DeviceBlocks) /\ IsInjective(spare)
    BY <1>5, <1>14, Filtered
  <2>2. need = (from + n + BlockSize - 1) \div BlockSize - h
    BY <1>7, <1>13 DEF Missing
  <2>3. n \in Nat \ {0} /\ h * BlockSize <= from /\ Len(tokens[r]) \in Nat
    BY <1>5, <1>7, <1>8, <1>12, Sizes
  <2>4. need \in Nat
    BY <1>18, <2>2, <2>3, JustEnough
  <2>5. fresh \in Seq(DeviceBlocks)
    BY <1>15, <1>20, <2>1, <2>4, Parts
  <2>6. held \in Seq(DeviceBlocks)
    BY <1>2, <1>16, <2>5, Joined
  <2>7. held = <<>> \o held
    BY <2>6
  <2>8. Carries(r, metas, held, held)
    BY <1>11, <2>7 DEF Carries
  <2> QED
    BY <1>5, <1>9, <1>20, <2>8, StepAgrees
<1> QED
  BY <1>18, <1>19, <1>20

\* A step that preempts no one.
NoPreemption == \A r \in Requests, n \in 1..Budget : ~Preempt(r, n)

\* A step that preempts no one keeps the notes agreeing, hence the KV right.
LEMMA NextAgrees ==
    Inv /\ Right /\ NotesAgree /\ Unheld /\ [Next]_vars /\ [NoPreemption]_vars => NotesAgree' /\ Unheld'
<1> SUFFICES ASSUME Inv, Right, NotesAgree, Unheld, [Next]_vars, [NoPreemption]_vars PROVE NotesAgree' /\ Unheld'
  OBVIOUS
<1>1. CASE UNCHANGED vars
  BY <1>1 DEF NotesAgree, Unheld, vars, engineVars
<1>2. ASSUME NEW r \in Requests, NEW n \in 1..Budget, Admit(r, n) \/ Continue(r, n) \/ Preempt(r, n), ~Preempt(r, n)
      PROVE  NotesAgree' /\ Unheld'
  BY <1>2, AdmitAgrees, ContinueAgrees
<1>3. Notes(meta) /\ status \in [Requests -> {"new", "waiting", "running", "finished"}] /\ blocks \in [Requests -> Seq(DeviceBlocks)]
  BY DEF Inv, Shapes, Pool
<1>4. ASSUME NEW r \in Requests, Arrive(r) PROVE NotesAgree' /\ Unheld'
  <2>1. status[r] = "new" /\ status' = [status EXCEPT ![r] = "waiting"] /\ meta' = meta /\ blocks' = blocks
    BY <1>4 DEF Arrive
  <2>2. r \notin DOMAIN meta
    BY <2>1 DEF Right, NotesAreRight
  <2>3. \A q \in Requests \cap DOMAIN meta :
           status'[q] = "finished" \/ (status'[q] = status[q] /\ blocks'[q] = blocks[q])
    BY <1>3, <2>1, <2>2
  <2> QED
    BY <1>3, <2>1, <2>3, MovedAgrees
<1>5. ASSUME NEW r \in Requests, Finish(r) PROVE NotesAgree' /\ Unheld'
  <2>1. status' = [status EXCEPT ![r] = "finished"] /\ meta' = meta /\ blocks' = [blocks EXCEPT ![r] = <<>>]
    BY <1>5 DEF Finish
  <2>2. \A q \in Requests \cap DOMAIN meta :
           status'[q] = "finished" \/ (status'[q] = status[q] /\ blocks'[q] = blocks[q])
    BY <1>3, <2>1
  <2> QED
    BY <1>3, <2>1, <2>2, MovedAgrees
<1>6. ~ComputeLayer /\ ~EndStep /\ loading = {} /\ dumping = {}
  BY DEF Right, Direct, ComputeLayer, EndStep
<1> QED
  BY <1>1, <1>2, <1>4, <1>5, <1>6 DEF Next, NoPreemption

\* As long as no request is preempted, the notes of the direct connector agree by themselves, so
\* that all it stores and all it counts as computed is right: what can go wrong starts with a
\* preempted request whose stale note is taken again, as get_num_new_matched_tokens leaves it
\* (ucm_connector.py 313-315).
THEOREM DirectUnpreempted ==
    Spec /\ load.kind = "direct" /\ "load" \notin load.faults /\ [][NoPreemption]_vars =>
        [](NotesAgree /\ StoredIsRight /\ ComputedIsRight)
<1> DEFINE Sound == Inv /\ Right /\ NotesAgree /\ Unheld
<1>1. Init /\ load.kind = "direct" /\ "load" \notin load.faults => Sound
  <2> SUFFICES ASSUME Init, load.kind = "direct", "load" \notin load.faults PROVE Sound
    OBVIOUS
  <2>1. Inv /\ Right
    BY InitInv, InitRight
  <2>2. DOMAIN meta = {}
    <3>1. DOMAIN <<>> = {}
      OBVIOUS
    <3> QED
      BY <3>1 DEF Init
  <2> QED
    BY <2>1, <2>2 DEF NotesAgree, Unheld
<1>2. Sound /\ [Next]_vars /\ [NoPreemption]_vars => Sound'
  <2> SUFFICES ASSUME Sound, [Next]_vars, [NoPreemption]_vars PROVE Sound'
    OBVIOUS
  <2>1. Inv'
    BY NextInv
  <2>2. NotesAgree' /\ Unheld'
    BY NextAgrees
  <2>3. Right'
    BY <2>1, <2>2, NextRight
  <2> QED
    BY <2>1, <2>2, <2>3
<1>3. Sound => NotesAgree /\ StoredIsRight /\ ComputedIsRight
  BY DEF Right, HoldsItsOwn, ComputedIsRight
<1> HIDE DEF Sound
<1> QED
  BY <1>1, <1>2, <1>3, PTL DEF Spec

=============================================================================
