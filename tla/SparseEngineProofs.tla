------------------------- MODULE SparseEngineProofs -------------------------
(***************************************************************************)
(* Proofs about the engine with its sparse methods: whatever the methods   *)
(* leave out of a block table, no block of the pool is lost or held twice  *)
(* (the block manager of vllm_patch.py under ESA, KVStar, GSA and ReRoPE). *)
(***************************************************************************)
EXTENDS SparseMethods, SequenceLemmas

----------------------------------------------------------------------------
(* Blocks: what is free, and what each request holds.                      *)

\* The blocks of S are free, once, or held by a request, which holds none twice.
Whole(bl, fr, S) ==
    /\ fr \in Seq(S) /\ IsInjective(fr)
    /\ bl \in [Requests -> Seq(S)]
    /\ \A r \in Requests : IsInjective(bl[r]) /\ ToSet(bl[r]) \cap ToSet(fr) = {}
    /\ S \subseteq ToSet(fr) \cup UNION {ToSet(bl[r]) : r \in Requests}

Others(bl, r) == UNION {ToSet(bl[q]) : q \in Requests \ {r}}

\* With the blocks bs for r and the free list fr nothing is lost or used twice.
Fits(bl, r, bs, fr, S) ==
    /\ bs \in Seq(S) /\ IsInjective(bs)
    /\ fr \in Seq(S) /\ IsInjective(fr)
    /\ ToSet(fr) \cap (ToSet(bs) \cup Others(bl, r)) = {}
    /\ S \subseteq ToSet(fr) \cup ToSet(bs) \cup Others(bl, r)

\* Only blocks of the device are cached.
CacheIn(ca, S) == \A v \in 1..HbmBlocks : ca[v] # Junk => v \in S

\* What a request holds already fits it.
LEMMA OwnFits ==
    ASSUME NEW S, NEW bl, NEW fr, Whole(bl, fr, S), NEW r \in Requests
    PROVE  Fits(bl, r, bl[r], fr, S)
<1>1. UNION {ToSet(bl[q]) : q \in Requests} = ToSet(bl[r]) \cup Others(bl, r)
  BY DEF Others
<1>2. ToSet(fr) \cap Others(bl, r) = {}
  BY DEF Others, Whole
<1> QED
  BY <1>1, <1>2 DEF Whole, Fits

\* A request takes the blocks that fit it.
LEMMA Given ==
    ASSUME NEW S, NEW bl, NEW old, Whole(bl, old, S), NEW r \in Requests, NEW bs, NEW fr, Fits(bl, r, bs, fr, S)
    PROVE  Whole([bl EXCEPT ![r] = bs], fr, S)
<1> DEFINE new == [bl EXCEPT ![r] = bs]
<1>1. new \in [Requests -> Seq(S)] /\ new[r] = bs /\ \A q \in Requests \ {r} : new[q] = bl[q]
  BY DEF Whole, Fits
<1> HIDE DEF new
<1>2. \A q \in Requests : IsInjective(new[q])
  BY <1>1 DEF Whole, Fits
<1>3. \A q \in Requests \ {r} : ToSet(bl[q]) \subseteq Others(bl, r)
  BY DEF Others
<1>4. \A q \in Requests : ToSet(new[q]) \cap ToSet(fr) = {}
  BY <1>1, <1>3 DEF Fits
<1>5. UNION {ToSet(new[q]) : q \in Requests} = ToSet(bs) \cup Others(bl, r)
  BY <1>1 DEF Others
<1> QED
  BY <1>1, <1>2, <1>4, <1>5 DEF Whole, Fits, new

\* A request keeps some of its blocks; those of the others that nobody else holds become free.
LEMMA ReleasedFits ==
    ASSUME NEW S, NEW bl, NEW fr, Whole(bl, fr, S), NEW r \in Requests,
           NEW kept \in Seq(S), IsInjective(kept), ToSet(kept) \subseteq ToSet(bl[r]),
           NEW t \in Seq(S), IsInjective(t), ToSet(t) = (ToSet(bl[r]) \ ToSet(kept)) \ Others(bl, r)
    PROVE  Fits(bl, r, kept, fr \o t, S)
<1>1. Fits(bl, r, bl[r], fr, S)
  BY OwnFits
<1>2. fr \in Seq(S) /\ IsInjective(fr) /\ ToSet(fr) \cap ToSet(t) = {}
  BY <1>1 DEF Fits
<1>3. fr \o t \in Seq(S) /\ ToSet(fr \o t) = ToSet(fr) \cup ToSet(t)
  BY <1>2, Joined
<1>4. IsInjective(fr \o t)
  BY <1>2, JoinedApart
<1>5. ToSet(fr \o t) \cap (ToSet(kept) \cup Others(bl, r)) = {}
  BY <1>1, <1>3 DEF Fits
<1>6. S \subseteq ToSet(fr \o t) \cup ToSet(kept) \cup Others(bl, r)
  BY <1>1, <1>3 DEF Fits
<1> QED
  BY <1>3, <1>4, <1>5, <1>6 DEF Fits

\* What Without leaves of a list.
LEMMA Filtered ==
    ASSUME NEW T, NEW s \in Seq(T), NEW S
    PROVE  /\ Without(s, S) \in Seq(T)
           /\ ToSet(Without(s, S)) = ToSet(s) \ S
           /\ IsInjective(s) => IsInjective(Without(s, S))
<1>1. Without(s, S) = Kept(s, S)
  BY Zenon DEF Without, Kept
<1> QED
  BY <1>1, KeptOf

\* A list falls into its first k members and the others, also when k is below zero.
LEMMA Split ==
    ASSUME NEW T, NEW s \in Seq(T), IsInjective(s), NEW k \in Int, k <= Len(s)
    PROVE  LET u == SubSeq(s, 1, k)
               v == SubSeq(s, Len(u) + 1, Len(s))
           IN /\ u \in Seq(T) /\ IsInjective(u) /\ v \in Seq(T) /\ IsInjective(v)
              /\ Len(u) \in Nat /\ k <= Len(u)
              /\ ToSet(u) \cap ToSet(v) = {} /\ ToSet(u) \cup ToSet(v) = ToSet(s)
<1>1. PICK u : u = SubSeq(s, 1, k)
  OBVIOUS
<1>2. PICK v : v = SubSeq(s, Len(u) + 1, Len(s))
  OBVIOUS
<1>3. CASE k >= 0
  <2>1. k \in Nat
    BY <1>3
  <2>2. Len(u) = k
    BY <1>1, <2>1, Parts
  <2>3. v = SubSeq(s, k + 1, Len(s))
    BY <1>2, <2>2
  <2> QED
    BY <1>1, <1>2, <2>1, <2>2, <2>3, Parts
<1>4. CASE k < 0
  <2>1. u = <<>>
    BY <1>1, <1>4
  <2>2. Len(u) = 0 /\ u \in Seq(T) /\ DOMAIN u = {} /\ ToSet(u) = {}
    BY <2>1 DEF ToSet
  <2>3. IsInjective(u)
    BY <2>2 DEF IsInjective
  <2>4. v = s
    BY <1>2, <2>2
  <2>5. k <= Len(u)
    BY <1>4, <2>2
  <2>6. ToSet(u) \cap ToSet(v) = {} /\ ToSet(u) \cup ToSet(v) = ToSet(s)
    BY <2>2, <2>4
  <2>7. v \in Seq(T) /\ IsInjective(v)
    BY <2>4
  <2> QED
    BY <1>1, <1>2, <2>2, <2>3, <2>5, <2>6, <2>7
<1> QED
  BY <1>3, <1>4

----------------------------------------------------------------------------
(* Allocations.                                                            *)

\* The sizes that the engine is configured with.
LEMMA Sizes == BlockSize \in Nat \ {0} /\ HbmBlocks \in Nat \ {0} /\ MaxOutput \in Nat \ {0} /\ MaxRunning \in Nat \ {0}
BY SparseEngineAssumption

\* All the blocks are reported, those that were kept and those that were taken.
LEMMA TakenAll ==
    ASSUME NEW bs, NEW fr, NEW ca, NEW n, NEW a, a = TakeBlocks(bs, fr, ca, n)
    PROVE  a.ok => a.blocks = a.new
BY DEF TakeBlocks, Allocation

\* Full blocks are no more than the blocks that are needed.
LEMMA FullBlocks ==
    ASSUME NEW x \in Int
    PROVE  Ceil(x, BlockSize) \in Int /\ x \div BlockSize \in Int /\ x \div BlockSize <= Ceil(x, BlockSize)
<1>1. PICK b \in Nat \ {0} : b = BlockSize
  BY Sizes
<1>2. PICK y \in Int : y = x + b - 1
  OBVIOUS
<1>3. x \div b \in Int /\ x % b \in 0..(b - 1) /\ x = b * (x \div b) + (x % b)
  OBVIOUS
<1>4. y \div b \in Int /\ y % b \in 0..(b - 1) /\ y = b * (y \div b) + (y % b)
  OBVIOUS
<1>5. PICK p \in Int, q \in Int : p = x \div b /\ q = y \div b
  BY <1>3, <1>4
<1>6. b * p <= x /\ y < b * q + b
  BY <1>3, <1>4, <1>5
<1>7. b * p < b * q + b
  BY <1>2, <1>3, <1>4, <1>5
<1>8. p <= q
  <2>1. CASE p >= q + 1
    <3>1. b * p >= b * (q + 1)
      BY <2>1
    <3>2. b * (q + 1) = b * q + b
      OBVIOUS
    <3> QED
      BY <1>7, <3>1, <3>2
  <2> QED
    BY <2>1
<1> QED
  BY <1>1, <1>2, <1>5, <1>8 DEF Ceil

\* TakeBlocks, as ESA and KVStar use it: the blocks are taken from the free ones, or none is.
LEMMA TakenFits ==
    ASSUME NEW S, NEW bl, NEW r \in Requests, NEW bs, NEW fr, Fits(bl, r, bs, fr, S),
           NEW ca, CacheIn(ca, S), NEW n \in Int, NEW a, a = TakeBlocks(bs, fr, ca, n)
    PROVE  /\ Fits(bl, r, a.blocks, a.free, S) /\ CacheIn(a.cached, S) /\ a.ok \in BOOLEAN
           /\ ~a.ok => a.blocks = bs
<1>1. Len(bs) \in Nat /\ Len(fr) \in Nat /\ Ceil(n, BlockSize) \in Int
  <2>1. bs \in Seq(S) /\ fr \in Seq(S)
    BY DEF Fits
  <2>2. Ceil(n, BlockSize) \in Int
    BY FullBlocks
  <2> QED
    BY <2>1, <2>2
<1>2. PICK need \in Int : need = Ceil(n, BlockSize) - Len(bs)
  BY <1>1
<1>3. CASE need > Len(fr)
  <2>1. a = [ok |-> FALSE, blocks |-> bs, free |-> fr, cached |-> ca, new |-> <<>>]
    BY <1>2, <1>3, Zenon DEF TakeBlocks, Allocation
  <2> QED
    BY <2>1
<1>4. CASE ~(need > Len(fr))
  <2>1. PICK fresh : fresh = SubSeq(fr, 1, need)
    OBVIOUS
  <2>2. PICK rest : rest = SubSeq(fr, Len(fresh) + 1, Len(fr))
    OBVIOUS
  <2>3. a = [ok |-> TRUE, blocks |-> bs \o fresh, free |-> rest,
             cached |-> [v \in 1..HbmBlocks |-> IF v \in ToSet(fresh) THEN Junk ELSE ca[v]], new |-> bs \o fresh]
    BY <1>2, <1>4, <2>1, <2>2, Zenon DEF TakeBlocks, Allocation
  <2>4. need <= Len(fr)
    BY <1>1, <1>4
  <2>5. /\ fresh \in Seq(S) /\ IsInjective(fresh) /\ rest \in Seq(S) /\ IsInjective(rest)
        /\ ToSet(fresh) \cap ToSet(rest) = {} /\ ToSet(fresh) \cup ToSet(rest) = ToSet(fr)
    <3>1. fr \in Seq(S) /\ IsInjective(fr)
      BY DEF Fits
    <3> QED
      BY <2>1, <2>2, <2>4, <3>1, Split
  <2>6. bs \in Seq(S) /\ IsInjective(bs) /\ ToSet(bs) \cap ToSet(fr) = {}
    BY DEF Fits
  <2>7. bs \o fresh \in Seq(S) /\ ToSet(bs \o fresh) = ToSet(bs) \cup ToSet(fresh)
    BY <2>5, <2>6, Joined
  <2>8. IsInjective(bs \o fresh)
    <3>1. ToSet(bs) \cap ToSet(fresh) = {}
      BY <2>5, <2>6
    <3> QED
      BY <2>5, <2>6, <3>1, JoinedApart
  <2>9. ToSet(rest) \cap (ToSet(bs \o fresh) \cup Others(bl, r)) = {}
    BY <2>5, <2>6, <2>7 DEF Fits
  <2>10. S \subseteq ToSet(rest) \cup ToSet(bs \o fresh) \cup Others(bl, r)
    BY <2>5, <2>7 DEF Fits
  <2>11. Fits(bl, r, bs \o fresh, rest, S)
    BY <2>5, <2>7, <2>8, <2>9, <2>10 DEF Fits
  <2>12. CacheIn(a.cached, S)
    BY <2>3 DEF CacheIn
  <2> QED
    BY <2>3, <2>11, <2>12
<1> QED
  BY <1>3, <1>4

\* vLLM's allocate_slots, which the other methods use and dense steps: likewise, behind the hits,
\* and what becomes cached are blocks of the request.
LEMMA OriginalFits ==
    ASSUME NEW S, Whole(blocks, free, S), CacheIn(cached, S), NEW r \in Requests, NEW from \in Int, NEW n \in Int,
           NEW hits \in Seq(S), IsInjective(hits), ToSet(hits) \cap ToSet(blocks[r]) = {},
           NEW a, a = original_allocate_slots(r, from, n, hits)
    PROVE  /\ Fits(blocks, r, a.blocks, a.free, S) /\ CacheIn(a.cached, S) /\ a.ok \in BOOLEAN
           /\ ~a.ok => a.blocks = blocks[r]
<1>1. PICK x \in Int : x = from + n
  OBVIOUS
<1>2. PICK B : B = blocks[r]
  OBVIOUS
<1>3. PICK known : known = B \o hits
  OBVIOUS
<1>4. B \in Seq(S) /\ IsInjective(B) /\ ToSet(B) \cap ToSet(free) = {} /\ free \in Seq(S) /\ IsInjective(free)
  BY <1>2 DEF Whole
<1>5. known \in Seq(S) /\ Len(known) \in Nat /\ ToSet(known) = ToSet(B) \cup ToSet(hits)
  BY <1>3, <1>4, Joined
<1>6. IsInjective(known)
  BY <1>2, <1>3, <1>4, JoinedApart
<1>7. PICK need \in Int : need = Ceil(x, BlockSize) - Len(known)
  <2>1. Ceil(x, BlockSize) \in Int
    BY FullBlocks
  <2> QED
    BY <1>5, <2>1
<1>8. PICK spare : spare = Without(free, ToSet(hits))
  OBVIOUS
<1>9. spare \in Seq(S) /\ IsInjective(spare) /\ ToSet(spare) = ToSet(free) \ ToSet(hits) /\ Len(spare) \in Nat
  <2>1. PICK s \in Seq(S) : s = free
    BY <1>4
  <2>2. PICK H : H = ToSet(hits)
    OBVIOUS
  <2>3. IsInjective(s)
    BY <1>4, <2>1
  <2>4. /\ Without(s, H) \in Seq(S) /\ IsInjective(Without(s, H))
        /\ ToSet(Without(s, H)) = ToSet(s) \ H
    BY <2>3, Filtered
  <2>5. spare = Without(s, H)
    BY <1>8, <2>1, <2>2, Zenon
  <2> QED
    BY <2>1, <2>2, <2>4, <2>5
<1>10. CASE need > Len(spare)
  <2>1. a = [ok |-> FALSE, blocks |-> blocks[r], free |-> free, cached |-> cached, new |-> <<>>]
    BY <1>1, <1>2, <1>3, <1>7, <1>8, <1>10, Zenon DEF original_allocate_slots, Allocation
  <2>2. Fits(blocks, r, blocks[r], free, S)
    BY OwnFits
  <2> QED
    BY <2>1, <2>2
<1>11. CASE ~(need > Len(spare))
  <2>1. PICK fresh : fresh = SubSeq(spare, 1, need)
    OBVIOUS
  <2>2. PICK rest : rest = SubSeq(spare, Len(fresh) + 1, Len(spare))
    OBVIOUS
  <2>3. PICK all : all = known \o fresh
    OBVIOUS
  <2> DEFINE full == 1..(x \div BlockSize)
             ca == [v \in 1..HbmBlocks |->
                      IF \E i \in full : all[i] = v
                      THEN SubSeq(tokens[r], 1, BlockSize * CHOOSE i \in full : all[i] = v)
                      ELSE IF v \in ToSet(fresh) THEN Junk ELSE cached[v]]
  <2>4. a = [ok |-> TRUE, blocks |-> all, free |-> rest, cached |-> ca, new |-> fresh]
    BY <1>1, <1>2, <1>3, <1>7, <1>8, <1>11, <2>1, <2>2, <2>3, Zenon DEF original_allocate_slots, Allocation
  <2>5. need <= Len(spare)
    BY <1>9, <1>11
  <2>6. /\ fresh \in Seq(S) /\ IsInjective(fresh) /\ rest \in Seq(S) /\ IsInjective(rest)
        /\ Len(fresh) \in Nat /\ need <= Len(fresh)
        /\ ToSet(fresh) \cap ToSet(rest) = {} /\ ToSet(fresh) \cup ToSet(rest) = ToSet(spare)
    BY <1>9, <2>1, <2>2, <2>5, Split
  <2>7. ToSet(known) \cap ToSet(fresh) = {}
    BY <1>2, <1>4, <1>5, <1>9, <2>6
  <2>8. all \in Seq(S) /\ Len(all) = Len(known) + Len(fresh) /\ ToSet(all) = ToSet(known) \cup ToSet(fresh)
    BY <1>5, <2>3, <2>6, Joined
  <2>9. IsInjective(all)
    BY <1>5, <1>6, <2>3, <2>6, <2>7, JoinedApart
  <2>10. Fits(blocks, r, B, free, S)
    BY <1>2, OwnFits
  <2>11. ToSet(rest) \cap (ToSet(all) \cup Others(blocks, r)) = {}
    <3>1. ToSet(rest) \subseteq ToSet(free) \ ToSet(hits)
      BY <1>9, <2>6
    <3>2. ToSet(free) \cap Others(blocks, r) = {}
      BY <2>10 DEF Fits
    <3>3. ToSet(rest) \cap ToSet(all) = {}
      BY <1>4, <1>5, <2>6, <2>8, <3>1
    <3> QED
      BY <3>1, <3>2, <3>3
  <2>12. S \subseteq ToSet(rest) \cup ToSet(all) \cup Others(blocks, r)
    <3>1. S \subseteq ToSet(free) \cup ToSet(B) \cup Others(blocks, r)
      BY <2>10 DEF Fits
    <3>2. ToSet(free) \subseteq ToSet(rest) \cup ToSet(all)
      BY <1>5, <1>9, <2>6, <2>8
    <3>3. ToSet(B) \subseteq ToSet(all)
      BY <1>5, <2>8
    <3> QED
      BY <3>1, <3>2, <3>3
  <2>13. Fits(blocks, r, all, rest, S)
    BY <2>6, <2>8, <2>9, <2>11, <2>12 DEF Fits
  <2>14. \A i \in full : all[i] \in S
    <3>1. x \div BlockSize \in Int /\ x \div BlockSize <= Len(all)
      <4>1. PICK p \in Int, q \in Int : p = x \div BlockSize /\ q = Ceil(x, BlockSize) /\ p <= q
        BY FullBlocks
      <4>2. q = need + Len(known)
        BY <1>5, <1>7, <4>1
      <4>3. q <= Len(all)
        BY <1>5, <2>6, <2>8, <4>2
      <4> QED
        BY <1>5, <2>6, <2>8, <4>1, <4>3
    <3>2. \A i \in full : i \in 1..Len(all)
      BY <1>5, <2>6, <2>8, <3>1
    <3> QED
      BY <2>8, <3>2
  <2>15. ASSUME NEW v \in 1..HbmBlocks, ca[v] # Junk PROVE v \in S
    <3>1. CASE \E i \in full : all[i] = v
      <4> HIDE DEF full
      <4> QED
        BY <2>14, <3>1
    <3>2. CASE ~\E i \in full : all[i] = v
      <4>1. ca[v] = IF v \in ToSet(fresh) THEN Junk ELSE cached[v]
        <5> HIDE DEF full
        <5> QED
          BY <3>2
      <4> QED
        BY <2>15, <4>1 DEF CacheIn
    <3> QED
      BY <3>1, <3>2
  <2> HIDE DEF ca
  <2>16. CacheIn(ca, S)
    BY <2>15 DEF CacheIn
  <2> QED
    BY <2>4, <2>13, <2>16
<1> QED
  BY <1>10, <1>11

\* The blocks found cached are blocks of the device, one for each length: get_computed_blocks.
LEMMA HitsOf ==
    ASSUME NEW S, CacheIn(cached, S), tokens \in [Requests -> Seq(Nat)], NEW r \in Requests
    PROVE  CachedPrefix(r) \in Seq(S) /\ IsInjective(CachedPrefix(r))
<1>1. PICK t \in Seq(Nat) : t = tokens[r]
  OBVIOUS
<1>2. PICK b \in Nat \ {0} : b = BlockSize
  BY Sizes
<1>3. PICK m \in Nat : 1..m = 1..((Len(t) - 1) \div b) /\ \A i \in 1..m : i * b \in Nat /\ i * b >= 1 /\ i * b <= Len(t)
  <2>1. Len(t) \in Nat
    OBVIOUS
  <2>2. CASE Len(t) = 0
    <3>1. PICK q \in Int : q = (0 - 1) \div b /\ b * q <= 0 - 1
      <4>1. (0 - 1) \div b \in Int /\ (0 - 1) % b \in 0..(b - 1) /\ 0 - 1 = b * ((0 - 1) \div b) + ((0 - 1) % b)
        OBVIOUS
      <4>2. PICK q \in Int : q = (0 - 1) \div b
        BY <4>1
      <4>3. b * q <= 0 - 1
        BY <4>1, <4>2
      <4> QED
        BY <4>2, <4>3
    <3>2. q < 0
      <4>1. CASE q >= 0
        <5>1. PICK z \in Int : z = b * q /\ z >= 0
          BY <4>1
        <5>2. z <= 0 - 1
          BY <3>1, <5>1
        <5>3. z >= 0
          BY <5>1
        <5> QED
          BY <5>2, <5>3
      <4> QED
        BY <4>1
    <3>3. 1..0 = 1..q /\ 1..0 = {}
      BY <3>2
    <3>4. (Len(t) - 1) \div b = q
      BY <2>2, <3>1
    <3> QED
      BY <3>3, <3>4
  <2>3. CASE Len(t) # 0
    <3>1. PICK l \in Nat : l = Len(t) - 1
      <4>1. Len(t) - 1 \in Nat
        BY <2>1, <2>3
      <4> QED
        BY <4>1
    <3>2. PICK m \in Nat : m = l \div b /\ b * m <= l
      BY <3>1, Divided
    <3>3. ASSUME NEW i \in 1..m PROVE i * b \in Nat /\ i * b >= 1 /\ i * b <= Len(t)
      <4>1. i \in Nat /\ i # 0 /\ i <= m
        BY <3>2
      <4>2. i * b \in Nat /\ i * b <= m * b /\ i * b >= b /\ m * b = b * m
        BY <3>2, <4>1, Times
      <4>3. PICK x \in Nat, y \in Nat : x = i * b /\ y = b * m /\ x <= y /\ x >= b
        BY <4>2
      <4>4. y <= l /\ x <= y /\ x >= b
        BY <3>2, <4>3
      <4>5. x >= 1 /\ x <= Len(t)
        BY <2>1, <3>1, <4>4
      <4> QED
        BY <4>3, <4>5
    <3> QED
      BY <3>1, <3>2, <3>3
  <2> QED
    BY <2>2, <2>3
<1> DEFINE ids == [i \in 1..m |-> SubSeq(t, 1, i * b)]
           hit(i) == \E v \in 1..HbmBlocks : cached[v] = ids[i]
           n == CHOOSE k \in 0..m : (\A i \in 1..k : hit(i)) /\ (k < m => ~hit(k + 1))
           spot(i) == CHOOSE v \in 1..HbmBlocks : cached[v] = ids[i]
<1>4. Len(ids) = m
  OBVIOUS
<1>5. CachedPrefix(r) = [i \in 1..n |-> spot(i)]
  <2> DEFINE all == [i \in 1..((Len(tokens[r]) - 1) \div BlockSize) |-> SubSeq(tokens[r], 1, i * BlockSize)]
             Prefix(f, l) ==
               [i \in 1..(CHOOSE k \in 0..l :
                             (\A j \in 1..k : \E v \in 1..HbmBlocks : cached[v] = f[j])
                             /\ (k < l => ~\E v \in 1..HbmBlocks : cached[v] = f[k + 1]))
                  |-> CHOOSE v \in 1..HbmBlocks : cached[v] = f[i]]
  <2>1. all = ids
    BY <1>1, <1>2, <1>3
  <2>2. CachedPrefix(r) = Prefix(all, Len(all))
    BY Zenon DEF CachedPrefix
  <2>3. Prefix(ids, m) = [i \in 1..n |-> spot(i)]
    OBVIOUS
  <2> HIDE DEF all, ids, Prefix, n, spot
  <2>4. Len(all) = m
    BY <1>4, <2>1, Zenon
  <2> QED
    BY <2>1, <2>2, <2>3, <2>4, Zenon
<1>6. ASSUME NEW i \in 1..m PROVE ids[i] # Junk /\ Len(ids[i]) = i * b
  <2>1. PICK l \in Nat : l = i * b /\ l >= 1 /\ l <= Len(t)
    BY <1>3
  <2>2. ids[i] = SubSeq(t, 1, l)
    BY <2>1
  <2> HIDE DEF ids
  <2>3. Len(ids[i]) = l
    BY <2>1, <2>2
  <2> QED
    BY <2>1, <2>3 DEF Junk
<1> HIDE DEF ids
<1>7. n \in 0..m /\ \A i \in 1..n : hit(i)
  <2> DEFINE T == {k \in 0..m : k < m => ~hit(k + 1)}
  <2> HIDE DEF hit
  <2>1. T \in SUBSET Nat /\ m \in T
    OBVIOUS
  <2>2. PICK k \in T : \A j \in T : k <= j
    <3> HIDE DEF T
    <3> QED
      BY <2>1, NatLeast
  <2>3. ASSUME NEW i \in 1..k PROVE hit(i)
    <3>1. i - 1 \in 0..m /\ i - 1 < k /\ i - 1 < m /\ (i - 1) + 1 = i
      BY <2>2
    <3>2. i - 1 \notin T
      <4>1. \A j \in T : k <= j
        BY <2>2
      <4>2. ~(k <= i - 1)
        BY <2>2, <3>1
      <4> HIDE DEF T
      <4> QED
        BY <4>1, <4>2
    <3> QED
      BY <3>1, <3>2
  <2>4. k \in 0..m /\ (\A i \in 1..k : hit(i)) /\ (k < m => ~hit(k + 1))
    BY <2>2, <2>3
  <2> QED
    BY <2>4, Zenon
<1> HIDE DEF n
<1>8. ASSUME NEW i \in 1..n PROVE spot(i) \in S /\ cached[spot(i)] = ids[i] /\ i \in 1..m
  <2>1. i \in 1..m /\ \E v \in 1..HbmBlocks : cached[v] = ids[i]
    <3>1. hit(i)
      BY <1>7
    <3>2. n \in 0..m
      BY <1>7
    <3>3. i \in 1..m
      BY <3>2
    <3> QED
      BY <3>1, <3>3
  <2>2. spot(i) \in 1..HbmBlocks /\ cached[spot(i)] = ids[i]
    BY <2>1
  <2> HIDE DEF spot
  <2> QED
    BY <1>6, <2>1, <2>2 DEF CacheIn
<1> HIDE DEF spot
<1>9. CachedPrefix(r) \in Seq(S) /\ DOMAIN CachedPrefix(r) = 1..n
  <2>1. n \in Nat
    BY <1>7
  <2>2. [i \in 1..n |-> spot(i)] \in [1..n -> S]
    BY <1>8
  <2>3. [i \in 1..n |-> spot(i)] \in Seq(S)
    BY <2>1, <2>2
  <2> QED
    BY <1>5, <2>3
<1>10. ASSUME NEW i \in 1..n, NEW j \in 1..n, CachedPrefix(r)[i] = CachedPrefix(r)[j] PROVE i = j
  <2>1. spot(i) = spot(j)
    BY <1>5, <1>10
  <2>2. ids[i] = ids[j] /\ i \in 1..m /\ j \in 1..m
    BY <1>8, <2>1
  <2>3. i * b = j * b
    BY <1>6, <2>2
  <2>4. i \in Nat /\ j \in Nat
    BY <1>7
  <2>5. i < j => i * b < j * b
    BY <2>4, Times
  <2>6. j < i => j * b < i * b
    BY <2>4, Times
  <2>7. i * b \in Nat /\ j * b \in Nat
    BY <2>4, Times
  <2> QED
    BY <2>3, <2>4, <2>5, <2>6, <2>7
<1> QED
  BY <1>9, <1>10 DEF IsInjective

----------------------------------------------------------------------------
(* The invariant.                                                          *)

Statuses == {"new", "WAITING", "RUNNING", "PREEMPTED", "FINISHED"}

\* A request is in one queue at most, once; one that has not come is in none.
Queues ==
    /\ load \in Loads
    /\ status \in [Requests -> Statuses]
    /\ waiting \in Seq(Requests) /\ IsInjective(waiting)
    /\ running \in Seq(Requests) /\ IsInjective(running)
    /\ ToSet(waiting) \cap ToSet(running) = {}
    /\ \A r \in Requests : status[r] = "new" => r \notin ToSet(waiting) \cup ToSet(running)

\* The output of schedule so far counts the tokens of each request in its order.
Counted(o) ==
    /\ DOMAIN o = {"order", "new", "resumed", "n", "slots", "blocks"}
    /\ o.order \in Seq(Requests) /\ ToSet(o.order) \subseteq DOMAIN o.n
    /\ \A r \in DOMAIN o.n : o.n[r] \in Int

\* Counters are numbers, and no token of a prompt is lost.
Numbers ==
    /\ tokens \in [Requests -> Seq(Nat)] /\ computed \in [Requests -> Int]
    /\ \A r \in Requests : Len(Prompt(r)) <= Len(tokens[r])
    /\ at \in Nat \ {0} /\ budget \in Int
    /\ Counted(out)

\* Nothing is lost or used twice, and only running requests hold blocks.
Pool ==
    /\ Whole(blocks, free, 1..load.hbm)
    /\ CacheIn(cached, 1..load.hbm)
    /\ \A r \in Requests : r \notin ToSet(running) => blocks[r] = <<>>

Inv == Queues /\ Numbers /\ Pool

\* What allocate_slots answers for r can be carried out.
Sound(r, a) ==
    /\ Fits(blocks, r, a.blocks, a.free, 1..load.hbm) /\ CacheIn(a.cached, 1..load.hbm)
    /\ a.ok \in BOOLEAN

\* The invariant is about these variables.
LEMMA Frame ==
    ASSUME Inv, UNCHANGED <<load, status, waiting, running, tokens, computed, blocks, free, cached, at, budget, out>>
    PROVE  Inv'
BY DEF Inv, Queues, Numbers, Counted, Pool, Whole, CacheIn, Prompt

\* A load has prompts and limits that are numbers.
LEMMA LoadOf ==
    ASSUME load \in Loads
    PROVE  /\ load.prompt \in [Requests -> Seq(Nat)] /\ load.stored \in [Requests -> Nat]
           /\ load.hbm \in 1..HbmBlocks /\ load.budget \in Nat /\ load.threshold \in Nat
BY SparseEngineAssumption DEF LoadShape

\* The tokens of a step are counted.
LEMMA NewTokensInt ==
    ASSUME Inv, NEW r \in Requests, NEW done \in Int
    PROVE  NewTokens(r, done) \in Int
<1>1. Len(tokens[r]) \in Nat /\ budget \in Int /\ load.threshold \in Nat
  BY LoadOf DEF Inv, Queues, Numbers
<1> QED
  BY <1>1 DEF NewTokens, Least

\* The last of a queue, and those before it.
LEMMA LastOf ==
    ASSUME NEW T, NEW s \in Seq(T), IsInjective(s), Len(s) # 0
    PROVE  /\ Front(s) \in Seq(T) /\ IsInjective(Front(s)) /\ Last(s) \in T
           /\ ToSet(s) = ToSet(Front(s)) \cup {Last(s)} /\ Last(s) \notin ToSet(Front(s))
<1>1. PICK k \in Nat : k + 1 = Len(s)
  <2>1. Len(s) \in Nat
    OBVIOUS
  <2>2. PICK l \in Nat : l = Len(s)
    BY <2>1
  <2>3. l - 1 \in Nat /\ (l - 1) + 1 = l
    BY <2>2
  <2> QED
    BY <2>2, <2>3
<1>2. Front(s) = SubSeq(s, 1, k) /\ Last(s) = s[k + 1]
  BY <1>1 DEF Front, Last
<1>3. PICK v : v = SubSeq(s, k + 1, Len(s))
  OBVIOUS
<1>4. v \in Seq(T) /\ Len(v) = 1 /\ v[1] = s[k + 1]
  BY <1>1, <1>3
<1>5. ToSet(v) = {s[k + 1]} /\ s[k + 1] \in T
  <2>1. ToSet(v) = {v[i] : i \in 1..Len(v)}
    BY <1>4, SetOf
  <2>2. ToSet(v) = {s[k + 1]}
    BY <1>4, <2>1
  <2>3. k + 1 \in 1..Len(s)
    BY <1>1
  <2> QED
    BY <2>2, <2>3
<1>6. /\ SubSeq(s, 1, k) \in Seq(T) /\ IsInjective(SubSeq(s, 1, k))
      /\ ToSet(SubSeq(s, 1, k)) \cap ToSet(v) = {} /\ ToSet(SubSeq(s, 1, k)) \cup ToSet(v) = ToSet(s)
  <2>1. k <= Len(s)
    BY <1>1
  <2> QED
    BY <1>3, <2>1, Parts
<1>7. PICK F : F = SubSeq(s, 1, k)
  OBVIOUS
<1>8. PICK x : x = s[k + 1]
  OBVIOUS
<1>9. F \in Seq(T) /\ IsInjective(F) /\ ToSet(s) = ToSet(F) \cup {x} /\ x \in T /\ x \notin ToSet(F)
  BY <1>5, <1>6, <1>7, <1>8
<1> QED
  BY <1>2, <1>7, <1>8, <1>9, Zenon

\* The first of a queue, and those behind it.
LEMMA FirstOf ==
    ASSUME NEW T, NEW s \in Seq(T), IsInjective(s), s # <<>>
    PROVE  /\ Tail(s) \in Seq(T) /\ IsInjective(Tail(s)) /\ Head(s) \in T
           /\ ToSet(s) = ToSet(Tail(s)) \cup {Head(s)} /\ Head(s) \notin ToSet(Tail(s))
<1>1. Len(s) \in Nat /\ 1 <= Len(s)
  BY EmptySeq
<1>2. Tail(s) = SubSeq(s, 1 + 1, Len(s)) /\ Head(s) = s[1]
  BY <1>1
<1>3. PICK u : u = SubSeq(s, 1, 1)
  OBVIOUS
<1>4. u \in Seq(T) /\ Len(u) = 1 /\ u[1] = s[1]
  BY <1>1, <1>3
<1>5. ToSet(u) = {s[1]} /\ s[1] \in T
  BY <1>1, <1>4, SetOf
<1>6. /\ SubSeq(s, 1 + 1, Len(s)) \in Seq(T) /\ IsInjective(SubSeq(s, 1 + 1, Len(s)))
      /\ ToSet(u) \cap ToSet(SubSeq(s, 1 + 1, Len(s))) = {} /\ ToSet(u) \cup ToSet(SubSeq(s, 1 + 1, Len(s))) = ToSet(s)
  BY <1>1, <1>3, Parts
<1> QED
  BY <1>2, <1>5, <1>6

\* A list of one.
LEMMA OneOf ==
    ASSUME NEW T, NEW x \in T
    PROVE  <<x>> \in Seq(T) /\ IsInjective(<<x>>) /\ ToSet(<<x>>) = {x}
<1>1. <<x>> \in Seq(T) /\ Len(<<x>>) = 1 /\ DOMAIN <<x>> = {1} /\ <<x>>[1] = x
  OBVIOUS
<1> QED
  BY <1>1 DEF ToSet, IsInjective

\* A queue that a request joins at its end.
LEMMA Appended ==
    ASSUME NEW T, NEW s \in Seq(T), IsInjective(s), NEW x \in T, x \notin ToSet(s)
    PROVE  Append(s, x) \in Seq(T) /\ IsInjective(Append(s, x)) /\ ToSet(Append(s, x)) = ToSet(s) \cup {x}
<1>1. PICK u : u = <<x>>
  OBVIOUS
<1>2. Append(s, x) = s \o u
  BY <1>1
<1>3. u \in Seq(T) /\ IsInjective(u) /\ ToSet(u) = {x}
  BY <1>1, OneOf
<1>4. s \o u \in Seq(T) /\ ToSet(s \o u) = ToSet(s) \cup ToSet(u)
  BY <1>3, Joined
<1>5. ToSet(s) \cap ToSet(u) = {}
  BY <1>3
<1>6. IsInjective(s \o u)
  BY <1>3, <1>5, JoinedApart
<1> QED
  BY <1>2, <1>3, <1>4, <1>6

\* No block at all.
LEMMA Empty == ASSUME NEW T PROVE <<>> \in Seq(T) /\ IsInjective(<<>>) /\ ToSet(<<>>) = {}
<1>1. DOMAIN <<>> = {}
  OBVIOUS
<1> QED
  BY <1>1 DEF IsInjective, ToSet

----------------------------------------------------------------------------
(* The actions of the engine.                                              *)

\* A request that is scheduled is counted.
LEMMA CountedWith ==
    ASSUME NEW o, Counted(o), NEW r \in Requests, NEW n \in Int,
           NEW p, DOMAIN p = DOMAIN o, p.order = Append(o.order, r), p.n = Put(o.n, r, n)
    PROVE  Counted(p)
<1>1. o.order \in Seq(Requests) /\ ToSet(o.order) \subseteq DOMAIN o.n /\ \A q \in DOMAIN o.n : o.n[q] \in Int
  BY DEF Counted
<1>2. PICK order : order = o.order
  OBVIOUS
<1>3. PICK count : count = o.n
  OBVIOUS
<1>4. p.order \in Seq(Requests) /\ ToSet(p.order) = ToSet(order) \cup {r}
  <2>1. PICK u : u = <<r>>
    OBVIOUS
  <2>2. u \in Seq(Requests) /\ ToSet(u) = {r} /\ Append(order, r) = order \o u
    BY <1>1, <1>2, <2>1, OneOf
  <2> QED
    BY <1>1, <1>2, <2>2, Joined
<1>5. DOMAIN p.n = DOMAIN count \cup {r} /\ \A q \in DOMAIN p.n : p.n[q] = IF q = r THEN n ELSE count[q]
  BY <1>3 DEF Put
<1>6. \A q \in DOMAIN p.n : p.n[q] \in Int
  BY <1>1, <1>3, <1>5
<1>7. ToSet(p.order) \subseteq DOMAIN p.n
  BY <1>1, <1>2, <1>3, <1>4, <1>5
<1> QED
  BY <1>4, <1>6, <1>7 DEF Counted

\* ... and as before when only its slots are noted.
LEMMA CountedAs ==
    ASSUME NEW o, Counted(o), NEW r, NEW v
    PROVE  Counted([o EXCEPT !.slots = Put(@, r, v)])
<1> DEFINE p == [o EXCEPT !.slots = Put(@, r, v)]
<1>1. DOMAIN p = DOMAIN o
  BY Zenon
<1>2. "slots" # "order" /\ "slots" # "n"
  OBVIOUS
<1>3. "order" \in DOMAIN o /\ "n" \in DOMAIN o
  BY DEF Counted
<1>4. p.order = o.order /\ p.n = o.n
  BY <1>2, <1>3
<1> HIDE DEF p
<1> QED
  BY <1>1, <1>4 DEF Counted

\* The last running request gives up its blocks and waits: the while loop of schedule that preempts.
LEMMA PreemptKeeps ==
    ASSUME Inv, NEW r \in ToSet(running), NEW slots, NEW a, Sound(r, a), PreemptLast(r, slots, a)
    PROVE  Inv'
<1>1. running \in Seq(Requests) /\ IsInjective(running) /\ Len(running) # 0 /\ r \in Requests
  <2>1. running \in Seq(Requests) /\ IsInjective(running)
    BY DEF Inv, Queues
  <2>2. Len(running) # 0
    <3>1. DOMAIN running = 1..Len(running)
      BY <2>1
    <3> QED
      BY <3>1 DEF ToSet
  <2> QED
    BY <2>1, <2>2, SetOf
<1>2. PICK victim : victim = Last(running)
  OBVIOUS
<1>3. PICK others : others = Front(running)
  OBVIOUS
<1>4. /\ others \in Seq(Requests) /\ IsInjective(others) /\ victim \in Requests
      /\ ToSet(running) = ToSet(others) \cup {victim} /\ victim \notin ToSet(others)
  BY <1>1, <1>2, <1>3, LastOf
<1>5. PICK mine : mine = [blocks EXCEPT ![r] = a.blocks]
  OBVIOUS
<1>6. PICK S : S = 1..load.hbm
  OBVIOUS
<1>7. Whole(mine, a.free, S)
  BY <1>1, <1>5, <1>6, Given DEF Inv, Pool, Sound
<1>8. PICK left : left = Without(mine[victim], Others(mine, victim))
  OBVIOUS
<1>9. mine[victim] \in Seq(S) /\ IsInjective(mine[victim])
  BY <1>4, <1>7 DEF Whole
<1>10. left \in Seq(S) /\ IsInjective(left) /\ ToSet(left) = ToSet(mine[victim]) \ Others(mine, victim)
  BY <1>8, <1>9, Filtered
<1>11. PICK t : t = Reverse(left)
  OBVIOUS
<1>12. t \in Seq(S) /\ IsInjective(t) /\ ToSet(t) = ToSet(mine[victim]) \ Others(mine, victim)
  BY <1>10, <1>11, Reversed
<1>13. PICK none : none = <<>>
  OBVIOUS
<1>14. none \in Seq(S) /\ IsInjective(none) /\ ToSet(none) = {}
  BY <1>13, Empty
<1>15. Fits(mine, victim, none, a.free \o t, S)
  BY <1>4, <1>7, <1>12, <1>14, ReleasedFits
<1>16. Whole([mine EXCEPT ![victim] = none], a.free \o t, S)
  BY <1>4, <1>7, <1>15, Given
<1>17. blocks' = [mine EXCEPT ![victim] = none] /\ free' = a.free \o t /\ cached' = a.cached
  BY <1>2, <1>5, <1>8, <1>11, <1>13, Zenon DEF PreemptLast, Others
<1>18. running' = others /\ waiting' = <<victim>> \o waiting /\ status' = [status EXCEPT ![victim] = "PREEMPTED"]
  BY <1>2, <1>3, Zenon DEF PreemptLast
<1>19. load' = load /\ tokens' = tokens /\ at' = at /\ budget' = budget
  BY DEF PreemptLast
<1>20. computed' = [computed EXCEPT ![victim] = 0] /\ out' = [out EXCEPT !.slots = Put(@, r, slots)]
  BY <1>2, Zenon DEF PreemptLast
<1>21. Pool'
  <2>1. Whole(blocks', free', 1..load'.hbm)
    BY <1>6, <1>16, <1>17, <1>19
  <2>2. CacheIn(cached', 1..load'.hbm)
    BY <1>17, <1>19 DEF Sound
  <2>3. ASSUME NEW q \in Requests, q \notin ToSet(running') PROVE blocks'[q] = <<>>
    <3>1. mine \in [Requests -> Seq(S)]
      BY <1>7 DEF Whole
    <3>2. CASE q = victim
      BY <1>4, <1>13, <1>17, <3>1, <3>2
    <3>3. CASE q # victim
      <4>1. q \notin ToSet(running) /\ q # r
        BY <1>4, <1>18, <2>3, <3>3
      <4>2. blocks[q] = <<>> /\ blocks \in [Requests -> Seq(S)]
        BY <1>6, <4>1 DEF Inv, Pool, Whole
      <4>3. blocks'[q] = mine[q] /\ mine[q] = blocks[q]
        BY <1>5, <1>17, <3>1, <3>3, <4>1, <4>2
      <4> QED
        BY <4>2, <4>3
    <3> QED
      BY <3>2, <3>3
  <2>4. (Whole(blocks, free, 1..load.hbm))' /\ (CacheIn(cached, 1..load.hbm))'
    BY <2>1, <2>2 DEF Whole, CacheIn
  <2> QED
    BY <2>3, <2>4 DEF Pool
<1>22. Queues'
  <2>1. waiting \in Seq(Requests) /\ IsInjective(waiting) /\ ToSet(waiting) \cap ToSet(running) = {}
    BY DEF Inv, Queues
  <2>2. PICK first : first = <<victim>>
    OBVIOUS
  <2>3. first \in Seq(Requests) /\ IsInjective(first) /\ ToSet(first) = {victim}
    BY <1>4, <2>2, OneOf
  <2>4. waiting' \in Seq(Requests) /\ ToSet(waiting') = {victim} \cup ToSet(waiting)
    <3>1. waiting' = first \o waiting
      BY <1>18, <2>2
    <3> QED
      BY <2>1, <2>3, <3>1, Joined
  <2>5. IsInjective(waiting')
    <3>1. ToSet(first) \cap ToSet(waiting) = {}
      BY <1>4, <2>1, <2>3
    <3> QED
      BY <1>18, <2>1, <2>2, <2>3, <3>1, JoinedApart
  <2>6. running' \in Seq(Requests) /\ IsInjective(running') /\ ToSet(waiting') \cap ToSet(running') = {}
    BY <1>4, <1>18, <2>1, <2>4
  <2>7. status' \in [Requests -> Statuses]
    BY <1>18 DEF Inv, Queues, Statuses
  <2>8. ASSUME NEW q \in Requests, status'[q] = "new" PROVE q \notin ToSet(waiting') \cup ToSet(running')
    <3>1. q # victim /\ status[q] = "new"
      BY <1>4, <1>18, <2>8 DEF Inv, Queues
    <3>2. q \notin ToSet(waiting) \cup ToSet(running)
      BY <3>1 DEF Inv, Queues
    <3> QED
      BY <1>4, <1>18, <2>4, <3>1, <3>2
  <2>9. load' \in Loads
    BY <1>19 DEF Inv, Queues
  <2>10. (IsInjective(waiting))' /\ (IsInjective(running))' /\ (ToSet(waiting) \cap ToSet(running) = {})'
         /\ (\A q \in Requests : status[q] = "new" => q \notin ToSet(waiting) \cup ToSet(running))'
    BY <2>5, <2>6, <2>8 DEF IsInjective, ToSet
  <2> QED
    BY <2>4, <2>6, <2>7, <2>9, <2>10 DEF Queues
<1>23. Numbers'
  <2>1. Counted(out')
    BY <1>20, CountedAs DEF Inv, Numbers
  <2>2. (Counted(out))'
    BY <2>1 DEF Counted, ToSet
  <2>3. computed' \in [Requests -> Int]
    <3>1. computed \in [Requests -> Int] /\ 0 \in Int
      BY DEF Inv, Numbers
    <3> QED
      BY <1>20, <3>1
  <2> QED
    BY <1>19, <2>2, <2>3 DEF Inv, Numbers, Prompt
<1> QED
  BY <1>21, <1>22, <1>23 DEF Inv

\* A running request has its turn: it gets its blocks and tokens, or the last one is preempted.
LEMMA RunningKeeps ==
    ASSUME Inv, NEW r \in ToSet(running), NEW slots, NEW a, Sound(r, a), ScheduleRunning(r, slots, a)
    PROVE  Inv'
<1>1. CASE ~a.ok
  <2>1. PreemptLast(r, slots, a)
    BY <1>1 DEF ScheduleRunning
  <2> QED
    BY <2>1, PreemptKeeps
<1>2. CASE a.ok
  <2>1. r \in Requests
    <3>1. running \in Seq(Requests)
      BY DEF Inv, Queues
    <3> QED
      BY <3>1, SetOf
  <2>2. PICK n : n = NewTokens(r, computed[r])
    OBVIOUS
  <2>3. n \in Int
    <3>1. computed[r] \in Int
      BY <2>1 DEF Inv, Numbers
    <3> QED
      BY <2>1, <2>2, <3>1, NewTokensInt
  <2>4. /\ blocks' = [blocks EXCEPT ![r] = a.blocks]
        /\ free' = a.free /\ cached' = a.cached
        /\ out' = [out EXCEPT !.order = Append(@, r), !.n = Put(@, r, n),
                              !.slots = Put(@, r, slots), !.blocks = Put(@, r, a.new)]
        /\ budget' = budget - n /\ at' = at + 1
        /\ UNCHANGED <<load, status, waiting, running, tokens, computed>>
    BY <1>2, <2>2, Zenon DEF ScheduleRunning
  <2>5. Counted(out')
    <3>1. "order" # "n" /\ "order" # "slots" /\ "order" # "blocks" /\ "n" # "slots" /\ "n" # "blocks"
      OBVIOUS
    <3>2. "order" \in DOMAIN out /\ "n" \in DOMAIN out /\ Counted(out)
      BY DEF Inv, Numbers, Counted
    <3>3. DOMAIN out' = DOMAIN out
      BY <2>4
    <3>4. out'.order = Append(out.order, r) /\ out'.n = Put(out.n, r, n)
      BY <2>4, <3>1, <3>2
    <3> QED
      BY <2>1, <2>3, <3>2, <3>3, <3>4, CountedWith
  <2>6. Numbers'
    <3>1. (Counted(out))'
      BY <2>5 DEF Counted, ToSet
    <3>2. at' \in Nat \ {0} /\ budget' \in Int
      BY <2>3, <2>4 DEF Inv, Numbers
    <3> QED
      BY <2>4, <3>1, <3>2 DEF Inv, Numbers, Prompt
  <2>7. Queues'
    BY <2>4 DEF Inv, Queues
  <2>8. Pool'
    <3>1. Whole(blocks', free', 1..load.hbm)
      BY <2>1, <2>4, Given DEF Inv, Pool, Sound
    <3>2. (Whole(blocks, free, 1..load.hbm))' /\ (CacheIn(cached, 1..load.hbm))'
      BY <2>4, <3>1 DEF Whole, CacheIn, Sound
    <3>3. ASSUME NEW q \in Requests, q \notin ToSet(running') PROVE blocks'[q] = <<>>
      <4>1. q # r /\ blocks[q] = <<>> /\ blocks \in [Requests -> Seq(1..load.hbm)]
        BY <2>4, <3>3 DEF Inv, Pool, Whole
      <4> QED
        BY <2>4, <4>1
    <3> QED
      BY <3>2, <3>3 DEF Pool
  <2> QED
    BY <2>6, <2>7, <2>8 DEF Inv
<1> QED
  BY <1>1, <1>2

\* A waiting request is admitted with its blocks, or nothing is left for it.
LEMMA WaitingKeeps ==
    ASSUME Inv, NEW r \in ToSet(waiting), NEW slots, NEW from \in Int, NEW a, Sound(r, a), ~a.ok => a.blocks = <<>>,
           ScheduleWaiting(r, slots, from, a)
    PROVE  Inv'
<1>1. /\ waiting \in Seq(Requests) /\ IsInjective(waiting) /\ running \in Seq(Requests) /\ IsInjective(running)
      /\ ToSet(waiting) \cap ToSet(running) = {} /\ waiting # <<>> /\ r = Head(waiting)
  BY DEF Inv, Queues, ScheduleWaiting, CanAdmit
<1>2. r \in Requests /\ r \notin ToSet(running) /\ blocks[r] = <<>>
  <2>1. r \in Requests
    BY <1>1, SetOf
  <2>2. r \notin ToSet(running)
    BY <1>1
  <2> QED
    BY <2>1, <2>2 DEF Inv, Pool
<1>3. /\ blocks' = [blocks EXCEPT ![r] = a.blocks]
      /\ free' = a.free /\ cached' = a.cached
      /\ UNCHANGED <<load, tokens, at>>
  BY DEF ScheduleWaiting
<1>4. Whole(blocks', free', 1..load.hbm)
  BY <1>2, <1>3, Given DEF Inv, Pool, Sound
<1>5. (Whole(blocks, free, 1..load.hbm))' /\ (CacheIn(cached, 1..load.hbm))'
  BY <1>3, <1>4 DEF Whole, CacheIn, Sound
<1>6. CASE ~a.ok
  <2>1. out' = [out EXCEPT !.slots = Put(@, r, slots)] /\ UNCHANGED <<status, waiting, running, computed, budget>>
    BY <1>6 DEF ScheduleWaiting
  <2>2. Counted(out')
    BY <2>1, CountedAs DEF Inv, Numbers
  <2>3. Numbers'
    <3>1. (Counted(out))'
      BY <2>2 DEF Counted, ToSet
    <3> QED
      BY <1>3, <2>1, <3>1 DEF Inv, Numbers, Prompt
  <2>4. Queues'
    BY <1>3, <2>1 DEF Inv, Queues
  <2>5. ASSUME NEW q \in Requests, q \notin ToSet(running') PROVE blocks'[q] = <<>>
    <3>1. blocks[q] = <<>> /\ blocks \in [Requests -> Seq(1..load.hbm)]
      BY <2>1, <2>5 DEF Inv, Pool, Whole
    <3> QED
      BY <1>2, <1>3, <1>6, <3>1
  <2> QED
    BY <1>5, <2>3, <2>4, <2>5 DEF Inv, Pool
<1>7. CASE a.ok
  <2>1. PICK n : n = NewTokens(r, from)
    OBVIOUS
  <2>2. n \in Int
    BY <1>2, <2>1, NewTokensInt
  <2>3. /\ status' = [status EXCEPT ![r] = "RUNNING"]
        /\ waiting' = Tail(waiting) /\ running' = Append(running, r)
        /\ computed' = [computed EXCEPT ![r] = from] /\ budget' = budget - n
    BY <1>7, <2>1, Zenon DEF ScheduleWaiting
  <2>4. out' = [out EXCEPT !.order = Append(@, r), !.n = Put(@, r, n),
                            !.slots = Put(@, r, slots), !.blocks = Put(@, r, a.blocks),
                            !.new = IF status[r] = "WAITING" THEN @ \cup {r} ELSE @,
                            !.resumed = IF status[r] = "PREEMPTED" THEN @ \cup {r} ELSE @]
    BY <1>7, <2>1, Zenon DEF ScheduleWaiting
  <2>5. Counted(out')
    <3>1. "order" # "n" /\ "order" # "slots" /\ "order" # "blocks" /\ "order" # "new" /\ "order" # "resumed"
          /\ "n" # "slots" /\ "n" # "blocks" /\ "n" # "new" /\ "n" # "resumed"
      OBVIOUS
    <3>2. "order" \in DOMAIN out /\ "n" \in DOMAIN out /\ Counted(out)
      BY DEF Inv, Numbers, Counted
    <3>3. DOMAIN out' = DOMAIN out
      BY <2>4
    <3>4. out'.order = Append(out.order, r) /\ out'.n = Put(out.n, r, n)
      BY <2>4, <3>1, <3>2
    <3> QED
      BY <1>2, <2>2, <3>2, <3>3, <3>4, CountedWith
  <2>6. Numbers'
    <3>1. (Counted(out))'
      BY <2>5 DEF Counted, ToSet
    <3>2. budget' \in Int
      BY <2>2, <2>3 DEF Inv, Numbers
    <3>3. computed' \in [Requests -> Int]
      <4>1. computed \in [Requests -> Int]
        BY DEF Inv, Numbers
      <4> QED
        BY <2>3, <4>1
    <3> QED
      BY <1>3, <3>1, <3>2, <3>3 DEF Inv, Numbers, Prompt
  <2>7. /\ waiting' \in Seq(Requests) /\ IsInjective(waiting')
        /\ ToSet(waiting) = ToSet(waiting') \cup {r} /\ r \notin ToSet(waiting')
    BY <1>1, <2>3, FirstOf
  <2>8. running' \in Seq(Requests) /\ IsInjective(running') /\ ToSet(running') = ToSet(running) \cup {r}
    BY <1>1, <1>2, <2>3, Appended
  <2>9. Queues'
    <3>1. status' \in [Requests -> Statuses]
      <4>1. status \in [Requests -> Statuses] /\ "RUNNING" \in Statuses
        BY DEF Inv, Queues, Statuses
      <4> QED
        BY <2>3, <4>1
    <3>2. ASSUME NEW q \in Requests, status'[q] = "new" PROVE q \notin ToSet(waiting') \cup ToSet(running')
      <4>1. q # r /\ status[q] = "new"
        BY <1>2, <2>3, <3>2 DEF Inv, Queues
      <4>2. q \notin ToSet(waiting) \cup ToSet(running)
        BY <4>1 DEF Inv, Queues
      <4> QED
        BY <2>7, <2>8, <4>1, <4>2
    <3>3. ToSet(waiting') \cap ToSet(running') = {}
      BY <1>1, <2>7, <2>8
    <3>4. (IsInjective(waiting))' /\ (IsInjective(running))' /\ (ToSet(waiting) \cap ToSet(running) = {})'
           /\ (\A q \in Requests : status[q] = "new" => q \notin ToSet(waiting) \cup ToSet(running))'
      BY <2>7, <2>8, <3>2, <3>3 DEF IsInjective, ToSet
    <3>5. load' \in Loads
      BY <1>3 DEF Inv, Queues
    <3> QED
      BY <2>7, <2>8, <3>1, <3>4, <3>5 DEF Queues
  <2>10. ASSUME NEW q \in Requests, q \notin ToSet(running') PROVE blocks'[q] = <<>>
    <3>1. q # r /\ q \notin ToSet(running)
      BY <2>8, <2>10
    <3>2. blocks[q] = <<>> /\ blocks \in [Requests -> Seq(1..load.hbm)]
      BY <3>1 DEF Inv, Pool, Whole
    <3> QED
      BY <1>3, <3>1, <3>2
  <2> QED
    BY <1>5, <2>6, <2>9, <2>10 DEF Inv, Pool
<1>8. a.ok \in BOOLEAN
  BY DEF Sound
<1> QED
  BY <1>6, <1>7

\* A request gives up some of its blocks: those of s go to the end of the free ones, if no other holds them.
LEMMA ReleasedGives ==
    ASSUME NEW S, Whole(blocks, free, S), NEW r \in Requests,
           NEW kept \in Seq(S), IsInjective(kept), ToSet(kept) \subseteq ToSet(blocks[r]),
           NEW s \in Seq(S), IsInjective(s), ToSet(s) = ToSet(blocks[r]) \ ToSet(kept)
    PROVE  Fits(blocks, r, kept, Released(r, s), S)
<1>1. PICK t : t = Without(s, Others(blocks, r))
  OBVIOUS
<1>2. t \in Seq(S) /\ IsInjective(t) /\ ToSet(t) = (ToSet(blocks[r]) \ ToSet(kept)) \ Others(blocks, r)
  BY <1>1, Filtered
<1>3. Released(r, s) = free \o t
  BY <1>1, Zenon DEF Released, HeldByOthers, Others
<1> QED
  BY <1>2, <1>3, ReleasedFits

\* ... all of them, the last first.
LEMMA AllReleased ==
    ASSUME NEW S, Whole(blocks, free, S), NEW r \in Requests
    PROVE  Fits(blocks, r, <<>>, Released(r, Reverse(blocks[r])), S)
<1>1. PICK B : B = blocks[r]
  OBVIOUS
<1>2. B \in Seq(S) /\ IsInjective(B)
  BY <1>1 DEF Whole
<1>3. PICK s : s = Reverse(B)
  OBVIOUS
<1>4. s \in Seq(S) /\ IsInjective(s) /\ ToSet(s) = ToSet(B)
  BY <1>2, <1>3, Reversed
<1>5. PICK none : none = <<>>
  OBVIOUS
<1>6. none \in Seq(S) /\ IsInjective(none) /\ ToSet(none) = {}
  BY <1>5, Empty
<1>7. Fits(blocks, r, none, Released(r, s), S)
  <2>1. ToSet(none) \subseteq ToSet(blocks[r]) /\ ToSet(s) = ToSet(blocks[r]) \ ToSet(none)
    BY <1>1, <1>4, <1>6
  <2> QED
    BY <1>4, <1>6, <2>1, ReleasedGives
<1> QED
  BY <1>1, <1>3, <1>5, <1>7

\* A request comes: add_request.
LEMMA ArriveKeeps ==
    ASSUME Inv, NEW r \in Requests, Arrive(r)
    PROVE  Inv'
<1>1. /\ status[r] = "new" /\ status' = [status EXCEPT ![r] = "WAITING"] /\ waiting' = Append(waiting, r)
      /\ UNCHANGED <<load, running, tokens, computed, blocks, free, cached, at, budget, out>>
  BY DEF Arrive, scheduleVars
<1>2. /\ waiting \in Seq(Requests) /\ IsInjective(waiting) /\ running \in Seq(Requests) /\ IsInjective(running)
      /\ ToSet(waiting) \cap ToSet(running) = {} /\ r \notin ToSet(waiting) \cup ToSet(running)
  BY <1>1 DEF Inv, Queues
<1>3. waiting' \in Seq(Requests) /\ IsInjective(waiting') /\ ToSet(waiting') = ToSet(waiting) \cup {r}
  BY <1>1, <1>2, Appended
<1>4. status' \in [Requests -> Statuses]
  <2>1. status \in [Requests -> Statuses] /\ "WAITING" \in Statuses
    BY DEF Inv, Queues, Statuses
  <2> QED
    BY <1>1, <2>1
<1>5. ASSUME NEW q \in Requests, status'[q] = "new" PROVE q \notin ToSet(waiting') \cup ToSet(running)
  <2>1. q # r /\ status[q] = "new"
    BY <1>1, <1>5 DEF Inv, Queues
  <2>2. q \notin ToSet(waiting) \cup ToSet(running)
    BY <2>1 DEF Inv, Queues
  <2> QED
    BY <1>3, <2>1, <2>2
<1>6. ToSet(waiting') \cap ToSet(running) = {}
  BY <1>2, <1>3
<1>7. Queues'
  <2>1. load' \in Loads
    BY <1>1 DEF Inv, Queues
  <2> QED
    BY <1>1, <1>2, <1>3, <1>4, <1>5, <1>6, <2>1 DEF Queues
<1>8. Numbers'
  BY <1>1 DEF Inv, Numbers, Counted, Prompt
<1>9. Pool'
  BY <1>1 DEF Inv, Pool, Whole, CacheIn
<1> QED
  BY <1>7, <1>8, <1>9 DEF Inv

\* A client gives up, and the blocks of its request become free: finish_requests.
LEMMA AbortKeeps ==
    ASSUME Inv, NEW r \in Requests, Abort(r)
    PROVE  Inv'
<1>1. /\ status' = [status EXCEPT ![r] = "FINISHED"]
      /\ waiting' = Without(waiting, {r}) /\ running' = Without(running, {r})
      /\ free' = Released(r, Reverse(blocks[r])) /\ blocks' = [blocks EXCEPT ![r] = <<>>]
      /\ UNCHANGED <<load, tokens, computed, cached, at, budget, out>>
  BY DEF Abort, scheduleVars
<1>2. /\ waiting \in Seq(Requests) /\ IsInjective(waiting) /\ running \in Seq(Requests) /\ IsInjective(running)
      /\ ToSet(waiting) \cap ToSet(running) = {}
  BY DEF Inv, Queues
<1>3. waiting' \in Seq(Requests) /\ IsInjective(waiting') /\ ToSet(waiting') = ToSet(waiting) \ {r}
  BY <1>1, <1>2, Filtered
<1>4. running' \in Seq(Requests) /\ IsInjective(running') /\ ToSet(running') = ToSet(running) \ {r}
  BY <1>1, <1>2, Filtered
<1>5. Queues'
  <2>1. status' \in [Requests -> Statuses]
    <3>1. status \in [Requests -> Statuses] /\ "FINISHED" \in Statuses
      BY DEF Inv, Queues, Statuses
    <3> QED
      BY <1>1, <3>1
  <2>2. ASSUME NEW q \in Requests, status'[q] = "new" PROVE q \notin ToSet(waiting') \cup ToSet(running')
    <3>1. q # r /\ status[q] = "new"
      BY <1>1, <2>2 DEF Inv, Queues
    <3>2. q \notin ToSet(waiting) \cup ToSet(running)
      BY <3>1 DEF Inv, Queues
    <3> QED
      BY <1>3, <1>4, <3>2
  <2>3. ToSet(waiting') \cap ToSet(running') = {}
    BY <1>2, <1>3, <1>4
  <2>4. load' \in Loads
    BY <1>1 DEF Inv, Queues
  <2> QED
    BY <1>3, <1>4, <2>1, <2>2, <2>3, <2>4 DEF Queues
<1>6. PICK S : S = 1..load.hbm
  OBVIOUS
<1>7. Whole(blocks, free, S)
  BY <1>6 DEF Inv, Pool
<1>8. Fits(blocks, r, <<>>, free', S)
  BY <1>1, <1>7, AllReleased
<1>9. Whole(blocks', free', S)
  <2>1. PICK none : none = <<>>
    OBVIOUS
  <2>2. Fits(blocks, r, none, free', S) /\ blocks' = [blocks EXCEPT ![r] = none]
    BY <1>1, <1>8, <2>1
  <2> QED
    BY <1>7, <2>2, Given
<1>10. Pool'
  <2>1. (Whole(blocks, free, 1..load.hbm))' /\ (CacheIn(cached, 1..load.hbm))'
    BY <1>1, <1>6, <1>9 DEF Inv, Pool, Whole, CacheIn
  <2>2. ASSUME NEW q \in Requests, q \notin ToSet(running') PROVE blocks'[q] = <<>>
    <3>1. blocks \in [Requests -> Seq(S)]
      BY <1>7 DEF Whole
    <3>2. q # r => blocks[q] = <<>>
      BY <1>4, <2>2 DEF Inv, Pool
    <3> QED
      BY <1>1, <3>1, <3>2
  <2> QED
    BY <2>1, <2>2 DEF Pool
<1>11. Numbers'
  BY <1>1 DEF Inv, Numbers, Counted, Prompt
<1> QED
  BY <1>5, <1>10, <1>11 DEF Inv

\* The loops of schedule begin and end.
LEMMA LoopsKeep ==
    ASSUME Inv, Schedule \/ RunningDone \/ WaitingDone
    PROVE  Inv'
<1>1. CASE Schedule
  <2>1. UNCHANGED <<load, status, waiting, running, tokens, computed, blocks, free, cached>>
    BY <1>1 DEF Schedule, schedulerVars
  <2>2. at' = 1 /\ budget' = load.budget /\ out' = NoOutput
    BY <1>1 DEF Schedule
  <2>3. Queues' /\ Pool'
    BY <2>1 DEF Inv, Queues, Pool, Whole, CacheIn
  <2>4. Counted(NoOutput)
    <3>1. PICK none : none = <<>>
      OBVIOUS
    <3>2. none \in Seq(Requests) /\ ToSet(none) = {} /\ DOMAIN none = {}
      <4>1. none \in Seq(Requests) /\ DOMAIN none = {}
        BY <3>1
      <4> QED
        BY <4>1 DEF ToSet
    <3>3. /\ DOMAIN NoOutput = {"order", "new", "resumed", "n", "slots", "blocks"}
          /\ NoOutput.order = none /\ NoOutput.n = none
      BY <3>1 DEF NoOutput
    <3> QED
      BY <3>2, <3>3 DEF Counted
  <2>5. Numbers'
    <3>1. Counted(out')
      BY <2>2, <2>4
    <3>2. (Counted(out))'
      BY <3>1 DEF Counted
    <3>3. budget' \in Int /\ at' \in Nat \ {0}
      BY <2>2, LoadOf DEF Inv, Queues
    <3> QED
      BY <2>1, <3>2, <3>3 DEF Inv, Numbers, Prompt
  <2> QED
    BY <2>3, <2>5 DEF Inv
<1>2. CASE RunningDone \/ WaitingDone
  <2>1. UNCHANGED <<load, status, waiting, running, tokens, computed, blocks, free, cached, at, budget, out>>
    BY <1>2 DEF RunningDone, WaitingDone, schedulerVars
  <2> QED
    BY <2>1, Frame
<1> QED
  BY <1>1, <1>2

\* The engine starts with all blocks free.
LEMMA InitInv == ASSUME EngineInit PROVE Inv
<1>1. PICK none : none = <<>>
  OBVIOUS
<1>2. \A T : none \in Seq(T) /\ IsInjective(none) /\ ToSet(none) = {}
  BY <1>1, Empty
<1>3. /\ load \in Loads /\ status = [r \in Requests |-> "new"]
      /\ waiting = none /\ running = none /\ tokens = load.prompt
      /\ computed = [r \in Requests |-> 0] /\ blocks = [r \in Requests |-> none]
      /\ free = [v \in 1..load.hbm |-> v] /\ cached = [v \in 1..HbmBlocks |-> Junk]
      /\ at = 1 /\ budget = 0 /\ out = NoOutput
  BY <1>1 DEF EngineInit
<1>4. Queues
  <2>1. status \in [Requests -> Statuses]
    BY <1>3 DEF Statuses
  <2> QED
    BY <1>2, <1>3, <2>1 DEF Queues
<1>5. Counted(out)
  <2>1. /\ DOMAIN NoOutput = {"order", "new", "resumed", "n", "slots", "blocks"}
        /\ NoOutput.order = none /\ NoOutput.n = none
    BY <1>1 DEF NoOutput
  <2>2. DOMAIN none = {}
    BY <1>1
  <2> QED
    BY <1>2, <1>3, <2>1, <2>2 DEF Counted
<1>6. Numbers
  <2>1. tokens \in [Requests -> Seq(Nat)]
    BY <1>3, LoadOf
  <2>2. \A r \in Requests : Len(Prompt(r)) <= Len(tokens[r])
    <3>1. \A r \in Requests : Prompt(r) = tokens[r] /\ Len(tokens[r]) \in Nat
      BY <1>3, <2>1 DEF Prompt
    <3> QED
      BY <3>1
  <2>3. computed \in [Requests -> Int]
    BY <1>3
  <2> QED
    BY <1>3, <1>5, <2>1, <2>2, <2>3 DEF Numbers
<1>7. Pool
  <2>1. PICK S : S = 1..load.hbm
    OBVIOUS
  <2>2. PICK n \in Nat : n = load.hbm
    BY <1>3, LoadOf, Sizes
  <2>3. free \in Seq(S) /\ Len(free) = n /\ \A v \in 1..n : free[v] = v
    BY <1>3, <2>1, <2>2
  <2>4. DOMAIN free = 1..n /\ ToSet(free) = {free[i] : i \in 1..n}
    BY <2>3, SetOf
  <2>5. IsInjective(free)
    BY <2>3, <2>4 DEF IsInjective
  <2>6. S \subseteq ToSet(free)
    BY <2>1, <2>2, <2>3, <2>4
  <2>7. none \in Seq(S) /\ IsInjective(none) /\ ToSet(none) = {}
    BY <1>2
  <2>8. blocks \in [Requests -> Seq(S)] /\ \A r \in Requests : blocks[r] = none
    BY <1>3, <2>7
  <2>9. Whole(blocks, free, S)
    BY <2>3, <2>5, <2>6, <2>7, <2>8 DEF Whole
  <2>10. CacheIn(cached, S)
    BY <1>3 DEF CacheIn
  <2> QED
    BY <1>1, <2>1, <2>8, <2>9, <2>10 DEF Pool
<1> QED
  BY <1>4, <1>6, <1>7 DEF Inv

\* Requests end together, and a block goes with the last of them that holds it: update_from_output.
LEMMA StoppedRelease ==
    ASSUME NEW S, Whole(blocks, free, S), running \in Seq(Requests),
           \A r \in Requests : r \notin ToSet(running) => blocks[r] = <<>>,
           NEW gone, NEW fr,
           fr = free \o FlattenSeq([i \in DOMAIN running |->
                    IF running[i] \in gone
                    THEN Reverse(Without(blocks[running[i]],
                            UNION {ToSet(blocks[running[j]]) :
                                      j \in {k \in DOMAIN running : ~(running[k] \in gone) \/ k > i}}))
                    ELSE <<>>])
    PROVE  Whole([r \in Requests |-> IF r \in gone THEN <<>> ELSE blocks[r]], fr, S)
<1>1. PICK n \in Nat : n = Len(running) /\ DOMAIN running = 1..n
  BY SetOf
<1>2. ToSet(running) = {running[i] : i \in 1..n} /\ \A i \in 1..n : running[i] \in Requests
  BY <1>1, SetOf
<1>3. PICK none : none = <<>>
  OBVIOUS
<1>4. none \in Seq(S) /\ IsInjective(none) /\ ToSet(none) = {}
  BY <1>3, Empty
<1> DEFINE Gone(i) == running[i] \in gone
           B(i) == ToSet(blocks[running[i]])
           kept(i) == UNION {B(j) : j \in {k \in 1..n : ~Gone(k) \/ k > i}}
           g(i) == IF Gone(i) THEN Reverse(Without(blocks[running[i]], kept(i))) ELSE none
           lists == [i \in 1..n |-> g(i)]
<1>5. fr = free \o FlattenSeq(lists)
  BY <1>1, <1>3
<1>6. \A i \in 1..n : /\ blocks[running[i]] \in Seq(S) /\ IsInjective(blocks[running[i]])
                      /\ B(i) \cap ToSet(free) = {}
  BY <1>2 DEF Whole
<1> HIDE DEF kept, Gone
<1>7. ASSUME NEW i \in 1..n
      PROVE  /\ g(i) \in Seq(S) /\ IsInjective(g(i))
             /\ ToSet(g(i)) = IF Gone(i) THEN B(i) \ kept(i) ELSE {}
  <2>1. CASE ~Gone(i)
    BY <1>4, <2>1
  <2>2. CASE Gone(i)
    <3>1. PICK s : s = blocks[running[i]]
      OBVIOUS
    <3>2. s \in Seq(S) /\ IsInjective(s)
      BY <1>6, <3>1
    <3>3. PICK u : u = Without(s, kept(i))
      OBVIOUS
    <3>4. u \in Seq(S) /\ IsInjective(u) /\ ToSet(u) = ToSet(s) \ kept(i)
      BY <3>2, <3>3, Filtered
    <3>5. g(i) = Reverse(u)
      BY <2>2, <3>1, <3>3
    <3>6. Reverse(u) \in Seq(S) /\ ToSet(Reverse(u)) = ToSet(u) /\ IsInjective(Reverse(u))
      BY <3>4, Reversed
    <3> HIDE DEF g
    <3> QED
      BY <2>2, <3>1, <3>4, <3>5, <3>6
  <2> QED
    BY <2>1, <2>2
<1> HIDE DEF g
<1>8. lists \in Seq(Seq(S)) /\ Len(lists) = n /\ \A i \in 1..n : lists[i] = g(i)
  <2>1. PICK Q : Q = Seq(S)
    OBVIOUS
  <2>2. \A i \in 1..n : g(i) \in Q
    BY <1>7, <2>1
  <2>3. lists \in Seq(Q) /\ Len(lists) = n
    BY <1>1, <2>2
  <2> QED
    BY <2>1, <2>3
<1> HIDE DEF lists
<1>9. ASSUME NEW i \in 1..n, NEW k \in 1..n, ~Gone(k) \/ k > i PROVE B(k) \subseteq kept(i)
  BY <1>9 DEF kept
<1>10. \A i, j \in 1..n : i < j => ToSet(g(i)) \cap ToSet(g(j)) = {}
  <2> SUFFICES ASSUME NEW i \in 1..n, NEW j \in 1..n, i < j PROVE ToSet(g(i)) \cap ToSet(g(j)) = {}
    OBVIOUS
  <2>1. B(j) \subseteq kept(i)
    BY <1>9
  <2>2. ToSet(g(j)) \subseteq B(j) /\ ToSet(g(i)) \cap kept(i) = {}
    BY <1>7
  <2> QED
    BY <2>1, <2>2
<1>11. PICK flat : flat = FlattenSeq(lists)
  OBVIOUS
<1>12. flat \in Seq(S) /\ IsInjective(flat) /\ ToSet(flat) = UNION {ToSet(lists[i]) : i \in 1..n}
  <2>1. \A i \in 1..Len(lists) : IsInjective(lists[i])
    BY <1>7, <1>8
  <2>2. \A i, j \in 1..Len(lists) : i < j => ToSet(lists[i]) \cap ToSet(lists[j]) = {}
    BY <1>8, <1>10
  <2>3. /\ flat \in Seq(S) /\ IsInjective(flat)
        /\ ToSet(flat) = UNION {ToSet(lists[i]) : i \in 1..Len(lists)}
    BY <1>8, <1>11, <2>1, <2>2, Flattened
  <2> QED
    BY <1>8, <2>3
<1>13. \A i \in 1..n : ToSet(lists[i]) = IF Gone(i) THEN B(i) \ kept(i) ELSE {}
  BY <1>7, <1>8
<1>14. ASSUME NEW x \in ToSet(flat)
       PROVE  (\E i \in 1..n : Gone(i) /\ x \in B(i)) /\ (\A k \in 1..n : ~Gone(k) => x \notin B(k))
  <2>1. PICK i \in 1..n : x \in ToSet(lists[i])
    BY <1>12
  <2>2. Gone(i) /\ x \in B(i) /\ x \notin kept(i)
    BY <1>13, <2>1
  <2> QED
    BY <1>9, <2>2
<1>15. ASSUME NEW x, NEW i \in 1..n, Gone(i), x \in B(i), \A k \in 1..n : ~Gone(k) => x \notin B(k)
       PROVE  x \in ToSet(flat)
  <2> DEFINE T == {d \in 0..n : \E j \in 1..n : d = n - j /\ Gone(j) /\ x \in B(j)}
  <2>1. n - i \in T /\ T \in SUBSET Nat
    BY <1>15
  <2> HIDE DEF T
  <2>2. PICK d \in T : \A e \in T : d <= e
    BY <2>1, NatLeast
  <2>3. PICK j \in 1..n : d = n - j /\ Gone(j) /\ x \in B(j)
    BY DEF T
  <2>4. x \notin kept(j)
    <3>1. SUFFICES ASSUME x \in kept(j) PROVE FALSE
      OBVIOUS
    <3>2. PICK k \in 1..n : (~Gone(k) \/ k > j) /\ x \in B(k)
      BY <3>1 DEF kept
    <3>3. Gone(k) /\ k > j
      BY <1>15, <3>2
    <3>4. n - k \in T
      BY <3>2, <3>3 DEF T
    <3>5. ~(d <= n - k)
      BY <2>3, <3>3
    <3> QED
      BY <2>2, <3>4, <3>5
  <2>5. x \in ToSet(lists[j])
    BY <1>13, <2>3, <2>4
  <2> QED
    BY <1>12, <2>5
<1> HIDE DEF B
<1>16. \A i \in 1..n : B(i) = ToSet(blocks[running[i]]) /\ (Gone(i) <=> running[i] \in gone)
  BY DEF B, Gone
<1>17. free \in Seq(S) /\ IsInjective(free) /\ blocks \in [Requests -> Seq(S)]
  BY DEF Whole
<1>18. PICK old \in Seq(S) : old = free /\ IsInjective(old)
  BY <1>17
<1>19. PICK more \in Seq(S) : more = flat /\ IsInjective(more)
  BY <1>12
<1>20. fr = old \o more
  BY <1>5, <1>11, <1>18, <1>19, Zenon
<1>21. ToSet(old) \cap ToSet(more) = {}
  BY <1>6, <1>14, <1>16, <1>18, <1>19
<1>22. old \o more \in Seq(S) /\ ToSet(old \o more) = ToSet(old) \cup ToSet(more)
  BY Joined
<1>23. IsInjective(old \o more)
  BY <1>18, <1>19, <1>21, JoinedApart
<1>24. fr \in Seq(S) /\ IsInjective(fr) /\ ToSet(fr) = ToSet(free) \cup ToSet(flat)
  BY <1>18, <1>19, <1>20, <1>22, <1>23, Zenon
<1>25. PICK new : new = [r \in Requests |-> IF r \in gone THEN none ELSE blocks[r]]
  OBVIOUS
<1>26. new \in [Requests -> Seq(S)] /\ \A r \in Requests : IsInjective(new[r])
  BY <1>4, <1>17, <1>25 DEF Whole
<1>27. ASSUME NEW r \in Requests PROVE ToSet(new[r]) \cap ToSet(fr) = {}
  <2>1. CASE r \in gone
    BY <1>4, <1>25, <2>1
  <2>2. CASE r \notin gone
    <3>1. new[r] = blocks[r] /\ ToSet(blocks[r]) \cap ToSet(free) = {}
      BY <1>25, <2>2 DEF Whole
    <3>2. CASE r \notin ToSet(running)
      BY <1>3, <1>4, <3>1, <3>2
    <3>3. CASE r \in ToSet(running)
      <4>1. PICK k \in 1..n : r = running[k]
        BY <1>2, <3>3
      <4>2. ~Gone(k) /\ B(k) = ToSet(blocks[r])
        BY <1>16, <2>2, <4>1
      <4>3. ToSet(flat) \cap B(k) = {}
        BY <1>14, <4>2
      <4> QED
        BY <1>24, <3>1, <4>2, <4>3
    <3> QED
      BY <3>2, <3>3
  <2> QED
    BY <2>1, <2>2
<1>28. ASSUME NEW x \in S PROVE x \in ToSet(fr) \/ \E r \in Requests : x \in ToSet(new[r])
  <2>1. CASE x \in ToSet(free)
    BY <1>24, <2>1
  <2>2. CASE x \notin ToSet(free)
    <3>1. PICK r \in Requests : x \in ToSet(blocks[r])
      BY <2>2 DEF Whole
    <3>2. r \in ToSet(running)
      BY <1>3, <1>4, <3>1
    <3>3. PICK i \in 1..n : r = running[i]
      BY <1>2, <3>2
    <3>4. CASE \E k \in 1..n : ~Gone(k) /\ x \in B(k)
      <4>1. PICK k \in 1..n : ~Gone(k) /\ x \in B(k)
        BY <3>4
      <4>2. running[k] \in Requests /\ running[k] \notin gone /\ x \in ToSet(blocks[running[k]])
        BY <1>2, <1>16, <4>1
      <4> QED
        BY <1>25, <4>2
    <3>5. CASE \A k \in 1..n : ~Gone(k) => x \notin B(k)
      <4>1. x \in B(i)
        BY <1>16, <3>1, <3>3
      <4>2. Gone(i)
        BY <3>5, <4>1
      <4>3. x \in ToSet(flat)
        BY <1>15, <3>5, <4>1, <4>2
      <4> QED
        BY <1>24, <4>3
    <3> QED
      BY <3>4, <3>5
  <2> QED
    BY <2>1, <2>2
<1>29. Whole(new, fr, S)
  <2>1. S \subseteq ToSet(fr) \cup UNION {ToSet(new[r]) : r \in Requests}
    BY <1>28
  <2> QED
    BY <1>24, <1>26, <1>27, <2>1 DEF Whole
<1> QED
  BY <1>3, <1>25, <1>29

\* What update_from_output leaves of the blocks and the queues when some requests get a token and some leave.
Ended(sampled, gone) ==
    /\ UNCHANGED <<load, waiting, cached, at, budget, out>>
    /\ tokens' = [r \in Requests |-> IF r \in sampled THEN Append(tokens[r], Answer[r]) ELSE tokens[r]]
    /\ computed' = [r \in Requests |-> IF r \in ToSet(out.order) THEN computed[r] + out.n[r] ELSE computed[r]]
    /\ status' = [r \in Requests |-> IF r \in gone THEN "FINISHED" ELSE status[r]]
    /\ running' = Without(running, gone)
    /\ blocks' = [r \in Requests |-> IF r \in gone THEN <<>> ELSE blocks[r]]
    /\ free' = free \o FlattenSeq([i \in DOMAIN running |->
                    IF running[i] \in gone
                    THEN Reverse(Without(blocks[running[i]],
                            UNION {ToSet(blocks[running[j]]) :
                                      j \in {k \in DOMAIN running : ~(running[k] \in gone) \/ k > i}}))
                    ELSE <<>>])

\* A step of the worker ends: tokens are answered, and requests that have theirs all leave.
LEMMA StepKeeps ==
    ASSUME Inv, NEW sampled, NEW gone, Ended(sampled, gone)
    PROVE  Inv'
<1>1. UNCHANGED <<load, waiting, cached, at, budget, out>>
  BY DEF Ended
<1>2. status' = [r \in Requests |-> IF r \in gone THEN "FINISHED" ELSE status[r]] /\ running' = Without(running, gone)
  BY DEF Ended
<1>3. /\ tokens' = [r \in Requests |-> IF r \in sampled THEN Append(tokens[r], Answer[r]) ELSE tokens[r]]
      /\ computed' = [r \in Requests |-> IF r \in ToSet(out.order) THEN computed[r] + out.n[r] ELSE computed[r]]
      /\ blocks' = [r \in Requests |-> IF r \in gone THEN <<>> ELSE blocks[r]]
  BY Zenon DEF Ended
<1>4. free' = free \o FlattenSeq([i \in DOMAIN running |->
                    IF running[i] \in gone
                    THEN Reverse(Without(blocks[running[i]],
                            UNION {ToSet(blocks[running[j]]) :
                                      j \in {k \in DOMAIN running : ~(running[k] \in gone) \/ k > i}}))
                    ELSE <<>>])
  BY Zenon DEF Ended
<1>5. /\ waiting \in Seq(Requests) /\ IsInjective(waiting) /\ running \in Seq(Requests) /\ IsInjective(running)
      /\ ToSet(waiting) \cap ToSet(running) = {}
  BY DEF Inv, Queues
<1>6. running' \in Seq(Requests) /\ IsInjective(running') /\ ToSet(running') = ToSet(running) \ gone
  BY <1>2, <1>5, Filtered
<1>7. PICK S : S = 1..load.hbm
  OBVIOUS
<1>8. Whole(blocks, free, S) /\ \A r \in Requests : r \notin ToSet(running) => blocks[r] = <<>>
  BY <1>7 DEF Inv, Pool
<1>9. Whole(blocks', free', S)
  <2>1. PICK fr : fr = free'
    OBVIOUS
  <2>2. Whole([r \in Requests |-> IF r \in gone THEN <<>> ELSE blocks[r]], fr, S)
    BY <1>4, <1>5, <1>8, <2>1, StoppedRelease
  <2> QED
    BY <1>3, <2>1, <2>2
<1>10. Pool'
  <2>1. (Whole(blocks, free, 1..load.hbm))' /\ (CacheIn(cached, 1..load.hbm))'
    BY <1>1, <1>7, <1>9 DEF Inv, Pool, Whole, CacheIn
  <2>2. ASSUME NEW q \in Requests, q \notin ToSet(running') PROVE blocks'[q] = <<>>
    <3>1. CASE q \in gone
      BY <1>3, <3>1
    <3>2. CASE q \notin gone
      <4>1. blocks[q] = <<>>
        BY <1>6, <1>8, <2>2, <3>2
      <4> QED
        BY <1>3, <3>2, <4>1
    <3> QED
      BY <3>1, <3>2
  <2> QED
    BY <2>1, <2>2 DEF Pool
<1>11. Queues'
  <2>1. status' \in [Requests -> Statuses]
    <3>1. status \in [Requests -> Statuses] /\ "FINISHED" \in Statuses
      BY DEF Inv, Queues, Statuses
    <3> QED
      BY <1>2, <3>1
  <2>2. ASSUME NEW q \in Requests, status'[q] = "new" PROVE q \notin ToSet(waiting) \cup ToSet(running')
    <3>1. status[q] = "new"
      BY <1>2, <2>2
    <3>2. q \notin ToSet(waiting) \cup ToSet(running)
      BY <3>1 DEF Inv, Queues
    <3> QED
      BY <1>6, <3>2
  <2>3. ToSet(waiting) \cap ToSet(running') = {}
    BY <1>5, <1>6
  <2>4. load' \in Loads
    BY <1>1 DEF Inv, Queues
  <2> QED
    BY <1>1, <1>5, <1>6, <2>1, <2>2, <2>3, <2>4 DEF Queues
<1>12. Numbers'
  <2>1. tokens \in [Requests -> Seq(Nat)] /\ computed \in [Requests -> Int] /\ Counted(out)
    BY DEF Inv, Numbers
  <2>2. ASSUME NEW r \in Requests
        PROVE  tokens'[r] \in Seq(Nat) /\ Len(tokens[r]) <= Len(tokens'[r])
    <3>1. PICK t \in Seq(Nat) : t = tokens[r]
      BY <2>1
    <3>2. CASE r \in sampled
      <4>1. Answer[r] \in Nat
        BY SparseEngineAssumption
      <4>2. PICK z \in Nat : z = Answer[r]
        BY <4>1
      <4>3. tokens'[r] = Append(t, z)
        BY <1>3, <3>1, <3>2, <4>2
      <4> QED
        BY <3>1, <4>3
    <3>3. CASE r \notin sampled
      BY <1>3, <3>1, <3>3
    <3> QED
      BY <3>2, <3>3
  <2>3. tokens' \in [Requests -> Seq(Nat)]
    <3>1. PICK t : t = tokens'
      OBVIOUS
    <3>2. \A r \in Requests : t[r] \in Seq(Nat)
      BY <2>2, <3>1
    <3>3. t = [r \in Requests |-> t[r]]
      BY <1>3, <3>1
    <3> QED
      BY <3>1, <3>2, <3>3
  <2>4. \A r \in Requests : Len((Prompt(r))') <= Len(tokens'[r])
    <3>1. ASSUME NEW r \in Requests PROVE Len((Prompt(r))') <= Len(tokens'[r])
      <4>1. (Prompt(r))' = Prompt(r)
        BY <1>1 DEF Prompt
      <4>2. Len(Prompt(r)) <= Len(tokens[r]) /\ Len(tokens[r]) \in Nat
        BY <2>1 DEF Inv, Numbers
      <4>3. Len(tokens'[r]) \in Nat /\ Len(tokens[r]) <= Len(tokens'[r])
        BY <2>2
      <4>4. Prompt(r) \in Seq(Nat)
        BY LoadOf DEF Inv, Queues, Prompt
      <4>5. Len(Prompt(r)) \in Nat
        BY <4>4
      <4> QED
        BY <4>1, <4>2, <4>3, <4>5
    <3> QED
      BY <3>1
  <2>5. computed' \in [Requests -> Int]
    <3>1. \A r \in ToSet(out.order) : out.n[r] \in Int
      BY <2>1 DEF Counted
    <3> QED
      BY <1>3, <2>1, <3>1
  <2>6. (Counted(out))'
    BY <1>1, <2>1 DEF Counted
  <2>7. at' \in Nat \ {0} /\ budget' \in Int
    BY <1>1 DEF Inv, Numbers
  <2> QED
    BY <2>3, <2>4, <2>5, <2>6, <2>7 DEF Numbers
<1> QED
  BY <1>10, <1>11, <1>12 DEF Inv

----------------------------------------------------------------------------
(* The methods.                                                            *)

(* A turn of r asks the method for slots, rather than vLLM's block manager. *)
SparseNow(r) ==
    \/ load.method = "ESA" /\ ESA!estimate_num_slots_sparsed(r) # INVALID_SLOT
    \/ load.method = "KVStarMultiStep" /\ KVStar!estimate_num_slots_sparsed(r) # INVALID_SLOT

(* What allocate_slots answers: the new blocks, or all of them for a sparse *)
(* step; blocks are given up in vain for a sparse step only.               *)
Reports(r, slots, a) ==
    /\ slots # INVALID_SLOT <=> SparseNow(r)
    /\ a.ok => a.blocks = IF slots = INVALID_SLOT THEN blocks[r] \o a.new ELSE a.new
    /\ ~a.ok => a.blocks = blocks[r] \/ SparseNow(r)

(* What the end of a step leaves, with any method: the queues and blocks   *)
(* (update_from_output), and what the worker knows (_update_states).       *)
Leaves ==
    /\ pc = "execute" /\ pc' = "idle"
    /\ finished' = Stopped /\ status' = [r \in Requests |-> IF r \in Stopped THEN "FINISHED" ELSE status[r]]
    /\ running' = Without(running, Stopped)
    /\ blocks' = [r \in Requests |-> IF r \in Stopped THEN <<>> ELSE blocks[r]]
    /\ held' = UpdatedHeld /\ rows' = UpdatedRows /\ batch' = UpdatedBatch
    /\ UNCHANGED <<load, waiting>>

(* The steps of the engine with any method: what allocate_slots may answer *)
(* is all that the method adds to the turns of schedule.                   *)
Turned ==
    \E r \in ToSet(running) : \E slots, a :
        Sound(r, a) /\ Reports(r, slots, a) /\ ScheduleRunning(r, slots, a) /\ UNCHANGED preempt_req_output_tokens
Admitted ==
    \E r \in ToSet(waiting) : \E from \in Int : \E slots, a :
        Sound(r, a) /\ (~a.ok => a.blocks = <<>>) /\ ScheduleWaiting(r, slots, from, a)
Loops == (Schedule \/ RunningDone \/ WaitingDone) /\ UNCHANGED preempt_req_output_tokens
Clients == \E r \in Requests : (Arrive(r) \/ Abort(r)) /\ UNCHANGED preempt_req_output_tokens
Left == Ended(Sampled, Stopped) /\ Leaves
Beside == UNCHANGED <<load, schedulerVars, scheduleVars, held, rows, batch, preempt_req_output_tokens>>
EngineStep == Loops \/ Turned \/ Admitted \/ Clients \/ Left \/ Beside

\* They keep the invariant.
LEMMA EngineKeeps == ASSUME Inv, EngineStep PROVE Inv'
<1>1. CASE Loops
  BY <1>1, LoopsKeep DEF Loops
<1>2. CASE Turned
  <2>1. PICK r \in ToSet(running) : \E slots, a : Sound(r, a) /\ ScheduleRunning(r, slots, a)
    BY <1>2 DEF Turned
  <2>2. PICK slots, a : Sound(r, a) /\ ScheduleRunning(r, slots, a)
    BY <2>1
  <2> QED
    BY <2>2, RunningKeeps
<1>3. CASE Admitted
  <2>1. PICK r \in ToSet(waiting) : \E from \in Int : \E slots, a :
             Sound(r, a) /\ (~a.ok => a.blocks = <<>>) /\ ScheduleWaiting(r, slots, from, a)
    BY <1>3 DEF Admitted
  <2>2. PICK from \in Int : \E slots, a : Sound(r, a) /\ (~a.ok => a.blocks = <<>>) /\ ScheduleWaiting(r, slots, from, a)
    BY <2>1
  <2>3. PICK slots, a : Sound(r, a) /\ (~a.ok => a.blocks = <<>>) /\ ScheduleWaiting(r, slots, from, a)
    BY <2>2
  <2> QED
    BY <2>3, WaitingKeeps
<1>4. CASE Clients
  BY <1>4, ArriveKeeps, AbortKeeps DEF Clients
<1>5. CASE Left
  <2>1. PICK sampled, gone : Ended(sampled, gone)
    BY <1>5 DEF Left
  <2> QED
    BY <2>1, StepKeeps
<1>6. CASE Beside
  <2>1. UNCHANGED <<load, status, waiting, running, tokens, computed, blocks, free, cached, at, budget, out>>
    BY <1>6 DEF Beside, schedulerVars, scheduleVars
  <2> QED
    BY <2>1, Frame
<1> QED
  BY <1>1, <1>2, <1>3, <1>4, <1>5, <1>6 DEF EngineStep

\* What vLLM's allocate_slots answers for a running request can be carried out.
LEMMA OriginalRunning ==
    ASSUME Inv, NEW r \in ToSet(running), NEW a,
           a = original_allocate_slots(r, computed[r], NewTokens(r, computed[r]), <<>>)
    PROVE  /\ Sound(r, a)
           /\ a.blocks = IF a.ok THEN blocks[r] \o a.new ELSE blocks[r]
<1>1. r \in Requests
  <2>1. running \in Seq(Requests)
    BY DEF Inv, Queues
  <2> QED
    BY <2>1, SetOf
<1>2. PICK from \in Int, n \in Int : from = computed[r] /\ n = NewTokens(r, computed[r])
  <2>1. computed[r] \in Int
    BY <1>1 DEF Inv, Numbers
  <2> QED
    BY <1>1, <2>1, NewTokensInt
<1>3. PICK none : none = <<>>
  OBVIOUS
<1>4. none \in Seq(1..load.hbm) /\ IsInjective(none) /\ ToSet(none) = {}
  BY <1>3, Empty
<1>5. a = original_allocate_slots(r, from, n, none)
  BY <1>2, <1>3
<1>6. Sound(r, a)
  BY <1>1, <1>4, <1>5, OriginalFits DEF Inv, Pool, Sound
<1>7. PICK own \in Seq(1..load.hbm) : own = blocks[r]
  BY <1>1 DEF Inv, Pool, Whole
<1>8. own \o none = own
  BY <1>3
<1>9. ~a.ok => a.blocks = own
  BY <1>1, <1>4, <1>5, <1>7, OriginalFits DEF Inv, Pool
<1>10. PICK known : known = blocks[r] \o none
  OBVIOUS
<1>11. a.ok => a.blocks = known \o a.new
  <2>1. PICK spare : spare = Without(free, ToSet(none))
    OBVIOUS
  <2>2. PICK need : need = Ceil(from + n, BlockSize) - Len(known)
    OBVIOUS
  <2>3. CASE need > Len(spare)
    <3>1. a = [ok |-> FALSE, blocks |-> blocks[r], free |-> free, cached |-> cached, new |-> <<>>]
      BY <1>5, <1>10, <2>1, <2>2, <2>3, Zenon DEF original_allocate_slots, Allocation
    <3> QED
      BY <3>1
  <2>4. CASE ~(need > Len(spare))
    <3>1. PICK fresh : fresh = SubSeq(spare, 1, need)
      OBVIOUS
    <3>2. PICK rest : rest = SubSeq(spare, Len(fresh) + 1, Len(spare))
      OBVIOUS
    <3>3. PICK all : all = known \o fresh
      OBVIOUS
    <3> DEFINE full == 1..((from + n) \div BlockSize)
               ca == [v \in 1..HbmBlocks |->
                        IF \E i \in full : all[i] = v
                        THEN SubSeq(tokens[r], 1, BlockSize * CHOOSE i \in full : all[i] = v)
                        ELSE IF v \in ToSet(fresh) THEN Junk ELSE cached[v]]
    <3>4. a = [ok |-> TRUE, blocks |-> all, free |-> rest, cached |-> ca, new |-> fresh]
      BY <1>5, <1>10, <2>1, <2>2, <2>4, <3>1, <3>2, <3>3, Zenon DEF original_allocate_slots, Allocation
    <3> HIDE DEF ca
    <3>5. a.blocks = all /\ a.new = fresh
      BY <3>4
    <3> QED
      BY <3>3, <3>5
  <2> QED
    BY <2>3, <2>4
<1>12. a.ok \in BOOLEAN
  BY <1>6 DEF Sound
<1> QED
  BY <1>6, <1>7, <1>8, <1>9, <1>10, <1>11, <1>12

\* ... and for a waiting one, with the blocks found cached; in vain, it holds none.
LEMMA OriginalWaiting ==
    ASSUME Inv, NEW r \in ToSet(waiting), NEW from \in Int, NEW a,
           a = original_allocate_slots(r, from, NewTokens(r, from), CachedPrefix(r))
    PROVE  Sound(r, a) /\ (~a.ok => a.blocks = <<>>)
<1>1. r \in Requests /\ r \notin ToSet(running) /\ blocks[r] = <<>>
  <2>1. waiting \in Seq(Requests) /\ ToSet(waiting) \cap ToSet(running) = {}
    BY DEF Inv, Queues
  <2>2. r \in Requests /\ r \notin ToSet(running)
    BY <2>1, SetOf
  <2> QED
    BY <2>2 DEF Inv, Pool
<1>2. PICK n \in Int : n = NewTokens(r, from)
  BY <1>1, NewTokensInt
<1>3. PICK hits : hits = CachedPrefix(r)
  OBVIOUS
<1>4. hits \in Seq(1..load.hbm) /\ IsInjective(hits)
  BY <1>1, <1>3, HitsOf DEF Inv, Pool, Numbers
<1>5. ToSet(hits) \cap ToSet(blocks[r]) = {}
  BY <1>1, Empty
<1>6. a = original_allocate_slots(r, from, n, hits)
  BY <1>2, <1>3
<1>7. Whole(blocks, free, 1..load.hbm) /\ CacheIn(cached, 1..load.hbm)
  BY DEF Inv, Pool
<1>8. /\ Fits(blocks, r, a.blocks, a.free, 1..load.hbm) /\ CacheIn(a.cached, 1..load.hbm) /\ a.ok \in BOOLEAN
      /\ ~a.ok => a.blocks = blocks[r]
  BY <1>1, <1>4, <1>5, <1>6, <1>7, OriginalFits
<1> QED
  BY <1>1, <1>8 DEF Sound

\* The tokens of the blocks found cached.
LEMMA HitTokens ==
    ASSUME Inv, NEW r \in ToSet(waiting)
    PROVE  Len(CachedPrefix(r)) * BlockSize \in Int
<1>1. r \in Requests
  <2>1. waiting \in Seq(Requests)
    BY DEF Inv, Queues
  <2> QED
    BY <2>1, SetOf
<1>2. PICK hits \in Seq(1..load.hbm) : hits = CachedPrefix(r)
  BY <1>1, HitsOf DEF Inv, Pool, Numbers
<1>3. Len(hits) \in Int /\ BlockSize \in Int
  BY Sizes
<1> QED
  BY <1>2, <1>3

\* The request at hand is one of the queue.
LEMMA AtHand ==
    ASSUME Inv
    PROVE  /\ pc = "running" /\ at <= Len(running) => running[at] \in ToSet(running)
           /\ waiting # <<>> => Head(waiting) \in ToSet(waiting)
<1>1. running \in Seq(Requests) /\ waiting \in Seq(Requests) /\ at \in Nat \ {0} /\ IsInjective(waiting)
  BY DEF Inv, Queues, Numbers
<1>2. at <= Len(running) => at \in 1..Len(running)
  BY <1>1
<1>3. at <= Len(running) => running[at] \in ToSet(running)
  BY <1>1, <1>2, SetOf
<1>4. waiting # <<>> => Head(waiting) \in ToSet(waiting)
  BY <1>1, FirstOf
<1> QED
  BY <1>3, <1>4

\* GSA on device: beside what the engine does, only its flags, the KV and the hashes change.
LEMMA HashSteps ==
    ASSUME Inv, load.method = "GSAOnDevice", Hash!Next, UNCHANGED preempt_req_output_tokens
    PROVE  EngineStep
<1>1. CASE Hash!Schedule \/ Hash!RunningDone \/ Hash!WaitingDone
  <2>1. Schedule \/ RunningDone \/ WaitingDone
    BY <1>1, Zenon DEF Hash!Schedule, Schedule, Hash!RunningDone, RunningDone, Hash!WaitingDone, WaitingDone,
      Hash!NoOutput, NoOutput, Hash!schedulerVars, schedulerVars, Hash!runnerVars, runnerVars, Hash!CanAdmit,
      CanAdmit
  <2> QED
    BY <2>1 DEF EngineStep, Loops
<1>2. CASE Hash!RunningTurn
  <2>1. PICK r : r = running[at]
    OBVIOUS
  <2>2. PICK a : a = Hash!original_allocate_slots(r, computed[r], Hash!NewTokens(r, computed[r]), <<>>)
    OBVIOUS
  <2>3. a = original_allocate_slots(r, computed[r], NewTokens(r, computed[r]), <<>>)
    BY <2>2, Zenon DEF Hash!original_allocate_slots, original_allocate_slots, Hash!NewTokens, NewTokens,
      Hash!Least, Least, Hash!Ceil, Ceil, Hash!Without, Without, Hash!ToSet, ToSet, Hash!Allocation,
      Allocation, Hash!Junk, Junk
  <2>4. pc = "running" /\ at <= Len(running) /\ Hash!ScheduleRunning(r, Hash!INVALID_SLOT, a)
    BY <1>2, <2>1, <2>2, Zenon DEF Hash!RunningTurn
  <2>5. ScheduleRunning(r, INVALID_SLOT, a)
    BY <2>4, Zenon DEF Hash!ScheduleRunning, ScheduleRunning, Hash!PreemptLast, PreemptLast, Hash!NewTokens,
      NewTokens, Hash!Least, Least, Hash!Put, Put, Hash!Last, Last, Hash!Front, Front, Hash!Reverse, Reverse,
      Hash!Without, Without, Hash!ToSet, ToSet, Hash!runnerVars, runnerVars, Hash!INVALID_SLOT, INVALID_SLOT
  <2>6. r \in ToSet(running)
    BY <2>1, <2>4, AtHand
  <2>7. Sound(r, a) /\ a.blocks = IF a.ok THEN blocks[r] \o a.new ELSE blocks[r]
    BY <2>3, <2>6, OriginalRunning
  <2>8. ~SparseNow(r)
    BY DEF SparseNow
  <2>9. Reports(r, INVALID_SLOT, a)
    BY <2>7, <2>8 DEF Reports
  <2> QED
    BY <2>5, <2>6, <2>7, <2>9 DEF EngineStep, Turned
<1>3. CASE Hash!WaitingTurn
  <2>1. PICK r : r = Head(waiting)
    OBVIOUS
  <2>2. PICK hits : hits = Hash!CachedPrefix(r)
    OBVIOUS
  <2>3. hits = CachedPrefix(r)
    BY <2>2, Zenon DEF Hash!CachedPrefix, CachedPrefix
  <2>4. waiting # <<>>
    BY <1>3 DEF Hash!WaitingTurn, Hash!CanAdmit
  <2>5. r \in ToSet(waiting)
    BY <2>1, <2>4, AtHand
  <2>6. PICK here \in Int : here = Len(hits) * BlockSize
    BY <2>3, <2>5, HitTokens
  <2>7. PICK from \in Int : from = here + (IF load.stored[r] > here THEN load.stored[r] - here ELSE 0)
    <3>1. r \in Requests
      <4>1. waiting \in Seq(Requests)
        BY DEF Inv, Queues
      <4> QED
        BY <2>5, <4>1, SetOf
    <3>2. load.stored[r] \in Nat
      BY <3>1, LoadOf DEF Inv, Queues
    <3> QED
      BY <3>2
  <2>8. PICK a : a = Hash!original_allocate_slots(r, from, Hash!NewTokens(r, from), hits)
    OBVIOUS
  <2>9. a = original_allocate_slots(r, from, NewTokens(r, from), CachedPrefix(r))
    <3>1. a = original_allocate_slots(r, from, NewTokens(r, from), hits)
      BY <2>8, Zenon DEF Hash!original_allocate_slots, original_allocate_slots, Hash!NewTokens, NewTokens,
        Hash!Least, Least, Hash!Ceil, Ceil, Hash!Without, Without, Hash!ToSet, ToSet, Hash!Allocation,
        Allocation, Hash!Junk, Junk
    <3> QED
      BY <2>3, <3>1
  <2>10. Hash!ScheduleWaiting(r, Hash!INVALID_SLOT, from, a)
    BY <1>3, <2>1, <2>2, <2>6, <2>7, <2>8, Zenon DEF Hash!WaitingTurn
  <2>11. ScheduleWaiting(r, INVALID_SLOT, from, a)
    BY <2>10, Zenon DEF Hash!ScheduleWaiting, ScheduleWaiting, Hash!CanAdmit, CanAdmit, Hash!NewTokens,
      NewTokens, Hash!Least, Least, Hash!Put, Put, Hash!runnerVars, runnerVars, Hash!INVALID_SLOT, INVALID_SLOT
  <2>12. Sound(r, a) /\ (~a.ok => a.blocks = <<>>)
    BY <2>5, <2>9, OriginalWaiting
  <2> QED
    BY <2>5, <2>11, <2>12 DEF EngineStep, Admitted
<1>4. CASE Hash!Execute
  <2>1. Ended(Hash!Sampled, Hash!Stopped)
    BY <1>4, Zenon DEF Hash!Execute, Hash!StepEnds, Hash!Scheduled, Ended, Hash!Without, Without, Hash!Reverse,
      Reverse, Hash!FlattenSeq, FlattenSeq, Hash!ToSet, ToSet
  <2>2. Hash!Scheduled = Scheduled /\ Hash!Sampled = Sampled /\ Hash!Stopped = Stopped
    BY Zenon DEF Hash!Scheduled, Scheduled, Hash!ToSet, ToSet, Hash!Sampled, Sampled, Hash!Stopped, Stopped, Hash!Outputs,
      Outputs, Hash!Prompt, Prompt
  <2>3. Hash!UpdatedHeld = UpdatedHeld /\ Hash!UpdatedRows = UpdatedRows
    BY <2>2, Zenon DEF Hash!UpdatedHeld, UpdatedHeld, Hash!UpdatedRows, UpdatedRows, Hash!BlockIds, BlockIds,
      Hash!Sparsed, Sparsed, Hash!INVALID_SLOT, INVALID_SLOT
  <2>4. Hash!UpdatedBatch = UpdatedBatch
    BY Zenon DEF Hash!UpdatedBatch, UpdatedBatch, Hash!Scheduled, Scheduled, Hash!ToSet, ToSet, Hash!Without, Without,
      Hash!Reverse, Reverse, Hash!Cardinality, Cardinality
  <2>5. /\ pc = "execute" /\ pc' = "idle" /\ finished' = Hash!Stopped
        /\ held' = Hash!UpdatedHeld /\ rows' = Hash!UpdatedRows /\ batch' = Hash!UpdatedBatch
    BY <1>4, Zenon DEF Hash!Execute, Hash!StepEnds
  <2>6. Ended(Sampled, Stopped)
    BY <2>1, <2>2
  <2>7. Leaves
    BY <2>2, <2>3, <2>4, <2>5, <2>6, Zenon DEF Leaves, Ended
  <2> QED
    BY <2>6, <2>7 DEF EngineStep, Left
<1>5. CASE Hash!Clients
  <2>1. PICK r \in Requests : Hash!Arrive(r) \/ Hash!Abort(r)
    BY <1>5 DEF Hash!Clients
  <2>2. CASE Hash!Arrive(r)
    <3>1. Arrive(r)
      BY <2>2, Zenon DEF Hash!Arrive, Arrive, Hash!Prompt, Prompt, Hash!scheduleVars, scheduleVars,
        Hash!runnerVars, runnerVars
    <3> QED
      BY <2>1, <3>1 DEF EngineStep, Clients
  <2>3. CASE Hash!Abort(r)
    <3>1. Abort(r)
      BY <2>3, Zenon DEF Hash!Abort, Abort, Hash!Released, Released, Hash!HeldByOthers, HeldByOthers,
        Hash!Reverse, Reverse, Hash!Without, Without, Hash!ToSet, ToSet, Hash!scheduleVars, scheduleVars,
        Hash!runnerVars, runnerVars
    <3> QED
      BY <2>1, <3>1 DEF EngineStep, Clients
  <2> QED
    BY <2>1, <2>2, <2>3
<1> QED
  BY <1>1, <1>2, <1>3, <1>4, <1>5 DEF Hash!Next, Hash!Steps

\* GSA: no block is given up; what was chosen only changes what is attended to.
LEMMA GsaSteps ==
    ASSUME Inv, load.method = "GSA", GSA!Next, UNCHANGED preempt_req_output_tokens
    PROVE  EngineStep
<1>1. CASE GSA!Schedule \/ GSA!RunningDone \/ GSA!WaitingDone
  <2>1. Schedule \/ RunningDone \/ WaitingDone
    BY <1>1, Zenon DEF GSA!Schedule, Schedule, GSA!RunningDone, RunningDone, GSA!WaitingDone, WaitingDone,
      GSA!NoOutput, NoOutput, GSA!schedulerVars, schedulerVars, GSA!runnerVars, runnerVars, GSA!CanAdmit,
      CanAdmit
  <2> QED
    BY <2>1 DEF EngineStep, Loops
<1>2. CASE GSA!RunningTurn
  <2>1. PICK r : r = running[at]
    OBVIOUS
  <2>2. PICK a : a = GSA!original_allocate_slots(r, computed[r], GSA!NewTokens(r, computed[r]), <<>>)
    OBVIOUS
  <2>3. a = original_allocate_slots(r, computed[r], NewTokens(r, computed[r]), <<>>)
    BY <2>2, Zenon DEF GSA!original_allocate_slots, original_allocate_slots, GSA!NewTokens, NewTokens,
      GSA!Least, Least, GSA!Ceil, Ceil, GSA!Without, Without, GSA!ToSet, ToSet, GSA!Allocation, Allocation,
      GSA!Junk, Junk
  <2>4. pc = "running" /\ at <= Len(running) /\ GSA!ScheduleRunning(r, GSA!INVALID_SLOT, a)
    BY <1>2, <2>1, <2>2, Zenon DEF GSA!RunningTurn
  <2>5. ScheduleRunning(r, INVALID_SLOT, a)
    BY <2>4, Zenon DEF GSA!ScheduleRunning, ScheduleRunning, GSA!PreemptLast, PreemptLast, GSA!NewTokens,
      NewTokens, GSA!Least, Least, GSA!Put, Put, GSA!Last, Last, GSA!Front, Front, GSA!Reverse, Reverse,
      GSA!Without, Without, GSA!ToSet, ToSet, GSA!runnerVars, runnerVars, GSA!INVALID_SLOT, INVALID_SLOT
  <2>6. r \in ToSet(running)
    BY <2>1, <2>4, AtHand
  <2>7. Sound(r, a) /\ a.blocks = IF a.ok THEN blocks[r] \o a.new ELSE blocks[r]
    BY <2>3, <2>6, OriginalRunning
  <2>8. ~SparseNow(r)
    BY DEF SparseNow
  <2>9. Reports(r, INVALID_SLOT, a)
    BY <2>7, <2>8 DEF Reports
  <2> QED
    BY <2>5, <2>6, <2>7, <2>9 DEF EngineStep, Turned
<1>3. CASE GSA!WaitingTurn
  <2>1. PICK r : r = Head(waiting)
    OBVIOUS
  <2>2. PICK hits : hits = GSA!CachedPrefix(r)
    OBVIOUS
  <2>3. hits = CachedPrefix(r)
    BY <2>2, Zenon DEF GSA!CachedPrefix, CachedPrefix
  <2>4. waiting # <<>>
    BY <1>3 DEF GSA!WaitingTurn, GSA!CanAdmit
  <2>5. r \in ToSet(waiting)
    BY <2>1, <2>4, AtHand
  <2>6. PICK here \in Int : here = Len(hits) * BlockSize
    BY <2>3, <2>5, HitTokens
  <2>7. PICK from \in Int : from = here
    OBVIOUS
  <2>8. PICK a : a = GSA!original_allocate_slots(r, from, GSA!NewTokens(r, from), hits)
    OBVIOUS
  <2>9. a = original_allocate_slots(r, from, NewTokens(r, from), CachedPrefix(r))
    <3>1. a = original_allocate_slots(r, from, NewTokens(r, from), hits)
      BY <2>8, Zenon DEF GSA!original_allocate_slots, original_allocate_slots, GSA!NewTokens, NewTokens,
        GSA!Least, Least, GSA!Ceil, Ceil, GSA!Without, Without, GSA!ToSet, ToSet, GSA!Allocation, Allocation,
        GSA!Junk, Junk
    <3> QED
      BY <2>3, <3>1
  <2>10. GSA!ScheduleWaiting(r, GSA!INVALID_SLOT, from, a)
    BY <1>3, <2>1, <2>2, <2>6, <2>7, <2>8, Zenon DEF GSA!WaitingTurn
  <2>11. ScheduleWaiting(r, INVALID_SLOT, from, a)
    BY <2>10, Zenon DEF GSA!ScheduleWaiting, ScheduleWaiting, GSA!CanAdmit, CanAdmit, GSA!NewTokens, NewTokens,
      GSA!Least, Least, GSA!Put, Put, GSA!runnerVars, runnerVars, GSA!INVALID_SLOT, INVALID_SLOT
  <2>12. Sound(r, a) /\ (~a.ok => a.blocks = <<>>)
    BY <2>5, <2>9, OriginalWaiting
  <2> QED
    BY <2>5, <2>11, <2>12 DEF EngineStep, Admitted
<1>4. CASE GSA!Execute
  <2>1. Ended(GSA!Sampled, GSA!Stopped)
    BY <1>4, Zenon DEF GSA!Execute, GSA!StepEnds, GSA!Scheduled, Ended, GSA!Without, Without, GSA!Reverse,
      Reverse, GSA!FlattenSeq, FlattenSeq, GSA!ToSet, ToSet
  <2>2. GSA!Scheduled = Scheduled /\ GSA!Sampled = Sampled /\ GSA!Stopped = Stopped
    BY Zenon DEF GSA!Scheduled, Scheduled, GSA!ToSet, ToSet, GSA!Sampled, Sampled, GSA!Stopped, Stopped, GSA!Outputs,
      Outputs, GSA!Prompt, Prompt
  <2>3. GSA!UpdatedHeld = UpdatedHeld /\ GSA!UpdatedRows = UpdatedRows
    BY <2>2, Zenon DEF GSA!UpdatedHeld, UpdatedHeld, GSA!UpdatedRows, UpdatedRows, GSA!BlockIds, BlockIds,
      GSA!Sparsed, Sparsed, GSA!INVALID_SLOT, INVALID_SLOT
  <2>4. GSA!UpdatedBatch = UpdatedBatch
    BY Zenon DEF GSA!UpdatedBatch, UpdatedBatch, GSA!Scheduled, Scheduled, GSA!ToSet, ToSet, GSA!Without, Without,
      GSA!Reverse, Reverse, GSA!Cardinality, Cardinality
  <2>5. /\ pc = "execute" /\ pc' = "idle" /\ finished' = GSA!Stopped
        /\ held' = GSA!UpdatedHeld /\ rows' = GSA!UpdatedRows /\ batch' = GSA!UpdatedBatch
    BY <1>4, Zenon DEF GSA!Execute, GSA!StepEnds
  <2>6. Ended(Sampled, Stopped)
    BY <2>1, <2>2
  <2>7. Leaves
    BY <2>2, <2>3, <2>4, <2>5, <2>6, Zenon DEF Leaves, Ended
  <2> QED
    BY <2>6, <2>7 DEF EngineStep, Left
<1>5. CASE GSA!Clients
  <2>1. PICK r \in Requests : GSA!Arrive(r) \/ GSA!Abort(r)
    BY <1>5 DEF GSA!Clients
  <2>2. CASE GSA!Arrive(r)
    <3>1. Arrive(r)
      BY <2>2, Zenon DEF GSA!Arrive, Arrive, GSA!Prompt, Prompt, GSA!scheduleVars, scheduleVars,
        GSA!runnerVars, runnerVars
    <3> QED
      BY <2>1, <3>1 DEF EngineStep, Clients
  <2>3. CASE GSA!Abort(r)
    <3>1. Abort(r)
      BY <2>3, Zenon DEF GSA!Abort, Abort, GSA!Released, Released, GSA!HeldByOthers, HeldByOthers, GSA!Reverse,
        Reverse, GSA!Without, Without, GSA!ToSet, ToSet, GSA!scheduleVars, scheduleVars, GSA!runnerVars,
        runnerVars
    <3> QED
      BY <2>1, <3>1 DEF EngineStep, Clients
  <2> QED
    BY <2>1, <2>2, <2>3
<1>6. CASE GSA!CopyTakes \/ GSA!CopyDone \/ GSA!CalculateBegins \/ GSA!CalForOneLayer \/ GSA!CalculateEnds \/ GSA!CalculateAtOnce
  BY <1>6 DEF GSA!CopyTakes, GSA!CopyDone, GSA!CalculateBegins, GSA!CalForOneLayer, GSA!CalculateEnds,
    GSA!CalculateAtOnce, GSA!Threads, GSA!engineVars, GSA!schedulerVars, schedulerVars, GSA!scheduleVars,
    scheduleVars, GSA!runnerVars, EngineStep, Beside
<1> QED
  BY <1>1, <1>2, <1>3, <1>4, <1>5, <1>6 DEF GSA!Next, GSA!Steps

\* ReRoPE: the scheduler is vLLM's.
LEMMA ReropeSteps ==
    ASSUME Inv, load.method = "ReRoPE", ReRoPE!Next, UNCHANGED preempt_req_output_tokens
    PROVE  EngineStep
<1>1. CASE ReRoPE!Schedule \/ ReRoPE!RunningDone \/ ReRoPE!WaitingDone
  <2>1. Schedule \/ RunningDone \/ WaitingDone
    BY <1>1, Zenon DEF ReRoPE!Schedule, Schedule, ReRoPE!RunningDone, RunningDone, ReRoPE!WaitingDone,
      WaitingDone, ReRoPE!NoOutput, NoOutput, ReRoPE!schedulerVars, schedulerVars, ReRoPE!runnerVars,
      runnerVars, ReRoPE!CanAdmit, CanAdmit
  <2> QED
    BY <2>1 DEF EngineStep, Loops
<1>2. CASE ReRoPE!RunningTurn
  <2>1. PICK r : r = running[at]
    OBVIOUS
  <2>2. PICK a : a = ReRoPE!original_allocate_slots(r, computed[r], ReRoPE!NewTokens(r, computed[r]), <<>>)
    OBVIOUS
  <2>3. a = original_allocate_slots(r, computed[r], NewTokens(r, computed[r]), <<>>)
    BY <2>2, Zenon DEF ReRoPE!original_allocate_slots, original_allocate_slots, ReRoPE!NewTokens, NewTokens,
      ReRoPE!Least, Least, ReRoPE!Ceil, Ceil, ReRoPE!Without, Without, ReRoPE!ToSet, ToSet, ReRoPE!Allocation,
      Allocation, ReRoPE!Junk, Junk
  <2>4. pc = "running" /\ at <= Len(running) /\ ReRoPE!ScheduleRunning(r, ReRoPE!INVALID_SLOT, a)
    BY <1>2, <2>1, <2>2, Zenon DEF ReRoPE!RunningTurn
  <2>5. ScheduleRunning(r, INVALID_SLOT, a)
    BY <2>4, Zenon DEF ReRoPE!ScheduleRunning, ScheduleRunning, ReRoPE!PreemptLast, PreemptLast,
      ReRoPE!NewTokens, NewTokens, ReRoPE!Least, Least, ReRoPE!Put, Put, ReRoPE!Last, Last, ReRoPE!Front,
      Front, ReRoPE!Reverse, Reverse, ReRoPE!Without, Without, ReRoPE!ToSet, ToSet, ReRoPE!runnerVars,
      runnerVars, ReRoPE!INVALID_SLOT, INVALID_SLOT
  <2>6. r \in ToSet(running)
    BY <2>1, <2>4, AtHand
  <2>7. Sound(r, a) /\ a.blocks = IF a.ok THEN blocks[r] \o a.new ELSE blocks[r]
    BY <2>3, <2>6, OriginalRunning
  <2>8. ~SparseNow(r)
    BY DEF SparseNow
  <2>9. Reports(r, INVALID_SLOT, a)
    BY <2>7, <2>8 DEF Reports
  <2> QED
    BY <2>5, <2>6, <2>7, <2>9 DEF EngineStep, Turned
<1>3. CASE ReRoPE!WaitingTurn
  <2>1. PICK r : r = Head(waiting)
    OBVIOUS
  <2>2. PICK hits : hits = ReRoPE!CachedPrefix(r)
    OBVIOUS
  <2>3. hits = CachedPrefix(r)
    BY <2>2, Zenon DEF ReRoPE!CachedPrefix, CachedPrefix
  <2>4. waiting # <<>>
    BY <1>3 DEF ReRoPE!WaitingTurn, ReRoPE!CanAdmit
  <2>5. r \in ToSet(waiting)
    BY <2>1, <2>4, AtHand
  <2>6. PICK here \in Int : here = Len(hits) * BlockSize
    BY <2>3, <2>5, HitTokens
  <2>7. PICK from \in Int : from = here + (IF load.stored[r] > here THEN load.stored[r] - here ELSE 0)
    <3>1. r \in Requests
      <4>1. waiting \in Seq(Requests)
        BY DEF Inv, Queues
      <4> QED
        BY <2>5, <4>1, SetOf
    <3>2. load.stored[r] \in Nat
      BY <3>1, LoadOf DEF Inv, Queues
    <3> QED
      BY <3>2
  <2>8. PICK a : a = ReRoPE!original_allocate_slots(r, from, ReRoPE!NewTokens(r, from), hits)
    OBVIOUS
  <2>9. a = original_allocate_slots(r, from, NewTokens(r, from), CachedPrefix(r))
    <3>1. a = original_allocate_slots(r, from, NewTokens(r, from), hits)
      BY <2>8, Zenon DEF ReRoPE!original_allocate_slots, original_allocate_slots, ReRoPE!NewTokens, NewTokens,
        ReRoPE!Least, Least, ReRoPE!Ceil, Ceil, ReRoPE!Without, Without, ReRoPE!ToSet, ToSet,
        ReRoPE!Allocation, Allocation, ReRoPE!Junk, Junk
    <3> QED
      BY <2>3, <3>1
  <2>10. ReRoPE!ScheduleWaiting(r, ReRoPE!INVALID_SLOT, from, a)
    BY <1>3, <2>1, <2>2, <2>6, <2>7, <2>8, Zenon DEF ReRoPE!WaitingTurn
  <2>11. ScheduleWaiting(r, INVALID_SLOT, from, a)
    BY <2>10, Zenon DEF ReRoPE!ScheduleWaiting, ScheduleWaiting, ReRoPE!CanAdmit, CanAdmit, ReRoPE!NewTokens,
      NewTokens, ReRoPE!Least, Least, ReRoPE!Put, Put, ReRoPE!runnerVars, runnerVars, ReRoPE!INVALID_SLOT,
      INVALID_SLOT
  <2>12. Sound(r, a) /\ (~a.ok => a.blocks = <<>>)
    BY <2>5, <2>9, OriginalWaiting
  <2> QED
    BY <2>5, <2>11, <2>12 DEF EngineStep, Admitted
<1>4. CASE ReRoPE!Execute
  <2>1. Ended(ReRoPE!Sampled, ReRoPE!Stopped)
    BY <1>4, Zenon DEF ReRoPE!Execute, ReRoPE!StepEnds, ReRoPE!Scheduled, Ended, ReRoPE!Without, Without,
      ReRoPE!Reverse, Reverse, ReRoPE!FlattenSeq, FlattenSeq, ReRoPE!ToSet, ToSet
  <2>2. ReRoPE!Scheduled = Scheduled /\ ReRoPE!Sampled = Sampled /\ ReRoPE!Stopped = Stopped
    BY Zenon DEF ReRoPE!Scheduled, Scheduled, ReRoPE!ToSet, ToSet, ReRoPE!Sampled, Sampled, ReRoPE!Stopped, Stopped, ReRoPE!Outputs,
      Outputs, ReRoPE!Prompt, Prompt
  <2>3. ReRoPE!UpdatedHeld = UpdatedHeld /\ ReRoPE!UpdatedRows = UpdatedRows
    BY <2>2, Zenon DEF ReRoPE!UpdatedHeld, UpdatedHeld, ReRoPE!UpdatedRows, UpdatedRows, ReRoPE!BlockIds, BlockIds,
      ReRoPE!Sparsed, Sparsed, ReRoPE!INVALID_SLOT, INVALID_SLOT
  <2>4. ReRoPE!UpdatedBatch = UpdatedBatch
    BY Zenon DEF ReRoPE!UpdatedBatch, UpdatedBatch, ReRoPE!Scheduled, Scheduled, ReRoPE!ToSet, ToSet, ReRoPE!Without, Without,
      ReRoPE!Reverse, Reverse, ReRoPE!Cardinality, Cardinality
  <2>5. /\ pc = "execute" /\ pc' = "idle" /\ finished' = ReRoPE!Stopped
        /\ held' = ReRoPE!UpdatedHeld /\ rows' = ReRoPE!UpdatedRows /\ batch' = ReRoPE!UpdatedBatch
    BY <1>4, Zenon DEF ReRoPE!Execute, ReRoPE!StepEnds
  <2>6. Ended(Sampled, Stopped)
    BY <2>1, <2>2
  <2>7. Leaves
    BY <2>2, <2>3, <2>4, <2>5, <2>6, Zenon DEF Leaves, Ended
  <2> QED
    BY <2>6, <2>7 DEF EngineStep, Left
<1>5. CASE ReRoPE!Clients
  <2>1. PICK r \in Requests : ReRoPE!Arrive(r) \/ ReRoPE!Abort(r)
    BY <1>5 DEF ReRoPE!Clients
  <2>2. CASE ReRoPE!Arrive(r)
    <3>1. Arrive(r)
      BY <2>2, Zenon DEF ReRoPE!Arrive, Arrive, ReRoPE!Prompt, Prompt, ReRoPE!scheduleVars, scheduleVars,
        ReRoPE!runnerVars, runnerVars
    <3> QED
      BY <2>1, <3>1 DEF EngineStep, Clients
  <2>3. CASE ReRoPE!Abort(r)
    <3>1. Abort(r)
      BY <2>3, Zenon DEF ReRoPE!Abort, Abort, ReRoPE!Released, Released, ReRoPE!HeldByOthers, HeldByOthers,
        ReRoPE!Reverse, Reverse, ReRoPE!Without, Without, ReRoPE!ToSet, ToSet, ReRoPE!scheduleVars,
        scheduleVars, ReRoPE!runnerVars, runnerVars
    <3> QED
      BY <2>1, <3>1 DEF EngineStep, Clients
  <2> QED
    BY <2>1, <2>2, <2>3
<1> QED
  BY <1>1, <1>2, <1>3, <1>4, <1>5 DEF ReRoPE!Next, ReRoPE!Steps

\* The slots that ESA asks for are counted.
LEMMA ESASlots ==
    ASSUME Inv, NEW r \in Requests
    PROVE  ESA!estimate_num_slots_sparsed(r) \in Int
<1>1. Len(Prompt(r)) \in Nat /\ Len(tokens[r]) \in Nat
  <2>1. Prompt(r) \in Seq(Nat) /\ tokens[r] \in Seq(Nat)
    BY LoadOf DEF Inv, Queues, Numbers, Prompt
  <2> QED
    BY <2>1
<1>2. PICK p \in Nat, t \in Nat : p = Len(Prompt(r)) /\ t = Len(tokens[r])
  BY <1>1
<1>3. BlockSize \in Nat \ {0} /\ EsaInit \in Nat /\ EsaLocal \in Nat /\ EsaRatio \in Nat
  BY Sizes, EsaAssumption
<1>4. PICK outputs \in Int : outputs = ESA!Outputs(r)
  <2>1. ESA!Outputs(r) = t - p
    BY <1>2, Zenon DEF ESA!Outputs, ESA!Prompt, Prompt
  <2>2. t - p \in Int
    OBVIOUS
  <2> QED
    BY <2>1, <2>2
<1>5. PICK best \in Int : best = ESA!top_k(r)
  <2>1. PICK blks \in Int : blks = Ceil(p, BlockSize)
    BY FullBlocks
  <2>2. PICK range \in Int : range = blks - EsaInit - EsaLocal
    BY <1>3, <2>1
  <2>3. PICK x \in Int : x = range * EsaRatio
    BY <1>3, <2>2
  <2>4. x \div 100 \in Int
    OBVIOUS
  <2>5. ESA!top_k(r) = x \div 100
    BY <1>2, <2>1, <2>2, <2>3 DEF ESA!top_k, ESA!sparse_range, ESA!Ceil, Ceil, ESA!Prompt, Prompt
  <2> QED
    BY <2>4, <2>5
<1>6. PICK flaw \in Int : flaw = p % BlockSize
  BY <1>3
<1>7. PICK local \in Int : local = IF flaw = 0 THEN BlockSize * EsaLocal ELSE flaw + BlockSize * (EsaLocal - 1)
  BY <1>3
<1>8. (EsaInit + best) * BlockSize + local + outputs \in Int
  BY <1>3
<1>9. ESA!INVALID_SLOT \in Int
  BY DEF ESA!INVALID_SLOT
<1>10. \/ ESA!estimate_num_slots_sparsed(r) = ESA!INVALID_SLOT
       \/ ESA!estimate_num_slots_sparsed(r) = (EsaInit + best) * BlockSize + local + outputs
  BY <1>2, <1>4, <1>5, <1>6, <1>7, Zenon DEF ESA!estimate_num_slots_sparsed, ESA!Prompt, Prompt
<1> QED
  BY <1>8, <1>9, <1>10

\* What ESA's allocate_slots answers can be carried out: the first sparse step starts anew.
LEMMA ESAAnswers ==
    ASSUME Inv, NEW r \in Requests, NEW slots, slots = ESA!estimate_num_slots_sparsed(r),
           NEW a, a = ESA!allocate_slots(r, slots)
    PROVE  Sound(r, a) /\ (a.ok => a.blocks = a.new)
<1>1. slots \in Int
  BY ESASlots
<1>2. Whole(blocks, free, 1..load.hbm) /\ CacheIn(cached, 1..load.hbm)
  BY DEF Inv, Pool
<1>3. CASE ESA!NumOutputTokens(r) = 1
  <2>1. PICK none : none = <<>>
    OBVIOUS
  <2>2. PICK fr : fr = Released(r, Reverse(blocks[r]))
    OBVIOUS
  <2>3. Fits(blocks, r, none, fr, 1..load.hbm)
    BY <1>2, <2>1, <2>2, AllReleased
  <2>4. a = ESA!TakeBlocks(<<>>, ESA!Released(r, ESA!Reverse(blocks[r])), cached, slots)
    BY <1>3, Zenon DEF ESA!allocate_slots
  <2>5. a = ESA!TakeBlocks(none, fr, cached, slots)
    BY <2>1, <2>2, <2>4, Zenon DEF ESA!Released, Released, ESA!HeldByOthers, HeldByOthers, ESA!Reverse,
      Reverse, ESA!Without, Without, ESA!ToSet, ToSet
  <2>6. a = TakeBlocks(none, fr, cached, slots)
    BY <2>5, Zenon DEF ESA!TakeBlocks, TakeBlocks, ESA!Ceil, Ceil, ESA!Allocation, Allocation, ESA!Junk, Junk,
      ESA!ToSet, ToSet
  <2> QED
    BY <1>1, <1>2, <2>3, <2>6, TakenFits, TakenAll DEF Sound
<1>4. CASE ESA!NumOutputTokens(r) # 1
  <2>1. PICK bs, fr, ca : bs = blocks[r] /\ fr = free /\ ca = cached
    OBVIOUS
  <2>2. Fits(blocks, r, bs, fr, 1..load.hbm)
    BY <1>2, <2>1, OwnFits
  <2>3. a = ESA!TakeBlocks(bs, fr, ca, slots)
    BY <1>4, <2>1, Zenon DEF ESA!allocate_slots
  <2>4. a = TakeBlocks(bs, fr, ca, slots)
    BY <2>3, Zenon DEF ESA!TakeBlocks, TakeBlocks, ESA!Ceil, Ceil, ESA!Allocation, Allocation, ESA!Junk, Junk,
      ESA!ToSet, ToSet
  <2> QED
    BY <1>1, <1>2, <2>1, <2>2, <2>4, TakenFits, TakenAll DEF Sound
<1> QED
  BY <1>3, <1>4

\* ESA: compressed requests give up blocks and take others; transfers touch the KV only.
LEMMA EsaSteps ==
    ASSUME Inv, load.method = "ESA", ESA!Next
    PROVE  EngineStep
<1>1. CASE (ESA!Schedule \/ ESA!RunningDone \/ ESA!WaitingDone) /\ UNCHANGED ESA!esaVars
  <2>1. Schedule \/ RunningDone \/ WaitingDone
    BY <1>1, Zenon DEF ESA!Schedule, Schedule, ESA!RunningDone, RunningDone, ESA!WaitingDone, WaitingDone,
      ESA!NoOutput, NoOutput, ESA!schedulerVars, schedulerVars, ESA!runnerVars, runnerVars, ESA!CanAdmit,
      CanAdmit
  <2>2. UNCHANGED preempt_req_output_tokens
    BY <1>1 DEF ESA!esaVars
  <2> QED
    BY <2>1, <2>2 DEF EngineStep, Loops
<1>2. CASE ESA!RunningTurn
  <2>1. PICK r : r = running[at]
    OBVIOUS
  <2>2. pc = "running" /\ at <= Len(running)
    BY <1>2 DEF ESA!RunningTurn
  <2>3. r \in ToSet(running)
    BY <2>1, <2>2, AtHand
  <2>4. PICK slots : slots = ESA!estimate_num_slots_sparsed(r)
    OBVIOUS
  <2>5. PICK a : a = ESA!patched_allocate_slots(r, slots, computed[r], ESA!NewTokens(r, computed[r]), <<>>)
    OBVIOUS
  <2>6. ESA!ScheduleRunning(r, slots, a)
    BY <1>2, <2>1, <2>4, <2>5, Zenon DEF ESA!RunningTurn
  <2>7. ScheduleRunning(r, slots, a)
    BY <2>6, Zenon DEF ESA!ScheduleRunning, ScheduleRunning, ESA!PreemptLast, PreemptLast, ESA!NewTokens,
      NewTokens, ESA!Least, Least, ESA!Put, Put, ESA!Last, Last, ESA!Front, Front, ESA!Reverse, Reverse,
      ESA!Without, Without, ESA!ToSet, ToSet, ESA!runnerVars, runnerVars
  <2>8. slots # INVALID_SLOT <=> SparseNow(r)
    BY <2>4 DEF SparseNow
  <2>9. UNCHANGED preempt_req_output_tokens
    BY <1>2 DEF ESA!RunningTurn, ESA!esaVars
  <2>10. CASE slots = ESA!INVALID_SLOT
    <3>1. a = ESA!original_allocate_slots(r, computed[r], ESA!NewTokens(r, computed[r]), <<>>)
      BY <2>5, <2>10, Zenon DEF ESA!patched_allocate_slots
    <3>2. a = original_allocate_slots(r, computed[r], NewTokens(r, computed[r]), <<>>)
      BY <3>1, Zenon DEF ESA!original_allocate_slots, original_allocate_slots, ESA!NewTokens, NewTokens,
        ESA!Least, Least, ESA!Ceil, Ceil, ESA!Without, Without, ESA!ToSet, ToSet, ESA!Allocation, Allocation,
        ESA!Junk, Junk
    <3>3. Sound(r, a) /\ a.blocks = IF a.ok THEN blocks[r] \o a.new ELSE blocks[r]
      BY <2>3, <3>2, OriginalRunning
    <3>4. Reports(r, slots, a)
      BY <2>10, <2>8, <3>3 DEF Reports, ESA!INVALID_SLOT, INVALID_SLOT
    <3> QED
      BY <2>3, <2>7, <2>9, <3>3, <3>4 DEF EngineStep, Turned
  <2>11. CASE slots # ESA!INVALID_SLOT
    <3>1. a = ESA!allocate_slots(r, slots)
      BY <2>5, <2>11, Zenon DEF ESA!patched_allocate_slots
    <3>2. r \in Requests
      <4>1. running \in Seq(Requests)
        BY DEF Inv, Queues
      <4> QED
        BY <2>3, <4>1, SetOf
    <3>3. Sound(r, a) /\ (a.ok => a.blocks = a.new)
      BY <2>4, <3>1, <3>2, ESAAnswers
    <3>4. Reports(r, slots, a)
      BY <2>11, <2>8, <3>3 DEF Reports, ESA!INVALID_SLOT, INVALID_SLOT
    <3> QED
      BY <2>3, <2>7, <2>9, <3>3, <3>4 DEF EngineStep, Turned
  <2> QED
    BY <2>10, <2>11
<1>3. CASE ESA!WaitingTurn
  <2>1. PICK r : r = Head(waiting)
    OBVIOUS
  <2>2. PICK hits : hits = ESA!CachedPrefix(r)
    OBVIOUS
  <2>3. hits = CachedPrefix(r)
    BY <2>2, Zenon DEF ESA!CachedPrefix, CachedPrefix
  <2>4. waiting # <<>>
    BY <1>3 DEF ESA!WaitingTurn, ESA!CanAdmit
  <2>5. r \in ToSet(waiting)
    BY <2>1, <2>4, AtHand
  <2>6. PICK from \in Int : from = Len(hits) * BlockSize
    BY <2>3, <2>5, HitTokens
  <2>7. PICK a : a = ESA!patched_allocate_slots(r, ESA!INVALID_SLOT, from, ESA!NewTokens(r, from), hits)
    OBVIOUS
  <2>8. a = original_allocate_slots(r, from, NewTokens(r, from), CachedPrefix(r))
    <3>1. a = ESA!original_allocate_slots(r, from, ESA!NewTokens(r, from), hits)
      BY <2>7, Zenon DEF ESA!patched_allocate_slots
    <3>2. a = original_allocate_slots(r, from, NewTokens(r, from), hits)
      BY <3>1, Zenon DEF ESA!original_allocate_slots, original_allocate_slots, ESA!NewTokens, NewTokens,
        ESA!Least, Least, ESA!Ceil, Ceil, ESA!Without, Without, ESA!ToSet, ToSet, ESA!Allocation, Allocation,
        ESA!Junk, Junk
    <3> QED
      BY <2>3, <3>2
  <2>9. ESA!ScheduleWaiting(r, ESA!INVALID_SLOT, from, a)
    BY <1>3, <2>1, <2>2, <2>6, <2>7, Zenon DEF ESA!WaitingTurn
  <2>10. ScheduleWaiting(r, INVALID_SLOT, from, a)
    BY <2>9, Zenon DEF ESA!ScheduleWaiting, ScheduleWaiting, ESA!CanAdmit, CanAdmit, ESA!NewTokens, NewTokens,
      ESA!Least, Least, ESA!Put, Put, ESA!runnerVars, runnerVars, ESA!INVALID_SLOT, INVALID_SLOT
  <2>11. Sound(r, a) /\ (~a.ok => a.blocks = <<>>)
    BY <2>5, <2>8, OriginalWaiting
  <2> QED
    BY <2>5, <2>10, <2>11 DEF EngineStep, Admitted
<1>4. CASE ESA!Execute
  <2>1. Ended(ESA!Sampled, ESA!Stopped)
    BY <1>4, Zenon DEF ESA!Execute, ESA!StepEnds, ESA!Scheduled, Ended, ESA!Without, Without, ESA!Reverse,
      Reverse, ESA!FlattenSeq, FlattenSeq, ESA!ToSet, ToSet
  <2>2. ESA!Scheduled = Scheduled /\ ESA!Sampled = Sampled /\ ESA!Stopped = Stopped
    BY Zenon DEF ESA!Scheduled, Scheduled, ESA!ToSet, ToSet, ESA!Sampled, Sampled, ESA!Stopped, Stopped, ESA!Outputs,
      Outputs, ESA!Prompt, Prompt
  <2>3. ESA!UpdatedHeld = UpdatedHeld /\ ESA!UpdatedRows = UpdatedRows
    BY <2>2, Zenon DEF ESA!UpdatedHeld, UpdatedHeld, ESA!UpdatedRows, UpdatedRows, ESA!BlockIds, BlockIds,
      ESA!Sparsed, Sparsed, ESA!INVALID_SLOT, INVALID_SLOT
  <2>4. ESA!UpdatedBatch = UpdatedBatch
    BY Zenon DEF ESA!UpdatedBatch, UpdatedBatch, ESA!Scheduled, Scheduled, ESA!ToSet, ToSet, ESA!Without, Without,
      ESA!Reverse, Reverse, ESA!Cardinality, Cardinality
  <2>5. /\ pc = "execute" /\ pc' = "idle" /\ finished' = ESA!Stopped
        /\ held' = ESA!UpdatedHeld /\ rows' = ESA!UpdatedRows /\ batch' = ESA!UpdatedBatch
    BY <1>4, Zenon DEF ESA!Execute, ESA!StepEnds
  <2>6. Ended(Sampled, Stopped)
    BY <2>1, <2>2
  <2>7. Leaves
    BY <2>2, <2>3, <2>4, <2>5, <2>6, Zenon DEF Leaves, Ended
  <2> QED
    BY <2>6, <2>7 DEF EngineStep, Left
<1>5. CASE ESA!Clients
  <2>1. PICK r \in Requests : (ESA!Arrive(r) \/ ESA!Abort(r)) /\ UNCHANGED preempt_req_output_tokens
    BY <1>5 DEF ESA!Clients, ESA!esaVars
  <2>2. CASE ESA!Arrive(r)
    <3>1. Arrive(r)
      BY <2>2, Zenon DEF ESA!Arrive, Arrive, ESA!Prompt, Prompt, ESA!scheduleVars, scheduleVars,
        ESA!runnerVars, runnerVars
    <3> QED
      BY <2>1, <3>1 DEF EngineStep, Clients
  <2>3. CASE ESA!Abort(r)
    <3>1. Abort(r)
      BY <2>3, Zenon DEF ESA!Abort, Abort, ESA!Released, Released, ESA!HeldByOthers, HeldByOthers, ESA!Reverse,
        Reverse, ESA!Without, Without, ESA!ToSet, ToSet, ESA!scheduleVars, scheduleVars, ESA!runnerVars,
        runnerVars
    <3> QED
      BY <2>1, <3>1 DEF EngineStep, Clients
  <2> QED
    BY <2>1, <2>2, <2>3
<1>6. CASE ESA!LoadLands
  BY <1>6 DEF ESA!LoadLands, ESA!schedulerVars, schedulerVars, ESA!scheduleVars, scheduleVars, EngineStep, Beside
<1> QED
  BY <1>1, <1>2, <1>3, <1>4, <1>5, <1>6 DEF ESA!Next, ESA!Steps

\* A sparse request asks KVStar for no less than nothing: the middle it gives up was prefilled.
LEMMA KVStarSlots ==
    ASSUME Inv, NEW r \in Requests, KVStar!estimate_num_slots_sparsed(r) # KVStar!INVALID_SLOT
    PROVE  KVStar!estimate_num_slots_sparsed(r) \in Int /\ Ceil(KVStar!estimate_num_slots_sparsed(r), BlockSize) \in Nat
<1>1. Len(Prompt(r)) \in Nat /\ Len(tokens[r]) \in Nat /\ Len(Prompt(r)) <= Len(tokens[r])
  <2>1. Prompt(r) \in Seq(Nat) /\ tokens[r] \in Seq(Nat)
    BY LoadOf DEF Inv, Queues, Numbers, Prompt
  <2> QED
    BY <2>1 DEF Inv, Numbers
<1>2. PICK p \in Nat, t \in Nat : p = Len(Prompt(r)) /\ t = Len(tokens[r]) /\ p <= t
  BY <1>1
<1>3. PICK b \in Nat \ {0} : b = BlockSize
  BY Sizes
<1>4. PICK q \in Nat : q = p \div b /\ b * q <= p
  BY Divided
<1>5. PICK c \in Int : c = Ceil(t, b) /\ q <= c
  <2>1. PICK d \in Nat : d = t \div b /\ t < b * d + b
    BY Divided
  <2>2. PICK e \in Int : e = Ceil(t, b) /\ d <= e
    BY <1>3, <2>1, FullBlocks
  <2>3. q <= d
    <3>1. CASE q >= d + 1
      <4>1. b * q >= b * (d + 1)
        BY <3>1
      <4>2. b * (d + 1) = b * d + b
        OBVIOUS
      <4>3. PICK x \in Int, y \in Int : x = b * q /\ y = b * d + b
        OBVIOUS
      <4> QED
        <5>1. x <= p
          BY <1>4, <4>3
        <5>2. t < y
          BY <2>1, <4>3
        <5>3. x >= y
          BY <4>1, <4>2, <4>3
        <5> QED
          BY <1>2, <5>1, <5>2, <5>3
    <3> QED
      BY <3>1
  <2> QED
    BY <2>2, <2>3
<1>6. StarInit \in Nat /\ StarLocal \in Nat /\ StarRatio \in Nat
  BY KVStarAssumption
<1>7. KVStar!num_prefill_fully_block(r) = q
  BY <1>2, <1>3, <1>4, Zenon DEF KVStar!num_prefill_fully_block, KVStar!Prompt, Prompt
<1>8. PICK m \in Nat : m = KVStar!Middle(r) /\ m <= q
  <2>1. PICK k \in Nat : k = KVStar!num_prefill_keep_fixed_blk(r) /\ k <= q
    BY <1>6, <1>7 DEF KVStar!num_prefill_keep_fixed_blk, KVStar!Least
  <2>2. KVStar!Middle(r) = q - k
    BY <1>7, <2>1, Zenon DEF KVStar!Middle
  <2>3. q - k \in Nat /\ q - k <= q
    BY <2>1
  <2> QED
    BY <2>2, <2>3
<1>9. PICK best \in Nat : best = KVStar!TopK(m)
  <2>1. PICK x \in Nat : x = m * StarRatio + 100 - 1
    <3>1. PICK y \in Nat : y = m * StarRatio
      BY <1>6, Times
    <3>2. y + 100 - 1 \in Nat
      OBVIOUS
    <3> QED
      BY <3>1, <3>2
  <2>2. x \div 100 \in Nat
    BY Divided
  <2>3. KVStar!TopK(m) = x \div 100
    BY <2>1, Zenon DEF KVStar!TopK, KVStar!Ceil
  <2> QED
    BY <2>2, <2>3
<1>10. PICK total \in Nat : total = c - (m - best)
  <2>1. c - (m - best) \in Nat
    BY <1>5, <1>8
  <2> QED
    BY <2>1
<1>11. PICK tail \in Nat : tail = t % b
  OBVIOUS
<1>12. PICK slots : slots = KVStar!estimate_num_slots_sparsed(r)
  OBVIOUS
<1>13. slots = IF tail # 0 THEN (total - 1) * b + tail ELSE total * b
  <2>1. c = KVStar!Ceil(t, b)
    BY <1>5, Zenon DEF KVStar!Ceil, Ceil
  <2>2. /\ total = KVStar!Ceil(Len(tokens[r]), BlockSize) - (KVStar!Middle(r) - KVStar!TopK(KVStar!Middle(r)))
        /\ tail = Len(tokens[r]) % BlockSize
    BY <1>2, <1>3, <1>8, <1>9, <1>10, <1>11, <2>1, Zenon
  <2>3. slots # KVStar!INVALID_SLOT
    BY <1>12
  <2> QED
    BY <1>3, <1>12, <2>2, <2>3, Zenon DEF KVStar!estimate_num_slots_sparsed
<1>14. slots \in Int /\ slots + b - 1 \in Nat
  <2>1. PICK x \in Nat : x = total * b
    BY Times
  <2>2. (total - 1) * b = x - b
    BY <2>1
  <2>3. CASE tail = 0
    BY <1>13, <2>1, <2>3
  <2>4. CASE tail # 0
    BY <1>13, <2>1, <2>2, <2>4
  <2> QED
    BY <2>3, <2>4
<1>15. Ceil(slots, b) \in Nat
  <2>1. PICK x \in Nat : x = slots + b - 1
    BY <1>14
  <2>2. x \div b \in Nat
    BY Divided
  <2> QED
    BY <2>1, <2>2 DEF Ceil
<1> QED
  BY <1>3, <1>12, <1>14, <1>15

\* What KVStar's allocate_slots answers can be carried out: the last blocks stay with the request.
LEMMA KVStarAnswers ==
    ASSUME Inv, NEW r \in Requests, NEW slots, slots = KVStar!estimate_num_slots_sparsed(r),
           slots # KVStar!INVALID_SLOT, NEW a, a = KVStar!allocate_slots(r, slots)
    PROVE  Sound(r, a) /\ (blocks[r] = <<>> /\ ~a.ok => a.blocks = <<>>) /\ (a.ok => a.blocks = a.new)
<1>1. slots \in Int /\ Ceil(slots, BlockSize) \in Nat
  BY KVStarSlots
<1>2. Whole(blocks, free, 1..load.hbm) /\ CacheIn(cached, 1..load.hbm)
  BY DEF Inv, Pool
<1>3. PICK S : S = 1..load.hbm
  OBVIOUS
<1>4. PICK B \in Seq(S) : B = blocks[r] /\ IsInjective(B)
  BY <1>2, <1>3 DEF Whole
<1>5. PICK given \in Nat : given = Len(B) - KVStar!Least(KVStar!Ceil(slots, BlockSize), Len(B)) /\ given <= Len(B)
  <2>1. PICK c \in Nat : c = KVStar!Ceil(slots, BlockSize)
    BY <1>1, Zenon DEF KVStar!Ceil, Ceil
  <2>2. PICK n \in Nat : n = Len(B)
    OBVIOUS
  <2>3. PICK k \in Nat : k = KVStar!Least(c, n) /\ k <= n
    BY DEF KVStar!Least
  <2>4. n - k \in Nat /\ n - k <= n
    BY <2>3
  <2> QED
    BY <2>1, <2>2, <2>3, <2>4
<1>6. PICK gone : gone = SubSeq(B, 1, given)
  OBVIOUS
<1>7. PICK kept : kept = SubSeq(B, given + 1, Len(B))
  OBVIOUS
<1>8. /\ gone \in Seq(S) /\ IsInjective(gone) /\ kept \in Seq(S) /\ IsInjective(kept)
      /\ ToSet(gone) \cap ToSet(kept) = {} /\ ToSet(gone) \cup ToSet(kept) = ToSet(B)
  BY <1>4, <1>5, <1>6, <1>7, Parts
<1>9. PICK fr : fr = Released(r, gone)
  OBVIOUS
<1>10. Fits(blocks, r, kept, fr, S)
  <2>1. ToSet(kept) \subseteq ToSet(blocks[r]) /\ ToSet(gone) = ToSet(blocks[r]) \ ToSet(kept)
    BY <1>4, <1>8
  <2> QED
    BY <1>2, <1>3, <1>8, <1>9, <2>1, ReleasedGives
<1>11. PICK known : known = [v \in 1..HbmBlocks |-> IF v \in ToSet(B) THEN Junk ELSE cached[v]]
  OBVIOUS
<1>12. CacheIn(known, S)
  BY <1>2, <1>3, <1>11 DEF CacheIn
<1>13. a = KVStar!TakeBlocks(SubSeq(blocks[r], given + 1, Len(blocks[r])),
             KVStar!Released(r, SubSeq(blocks[r], 1, given)),
             [v \in 1..HbmBlocks |-> IF v \in KVStar!ToSet(blocks[r]) THEN KVStar!Junk ELSE cached[v]], slots)
  BY <1>4, <1>5, Zenon DEF KVStar!allocate_slots
<1>14. known = [v \in 1..HbmBlocks |-> IF v \in KVStar!ToSet(blocks[r]) THEN KVStar!Junk ELSE cached[v]]
  BY <1>4, <1>11, Zenon DEF KVStar!ToSet, ToSet, KVStar!Junk, Junk
<1>15. fr = KVStar!Released(r, gone)
  BY <1>9, Zenon DEF KVStar!Released, Released, KVStar!HeldByOthers, HeldByOthers, KVStar!Without, Without,
    KVStar!ToSet, ToSet
<1>16. a = KVStar!TakeBlocks(kept, fr, known, slots)
  BY <1>4, <1>6, <1>7, <1>13, <1>14, <1>15, Zenon
<1>17. a = TakeBlocks(kept, fr, known, slots)
  BY <1>16, Zenon DEF KVStar!TakeBlocks, TakeBlocks, KVStar!Ceil, Ceil, KVStar!Allocation, Allocation,
    KVStar!Junk, Junk, KVStar!ToSet, ToSet
<1>18. /\ Fits(blocks, r, a.blocks, a.free, S) /\ CacheIn(a.cached, S) /\ a.ok \in BOOLEAN
       /\ ~a.ok => a.blocks = kept
  BY <1>1, <1>10, <1>12, <1>17, TakenFits
<1>19. blocks[r] = <<>> => kept = <<>>
  <2>1. ASSUME blocks[r] = <<>> PROVE kept = <<>>
    <3>1. Len(B) = 0 /\ given = 0
      BY <1>4, <1>5, <2>1
    <3> QED
      BY <1>7, <3>1
  <2> QED
    BY <2>1
<1>20. a.ok => a.blocks = a.new
  BY <1>17, TakenAll
<1> QED
  BY <1>3, <1>18, <1>19, <1>20 DEF Sound

\* KVStar: requests keep their last blocks and give up the others; transfers touch the KV only.
LEMMA KVStarSteps ==
    ASSUME Inv, load.method = "KVStarMultiStep", KVStar!Next, UNCHANGED preempt_req_output_tokens
    PROVE  EngineStep
<1>1. CASE KVStar!Schedule \/ KVStar!RunningDone \/ KVStar!WaitingDone
  <2>1. Schedule \/ RunningDone \/ WaitingDone
    BY <1>1, Zenon DEF KVStar!Schedule, Schedule, KVStar!RunningDone, RunningDone, KVStar!WaitingDone,
      WaitingDone, KVStar!NoOutput, NoOutput, KVStar!schedulerVars, schedulerVars, KVStar!runnerVars,
      runnerVars, KVStar!CanAdmit, CanAdmit
  <2> QED
    BY <2>1 DEF EngineStep, Loops
<1>2. CASE KVStar!RunningTurn
  <2>1. PICK r : r = running[at]
    OBVIOUS
  <2>2. pc = "running" /\ at <= Len(running)
    BY <1>2 DEF KVStar!RunningTurn
  <2>3. r \in ToSet(running)
    BY <2>1, <2>2, AtHand
  <2>4. PICK slots : slots = KVStar!estimate_num_slots_sparsed(r)
    OBVIOUS
  <2>5. PICK a : a = KVStar!patched_allocate_slots(r, slots, computed[r], KVStar!NewTokens(r, computed[r]), <<>>)
    OBVIOUS
  <2>6. KVStar!ScheduleRunning(r, slots, a)
    BY <1>2, <2>1, <2>4, <2>5, Zenon DEF KVStar!RunningTurn
  <2>7. ScheduleRunning(r, slots, a)
    BY <2>6, Zenon DEF KVStar!ScheduleRunning, ScheduleRunning, KVStar!PreemptLast, PreemptLast,
      KVStar!NewTokens, NewTokens, KVStar!Least, Least, KVStar!Put, Put, KVStar!Last, Last, KVStar!Front,
      Front, KVStar!Reverse, Reverse, KVStar!Without, Without, KVStar!ToSet, ToSet, KVStar!runnerVars,
      runnerVars
  <2>8. slots # INVALID_SLOT <=> SparseNow(r)
    BY <2>4 DEF SparseNow
  <2>9. UNCHANGED preempt_req_output_tokens
    OBVIOUS
  <2>10. CASE slots = KVStar!INVALID_SLOT
    <3>1. a = KVStar!original_allocate_slots(r, computed[r], KVStar!NewTokens(r, computed[r]), <<>>)
      BY <2>5, <2>10, Zenon DEF KVStar!patched_allocate_slots
    <3>2. a = original_allocate_slots(r, computed[r], NewTokens(r, computed[r]), <<>>)
      BY <3>1, Zenon DEF KVStar!original_allocate_slots, original_allocate_slots, KVStar!NewTokens, NewTokens,
        KVStar!Least, Least, KVStar!Ceil, Ceil, KVStar!Without, Without, KVStar!ToSet, ToSet,
        KVStar!Allocation, Allocation, KVStar!Junk, Junk
    <3>3. Sound(r, a) /\ a.blocks = IF a.ok THEN blocks[r] \o a.new ELSE blocks[r]
      BY <2>3, <3>2, OriginalRunning
    <3>4. Reports(r, slots, a)
      BY <2>10, <2>8, <3>3 DEF Reports, KVStar!INVALID_SLOT, INVALID_SLOT
    <3> QED
      BY <2>3, <2>7, <2>9, <3>3, <3>4 DEF EngineStep, Turned
  <2>11. CASE slots # KVStar!INVALID_SLOT
    <3>1. a = KVStar!allocate_slots(r, slots)
      BY <2>5, <2>11, Zenon DEF KVStar!patched_allocate_slots
    <3>2. r \in Requests
      <4>1. running \in Seq(Requests)
        BY DEF Inv, Queues
      <4> QED
        BY <2>3, <4>1, SetOf
    <3>3. Sound(r, a) /\ (a.ok => a.blocks = a.new)
      BY <2>4, <2>11, <3>1, <3>2, KVStarAnswers
    <3>4. Reports(r, slots, a)
      BY <2>11, <2>8, <3>3 DEF Reports, KVStar!INVALID_SLOT, INVALID_SLOT
    <3> QED
      BY <2>3, <2>7, <2>9, <3>3, <3>4 DEF EngineStep, Turned
  <2> QED
    BY <2>10, <2>11
<1>3. CASE KVStar!WaitingTurn
  <2>1. PICK r : r = Head(waiting)
    OBVIOUS
  <2>2. PICK hits : hits = KVStar!CachedPrefix(r)
    OBVIOUS
  <2>3. hits = CachedPrefix(r)
    BY <2>2, Zenon DEF KVStar!CachedPrefix, CachedPrefix
  <2>4. waiting # <<>>
    BY <1>3 DEF KVStar!WaitingTurn, KVStar!CanAdmit
  <2>5. r \in ToSet(waiting)
    BY <2>1, <2>4, AtHand
  <2>6. PICK from \in Int : from = Len(hits) * BlockSize
    BY <2>3, <2>5, HitTokens
  <2>7. PICK slots : slots = KVStar!estimate_num_slots_sparsed(r)
    OBVIOUS
  <2>8. PICK a : a = KVStar!patched_allocate_slots(r, slots, from, KVStar!NewTokens(r, from), hits)
    OBVIOUS
  <2>9. KVStar!ScheduleWaiting(r, slots, from, a)
    BY <1>3, <2>1, <2>2, <2>6, <2>7, <2>8, Zenon DEF KVStar!WaitingTurn
  <2>10. ScheduleWaiting(r, slots, from, a)
    BY <2>9, Zenon DEF KVStar!ScheduleWaiting, ScheduleWaiting, KVStar!CanAdmit, CanAdmit, KVStar!NewTokens,
      NewTokens, KVStar!Least, Least, KVStar!Put, Put, KVStar!runnerVars, runnerVars
  <2>11. CASE slots = KVStar!INVALID_SLOT
    <3>1. a = KVStar!original_allocate_slots(r, from, KVStar!NewTokens(r, from), hits)
      BY <2>8, <2>11, Zenon DEF KVStar!patched_allocate_slots
    <3>2. a = original_allocate_slots(r, from, NewTokens(r, from), hits)
      BY <3>1, Zenon DEF KVStar!original_allocate_slots, original_allocate_slots, KVStar!NewTokens, NewTokens,
        KVStar!Least, Least, KVStar!Ceil, Ceil, KVStar!Without, Without, KVStar!ToSet, ToSet,
        KVStar!Allocation, Allocation, KVStar!Junk, Junk
    <3>3. Sound(r, a) /\ (~a.ok => a.blocks = <<>>)
      BY <2>3, <2>5, <3>2, OriginalWaiting
    <3> QED
      BY <2>5, <2>10, <3>3 DEF EngineStep, Admitted
  <2>12. CASE slots # KVStar!INVALID_SLOT
    <3>1. a = KVStar!allocate_slots(r, slots)
      BY <2>8, <2>12, Zenon DEF KVStar!patched_allocate_slots
    <3>2. r \in Requests /\ blocks[r] = <<>>
      <4>1. waiting \in Seq(Requests) /\ ToSet(waiting) \cap ToSet(running) = {}
        BY DEF Inv, Queues
      <4>2. r \in Requests /\ r \notin ToSet(running)
        BY <2>5, <4>1, SetOf
      <4> QED
        BY <4>2 DEF Inv, Pool
    <3>3. Sound(r, a) /\ (~a.ok => a.blocks = <<>>)
      BY <2>7, <2>12, <3>1, <3>2, KVStarAnswers
    <3> QED
      BY <2>5, <2>10, <3>3 DEF EngineStep, Admitted
  <2> QED
    BY <2>11, <2>12
<1>4. CASE KVStar!Execute
  <2>1. Ended(KVStar!Sampled, KVStar!Stopped)
    BY <1>4, Zenon DEF KVStar!Execute, KVStar!StepEnds, KVStar!Scheduled, Ended, KVStar!Without, Without,
      KVStar!Reverse, Reverse, KVStar!FlattenSeq, FlattenSeq, KVStar!ToSet, ToSet
  <2>2. KVStar!Scheduled = Scheduled /\ KVStar!Sampled = Sampled /\ KVStar!Stopped = Stopped
    BY Zenon DEF KVStar!Scheduled, Scheduled, KVStar!ToSet, ToSet, KVStar!Sampled, Sampled, KVStar!Stopped, Stopped, KVStar!Outputs,
      Outputs, KVStar!Prompt, Prompt
  <2>3. KVStar!UpdatedHeld = UpdatedHeld /\ KVStar!UpdatedRows = UpdatedRows
    BY <2>2, Zenon DEF KVStar!UpdatedHeld, UpdatedHeld, KVStar!UpdatedRows, UpdatedRows, KVStar!BlockIds, BlockIds,
      KVStar!Sparsed, Sparsed, KVStar!INVALID_SLOT, INVALID_SLOT
  <2>4. KVStar!UpdatedBatch = UpdatedBatch
    BY Zenon DEF KVStar!UpdatedBatch, UpdatedBatch, KVStar!Scheduled, Scheduled, KVStar!ToSet, ToSet, KVStar!Without, Without,
      KVStar!Reverse, Reverse, KVStar!Cardinality, Cardinality
  <2>5. /\ pc = "execute" /\ pc' = "idle" /\ finished' = KVStar!Stopped
        /\ held' = KVStar!UpdatedHeld /\ rows' = KVStar!UpdatedRows /\ batch' = KVStar!UpdatedBatch
    BY <1>4, Zenon DEF KVStar!Execute, KVStar!StepEnds
  <2>6. Ended(Sampled, Stopped)
    BY <2>1, <2>2
  <2>7. Leaves
    BY <2>2, <2>3, <2>4, <2>5, <2>6, Zenon DEF Leaves, Ended
  <2> QED
    BY <2>6, <2>7 DEF EngineStep, Left
<1>5. CASE KVStar!Clients
  <2>1. PICK r \in Requests : KVStar!Arrive(r) \/ KVStar!Abort(r)
    BY <1>5 DEF KVStar!Clients
  <2>2. CASE KVStar!Arrive(r)
    <3>1. Arrive(r)
      BY <2>2, Zenon DEF KVStar!Arrive, Arrive, KVStar!Prompt, Prompt, KVStar!scheduleVars, scheduleVars,
        KVStar!runnerVars, runnerVars
    <3> QED
      BY <2>1, <3>1 DEF EngineStep, Clients
  <2>3. CASE KVStar!Abort(r)
    <3>1. Abort(r)
      BY <2>3, Zenon DEF KVStar!Abort, Abort, KVStar!Released, Released, KVStar!HeldByOthers, HeldByOthers,
        KVStar!Reverse, Reverse, KVStar!Without, Without, KVStar!ToSet, ToSet, KVStar!scheduleVars,
        scheduleVars, KVStar!runnerVars, runnerVars
    <3> QED
      BY <2>1, <3>1 DEF EngineStep, Clients
  <2> QED
    BY <2>1, <2>2, <2>3
<1>6. CASE KVStar!LoadLands
  BY <1>6 DEF KVStar!LoadLands, KVStar!schedulerVars, schedulerVars, KVStar!scheduleVars, scheduleVars, EngineStep, Beside
<1> QED
  BY <1>1, <1>2, <1>3, <1>4, <1>5, <1>6 DEF KVStar!Next, KVStar!Steps

----------------------------------------------------------------------------
(* The engine, with any of the methods.                                    *)

\* Whatever the engine does with the method it is configured with is a step of the engine.
LEMMA StepIs == ASSUME Inv, [Next]_vars PROVE EngineStep
<1>1. CASE EsaNext
  BY <1>1, EsaSteps DEF EsaNext
<1>2. CASE KVStarNext
  BY <1>2, KVStarSteps DEF KVStarNext, esaVars
<1>3. CASE HashNext
  BY <1>3, HashSteps DEF HashNext, esaVars
<1>4. CASE GsaNext
  BY <1>4, GsaSteps DEF GsaNext, esaVars
<1>5. CASE ReropeNext
  BY <1>5, ReropeSteps DEF ReropeNext, esaVars
<1>6. CASE UNCHANGED vars
  BY <1>6 DEF vars, engineVars, schedulerVars, scheduleVars, runnerVars, esaVars, EngineStep, Beside
<1> QED
  BY <1>1, <1>2, <1>3, <1>4, <1>5, <1>6 DEF Next

\* It holds when the engine starts.
LEMMA StartInv == Init => Inv
<1>1. ASSUME Init PROVE EngineInit
  <2>1. ESA!EngineInit
    BY <1>1 DEF Init, ESA!Init
  <2> QED
    BY <2>1, Zenon DEF ESA!EngineInit, EngineInit, ESA!Junk, Junk, ESA!NoOutput, NoOutput
<1> QED
  BY <1>1, InitInv

\* The invariant is what BlocksAreWhole asks for, and more.
LEMMA InvWhole == Inv => BlocksAreWhole
<1> SUFFICES ASSUME Inv PROVE BlocksAreWhole
  OBVIOUS
<1>1. PICK S : S = 1..load.hbm
  OBVIOUS
<1>2. Whole(blocks, free, S)
  BY <1>1 DEF Inv, Pool
<1>3. PICK used : used = UNION {ToSet(blocks[r]) : r \in Requests}
  OBVIOUS
<1>4. ToSet(free) \subseteq S /\ IsInjective(free)
  <2>1. free \in Seq(S) /\ IsInjective(free)
    BY <1>2 DEF Whole
  <2> QED
    BY <2>1, SetOf
<1>5. used \subseteq S
  <2>1. ASSUME NEW r \in Requests PROVE ToSet(blocks[r]) \subseteq S
    <3>1. blocks[r] \in Seq(S)
      BY <1>2 DEF Whole
    <3> QED
      BY <3>1, SetOf
  <2> QED
    BY <1>3, <2>1
<1>6. ToSet(free) \cap used = {}
  BY <1>2, <1>3 DEF Whole
<1>7. S \subseteq ToSet(free) \cup used
  BY <1>2, <1>3 DEF Whole
<1>8. ToSet(free) \cup used = S
  BY <1>4, <1>5, <1>7
<1> QED
  BY <1>1, <1>3, <1>4, <1>6, <1>8, Zenon DEF BlocksAreWhole

\* Every block of the device is free, once, or held by a request: for ESA, KVStar, both GSA and ReRoPE, with
\* any prompts, memory and limits, through preemption, compression, prefix hits, aborts and finished requests
\* (the KV cache manager and the allocate_slots of the methods).
THEOREM NoBlockLost == Spec => []BlocksAreWhole
<1>1. Spec => []Inv
  BY StartInv, StepIs, EngineKeeps, PTL DEF Spec
<1> QED
  BY <1>1, InvWhole, PTL
=============================================================================
