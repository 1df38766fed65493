--------------------------- MODULE SequenceLemmas ---------------------------
(***************************************************************************)
(* What the proofs need of the lists the programs work on: block tables,   *)
(* free lists, queues, lists of ids.  ToSet, IsInjective, Reverse and      *)
(* FlattenSeq are those of the community modules; Kept is the function     *)
(* that the models call Without.                                           *)
(***************************************************************************)
EXTENDS Integers, SequencesExt, SequenceTheorems, WellFoundedInduction, TLAPS

\* A nonempty set of natural numbers has a least element.
LEMMA NatLeast ==
    ASSUME NEW T \in SUBSET Nat, T # {}
    PROVE  \E x \in T : \A y \in T : x <= y
<1>1. \A R, S, U : IsWellFoundedOn(R, S) /\ U \subseteq S /\ U # {} => \E x \in U : \A y \in U : ~ (<<y, x>> \in R)
  BY WFMin, Zenon
<1>2. \E x \in T : \A y \in T : ~ (<<y, x>> \in OpToRel(<, Nat))
  <2>1. T \subseteq Nat
    OBVIOUS
  <2> QED
    BY <1>1, <2>1, NatLessThanWellFounded, Zenon
<1>3. PICK x \in T : \A y \in T : ~ (<<y, x>> \in OpToRel(<, Nat))
  BY <1>2, Zenon
<1>4. \A y \in T : ~ (y < x)
  <2>1. \A z, y \in Nat : y < z => <<y, z>> \in OpToRel(<, Nat)
    BY DEF OpToRel
  <2>2. \A y \in T : y \in Nat
    OBVIOUS
  <2> QED
    BY <1>3, <2>1, <2>2, Zenon
<1> QED
  BY <1>4

\* A sequence's set is that of its members.
LEMMA SetOf ==
    ASSUME NEW T, NEW s \in Seq(T)
    PROVE  /\ Len(s) \in Nat /\ DOMAIN s = 1..Len(s)
           /\ ToSet(s) = {s[i] : i \in 1..Len(s)}
           /\ ToSet(s) \subseteq T
           /\ \A i \in 1..Len(s) : s[i] \in T /\ s[i] \in ToSet(s)
BY DEF ToSet

\* Two lists joined, as hits and fresh blocks are: the members of both.
LEMMA Joined ==
    ASSUME NEW T, NEW s \in Seq(T), NEW t \in Seq(T)
    PROVE  /\ s \o t \in Seq(T) /\ Len(s \o t) = Len(s) + Len(t)
           /\ \A i \in 1..Len(s) : (s \o t)[i] = s[i]
           /\ \A i \in 1..Len(t) : (s \o t)[Len(s) + i] = t[i]
           /\ ToSet(s \o t) = ToSet(s) \cup ToSet(t)
<1> DEFINE u == s \o t
<1>1. u \in Seq(T) /\ Len(u) = Len(s) + Len(t) /\ Len(s) \in Nat /\ Len(t) \in Nat
  OBVIOUS
<1>2. \A i \in 1..Len(u) : u[i] = IF i <= Len(s) THEN s[i] ELSE t[i - Len(s)]
  OBVIOUS
<1> HIDE DEF u
<1>3. /\ \A i \in 1..Len(s) : u[i] = s[i]
      /\ \A i \in 1..Len(t) : u[Len(s) + i] = t[i]
  <2>1. ASSUME NEW i \in 1..Len(t) PROVE u[Len(s) + i] = t[i]
    <3>1. Len(s) + i \in 1..Len(u) /\ ~ (Len(s) + i <= Len(s)) /\ (Len(s) + i) - Len(s) = i
      BY <1>1
    <3> QED
      BY <1>2, <3>1
  <2> QED
    BY <1>1, <1>2, <2>1
<1>4. ASSUME NEW x \in ToSet(u) PROVE x \in ToSet(s) \cup ToSet(t)
  <2>1. PICK i \in 1..Len(u) : x = u[i]
    BY <1>1, <1>4, SetOf
  <2>2. CASE i <= Len(s)
    <3>1. i \in 1..Len(s) /\ x = s[i]
      BY <1>1, <1>2, <2>1, <2>2
    <3> QED
      BY <3>1, SetOf
  <2>3. CASE i > Len(s)
    <3>1. i - Len(s) \in 1..Len(t) /\ x = t[i - Len(s)]
      BY <1>1, <1>2, <2>1, <2>3
    <3> QED
      BY <3>1, SetOf
  <2> QED
    BY <1>1, <2>2, <2>3
<1>5. ASSUME NEW x \in ToSet(s) \cup ToSet(t) PROVE x \in ToSet(u)
  <2>1. CASE x \in ToSet(s)
    <3>1. PICK i \in 1..Len(s) : x = s[i]
      BY <2>1, SetOf
    <3>2. x = u[i] /\ i \in 1..Len(u)
      BY <1>1, <1>3, <3>1
    <3> QED
      BY <1>1, <3>2, SetOf
  <2>2. CASE x \in ToSet(t)
    <3>1. PICK i \in 1..Len(t) : x = t[i]
      BY <2>2, SetOf
    <3>2. x = u[Len(s) + i] /\ Len(s) + i \in 1..Len(u)
      BY <1>1, <1>3, <3>1
    <3> QED
      BY <1>1, <3>2, SetOf
  <2> QED
    BY <1>5, <2>1, <2>2
<1> QED
  BY <1>1, <1>3, <1>4, <1>5 DEF u

\* Two lists without a common member, each without a repetition, have none when joined.
LEMMA JoinedApart ==
    ASSUME NEW T, NEW s \in Seq(T), NEW t \in Seq(T), IsInjective(s), IsInjective(t),
           ToSet(s) \cap ToSet(t) = {}
    PROVE  IsInjective(s \o t)
<1> DEFINE u == s \o t
<1>1. u \in Seq(T) /\ Len(u) = Len(s) + Len(t) /\ Len(s) \in Nat /\ Len(t) \in Nat
  OBVIOUS
<1>2. \A i \in 1..Len(u) : u[i] = IF i <= Len(s) THEN s[i] ELSE t[i - Len(s)]
  OBVIOUS
<1> HIDE DEF u
<1>3. DOMAIN s = 1..Len(s) /\ DOMAIN t = 1..Len(t) /\ DOMAIN u = 1..Len(u)
  BY <1>1
<1> SUFFICES ASSUME NEW i \in 1..Len(u), NEW j \in 1..Len(u), u[i] = u[j], i <= j PROVE i = j
  BY <1>1, <1>3 DEF IsInjective, u
<1>4. CASE j <= Len(s)
  <2>1. i \in 1..Len(s) /\ j \in 1..Len(s) /\ s[i] = s[j]
    BY <1>1, <1>2, <1>4
  <2> QED
    BY <1>3, <2>1 DEF IsInjective
<1>5. CASE i > Len(s)
  <2>1. i - Len(s) \in 1..Len(t) /\ j - Len(s) \in 1..Len(t) /\ t[i - Len(s)] = t[j - Len(s)]
    BY <1>1, <1>2, <1>5
  <2>2. i - Len(s) = j - Len(s)
    BY <1>3, <2>1 DEF IsInjective
  <2> QED
    BY <1>1, <2>2
<1>6. CASE i <= Len(s) /\ j > Len(s)
  <2>1. i \in 1..Len(s) /\ j - Len(s) \in 1..Len(t) /\ s[i] = t[j - Len(s)]
    BY <1>1, <1>2, <1>6
  <2>2. s[i] \in ToSet(s) /\ s[i] \in ToSet(t)
    BY <2>1, SetOf
  <2> QED
    BY <2>2
<1> QED
  BY <1>1, <1>4, <1>5, <1>6

\* What SubSeq cuts out.
LEMMA Cut ==
    ASSUME NEW T, NEW s \in Seq(T), NEW a \in Nat, NEW b \in Nat, a <= b, b <= Len(s)
    PROVE  /\ SubSeq(s, a + 1, b) \in Seq(T) /\ Len(SubSeq(s, a + 1, b)) = b - a
           /\ \A i \in 1..(b - a) : SubSeq(s, a + 1, b)[i] = s[a + i]
           /\ ToSet(SubSeq(s, a + 1, b)) = {s[i] : i \in (a + 1)..b}
<1> DEFINE u == SubSeq(s, a + 1, b)
<1>1. Len(s) \in Nat
  OBVIOUS
<1>2. u \in Seq(T) /\ Len(u) = b - a
  BY SubSeqProperties, <1>1
<1>3. \A i \in 1..(b - a) : u[i] = s[a + i]
  BY <1>1
<1> HIDE DEF u
<1>4. ToSet(u) = {u[i] : i \in 1..(b - a)}
  BY <1>2, SetOf
<1>5. ASSUME NEW x \in ToSet(u) PROVE x \in {s[i] : i \in (a + 1)..b}
  <2>1. PICK i \in 1..(b - a) : x = u[i]
    BY <1>4, <1>5
  <2>2. x = s[a + i] /\ a + i \in (a + 1)..b
    BY <1>3, <2>1
  <2> QED
    BY <2>2
<1>6. ASSUME NEW x \in {s[i] : i \in (a + 1)..b} PROVE x \in ToSet(u)
  <2>1. PICK i \in (a + 1)..b : x = s[i]
    BY <1>6
  <2>2. i - a \in 1..(b - a) /\ a + (i - a) = i
    BY <2>1
  <2>3. x = u[i - a]
    BY <1>3, <2>1, <2>2
  <2> QED
    BY <1>4, <2>2, <2>3
<1> QED
  BY <1>2, <1>3, <1>5, <1>6 DEF u

\* A list backwards has the same members.
LEMMA Reversed ==
    ASSUME NEW T, NEW s \in Seq(T), IsInjective(s)
    PROVE  Reverse(s) \in Seq(T) /\ ToSet(Reverse(s)) = ToSet(s) /\ IsInjective(Reverse(s))
<1> DEFINE u == Reverse(s)
<1>1. Len(s) \in Nat /\ DOMAIN s = 1..Len(s)
  OBVIOUS
<1>2. u = [i \in 1..Len(s) |-> s[(Len(s) - i) + 1]]
  BY DEF Reverse
<1>3. \A i \in 1..Len(s) : (Len(s) - i) + 1 \in 1..Len(s)
  BY <1>1
<1>4. u \in Seq(T) /\ Len(u) = Len(s)
  BY <1>1, <1>2, <1>3
<1>5. \A i \in 1..Len(s) : u[i] = s[(Len(s) - i) + 1]
  BY <1>2
<1> HIDE DEF u
<1>6. DOMAIN u = 1..Len(s) /\ ToSet(u) = {u[i] : i \in 1..Len(s)}
  BY <1>4, SetOf
<1>7. ToSet(u) \subseteq ToSet(s)
  BY <1>3, <1>5, <1>6, SetOf
<1>8. ASSUME NEW x \in ToSet(s) PROVE x \in ToSet(u)
  <2>1. PICK i \in 1..Len(s) : x = s[i]
    BY <1>8, SetOf
  <2>2. (Len(s) - i) + 1 \in 1..Len(s) /\ (Len(s) - ((Len(s) - i) + 1)) + 1 = i
    BY <1>1
  <2>3. u[(Len(s) - i) + 1] = x
    BY <1>5, <2>1, <2>2
  <2> QED
    BY <1>6, <2>2, <2>3
<1>9. ASSUME NEW i \in 1..Len(s), NEW j \in 1..Len(s), u[i] = u[j] PROVE i = j
  <2>1. s[(Len(s) - i) + 1] = s[(Len(s) - j) + 1]
    BY <1>5, <1>9
  <2>2. (Len(s) - i) + 1 = (Len(s) - j) + 1
    BY <1>1, <1>3, <2>1 DEF IsInjective
  <2> QED
    BY <1>1, <2>2
<1>10. IsInjective(u)
  BY <1>6, <1>9 DEF IsInjective
<1> QED
  BY <1>4, <1>7, <1>8, <1>10 DEF u

\* The members of s that are not in S, in their order: what [x for x in s if x not in S] returns.
Kept(s, S) ==
    LET kept[i \in 0..Len(s)] ==
            IF i = 0 THEN <<>> ELSE IF s[i] \in S THEN kept[i - 1] ELSE Append(kept[i - 1], s[i])
    IN kept[Len(s)]

\* g is what is kept of s after each of the first k members.
KeptBy(s, S, g, k) ==
    /\ DOMAIN g = 0..k
    /\ \A i \in 0..k : g[i] = IF i = 0 THEN <<>> ELSE IF s[i] \in S THEN g[i - 1] ELSE Append(g[i - 1], s[i])
    /\ g = [i \in 0..k |-> g[i]]

\* What is kept can be followed over any number of members.
LEMMA KeptExists ==
    ASSUME NEW s, NEW S, NEW k \in Nat
    PROVE  \E g : KeptBy(s, S, g, k)
<1> DEFINE T == {i \in Nat : ~\E g : KeptBy(s, S, g, i)}
<1>1. ASSUME T # {} PROVE FALSE
  <2>1. PICK x \in T : \A y \in T : x <= y
    BY <1>1, NatLeast
  <2>2. CASE x = 0
    <3>1. KeptBy(s, S, [i \in 0..0 |-> <<>>], 0)
      BY DEF KeptBy
    <3> QED
      BY <2>1, <2>2, <3>1
  <2>3. CASE x # 0
    <3>1. x - 1 \in Nat /\ x - 1 \notin T
      BY <2>1, <2>3
    <3>2. PICK g : KeptBy(s, S, g, x - 1)
      BY <3>1
    <3> DEFINE h == [i \in 0..x |-> IF i < x THEN g[i] ELSE IF s[x] \in S THEN g[x - 1] ELSE Append(g[x - 1], s[x])]
    <3>3. \A i \in 0..(x - 1) : h[i] = g[i]
      BY <3>1
    <3>4. h[x] = IF s[x] \in S THEN h[x - 1] ELSE Append(h[x - 1], s[x])
      BY <3>1, <3>3
    <3>5. DOMAIN h = 0..x /\ h = [i \in 0..x |-> h[i]]
      OBVIOUS
    <3> HIDE DEF h
    <3>6. ASSUME NEW i \in 0..x
          PROVE h[i] = IF i = 0 THEN <<>> ELSE IF s[i] \in S THEN h[i - 1] ELSE Append(h[i - 1], s[i])
      <4>1. CASE i = x
        BY <2>3, <3>4, <4>1
      <4>2. CASE i = 0
        <5>1. 0 \in 0..(x - 1) /\ h[0] = g[0]
          BY <3>1, <3>3
        <5>2. g[0] = <<>>
          BY <3>2, <5>1 DEF KeptBy
        <5> QED
          BY <4>2, <5>1, <5>2
      <4>3. CASE i \in 1..(x - 1)
        <5>1. h[i] = g[i] /\ h[i - 1] = g[i - 1] /\ i # 0 /\ i \in 0..(x - 1)
          BY <3>3, <4>3
        <5>2. g[i] = IF s[i] \in S THEN g[i - 1] ELSE Append(g[i - 1], s[i])
          BY <3>2, <5>1 DEF KeptBy
        <5> QED
          BY <5>1, <5>2
      <4> QED
        BY <4>1, <4>2, <4>3
    <3>7. KeptBy(s, S, h, x)
      BY <3>5, <3>6 DEF KeptBy
    <3> QED
      BY <2>1, <3>7
  <2> QED
    BY <2>2, <2>3
<1> QED
  BY <1>1

\* What is kept of a list, as when blocks that others share stay out of the free ones.
LEMMA KeptOf ==
    ASSUME NEW T, NEW s \in Seq(T), NEW S
    PROVE  /\ Kept(s, S) \in Seq(T)
           /\ ToSet(Kept(s, S)) = ToSet(s) \ S
           /\ IsInjective(s) => IsInjective(Kept(s, S))
<1> DEFINE n == Len(s)
           F(g) == [i \in 0..n |-> IF i = 0 THEN <<>> ELSE IF s[i] \in S THEN g[i - 1] ELSE Append(g[i - 1], s[i])]
           kept == CHOOSE g : g = F(g)
<1>1. n \in Nat /\ DOMAIN s = 1..n
  OBVIOUS
<1>2. PICK g : KeptBy(s, S, g, n)
  BY <1>1, KeptExists
<1>3. g = F(g)
  BY <1>1, <1>2 DEF KeptBy
<1>4. kept = F(kept)
  <2> HIDE DEF F
  <2> QED
    BY <1>3
<1>5. Kept(s, S) = kept[n]
  BY DEF Kept
<1> HIDE DEF kept
<1>6. \A i \in 0..n : kept[i] = IF i = 0 THEN <<>> ELSE IF s[i] \in S THEN kept[i - 1] ELSE Append(kept[i - 1], s[i])
  BY <1>4
<1> DEFINE Of(i) == {s[j] : j \in 1..i}
           Good(i) == /\ kept[i] \in Seq(T) /\ ToSet(kept[i]) = Of(i) \ S
                      /\ IsInjective(s) => IsInjective(kept[i])
<1>7. ASSUME NEW i \in 1..n, Good(i - 1) PROVE Good(i)
  <2>1. i - 1 \in 0..n /\ i \in 0..n /\ s[i] \in T
    BY <1>1
  <2>2. Of(i) = Of(i - 1) \cup {s[i]}
    <3>1. 1..i = (1..(i - 1)) \cup {i}
      BY <1>1
    <3> QED
      BY <3>1
  <2>3. kept[i] = IF s[i] \in S THEN kept[i - 1] ELSE Append(kept[i - 1], s[i])
    BY <1>6, <2>1
  <2>4. CASE s[i] \in S
    <3>1. kept[i] = kept[i - 1] /\ Of(i) \ S = Of(i - 1) \ S
      BY <2>2, <2>3, <2>4
    <3> HIDE DEF Of
    <3> QED
      BY <1>7, <3>1
  <2>5. CASE s[i] \notin S
    <3> DEFINE one == <<s[i]>>
    <3>1. one \in Seq(T) /\ ToSet(one) = {s[i]} /\ IsInjective(one)
      <4>1. one \in Seq(T) /\ DOMAIN one = {1} /\ one[1] = s[i]
        BY <2>1
      <4> QED
        BY <4>1 DEF ToSet, IsInjective
    <3>2. kept[i] = kept[i - 1] \o one
      BY <1>7, <2>3, <2>5, <2>1
    <3> HIDE DEF one
    <3>3. kept[i] \in Seq(T) /\ ToSet(kept[i]) = ToSet(kept[i - 1]) \cup {s[i]}
      <4>1. kept[i - 1] \in Seq(T)
        BY <1>7
      <4> HIDE DEF Good
      <4> QED
        BY <3>1, <3>2, <4>1, Joined
    <3>4. ToSet(kept[i]) = Of(i) \ S
      BY <1>7, <2>2, <2>5, <3>3
    <3>5. ASSUME IsInjective(s) PROVE IsInjective(kept[i])
      <4>1. s[i] \notin Of(i - 1)
        <5>1. \A j \in 1..(i - 1) : j \in 1..n /\ j # i
          BY <1>1
        <5>2. \A j \in 1..(i - 1) : s[j] # s[i]
          BY <1>1, <3>5, <5>1 DEF IsInjective
        <5> QED
          BY <5>2
      <4>2. ToSet(kept[i - 1]) \cap ToSet(one) = {}
        BY <1>7, <3>1, <4>1
      <4>3. kept[i - 1] \in Seq(T) /\ IsInjective(kept[i - 1])
        BY <1>7, <3>5
      <4> QED
        BY <3>1, <3>2, <4>2, <4>3, JoinedApart
    <3> QED
      BY <3>3, <3>4, <3>5
  <2> QED
    BY <2>4, <2>5
<1>8. Good(0)
  <2>1. kept[0] = <<>> /\ Of(0) = {}
    BY <1>1, <1>6
  <2>2. <<>> \in Seq(T) /\ DOMAIN <<>> = {} /\ ToSet(<<>>) = {}
    BY DEF ToSet
  <2>3. IsInjective(<<>>)
    BY <2>2 DEF IsInjective
  <2> QED
    BY <2>1, <2>2, <2>3
<1>9. Good(n)
  <2> DEFINE B == {i \in 0..n : ~Good(i)}
  <2> HIDE DEF Good
  <2>1. B \in SUBSET Nat
    BY <1>1
  <2>2. ASSUME B # {} PROVE FALSE
    <3>1. PICK x \in B : \A y \in B : x <= y
      BY <2>1, <2>2, NatLeast
    <3>2. x # 0 /\ x \in 0..n /\ ~Good(x)
      BY <1>8, <3>1
    <3>3. x - 1 \in 0..n /\ x \in 1..n /\ x - 1 \notin B
      BY <1>1, <3>1, <3>2
    <3>4. Good(x - 1)
      BY <3>3
    <3> QED
      BY <1>7, <3>2, <3>3, <3>4
  <2> QED
    BY <1>1, <2>2
<1>10. Of(n) = ToSet(s)
  BY <1>1, SetOf
<1> QED
  BY <1>5, <1>9, <1>10

\* The first k free blocks and the others, as allocate_slots parts them.
LEMMA Parts ==
    ASSUME NEW T, NEW s \in Seq(T), IsInjective(s), NEW k \in Nat, k <= Len(s)
    PROVE  /\ SubSeq(s, 1, k) \in Seq(T) /\ Len(SubSeq(s, 1, k)) = k /\ IsInjective(SubSeq(s, 1, k))
           /\ SubSeq(s, k + 1, Len(s)) \in Seq(T) /\ IsInjective(SubSeq(s, k + 1, Len(s)))
           /\ ToSet(SubSeq(s, 1, k)) \subseteq ToSet(s) /\ ToSet(SubSeq(s, k + 1, Len(s))) \subseteq ToSet(s)
           /\ ToSet(SubSeq(s, 1, k)) \cap ToSet(SubSeq(s, k + 1, Len(s))) = {}
           /\ ToSet(SubSeq(s, 1, k)) \cup ToSet(SubSeq(s, k + 1, Len(s))) = ToSet(s)
<1>1. PICK n \in Nat : n = Len(s)
  OBVIOUS
<1>2. \A i, j \in 1..n : s[i] = s[j] => i = j
  <2>1. DOMAIN s = 1..n
    BY <1>1
  <2> QED
    BY <2>1 DEF IsInjective
<1>3. PICK u : u = SubSeq(s, 1, k)
  OBVIOUS
<1>4. PICK v : v = SubSeq(s, k + 1, n)
  OBVIOUS
<1>5. u \in Seq(T) /\ Len(u) = k /\ \A i \in 1..k : u[i] = s[i]
  BY <1>1, <1>3
<1>6. v \in Seq(T) /\ Len(v) = n - k /\ \A i \in 1..(n - k) : v[i] = s[k + i]
  BY <1>1, <1>4
<1>7. DOMAIN u = 1..k /\ ToSet(u) = {u[i] : i \in 1..k}
  BY <1>5, SetOf
<1>8. DOMAIN v = 1..(n - k) /\ ToSet(v) = {v[i] : i \in 1..(n - k)}
  BY <1>6, SetOf
<1>9. \A i \in 1..k : i \in 1..n
  BY <1>1
<1>10. \A i \in 1..(n - k) : k + i \in 1..n
  BY <1>1
<1>11. IsInjective(u)
  BY <1>2, <1>5, <1>7, <1>9 DEF IsInjective
<1>12. IsInjective(v)
  <2> SUFFICES ASSUME NEW i \in 1..(n - k), NEW j \in 1..(n - k), v[i] = v[j] PROVE i = j
    BY <1>8 DEF IsInjective
  <2>1. k + i = k + j
    BY <1>2, <1>6, <1>10
  <2> QED
    BY <2>1
<1>13. ToSet(u) \subseteq ToSet(s)
  BY <1>1, <1>5, <1>7, <1>9, SetOf
<1>14. ToSet(v) \subseteq ToSet(s)
  BY <1>1, <1>6, <1>8, <1>10, SetOf
<1>15. ToSet(u) \cap ToSet(v) = {}
  <2> SUFFICES ASSUME NEW x, x \in ToSet(u), x \in ToSet(v) PROVE FALSE
    OBVIOUS
  <2>1. PICK i \in 1..k : x = s[i]
    BY <1>5, <1>7
  <2>2. PICK j \in 1..(n - k) : x = s[k + j]
    BY <1>6, <1>8
  <2>3. i = k + j
    BY <1>2, <1>9, <1>10, <2>1, <2>2
  <2> QED
    BY <2>3
<1>16. ToSet(s) \subseteq ToSet(u) \cup ToSet(v)
  <2> SUFFICES ASSUME NEW x \in ToSet(s) PROVE x \in ToSet(u) \cup ToSet(v)
    OBVIOUS
  <2>1. PICK i \in 1..n : x = s[i]
    BY <1>1, SetOf
  <2>2. CASE i <= k
    <3>1. i \in 1..k
      BY <2>1, <2>2
    <3> QED
      BY <1>5, <1>7, <2>1, <3>1
  <2>3. CASE i > k
    <3>1. i - k \in 1..(n - k) /\ k + (i - k) = i
      BY <1>1, <2>1, <2>3
    <3>2. v[i - k] = s[i]
      BY <1>6, <3>1
    <3> QED
      BY <1>8, <2>1, <3>1, <3>2
  <2> QED
    BY <1>1, <2>2, <2>3
<1> QED
  BY <1>1, <1>3, <1>4, <1>5, <1>6, <1>11, <1>12, <1>13, <1>14, <1>15, <1>16

\* f is what FlattenSeq has put together after each of the first k lists.
FlatBy(g, f, k) ==
    /\ \A i \in 1..k : f[i] = IF i = 1 THEN g[i] ELSE f[i - 1] \o g[i]
    /\ f = [i \in 1..k |-> f[i]]

\* FlattenSeq can be followed over any number of lists.
LEMMA FlatExists ==
    ASSUME NEW g, NEW k \in Nat
    PROVE  \E f : FlatBy(g, f, k)
<1> DEFINE T == {i \in Nat : ~\E f : FlatBy(g, f, i)}
<1>1. ASSUME T # {} PROVE FALSE
  <2>1. PICK x \in T : \A y \in T : x <= y
    BY <1>1, NatLeast
  <2>2. CASE x = 0
    <3>1. FlatBy(g, [i \in 1..0 |-> <<>>], 0)
      BY DEF FlatBy
    <3> QED
      BY <2>1, <2>2, <3>1
  <2>3. CASE x # 0
    <3>1. x - 1 \in Nat /\ x - 1 \notin T
      BY <2>1, <2>3
    <3>2. PICK f : FlatBy(g, f, x - 1)
      BY <3>1
    <3> DEFINE h == [i \in 1..x |-> IF i < x THEN f[i] ELSE IF x = 1 THEN g[x] ELSE f[x - 1] \o g[x]]
    <3>3. \A i \in 1..(x - 1) : h[i] = f[i]
      BY <3>1
    <3>4. h[x] = IF x = 1 THEN g[x] ELSE h[x - 1] \o g[x]
      BY <2>3, <3>1, <3>3
    <3>5. h = [i \in 1..x |-> h[i]]
      OBVIOUS
    <3> HIDE DEF h
    <3>6. ASSUME NEW i \in 1..x PROVE h[i] = IF i = 1 THEN g[i] ELSE h[i - 1] \o g[i]
      <4>1. CASE i = x
        BY <3>4, <4>1
      <4>2. CASE i = 1 /\ i # x
        <5>1. 1 \in 1..(x - 1) /\ h[1] = f[1]
          BY <3>1, <3>3, <4>2
        <5>2. f[1] = g[1]
          BY <3>2, <5>1 DEF FlatBy
        <5> QED
          BY <4>2, <5>1, <5>2
      <4>3. CASE i \in 2..(x - 1)
        <5>1. h[i] = f[i] /\ h[i - 1] = f[i - 1] /\ i # 1 /\ i \in 1..(x - 1)
          BY <3>3, <4>3
        <5>2. f[i] = f[i - 1] \o g[i]
          BY <3>2, <5>1 DEF FlatBy
        <5> QED
          BY <5>1, <5>2
      <4> QED
        BY <4>1, <4>2, <4>3
    <3>7. FlatBy(g, h, x)
      BY <3>5, <3>6 DEF FlatBy
    <3> QED
      BY <2>1, <3>7
  <2> QED
    BY <2>2, <2>3
<1> QED
  BY <1>1

\* Lists that share nothing, put one after the other: as the blocks of requests that end together.
LEMMA Flattened ==
    ASSUME NEW T, NEW g \in Seq(Seq(T)), \A i \in 1..Len(g) : IsInjective(g[i]),
           \A i, j \in 1..Len(g) : i < j => ToSet(g[i]) \cap ToSet(g[j]) = {}
    PROVE  /\ FlattenSeq(g) \in Seq(T) /\ IsInjective(FlattenSeq(g))
           /\ ToSet(FlattenSeq(g)) = UNION {ToSet(g[i]) : i \in 1..Len(g)}
<1>1. PICK n \in Nat : n = Len(g)
  OBVIOUS
<1>2. CASE n = 0
  <2>1. FlattenSeq(g) = <<>>
    <3>1. FlattenSeq(g) = g
      BY <1>1, <1>2, Zenon DEF FlattenSeq
    <3>2. g = <<>>
      <4>1. PICK S : S = Seq(T)
        OBVIOUS
      <4>2. g \in Seq(S) /\ Len(g) = 0
        BY <1>1, <1>2, <4>1
      <4> QED
        BY <4>2, EmptySeq
    <3> QED
      BY <3>1, <3>2
  <2>2. <<>> \in Seq(T) /\ DOMAIN <<>> = {} /\ ToSet(<<>>) = {}
    BY DEF ToSet
  <2>3. IsInjective(<<>>)
    BY <2>2 DEF IsInjective
  <2>4. UNION {ToSet(g[i]) : i \in 1..Len(g)} = {}
    BY <1>1, <1>2
  <2> QED
    BY <2>1, <2>2, <2>3, <2>4
<1>3. CASE n # 0
  <2> DEFINE F(f) == [i \in 1..n |-> IF i = 1 THEN g[i] ELSE f[i - 1] \o g[i]]
             flat == CHOOSE f : f = F(f)
  <2>1. PICK f : FlatBy(g, f, n)
    BY FlatExists
  <2>2. f = F(f)
    BY <2>1 DEF FlatBy
  <2>3. flat = F(flat)
    <3> HIDE DEF F
    <3> QED
      BY <2>2
  <2>4. FlattenSeq(g) = flat[n]
    BY <1>1, <1>3 DEF FlattenSeq
  <2> HIDE DEF flat
  <2>5. \A i \in 1..n : flat[i] = IF i = 1 THEN g[i] ELSE flat[i - 1] \o g[i]
    BY <2>3
  <2> HIDE DEF F
  <2> DEFINE Of(i) == UNION {ToSet(g[j]) : j \in 1..i}
             Good(i) == flat[i] \in Seq(T) /\ IsInjective(flat[i]) /\ ToSet(flat[i]) = Of(i)
  <2>6. Good(1)
    <3>1. flat[1] = g[1] /\ g[1] \in Seq(T) /\ IsInjective(g[1])
      BY <1>1, <1>3, <2>5
    <3>2. Of(1) = ToSet(g[1])
      OBVIOUS
    <3> QED
      BY <3>1, <3>2
  <2>7. ASSUME NEW i \in 2..n, Good(i - 1) PROVE Good(i)
    <3>1. i \in 1..n /\ i - 1 \in 1..n /\ i # 1
      OBVIOUS
    <3>2. flat[i] = flat[i - 1] \o g[i] /\ g[i] \in Seq(T) /\ IsInjective(g[i])
      <4>1. flat[i] = flat[i - 1] \o g[i]
        BY <2>5, <3>1, Zenon
      <4>2. g[i] \in Seq(T)
        BY <1>1, <3>1
      <4>3. IsInjective(g[i])
        BY <1>1, <3>1
      <4> QED
        BY <4>1, <4>2, <4>3
    <3>3. Of(i) = Of(i - 1) \cup ToSet(g[i])
      <4>1. 1..i = (1..(i - 1)) \cup {i}
        BY <3>1
      <4> QED
        BY <4>1
    <3>4. Of(i - 1) \cap ToSet(g[i]) = {}
      <4>1. \A j \in 1..(i - 1) : j \in 1..n /\ j < i
        BY <3>1
      <4> QED
        BY <1>1, <3>1, <4>1
    <3>5. flat[i - 1] \in Seq(T) /\ IsInjective(flat[i - 1]) /\ ToSet(flat[i - 1]) = Of(i - 1)
      BY <2>7
    <3> HIDE DEF Of
    <3>6. flat[i - 1] \o g[i] \in Seq(T) /\ ToSet(flat[i - 1] \o g[i]) = ToSet(flat[i - 1]) \cup ToSet(g[i])
      BY <3>2, <3>5, Joined
    <3>7. ToSet(flat[i - 1]) \cap ToSet(g[i]) = {}
      BY <3>4, <3>5
    <3>8. IsInjective(flat[i - 1] \o g[i])
      BY <3>2, <3>5, <3>7, JoinedApart
    <3> QED
      BY <3>2, <3>3, <3>5, <3>6, <3>8
  <2>8. Good(n)
    <3> DEFINE B == {i \in 1..n : ~Good(i)}
    <3> HIDE DEF Good
    <3>1. B \in SUBSET Nat
      OBVIOUS
    <3>2. ASSUME B # {} PROVE FALSE
      <4>1. PICK x \in B : \A y \in B : x <= y
        BY <3>1, <3>2, NatLeast
      <4>2. x # 1 /\ x \in 1..n /\ ~Good(x)
        BY <2>6, <4>1
      <4>3. x - 1 \in 1..n /\ x \in 2..n /\ x - 1 \notin B
        BY <4>1, <4>2
      <4>4. Good(x - 1)
        BY <4>3
      <4> QED
        BY <2>7, <4>2, <4>3, <4>4
    <3> QED
      BY <1>3, <3>2
  <2>9. Of(n) = UNION {ToSet(g[i]) : i \in 1..Len(g)}
    BY <1>1
  <2> QED
    BY <2>4, <2>8, <2>9
<1> QED
  BY <1>2, <1>3

\* A quotient, as in token_processed // block_size.
LEMMA Divided ==
    ASSUME NEW a \in Nat, NEW b \in Nat \ {0}
    PROVE  a \div b \in Nat /\ b * (a \div b) <= a /\ a < b * (a \div b) + b
<1>1. a \div b \in Nat /\ a % b \in 0..(b - 1) /\ a = b * (a \div b) + (a % b)
  OBVIOUS
<1>2. PICK q \in Nat : q = a \div b /\ a % b \in 0..(b - 1) /\ a = b * q + (a % b)
  BY <1>1
<1>3. b * q <= a /\ a < b * q + b
  BY <1>2
<1> QED
  BY <1>2, <1>3

\* More blocks have more tokens.
LEMMA Times ==
    ASSUME NEW a \in Nat, NEW b \in Nat, NEW c \in Nat \ {0}
    PROVE  /\ a * c \in Nat /\ a * c = c * a
           /\ a < b => a * c < b * c /\ a * c + c <= b * c
           /\ a <= b => a * c <= b * c
           /\ a # 0 => a * c >= c
<1>1. a * c \in Nat /\ a * c = c * a
  OBVIOUS
<1>2. a < b => a * c + c <= b * c
  OBVIOUS
<1>3. a <= b => a * c <= b * c
  OBVIOUS
<1>4. a # 0 => a * c >= c
  OBVIOUS
<1> QED
  BY <1>1, <1>2, <1>3, <1>4

\* The numbers of a list grow.
Rises(s) == \A i, j \in 1..Len(s) : i < j => s[i] < s[j]

\* What is kept of a list that grows is in its order.
LEMMA KeptInOrder ==
    ASSUME NEW s \in Seq(Int), NEW S, Rises(s)
    PROVE  Rises(Kept(s, S))
<1> DEFINE n == Len(s)
           F(g) == [i \in 0..n |-> IF i = 0 THEN <<>> ELSE IF s[i] \in S THEN g[i - 1] ELSE Append(g[i - 1], s[i])]
           kept == CHOOSE g : g = F(g)
<1>1. n \in Nat /\ DOMAIN s = 1..n
  OBVIOUS
<1>2. PICK g : KeptBy(s, S, g, n)
  BY <1>1, KeptExists
<1>3. g = F(g)
  BY <1>1, <1>2 DEF KeptBy
<1>4. kept = F(kept)
  <2> HIDE DEF F
  <2> QED
    BY <1>3
<1>5. Kept(s, S) = kept[n]
  BY DEF Kept
<1> HIDE DEF kept
<1>6. \A i \in 0..n : kept[i] = IF i = 0 THEN <<>> ELSE IF s[i] \in S THEN kept[i - 1] ELSE Append(kept[i - 1], s[i])
  BY <1>4
<1> DEFINE Good(i) == /\ kept[i] \in Seq(Int) /\ Rises(kept[i])
                      /\ \A k \in 1..Len(kept[i]) : \E j \in 1..i : kept[i][k] = s[j]
<1>7. ASSUME NEW i \in 1..n, Good(i - 1) PROVE Good(i)
  <2>1. i - 1 \in 0..n /\ i \in 0..n /\ s[i] \in Int
    BY <1>1
  <2>2. kept[i] = IF s[i] \in S THEN kept[i - 1] ELSE Append(kept[i - 1], s[i])
    BY <1>6, <2>1
  <2>3. CASE s[i] \in S
    BY <1>7, <2>2, <2>3
  <2>4. CASE s[i] \notin S
    <3>1. PICK u \in Seq(Int) : u = kept[i - 1]
      BY <1>7
    <3>2. PICK k \in Nat : k = Len(u)
      OBVIOUS
    <3>3. PICK v : v = Append(u, s[i])
      OBVIOUS
    <3>4. v \in Seq(Int) /\ Len(v) = k + 1 /\ v[k + 1] = s[i] /\ \A j \in 1..k : v[j] = u[j]
      BY <2>1, <3>2, <3>3
    <3>5. kept[i] = v
      BY <2>2, <2>4, <3>1, <3>3
    <3>6. \A j \in 1..k : \E q \in 1..(i - 1) : u[j] = s[q]
      BY <1>7, <3>1, <3>2
    <3>7. ASSUME NEW j \in 1..k PROVE v[j] < v[k + 1]
      <4>1. PICK q \in 1..(i - 1) : u[j] = s[q]
        BY <3>6
      <4>2. q \in 1..n /\ i \in 1..n /\ q < i
        BY <1>1
      <4>3. s[q] < s[i]
        BY <4>2 DEF Rises
      <4> QED
        BY <3>4, <4>1, <4>3
    <3>8. \A j, q \in 1..k : j < q => u[j] < u[q]
      BY <1>7, <3>1, <3>2 DEF Rises
    <3>9. Rises(v)
      <4>1. ASSUME NEW a \in 1..(k + 1), NEW b \in 1..(k + 1), a < b PROVE v[a] < v[b]
        <5>1. a \in 1..k
          BY <3>2, <4>1
        <5>2. CASE b = k + 1
          BY <3>7, <5>1, <5>2
        <5>3. CASE b \in 1..k
          BY <3>4, <3>8, <4>1, <5>1, <5>3
        <5> QED
          BY <3>2, <5>2, <5>3
      <4> QED
        BY <3>4, <4>1 DEF Rises
    <3>10. \A a \in 1..(k + 1) : \E j \in 1..i : v[a] = s[j]
      <4>1. ASSUME NEW a \in 1..(k + 1) PROVE \E j \in 1..i : v[a] = s[j]
        <5>1. CASE a = k + 1
          BY <2>1, <3>4, <5>1
        <5>2. CASE a \in 1..k
          <6>1. PICK q \in 1..(i - 1) : u[a] = s[q]
            BY <3>6, <5>2
          <6> QED
            BY <2>1, <3>4, <5>2, <6>1
        <5>3. a = k + 1 \/ a \in 1..k
          BY <3>2
        <5> QED
          BY <5>1, <5>2, <5>3
      <4> QED
        BY <4>1
    <3> QED
      BY <3>4, <3>5, <3>9, <3>10
  <2> QED
    BY <2>3, <2>4
<1>8. Good(0)
  <2>1. kept[0] = <<>>
    BY <1>1, <1>6
  <2> QED
    BY <2>1 DEF Rises
<1>9. Good(n)
  <2> DEFINE B == {i \in 0..n : ~Good(i)}
  <2> HIDE DEF Good
  <2>1. B \in SUBSET Nat
    BY <1>1
  <2>2. ASSUME B # {} PROVE FALSE
    <3>1. PICK x \in B : \A y \in B : x <= y
      BY <2>1, <2>2, NatLeast
    <3>2. x # 0 /\ x \in 0..n /\ ~Good(x)
      BY <1>8, <3>1
    <3>3. x - 1 \in 0..n /\ x \in 1..n /\ x - 1 \notin B
      BY <1>1, <3>1, <3>2
    <3>4. Good(x - 1)
      BY <3>3
    <3> QED
      BY <1>7, <3>2, <3>3, <3>4
  <2> QED
    BY <1>1, <2>2
<1> QED
  BY <1>5, <1>9

=============================================================================
