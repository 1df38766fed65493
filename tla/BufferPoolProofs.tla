-------------------------- MODULE BufferPoolProofs --------------------------
(***************************************************************************)
(* The promises of BufferPool, for any number of keys, nodes and handles.  *)
(* The inductive invariant is the conjunction of the four invariants: that *)
(* a reference count stays natural needs that it counts the handles, and   *)
(* that it counts them needs its type.                                     *)
(***************************************************************************)
EXTENDS BufferPool, FiniteSetTheorems, TLAPS

IInv == TypeOK /\ RefCountsHandles /\ OneOwner /\ OneNodePerKey

\* The handles on a node are finitely many.
LEMMA HoldersFinite ==
    ASSUME NEW n PROVE IsFiniteSet(Holders(n)) /\ Cardinality(Holders(n)) \in Nat
<1>1. Holders(n) \in SUBSET Handles
  BY DEF Holders
<1>2. IsFiniteSet(Holders(n))
  BY <1>1, FS_Subset, PoolAssumption
<1> QED
  BY <1>2, FS_CardinalityType

\* A node with a handle on it has a reference: what keeps Alloc away from it
\* (the reference > 0 test of trans_buffer.cc:484).
LEMMA HeldIsReferenced ==
    ASSUME TypeOK, RefCountsHandles, NEW h \in Handles, at[h] # NoNode
    PROVE  at[h] \in Nodes /\ ref[at[h]] > 0
<1>1. at[h] \in Nodes
  BY DEF TypeOK
<1>2. h \in Holders(at[h])
  BY DEF Holders
<1>3. Cardinality(Holders(at[h])) # 0
  BY <1>2, HoldersFinite, FS_EmptySet
<1>4. Cardinality(Holders(at[h])) \in Nat /\ ref[at[h]] = Cardinality(Holders(at[h]))
  BY <1>1, HoldersFinite DEF RefCountsHandles
<1> QED
  BY <1>1, <1>3, <1>4

\* Taking a handle adds one to its node's count and changes no other.
LEMMA TakeHandle ==
    ASSUME TypeOK, RefCountsHandles,
           NEW h \in Handles, at[h] = NoNode, NEW n \in Nodes,
           at' = [at EXCEPT ![h] = n],
           ref' = [ref EXCEPT ![n] = ref[n] + 1]
    PROVE  RefCountsHandles'
<1> SUFFICES ASSUME NEW m \in Nodes
             PROVE  ref'[m] = Cardinality(Holders(m)')
  BY DEF RefCountsHandles
<1>1. ref[m] = Cardinality(Holders(m)) /\ NoNode \notin Nodes
  BY PoolAssumption DEF RefCountsHandles
<1>2. CASE m = n
  <2>1. Holders(m)' = Holders(m) \cup {h} /\ h \notin Holders(m)
    BY <1>1, <1>2 DEF Holders, TypeOK
  <2>2. Cardinality(Holders(m)') = Cardinality(Holders(m)) + 1
    BY <2>1, HoldersFinite, FS_AddElement
  <2> QED
    BY <2>2, <1>1, <1>2 DEF TypeOK
<1>3. CASE m # n
  <2>1. Holders(m)' = Holders(m)
    BY <1>1, <1>3 DEF Holders, TypeOK
  <2> QED
    BY <2>1, <1>1, <1>3 DEF TypeOK
<1> QED
  BY <1>2, <1>3

\* Dropping a handle takes one from its node's count and changes no other.
LEMMA DropHandle ==
    ASSUME TypeOK, RefCountsHandles,
           NEW h \in Handles, at[h] # NoNode,
           at' = [at EXCEPT ![h] = NoNode],
           ref' = [ref EXCEPT ![at[h]] = @ - 1]
    PROVE  RefCountsHandles'
<1> SUFFICES ASSUME NEW m \in Nodes
             PROVE  ref'[m] = Cardinality(Holders(m)')
  BY DEF RefCountsHandles
<1>1. ref[m] = Cardinality(Holders(m)) /\ NoNode \notin Nodes
  BY PoolAssumption DEF RefCountsHandles
<1>2. CASE m = at[h]
  <2>1. Holders(m)' = Holders(m) \ {h} /\ h \in Holders(m)
    BY <1>1, <1>2 DEF Holders, TypeOK
  <2>2. Cardinality(Holders(m)') = Cardinality(Holders(m)) - 1
    BY <2>1, HoldersFinite, FS_RemoveElement
  <2> QED
    BY <2>2, <1>1, <1>2 DEF TypeOK
<1>3. CASE m # at[h]
  <2>1. Holders(m)' = Holders(m)
    BY <1>1, <1>3 DEF Holders, TypeOK
  <2> QED
    BY <2>1, <1>1, <1>3 DEF TypeOK
<1> QED
  BY <1>2, <1>3

LEMMA InitInv == Init => IInv
<1> SUFFICES ASSUME Init PROVE IInv
  OBVIOUS
<1>1. TypeOK
  BY DEF Init, TypeOK
<1>2. RefCountsHandles
  <2> SUFFICES ASSUME NEW n \in Nodes PROVE ref[n] = Cardinality(Holders(n))
    BY DEF RefCountsHandles
  <2>1. Holders(n) = {}
    BY PoolAssumption DEF Init, Holders
  <2> QED
    BY <2>1, FS_EmptySet DEF Init
<1>3. OneOwner /\ OneNodePerKey
  BY DEF Init, OneOwner, OneNodePerKey
<1> QED
  BY <1>1, <1>2, <1>3 DEF IInv

\* A hit makes an owner only of a node without references, hence without
\* handles: no second owner.
LEMMA GetHitInv ==
    ASSUME IInv, NEW h \in Handles, NEW k \in Keys, GetHit(h, k)
    PROVE  IInv'
<1> USE DEF IInv
<1>1. PICK n \in Nodes :
        /\ key[n] = k
        /\ at' = [at EXCEPT ![h] = n]
        /\ own' = [own EXCEPT ![h] = (ref[n] = 0)]
        /\ ref' = [ref EXCEPT ![n] = @ + 1]
  BY DEF GetHit
<1>2. at[h] = NoNode /\ key' = key /\ ready' = ready
  BY DEF GetHit
<1>3. ref'[n] = ref[n] + 1
  BY <1>1 DEF TypeOK
<1>4. RefCountsHandles'
  BY <1>1, <1>2, TakeHandle
<1>5. TypeOK'
  BY <1>1, <1>2 DEF TypeOK
<1>6. OneOwner'
  <2> SUFFICES ASSUME NEW g \in Handles, NEW i \in Handles,
                      at'[g] = at'[i], own'[g], own'[i], g # i
               PROVE  FALSE
    BY DEF OneOwner
  <2>1. CASE g # h /\ i # h
    BY <2>1, <1>1 DEF OneOwner, TypeOK
  <2>2. ASSUME NEW j \in Handles, j # h, at'[j] = n, own'[h] PROVE FALSE
    <3>1. at[j] = n /\ n # NoNode
      BY <2>2, <1>1, PoolAssumption DEF TypeOK
    <3>2. ref[n] > 0
      BY <3>1, HeldIsReferenced
    <3>3. own'[h] = (ref[n] = 0)
      BY <1>1 DEF TypeOK
    <3>4. ref[n] = 0
      BY <3>3, <2>2
    <3> QED
      BY <3>2, <3>4
  <2>3. at'[h] = n
    BY <1>1 DEF TypeOK
  <2> QED
    BY <2>1, <2>2, <2>3
<1>7. OneNodePerKey'
  BY <1>2 DEF OneNodePerKey
<1> QED
  BY <1>4, <1>5, <1>6, <1>7

\* A miss gives the key a node without references, after finding no node
\* resident for the key.
LEMMA GetMissInv ==
    ASSUME IInv, NEW h \in Handles, NEW k \in Keys, GetMiss(h, k)
    PROVE  IInv'
<1> USE DEF IInv
<1>1. PICK n \in Nodes :
        /\ key[n] = NoKey
        /\ ref[n] = 0
        /\ key' = [key EXCEPT ![n] = k]
        /\ ref' = [ref EXCEPT ![n] = 1]
        /\ ready' = [ready EXCEPT ![n] = FALSE]
        /\ at' = [at EXCEPT ![h] = n]
        /\ own' = [own EXCEPT ![h] = TRUE]
  BY DEF GetMiss
<1>2. at[h] = NoNode /\ \A m \in Nodes : key[m] # k
  BY DEF GetMiss, Resident
<1>3. ref' = [ref EXCEPT ![n] = ref[n] + 1]
  BY <1>1
<1>4. RefCountsHandles'
  BY <1>1, <1>2, <1>3, TakeHandle
<1>5. TypeOK'
  BY <1>1 DEF TypeOK
<1>6. OneOwner'
  <2> SUFFICES ASSUME NEW g \in Handles, NEW i \in Handles,
                      at'[g] = at'[i], own'[g], own'[i], g # i
               PROVE  FALSE
    BY DEF OneOwner
  <2>1. CASE g # h /\ i # h
    BY <2>1, <1>1 DEF OneOwner, TypeOK
  <2>2. ASSUME NEW j \in Handles, j # h, at'[j] = n PROVE FALSE
    <3>1. at[j] = n /\ n # NoNode
      BY <2>2, <1>1, PoolAssumption DEF TypeOK
    <3> QED
      BY <3>1, <1>1, HeldIsReferenced
  <2>3. at'[h] = n
    BY <1>1 DEF TypeOK
  <2> QED
    BY <2>1, <2>2, <2>3
<1>7. OneNodePerKey'
  BY <1>1, <1>2 DEF OneNodePerKey, TypeOK
<1> QED
  BY <1>4, <1>5, <1>6, <1>7

LEMMA EvictInv ==
    ASSUME IInv, NEW n \in Nodes, Evict(n)
    PROVE  IInv'
<1> USE DEF IInv
<1>1. TypeOK'
  BY DEF Evict, TypeOK
<1>2. RefCountsHandles'
  <2>1. \A m \in Nodes : Holders(m)' = Holders(m)
    BY DEF Evict, Holders
  <2> QED
    BY <2>1 DEF Evict, RefCountsHandles
<1>3. OneOwner'
  BY DEF Evict, OneOwner
<1>4. OneNodePerKey'
  BY DEF Evict, OneNodePerKey, TypeOK
<1> QED
  BY <1>1, <1>2, <1>3, <1>4

LEMMA ReleaseInv ==
    ASSUME IInv, NEW h \in Handles, Release(h)
    PROVE  IInv'
<1> USE DEF IInv
<1>1. at[h] \in Nodes /\ ref[at[h]] \in Nat /\ ref[at[h]] > 0
  BY HeldIsReferenced DEF Release, TypeOK
<1>2. TypeOK'
  BY <1>1 DEF Release, TypeOK
<1>3. RefCountsHandles'
  BY DropHandle DEF Release
<1>4. OneOwner'
  BY DEF Release, OneOwner, TypeOK
<1>5. OneNodePerKey'
  BY DEF Release, OneNodePerKey
<1> QED
  BY <1>2, <1>3, <1>4, <1>5

LEMMA MarkReadyInv ==
    ASSUME IInv, NEW h \in Handles, MarkReady(h)
    PROVE  IInv'
<1> USE DEF IInv
<1>1. TypeOK'
  BY DEF MarkReady, TypeOK
<1>2. RefCountsHandles'
  <2>1. \A m \in Nodes : Holders(m)' = Holders(m)
    BY DEF MarkReady, Holders
  <2> QED
    BY <2>1 DEF MarkReady, RefCountsHandles
<1>3. OneOwner' /\ OneNodePerKey'
  BY DEF MarkReady, OneOwner, OneNodePerKey
<1> QED
  BY <1>1, <1>2, <1>3

LEMMA StutterInv == IInv /\ UNCHANGED vars => IInv'
<1> SUFFICES ASSUME IInv, UNCHANGED vars PROVE IInv'
  OBVIOUS
<1>1. TypeOK' /\ OneOwner' /\ OneNodePerKey'
  BY DEF IInv, vars, TypeOK, OneOwner, OneNodePerKey
<1>2. \A m \in Nodes : Holders(m)' = Holders(m)
  BY DEF vars, Holders
<1>3. RefCountsHandles'
  BY <1>2 DEF IInv, vars, RefCountsHandles
<1> QED
  BY <1>1, <1>3 DEF IInv

LEMMA StepInv == IInv /\ [Next]_vars => IInv'
<1> SUFFICES ASSUME IInv, [Next]_vars PROVE IInv'
  OBVIOUS
<1>1. ASSUME NEW h \in Handles, NEW k \in Keys, GetHit(h, k) PROVE IInv'
  BY <1>1, GetHitInv
<1>2. ASSUME NEW h \in Handles, NEW k \in Keys, GetMiss(h, k) PROVE IInv'
  BY <1>2, GetMissInv
<1>3. ASSUME NEW h \in Handles, Release(h) PROVE IInv'
  BY <1>3, ReleaseInv
<1>4. ASSUME NEW h \in Handles, MarkReady(h) PROVE IInv'
  BY <1>4, MarkReadyInv
<1>5. ASSUME NEW n \in Nodes, Evict(n) PROVE IInv'
  BY <1>5, EvictInv
<1>6. CASE UNCHANGED vars
  BY <1>6, StutterInv
<1> QED
  BY <1>1, <1>2, <1>3, <1>4, <1>5, <1>6 DEF Next

LEMMA PoolInvariant == Spec => []IInv
  BY InitInv, StepInv, PTL DEF Spec

\* The buffer's metadata keeps its type; in particular no reference count
\* ever wraps below zero (size_t reference, trans_buffer.cc:52,559).
THEOREM PoolTypeCorrect == Spec => []TypeOK
<1>1. IInv => TypeOK
  BY DEF IInv
<1> QED
  BY <1>1, PoolInvariant, PTL

\* A node's reference count is the number of live handles on it, whatever the
\* order in which handles are taken, passed on and destroyed.
THEOREM PoolRefCounts == Spec => []RefCountsHandles
<1>1. IInv => RefCountsHandles
  BY DEF IInv
<1> QED
  BY <1>1, PoolInvariant, PTL

\* Two handles never both own a node: one party at most loads or dumps it.
THEOREM PoolOneOwner == Spec => []OneOwner
<1>1. IInv => OneOwner
  BY DEF IInv
<1> QED
  BY <1>1, PoolInvariant, PTL

\* No key is resident in two nodes.
THEOREM PoolOneNodePerKey == Spec => []OneNodePerKey
<1>1. IInv => OneNodePerKey
  BY DEF IInv
<1> QED
  BY <1>1, PoolInvariant, PTL

\* A node with a handle on it is neither evicted nor given to another key nor
\* made unready: data read through a live handle is the handle's block.
THEOREM PoolHeldNodeIsStable == Spec => HeldNodeIsStable
<1> DEFINE Stable(h) == at[h] # NoNode /\ at'[h] = at[h] =>
                            /\ key'[at[h]] = key[at[h]]
                            /\ ready[at[h]] => ready'[at[h]]
<1>1. ASSUME IInv, Next, NEW h \in Handles, at[h] # NoNode PROVE Stable(h)
  <2>1. at[h] \in Nodes /\ ref[at[h]] > 0 /\ TypeOK
    BY <1>1, HeldIsReferenced DEF IInv
  <2>2. ASSUME NEW g \in Handles, NEW k \in Keys, GetHit(g, k) PROVE Stable(h)
    BY <2>2 DEF GetHit
  <2>3. ASSUME NEW g \in Handles, NEW k \in Keys, GetMiss(g, k) PROVE Stable(h)
    <3>1. PICK n \in Nodes :
            /\ ref[n] = 0
            /\ key' = [key EXCEPT ![n] = k]
            /\ ready' = [ready EXCEPT ![n] = FALSE]
      BY <2>3 DEF GetMiss
    <3>2. at[h] # n
      BY <2>1, <3>1
    <3> QED
      BY <2>1, <3>1, <3>2 DEF TypeOK
  <2>4. ASSUME NEW g \in Handles, Release(g) PROVE Stable(h)
    BY <2>4 DEF Release
  <2>5. ASSUME NEW g \in Handles, MarkReady(g) PROVE Stable(h)
    BY <2>1, <2>5 DEF MarkReady, TypeOK
  <2>6. ASSUME NEW n \in Nodes, Evict(n) PROVE Stable(h)
    <3>1. at[h] # n
      BY <2>1, <2>6 DEF Evict
    <3> QED
      BY <2>1, <2>6, <3>1 DEF Evict, TypeOK
  <2> QED
    BY <1>1, <2>2, <2>3, <2>4, <2>5, <2>6 DEF Next
<1>2. IInv /\ [Next]_vars => [\A h \in Handles : Stable(h)]_vars
  BY <1>1
<1> QED
  BY <1>2, PoolInvariant, PTL DEF Spec, HeldNodeIsStable

=============================================================================
