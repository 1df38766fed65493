------------------------- MODULE TransBufferProofs -------------------------
(***************************************************************************)
(* The lock by lock buffer of TransBuffer, for any number of threads, keys,*)
(* buckets, handles and nodes, under the strategy with locks.              *)
(*                                                                         *)
(* The inductive invariant Inv says who holds which lock (Locks), what a   *)
(* call has found out (Calls, Allocs, Walks, Missed, Seen), that the       *)
(* counts count the handles (Counts), that a node in use has a key of its  *)
(* bucket (KeysFit), and that the chains are doubly linked (Ends, Mutual,  *)
(* Acyclic) but for the one link a thread between the two halves of Remove *)
(* has already turned (Cut).                                               *)
(*                                                                         *)
(* The parts about the chains speak of neighbours only.  That a walk from  *)
(* the head meets the whole chain within NNode steps is derived from them  *)
(* at the end, by induction on the walk (NatLeast).                        *)
(***************************************************************************)
EXTENDS TransBuffer, FiniteSetTheorems, WellFoundedInduction, TLAPS

\* The labels at which a thread holds the mutex of its bucket, that of a
\* second bucket, a node's lock; those of Alloc.
InBucket == {"find", "found", "absent", "fetch", "lockNode", "tryBucket",
             "unlinkPrev", "unlinkNext", "link", "commit"}
InOther == {"unlinkPrev", "unlinkNext"}
InNode == {"tryBucket", "unlinkPrev", "unlinkNext", "link", "commit"}
InAlloc == InNode \cup {"fetch", "lockNode"}

HasBucket(t, b) ==
    \/ pc[t] \in InBucket /\ b = Bucket(t)
    \/ pc[t] \in InOther /\ b = hash[node[t]]
HasNode(t, n) == pc[t] \in InNode /\ node[t] = n

\* Every lock is held by the thread whose place in the code says so, and by
\* no other.
Locks ==
    /\ \A t \in Threads, b \in Buckets : HasBucket(t, b) <=> bucketLock[b] = t
    /\ \A t \in Threads, n \in Nodes : HasNode(t, n) <=> nodeLock[n] = t

\* TypeOK, with counts that are natural numbers only.
Types ==
    /\ head \in [Buckets -> Nodes \cup {NoNode}]
    /\ freeHead \in Nodes
    /\ key \in [Nodes -> Keys \cup {NoKey}]
    /\ ref \in [Nodes -> Nat]
    /\ hash \in [Nodes -> Buckets \cup {NoBucket}]
    /\ prev \in [Nodes -> Nodes \cup {NoNode}]
    /\ next \in [Nodes -> Nodes \cup {NoNode}]
    /\ ready \in [Nodes -> BOOLEAN]
    /\ bucketLock \in [Buckets -> Threads \cup {NoThread}]
    /\ nodeLock \in [Nodes -> Threads \cup {NoThread}]
    /\ pc \in [Threads -> Labels]
    /\ want \in [Threads -> Keys \cup {NoKey}]
    /\ into \in [Threads -> Handles \cup {NoHandle}]
    /\ node \in [Threads -> Nodes \cup {NoNode}]
    /\ at \in [Handles -> Nodes \cup {NoNode}]
    /\ own \in [Handles -> BOOLEAN]

\* A call has its key, and the handle it is to return is nobody else's and
\* empty until Get finds the key or Alloc returns it.
Calls ==
    \A t \in Threads :
        /\ pc[t] = "idle" => into[t] = NoHandle
        /\ pc[t] # "idle" => want[t] \in Keys
        /\ pc[t] \in InAlloc => into[t] # NoHandle
        /\ pc[t] = "absent" => into[t] = NoHandle
        /\ pc[t] \in InAlloc \ {"fetch"} => node[t] \in Nodes
        /\ pc[t] # "found" /\ into[t] # NoHandle => at[into[t]] = NoNode
        /\ \A u \in Threads : into[t] = into[u] /\ into[t] # NoHandle => t = u

\* The node Alloc holds: no handle is on it, and its hash says how far it is
\* on its way to the thread's bucket.
Allocs ==
    \A t \in Threads :
        /\ pc[t] \in InNode => ref[node[t]] = 0
        /\ pc[t] \in {"tryBucket", "unlinkPrev", "unlinkNext"} =>
               hash[node[t]] \in Buckets /\ hash[node[t]] # Bucket(t)
        /\ pc[t] = "link" => hash[node[t]] = NoBucket
        /\ pc[t] = "commit" => hash[node[t]] = Bucket(t)

\* BufferMetaNode::reference counts the handles.
Counts ==
    \A n \in Nodes : ref[n] = Cardinality({h \in Handles : at[h] = n})

\* A node a Get or an Exist may find.
InUse(n) == hash[n] \in Buckets /\ \A t \in Threads : ~(pc[t] = "commit" /\ node[t] = n)

\* A node in use has a key of the bucket it is chained in; a handle's node is
\* chained.
KeysFit ==
    /\ \A n \in Nodes : InUse(n) => key[n] \in Keys /\ hash[n] = Hash[key[n]]
    /\ \A h \in Handles : at[h] # NoNode => hash[at[h]] \in Buckets

\* Remove has made n's next jump over the node it takes out, and has not yet
\* reset that node's successor.
Cut(n) == \E t \in Threads : pc[t] = "unlinkNext" /\ prev[node[t]] = n

\* A chain begins at its head, and a predecessor is in the same chain.
Ends ==
    /\ \A b \in Buckets : head[b] # NoNode => hash[head[b]] = b /\ prev[head[b]] = NoNode
    /\ \A n \in Nodes :
        /\ hash[n] = NoBucket => prev[n] = NoNode /\ next[n] = NoNode
        /\ hash[n] # NoBucket /\ prev[n] = NoNode => head[hash[n]] = n
        /\ prev[n] # NoNode => hash[prev[n]] = hash[n]

\* prev inverts next, but for the link that Remove has cut.
Mutual ==
    /\ \A n \in Nodes : ~Cut(n) => \A m \in Nodes : next[n] = m <=> prev[m] = n
    /\ \A t \in Threads :
        pc[t] = "unlinkNext" /\ prev[node[t]] # NoNode => next[prev[node[t]]] = next[node[t]]
    /\ \A m, n \in Nodes : prev[m] = prev[n] /\ prev[m] # NoNode => m = n

\* No chain closes on itself.
Acyclic == \A S \in SUBSET Nodes : S # {} => \E n \in S : prev[n] \notin S

\* V are the nodes thread t's walk has met.
Passed(t, V) ==
    /\ head[Bucket(t)] \in V \cup {node[t]}
    /\ \A n \in V : hash[n] = Bucket(t) /\ key[n] # want[t] /\ next[n] \in V \cup {node[t]}

\* A walk has met nodes of its bucket, one after the other, none with its key.
Walks ==
    \A t \in Threads : pc[t] = "find" =>
        /\ \E V \in SUBSET Nodes : Passed(t, V)
        /\ node[t] # NoNode => hash[node[t]] = Bucket(t)

\* A thread that did not find its key may go on as if nobody had it: no node
\* in use has it while the thread holds the bucket's mutex.
Missed ==
    \A t \in Threads : pc[t] \in InAlloc \cup {"absent"} =>
        \A n \in Nodes : InUse(n) => key[n] # want[t]

\* The node Exist found has the key.
Seen ==
    \A t \in Threads : pc[t] = "found" /\ into[t] = NoHandle =>
        node[t] \in Nodes /\ hash[node[t]] = Bucket(t) /\ key[node[t]] = want[t]

Inv ==
    /\ Types /\ Locks /\ Calls /\ Allocs /\ Counts /\ KeysFit
    /\ Ends /\ Mutual /\ Acyclic /\ Walks /\ Missed /\ Seen

-----------------------------------------------------------------------------
\* A step that turns no link and neither begins nor ends an unlinking keeps
\* the links mutual.
LEMMA MutualFrame ==
    ASSUME Mutual, UNCHANGED <<prev, next>>,
           \A u \in Threads : pc'[u] = "unlinkNext" <=> pc[u] = "unlinkNext",
           \A u \in Threads : pc[u] = "unlinkNext" => node'[u] = node[u]
    PROVE  Mutual'
<1>1. \A n \in Nodes : Cut(n)' <=> Cut(n)
  BY DEF Cut
<1> QED
  BY <1>1 DEF Mutual

\* The chain of a bucket has no cut link while a thread that is not unlinking
\* holds the mutex.
LEMMA NotCut ==
    ASSUME Types, Locks, Calls, Allocs, Ends, NEW t \in Threads, pc[t] \in InBucket, pc[t] \notin InOther,
           NEW n \in Nodes, hash[n] = Bucket(t), Bucket(t) \in Buckets
    PROVE  ~Cut(n)
<1> SUFFICES ASSUME NEW u \in Threads, pc[u] = "unlinkNext", prev[node[u]] = n PROVE FALSE
  BY DEF Cut
<1>1. NoNode \notin Nodes
  BY BufferAssumption DEF NoNode, Nodes
<1>2. node[u] \in Nodes /\ hash[node[u]] \in Buckets
  BY DEF Calls, Allocs, InAlloc, InNode
<1>3. hash[node[u]] = Bucket(t)
  BY <1>1, <1>2 DEF Ends
<1>4. bucketLock[Bucket(t)] = t /\ bucketLock[Bucket(t)] = u
  BY <1>2, <1>3 DEF Locks, HasBucket, InOther
<1> QED
  BY <1>4 DEF InBucket, InOther

\* The counts depend on the handles and the references only.
LEMMA CountsFrame ==
    ASSUME Counts, UNCHANGED <<at, ref>>
    PROVE  Counts'
BY DEF Counts

\* One more handle on a node, one more reference (Get's hit, Alloc's end).
LEMMA CountsAdd ==
    ASSUME Types, Counts, NEW h \in Handles, at[h] = NoNode, NEW n \in Nodes,
           at' = [at EXCEPT ![h] = n], ref' = [ref EXCEPT ![n] = @ + 1]
    PROVE  Counts'
<1> SUFFICES ASSUME NEW m \in Nodes PROVE ref'[m] = Cardinality({g \in Handles : at'[g] = m})
  BY DEF Counts
<1>1. NoNode \notin Nodes
  BY DEF NoNode, Nodes
<1>2. ref[m] = Cardinality({g \in Handles : at[g] = m})
  BY DEF Counts
<1>3. CASE m = n
  <2>1. {g \in Handles : at'[g] = m} = {g \in Handles : at[g] = m} \cup {h}
    BY <1>1, <1>3 DEF Types
  <2>2. h \notin {g \in Handles : at[g] = m}
    BY <1>1
  <2>3. IsFiniteSet({g \in Handles : at[g] = m})
    BY BufferAssumption, FS_Subset
  <2>4. Cardinality({g \in Handles : at[g] = m} \cup {h}) = Cardinality({g \in Handles : at[g] = m}) + 1
    BY <2>2, <2>3, FS_AddElement
  <2> QED
    BY <1>2, <1>3, <2>1, <2>4 DEF Types
<1>4. CASE m # n
  <2>1. {g \in Handles : at'[g] = m} = {g \in Handles : at[g] = m}
    BY <1>1, <1>4 DEF Types
  <2> QED
    BY <1>2, <1>4, <2>1 DEF Types
<1> QED
  BY <1>3, <1>4

\* ~Handle: one handle less, one reference less, and there was one.
LEMMA CountsDrop ==
    ASSUME Types, Counts, NEW h \in Handles, at[h] # NoNode,
           at' = [at EXCEPT ![h] = NoNode], ref' = [ref EXCEPT ![at[h]] = @ - 1]
    PROVE  Counts' /\ ref[at[h]] > 0
<1>1. NoNode \notin Nodes /\ at[h] \in Nodes
  BY DEF NoNode, Nodes, Types
<1>2. ASSUME NEW m \in Nodes
      PROVE  /\ ref[m] = Cardinality({g \in Handles : at[g] = m})
             /\ IsFiniteSet({g \in Handles : at[g] = m})
  BY BufferAssumption, FS_Subset DEF Counts
<1>3. /\ Cardinality({g \in Handles : at[g] = at[h]}) > 0
      /\ Cardinality({g \in Handles : at[g] = at[h]} \ {h}) = Cardinality({g \in Handles : at[g] = at[h]}) - 1
  <2> DEFINE H == {g \in Handles : at[g] = at[h]}
  <2>1. h \in H /\ IsFiniteSet(H) /\ H # {}
    BY <1>1, <1>2
  <2> HIDE DEF H
  <2>2. Cardinality(H \ {h}) = Cardinality(H) - 1
    BY <2>1, FS_RemoveElement
  <2>3. Cardinality(H) \in Nat /\ Cardinality(H) # 0
    BY <2>1, FS_CardinalityType, FS_EmptySet
  <2> QED
    BY <2>2, <2>3 DEF H
<1>4. ASSUME NEW m \in Nodes PROVE ref'[m] = Cardinality({g \in Handles : at'[g] = m})
  <2>1. CASE m = at[h]
    <3>1. {g \in Handles : at'[g] = m} = {g \in Handles : at[g] = at[h]} \ {h}
      BY <1>1, <2>1 DEF Types
    <3> QED
      BY <1>1, <1>2, <1>3, <2>1, <3>1 DEF Types
  <2>2. CASE m # at[h]
    <3>1. {g \in Handles : at'[g] = m} = {g \in Handles : at[g] = m}
      BY <1>1, <2>2 DEF Types
    <3> QED
      BY <1>1, <1>2, <2>2, <3>1 DEF Types
  <2> QED
    BY <2>1, <2>2
<1> QED
  BY <1>1, <1>2, <1>3, <1>4 DEF Counts

\* A node somebody allocates has no handle.
LEMMA AllocUnheld ==
    ASSUME Types, Counts, NEW n \in Nodes, ref[n] = 0
    PROVE  \A h \in Handles : at[h] # n
<1> DEFINE H == {h \in Handles : at[h] = n}
<1>1. IsFiniteSet(H) /\ Cardinality(H) = 0
  BY BufferAssumption, FS_Subset DEF Counts
<1>2. H = {}
  BY <1>1, FS_EmptySet
<1> QED
  BY <1>2

\* A hit and a commit add a handle, ~Handle drops one, no other step touches
\* them.
LEMMA CountsStep ==
    ASSUME Types, Locks, Calls, Walks, Counts, Shared, Next
    PROVE  Counts'
<1> USE BufferAssumption DEF Goto, Taken, NodeFree, handles, locks, meta, HasBucket, HasNode,
    InBucket, InOther, InNode, InAlloc, Bucket
<1>1. ASSUME NEW t \in Threads, NEW k \in Keys, CallExist(t, k) PROVE Counts'
  BY <1>1, CountsFrame DEF CallExist
<1>2. ASSUME NEW t \in Threads, NEW k \in Keys, NEW h \in Handles, CallGet(t, k, h) PROVE Counts'
  BY <1>2, CountsFrame DEF CallGet
<1>3. ASSUME NEW t \in Threads, LockBucket(t) PROVE Counts'
  BY <1>3, CountsFrame DEF LockBucket
<1>4. ASSUME NEW t \in Threads, FindNext(t) PROVE Counts'
  BY <1>4, CountsFrame DEF FindNext
<1>5. ASSUME NEW t \in Threads, GetHit(t) PROVE Counts'
  BY <1>5, CountsAdd DEF Types, Calls, Walks, GetHit
<1>6. ASSUME NEW t \in Threads, ExistHit(t) PROVE Counts'
  BY <1>6, CountsFrame DEF ExistHit
<1>7. ASSUME NEW t \in Threads, ChainEnd(t) PROVE Counts'
  BY <1>7, CountsFrame DEF ChainEnd
<1>8. ASSUME NEW t \in Threads, FetchNode(t) PROVE Counts'
  BY <1>8, CountsFrame DEF FetchNode
<1>9. ASSUME NEW t \in Threads, SkipHeld(t) PROVE Counts'
  BY <1>9, CountsFrame DEF SkipHeld
<1>10. ASSUME NEW t \in Threads, LockNode(t) PROVE Counts'
  BY <1>10, CountsFrame DEF LockNode
<1>11. ASSUME NEW t \in Threads, TryBucket(t) PROVE Counts'
  BY <1>11, CountsFrame DEF TryBucket
<1>12. ASSUME NEW t \in Threads, UnlinkPrev(t) PROVE Counts'
  BY <1>12, CountsFrame DEF UnlinkPrev
<1>13. ASSUME NEW t \in Threads, UnlinkNext(t) PROVE Counts'
  BY <1>13, CountsFrame DEF UnlinkNext
<1>14. ASSUME NEW t \in Threads, Link(t) PROVE Counts'
  BY <1>14, CountsFrame DEF Link
<1>15. ASSUME NEW t \in Threads, Commit(t) PROVE Counts'
  BY <1>15, CountsAdd DEF Types, Calls, Commit, Return
<1>16. ASSUME NEW t \in Threads, UnlockBucket(t) PROVE Counts'
  BY <1>16, CountsFrame DEF UnlockBucket, Return
<1>17. ASSUME NEW h \in Handles, MarkReady(h) PROVE Counts'
  BY <1>17, CountsFrame DEF MarkReady
<1>18. ASSUME NEW h \in Handles, Release(h) PROVE Counts'
  BY <1>18, CountsDrop DEF Release
<1> QED
  BY <1>1, <1>2, <1>3, <1>4, <1>5, <1>6, <1>7, <1>8, <1>9, <1>10, <1>11, <1>12, <1>13, <1>14,
      <1>15, <1>16, <1>17, <1>18 DEF Next, Run, Alloc

\* What UnlinkNext does to prev, without the CASE.
LEMMA UnlinkedPrev ==
    ASSUME Types, NEW t \in Threads, UnlinkNext(t), node[t] \in Nodes, next[node[t]] # node[t]
    PROVE  /\ prev'[node[t]] = NoNode
           /\ next[node[t]] # NoNode => prev'[next[node[t]]] = prev[node[t]]
           /\ \A m \in Nodes : m # node[t] /\ m # next[node[t]] => prev'[m] = prev[m]
<1> DEFINE n == node[t]
           s == next[node[t]]
<1>1. prev' = [m \in Nodes |-> CASE m = n -> NoNode [] m = s -> prev[n] [] OTHER -> prev[m]]
  BY DEF UnlinkNext
<1>2. n \in Nodes /\ s # n /\ (s = NoNode \/ s \in Nodes)
  BY DEF Types
<1> HIDE DEF n, s
<1>3. prev'[n] = NoNode
  BY <1>1, <1>2, Zenon
<1>4. s # NoNode => prev'[s] = prev[n]
  BY <1>1, <1>2, Zenon
<1>5. ASSUME NEW m \in Nodes, m # n, m # s PROVE prev'[m] = prev[m]
  BY <1>1, <1>5, Zenon
<1> QED
  BY <1>3, <1>4, <1>5 DEF n, s

\* The node that UnlinkNext takes out, before and after.
LEMMA UnlinkFacts ==
    ASSUME Types, Locks, Calls, Allocs, Ends, Mutual, Acyclic, NEW t \in Threads, UnlinkNext(t),
           NEW n, n = node[t], NEW p, p = prev[n], NEW s, s = next[n]
    PROVE  /\ n \in Nodes /\ hash[n] \in Buckets
           /\ p # n /\ s # n /\ (p = NoNode \/ p \in Nodes) /\ (s = NoNode \/ s \in Nodes)
           /\ s # NoNode => prev[s] = n /\ hash[s] = hash[n] /\ p # s
           /\ p # NoNode => next[p] = s /\ hash[p] = hash[n]
           /\ \A m \in Nodes : prev[m] = n => m = s
           /\ \A u \in Threads : pc[u] = "unlinkNext" /\ u # t => node[u] \in Nodes /\ hash[node[u]] # hash[n]
<1> USE DEF HasBucket, HasNode, InBucket, InOther, InNode, InAlloc
<1>1. n \in Nodes /\ hash[n] \in Buckets /\ (p = NoNode \/ p \in Nodes) /\ (s = NoNode \/ s \in Nodes)
  BY DEF Types, Calls, Allocs, UnlinkNext
<1>2. \A u \in Threads : pc[u] = "unlinkNext" /\ u # t => node[u] \in Nodes /\ hash[node[u]] # hash[n]
  BY <1>1 DEF Types, Calls, Allocs, UnlinkNext, Locks
<1>3. pc[t] = "unlinkNext" /\ NoNode \notin Nodes
  BY DEF UnlinkNext, Nodes, NoNode
<1>4. p # n
  <2>1. {n} \in SUBSET Nodes /\ {n} # {}
    BY <1>1
  <2> QED
    BY <2>1 DEF Acyclic
<1>5. p # NoNode => next[p] = s /\ hash[p] = hash[n]
  BY <1>1, <1>3 DEF Ends, Mutual
<1>6. ~Cut(n)
  <2> SUFFICES ASSUME NEW u \in Threads, pc[u] = "unlinkNext", prev[node[u]] = n PROVE FALSE
    BY DEF Cut
  <2>1. CASE u = t
    BY <2>1, <1>4
  <2>2. CASE u # t
    BY <2>2, <1>1, <1>2, <1>3 DEF Ends
  <2> QED
    BY <2>1, <2>2
<1>7. \A m \in Nodes : s = m <=> prev[m] = n
  BY <1>1, <1>6 DEF Mutual
<1>8. s # NoNode => prev[s] = n /\ hash[s] = hash[n] /\ p # s
  <2> SUFFICES ASSUME s # NoNode PROVE prev[s] = n /\ hash[s] = hash[n] /\ p # s
    OBVIOUS
  <2>1. prev[s] = n /\ hash[s] = hash[n]
    BY <1>1, <1>3, <1>7 DEF Ends
  <2>2. CASE p = s
    <3>1. {n, s} \in SUBSET Nodes /\ {n, s} # {}
      BY <1>1
    <3> QED
      BY <2>1, <2>2, <3>1 DEF Acyclic
  <2> QED
    BY <2>1, <2>2
<1> QED
  BY <1>1, <1>2, <1>4, <1>5, <1>7, <1>8

\* The second half of Remove leaves both neighbours, the head and the node it
\* took out as the chain's invariants want them.
LEMMA UnlinkNextEnds ==
    ASSUME Types, Types', Locks, Calls, Allocs, Ends, Mutual, Acyclic, NEW t \in Threads, UnlinkNext(t)
    PROVE  Ends' /\ Mutual' /\ Acyclic'
<1>1. PICK n, p, s : n = node[t] /\ p = prev[n] /\ s = next[n]
  OBVIOUS
<1>2. /\ n \in Nodes /\ hash[n] \in Buckets
      /\ p # n /\ s # n /\ (p = NoNode \/ p \in Nodes) /\ (s = NoNode \/ s \in Nodes)
      /\ s # NoNode => prev[s] = n /\ hash[s] = hash[n] /\ p # s
      /\ p # NoNode => next[p] = s /\ hash[p] = hash[n]
      /\ \A m \in Nodes : prev[m] = n => m = s
      /\ \A u \in Threads : pc[u] = "unlinkNext" /\ u # t => node[u] \in Nodes /\ hash[node[u]] # hash[n]
  BY <1>1, UnlinkFacts
<1>3. /\ prev'[n] = NoNode
      /\ s # NoNode => prev'[s] = p
      /\ \A m \in Nodes : m # n /\ m # s => prev'[m] = prev[m]
  BY <1>1, <1>2, UnlinkedPrev
<1>4. /\ next' = [next EXCEPT ![n] = NoNode]
      /\ hash' = [hash EXCEPT ![n] = NoBucket]
      /\ head' = IF head[hash[n]] = n THEN [head EXCEPT ![hash[n]] = s] ELSE head
      /\ pc' = [pc EXCEPT ![t] = "link"] /\ node' = node
  BY <1>1 DEF UnlinkNext, Goto
<1>5. NoNode \notin Nodes /\ NoBucket \notin Buckets
  BY BufferAssumption DEF NoNode, Nodes
<1>6. /\ head \in [Buckets -> Nodes \cup {NoNode}] /\ hash \in [Nodes -> Buckets \cup {NoBucket}]
      /\ prev \in [Nodes -> Nodes \cup {NoNode}] /\ next \in [Nodes -> Nodes \cup {NoNode}]
      /\ prev' \in [Nodes -> Nodes \cup {NoNode}] /\ pc \in [Threads -> Labels]
  BY DEF Types
<1>7. p = NoNode <=> head[hash[n]] = n
  BY <1>1, <1>2, <1>5 DEF Ends
<1>8. Ends'
  <2>1. ASSUME NEW b \in Buckets, head'[b] # NoNode PROVE hash'[head'[b]] = b /\ prev'[head'[b]] = NoNode
    BY <1>1, <1>2, <1>3, <1>4, <1>5, <1>6, <1>7, <2>1 DEF Ends
  <2>2. ASSUME NEW m \in Nodes PROVE
           /\ hash'[m] = NoBucket => prev'[m] = NoNode /\ next'[m] = NoNode
           /\ hash'[m] # NoBucket /\ prev'[m] = NoNode => head'[hash'[m]] = m
           /\ prev'[m] # NoNode => hash'[prev'[m]] = hash'[m]
    BY <1>1, <1>2, <1>3, <1>4, <1>5, <1>6, <1>7, <2>2 DEF Ends
  <2> QED
    BY <2>1, <2>2 DEF Ends
<1>9. Mutual'
  <2>1. ASSUME NEW u \in Threads, pc'[u] = "unlinkNext"
        PROVE  /\ u # t /\ pc[u] = "unlinkNext" /\ node[u] \in Nodes /\ node[u] # n /\ node[u] # s
               /\ prev'[node[u]] = prev[node[u]] /\ prev[node[u]] # n
    BY <1>1, <1>2, <1>3, <1>4, <1>5, <1>6, <2>1 DEF Ends
  <2>2. ASSUME NEW x \in Nodes, ~Cut(x)', NEW m \in Nodes PROVE next'[x] = m <=> prev'[m] = x
    <3>1. CASE x = n
      BY <1>1, <1>2, <1>3, <1>4, <1>5, <1>6, <3>1
    <3>2. CASE x = p
      BY <1>1, <1>2, <1>3, <1>4, <1>5, <1>6, <3>2 DEF Mutual
    <3>3. CASE x # n /\ x # p
      <4>1. ~Cut(x)
        BY <2>1, <2>2, <3>3, <1>1, <1>4, <1>6 DEF Cut
      <4> QED
        BY <1>1, <1>2, <1>3, <1>4, <1>5, <1>6, <3>3, <4>1 DEF Mutual
    <3> QED
      BY <3>1, <3>2, <3>3
  <2>3. ASSUME NEW u \in Threads, pc'[u] = "unlinkNext", prev'[node[u]] # NoNode
        PROVE  next'[prev'[node[u]]] = next'[node[u]]
    BY <1>2, <1>4, <1>6, <2>1, <2>3 DEF Mutual
  <2>4. ASSUME NEW x \in Nodes, NEW y \in Nodes, prev'[x] = prev'[y], prev'[x] # NoNode PROVE x = y
    BY <1>1, <1>2, <1>3, <1>5, <2>4 DEF Mutual
  <2> QED
    BY <1>4, <2>2, <2>3, <2>4 DEF Mutual
<1>10. Acyclic'
  <2> SUFFICES ASSUME NEW S \in SUBSET Nodes, S # {} PROVE \E m \in S : prev'[m] \notin S
    BY DEF Acyclic
  <2>1. CASE n \in S
    BY <1>3, <1>5, <2>1
  <2>2. CASE n \notin S /\ s \notin S
    <3>1. PICK m \in S : prev[m] \notin S
      BY DEF Acyclic
    <3> QED
      BY <1>3, <2>2, <3>1
  <2>3. CASE n \notin S /\ s \in S
    <3>1. S \cup {n} \in SUBSET Nodes /\ S \cup {n} # {}
      BY <1>2
    <3>2. PICK m \in S \cup {n} : prev[m] \notin S \cup {n}
      BY <3>1 DEF Acyclic
    <3>3. CASE m = n
      BY <1>1, <1>2, <1>3, <1>5, <2>3, <3>2, <3>3
    <3>4. CASE m # n
      BY <1>1, <1>2, <1>3, <1>5, <2>3, <3>2, <3>4
    <3> QED
      BY <3>3, <3>4
  <2> QED
    BY <2>1, <2>2, <2>3
<1> QED
  BY <1>8, <1>9, <1>10

\* MoveTo makes the node the first of its new chain and keeps all chains.
LEMMA LinkEnds ==
    ASSUME Types, Types', Locks, Calls, Allocs, Ends, Mutual, Acyclic, NEW t \in Threads, Link(t)
    PROVE  Ends' /\ Mutual' /\ Acyclic'
<1>1. PICK n, b, f : n = node[t] /\ b = Bucket(t) /\ f = head[b]
  OBVIOUS
<1>2. NoNode \notin Nodes /\ NoBucket \notin Buckets
  BY BufferAssumption DEF NoNode, Nodes
<1>3. n \in Nodes /\ b \in Buckets /\ hash[n] = NoBucket /\ (f = NoNode \/ f \in Nodes)
  BY <1>1, BufferAssumption DEF Link, Types, Calls, Allocs, InAlloc, InNode, Bucket
<1>4. /\ head \in [Buckets -> Nodes \cup {NoNode}] /\ hash \in [Nodes -> Buckets \cup {NoBucket}]
      /\ prev \in [Nodes -> Nodes \cup {NoNode}] /\ next \in [Nodes -> Nodes \cup {NoNode}]
      /\ pc \in [Threads -> Labels]
  BY DEF Types
<1>5. /\ f = NoNode => prev' = prev
      /\ f # NoNode => prev' = [prev EXCEPT ![f] = n]
      /\ next' = [next EXCEPT ![n] = f]
      /\ hash' = [hash EXCEPT ![n] = b]
      /\ head' = [head EXCEPT ![b] = n]
      /\ pc' = [pc EXCEPT ![t] = "commit"] /\ node' = node
      /\ pc[t] = "link"
  BY <1>1 DEF Link, Goto
<1>6. /\ prev[n] = NoNode /\ next[n] = NoNode /\ f # n
      /\ f # NoNode => hash[f] = b /\ prev[f] = NoNode
      /\ \A m \in Nodes : prev[m] # n
  BY <1>1, <1>2, <1>3, <1>4 DEF Ends
<1>7. ASSUME NEW u \in Threads, pc[u] = "unlinkNext"
      PROVE  u # t /\ node[u] \in Nodes /\ hash[node[u]] \in Buckets /\ hash[node[u]] # b
  <2>1. node[u] \in Nodes /\ hash[node[u]] \in Buckets /\ bucketLock[hash[node[u]]] = u
    BY <1>7 DEF Calls, Allocs, InAlloc, InNode, Locks, HasBucket, InOther
  <2>2. bucketLock[b] = t /\ u # t
    BY <1>1, <1>3, <1>5, <1>7 DEF Locks, HasBucket, InBucket
  <2> QED
    BY <2>1, <2>2
<1>8. Ends'
  <2>1. ASSUME NEW c \in Buckets, head'[c] # NoNode PROVE hash'[head'[c]] = c /\ prev'[head'[c]] = NoNode
    BY <1>1, <1>2, <1>3, <1>4, <1>5, <1>6, <2>1 DEF Ends
  <2>2. ASSUME NEW m \in Nodes PROVE
           /\ hash'[m] = NoBucket => prev'[m] = NoNode /\ next'[m] = NoNode
           /\ hash'[m] # NoBucket /\ prev'[m] = NoNode => head'[hash'[m]] = m
           /\ prev'[m] # NoNode => hash'[prev'[m]] = hash'[m]
    BY <1>1, <1>2, <1>3, <1>4, <1>5, <1>6, <2>2 DEF Ends
  <2> QED
    BY <2>1, <2>2 DEF Ends
<1>9. Mutual'
  <2>1. ASSUME NEW u \in Threads, pc'[u] = "unlinkNext"
        PROVE  /\ pc[u] = "unlinkNext" /\ node[u] \in Nodes /\ node[u] # n
               /\ prev'[node[u]] = prev[node[u]] /\ prev[node[u]] # n
    BY <1>2, <1>3, <1>4, <1>5, <1>6, <1>7, <2>1
  <2>2. ASSUME NEW x \in Nodes, ~Cut(x)', NEW m \in Nodes PROVE next'[x] = m <=> prev'[m] = x
    <3>1. CASE x = n
      BY <1>2, <1>3, <1>4, <1>5, <1>6, <3>1
    <3>2. CASE x # n
      <4>1. ~Cut(x)
        BY <1>4, <1>5, <1>7, <2>1, <2>2, <3>2 DEF Cut
      <4> QED
        BY <1>2, <1>3, <1>4, <1>5, <1>6, <3>2, <4>1 DEF Mutual
    <3> QED
      BY <3>1, <3>2
  <2>3. ASSUME NEW u \in Threads, pc'[u] = "unlinkNext", prev'[node[u]] # NoNode
        PROVE  next'[prev'[node[u]]] = next'[node[u]]
    BY <1>3, <1>4, <1>5, <2>1, <2>3 DEF Mutual
  <2>4. ASSUME NEW x \in Nodes, NEW y \in Nodes, prev'[x] = prev'[y], prev'[x] # NoNode PROVE x = y
    BY <1>2, <1>3, <1>4, <1>5, <1>6, <2>4 DEF Mutual
  <2> QED
    BY <1>5, <2>2, <2>3, <2>4 DEF Mutual
<1>10. Acyclic'
  <2> SUFFICES ASSUME NEW S \in SUBSET Nodes, S # {} PROVE \E m \in S : prev'[m] \notin S
    BY DEF Acyclic
  <2>1. CASE n \in S
    BY <1>2, <1>3, <1>4, <1>5, <1>6, <2>1
  <2>2. CASE n \notin S
    <3>1. PICK m \in S : prev[m] \notin S
      BY DEF Acyclic
    <3> QED
      BY <1>2, <1>3, <1>4, <1>5, <2>2, <3>1
  <2> QED
    BY <2>1, <2>2
<1> QED
  BY <1>8, <1>9, <1>10

\* Every step keeps the types.
LEMMA TypesStep ==
    ASSUME Types, Calls, Counts, Shared, Next
    PROVE  Types'
<1> USE BufferAssumption DEF Goto, Taken, NodeFree, handles, locks, meta, HasBucket, HasNode,
    InBucket, InOther, InNode, InAlloc, Bucket
<1>1. ASSUME NEW t \in Threads, NEW k \in Keys, CallExist(t, k) PROVE Types'
  BY <1>1 DEF Types, Calls, Labels, CallExist
<1>2. ASSUME NEW t \in Threads, NEW k \in Keys, NEW h \in Handles, CallGet(t, k, h) PROVE Types'
  BY <1>2 DEF Types, Calls, Labels, CallGet
<1>3. ASSUME NEW t \in Threads, LockBucket(t) PROVE Types'
  BY <1>3 DEF Types, Calls, Labels, LockBucket
<1>4. ASSUME NEW t \in Threads, FindNext(t) PROVE Types'
  BY <1>4 DEF Types, Calls, Labels, FindNext
<1>5. ASSUME NEW t \in Threads, GetHit(t) PROVE Types'
  BY <1>5 DEF Types, Calls, Labels, GetHit
<1>6. ASSUME NEW t \in Threads, ExistHit(t) PROVE Types'
  BY <1>6 DEF Types, Calls, Labels, ExistHit
<1>7. ASSUME NEW t \in Threads, ChainEnd(t) PROVE Types'
  BY <1>7 DEF Types, Calls, Labels, ChainEnd
<1>8. ASSUME NEW t \in Threads, FetchNode(t) PROVE Types'
  BY <1>8 DEF Types, Labels, Nodes, FetchNode
<1>9. ASSUME NEW t \in Threads, SkipHeld(t) PROVE Types'
  BY <1>9 DEF Types, Calls, Labels, SkipHeld
<1>10. ASSUME NEW t \in Threads, LockNode(t) PROVE Types'
  BY <1>10 DEF Types, Calls, Labels, LockNode
<1>11. ASSUME NEW t \in Threads, TryBucket(t) PROVE Types'
  BY <1>11 DEF Types, Calls, Labels, TryBucket
<1>12. ASSUME NEW t \in Threads, UnlinkPrev(t) PROVE Types'
  BY <1>12 DEF Types, Calls, Labels, UnlinkPrev
<1>13. ASSUME NEW t \in Threads, UnlinkNext(t) PROVE Types'
  BY <1>13 DEF Types, Calls, Labels, UnlinkNext
<1>14. ASSUME NEW t \in Threads, Link(t) PROVE Types'
  BY <1>14 DEF Types, Calls, Labels, Link
<1>15. ASSUME NEW t \in Threads, Commit(t) PROVE Types'
  <2>1. node[t] \in Nodes /\ into[t] \in Handles /\ want[t] \in Keys /\ Bucket(t) \in Buckets
    BY <1>15 DEF Types, Calls, Commit
  <2>2. /\ ref' \in [Nodes -> Nat] /\ key' \in [Nodes -> Keys \cup {NoKey}]
        /\ ready' \in [Nodes -> BOOLEAN]
    BY <1>15, <2>1 DEF Types, Commit
  <2>3. /\ at' \in [Handles -> Nodes \cup {NoNode}] /\ own' \in [Handles -> BOOLEAN]
        /\ nodeLock' \in [Nodes -> Threads \cup {NoThread}]
        /\ bucketLock' \in [Buckets -> Threads \cup {NoThread}]
    BY <1>15, <2>1 DEF Types, Commit, Return
  <2>4. /\ pc' \in [Threads -> Labels] /\ want' \in [Threads -> Keys \cup {NoKey}]
        /\ into' \in [Threads -> Handles \cup {NoHandle}]
        /\ node' \in [Threads -> Nodes \cup {NoNode}]
    BY <1>15 DEF Types, Labels, Commit, Return
  <2> QED
    BY <1>15, <2>2, <2>3, <2>4 DEF Types, Commit
<1>16. ASSUME NEW t \in Threads, UnlockBucket(t) PROVE Types'
  BY <1>16 DEF Types, Calls, Labels, UnlockBucket, Return
<1>17. ASSUME NEW h \in Handles, MarkReady(h) PROVE Types'
  BY <1>17 DEF Types, Calls, Labels, MarkReady
<1>18. ASSUME NEW h \in Handles, Release(h) PROVE Types'
  <2>1. ref[at[h]] > 0
    BY <1>18, CountsDrop DEF Release
  <2> QED
    BY <1>18, <2>1 DEF Types, Release
<1> QED
  BY <1>1, <1>2, <1>3, <1>4, <1>5, <1>6, <1>7, <1>8, <1>9, <1>10, <1>11, <1>12, <1>13, <1>14,
      <1>15, <1>16, <1>17, <1>18 DEF Next, Run, Alloc

\* A node gets its key only at the end of Alloc, chained in the key's bucket,
\* and leaves its chain only when no handle is on it.
LEMMA KeysFitStep ==
    ASSUME Types, Types', Locks, Calls, Allocs, Counts, Walks, KeysFit, Shared, Next
    PROVE  KeysFit'
<1> USE BufferAssumption DEF Goto, Taken, NodeFree, handles, locks, meta, HasBucket, HasNode,
    InBucket, InOther, InNode, InAlloc, Bucket
<1>1. ASSUME NEW t \in Threads, NEW k \in Keys, CallExist(t, k) PROVE KeysFit'
  BY <1>1 DEF Types, Locks, Calls, Allocs, KeysFit, InUse, CallExist
<1>2. ASSUME NEW t \in Threads, NEW k \in Keys, NEW h \in Handles, CallGet(t, k, h) PROVE KeysFit'
  BY <1>2 DEF Types, Locks, Calls, Allocs, KeysFit, InUse, CallGet
<1>3. ASSUME NEW t \in Threads, LockBucket(t) PROVE KeysFit'
  BY <1>3 DEF Types, Locks, Calls, Allocs, KeysFit, InUse, LockBucket
<1>4. ASSUME NEW t \in Threads, FindNext(t) PROVE KeysFit'
  BY <1>4 DEF Types, Locks, Calls, Allocs, KeysFit, InUse, FindNext
<1>5. ASSUME NEW t \in Threads, GetHit(t) PROVE KeysFit'
  BY <1>5 DEF Types, Locks, Calls, Allocs, Walks, KeysFit, InUse, GetHit
<1>6. ASSUME NEW t \in Threads, ExistHit(t) PROVE KeysFit'
  BY <1>6 DEF Types, Locks, Calls, Allocs, KeysFit, InUse, ExistHit
<1>7. ASSUME NEW t \in Threads, ChainEnd(t) PROVE KeysFit'
  BY <1>7 DEF Types, Locks, Calls, Allocs, KeysFit, InUse, ChainEnd
<1>8. ASSUME NEW t \in Threads, FetchNode(t) PROVE KeysFit'
  BY <1>8 DEF Types, Locks, Calls, Allocs, KeysFit, InUse, FetchNode
<1>9. ASSUME NEW t \in Threads, SkipHeld(t) PROVE KeysFit'
  BY <1>9 DEF Types, Locks, Calls, Allocs, KeysFit, InUse, SkipHeld
<1>10. ASSUME NEW t \in Threads, LockNode(t) PROVE KeysFit'
  BY <1>10 DEF Types, Locks, Calls, Allocs, KeysFit, InUse, LockNode
<1>11. ASSUME NEW t \in Threads, TryBucket(t) PROVE KeysFit'
  BY <1>11 DEF Types, Locks, Calls, Allocs, KeysFit, InUse, TryBucket
<1>12. ASSUME NEW t \in Threads, UnlinkPrev(t) PROVE KeysFit'
  BY <1>12 DEF Types, Locks, Calls, Allocs, KeysFit, InUse, UnlinkPrev
<1>13. ASSUME NEW t \in Threads, UnlinkNext(t) PROVE KeysFit'
  <2>1. /\ node[t] \in Nodes /\ pc[t] = "unlinkNext" /\ UNCHANGED <<key, at, node>>
        /\ hash' = [hash EXCEPT ![node[t]] = NoBucket] /\ pc' = [pc EXCEPT ![t] = "link"]
    BY <1>13 DEF Calls, UnlinkNext
  <2>2. \A h \in Handles : at[h] # node[t]
    BY <2>1, AllocUnheld DEF Allocs
  <2> QED
    BY <2>1, <2>2 DEF Types, KeysFit, InUse
<1>14. ASSUME NEW t \in Threads, Link(t) PROVE KeysFit'
  BY <1>14 DEF Types, Locks, Calls, Allocs, KeysFit, InUse, Link
<1>15. ASSUME NEW t \in Threads, Commit(t) PROVE KeysFit'
  BY <1>15 DEF Types, Locks, Calls, Allocs, KeysFit, InUse, Commit, Return
<1>16. ASSUME NEW t \in Threads, UnlockBucket(t) PROVE KeysFit'
  BY <1>16 DEF Types, Locks, Calls, Allocs, KeysFit, InUse, UnlockBucket, Return
<1>17. ASSUME NEW h \in Handles, MarkReady(h) PROVE KeysFit'
  BY <1>17 DEF Types, Locks, Calls, Allocs, KeysFit, InUse, MarkReady
<1>18. ASSUME NEW h \in Handles, Release(h) PROVE KeysFit'
  BY <1>18 DEF Types, Locks, Calls, Allocs, KeysFit, InUse, Release
<1> QED
  BY <1>1, <1>2, <1>3, <1>4, <1>5, <1>6, <1>7, <1>8, <1>9, <1>10, <1>11, <1>12, <1>13, <1>14,
      <1>15, <1>16, <1>17, <1>18 DEF Next, Run, Alloc

\* Only Remove and MoveTo change where chains begin and whom they hold.
LEMMA EndsStep ==
    ASSUME Types, Types', Locks, Calls, Allocs, Ends, Mutual, Acyclic, Shared, Next
    PROVE  Ends'
<1> USE BufferAssumption DEF Goto, Taken, NodeFree, handles, locks, meta, HasBucket, HasNode,
    InBucket, InOther, InNode, InAlloc, Bucket
<1>1. ASSUME NEW t \in Threads, NEW k \in Keys, CallExist(t, k) PROVE Ends'
  BY <1>1 DEF Types, Locks, Calls, Allocs, Ends, Mutual, Cut, CallExist
<1>2. ASSUME NEW t \in Threads, NEW k \in Keys, NEW h \in Handles, CallGet(t, k, h) PROVE Ends'
  BY <1>2 DEF Types, Locks, Calls, Allocs, Ends, Mutual, Cut, CallGet
<1>3. ASSUME NEW t \in Threads, LockBucket(t) PROVE Ends'
  BY <1>3 DEF Types, Locks, Calls, Allocs, Ends, Mutual, Cut, LockBucket
<1>4. ASSUME NEW t \in Threads, FindNext(t) PROVE Ends'
  BY <1>4 DEF Types, Locks, Calls, Allocs, Ends, Mutual, Cut, FindNext
<1>5. ASSUME NEW t \in Threads, GetHit(t) PROVE Ends'
  BY <1>5 DEF Types, Locks, Calls, Allocs, Ends, Mutual, Cut, GetHit
<1>6. ASSUME NEW t \in Threads, ExistHit(t) PROVE Ends'
  BY <1>6 DEF Types, Locks, Calls, Allocs, Ends, Mutual, Cut, ExistHit
<1>7. ASSUME NEW t \in Threads, ChainEnd(t) PROVE Ends'
  BY <1>7 DEF Types, Locks, Calls, Allocs, Ends, Mutual, Cut, ChainEnd
<1>8. ASSUME NEW t \in Threads, FetchNode(t) PROVE Ends'
  BY <1>8 DEF Types, Locks, Calls, Allocs, Ends, Mutual, Cut, FetchNode
<1>9. ASSUME NEW t \in Threads, SkipHeld(t) PROVE Ends'
  BY <1>9 DEF Types, Locks, Calls, Allocs, Ends, Mutual, Cut, SkipHeld
<1>10. ASSUME NEW t \in Threads, LockNode(t) PROVE Ends'
  BY <1>10 DEF Types, Locks, Calls, Allocs, Ends, Mutual, Cut, LockNode
<1>11. ASSUME NEW t \in Threads, TryBucket(t) PROVE Ends'
  BY <1>11 DEF Types, Locks, Calls, Allocs, Ends, Mutual, Cut, TryBucket
<1>12. ASSUME NEW t \in Threads, UnlinkPrev(t) PROVE Ends'
  BY <1>12 DEF Types, Locks, Calls, Allocs, Ends, Mutual, Cut, UnlinkPrev
<1>13. ASSUME NEW t \in Threads, UnlinkNext(t) PROVE Ends'
  BY <1>13, UnlinkNextEnds
<1>14. ASSUME NEW t \in Threads, Link(t) PROVE Ends'
  BY <1>14, LinkEnds
<1>15. ASSUME NEW t \in Threads, Commit(t) PROVE Ends'
  BY <1>15 DEF Types, Locks, Calls, Allocs, Ends, Mutual, Cut, Commit, Return
<1>16. ASSUME NEW t \in Threads, UnlockBucket(t) PROVE Ends'
  BY <1>16 DEF Types, Locks, Calls, Allocs, Ends, Mutual, Cut, UnlockBucket, Return
<1>17. ASSUME NEW h \in Handles, MarkReady(h) PROVE Ends'
  BY <1>17 DEF Types, Locks, Calls, Allocs, Ends, Mutual, Cut, MarkReady
<1>18. ASSUME NEW h \in Handles, Release(h) PROVE Ends'
  BY <1>18 DEF Types, Locks, Calls, Allocs, Ends, Mutual, Cut, Release
<1> QED
  BY <1>1, <1>2, <1>3, <1>4, <1>5, <1>6, <1>7, <1>8, <1>9, <1>10, <1>11, <1>12, <1>13, <1>14,
      <1>15, <1>16, <1>17, <1>18 DEF Next, Run, Alloc

\* UnlinkPrev cuts one link, UnlinkNext mends it, Link adds a mutual one.
LEMMA MutualStep ==
    ASSUME Types, Types', Locks, Calls, Allocs, Ends, Mutual, Acyclic, Shared, Next
    PROVE  Mutual'
<1> USE BufferAssumption DEF Goto, Taken, NodeFree, handles, locks, meta, HasBucket, HasNode,
    InBucket, InOther, InNode, InAlloc, Bucket
<1>1. ASSUME NEW t \in Threads, NEW k \in Keys, CallExist(t, k) PROVE Mutual'
  BY <1>1, MutualFrame DEF Types, CallExist
<1>2. ASSUME NEW t \in Threads, NEW k \in Keys, NEW h \in Handles, CallGet(t, k, h) PROVE Mutual'
  BY <1>2, MutualFrame DEF Types, CallGet
<1>3. ASSUME NEW t \in Threads, LockBucket(t) PROVE Mutual'
  BY <1>3, MutualFrame DEF Types, LockBucket
<1>4. ASSUME NEW t \in Threads, FindNext(t) PROVE Mutual'
  BY <1>4, MutualFrame DEF Types, FindNext
<1>5. ASSUME NEW t \in Threads, GetHit(t) PROVE Mutual'
  BY <1>5, MutualFrame DEF Types, GetHit
<1>6. ASSUME NEW t \in Threads, ExistHit(t) PROVE Mutual'
  BY <1>6, MutualFrame DEF Types, ExistHit
<1>7. ASSUME NEW t \in Threads, ChainEnd(t) PROVE Mutual'
  BY <1>7, MutualFrame DEF Types, ChainEnd
<1>8. ASSUME NEW t \in Threads, FetchNode(t) PROVE Mutual'
  BY <1>8, MutualFrame DEF Types, FetchNode
<1>9. ASSUME NEW t \in Threads, SkipHeld(t) PROVE Mutual'
  BY <1>9, MutualFrame DEF Types, SkipHeld
<1>10. ASSUME NEW t \in Threads, LockNode(t) PROVE Mutual'
  BY <1>10, MutualFrame DEF Types, LockNode
<1>11. ASSUME NEW t \in Threads, TryBucket(t) PROVE Mutual'
  BY <1>11, MutualFrame DEF Types, TryBucket
<1>12. ASSUME NEW t \in Threads, UnlinkPrev(t) PROVE Mutual'
  BY <1>12 DEF Types, Locks, Calls, Allocs, Ends, Mutual, Cut, UnlinkPrev
<1>13. ASSUME NEW t \in Threads, UnlinkNext(t) PROVE Mutual'
  BY <1>13, UnlinkNextEnds
<1>14. ASSUME NEW t \in Threads, Link(t) PROVE Mutual'
  BY <1>14, LinkEnds
<1>15. ASSUME NEW t \in Threads, Commit(t) PROVE Mutual'
  BY <1>15, MutualFrame DEF Types, Commit, Return
<1>16. ASSUME NEW t \in Threads, UnlockBucket(t) PROVE Mutual'
  BY <1>16, MutualFrame DEF Types, UnlockBucket, Return
<1>17. ASSUME NEW h \in Handles, MarkReady(h) PROVE Mutual'
  BY <1>17, MutualFrame DEF Types, MarkReady
<1>18. ASSUME NEW h \in Handles, Release(h) PROVE Mutual'
  BY <1>18, MutualFrame DEF Types, Release
<1> QED
  BY <1>1, <1>2, <1>3, <1>4, <1>5, <1>6, <1>7, <1>8, <1>9, <1>10, <1>11, <1>12, <1>13, <1>14,
      <1>15, <1>16, <1>17, <1>18 DEF Next, Run, Alloc

\* Only Remove and MoveTo change a prev.
LEMMA AcyclicStep ==
    ASSUME Types, Types', Locks, Calls, Allocs, Ends, Mutual, Acyclic, Shared, Next
    PROVE  Acyclic'
<1> USE BufferAssumption DEF Goto, Taken, NodeFree, handles, locks, meta, HasBucket, HasNode,
    InBucket, InOther, InNode, InAlloc, Bucket
<1>1. ASSUME NEW t \in Threads, NEW k \in Keys, CallExist(t, k) PROVE Acyclic'
  BY <1>1 DEF Acyclic, CallExist
<1>2. ASSUME NEW t \in Threads, NEW k \in Keys, NEW h \in Handles, CallGet(t, k, h) PROVE Acyclic'
  BY <1>2 DEF Acyclic, CallGet
<1>3. ASSUME NEW t \in Threads, LockBucket(t) PROVE Acyclic'
  BY <1>3 DEF Acyclic, LockBucket
<1>4. ASSUME NEW t \in Threads, FindNext(t) PROVE Acyclic'
  BY <1>4 DEF Acyclic, FindNext
<1>5. ASSUME NEW t \in Threads, GetHit(t) PROVE Acyclic'
  BY <1>5 DEF Acyclic, GetHit
<1>6. ASSUME NEW t \in Threads, ExistHit(t) PROVE Acyclic'
  BY <1>6 DEF Acyclic, ExistHit
<1>7. ASSUME NEW t \in Threads, ChainEnd(t) PROVE Acyclic'
  BY <1>7 DEF Acyclic, ChainEnd
<1>8. ASSUME NEW t \in Threads, FetchNode(t) PROVE Acyclic'
  BY <1>8 DEF Acyclic, FetchNode
<1>9. ASSUME NEW t \in Threads, SkipHeld(t) PROVE Acyclic'
  BY <1>9 DEF Acyclic, SkipHeld
<1>10. ASSUME NEW t \in Threads, LockNode(t) PROVE Acyclic'
  BY <1>10 DEF Acyclic, LockNode
<1>11. ASSUME NEW t \in Threads, TryBucket(t) PROVE Acyclic'
  BY <1>11 DEF Acyclic, TryBucket
<1>12. ASSUME NEW t \in Threads, UnlinkPrev(t) PROVE Acyclic'
  BY <1>12 DEF Acyclic, UnlinkPrev
<1>13. ASSUME NEW t \in Threads, UnlinkNext(t) PROVE Acyclic'
  BY <1>13, UnlinkNextEnds
<1>14. ASSUME NEW t \in Threads, Link(t) PROVE Acyclic'
  BY <1>14, LinkEnds
<1>15. ASSUME NEW t \in Threads, Commit(t) PROVE Acyclic'
  BY <1>15 DEF Acyclic, Commit, Return
<1>16. ASSUME NEW t \in Threads, UnlockBucket(t) PROVE Acyclic'
  BY <1>16 DEF Acyclic, UnlockBucket, Return
<1>17. ASSUME NEW h \in Handles, MarkReady(h) PROVE Acyclic'
  BY <1>17 DEF Acyclic, MarkReady
<1>18. ASSUME NEW h \in Handles, Release(h) PROVE Acyclic'
  BY <1>18 DEF Acyclic, Release
<1> QED
  BY <1>1, <1>2, <1>3, <1>4, <1>5, <1>6, <1>7, <1>8, <1>9, <1>10, <1>11, <1>12, <1>13, <1>14,
      <1>15, <1>16, <1>17, <1>18 DEF Next, Run, Alloc

\* A set of nodes with a bucket's first node and every successor holds the
\* whole chain.
LEMMA ClosedIsWhole ==
    ASSUME Types, Ends, Mutual, Acyclic, NEW b \in Buckets, \A n \in Nodes : hash[n] = b => ~Cut(n),
           NEW V \in SUBSET Nodes, head[b] \in V \cup {NoNode},
           \A n \in V : next[n] \in V \cup {NoNode}
    PROVE  \A n \in Nodes : hash[n] = b => n \in V
<1> DEFINE S == {n \in Nodes : hash[n] = b} \ V
<1>1. NoNode \notin Nodes /\ NoBucket \notin Buckets
  BY BufferAssumption DEF NoNode, Nodes
<1>2. ASSUME S # {} PROVE FALSE
  <2>1. PICK n \in S : prev[n] \notin S
    BY <1>2 DEF Acyclic
  <2>2. n \in Nodes /\ hash[n] = b /\ n \notin V
    OBVIOUS
  <2>3. CASE prev[n] = NoNode
    BY <1>1, <2>2, <2>3 DEF Ends
  <2>4. CASE prev[n] # NoNode
    <3>1. prev[n] \in Nodes /\ hash[prev[n]] = b
      BY <1>1, <2>2, <2>4 DEF Types, Ends
    <3>2. prev[n] \in V
      BY <2>1, <3>1
    <3>3. next[prev[n]] = n
      BY <2>2, <3>1 DEF Mutual
    <3> QED
      BY <1>1, <2>2, <3>2, <3>3
  <2> QED
    BY <2>3, <2>4
<1> QED
  BY <1>2

\* A walk that reached the end of the chain has met every node of its bucket.
LEMMA WalkIsWhole ==
    ASSUME Types, Locks, Calls, Allocs, Ends, Mutual, Acyclic, NEW t \in Threads, pc[t] = "find",
           node[t] = NoNode, NEW V \in SUBSET Nodes, Passed(t, V)
    PROVE  \A n \in Nodes : hash[n] = Bucket(t) => n \in V
<1>1. Bucket(t) \in Buckets
  BY BufferAssumption DEF Bucket, Calls
<1>2. \A n \in Nodes : hash[n] = Bucket(t) => ~Cut(n)
  BY <1>1, NotCut DEF InBucket, InOther
<1> QED
  BY <1>1, <1>2, ClosedIsWhole DEF Passed

\* The walk that ends has met the whole chain; from then on nobody else can
\* put the key into use, for lack of the bucket's mutex.
LEMMA MissedStep ==
    ASSUME Types, Types', Locks, Calls, Allocs, KeysFit, Ends, Mutual, Acyclic, Walks, Missed, Shared, Next
    PROVE  Missed'
<1> USE BufferAssumption DEF Goto, Taken, NodeFree, handles, locks, meta, HasBucket, HasNode,
    InBucket, InOther, InNode, InAlloc, Bucket
<1>1. ASSUME NEW t \in Threads, NEW k \in Keys, CallExist(t, k) PROVE Missed'
  BY <1>1 DEF Types, Locks, Calls, Allocs, KeysFit, Missed, InUse, CallExist
<1>2. ASSUME NEW t \in Threads, NEW k \in Keys, NEW h \in Handles, CallGet(t, k, h) PROVE Missed'
  BY <1>2 DEF Types, Locks, Calls, Allocs, KeysFit, Missed, InUse, CallGet
<1>3. ASSUME NEW t \in Threads, LockBucket(t) PROVE Missed'
  BY <1>3 DEF Types, Locks, Calls, Allocs, KeysFit, Missed, InUse, LockBucket
<1>4. ASSUME NEW t \in Threads, FindNext(t) PROVE Missed'
  BY <1>4 DEF Types, Locks, Calls, Allocs, KeysFit, Missed, InUse, FindNext
<1>5. ASSUME NEW t \in Threads, GetHit(t) PROVE Missed'
  BY <1>5 DEF Types, Locks, Calls, Allocs, KeysFit, Missed, InUse, GetHit
<1>6. ASSUME NEW t \in Threads, ExistHit(t) PROVE Missed'
  BY <1>6 DEF Types, Locks, Calls, Allocs, KeysFit, Missed, InUse, ExistHit
<1>7. ASSUME NEW t \in Threads, ChainEnd(t) PROVE Missed'
  <2>1. UNCHANGED <<key, hash, node, want>> /\ pc[t] = "find" /\ node[t] = NoNode
        /\ \A u \in Threads : u # t => pc'[u] = pc[u]
        /\ pc'[t] \in {"absent", "fetch"} /\ pc'[t] # "commit"
    BY <1>7 DEF ChainEnd, Types
  <2>2. PICK V \in SUBSET Nodes : Passed(t, V)
    BY <2>1 DEF Walks
  <2>3. \A n \in Nodes : hash[n] = Bucket(t) => key[n] # want[t]
    BY <2>1, <2>2, WalkIsWhole DEF Passed
  <2>4. \A n \in Nodes : InUse(n) => key[n] # want[t]
    BY <2>3 DEF KeysFit, InUse
  <2>5. \A n \in Nodes : InUse(n)' => InUse(n)
    BY <2>1 DEF InUse
  <2> QED
    BY <2>1, <2>4, <2>5 DEF Missed
<1>8. ASSUME NEW t \in Threads, FetchNode(t) PROVE Missed'
  BY <1>8 DEF Types, Locks, Calls, Allocs, KeysFit, Missed, InUse, FetchNode
<1>9. ASSUME NEW t \in Threads, SkipHeld(t) PROVE Missed'
  BY <1>9 DEF Types, Locks, Calls, Allocs, KeysFit, Missed, InUse, SkipHeld
<1>10. ASSUME NEW t \in Threads, LockNode(t) PROVE Missed'
  BY <1>10 DEF Types, Locks, Calls, Allocs, KeysFit, Missed, InUse, LockNode
<1>11. ASSUME NEW t \in Threads, TryBucket(t) PROVE Missed'
  BY <1>11 DEF Types, Locks, Calls, Allocs, KeysFit, Missed, InUse, TryBucket
<1>12. ASSUME NEW t \in Threads, UnlinkPrev(t) PROVE Missed'
  BY <1>12 DEF Types, Locks, Calls, Allocs, KeysFit, Missed, InUse, UnlinkPrev
<1>13. ASSUME NEW t \in Threads, UnlinkNext(t) PROVE Missed'
  BY <1>13 DEF Types, Locks, Calls, Allocs, KeysFit, Missed, InUse, UnlinkNext
<1>14. ASSUME NEW t \in Threads, Link(t) PROVE Missed'
  BY <1>14 DEF Types, Locks, Calls, Allocs, KeysFit, Missed, InUse, Link
<1>15. ASSUME NEW t \in Threads, Commit(t) PROVE Missed'
  BY <1>15 DEF Types, Locks, Calls, Allocs, KeysFit, Missed, InUse, Commit, Return
<1>16. ASSUME NEW t \in Threads, UnlockBucket(t) PROVE Missed'
  BY <1>16 DEF Types, Locks, Calls, Allocs, KeysFit, Missed, InUse, UnlockBucket, Return
<1>17. ASSUME NEW h \in Handles, MarkReady(h) PROVE Missed'
  BY <1>17 DEF Types, Locks, Calls, Allocs, KeysFit, Missed, InUse, MarkReady
<1>18. ASSUME NEW h \in Handles, Release(h) PROVE Missed'
  BY <1>18 DEF Types, Locks, Calls, Allocs, KeysFit, Missed, InUse, Release
<1> QED
  BY <1>1, <1>2, <1>3, <1>4, <1>5, <1>6, <1>7, <1>8, <1>9, <1>10, <1>11, <1>12, <1>13, <1>14,
      <1>15, <1>16, <1>17, <1>18 DEF Next, Run, Alloc

\* A thread takes a free lock, and gives back its own only.
LEMMA LocksStep ==
    ASSUME Types, Types', Calls, Allocs, Locks, Shared, Next
    PROVE  Locks'
<1> USE BufferAssumption DEF Goto, Taken, NodeFree, handles, locks, meta, HasBucket, HasNode,
    InBucket, InOther, InNode, InAlloc, Bucket
<1>1. ASSUME NEW t \in Threads, NEW k \in Keys, CallExist(t, k) PROVE Locks'
  BY <1>1 DEF Types, Locks, Calls, Allocs, CallExist
<1>2. ASSUME NEW t \in Threads, NEW k \in Keys, NEW h \in Handles, CallGet(t, k, h) PROVE Locks'
  BY <1>2 DEF Types, Locks, Calls, Allocs, CallGet
<1>3. ASSUME NEW t \in Threads, LockBucket(t) PROVE Locks'
  BY <1>3 DEF Types, Locks, Calls, Allocs, LockBucket
<1>4. ASSUME NEW t \in Threads, FindNext(t) PROVE Locks'
  BY <1>4 DEF Types, Locks, Calls, Allocs, FindNext
<1>5. ASSUME NEW t \in Threads, GetHit(t) PROVE Locks'
  BY <1>5 DEF Types, Locks, Calls, Allocs, GetHit
<1>6. ASSUME NEW t \in Threads, ExistHit(t) PROVE Locks'
  BY <1>6 DEF Types, Locks, Calls, Allocs, ExistHit
<1>7. ASSUME NEW t \in Threads, ChainEnd(t) PROVE Locks'
  BY <1>7 DEF Types, Locks, Calls, Allocs, ChainEnd
<1>8. ASSUME NEW t \in Threads, FetchNode(t) PROVE Locks'
  BY <1>8 DEF Types, Locks, Calls, Allocs, FetchNode
<1>9. ASSUME NEW t \in Threads, SkipHeld(t) PROVE Locks'
  BY <1>9 DEF Types, Locks, Calls, Allocs, SkipHeld
<1>10. ASSUME NEW t \in Threads, LockNode(t) PROVE Locks'
  BY <1>10 DEF Types, Locks, Calls, Allocs, LockNode
<1>11. ASSUME NEW t \in Threads, TryBucket(t) PROVE Locks'
  BY <1>11 DEF Types, Locks, Calls, Allocs, TryBucket
<1>12. ASSUME NEW t \in Threads, UnlinkPrev(t) PROVE Locks'
  BY <1>12 DEF Types, Locks, Calls, Allocs, UnlinkPrev
<1>13. ASSUME NEW t \in Threads, UnlinkNext(t) PROVE Locks'
  BY <1>13 DEF Types, Locks, Calls, Allocs, UnlinkNext
<1>14. ASSUME NEW t \in Threads, Link(t) PROVE Locks'
  BY <1>14 DEF Types, Locks, Calls, Allocs, Link
<1>15. ASSUME NEW t \in Threads, Commit(t) PROVE Locks'
  BY <1>15 DEF Types, Locks, Calls, Allocs, Commit, Return
<1>16. ASSUME NEW t \in Threads, UnlockBucket(t) PROVE Locks'
  BY <1>16 DEF Types, Locks, Calls, Allocs, UnlockBucket, Return
<1>17. ASSUME NEW h \in Handles, MarkReady(h) PROVE Locks'
  BY <1>17 DEF Types, Locks, Calls, Allocs, MarkReady
<1>18. ASSUME NEW h \in Handles, Release(h) PROVE Locks'
  BY <1>18 DEF Types, Locks, Calls, Allocs, Release
<1> QED
  BY <1>1, <1>2, <1>3, <1>4, <1>5, <1>6, <1>7, <1>8, <1>9, <1>10, <1>11, <1>12, <1>13, <1>14,
      <1>15, <1>16, <1>17, <1>18 DEF Next, Run, Alloc

\* Two calls never have the same handle, and fill their own only.
LEMMA CallsStep ==
    ASSUME Types, Types', Locks, Calls, Shared, Next
    PROVE  Calls'
<1> USE BufferAssumption DEF Goto, Taken, NodeFree, handles, locks, meta, HasBucket, HasNode,
    InBucket, InOther, InNode, InAlloc, Bucket
<1>1. ASSUME NEW t \in Threads, NEW k \in Keys, CallExist(t, k) PROVE Calls'
  BY <1>1 DEF Types, Locks, Calls, CallExist
<1>2. ASSUME NEW t \in Threads, NEW k \in Keys, NEW h \in Handles, CallGet(t, k, h) PROVE Calls'
  BY <1>2 DEF Types, Locks, Calls, CallGet
<1>3. ASSUME NEW t \in Threads, LockBucket(t) PROVE Calls'
  BY <1>3 DEF Types, Locks, Calls, LockBucket
<1>4. ASSUME NEW t \in Threads, FindNext(t) PROVE Calls'
  BY <1>4 DEF Types, Locks, Calls, FindNext
<1>5. ASSUME NEW t \in Threads, GetHit(t) PROVE Calls'
  BY <1>5 DEF Types, Locks, Calls, GetHit
<1>6. ASSUME NEW t \in Threads, ExistHit(t) PROVE Calls'
  BY <1>6 DEF Types, Locks, Calls, ExistHit
<1>7. ASSUME NEW t \in Threads, ChainEnd(t) PROVE Calls'
  BY <1>7 DEF Types, Locks, Calls, ChainEnd
<1>8. ASSUME NEW t \in Threads, FetchNode(t) PROVE Calls'
  BY <1>8 DEF Types, Locks, Calls, FetchNode
<1>9. ASSUME NEW t \in Threads, SkipHeld(t) PROVE Calls'
  BY <1>9 DEF Types, Locks, Calls, SkipHeld
<1>10. ASSUME NEW t \in Threads, LockNode(t) PROVE Calls'
  BY <1>10 DEF Types, Locks, Calls, LockNode
<1>11. ASSUME NEW t \in Threads, TryBucket(t) PROVE Calls'
  BY <1>11 DEF Types, Locks, Calls, TryBucket
<1>12. ASSUME NEW t \in Threads, UnlinkPrev(t) PROVE Calls'
  BY <1>12 DEF Types, Locks, Calls, UnlinkPrev
<1>13. ASSUME NEW t \in Threads, UnlinkNext(t) PROVE Calls'
  BY <1>13 DEF Types, Locks, Calls, UnlinkNext
<1>14. ASSUME NEW t \in Threads, Link(t) PROVE Calls'
  BY <1>14 DEF Types, Locks, Calls, Link
<1>15. ASSUME NEW t \in Threads, Commit(t) PROVE Calls'
  BY <1>15 DEF Types, Locks, Calls, Commit, Return
<1>16. ASSUME NEW t \in Threads, UnlockBucket(t) PROVE Calls'
  BY <1>16 DEF Types, Locks, Calls, UnlockBucket, Return
<1>17. ASSUME NEW h \in Handles, MarkReady(h) PROVE Calls'
  BY <1>17 DEF Types, Locks, Calls, MarkReady
<1>18. ASSUME NEW h \in Handles, Release(h) PROVE Calls'
  BY <1>18 DEF Types, Locks, Calls, Release
<1> QED
  BY <1>1, <1>2, <1>3, <1>4, <1>5, <1>6, <1>7, <1>8, <1>9, <1>10, <1>11, <1>12, <1>13, <1>14,
      <1>15, <1>16, <1>17, <1>18 DEF Next, Run, Alloc

\* While Alloc has the node's lock nobody else changes its count or hash.
LEMMA AllocsStep ==
    ASSUME Types, Types', Locks, Calls, Allocs, Shared, Next
    PROVE  Allocs'
<1> USE BufferAssumption DEF Goto, Taken, NodeFree, handles, locks, meta, HasBucket, HasNode,
    InBucket, InOther, InNode, InAlloc, Bucket
<1>1. ASSUME NEW t \in Threads, NEW k \in Keys, CallExist(t, k) PROVE Allocs'
  BY <1>1 DEF Types, Locks, Calls, Allocs, CallExist
<1>2. ASSUME NEW t \in Threads, NEW k \in Keys, NEW h \in Handles, CallGet(t, k, h) PROVE Allocs'
  BY <1>2 DEF Types, Locks, Calls, Allocs, CallGet
<1>3. ASSUME NEW t \in Threads, LockBucket(t) PROVE Allocs'
  BY <1>3 DEF Types, Locks, Calls, Allocs, LockBucket
<1>4. ASSUME NEW t \in Threads, FindNext(t) PROVE Allocs'
  BY <1>4 DEF Types, Locks, Calls, Allocs, FindNext
<1>5. ASSUME NEW t \in Threads, GetHit(t) PROVE Allocs'
  BY <1>5 DEF Types, Locks, Calls, Allocs, GetHit
<1>6. ASSUME NEW t \in Threads, ExistHit(t) PROVE Allocs'
  BY <1>6 DEF Types, Locks, Calls, Allocs, ExistHit
<1>7. ASSUME NEW t \in Threads, ChainEnd(t) PROVE Allocs'
  BY <1>7 DEF Types, Locks, Calls, Allocs, ChainEnd
<1>8. ASSUME NEW t \in Threads, FetchNode(t) PROVE Allocs'
  BY <1>8 DEF Types, Locks, Calls, Allocs, FetchNode
<1>9. ASSUME NEW t \in Threads, SkipHeld(t) PROVE Allocs'
  BY <1>9 DEF Types, Locks, Calls, Allocs, SkipHeld
<1>10. ASSUME NEW t \in Threads, LockNode(t) PROVE Allocs'
  BY <1>10 DEF Types, Locks, Calls, Allocs, LockNode
<1>11. ASSUME NEW t \in Threads, TryBucket(t) PROVE Allocs'
  BY <1>11 DEF Types, Locks, Calls, Allocs, TryBucket
<1>12. ASSUME NEW t \in Threads, UnlinkPrev(t) PROVE Allocs'
  BY <1>12 DEF Types, Locks, Calls, Allocs, UnlinkPrev
<1>13. ASSUME NEW t \in Threads, UnlinkNext(t) PROVE Allocs'
  BY <1>13 DEF Types, Locks, Calls, Allocs, UnlinkNext
<1>14. ASSUME NEW t \in Threads, Link(t) PROVE Allocs'
  BY <1>14 DEF Types, Locks, Calls, Allocs, Link
<1>15. ASSUME NEW t \in Threads, Commit(t) PROVE Allocs'
  BY <1>15 DEF Types, Locks, Calls, Allocs, Commit, Return
<1>16. ASSUME NEW t \in Threads, UnlockBucket(t) PROVE Allocs'
  BY <1>16 DEF Types, Locks, Calls, Allocs, UnlockBucket, Return
<1>17. ASSUME NEW h \in Handles, MarkReady(h) PROVE Allocs'
  BY <1>17 DEF Types, Locks, Calls, Allocs, MarkReady
<1>18. ASSUME NEW h \in Handles, Release(h) PROVE Allocs'
  BY <1>18 DEF Types, Locks, Calls, Allocs, Release
<1> QED
  BY <1>1, <1>2, <1>3, <1>4, <1>5, <1>6, <1>7, <1>8, <1>9, <1>10, <1>11, <1>12, <1>13, <1>14,
      <1>15, <1>16, <1>17, <1>18 DEF Next, Run, Alloc

\* A node Exist found keeps its key while the thread has the bucket's mutex.
LEMMA SeenStep ==
    ASSUME Types, Types', Locks, Calls, Allocs, Walks, Seen, Shared, Next
    PROVE  Seen'
<1> USE BufferAssumption DEF Goto, Taken, NodeFree, handles, locks, meta, HasBucket, HasNode,
    InBucket, InOther, InNode, InAlloc, Bucket
<1>1. ASSUME NEW t \in Threads, NEW k \in Keys, CallExist(t, k) PROVE Seen'
  BY <1>1 DEF Types, Locks, Calls, Allocs, Walks, Seen, CallExist
<1>2. ASSUME NEW t \in Threads, NEW k \in Keys, NEW h \in Handles, CallGet(t, k, h) PROVE Seen'
  BY <1>2 DEF Types, Locks, Calls, Allocs, Walks, Seen, CallGet
<1>3. ASSUME NEW t \in Threads, LockBucket(t) PROVE Seen'
  BY <1>3 DEF Types, Locks, Calls, Allocs, Walks, Seen, LockBucket
<1>4. ASSUME NEW t \in Threads, FindNext(t) PROVE Seen'
  BY <1>4 DEF Types, Locks, Calls, Allocs, Walks, Seen, FindNext
<1>5. ASSUME NEW t \in Threads, GetHit(t) PROVE Seen'
  BY <1>5 DEF Types, Locks, Calls, Allocs, Walks, Seen, GetHit
<1>6. ASSUME NEW t \in Threads, ExistHit(t) PROVE Seen'
  BY <1>6 DEF Types, Locks, Calls, Allocs, Walks, Seen, ExistHit
<1>7. ASSUME NEW t \in Threads, ChainEnd(t) PROVE Seen'
  BY <1>7 DEF Types, Locks, Calls, Allocs, Walks, Seen, ChainEnd
<1>8. ASSUME NEW t \in Threads, FetchNode(t) PROVE Seen'
  BY <1>8 DEF Types, Locks, Calls, Allocs, Walks, Seen, FetchNode
<1>9. ASSUME NEW t \in Threads, SkipHeld(t) PROVE Seen'
  BY <1>9 DEF Types, Locks, Calls, Allocs, Walks, Seen, SkipHeld
<1>10. ASSUME NEW t \in Threads, LockNode(t) PROVE Seen'
  BY <1>10 DEF Types, Locks, Calls, Allocs, Walks, Seen, LockNode
<1>11. ASSUME NEW t \in Threads, TryBucket(t) PROVE Seen'
  BY <1>11 DEF Types, Locks, Calls, Allocs, Walks, Seen, TryBucket
<1>12. ASSUME NEW t \in Threads, UnlinkPrev(t) PROVE Seen'
  BY <1>12 DEF Types, Locks, Calls, Allocs, Walks, Seen, UnlinkPrev
<1>13. ASSUME NEW t \in Threads, UnlinkNext(t) PROVE Seen'
  BY <1>13 DEF Types, Locks, Calls, Allocs, Walks, Seen, UnlinkNext
<1>14. ASSUME NEW t \in Threads, Link(t) PROVE Seen'
  BY <1>14 DEF Types, Locks, Calls, Allocs, Walks, Seen, Link
<1>15. ASSUME NEW t \in Threads, Commit(t) PROVE Seen'
  BY <1>15 DEF Types, Locks, Calls, Allocs, Walks, Seen, Commit, Return
<1>16. ASSUME NEW t \in Threads, UnlockBucket(t) PROVE Seen'
  BY <1>16 DEF Types, Locks, Calls, Allocs, Walks, Seen, UnlockBucket, Return
<1>17. ASSUME NEW h \in Handles, MarkReady(h) PROVE Seen'
  BY <1>17 DEF Types, Locks, Calls, Allocs, Walks, Seen, MarkReady
<1>18. ASSUME NEW h \in Handles, Release(h) PROVE Seen'
  BY <1>18 DEF Types, Locks, Calls, Allocs, Walks, Seen, Release
<1> QED
  BY <1>1, <1>2, <1>3, <1>4, <1>5, <1>6, <1>7, <1>8, <1>9, <1>10, <1>11, <1>12, <1>13, <1>14,
      <1>15, <1>16, <1>17, <1>18 DEF Next, Run, Alloc

\* While a thread walks its bucket, no other thread and no handle changes
\* what the walk can meet.
WalkKept(t) ==
    /\ head'[Bucket(t)] = head[Bucket(t)]
    /\ \A n \in Nodes : hash'[n] = Bucket(t) <=> hash[n] = Bucket(t)
    /\ \A n \in Nodes : hash[n] = Bucket(t) => key'[n] = key[n] /\ next'[n] = next[n]
    /\ want'[t] = want[t] /\ node'[t] = node[t] /\ pc[t] = "find"

\* No other thread, and no handle, changes what a walk can meet: they would
\* need the bucket's mutex.
LEMMA WalkFrame ==
    ASSUME Types, Types', Locks, Calls, Allocs, Ends, Shared, NEW u \in Threads, pc'[u] = "find"
    PROVE  /\ \A t \in Threads : t # u /\ ((\E k \in Keys : CallExist(t, k) \/ \E h \in Handles : CallGet(t, k, h)) \/ Run(t)) => WalkKept(u)
           /\ \A h \in Handles : Release(h) \/ MarkReady(h) => WalkKept(u)
<1> USE BufferAssumption DEF Goto, Taken, NodeFree, handles, locks, meta, HasBucket, HasNode,
    InBucket, InOther, InNode, InAlloc, Bucket
<1>1. ASSUME NEW t \in Threads, t # u, NEW k \in Keys, CallExist(t, k) PROVE WalkKept(u)
  BY <1>1 DEF Types, Locks, Calls, Allocs, WalkKept, CallExist
<1>2. ASSUME NEW t \in Threads, t # u, NEW k \in Keys, NEW h \in Handles, CallGet(t, k, h) PROVE WalkKept(u)
  BY <1>2 DEF Types, Locks, Calls, Allocs, WalkKept, CallGet
<1>3. ASSUME NEW t \in Threads, t # u, LockBucket(t) PROVE WalkKept(u)
  BY <1>3 DEF Types, Locks, Calls, Allocs, WalkKept, LockBucket
<1>4. ASSUME NEW t \in Threads, t # u, FindNext(t) PROVE WalkKept(u)
  BY <1>4 DEF Types, Locks, Calls, Allocs, WalkKept, FindNext
<1>5. ASSUME NEW t \in Threads, t # u, GetHit(t) PROVE WalkKept(u)
  BY <1>5 DEF Types, Locks, Calls, Allocs, WalkKept, GetHit
<1>6. ASSUME NEW t \in Threads, t # u, ExistHit(t) PROVE WalkKept(u)
  BY <1>6 DEF Types, Locks, Calls, Allocs, WalkKept, ExistHit
<1>7. ASSUME NEW t \in Threads, t # u, ChainEnd(t) PROVE WalkKept(u)
  BY <1>7 DEF Types, Locks, Calls, Allocs, WalkKept, ChainEnd
<1>8. ASSUME NEW t \in Threads, t # u, FetchNode(t) PROVE WalkKept(u)
  BY <1>8 DEF Types, Locks, Calls, Allocs, WalkKept, FetchNode
<1>9. ASSUME NEW t \in Threads, t # u, SkipHeld(t) PROVE WalkKept(u)
  BY <1>9 DEF Types, Locks, Calls, Allocs, WalkKept, SkipHeld
<1>10. ASSUME NEW t \in Threads, t # u, LockNode(t) PROVE WalkKept(u)
  BY <1>10 DEF Types, Locks, Calls, Allocs, WalkKept, LockNode
<1>11. ASSUME NEW t \in Threads, t # u, TryBucket(t) PROVE WalkKept(u)
  BY <1>11 DEF Types, Locks, Calls, Allocs, WalkKept, TryBucket
<1>12. ASSUME NEW t \in Threads, t # u, UnlinkPrev(t) PROVE WalkKept(u)
  BY <1>12 DEF Types, Locks, Calls, Allocs, WalkKept, UnlinkPrev, Ends
<1>13. ASSUME NEW t \in Threads, t # u, UnlinkNext(t) PROVE WalkKept(u)
  BY <1>13 DEF Types, Locks, Calls, Allocs, WalkKept, UnlinkNext
<1>14. ASSUME NEW t \in Threads, t # u, Link(t) PROVE WalkKept(u)
  BY <1>14 DEF Types, Locks, Calls, Allocs, WalkKept, Link
<1>15. ASSUME NEW t \in Threads, t # u, Commit(t) PROVE WalkKept(u)
  BY <1>15 DEF Types, Locks, Calls, Allocs, WalkKept, Commit, Return
<1>16. ASSUME NEW t \in Threads, t # u, UnlockBucket(t) PROVE WalkKept(u)
  BY <1>16 DEF Types, Locks, Calls, Allocs, WalkKept, UnlockBucket, Return
<1>17. ASSUME NEW h \in Handles, MarkReady(h) PROVE WalkKept(u)
  BY <1>17 DEF Types, Locks, Calls, Allocs, WalkKept, MarkReady
<1>18. ASSUME NEW h \in Handles, Release(h) PROVE WalkKept(u)
  BY <1>18 DEF Types, Locks, Calls, Allocs, WalkKept, Release
<1> QED
  BY <1>1, <1>2, <1>3, <1>4, <1>5, <1>6, <1>7, <1>8, <1>9, <1>10, <1>11, <1>12, <1>13, <1>14,
      <1>15, <1>16, <1>17, <1>18 DEF Run, Alloc

\* A walk goes on to a node of the same bucket and has met all it left behind.
LEMMA WalksStep ==
    ASSUME Types, Types', Locks, Calls, Allocs, Ends, Mutual, Walks, Shared, Next
    PROVE  Walks'
<1> SUFFICES ASSUME NEW u \in Threads, pc'[u] = "find"
             PROVE  /\ \E V \in SUBSET Nodes : Passed(u, V)'
                    /\ node'[u] # NoNode => hash'[node'[u]] = Bucket(u)'
  BY DEF Walks
<1>1. CASE WalkKept(u)
  <2>1. PICK V \in SUBSET Nodes : Passed(u, V)
    BY <1>1 DEF Walks, WalkKept
  <2>2. Bucket(u)' = Bucket(u)
    BY <1>1 DEF WalkKept, Bucket
  <2>3. Passed(u, V)'
    BY <1>1, <2>1, <2>2 DEF WalkKept, Passed
  <2>4. node'[u] # NoNode => hash'[node'[u]] = Bucket(u)'
    BY <1>1, <2>2 DEF WalkKept, Walks, Types
  <2> QED
    BY <2>3, <2>4
<1>2. CASE LockBucket(u)
  <2>1. Bucket(u) \in Buckets /\ Bucket(u)' = Bucket(u) /\ head' = head /\ hash' = hash /\ node'[u] = head[Bucket(u)]
    BY <1>2, BufferAssumption DEF LockBucket, Bucket, Calls, Types, meta
  <2>2. Passed(u, {})'
    BY <2>1 DEF Passed
  <2>3. node'[u] # NoNode => hash'[node'[u]] = Bucket(u)'
    BY <2>1 DEF Ends
  <2> QED
    BY <2>2, <2>3
<1>3. CASE FindNext(u)
  <2>1. PICK V \in SUBSET Nodes : Passed(u, V)
    BY <1>3 DEF Walks, FindNext
  <2>2. /\ Bucket(u) \in Buckets /\ Bucket(u)' = Bucket(u) /\ UNCHANGED <<head, hash, key, next, prev, want>>
        /\ node[u] \in Nodes /\ hash[node[u]] = Bucket(u) /\ node'[u] = next[node[u]]
        /\ key[node[u]] # want[u] /\ pc[u] = "find" /\ node[u] # NoNode
    BY <1>3, BufferAssumption DEF FindNext, Bucket, Calls, Types, meta, Walks
  <2>3. PICK W : W = V \cup {node[u]}
    OBVIOUS
  <2>6. Passed(u, W)'
    BY <2>1, <2>2, <2>3 DEF Passed
  <2>4. ~Cut(node[u])
    BY <2>2, NotCut DEF InBucket, InOther
  <2>5. node'[u] # NoNode => hash'[node'[u]] = Bucket(u)'
    BY <2>2, <2>4 DEF Mutual, Ends, Types
  <2> QED
    BY <2>2, <2>3, <2>5, <2>6
<1>4. CASE Run(u) /\ ~LockBucket(u) /\ ~FindNext(u)
  BY <1>4 DEF Run, Alloc, GetHit, ExistHit, ChainEnd, UnlockBucket, Return, FetchNode, SkipHeld, LockNode,
              TryBucket, UnlinkPrev, UnlinkNext, Link, Commit, Goto, Types
<1>5. ASSUME NEW k \in Keys, CallExist(u, k) \/ \E h \in Handles : CallGet(u, k, h) PROVE FALSE
  BY <1>5 DEF CallExist, CallGet, Goto, Types
<1> QED
  BY <1>1, <1>2, <1>3, <1>4, <1>5, WalkFrame DEF Next

-----------------------------------------------------------------------------
\* InitShmBuffer establishes the invariant.
LEMMA InitInv == Init => Inv
<1> SUFFICES ASSUME Init PROVE Inv
  OBVIOUS
<1> USE BufferAssumption DEF Init
<1>1. 0 \in Nodes /\ NoNode \notin Nodes
  BY DEF Nodes, NoNode
<1>2. Types
  BY <1>1 DEF Types, Labels
<1>3. \A t \in Threads : pc[t] = "idle"
  OBVIOUS
<1>4. Locks
  BY <1>3 DEF Locks, HasBucket, HasNode, InBucket, InOther, InNode
<1>5. Calls /\ Allocs
  BY <1>3 DEF Calls, Allocs, InAlloc, InNode
<1>6. Counts
  <2> SUFFICES ASSUME NEW n \in Nodes PROVE Cardinality({h \in Handles : at[h] = n}) = 0
    BY DEF Counts
  <2>1. {h \in Handles : at[h] = n} = {}
    BY <1>1
  <2> QED
    BY <2>1, FS_EmptySet
<1>7. KeysFit /\ Ends
  BY DEF KeysFit, InUse, Ends
<1>8. Mutual
  BY <1>1, <1>3 DEF Mutual
<1>9. Acyclic
  BY <1>1 DEF Acyclic
<1>10. Walks /\ Missed /\ Seen
  BY <1>3 DEF Walks, Missed, Seen, InAlloc, InNode
<1> QED
  BY <1>2, <1>4, <1>5, <1>6, <1>7, <1>8, <1>9, <1>10 DEF Inv

\* The invariant is about the state only.
LEMMA StutterInv ==
    ASSUME Inv, UNCHANGED vars
    PROVE  Inv'
<1> USE DEF vars, meta, locks, handles
<1>1. Types' /\ Calls' /\ Counts'
  BY DEF Inv, Types, Calls, Counts, InAlloc, InNode
<1>2. Locks' /\ Allocs'
  BY DEF Inv, Locks, Allocs, HasBucket, HasNode, InBucket, InOther, InNode, Bucket
<1>3. KeysFit' /\ Missed' /\ Seen'
  BY DEF Inv, KeysFit, Missed, Seen, InUse, Bucket, InAlloc, InNode
<1>4. Ends' /\ Acyclic'
  BY DEF Inv, Ends, Acyclic
<1>5. Mutual'
  BY MutualFrame DEF Inv
<1>6. Walks'
  BY DEF Inv, Walks, Passed, Bucket
<1> QED
  BY <1>1, <1>2, <1>3, <1>4, <1>5, <1>6 DEF Inv

\* Every step of every thread and handle keeps the invariant.
LEMMA NextInv ==
    ASSUME Shared, Inv, [Next]_vars
    PROVE  Inv'
<1>1. CASE Next
  <2>1. Types'
    BY <1>1, TypesStep DEF Inv
  <2>2. Locks' /\ Calls' /\ Allocs'
    BY <1>1, <2>1, LocksStep, CallsStep, AllocsStep DEF Inv
  <2>3. Counts' /\ KeysFit'
    BY <1>1, <2>1, CountsStep, KeysFitStep DEF Inv
  <2>4. Ends' /\ Mutual' /\ Acyclic'
    BY <1>1, <2>1, EndsStep, MutualStep, AcyclicStep DEF Inv
  <2>5. Walks' /\ Missed' /\ Seen'
    BY <1>1, <2>1, WalksStep, MissedStep, SeenStep DEF Inv
  <2> QED
    BY <2>1, <2>2, <2>3, <2>4, <2>5 DEF Inv
<1>2. CASE UNCHANGED vars
  BY <1>2, StutterInv
<1> QED
  BY <1>1, <1>2

\* The inductive invariant of the shared buffer.
LEMMA InvAlways ==
    ASSUME Shared
    PROVE  Spec => []Inv
<1>1. Init => Inv
  BY InitInv
<1>2. Inv /\ [Next]_vars => Inv'
  BY NextInv
<1> QED
  BY <1>1, <1>2, PTL DEF Spec

\* Every variable keeps its type; in particular no reference count falls
\* below zero or exceeds the number of handles, and the clock hand stays on a
\* node.
THEOREM TypeCorrect ==
    ASSUME Shared
    PROVE  Spec => []TypeOK
<1>1. Inv => TypeOK
  <2> SUFFICES ASSUME Inv PROVE TypeOK
    OBVIOUS
  <2>1. ASSUME NEW n \in Nodes PROVE ref[n] \in 0 .. Cardinality(Handles)
    <3>1. /\ IsFiniteSet(Handles)
          /\ {h \in Handles : at[h] = n} \in SUBSET Handles
      BY BufferAssumption
    <3>2. ref[n] = Cardinality({h \in Handles : at[h] = n})
      BY DEF Inv, Counts
    <3>3. Cardinality({h \in Handles : at[h] = n}) <= Cardinality(Handles)
      BY <3>1, FS_Subset
    <3>4. Cardinality(Handles) \in Nat /\ ref[n] \in Nat
      BY <3>1, FS_CardinalityType DEF Inv, Types
    <3> QED
      BY <3>2, <3>3, <3>4
  <2>2. ref \in [Nodes -> 0 .. Cardinality(Handles)]
    BY <2>1 DEF Inv, Types
  <2> QED
    BY <2>2 DEF Inv, Types, TypeOK
<1> QED
  BY <1>1, InvAlways, PTL

\* What a Get or an Exist sees of a node.
LEMMA VisibleInUse ==
    ASSUME Inv, NEW n \in Nodes
    PROVE  /\ InUse(n) => VisibleKey[n] = key[n] /\ VisibleKey[n] \in Keys
           /\ ~InUse(n) => VisibleKey[n] = NoKey
BY BufferAssumption DEF Inv, InUse, KeysFit, VisibleKey, Types

\* Exist's answer is true when it is given, although Allocs for other buckets
\* meanwhile take nodes out of its own (BucketTryLock in Alloc).
THEOREM ExistAccurate ==
    ASSUME Shared
    PROVE  Spec => []ExistIsAccurate
<1>1. Inv => ExistIsAccurate
  <2> SUFFICES ASSUME Inv, NEW t \in Threads, into[t] = NoHandle
               PROVE  /\ pc[t] = "found" => \E n \in Nodes : VisibleKey[n] = want[t]
                      /\ pc[t] = "absent" => \A n \in Nodes : VisibleKey[n] # want[t]
    BY DEF ExistIsAccurate
  <2>1. pc[t] # "idle" => want[t] \in Keys /\ Bucket(t) \in Buckets
    BY BufferAssumption DEF Inv, Calls, Bucket
  <2>2. ASSUME pc[t] = "found" PROVE \E n \in Nodes : VisibleKey[n] = want[t]
    <3>1. node[t] \in Nodes /\ hash[node[t]] = Bucket(t) /\ key[node[t]] = want[t]
      BY <2>2 DEF Inv, Seen
    <3>2. ASSUME NEW u \in Threads, pc[u] = "commit", node[u] = node[t] PROVE FALSE
      <4>1. Bucket(u) = Bucket(t)
        BY <3>1, <3>2 DEF Inv, Allocs
      <4>2. bucketLock[Bucket(t)] = u /\ bucketLock[Bucket(t)] = t
        BY <2>1, <2>2, <3>2, <4>1 DEF Inv, Locks, HasBucket, InBucket
      <4> QED
        BY <2>2, <3>2, <4>2
    <3>3. InUse(node[t])
      BY <2>1, <2>2, <3>1, <3>2 DEF InUse
    <3> QED
      BY <3>1, <3>3, VisibleInUse
  <2>3. ASSUME pc[t] = "absent", NEW n \in Nodes PROVE VisibleKey[n] # want[t]
    <3>1. InUse(n) => key[n] # want[t]
      BY <2>3 DEF Inv, Missed
    <3> QED
      BY <2>1, <2>3, <3>1, VisibleInUse, BufferAssumption
  <2> QED
    BY <2>2, <2>3
<1> QED
  BY <1>1, InvAlways, PTL

\* Alloc never gives a node to another key while a handle is on it.
THEOREM HeldKeyStable ==
    ASSUME Shared
    PROVE  Spec => HeldNodeKeepsKey
<1>1. ASSUME Inv, [Next]_vars
      PROVE  [\A h \in Handles : at[h] # NoNode /\ at'[h] = at[h] => key'[at[h]] = key[at[h]]]_vars
  <2> SUFFICES ASSUME Next, NEW h \in Handles, at[h] # NoNode PROVE key'[at[h]] = key[at[h]]
    BY <1>1
  <2>1. ASSUME NEW t \in Threads, Commit(t) PROVE key'[at[h]] = key[at[h]]
    <3>1. node[t] \in Nodes /\ ref[node[t]] = 0
      BY <2>1, <1>1 DEF Inv, Calls, Allocs, Commit, InAlloc, InNode
    <3>2. at[h] # node[t]
      BY <3>1, <1>1, AllocUnheld DEF Inv
    <3> QED
      BY <2>1, <3>1, <3>2, <1>1 DEF Commit, Inv, Types
  <2>2. (\A t \in Threads : ~Commit(t)) => UNCHANGED key
    BY DEF Next, Run, Alloc, CallExist, CallGet, LockBucket, FindNext, GetHit, ExistHit, ChainEnd,
        UnlockBucket,
           FetchNode, SkipHeld, LockNode, TryBucket, UnlinkPrev, UnlinkNext, Link, Release, MarkReady, meta
  <2> QED
    BY <2>1, <2>2
<1> QED
  BY <1>1, InvAlways, PTL DEF Spec, HeldNodeKeepsKey

-----------------------------------------------------------------------------
(* The refinement of BufferPool.                                           *)

\* BufferPool's ready, as PoolSpec maps it.
VisibleReady == [n \in Nodes |-> VisibleKey[n] # NoKey /\ ready[n]]

\* What a Get sees is the key of a node in use, before and after a step.
LEMMA VisibleIs ==
    ASSUME Types, Types'
    PROVE  /\ VisibleKey = [n \in Nodes |-> IF InUse(n) THEN key[n] ELSE NoKey]
           /\ VisibleKey' = [n \in Nodes |-> IF InUse(n)' THEN key'[n] ELSE NoKey]
<1>1. \A n \in Nodes : InUse(n) <=> ~(hash[n] = NoBucket \/ \E t \in Threads : pc[t] = "commit" /\ node[t] = n)
  BY BufferAssumption DEF InUse, Types
<1>2. \A n \in Nodes : InUse(n)' <=> ~(hash'[n] = NoBucket \/ \E t \in Threads : pc'[t] = "commit" /\ node'[t] = n)
  BY BufferAssumption DEF InUse, Types
<1> QED
  BY <1>1, <1>2 DEF VisibleKey

\* A step that changes neither a key, nor a handle, nor what is in use is a
\* stutter of the pool.
LEMMA VisibleFrame ==
    ASSUME Types, Types', UNCHANGED <<key, ready, ref, at, own>>, \A n \in Nodes : InUse(n)' <=> InUse(n)
    PROVE  UNCHANGED Pool!vars
<1>1. VisibleKey' = VisibleKey
  BY VisibleIs
<1> QED
  BY <1>1 DEF Pool!vars

\* What is in use changes only where a node is chained, unchained or committed.
LEMMA UseFrame ==
    ASSUME Types, Types', UNCHANGED hash,
           \A u \in Threads : pc'[u] = "commit" <=> pc[u] = "commit",
           \A u \in Threads : pc[u] = "commit" => node'[u] = node[u]
    PROVE  \A n \in Nodes : InUse(n)' <=> InUse(n)
BY DEF InUse

\* A node whose lock is free, or held by a thread that does not commit, is
\* in use if its hash names a bucket.
LEMMA Used ==
    ASSUME Inv, NEW n \in Nodes, hash[n] \in Buckets,
           \A u \in Threads : pc[u] = "commit" => nodeLock[n] # u
    PROVE  InUse(n) /\ VisibleKey[n] = key[n] /\ VisibleKey[n] \in Keys
<1>1. InUse(n)
  BY DEF Inv, InUse, Locks, HasNode, InNode
<1> QED
  BY <1>1, VisibleInUse

\* Taking a node out of use evicts its key.
LEMMA EvictStep ==
    ASSUME Types, Types', NEW n \in Nodes, VisibleKey[n] # NoKey, ref[n] = 0,
           UNCHANGED <<key, ref, ready, at, own>>,
           \A m \in Nodes : InUse(m)' <=> InUse(m) /\ m # n
    PROVE  Pool!Evict(n)
<1>1. VisibleKey' = [VisibleKey EXCEPT ![n] = NoKey]
  BY VisibleIs
<1>2. VisibleReady' = [VisibleReady EXCEPT ![n] = FALSE]
  BY <1>1 DEF VisibleReady, VisibleKey
<1> QED
  BY <1>1, <1>2 DEF Pool!Evict, VisibleReady

\* FindAt's hit is the pool's hit.
LEMMA GetHitStep ==
    ASSUME Inv, Types', NEW t \in Threads, GetHit(t)
    PROVE  Pool!Next
<1> USE BufferAssumption DEF GetHit, Goto, locks
<1>1. /\ node[t] \in Nodes /\ want[t] \in Keys /\ into[t] \in Handles /\ at[into[t]] = NoNode
      /\ hash[node[t]] = Bucket(t) /\ Bucket(t) \in Buckets
  BY DEF Inv, Types, Calls, Walks, Bucket
<1>2. \A u \in Threads : pc[u] = "commit" => nodeLock[node[t]] # u
  BY DEF NodeFree
<1>3. VisibleKey[node[t]] = want[t]
  BY <1>1, <1>2, Used
<1>4. VisibleKey' = VisibleKey
  <2>1. \A n \in Nodes : InUse(n)' <=> InUse(n)
    BY UseFrame DEF Inv, Types
  <2> QED
    BY <2>1, VisibleIs DEF Inv
<1>5. Pool!GetHit(into[t], want[t])
  BY <1>1, <1>3, <1>4 DEF Pool!GetHit
<1> QED
  BY <1>1, <1>5 DEF Pool!Next

\* Alloc that locks a node of its own bucket evicts its key; a node of no
\* bucket or of another changes nothing yet.
LEMMA LockNodeStep ==
    ASSUME Inv, Types', NEW t \in Threads, LockNode(t)
    PROVE  [Pool!Next]_(Pool!vars)
<1>0. PICK n : n = node[t]
  OBVIOUS
<1>1. /\ pc[t] = "lockNode" /\ NodeFree(node[t]) /\ ref[node[t]] = 0
      /\ UNCHANGED <<meta, handles, node>>
  BY Zenon DEF LockNode
<1>2. PICK label : /\ pc' = [pc EXCEPT ![t] = label]
                   /\ hash[node[t]] = Bucket(t) => label = "commit"
                   /\ hash[node[t]] # Bucket(t) => label # "commit"
  <2> DEFINE l == CASE hash[node[t]] = Bucket(t) -> "commit"
                    [] hash[node[t]] = NoBucket -> "link"
                    [] OTHER -> "tryBucket"
  <2>1. pc' = [pc EXCEPT ![t] = l]
    BY Zenon DEF LockNode, Goto
  <2>2. hash[node[t]] = Bucket(t) => l = "commit"
    <3>1. Bucket(t) # NoBucket
      BY <1>1, BufferAssumption DEF Inv, Types, Calls, Bucket
    <3> QED
      BY <3>1, Zenon
  <2>3. hash[node[t]] # Bucket(t) => l = "link" \/ l = "tryBucket"
    BY Zenon
  <2> HIDE DEF l
  <2> QED
    BY <2>1, <2>2, <2>3
<1> USE DEF meta, handles
<1>3. node[t] \in Nodes /\ Bucket(t) \in Buckets /\ pc \in [Threads -> Labels]
  BY <1>1, BufferAssumption DEF Inv, Types, Calls, Bucket, InAlloc
<1>4. CASE hash[node[t]] = Bucket(t)
  <2>1. \A u \in Threads : pc[u] = "commit" => nodeLock[node[t]] # u
    BY <1>1, BufferAssumption DEF NodeFree
  <2>2. VisibleKey[node[t]] # NoKey
    BY <1>3, <1>4, <2>1, Used, BufferAssumption
  <2>3. \A m \in Nodes : InUse(m)' <=> InUse(m) /\ m # n
    BY <1>0, <1>1, <1>2, <1>3, <1>4 DEF InUse
  <2>4. Pool!Evict(n)
    BY <1>0, <1>1, <1>3, <2>2, <2>3, EvictStep DEF Inv
  <2> QED
    BY <1>0, <1>3, <2>4 DEF Pool!Next
<1>5. CASE hash[node[t]] # Bucket(t)
  <2>1. \A m \in Nodes : InUse(m)' <=> InUse(m)
    BY <1>1, <1>2, <1>3, <1>5, UseFrame DEF Inv
  <2> QED
    BY <1>1, <2>1, VisibleFrame DEF Inv
<1> QED
  BY <1>4, <1>5

\* Remove evicts the key of the node it takes out.
LEMMA UnlinkNextStep ==
    ASSUME Inv, Types', NEW t \in Threads, UnlinkNext(t)
    PROVE  Pool!Next
<1>0. PICK n : n = node[t]
  OBVIOUS
<1>1. /\ node[t] \in Nodes /\ hash[node[t]] \in Buckets /\ ref[node[t]] = 0
      /\ pc[t] = "unlinkNext" /\ pc' = [pc EXCEPT ![t] = "link"] /\ hash' = [hash EXCEPT ![node[t]] = NoBucket]
      /\ UNCHANGED <<key, ref, ready, at, own, node>>
      /\ pc \in [Threads -> Labels] /\ hash \in [Nodes -> Buckets \cup {NoBucket}]
  BY DEF Inv, Types, Calls, Allocs, UnlinkNext, Goto, handles, InAlloc, InNode
<1>2. \A u \in Threads : pc[u] = "commit" => nodeLock[node[t]] # u
  BY <1>1 DEF Inv, Locks, HasNode, InNode
<1>3. VisibleKey[node[t]] # NoKey
  BY <1>1, <1>2, Used, BufferAssumption
<1>4. \A m \in Nodes : InUse(m)' <=> InUse(m) /\ m # n
  BY <1>0, <1>1, BufferAssumption DEF InUse
<1>5. Pool!Evict(n)
  BY <1>0, <1>1, <1>3, <1>4, EvictStep DEF Inv
<1> QED
  BY <1>0, <1>1, <1>5 DEF Pool!Next

\* The end of Alloc is the pool's miss: the key is resident nowhere and the
\* node is free.
LEMMA CommitStep ==
    ASSUME Inv, Types', NEW t \in Threads, Commit(t)
    PROVE  Pool!Next
<1> USE BufferAssumption DEF Commit, Return, Goto
<1>1. PICK n, k, h : n = node[t] /\ k = want[t] /\ h = into[t]
  OBVIOUS
<1>2. /\ n \in Nodes /\ k \in Keys /\ h \in Handles /\ at[h] = NoNode /\ ref[n] = 0
      /\ hash[n] = Bucket(t) /\ Bucket(t) \in Buckets /\ k # NoKey
      /\ pc \in [Threads -> Labels] /\ node \in [Threads -> Nodes \cup {NoNode}]
  BY <1>1 DEF Inv, Types, Calls, Allocs, InAlloc, InNode, Bucket
<1>3. /\ pc[t] = "commit" /\ ref' = [ref EXCEPT ![n] = 1] /\ key' = [key EXCEPT ![n] = k]
      /\ ready' = [ready EXCEPT ![n] = FALSE] /\ at' = [at EXCEPT ![h] = n] /\ own' = [own EXCEPT ![h] = TRUE]
      /\ hash' = hash /\ pc' = [pc EXCEPT ![t] = "idle"] /\ node' = [node EXCEPT ![t] = NoNode]
  BY <1>1, <1>2 DEF Inv, Types
<1>4. \A u \in Threads : pc[u] = "commit" /\ node[u] = n => u = t
  BY <1>1, <1>2 DEF Inv, Locks, HasNode, InNode
<1>5. ~InUse(n) /\ \A m \in Nodes : InUse(m)' <=> InUse(m) \/ m = n
  BY <1>1, <1>2, <1>3, <1>4 DEF InUse
<1>6. VisibleKey[n] = NoKey /\ ~Pool!Resident(k)
  <2>1. VisibleKey[n] = NoKey
    BY <1>2, <1>5, VisibleInUse
  <2>2. \A m \in Nodes : InUse(m) => key[m] # k
    BY <1>1, <1>3 DEF Inv, Missed, InAlloc, InNode
  <2>3. \A m \in Nodes : VisibleKey[m] # k
    BY <1>2, <2>2, VisibleInUse
  <2> QED
    BY <2>1, <2>3 DEF Pool!Resident
<1>7. VisibleKey' = [VisibleKey EXCEPT ![n] = k]
  BY <1>2, <1>3, <1>5, VisibleIs DEF Inv, Types
<1>8. VisibleReady' = [VisibleReady EXCEPT ![n] = FALSE]
  BY <1>2, <1>3, <1>7 DEF VisibleReady, VisibleKey, Inv, Types
<1>9. Pool!GetMiss(h, k)
  BY <1>2, <1>3, <1>6, <1>7, <1>8 DEF Pool!GetMiss, VisibleReady
<1> QED
  BY <1>2, <1>9 DEF Pool!Next

\* ~Handle is the pool's release.
LEMMA ReleaseStep ==
    ASSUME Inv, Types', NEW h \in Handles, Release(h)
    PROVE  Pool!Next
<1>1. \A n \in Nodes : InUse(n)' <=> InUse(n)
  BY UseFrame DEF Inv, Release
<1>2. VisibleKey' = VisibleKey
  BY <1>1, VisibleIs DEF Inv, Release
<1>3. Pool!Release(h)
  BY <1>2 DEF Pool!Release, Release
<1> QED
  BY <1>3 DEF Pool!Next

\* Handle::MarkReady is the pool's: a handle's node is in use.
LEMMA MarkReadyStep ==
    ASSUME Inv, Types', NEW h \in Handles, MarkReady(h)
    PROVE  Pool!Next
<1> USE BufferAssumption DEF MarkReady, handles
<1>1. \A n \in Nodes : InUse(n)' <=> InUse(n)
  BY UseFrame DEF Inv
<1>2. VisibleKey' = VisibleKey
  BY <1>1, VisibleIs DEF Inv
<1>3. at[h] \in Nodes /\ VisibleKey[at[h]] # NoKey
  <2>1. at[h] \in Nodes /\ hash[at[h]] \in Buckets
    BY DEF Inv, Types, KeysFit
  <2>2. \A u \in Threads : pc[u] = "commit" => nodeLock[at[h]] # u
    BY <2>1 DEF NodeFree
  <2> QED
    BY <2>1, <2>2, Used
<1>4. VisibleReady' = [VisibleReady EXCEPT ![at[h]] = TRUE]
  BY <1>2, <1>3 DEF VisibleReady, Inv, Types
<1>5. Pool!MarkReady(h)
  BY <1>2, <1>4 DEF Pool!MarkReady, VisibleReady
<1> QED
  BY <1>5 DEF Pool!Next

\* All other steps are stutters of the pool.
LEMMA QuietStep ==
    ASSUME Inv, Types', NEW t \in Threads,
           \/ \E k \in Keys : CallExist(t, k) \/ \E h \in Handles : CallGet(t, k, h)
           \/ LockBucket(t) \/ FindNext(t) \/ ExistHit(t) \/ ChainEnd(t) \/ UnlockBucket(t)
           \/ FetchNode(t) \/ SkipHeld(t) \/ TryBucket(t) \/ UnlinkPrev(t) \/ Link(t)
    PROVE  UNCHANGED Pool!vars
<1> USE DEF Goto, meta, handles, locks, Return
<1>1. UNCHANGED <<key, ready, ref, at, own>>
  BY DEF CallExist, CallGet, LockBucket, FindNext, ExistHit, ChainEnd, UnlockBucket,
         FetchNode, SkipHeld, TryBucket, UnlinkPrev, Link
<1>2. \A n \in Nodes : InUse(n)' <=> InUse(n)
  <2>1. CASE Link(t)
    <3>1. /\ pc[t] = "link" /\ hash' = [hash EXCEPT ![node[t]] = Bucket(t)] /\ node' = node
          /\ pc' = [pc EXCEPT ![t] = "commit"] /\ node[t] \in Nodes /\ hash[node[t]] = NoBucket
          /\ pc \in [Threads -> Labels] /\ hash \in [Nodes -> Buckets \cup {NoBucket}]
      BY <2>1 DEF Link, Inv, Types, Calls, Allocs, InAlloc, InNode
    <3> QED
      BY <3>1, BufferAssumption DEF InUse
  <2>2. CASE ~Link(t)
    <3>1. /\ UNCHANGED hash
          /\ pc \in [Threads -> Labels] /\ node \in [Threads -> Nodes \cup {NoNode}]
          /\ pc[t] # "commit" /\ pc'[t] # "commit"
          /\ \A u \in Threads : u # t => pc'[u] = pc[u] /\ node'[u] = node[u]
      BY <2>2 DEF CallExist, CallGet, LockBucket, FindNext, ExistHit, ChainEnd, UnlockBucket,
         FetchNode, SkipHeld, TryBucket, UnlinkPrev, Inv, Types
    <3> QED
      BY <3>1, UseFrame DEF Inv
  <2> QED
    BY <2>1, <2>2
<1> QED
  BY <1>1, <1>2, VisibleFrame DEF Inv

\* Every step of the buffer is a step of the pool or a stutter.
LEMMA PoolStep ==
    ASSUME Inv, Inv', [Next]_vars
    PROVE  [Pool!Next]_(Pool!vars)
<1>1. Types'
  BY DEF Inv
<1>2. CASE UNCHANGED vars
  BY <1>2 DEF vars, meta, locks, handles, VisibleKey, Pool!vars
<1>3. ASSUME NEW t \in Threads, NEW k \in Keys, CallExist(t, k) \/ \E h \in Handles : CallGet(t, k, h)
      PROVE  [Pool!Next]_(Pool!vars)
  BY <1>1, <1>3, QuietStep
<1>4. ASSUME NEW t \in Threads, Run(t)
      PROVE  [Pool!Next]_(Pool!vars)
  BY <1>1, <1>4, QuietStep, GetHitStep, LockNodeStep, UnlinkNextStep, CommitStep DEF Run, Alloc
<1>5. ASSUME NEW h \in Handles, Release(h) \/ MarkReady(h)
      PROVE  [Pool!Next]_(Pool!vars)
  BY <1>1, <1>5, ReleaseStep, MarkReadyStep
<1> QED
  BY <1>2, <1>3, <1>4, <1>5 DEF Next

\* The lock by lock algorithm implements BufferPool.
THEOREM PoolRefined ==
    ASSUME Shared
    PROVE  Spec => PoolSpec
<1>1. Init => Pool!Init
  BY DEF Init, Pool!Init, VisibleKey
<1>2. Inv /\ Inv' /\ [Next]_vars => [Pool!Next]_(Pool!vars)
  BY PoolStep
<1>3. Spec => []Inv
  BY InvAlways
<1> QED
  BY <1>1, <1>2, <1>3, PTL DEF Spec, PoolSpec, Pool!Spec

\* No key is ever resident in two nodes, although FindAt and Alloc are two
\* critical sections of node locks: the bucket's mutex spans both.
THEOREM KeyIsOnce ==
    ASSUME Shared
    PROVE  Spec => []Pool!OneNodePerKey
<1>1. Init => Pool!OneNodePerKey
  BY DEF Init, Pool!OneNodePerKey, VisibleKey
<1>2. ASSUME Inv, Inv', Pool!OneNodePerKey, [Next]_vars
      PROVE  Pool!OneNodePerKey'
  <2>1. [Pool!Next]_(Pool!vars)
    BY <1>2, PoolStep
  <2>2. VisibleKey \in [Nodes -> Keys \cup {NoKey}]
    BY <1>2 DEF Inv, Types, VisibleKey
  <2>3. ASSUME NEW h \in Handles, NEW k \in Keys, Pool!GetMiss(h, k) PROVE Pool!OneNodePerKey'
    <3>1. PICK n \in Nodes : VisibleKey' = [VisibleKey EXCEPT ![n] = k]
      BY <2>3 DEF Pool!GetMiss
    <3>2. \A m \in Nodes : VisibleKey[m] # k
      BY <2>3 DEF Pool!GetMiss, Pool!Resident
    <3> QED
      BY <1>2, <2>2, <3>1, <3>2 DEF Pool!OneNodePerKey
  <2>4. ASSUME NEW n \in Nodes, Pool!Evict(n) PROVE Pool!OneNodePerKey'
    <3>1. VisibleKey' = [VisibleKey EXCEPT ![n] = NoKey]
      BY <2>4 DEF Pool!Evict
    <3> QED
      BY <1>2, <2>2, <3>1 DEF Pool!OneNodePerKey
  <2>5. CASE UNCHANGED VisibleKey
    BY <1>2, <2>5 DEF Pool!OneNodePerKey
  <2> QED
    BY <2>1, <2>3, <2>4, <2>5 DEF Pool!Next, Pool!vars, Pool!GetHit, Pool!Release, Pool!MarkReady
<1>3. Spec => []Inv
  BY InvAlways
<1> QED
  BY <1>1, <1>2, <1>3, PTL DEF Spec

-----------------------------------------------------------------------------
(* Walks of a chain.                                                       *)

\* A nonempty set of natural numbers has a least element.
LEMMA NatLeast ==
    ASSUME NEW T \in SUBSET Nat, T # {}
    PROVE  \E x \in T : \A y \in T : x <= y
<1>1. \A R, S, U : IsWellFoundedOn(R, S) /\ U \subseteq S /\ U # {} => \E x \in U : \A y \in U : ~ (<<y, x>> \in R)
  BY WFMin, Zenon
<1>2. \E x \in T : \A y \in T : ~ (<<y, x>> \in OpToRel(<, Nat))
  <2>1. T \subseteq Nat
    OBVIOUS
  <2> QED
    BY <1>1, <2>1, NatLessThanWellFounded, Zenon
<1>3. PICK x \in T : \A y \in T : ~ (<<y, x>> \in OpToRel(<, Nat))
  BY <1>2, Zenon
<1>4. \A y \in T : ~ (y < x)
  <2>1. \A z, y \in Nat : y < z => <<y, z>> \in OpToRel(<, Nat)
    BY DEF OpToRel
  <2>2. \A y \in T : y \in Nat
    OBVIOUS
  <2> QED
    BY <1>3, <2>1, <2>2, Zenon
<1> QED
  BY <1>4

\* g is a walk of bucket b's chain of k steps.
IsWalk(b, g, k) ==
    /\ g \in [0 .. k -> Nodes \cup {NoNode}]
    /\ g[0] = head[b]
    /\ \A i \in 1 .. k : g[i] = IF g[i - 1] = NoNode THEN NoNode ELSE next[g[i - 1]]

\* There is a walk of every length.
LEMMA WalkExists ==
    ASSUME Types, NEW b \in Buckets, NEW k \in Nat
    PROVE  \E g : IsWalk(b, g, k)
<1> DEFINE T == {i \in Nat : ~\E g : IsWalk(b, g, i)}
<1>1. ASSUME T # {} PROVE FALSE
  <2>1. PICK x \in T : \A y \in T : x <= y
    BY <1>1, NatLeast
  <2>2. CASE x = 0
    <3>1. IsWalk(b, [i \in 0 .. 0 |-> head[b]], 0)
      BY DEF IsWalk, Types
    <3> QED
      BY <2>2, <3>1
  <2>3. CASE x # 0
    <3>1. x - 1 \in Nat /\ x - 1 \notin T
      BY <2>1, <2>3
    <3>2. PICK g : IsWalk(b, g, x - 1)
      BY <3>1
    <3> DEFINE h == [i \in 0 .. x |-> IF i < x THEN g[i]
                                      ELSE IF g[x - 1] = NoNode THEN NoNode ELSE next[g[x - 1]]]
    <3>3. \A i \in 0 .. x - 1 : h[i] = g[i]
      OBVIOUS
    <3>4. h[x] = IF g[x - 1] = NoNode THEN NoNode ELSE next[g[x - 1]]
      BY <3>1
    <3>5. g[x - 1] \in Nodes \cup {NoNode} /\ \A i \in 0 .. x - 1 : g[i] \in Nodes \cup {NoNode}
      BY <3>1, <3>2 DEF IsWalk
    <3>6. h \in [0 .. x -> Nodes \cup {NoNode}]
      BY <3>1, <3>5 DEF Types
    <3> HIDE DEF h
    <3>7. h[0] = head[b]
      BY <3>1, <3>2, <3>3 DEF IsWalk
    <3>8. ASSUME NEW i \in 1 .. x PROVE h[i] = IF h[i - 1] = NoNode THEN NoNode ELSE next[h[i - 1]]
      <4>1. h[i - 1] = g[i - 1]
        BY <3>3
      <4>2. CASE i = x
        BY <3>4, <4>1, <4>2
      <4>3. CASE i # x
        <5>1. i \in 1 .. x - 1 /\ h[i] = g[i]
          BY <3>3, <4>3
        <5> QED
          BY <3>2, <4>1, <5>1 DEF IsWalk
      <4> QED
        BY <4>2, <4>3
    <3>9. IsWalk(b, h, x)
      BY <3>6, <3>7, <3>8 DEF IsWalk
    <3> QED
      BY <2>1, <3>9
  <2> QED
    BY <2>2, <2>3
<1> QED
  BY <1>1

\* The walk of ChainsAreWhole is one.
LEMMA ChainWalk ==
    ASSUME Types, NEW b \in Buckets
    PROVE  \E g : IsWalk(b, g, NNode) /\ Chain(b) = {g[i] : i \in 0 .. NNode} \ {NoNode}
<1> DEFINE F(g) == [i \in 0 .. NNode |-> IF i = 0 THEN head[b]
                                         ELSE IF g[i - 1] = NoNode THEN NoNode ELSE next[g[i - 1]]]
           walk == CHOOSE g : g = F(g)
<1>1. NNode \in Nat /\ 0 \in 0 .. NNode
  BY BufferAssumption
<1>2. PICK g : IsWalk(b, g, NNode)
  BY <1>1, WalkExists
<1>3. g = F(g)
  <2>1. \A i \in 0 .. NNode : g[i] = F(g)[i]
    BY <1>1, <1>2 DEF IsWalk
  <2> QED
    BY <1>2, <2>1 DEF IsWalk
<1>4. walk = F(walk)
  <2> HIDE DEF F
  <2> QED
    BY <1>3
<1>5. Chain(b) = {walk[i] : i \in 0 .. NNode} \ {NoNode}
  BY DEF Chain
<1> HIDE DEF walk
<1>6. \A i \in 0 .. NNode : walk[i] = IF i = 0 THEN head[b] ELSE IF walk[i - 1] = NoNode THEN NoNode ELSE next[walk[i - 1]]
  BY <1>4
<1>7. ASSUME NEW i \in 0 .. NNode PROVE walk[i] = g[i]
  <2> DEFINE T == {j \in 0 .. NNode : walk[j] # g[j]}
  <2>1. T \in SUBSET Nat
    BY <1>1
  <2>2. ASSUME T # {} PROVE FALSE
    <3>1. PICK x \in T : \A y \in T : x <= y
      BY <2>1, <2>2, NatLeast
    <3>2. x \in 0 .. NNode /\ x - 1 \notin T
      BY <3>1
    <3>3. CASE x = 0
      BY <1>1, <1>2, <1>6, <3>1, <3>3 DEF IsWalk
    <3>4. CASE x # 0
      <4>1. x \in 1 .. NNode /\ x - 1 \in 0 .. NNode /\ walk[x - 1] = g[x - 1]
        BY <1>1, <3>2, <3>4
      <4> QED
        BY <1>2, <1>6, <3>1, <3>4, <4>1 DEF IsWalk
    <3> QED
      BY <3>3, <3>4
  <2> QED
    BY <2>2
<1>8. {walk[i] : i \in 0 .. NNode} = {g[i] : i \in 0 .. NNode}
  BY <1>7
<1> QED
  BY <1>2, <1>5, <1>8

\* A walk meets only nodes of its bucket, and does not turn back.
LEMMA WalkStays ==
    ASSUME Types, Ends, Mutual, NEW b \in Buckets, \A n \in Nodes : hash[n] = b => ~Cut(n),
           NEW k \in Nat, NEW g, IsWalk(b, g, k)
    PROVE  /\ \A i \in 0 .. k : g[i] # NoNode => g[i] \in Nodes /\ hash[g[i]] = b
           /\ \A i \in 1 .. k : g[i] # NoNode => g[i - 1] # NoNode /\ prev[g[i]] = g[i - 1]
<1>1. NoNode \notin Nodes
  BY DEF NoNode, Nodes
<1>2. /\ \A i \in 0 .. k : g[i] \in Nodes \cup {NoNode}
      /\ g[0] = head[b]
      /\ \A i \in 1 .. k : g[i] = IF g[i - 1] = NoNode THEN NoNode ELSE next[g[i - 1]]
  BY DEF IsWalk
<1>3. ASSUME NEW i \in 1 .. k, g[i] # NoNode, g[i - 1] # NoNode => hash[g[i - 1]] = b
      PROVE  g[i - 1] # NoNode /\ prev[g[i]] = g[i - 1] /\ hash[g[i]] = b
  <2>1. i - 1 \in 0 .. k /\ i \in 0 .. k
    OBVIOUS
  <2>2. g[i - 1] \in Nodes /\ g[i] = next[g[i - 1]] /\ g[i] \in Nodes
    BY <1>2, <1>3, <2>1
  <2>3. prev[g[i]] = g[i - 1]
    BY <1>1, <1>3, <2>2 DEF Mutual
  <2> QED
    BY <1>1, <1>3, <2>2, <2>3 DEF Ends
<1>4. \A i \in 0 .. k : g[i] # NoNode => hash[g[i]] = b
  <2> DEFINE T == {i \in 0 .. k : g[i] # NoNode /\ hash[g[i]] # b}
  <2>1. ASSUME T # {} PROVE FALSE
    <3>1. T \in SUBSET Nat
      OBVIOUS
    <3>2. PICK x \in T : \A y \in T : x <= y
      BY <2>1, <3>1, NatLeast
    <3>3. x \in 0 .. k /\ g[x] # NoNode /\ hash[g[x]] # b /\ x - 1 \notin T
      BY <3>2
    <3>4. CASE x = 0
      BY <1>2, <3>3, <3>4 DEF Ends
    <3>5. CASE x # 0
      BY <1>3, <3>3, <3>5
    <3> QED
      BY <3>4, <3>5
  <2> QED
    BY <2>1
<1> QED
  <2>1. \A i \in 1 .. k : i - 1 \in 0 .. k /\ i \in 0 .. k
    OBVIOUS
  <2> QED
    BY <1>2, <1>3, <1>4, <2>1

\* A walk that is not over has met no node twice.
LEMMA WalkIsNew ==
    ASSUME Types, Ends, Mutual, Acyclic, NEW b \in Buckets, \A n \in Nodes : hash[n] = b => ~Cut(n),
           NEW k \in Nat, NEW g, IsWalk(b, g, k),
           NEW i \in 0 .. k, NEW j \in 0 .. k, i < j, g[j] # NoNode
    PROVE  g[i] # g[j]
<1> SUFFICES ASSUME g[i] = g[j] PROVE FALSE
  OBVIOUS
<1>1. \A m \in 1 .. k : g[m] # NoNode => g[m - 1] # NoNode /\ prev[g[m]] = g[m - 1]
  BY WalkStays
<1>2. ASSUME NEW m \in i .. j, g[m] = NoNode PROVE FALSE
  <2> DEFINE T == {x \in Nat : j - x \in i .. j /\ g[j - x] = NoNode}
  <2>1. j - m \in T
    BY <1>2
  <2>2. PICK x \in T : \A y \in T : x <= y
    BY <2>1, NatLeast
  <2>3. x # 0 /\ x - 1 \notin T /\ j - x \in i .. j /\ g[j - x] = NoNode
    BY <2>2
  <2>4. x - 1 \in Nat /\ j - (x - 1) \in i .. j /\ j - (x - 1) \in 1 .. k /\ (j - (x - 1)) - 1 = j - x
    BY <2>3
  <2>5. g[j - (x - 1)] # NoNode
    BY <2>3, <2>4
  <2> QED
    BY <1>1, <2>3, <2>4, <2>5
<1> DEFINE S == {g[m] : m \in (i + 1) .. j}
<1>3. S \in SUBSET Nodes /\ S # {}
  <2>1. \A m \in (i + 1) .. j : m \in 0 .. k /\ m \in i .. j
    OBVIOUS
  <2>2. j \in (i + 1) .. j
    OBVIOUS
  <2>3. \A m \in 0 .. k : g[m] \in Nodes \cup {NoNode}
    BY DEF IsWalk
  <2> QED
    BY <1>2, <2>1, <2>2, <2>3
<1>4. ASSUME NEW m \in (i + 1) .. j PROVE prev[g[m]] \in S
  <2>1. prev[g[m]] = g[m - 1]
    BY <1>1, <1>2
  <2>2. CASE m = i + 1
    <3>1. g[m - 1] = g[j] /\ j \in (i + 1) .. j
      BY <2>2
    <3> QED
      BY <2>1, <3>1
  <2>3. CASE m # i + 1
    <3>1. m - 1 \in (i + 1) .. j
      BY <2>3
    <3> QED
      BY <2>1, <3>1
  <2> QED
    BY <2>2, <2>3
<1> QED
  BY <1>3, <1>4 DEF Acyclic

\* There are more steps than nodes: the walk is over.
LEMMA WalkEnds ==
    ASSUME Types, Ends, Mutual, Acyclic, NEW b \in Buckets, \A n \in Nodes : hash[n] = b => ~Cut(n),
           NEW g, IsWalk(b, g, NNode)
    PROVE  g[NNode] = NoNode
<1> SUFFICES ASSUME g[NNode] # NoNode PROVE FALSE
  OBVIOUS
<1>1. NNode \in Nat /\ NNode > 0
  BY BufferAssumption
<1>2. /\ IsFiniteSet(0 .. NNode) /\ Cardinality(0 .. NNode) = NNode + 1
      /\ IsFiniteSet(Nodes) /\ Cardinality(Nodes) = NNode
  BY <1>1, FS_Interval DEF Nodes
<1>3. \A i \in 1 .. NNode : g[i] # NoNode => g[i - 1] # NoNode
  BY <1>1, WalkStays
<1>4. ASSUME NEW m \in 0 .. NNode, g[m] = NoNode PROVE FALSE
  <2> DEFINE T == {x \in Nat : NNode - x \in 0 .. NNode /\ g[NNode - x] = NoNode}
  <2>1. NNode - m \in T
    BY <1>1, <1>4
  <2>2. PICK x \in T : \A y \in T : x <= y
    BY <2>1, NatLeast
  <2>3. x # 0 /\ x - 1 \notin T /\ NNode - x \in 0 .. NNode /\ g[NNode - x] = NoNode
    BY <1>1, <2>2
  <2>4. x - 1 \in Nat /\ NNode - (x - 1) \in 1 .. NNode /\ (NNode - (x - 1)) - 1 = NNode - x
    BY <1>1, <2>3
  <2> QED
    BY <1>1, <1>3, <2>3, <2>4
<1>5. g \in [0 .. NNode -> Nodes]
  BY <1>4 DEF IsWalk
<1>6. \E x, y \in 0 .. NNode : x # y /\ g[x] = g[y]
  BY <1>1, <1>2, <1>5, FS_PigeonHole
<1>7. PICK x, y \in 0 .. NNode : x # y /\ g[x] = g[y]
  BY <1>6
<1>8. x < y \/ y < x
  BY <1>1, <1>7
<1> QED
  BY <1>1, <1>4, <1>7, <1>8, WalkIsNew

\* Whenever a bucket's chain is not being changed, a walk of it meets exactly
\* the nodes whose hash says so, and prev inverts next.
THEOREM ChainsWhole ==
    ASSUME Shared
    PROVE  Spec => []ChainsAreWhole
<1>1. Inv => ChainsAreWhole
  <2> SUFFICES ASSUME Inv, NEW b \in Buckets, \A t \in Threads : pc[t] = "unlinkNext" => hash[node[t]] # b
               PROVE  /\ Chain(b) = {n \in Nodes : hash[n] = b}
                      /\ \A n \in Chain(b) :
                            prev[n] = IF n = head[b] THEN NoNode
                                      ELSE CHOOSE m \in Chain(b) : next[m] = n
    BY DEF ChainsAreWhole
  <2>1. NoNode \notin Nodes /\ NNode \in Nat /\ NNode > 0 /\ NoBucket \notin Buckets
    BY BufferAssumption DEF NoNode, Nodes
  <2>2. Types /\ Ends /\ Mutual /\ Acyclic
    BY DEF Inv
  <2>3. \A n \in Nodes : hash[n] = b => ~Cut(n)
    <3> SUFFICES ASSUME NEW t \in Threads, pc[t] = "unlinkNext", prev[node[t]] \in Nodes, hash[prev[node[t]]] = b
                 PROVE  FALSE
      BY DEF Cut
    <3>1. node[t] \in Nodes
      BY DEF Inv, Calls, InAlloc, InNode
    <3> QED
      BY <2>1, <3>1 DEF Inv, Ends
  <2>4. PICK g : IsWalk(b, g, NNode) /\ Chain(b) = {g[i] : i \in 0 .. NNode} \ {NoNode}
    BY <2>2, ChainWalk
  <2>5. Chain(b) \in SUBSET Nodes /\ \A n \in Chain(b) : hash[n] = b
    BY <2>1, <2>2, <2>3, <2>4, WalkStays
  <2>6. head[b] \in Chain(b) \cup {NoNode}
    BY <2>1, <2>4 DEF IsWalk
  <2>7. ASSUME NEW n \in Chain(b) PROVE next[n] \in Chain(b) \cup {NoNode}
    <3>1. PICK i \in 0 .. NNode : n = g[i] /\ g[i] # NoNode
      BY <2>4
    <3>2. i # NNode
      BY <2>2, <2>3, <2>4, <3>1, WalkEnds
    <3>3. i + 1 \in 1 .. NNode /\ i + 1 \in 0 .. NNode /\ (i + 1) - 1 = i
      BY <2>1, <3>2
    <3>4. g[i + 1] = next[n]
      BY <2>4, <3>1, <3>3 DEF IsWalk
    <3> QED
      BY <2>4, <3>3, <3>4
  <2>8. \A n \in Nodes : hash[n] = b => n \in Chain(b)
    BY <2>2, <2>3, <2>5, <2>6, <2>7, ClosedIsWhole
  <2>9. ASSUME NEW n \in Chain(b)
        PROVE  prev[n] = IF n = head[b] THEN NoNode ELSE CHOOSE m \in Chain(b) : next[m] = n
    <3>1. CASE n = head[b]
      BY <2>1, <2>5, <3>1 DEF Inv, Ends
    <3>2. CASE n # head[b]
      <4>1. n \in Nodes /\ hash[n] = b
        BY <2>5
      <4>2. prev[n] \in Nodes /\ hash[prev[n]] = b
        BY <2>1, <2>2, <3>2, <4>1 DEF Ends, Types
      <4>3. prev[n] \in Chain(b) /\ next[prev[n]] = n
        BY <2>2, <2>3, <2>8, <4>1, <4>2 DEF Mutual
      <4>4. \A m \in Chain(b) : next[m] = n => m = prev[n]
        BY <2>2, <2>3, <2>5, <4>1 DEF Mutual
      <4> QED
        BY <3>2, <4>3, <4>4
    <3> QED
      BY <3>1, <3>2
  <2> QED
    BY <2>5, <2>8, <2>9
<1> QED
  BY <1>1, InvAlways, PTL

-----------------------------------------------------------------------------
(* No deadlock.                                                            *)

\* The locks thread t waits for: the strategies' BucketLock and NodeLock.
Waits(t) ==
    \/ pc[t] = "lockBucket" /\ bucketLock[Bucket(t)] # NoThread
    \/ pc[t] = "find" /\ node[t] # NoNode /\ ~NodeFree(node[t])
    \/ pc[t] = "lockNode" /\ ~NodeFree(node[t])
    \/ pc[t] = "unlinkPrev" /\ prev[node[t]] # NoNode /\ ~NodeFree(prev[node[t]])
    \/ pc[t] = "unlinkNext" /\ next[node[t]] # NoNode /\ ~NodeFree(next[node[t]])
    \/ pc[t] = "link" /\ head[Bucket(t)] # NoNode /\ ~NodeFree(head[Bucket(t)])

\* Some thread inside a call does not wait for a lock.
SomeoneRuns ==
    (\E t \in Threads : pc[t] # "idle") => \E t \in Threads : pc[t] # "idle" /\ ~Waits(t)

\* The neighbour whose lock Remove or MoveTo takes is in the chain of a
\* bucket the thread has locked, and is not the node itself.
LEMMA NeighbourIsNear ==
    ASSUME Inv, NEW t \in Threads, NEW m \in Nodes,
           \/ pc[t] = "unlinkPrev" /\ m = prev[node[t]]
           \/ pc[t] = "unlinkNext" /\ m = next[node[t]]
           \/ pc[t] = "link" /\ m = head[Bucket(t)]
    PROVE  /\ hash[m] \in Buckets /\ bucketLock[hash[m]] = t
           /\ m # node[t]
<1>1. NoNode \notin Nodes /\ NoBucket \notin Buckets
  BY BufferAssumption DEF NoNode, Nodes
<1>2. node[t] \in Nodes /\ Bucket(t) \in Buckets
  BY BufferAssumption DEF Inv, Types, Calls, Bucket, InAlloc, InNode
<1>3. CASE pc[t] = "unlinkPrev"
  <2>1. hash[node[t]] \in Buckets /\ bucketLock[hash[node[t]]] = t /\ m = prev[node[t]]
    BY <1>2, <1>3 DEF Inv, Allocs, Locks, HasBucket, InOther
  <2>2. hash[m] = hash[node[t]]
    BY <1>1, <1>2, <2>1 DEF Inv, Ends
  <2>3. m # node[t]
    <3>1. {m} \in SUBSET Nodes /\ {m} # {}
      OBVIOUS
    <3> QED
      BY <2>1, <3>1 DEF Inv, Acyclic
  <2> QED
    BY <2>1, <2>2, <2>3
<1>4. CASE pc[t] = "unlinkNext"
  <2>1. hash[node[t]] \in Buckets /\ bucketLock[hash[node[t]]] = t /\ m = next[node[t]]
    BY <1>2, <1>4 DEF Inv, Allocs, Locks, HasBucket, InOther
  <2>2. ~Cut(node[t])
    <3> SUFFICES ASSUME NEW u \in Threads, pc[u] = "unlinkNext", prev[node[u]] = node[t] PROVE FALSE
      BY DEF Cut
    <3>1. node[u] \in Nodes /\ hash[node[u]] = hash[node[t]]
      BY <1>1, <1>2 DEF Inv, Calls, Ends, InAlloc, InNode
    <3>2. u = t
      BY <2>1, <3>1 DEF Inv, Locks, HasBucket, InOther
    <3>3. {node[t]} \in SUBSET Nodes /\ {node[t]} # {} /\ prev[node[t]] = node[t]
      BY <1>2, <3>2
    <3> QED
      BY <3>3 DEF Inv, Acyclic
  <2>3. prev[m] = node[t]
    BY <1>2, <2>1, <2>2 DEF Inv, Mutual
  <2>4. hash[m] = hash[node[t]]
    BY <1>1, <1>2, <2>3 DEF Inv, Ends
  <2>5. m # node[t]
    <3>1. {m} \in SUBSET Nodes /\ {m} # {}
      OBVIOUS
    <3> QED
      BY <2>3, <3>1 DEF Inv, Acyclic
  <2> QED
    BY <2>1, <2>4, <2>5
<1>5. CASE pc[t] = "link"
  <2>1. hash[m] = Bucket(t) /\ hash[node[t]] = NoBucket
    BY <1>1, <1>2, <1>5 DEF Inv, Ends, Allocs
  <2>2. bucketLock[Bucket(t)] = t
    BY <1>2, <1>5 DEF Inv, Locks, HasBucket, InBucket
  <2> QED
    BY <1>1, <1>2, <2>1, <2>2
<1> QED
  BY <1>3, <1>4, <1>5

\* If all threads inside calls waited, a thread in Remove or MoveTo would wait
\* for a thread at the same chain, whose mutex is its own; so no node would be
\* locked, hence no thread would be past its bucket's mutex, and that would be
\* free.
LEMMA LockChain ==
    ASSUME Inv, \A t \in Threads : pc[t] # "idle" => Waits(t)
    PROVE  \A t \in Threads : pc[t] = "idle"
<1>1. NoNode \notin Nodes /\ NoBucket \notin Buckets /\ NoThread \notin Threads
  BY BufferAssumption DEF NoNode, Nodes
<1>2. \A t \in Threads : pc[t] \notin {"tryBucket", "commit", "fetch", "found", "absent"}
  BY DEF Waits
<1>3. ASSUME NEW m \in Nodes, ~NodeFree(m)
      PROVE  /\ nodeLock[m] \in Threads /\ node[nodeLock[m]] = m
             /\ pc[nodeLock[m]] \in {"unlinkPrev", "unlinkNext", "link"}
  <2>1. nodeLock[m] \in Threads
    BY <1>3 DEF Inv, Types, NodeFree
  <2> QED
    BY <1>2, <2>1 DEF Inv, Locks, HasNode, InNode
<1>4. ASSUME NEW t \in Threads, pc[t] \in {"unlinkPrev", "unlinkNext", "link"} PROVE FALSE
  <2>1. PICK m \in Nodes : /\ ~NodeFree(m)
                           /\ \/ pc[t] = "unlinkPrev" /\ m = prev[node[t]]
                              \/ pc[t] = "unlinkNext" /\ m = next[node[t]]
                              \/ pc[t] = "link" /\ m = head[Bucket(t)]
    <3>1. node[t] \in Nodes /\ Bucket(t) \in Buckets
      BY <1>4, BufferAssumption DEF Inv, Types, Calls, Bucket, InAlloc, InNode
    <3>2. Waits(t)
      BY <1>4
    <3> QED
      BY <1>4, <3>1, <3>2 DEF Waits, Inv, Types
  <2>2. hash[m] \in Buckets /\ bucketLock[hash[m]] = t /\ m # node[t]
    BY <2>1, NeighbourIsNear
  <2>3. PICK u \in Threads : node[u] = m /\ pc[u] \in {"unlinkPrev", "unlinkNext", "link"}
    BY <1>3, <2>1
  <2>4. u # t
    BY <2>2, <2>3
  <2>5. CASE pc[u] = "link"
    BY <1>1, <2>2, <2>3, <2>5 DEF Inv, Allocs
  <2>6. CASE pc[u] \in InOther
    BY <2>2, <2>3, <2>4, <2>6 DEF Inv, Locks, HasBucket
  <2> QED
    BY <2>3, <2>5, <2>6 DEF InOther
<1>5. \A m \in Nodes : NodeFree(m)
  BY <1>3, <1>4
<1>6. \A t \in Threads : pc[t] \in {"idle", "lockBucket"}
  <2> SUFFICES ASSUME NEW t \in Threads, pc[t] \in {"find", "lockNode"} PROVE FALSE
    BY <1>2, <1>4 DEF Inv, Types, Labels
  <2>1. node[t] # NoNode => node[t] \in Nodes
    BY DEF Inv, Types
  <2>2. pc[t] = "lockNode" => node[t] \in Nodes
    BY DEF Inv, Calls, InAlloc, InNode
  <2> QED
    BY <1>5, <2>1, <2>2 DEF Waits
<1>7. ASSUME NEW t \in Threads, pc[t] = "lockBucket" PROVE FALSE
  <2>1. Bucket(t) \in Buckets /\ bucketLock[Bucket(t)] # NoThread
    BY <1>7, BufferAssumption DEF Inv, Calls, Bucket, Waits
  <2>2. bucketLock[Bucket(t)] \in Threads
    BY <2>1 DEF Inv, Types
  <2>3. HasBucket(bucketLock[Bucket(t)], Bucket(t))
    BY <2>1, <2>2 DEF Inv, Locks
  <2> QED
    BY <1>6, <2>2, <2>3 DEF HasBucket, InBucket, InOther
<1> QED
  BY <1>6, <1>7

\* The threads inside calls never all wait for locks, with up to two buckets
\* and two nodes locked at a time: what BucketTryLock in Alloc is for.
THEOREM NobodyStuck ==
    ASSUME Shared
    PROVE  Spec => []SomeoneRuns
<1>1. Inv => SomeoneRuns
  BY LockChain DEF SomeoneRuns
<1> QED
  BY <1>1, InvAlways, PTL

=============================================================================
