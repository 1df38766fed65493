---------------------------- MODULE TransBuffer ----------------------------
(***************************************************************************)
(* The cache store's host buffer, ucm/store/cache/cc/trans_buffer.cc, lock *)
(* by lock.  Nodes sit in doubly linked hash chains, one per bucket; a     *)
(* clock hand (freeHead) picks the node to recycle.  Every chain is under  *)
(* its bucket's mutex, every node's metadata under the node's spin lock.   *)
(*                                                                         *)
(* Threads are the threads, of all processes that map the buffer, that     *)
(* call Get and Exist.  A handle is released or marked ready by whatever   *)
(* thread the queues moved it to, so Release and MarkReady belong to no    *)
(* thread of this model.  A step of a thread ends where the code takes its *)
(* next lock: between two lock operations it touches only what its locks   *)
(* protect.                                                                *)
(*                                                                         *)
(* Shared = TRUE is SharedBufferStrategy.  Shared = FALSE is               *)
(* LocalBufferStrategy, whose lock operations are empty.                   *)
(***************************************************************************)
EXTENDS Integers, FiniteSets

CONSTANTS
    Threads, Keys, Buckets, Handles,
    NNode,      \* nNode_: totalSize / nodeSize
    Hash,       \* Hash[k]: the bucket of key k
    Shared,     \* which BufferStrategy
    NoThread, NoKey, NoBucket, NoHandle

NoNode == -1                  \* invalidIndex

Nodes == 0 .. NNode - 1

ASSUME BufferAssumption ==
    /\ IsFiniteSet(Handles)
    /\ NNode \in Nat \ {0}
    /\ Hash \in [Keys -> Buckets]
    /\ Shared \in BOOLEAN
    /\ NoThread \notin Threads
    /\ NoKey \notin Keys
    /\ NoBucket \notin Buckets
    /\ NoHandle \notin Handles

VARIABLES
    head,                               \* FirstAt: the first node of a chain
    freeHead,                           \* BufferHeader::freeHead
    key, ref, hash, prev, next, ready,  \* BufferMetaNode
    bucketLock, nodeLock,               \* the holder of each lock
    pc,                                 \* where each thread is
    want, into, node,                   \* Get's and Alloc's locals
    at, own                             \* the handles

meta == <<key, ref, hash, prev, next, ready>>
locks == <<bucketLock, nodeLock>>
handles == <<at, own>>
vars == <<head, freeHead, meta, locks, pc, want, into, node, handles>>

Bucket(t) == Hash[want[t]]

Goto(t, label) == pc' = [pc EXCEPT ![t] = label]

\* A strategy without locks hands every lock out at once.
Taken(t) == IF Shared THEN t ELSE NoThread

NodeFree(n) == nodeLock[n] = NoThread

Init ==
    /\ head = [b \in Buckets |-> NoNode]
    /\ freeHead = 0
    /\ key = [n \in Nodes |-> NoKey]
    /\ ref = [n \in Nodes |-> 0]
    /\ hash = [n \in Nodes |-> NoBucket]
    /\ prev = [n \in Nodes |-> NoNode]
    /\ next = [n \in Nodes |-> NoNode]
    /\ ready = [n \in Nodes |-> FALSE]
    /\ bucketLock = [b \in Buckets |-> NoThread]
    /\ nodeLock = [n \in Nodes |-> NoThread]
    /\ pc = [t \in Threads |-> "idle"]
    /\ want = [t \in Threads |-> NoKey]
    /\ into = [t \in Threads |-> NoHandle]
    /\ node = [t \in Threads |-> NoNode]
    /\ at = [h \in Handles |-> NoNode]
    /\ own = [h \in Handles |-> FALSE]

-----------------------------------------------------------------------------
(* Get and Exist: take the bucket's mutex, walk the chain.                 *)

CallGet(t, k, h) ==
    /\ pc[t] = "idle"
    /\ at[h] = NoNode
    /\ \A u \in Threads : into[u] # h
    /\ want' = [want EXCEPT ![t] = k]
    /\ into' = [into EXCEPT ![t] = h]
    /\ Goto(t, "lockBucket")
    /\ UNCHANGED <<head, freeHead, meta, locks, node, handles>>

CallExist(t, k) ==
    /\ pc[t] = "idle"
    /\ want' = [want EXCEPT ![t] = k]
    /\ Goto(t, "lockBucket")
    /\ UNCHANGED <<head, freeHead, meta, locks, into, node, handles>>

LockBucket(t) ==
    /\ pc[t] = "lockBucket"
    /\ bucketLock[Bucket(t)] = NoThread
    /\ bucketLock' = [bucketLock EXCEPT ![Bucket(t)] = Taken(t)]
    /\ node' = [node EXCEPT ![t] = head[Bucket(t)]]
    /\ Goto(t, "find")
    /\ UNCHANGED <<head, freeHead, meta, nodeLock, want, into, handles>>

\* The walk's critical section on one node, in a node that is not the one.
FindNext(t) ==
    /\ pc[t] = "find"
    /\ node[t] # NoNode
    /\ NodeFree(node[t])
    /\ key[node[t]] # want[t]
    /\ node' = [node EXCEPT ![t] = next[node[t]]]
    /\ UNCHANGED <<head, freeHead, meta, locks, pc, want, into, handles>>

\* FindAt's critical section on the node it looks for; the handle Get is
\* about to return exists from here on.
GetHit(t) ==
    /\ pc[t] = "find"
    /\ into[t] # NoHandle
    /\ node[t] # NoNode
    /\ NodeFree(node[t])
    /\ key[node[t]] = want[t]
    /\ at' = [at EXCEPT ![into[t]] = node[t]]
    /\ own' = [own EXCEPT ![into[t]] = (ref[node[t]] = 0)]
    /\ ref' = [ref EXCEPT ![node[t]] = @ + 1]
    /\ Goto(t, "found")
    /\ UNCHANGED <<head, freeHead, key, hash, prev, next, ready, locks, want, into, node>>

ExistHit(t) ==
    /\ pc[t] = "find"
    /\ into[t] = NoHandle
    /\ node[t] # NoNode
    /\ NodeFree(node[t])
    /\ key[node[t]] = want[t]
    /\ Goto(t, "found")
    /\ UNCHANGED <<head, freeHead, meta, locks, want, into, node, handles>>

ChainEnd(t) ==
    /\ pc[t] = "find"
    /\ node[t] = NoNode
    /\ Goto(t, IF into[t] = NoHandle THEN "absent" ELSE "fetch")
    /\ UNCHANGED <<head, freeHead, meta, locks, want, into, node, handles>>

\* The thread gives back the bucket's mutex and its call returns.
Return(t) ==
    /\ bucketLock' = [bucketLock EXCEPT ![Bucket(t)] = NoThread]
    /\ want' = [want EXCEPT ![t] = NoKey]
    /\ into' = [into EXCEPT ![t] = NoHandle]
    /\ node' = [node EXCEPT ![t] = NoNode]
    /\ Goto(t, "idle")

UnlockBucket(t) ==
    /\ pc[t] \in {"found", "absent"}
    /\ Return(t)
    /\ UNCHANGED <<head, freeHead, meta, nodeLock, handles>>

-----------------------------------------------------------------------------
(* Alloc: turn the clock hand until a node can be taken.                   *)

\* Mutant: the clock hand does not wrap around.
FetchNodeNoWrap(t) ==
    /\ pc[t] = "fetch"
    /\ node' = [node EXCEPT ![t] = freeHead]
    /\ freeHead' = freeHead + 1
    /\ Goto(t, "lockNode")
    /\ UNCHANGED <<head, meta, locks, want, into, handles>>

FetchNode(t) ==
    /\ pc[t] = "fetch"
    /\ node' = [node EXCEPT ![t] = freeHead]
    /\ freeHead' = IF freeHead + 1 = NNode THEN 0 ELSE freeHead + 1
    /\ Goto(t, "lockNode")
    /\ UNCHANGED <<head, meta, locks, want, into, handles>>

\* A referenced node is let go at once.
SkipHeld(t) ==
    /\ pc[t] = "lockNode"
    /\ NodeFree(node[t])
    /\ ref[node[t]] > 0
    /\ Goto(t, "fetch")
    /\ UNCHANGED <<head, freeHead, meta, locks, want, into, node, handles>>

\* Mutant: a referenced node is taken too.
LockNodeInUse(t) ==
    /\ pc[t] = "lockNode"
    /\ NodeFree(node[t])
    /\ nodeLock' = [nodeLock EXCEPT ![node[t]] = Taken(t)]
    /\ Goto(t, CASE hash[node[t]] = Bucket(t) -> "commit"
                 [] hash[node[t]] = NoBucket -> "link"
                 [] OTHER -> "tryBucket")
    /\ UNCHANGED <<head, freeHead, meta, bucketLock, want, into, node, handles>>

\* A node of the same bucket stays in its chain; a node of no bucket needs no
\* unlinking; a node of another bucket needs that bucket's mutex too.
LockNode(t) ==
    /\ pc[t] = "lockNode"
    /\ NodeFree(node[t])
    /\ ref[node[t]] = 0
    /\ nodeLock' = [nodeLock EXCEPT ![node[t]] = Taken(t)]
    /\ Goto(t, CASE hash[node[t]] = Bucket(t) -> "commit"
                 [] hash[node[t]] = NoBucket -> "link"
                 [] OTHER -> "tryBucket")
    /\ UNCHANGED <<head, freeHead, meta, bucketLock, want, into, node, handles>>

\* Mutant: BucketLock in place of BucketTryLock.
TryBucketWaits(t) ==
    LET old == hash[node[t]] IN
    /\ pc[t] = "tryBucket"
    /\ bucketLock[old] = NoThread
    /\ bucketLock' = [bucketLock EXCEPT ![old] = Taken(t)]
    /\ Goto(t, "unlinkPrev")
    /\ UNCHANGED <<head, freeHead, meta, nodeLock, want, into, node, handles>>

\* Mutant: the node is unlinked without the other bucket's mutex.
TryBucketNever(t) ==
    /\ pc[t] = "tryBucket"
    /\ Goto(t, "unlinkPrev")
    /\ UNCHANGED <<head, freeHead, meta, locks, want, into, node, handles>>

\* Waiting for the other bucket's mutex would close a waiting cycle: a walker
\* of that bucket waits for the node.  So the code tries, and gives up.
TryBucket(t) ==
    LET old == hash[node[t]] IN
    /\ pc[t] = "tryBucket"
    /\ \/ /\ bucketLock[old] = NoThread
          /\ bucketLock' = [bucketLock EXCEPT ![old] = Taken(t)]
          /\ Goto(t, "unlinkPrev")
          /\ UNCHANGED nodeLock
       \/ /\ bucketLock[old] # NoThread
          /\ nodeLock' = [nodeLock EXCEPT ![node[t]] = NoThread]
          /\ Goto(t, "fetch")
          /\ UNCHANGED bucketLock
    /\ UNCHANGED <<head, freeHead, meta, want, into, node, handles>>

\* Remove, up to the unlock of the predecessor.
UnlinkPrev(t) ==
    LET n == node[t]  p == prev[node[t]] IN
    /\ pc[t] = "unlinkPrev"
    /\ IF p = NoNode
         THEN UNCHANGED next
         ELSE NodeFree(p) /\ next' = [next EXCEPT ![p] = next[n]]
    /\ Goto(t, "unlinkNext")
    /\ UNCHANGED <<head, freeHead, key, ref, hash, prev, ready, locks, want, into, node, handles>>

\* Mutant: the successor keeps its prev.
UnlinkNextStalePrev(t) ==
    LET n == node[t]  s == next[node[t]]  old == hash[node[t]] IN
    /\ pc[t] = "unlinkNext"
    /\ s # NoNode => NodeFree(s)
    /\ prev' = [prev EXCEPT ![n] = NoNode]
    /\ next' = [next EXCEPT ![n] = NoNode]
    /\ hash' = [hash EXCEPT ![n] = NoBucket]
    /\ head' = IF head[old] = n THEN [head EXCEPT ![old] = s] ELSE head
    /\ bucketLock' = [bucketLock EXCEPT ![old] = NoThread]
    /\ Goto(t, "link")
    /\ UNCHANGED <<freeHead, key, ref, ready, nodeLock, want, into, node, handles>>

\* The rest of Remove, and the unlock of the old bucket.
UnlinkNext(t) ==
    LET n == node[t]  s == next[node[t]]  old == hash[node[t]] IN
    /\ pc[t] = "unlinkNext"
    /\ s # NoNode => NodeFree(s)
    /\ prev' = [m \in Nodes |-> CASE m = n -> NoNode
                                  [] m = s -> prev[n]
                                  [] OTHER -> prev[m]]
    /\ next' = [next EXCEPT ![n] = NoNode]
    /\ hash' = [hash EXCEPT ![n] = NoBucket]
    /\ head' = IF head[old] = n THEN [head EXCEPT ![old] = s] ELSE head
    /\ bucketLock' = [bucketLock EXCEPT ![old] = NoThread]
    /\ Goto(t, "link")
    /\ UNCHANGED <<freeHead, key, ref, ready, nodeLock, want, into, node, handles>>

\* MoveTo: the node becomes the first of its new chain.
Link(t) ==
    LET n == node[t]  first == head[Bucket(t)] IN
    /\ pc[t] = "link"
    /\ IF first = NoNode
         THEN UNCHANGED prev
         ELSE NodeFree(first) /\ prev' = [prev EXCEPT ![first] = n]
    /\ next' = [next EXCEPT ![n] = first]
    /\ hash' = [hash EXCEPT ![n] = Bucket(t)]
    /\ head' = [head EXCEPT ![Bucket(t)] = n]
    /\ Goto(t, "commit")
    /\ UNCHANGED <<freeHead, key, ref, ready, locks, want, into, node, handles>>

\* Alloc's last assignments, both unlocks, and the return of an owning handle.
Commit(t) ==
    LET n == node[t] IN
    /\ pc[t] = "commit"
    /\ ref' = [ref EXCEPT ![n] = @ + 1]
    /\ key' = [key EXCEPT ![n] = want[t]]
    /\ ready' = [ready EXCEPT ![n] = FALSE]
    /\ at' = [at EXCEPT ![into[t]] = n]
    /\ own' = [own EXCEPT ![into[t]] = TRUE]
    /\ nodeLock' = [nodeLock EXCEPT ![n] = NoThread]
    /\ Return(t)
    /\ UNCHANGED <<head, freeHead, hash, prev, next>>

Alloc(t) ==
    \/ FetchNode(t) \/ SkipHeld(t) \/ LockNode(t) \/ TryBucket(t)
    \/ UnlinkPrev(t) \/ UnlinkNext(t) \/ Link(t) \/ Commit(t)

-----------------------------------------------------------------------------
(* Handles.                                                                *)


\* ~Handle
Release(h) ==
    /\ at[h] # NoNode
    /\ \A t \in Threads : into[t] # h
    /\ NodeFree(at[h])
    /\ ref' = [ref EXCEPT ![at[h]] = @ - 1]
    /\ at' = [at EXCEPT ![h] = NoNode]
    /\ own' = [own EXCEPT ![h] = FALSE]
    /\ UNCHANGED <<head, freeHead, key, hash, prev, next, ready, locks, pc, want, into, node>>

\* Both queues mark only handles they own (load_queue.cc:158-173,
\* dump_queue.cc:96-117).
MarkReady(h) ==
    /\ at[h] # NoNode
    /\ own[h]
    /\ \A t \in Threads : into[t] # h
    /\ NodeFree(at[h])
    /\ ready' = [ready EXCEPT ![at[h]] = TRUE]
    /\ UNCHANGED <<head, freeHead, key, ref, hash, prev, next, locks, pc, want, into, node, handles>>

-----------------------------------------------------------------------------

\* What a thread does once its call has begun.
Run(t) ==
    \/ LockBucket(t) \/ FindNext(t) \/ GetHit(t) \/ ExistHit(t) \/ ChainEnd(t)
    \/ Alloc(t) \/ UnlockBucket(t)

Next ==
    \/ \E t \in Threads :
        \/ \E k \in Keys : CallExist(t, k) \/ \E h \in Handles : CallGet(t, k, h)
        \/ Run(t)
    \/ \E h \in Handles : Release(h) \/ MarkReady(h)

Spec == Init /\ [][Next]_vars

\* Threads are scheduled, and every handle is released in the end: its task
\* is over after the timeout at the latest (task_wrapper.h:71-84).
FairSpec ==
    /\ Spec
    /\ \A t \in Threads : WF_vars(Run(t))
    /\ \A h \in Handles : WF_vars(Release(h))

-----------------------------------------------------------------------------
(* Properties.                                                             *)

Labels == {"idle", "lockBucket", "find", "found", "absent", "fetch", "lockNode",
           "tryBucket", "unlinkPrev", "unlinkNext", "link", "commit"}

TypeOK ==
    /\ head \in [Buckets -> Nodes \cup {NoNode}]
    /\ freeHead \in Nodes
    /\ key \in [Nodes -> Keys \cup {NoKey}]
    /\ ref \in [Nodes -> 0 .. Cardinality(Handles)]
    /\ hash \in [Nodes -> Buckets \cup {NoBucket}]
    /\ prev \in [Nodes -> Nodes \cup {NoNode}]
    /\ next \in [Nodes -> Nodes \cup {NoNode}]
    /\ ready \in [Nodes -> BOOLEAN]
    /\ bucketLock \in [Buckets -> Threads \cup {NoThread}]
    /\ nodeLock \in [Nodes -> Threads \cup {NoThread}]
    /\ pc \in [Threads -> Labels]
    /\ want \in [Threads -> Keys \cup {NoKey}]
    /\ into \in [Threads -> Handles \cup {NoHandle}]
    /\ node \in [Threads -> Nodes \cup {NoNode}]
    /\ at \in [Handles -> Nodes \cup {NoNode}]
    /\ own \in [Handles -> BOOLEAN]

\* The nodes a walk of bucket b's chain meets.
Chain(b) ==
    LET walk[i \in 0 .. NNode] ==
            IF i = 0 THEN head[b]
            ELSE IF walk[i - 1] = NoNode THEN NoNode ELSE next[walk[i - 1]]
    IN {walk[i] : i \in 0 .. NNode} \ {NoNode}

\* Whenever a bucket's chain is not being changed, a walk of it meets exactly
\* the nodes whose hash says so, and prev inverts next: the unlinking of a
\* node, with the locks of two buckets and three nodes, loses none and leaves
\* no dangling neighbour.
ChainsAreWhole ==
    \A b \in Buckets :
        (\A t \in Threads : pc[t] = "unlinkNext" => hash[node[t]] # b) =>
            /\ Chain(b) = {n \in Nodes : hash[n] = b}
            /\ \A n \in Chain(b) :
                prev[n] = IF n = head[b] THEN NoNode
                          ELSE CHOOSE m \in Chain(b) : next[m] = n

\* The key a Get or an Exist would find in node n: none while Alloc has taken
\* the node and not yet given it its new key.
VisibleKey ==
    [n \in Nodes |->
        IF hash[n] = NoBucket \/ \E t \in Threads : pc[t] = "commit" /\ node[t] = n
        THEN NoKey ELSE key[n]]

\* What Exist is about to answer is true at that moment, although Allocs for
\* other buckets take nodes out of this one: it never reports a key that is
\* not resident, nor misses one that is.
ExistIsAccurate ==
    \A t \in Threads :
        into[t] = NoHandle =>
            /\ pc[t] = "found" => \E n \in Nodes : VisibleKey[n] = want[t]
            /\ pc[t] = "absent" => \A n \in Nodes : VisibleKey[n] # want[t]

\* The threads inside a call are never all stuck: with up to three node locks
\* and two bucket locks in one call, no two threads wait for each other.
NoDeadlock ==
    (\E t \in Threads : pc[t] # "idle") => \E t \in Threads : ENABLED Run(t)

\* The lock by lock algorithm implements the pool of BufferPool: at most one
\* node per key, counts that count the handles, one owner, held nodes stable.
Pool == INSTANCE BufferPool WITH
    key <- VisibleKey,
    ready <- [n \in Nodes |-> VisibleKey[n] # NoKey /\ ready[n]]

PoolSpec == Pool!Spec

\* No handle's node is given to another key while the handle points to it.
HeldNodeKeepsKey ==
    [][\A h \in Handles :
        at[h] # NoNode /\ at'[h] = at[h] => key'[at[h]] = key[at[h]]]_vars


=============================================================================
