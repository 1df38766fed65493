----------------------------- MODULE BufferPool -----------------------------
(***************************************************************************)
(* What the cache store's host buffer (TransBuffer) promises its users,    *)
(* with every locking detail left out: a fixed pool of nodes, each holding *)
(* the data of at most one key (a key is a <<block, shard>> pair), and     *)
(* reference-counted handles on the nodes.  TransBuffer.tla, the lock by   *)
(* lock model of trans_buffer.cc, implements this specification.           *)
(***************************************************************************)
EXTENDS Integers, FiniteSets

CONSTANTS
    Keys,     \* the <<block, shard>> pairs the store is asked for
    Nodes,    \* the buffer nodes
    Handles,  \* the TransBuffer::Handle objects of all queues and processes
    NoKey,    \* the content of a node no Get can find
    NoNode    \* an empty handle (Handle::pos_ = npos)

ASSUME PoolAssumption ==
    /\ IsFiniteSet(Handles)
    /\ NoKey \notin Keys
    /\ NoNode \notin Nodes

VARIABLES
    key,    \* key[n]: the key node n is resident for
    ref,    \* ref[n]: BufferMetaNode::reference
    ready,  \* ready[n]: BufferMetaNode::ready
    at,     \* at[h]: the node handle h points to (Handle::pos_)
    own     \* own[h]: Handle::owner_

vars == <<key, ref, ready, at, own>>

Holders(n) == {h \in Handles : at[h] = n}

Resident(k) == \E n \in Nodes : key[n] = k

Init ==
    /\ key = [n \in Nodes |-> NoKey]
    /\ ref = [n \in Nodes |-> 0]
    /\ ready = [n \in Nodes |-> FALSE]
    /\ at = [h \in Handles |-> NoNode]
    /\ own = [h \in Handles |-> FALSE]

\* Mutant: whoever finds the node unready owns it.
GetHitOwnsUnready(h, k) ==
    /\ at[h] = NoNode
    /\ \E n \in Nodes :
        /\ key[n] = k
        /\ at' = [at EXCEPT ![h] = n]
        /\ own' = [own EXCEPT ![h] = (ref[n] = 0 \/ ~ready[n])]
        /\ ref' = [ref EXCEPT ![n] = @ + 1]
    /\ UNCHANGED <<key, ready>>

\* Mutant: only the owner's hit counts.
GetHitUncounted(h, k) ==
    /\ at[h] = NoNode
    /\ \E n \in Nodes :
        /\ key[n] = k
        /\ at' = [at EXCEPT ![h] = n]
        /\ own' = [own EXCEPT ![h] = (ref[n] = 0)]
        /\ ref' = [ref EXCEPT ![n] = IF @ = 0 THEN 1 ELSE @]
    /\ UNCHANGED <<key, ready>>

\* Get finds the key: one more reference; the caller owns the node (has to
\* see to its data) only if nobody else held it.
GetHit(h, k) ==
    /\ at[h] = NoNode
    /\ \E n \in Nodes :
        /\ key[n] = k
        /\ at' = [at EXCEPT ![h] = n]
        /\ own' = [own EXCEPT ![h] = (ref[n] = 0)]
        /\ ref' = [ref EXCEPT ![n] = @ + 1]
    /\ UNCHANGED <<key, ready>>

\* Mutant: a node is given to the key without looking for the key first.
GetMissUnchecked(h, k) ==
    /\ at[h] = NoNode
    /\ \E n \in Nodes :
        /\ key[n] = NoKey
        /\ ref[n] = 0
        /\ key' = [key EXCEPT ![n] = k]
        /\ ref' = [ref EXCEPT ![n] = 1]
        /\ ready' = [ready EXCEPT ![n] = FALSE]
        /\ at' = [at EXCEPT ![h] = n]
        /\ own' = [own EXCEPT ![h] = TRUE]

\* Get does not find the key: a node nobody holds is given to it, not ready.
GetMiss(h, k) ==
    /\ at[h] = NoNode
    /\ ~Resident(k)
    /\ \E n \in Nodes :
        /\ key[n] = NoKey
        /\ ref[n] = 0
        /\ key' = [key EXCEPT ![n] = k]
        /\ ref' = [ref EXCEPT ![n] = 1]
        /\ ready' = [ready EXCEPT ![n] = FALSE]
        /\ at' = [at EXCEPT ![h] = n]
        /\ own' = [own EXCEPT ![h] = TRUE]

\* Mutant: a held node is evicted too.
EvictHeld(n) ==
    /\ key[n] # NoKey
    /\ key' = [key EXCEPT ![n] = NoKey]
    /\ ready' = [ready EXCEPT ![n] = FALSE]
    /\ UNCHANGED <<ref, at, own>>

\* The pool may forget the key of a node nobody holds.
Evict(n) ==
    /\ key[n] # NoKey
    /\ ref[n] = 0
    /\ key' = [key EXCEPT ![n] = NoKey]
    /\ ready' = [ready EXCEPT ![n] = FALSE]
    /\ UNCHANGED <<ref, at, own>>

\* Mutant: the destructor may run twice on one handle.
ReleaseAgain(h) ==
    /\ at[h] # NoNode
    /\ ref' = [ref EXCEPT ![at[h]] = @ - 1]
    /\ own' = [own EXCEPT ![h] = FALSE]
    /\ UNCHANGED <<key, ready, at>>

\* ~Handle
Release(h) ==
    /\ at[h] # NoNode
    /\ ref' = [ref EXCEPT ![at[h]] = @ - 1]
    /\ at' = [at EXCEPT ![h] = NoNode]
    /\ own' = [own EXCEPT ![h] = FALSE]
    /\ UNCHANGED <<key, ready>>

\* Handle::MarkReady; both queues call it on handles they own only.
MarkReady(h) ==
    /\ at[h] # NoNode
    /\ own[h]
    /\ ready' = [ready EXCEPT ![at[h]] = TRUE]
    /\ UNCHANGED <<key, ref, at, own>>

Next ==
    \/ \E h \in Handles :
        \/ \E k \in Keys : GetHit(h, k) \/ GetMiss(h, k)
        \/ Release(h)
        \/ MarkReady(h)
    \/ \E n \in Nodes : Evict(n)

Spec == Init /\ [][Next]_vars

-----------------------------------------------------------------------------

TypeOK ==
    /\ key \in [Nodes -> Keys \cup {NoKey}]
    /\ ref \in [Nodes -> Nat]
    /\ ready \in [Nodes -> BOOLEAN]
    /\ at \in [Handles -> Nodes \cup {NoNode}]
    /\ own \in [Handles -> BOOLEAN]

\* A node's reference count is the number of handles on it: a count too low
\* lets Alloc recycle a buffer in use, one too high leaks the buffer.
RefCountsHandles == \A n \in Nodes : ref[n] = Cardinality(Holders(n))

\* At most one handle owns a node, so at most one party fills a buffer.
OneOwner ==
    \A g, h \in Handles :
        at[g] = at[h] /\ own[g] /\ own[h] => g = h

\* A key is resident in one node at most: a second copy would split the
\* waiters of a key from the party that loads it.
OneNodePerKey ==
    \A m, n \in Nodes : key[m] = key[n] /\ key[m] # NoKey => m = n

\* While a handle stays on a node, the node keeps its key and does not become
\* unready: nobody copies another block's bytes through a live handle.
HeldNodeIsStable ==
    [][\A h \in Handles :
        at[h] # NoNode /\ at'[h] = at[h] =>
            /\ key'[at[h]] = key[at[h]]
            /\ ready[at[h]] => ready'[at[h]]]_vars

=============================================================================
