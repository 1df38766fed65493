------------------------ MODULE CacheTransferProofs ------------------------
(***************************************************************************)
(* Theorems about CacheTransfer, for any tasks, keys, buffers and faults.  *)
(*                                                                         *)
(* The inductive invariant IInv has two parts.                             *)
(*                                                                         *)
(* Shape holds whatever fails: the types; a node's count is the number of  *)
(* its handles (Counts); a node has one owner and its handles' key         *)
(* (Buffers); a task is in one place of the path new, waiting_,            *)
(* dispatcher, running_, transfer thread, over, and what it holds fits     *)
(* that place (Stage); the queues have no repetition, and the last shard   *)
(* of a task is behind its others (Order), which is why its Latch counts   *)
(* down once.                                                              *)
(*                                                                         *)
(* Claims holds while the system is Calm: what the device and the backend  *)
(* work on is held by a handle of theirs (Working), so no Get recycles it; *)
(* what may be marked ready has its bytes or will have them before it is   *)
(* (LoadsComing, DumpsComing); a shard of a load is delivered, failed, or  *)
(* on its way (Delivering).  Without Calm, Working fails first: the        *)
(* handles of a failed task go while the device or the backend goes on.    *)
(*                                                                         *)
(* A lemma per action and part: ...Stage for Shape, ...Claims for Claims.  *)
(***************************************************************************)
EXTENDS CacheTransfer, FiniteSetTheorems, TLAPS

(* the elements of a queue *)
In(s) == {s[i] : i \in DOMAIN s}
Once(s) == \A i, j \in DOMAIN s : s[i] = s[j] => i = j

LastShard(t) == <<t, Len(Work[t].keys)>>

(* each shard in a queue has the last one of its task behind it *)
Followed(s) ==
    \A i \in DOMAIN s : \E j \in DOMAIN s :
        j >= i /\ s[j] = LastShard(s[i][1])

HoldersOf(n) == {h \in Handles : at[h] = n}

(* the task of a shard in the transfer thread's hands *)
InTransfer(h) == h \in In(running) \/ (h = current /\ current # NoHandle)

(* nothing of a task's has been begun *)
Unsent(t) ==
    /\ todo[t] = {} /\ t # finished /\ t \notin broken
    /\ t \notin In(dumping)
    /\ \A h \in Handles : h[1] = t => ~InTransfer(h) /\ h \notin holder

Untouched(t) == Unsent(t) /\ Held(t) = {}

Counts ==
    \A n \in Nodes : IsFiniteSet(HoldersOf(n)) /\ ref[n] = Cardinality(HoldersOf(n))

Buffers ==
    /\ \A h \in Handles : at[h] # NoNode => key[at[h]] = KeyOf(h)
    /\ \A h \in Handles : own[h] => at[h] # NoNode
    /\ \A h, g \in Handles : own[h] /\ own[g] /\ at[h] = at[g] => h = g
    /\ \A n, m \in Nodes : key[n] = key[m] /\ key[n] # NoKey => n = m

InQueue(t, q) ==
    /\ t \in DOMAIN Work /\ Work[t].type = q /\ t \in latch
    /\ t # task[q] /\ Untouched(t)

InDispatch(t, q) ==
    /\ t \in DOMAIN Work /\ Work[t].type = q /\ t \in latch
    /\ Unsent(t)
    /\ shard[q] \in 1..(Len(Work[t].keys) + 1)
    /\ \A h \in Held(t) : h[2] < shard[q]

InHand(h) ==
    /\ TypeOf(h) = "load" /\ h[1] \in latch /\ at[h] # NoNode /\ h \notin holder
    /\ IsLast(h) \/ LastShard(h[1]) \in In(running)

(* where a task is *)
Stage(t) ==
    /\ t \in latch \cup failureSet => status[t] \in {"waiting", "late"}
    /\ status[t] = "new" =>
        Untouched(t) /\ t \notin latch /\ \A q \in Queues : t \notin In(waiting[q]) /\ t # task[q]
    /\ \A q \in Queues : t \in In(waiting[q]) => InQueue(t, q)
    /\ \A q \in Queues : t = task[q] => InDispatch(t, q)
    /\ t = task["load"] => \A i \in 1..(shard["load"] - 1) : at[<<t, i>>] # NoNode
    /\ \A h \in Handles : h[1] = t /\ InTransfer(h) => InHand(h)
    /\ \A h \in holder : h[1] = t => TypeOf(h) = "load" /\ at[h] # NoNode
    /\ t \in In(dumping) => t \in DOMAIN Work /\ Work[t].type = "dump"

Order ==
    /\ \A q \in Queues : Once(waiting[q])
    /\ Once(running) /\ current \notin In(running)
    /\ Followed(running)
    /\ syncing => current # NoHandle /\ IsLast(current)
    /\ Once(dumping)

(* a copy, and a shard of a backend task, have the handle of their buffer *)
CopyHeld(c) ==
    /\ at[c[1]] = c[2]
    /\ IF TypeOf(c[1]) = "load"
         THEN ready[c[2]] /\ (c[1] \in holder \/ (c[1] = current /\ syncing))
         ELSE own[c[1]] /\ ~ready[c[2]] /\ c[1][1] = task["dump"]

ShardHeld(t, s) ==
    /\ s[1][1] = t /\ at[s[1]] = s[2] /\ own[s[1]]
    /\ IF TypeOf(s[1]) = "load" THEN ~ready[s[2]] ELSE ready[s[2]] /\ t \in In(dumping)

Working ==
    /\ \A c \in copies : CopyHeld(c)
    /\ \A t \in Tasks : \A s \in todo[t] : ShardHeld(t, s)

(* a failed task has nothing left in the backend, and nobody works on it *)
Failing ==
    /\ \A t \in failureSet : todo[t] = {}
    /\ finished # NoTask => todo[finished] = {}
    /\ finished \in broken => finished \in failureSet \/ status[finished] \notin {"new", "waiting", "late"}
    /\ current # NoHandle => current[1] \notin failureSet
    /\ \A q \in Queues : task[q] \notin failureSet

Marked ==
    /\ \A h \in holder : ready[at[h]]
    /\ syncing => ready[at[current]]

DumpsOwn == \A h \in Handles : TypeOf(h) = "dump" /\ at[h] # NoNode => own[h]

StoredHolds == \A k \in Keys : stored[k] \in {k, NoKey}

(* what the transfer thread may mark ready *)
LoadsComing ==
    \A h \in Handles : InTransfer(h) /\ own[h] /\ ~ready[at[h]] =>
        <<h, at[h]>> \in todo[h[1]] \/ data[at[h]] = KeyOf(h) \/ h[1] \in broken

(* what the dump's dispatcher may mark ready *)
DumpsComing ==
    \A h \in Handles : h[1] = task["dump"] /\ at[h] # NoNode =>
        ready[at[h]] \/ <<h, at[h]>> \in copies \/ data[at[h]] = KeyOf(h)

(* a shard of a load is on its way to the device *)
Coming(h) ==
    /\ h[1] \in latch
    /\ \/ h[1] \in In(waiting["load"]) \/ h[1] = task["load"]
       \/ h \in In(running) \/ (h = current /\ ~syncing)
       \/ <<h, at[h]>> \in copies

Delivering ==
    \A h \in Handles : TypeOf(h) = "load" =>
        \/ status[h[1]] \notin {"waiting", "ok"} \/ h[1] \in failureSet
        \/ dst[h] = KeyOf(h) \/ Coming(h)

Claims ==
    /\ Working /\ Failing /\ Marked /\ DumpsOwn
    /\ ReadyBuffersHold /\ StoredHolds /\ LoadsComing /\ DumpsComing /\ Delivering

Shape == TypeOK /\ mix \in Mixes /\ Counts /\ Buffers /\ (\A t \in Tasks : Stage(t)) /\ Order

IInv == Shape /\ (Calm => Claims)
-----------------------------------------------------------------------------
(* Handles and queues.                                                     *)

\* What a handle of a task stands for (TaskDesc's shards).
LEMMA HandleShape ==
    ASSUME mix \in Mixes, NEW h \in Handles
    PROVE  /\ h[1] \in Tasks /\ h[1] \in DOMAIN Work /\ h[1] # NoTask /\ h = <<h[1], h[2]>>
           /\ h[2] \in 1..Len(Work[h[1]].keys) /\ h[2] \in Shards(h[1])
           /\ TypeOf(h) \in Queues /\ KeyOf(h) \in Keys /\ KeyOf(h) # NoKey
           /\ Work[h[1]].keys \in Seq(Keys)
           /\ <<h[1], Len(Work[h[1]].keys)>> \in Handles
           /\ h # NoHandle
<1>1. PICK t \in Tasks : h \in {t} \X Shards(t)
  BY DEF Handles
<1>2. t \in DOMAIN Work /\ h[1] = t /\ h[2] \in DOMAIN Work[t].keys /\ h = <<h[1], h[2]>>
  BY <1>1 DEF Shards
<1>3. MixShape(mix)
  BY TransferAssumption
<1>4. Work[t].type \in Queues /\ Work[t].keys \in Seq(Keys) \ {<<>>}
  BY <1>2, <1>3 DEF MixShape, Work
<1>5. DOMAIN Work[t].keys = 1..Len(Work[t].keys) /\ Len(Work[t].keys) \in Nat /\ Len(Work[t].keys) # 0
  BY <1>4
<1>6. Len(Work[t].keys) \in Shards(t)
  BY <1>2, <1>5 DEF Shards
<1>7. <<t, Len(Work[t].keys)>> \in Handles
  BY <1>6 DEF Handles
<1>8. Work[t].keys[h[2]] \in Keys
  BY <1>2, <1>4, <1>5
<1>9. t # NoTask /\ NoKey \notin Keys
  BY TransferAssumption
<1>10. h # NoHandle
  BY <1>2, <1>9 DEF NoHandle
<1> QED
  BY <1>2, <1>4, <1>5, <1>7, <1>8, <1>9, <1>10 DEF TypeOf, KeyOf, Shards

\* The handles of a task are its shards.
LEMMA HandleOf ==
    ASSUME NEW t \in Tasks, NEW i \in Shards(t)
    PROVE  <<t, i>> \in Handles
  BY DEF Handles

\* The mix is that of the behaviour.
LEMMA MixStays ==
    ASSUME mix' = mix
    PROVE  /\ Work' = Work /\ Handles' = Handles /\ Timeouts' = Timeouts
           /\ BackendFails' = BackendFails /\ CopyFails' = CopyFails /\ Calm' = Calm
           /\ \A t : Shards(t)' = Shards(t)
           /\ \A h : KeyOf(h)' = KeyOf(h) /\ TypeOf(h)' = TypeOf(h) /\ IsLast(h)' = IsLast(h)
<1>1. Work' = Work /\ Timeouts' = Timeouts /\ BackendFails' = BackendFails /\ CopyFails' = CopyFails
  BY DEF Work, Timeouts, BackendFails, CopyFails
<1>2. \A t : Shards(t)' = Shards(t)
  BY <1>1 DEF Shards
<1>3. Handles' = Handles
  BY <1>2 DEF Handles
<1> QED
  BY <1>1, <1>2, <1>3 DEF Calm, KeyOf, TypeOf, IsLast

\* Taking the first element off a queue.
LEMMA TailIn ==
    ASSUME NEW S, NEW s \in Seq(S), s # <<>>
    PROVE  /\ Tail(s) \in Seq(S) /\ Head(s) \in S /\ Head(s) \in In(s)
           /\ In(s) = In(Tail(s)) \cup {Head(s)}
           /\ Once(s) => Once(Tail(s)) /\ Head(s) \notin In(Tail(s))
<1>1. Len(s) \in Nat /\ Len(s) # 0 /\ DOMAIN s = 1..Len(s) /\ Head(s) = s[1]
  OBVIOUS
<1>2. /\ Tail(s) \in Seq(S) /\ DOMAIN Tail(s) = 1..(Len(s) - 1)
      /\ \A i \in 1..(Len(s) - 1) : Tail(s)[i] = s[i + 1]
  BY <1>1
<1>3. Head(s) \in S /\ Head(s) \in In(s)
  BY <1>1 DEF In
<1>4. In(s) \subseteq In(Tail(s)) \cup {Head(s)}
  <2> SUFFICES ASSUME NEW i \in 1..Len(s), i # 1 PROVE s[i] \in In(Tail(s))
    BY <1>1 DEF In
  <2>1. i - 1 \in 1..(Len(s) - 1) /\ s[i] = Tail(s)[i - 1]
    BY <1>1, <1>2
  <2> QED
    BY <2>1, <1>2 DEF In
<1>5. In(Tail(s)) \subseteq In(s)
  <2> SUFFICES ASSUME NEW i \in 1..(Len(s) - 1) PROVE Tail(s)[i] \in In(s)
    BY <1>2 DEF In
  <2>1. i + 1 \in 1..Len(s)
    BY <1>1
  <2> QED
    BY <2>1, <1>1, <1>2 DEF In
<1>6. ASSUME Once(s) PROVE Once(Tail(s)) /\ Head(s) \notin In(Tail(s))
  <2>1. ASSUME NEW i \in 1..(Len(s) - 1), NEW j \in 1..(Len(s) - 1), Tail(s)[i] = Tail(s)[j] PROVE i = j
    <3>1. i + 1 \in 1..Len(s) /\ j + 1 \in 1..Len(s) /\ s[i + 1] = s[j + 1]
      BY <1>1, <1>2, <2>1
    <3> QED
      BY <3>1, <1>1, <1>6 DEF Once
  <2>2. ASSUME NEW i \in 1..(Len(s) - 1), Tail(s)[i] = Head(s) PROVE FALSE
    <3>1. i + 1 \in 1..Len(s) /\ 1 \in 1..Len(s) /\ s[i + 1] = s[1] /\ i + 1 # 1
      BY <1>1, <1>2, <2>2
    <3> QED
      BY <3>1, <1>1, <1>6 DEF Once
  <2> QED
    BY <2>1, <2>2, <1>2 DEF Once, In
<1> QED
  BY <1>2, <1>3, <1>4, <1>5, <1>6

\* Adding an element to a queue.
LEMMA AppendIn ==
    ASSUME NEW S, NEW s \in Seq(S), NEW x \in S
    PROVE  /\ Append(s, x) \in Seq(S)
           /\ In(Append(s, x)) = In(s) \cup {x}
           /\ Once(s) /\ x \notin In(s) => Once(Append(s, x))
<1>1. /\ Append(s, x) \in Seq(S) /\ Len(s) \in Nat /\ DOMAIN s = 1..Len(s)
      /\ DOMAIN Append(s, x) = 1..(Len(s) + 1) /\ Append(s, x)[Len(s) + 1] = x
      /\ \A i \in 1..Len(s) : Append(s, x)[i] = s[i]
  OBVIOUS
<1>2. In(Append(s, x)) \subseteq In(s) \cup {x}
  BY <1>1 DEF In
<1>3. In(s) \cup {x} \subseteq In(Append(s, x))
  <2>1. x \in In(Append(s, x))
    BY <1>1 DEF In
  <2>2. ASSUME NEW i \in 1..Len(s) PROVE s[i] \in In(Append(s, x))
    BY <1>1, <2>2 DEF In
  <2> QED
    BY <1>1, <2>1, <2>2 DEF In
<1>4. Once(s) /\ x \notin In(s) => Once(Append(s, x))
  BY <1>1 DEF Once, In
<1> QED
  BY <1>1, <1>2, <1>3, <1>4

\* A queue of handles holds handles.
LEMMA QueueOfHandles ==
    ASSUME mix \in Mixes, NEW s \in Seq(Handles)
    PROVE  In(s) \subseteq Handles /\ NoHandle \notin In(s)
<1>1. In(s) \subseteq Handles
  BY DEF In
<1> QED
  BY <1>1, HandleShape

\* What is behind a shard stays behind it.
LEMMA FollowedTail ==
    ASSUME NEW S, NEW s \in Seq(S), s # <<>>, Followed(s)
    PROVE  Followed(Tail(s))
<1>1. /\ Len(s) \in Nat /\ Len(s) # 0 /\ DOMAIN s = 1..Len(s)
      /\ DOMAIN Tail(s) = 1..(Len(s) - 1)
      /\ \A i \in 1..(Len(s) - 1) : Tail(s)[i] = s[i + 1]
  OBVIOUS
<1> SUFFICES ASSUME NEW i \in 1..(Len(s) - 1)
             PROVE  \E j \in 1..(Len(s) - 1) :
                      j >= i /\ Tail(s)[j] = <<Tail(s)[i][1], Len(Work[Tail(s)[i][1]].keys)>>
  BY <1>1 DEF Followed, LastShard
<1>2. i + 1 \in 1..Len(s) /\ Tail(s)[i] = s[i + 1]
  BY <1>1
<1>3. PICK j \in 1..Len(s) : j >= i + 1 /\ s[j] = <<s[i + 1][1], Len(Work[s[i + 1][1]].keys)>>
  BY <1>1, <1>2 DEF Followed, LastShard
<1>4. j - 1 \in 1..(Len(s) - 1) /\ j - 1 >= i /\ Tail(s)[j - 1] = s[j]
  BY <1>1, <1>3
<1> QED
  BY <1>2, <1>3, <1>4

\* A load's shards join running_ in their order.
LEMMA ConcatIn ==
    ASSUME mix \in Mixes, NEW s \in Seq(Handles), NEW t \in Tasks, t \in DOMAIN Work
    PROVE  /\ s \o AllOf(t) \in Seq(Handles)
           /\ In(s \o AllOf(t)) = In(s) \cup {<<t, i>> : i \in Shards(t)}
           /\ Followed(s) => Followed(s \o AllOf(t))
           /\ Once(s) /\ (\A h \in In(s) : h[1] # t) => Once(s \o AllOf(t))
<1> DEFINE n == Len(Work[t].keys)
           r == AllOf(t)
           z == s \o r
<1>1. Work[t].keys \in Seq(Keys) \ {<<>>}
  BY TransferAssumption DEF MixShape, Work
<1>2. n \in Nat \ {0} /\ Shards(t) = 1..n
  BY <1>1 DEF Shards
<1>3. r = [i \in 1..n |-> <<t, i>>] /\ \A i \in 1..n : <<t, i>> \in Handles
  BY <1>2, HandleOf DEF AllOf
<1>4. r \in Seq(Handles) /\ Len(r) = n
  BY <1>2, <1>3
<1>5. /\ z \in Seq(Handles) /\ Len(s) \in Nat /\ DOMAIN s = 1..Len(s) /\ DOMAIN z = 1..(Len(s) + n)
      /\ \A i \in 1..Len(s) : z[i] = s[i]
      /\ \A i \in 1..n : z[Len(s) + i] = <<t, i>>
  <2>1. z \in Seq(Handles) /\ Len(z) = Len(s) + Len(r) /\ Len(s) \in Nat
    BY <1>4
  <2>2. \A i \in 1..(Len(s) + Len(r)) : z[i] = IF i <= Len(s) THEN s[i] ELSE r[i - Len(s)]
    BY <1>4
  <2>3. ASSUME NEW i \in 1..n PROVE z[Len(s) + i] = <<t, i>>
    <3>1. Len(s) + i \in 1..(Len(s) + Len(r)) /\ ~(Len(s) + i <= Len(s)) /\ Len(s) + i - Len(s) = i
      BY <2>1, <1>4
    <3> QED
      BY <2>2, <3>1, <1>3
  <2> QED
    BY <1>4, <2>1, <2>2, <2>3
<1> HIDE DEF n, r, z
<1>6. \A i \in 1..(Len(s) + n) : i \in 1..Len(s) \/ (i - Len(s) \in 1..n /\ z[i] = <<t, i - Len(s)>>)
  <2> SUFFICES ASSUME NEW i \in 1..(Len(s) + n), i \notin 1..Len(s)
               PROVE  i - Len(s) \in 1..n /\ z[i] = <<t, i - Len(s)>>
    OBVIOUS
  <2>1. i - Len(s) \in 1..n /\ Len(s) + (i - Len(s)) = i
    BY <1>2, <1>5
  <2> QED
    BY <2>1, <1>5
<1>7. In(z) = In(s) \cup {<<t, i>> : i \in 1..n}
  <2>1. In(z) \subseteq In(s) \cup {<<t, i>> : i \in 1..n}
    BY <1>5, <1>6 DEF In
  <2>2. ASSUME NEW i \in 1..Len(s) PROVE s[i] \in In(z)
    <3>1. i \in 1..(Len(s) + n)
      BY <1>2, <1>5
    <3> QED
      BY <3>1, <1>5 DEF In
  <2>3. ASSUME NEW i \in 1..n PROVE <<t, i>> \in In(z)
    <3>1. Len(s) + i \in 1..(Len(s) + n)
      BY <1>2, <1>5
    <3> QED
      BY <3>1, <1>5 DEF In
  <2> QED
    BY <2>1, <2>2, <2>3, <1>5 DEF In
<1>8. ASSUME Followed(s) PROVE Followed(z)
  <2> SUFFICES ASSUME NEW i \in 1..(Len(s) + n)
               PROVE  \E j \in 1..(Len(s) + n) : j >= i /\ z[j] = <<z[i][1], Len(Work[z[i][1]].keys)>>
    BY <1>5 DEF Followed, LastShard
  <2>1. CASE i \in 1..Len(s)
    <3>1. PICK j \in 1..Len(s) : j >= i /\ s[j] = <<s[i][1], Len(Work[s[i][1]].keys)>>
      BY <1>5, <1>8, <2>1 DEF Followed, LastShard
    <3>2. j \in 1..(Len(s) + n)
      BY <1>2, <1>5
    <3> QED
      BY <2>1, <3>1, <3>2, <1>5
  <2>2. CASE i \notin 1..Len(s)
    <3>1. z[i][1] = t
      BY <1>6, <2>2
    <3>2. n \in 1..n /\ Len(s) + n \in 1..(Len(s) + n) /\ Len(s) + n >= i
      BY <1>2, <1>5
    <3>3. z[Len(s) + n] = <<t, n>>
      BY <1>5, <3>2
    <3> QED
      BY <3>1, <3>2, <3>3 DEF n
  <2> QED
    BY <2>1, <2>2
<1>9. ASSUME Once(s), \A h \in In(s) : h[1] # t PROVE Once(z)
  <2> SUFFICES ASSUME NEW i \in 1..(Len(s) + n), NEW j \in 1..(Len(s) + n), z[i] = z[j] PROVE i = j
    BY <1>5 DEF Once
  <2>1. \A k \in 1..Len(s) : z[k][1] # t
    BY <1>5, <1>9 DEF In
  <2>2. CASE i \in 1..Len(s) /\ j \in 1..Len(s)
    BY <2>2, <1>5, <1>9 DEF Once
  <2>3. CASE i \notin 1..Len(s) /\ j \notin 1..Len(s)
    <3>1. <<t, i - Len(s)>> = <<t, j - Len(s)>>
      BY <1>6, <2>3
    <3> QED
      BY <3>1, <1>5
  <2> QED
    BY <1>6, <2>1, <2>2, <2>3
<1> QED
  BY <1>2, <1>5, <1>7, <1>8, <1>9 DEF n, r, z

-----------------------------------------------------------------------------
(* The buffer.                                                             *)

\* A node with a handle on it has a reference (trans_buffer.cc:484).
LEMMA HeldIsReferenced ==
    ASSUME TypeOK, Counts, NEW h \in Handles, at[h] # NoNode
    PROVE  at[h] \in Nodes /\ ref[at[h]] > 0
<1>1. at[h] \in Nodes
  BY DEF TypeOK
<1>2. h \in HoldersOf(at[h])
  BY DEF HoldersOf
<1>3. Cardinality(HoldersOf(at[h])) # 0 /\ Cardinality(HoldersOf(at[h])) \in Nat
  BY <1>1, <1>2, FS_EmptySet, FS_CardinalityType DEF Counts
<1> QED
  BY <1>1, <1>3 DEF Counts

\* Dropping handles takes them from the counts of their nodes (Handle's destructor).
LEMMA ReleaseCounts ==
    ASSUME TypeOK, Counts, NEW H \in SUBSET Handles, Release(H), Handles' = Handles
    PROVE  /\ Counts'
           /\ ref' \in [Nodes -> Nat] /\ at' \in [Handles -> Nodes \cup {NoNode}]
           /\ own' \in [Handles -> BOOLEAN]
<1> SUFFICES ASSUME NEW n \in Nodes
             PROVE  IsFiniteSet(HoldersOf(n)') /\ ref'[n] = Cardinality(HoldersOf(n)') /\ ref'[n] \in Nat
  BY DEF Counts, Release, TypeOK
<1> DEFINE D == {h \in H : at[h] = n}
           S == HoldersOf(n)
<1>1. n # NoNode
  BY TransferAssumption
<1>2. IsFiniteSet(S) /\ ref[n] = Cardinality(S) /\ Cardinality(S) \in Nat
  BY FS_CardinalityType DEF Counts
<1>3. D \in SUBSET S
  BY DEF HoldersOf
<1>4. HoldersOf(n)' = S \ D
  BY <1>1 DEF HoldersOf, Release
<1>5. IsFiniteSet(S \ D) /\ IsFiniteSet(D)
  <2>1. S \ D \in SUBSET S
    OBVIOUS
  <2> QED
    BY <1>2, <1>3, <2>1, FS_Subset
<1>6. Cardinality(S) = Cardinality(S \ D) + Cardinality(D)
  <2>1. (S \ D) \cup D = S /\ (S \ D) \cap D = {}
    BY <1>3
  <2>2. Cardinality(S) = Cardinality(S \ D) + Cardinality(D) - Cardinality({})
    BY <1>5, <2>1, FS_Union
  <2> QED
    BY <1>5, <2>2, FS_EmptySet, FS_CardinalityType
<1>7. ref'[n] = ref[n] - Cardinality(D)
  BY DEF Release
<1>8. Cardinality(S \ D) \in Nat /\ Cardinality(D) \in Nat
  BY <1>5, FS_CardinalityType
<1> HIDE DEF D, S
<1>9. ref'[n] = Cardinality(S \ D)
  BY <1>2, <1>6, <1>7, <1>8
<1> QED
  BY <1>4, <1>5, <1>8, <1>9

\* Taking a handle adds one to its node's count (TransBuffer::Get).
LEMMA GetCounts ==
    ASSUME TypeOK, Counts, mix \in Mixes, Handles' = Handles,
           NEW h \in Handles, NEW n \in Nodes, at[h] = NoNode, Get(h, n)
    PROVE  /\ Counts'
           /\ key' \in [Nodes -> Keys \cup {NoKey}] /\ ready' \in [Nodes -> BOOLEAN]
           /\ ref' \in [Nodes -> Nat] /\ at' \in [Handles -> Nodes \cup {NoNode}]
           /\ own' \in [Handles -> BOOLEAN]
<1>1. n # NoNode /\ NoNode \notin Nodes
  BY TransferAssumption
<1>2. at' = [at EXCEPT ![h] = n] /\ ref' = [ref EXCEPT ![n] = ref[n] + 1]
  BY DEF Get, TypeOK
<1>3. ASSUME NEW m \in Nodes PROVE IsFiniteSet(HoldersOf(m)') /\ ref'[m] = Cardinality(HoldersOf(m)')
  <2>1. IsFiniteSet(HoldersOf(m)) /\ ref[m] = Cardinality(HoldersOf(m)) /\ ref[m] \in Nat
    BY DEF Counts, TypeOK
  <2>2. CASE m = n
    <3>1. HoldersOf(m)' = HoldersOf(m) \cup {h} /\ h \notin HoldersOf(m)
      BY <1>1, <1>2, <2>2 DEF HoldersOf, TypeOK
    <3>2. IsFiniteSet(HoldersOf(m)') /\ Cardinality(HoldersOf(m)') = Cardinality(HoldersOf(m)) + 1
      BY <2>1, <3>1, FS_AddElement
    <3> QED
      BY <1>2, <2>1, <2>2, <3>2 DEF TypeOK
  <2>3. CASE m # n
    <3>1. HoldersOf(m)' = HoldersOf(m)
      BY <1>1, <1>2, <2>3 DEF HoldersOf, TypeOK
    <3> QED
      BY <1>2, <2>1, <2>3, <3>1 DEF TypeOK
  <2> QED
    BY <2>2, <2>3
<1>4. Counts'
  BY <1>3 DEF Counts
<1>5. KeyOf(h) \in Keys
  BY HandleShape
<1>6. ref' \in [Nodes -> Nat] /\ at' \in [Handles -> Nodes \cup {NoNode}]
  BY <1>2 DEF TypeOK
<1>7. key' = key \/ key' = [key EXCEPT ![n] = KeyOf(h)]
  BY DEF Get
<1>8. ready' = ready \/ ready' = [ready EXCEPT ![n] = FALSE]
  BY DEF Get
<1>9. own' = [own EXCEPT ![h] = (ref[n] = 0)] \/ own' = [own EXCEPT ![h] = TRUE]
  BY DEF Get
<1>10. key' \in [Nodes -> Keys \cup {NoKey}]
  BY <1>5, <1>7 DEF TypeOK
<1>11. ready' \in [Nodes -> BOOLEAN]
  BY <1>8 DEF TypeOK
<1>12. own' \in [Handles -> BOOLEAN]
  BY <1>9 DEF TypeOK
<1> QED
  BY <1>4, <1>6, <1>10, <1>11, <1>12

-----------------------------------------------------------------------------
(* Types and counts.                                                       *)

\* Without a change to the handles the counts stay.
LEMMA CountsFrame ==
    ASSUME Counts, Handles' = Handles, UNCHANGED <<ref, at>>
    PROVE  Counts'
<1>1. \A n \in Nodes : HoldersOf(n)' = HoldersOf(n)
  BY DEF HoldersOf
<1> QED
  BY <1>1 DEF Counts

\* Every step keeps the types, and the counts of the buffer's nodes.
LEMMA TypeStep ==
    ASSUME Shape, Next
    PROVE  TypeOK' /\ Counts'
<1> USE DEF Queues
<1>1. TypeOK /\ Counts /\ mix \in Mixes /\ mix' = mix /\ Handles' = Handles
  BY MixStays DEF Shape, Next
<1>2. NoTask \notin Tasks /\ NoNode \notin Nodes /\ NoKey \notin Keys
  BY TransferAssumption
<1>3. \A h \in Handles : h[1] \in Tasks /\ KeyOf(h) \in Keys /\ h # NoHandle
  BY <1>1, HandleShape
<1>4. \A t : Held(t) \in SUBSET Handles
  BY DEF Held
<1>5. \A h \in Handles : {h} \in SUBSET Handles
  OBVIOUS
<1>6. ASSUME UNCHANGED pool PROVE Counts'
  BY <1>1, <1>6, CountsFrame DEF pool
<1>10. ASSUME NEW t \in Tasks, Submit(t) PROVE TypeOK' /\ Counts'
  <2>1. Work[t].type \in Queues
    <3>1. MixShape(mix) /\ t \in DOMAIN Work
      BY <1>1, <1>10, TransferAssumption DEF Submit
    <3> QED
      BY <3>1 DEF MixShape, Work
  <2>2. waiting' \in [Queues -> Seq(Tasks)] /\ UNCHANGED pool
    <3>1. waiting' = waiting \/ waiting' = [waiting EXCEPT ![Work[t].type] = Append(waiting[Work[t].type], t)]
      BY <1>10 DEF Submit
    <3>2. waiting[Work[t].type] \in Seq(Tasks)
      BY <1>1, <2>1 DEF TypeOK
    <3>3. Append(waiting[Work[t].type], t) \in Seq(Tasks)
      BY <3>2, AppendIn
    <3>4. waiting' \in [Queues -> Seq(Tasks)]
      BY <1>1, <2>1, <3>1, <3>3 DEF TypeOK
    <3>5. UNCHANGED pool
      BY <1>10 DEF Submit
    <3> QED
      BY <3>4, <3>5
  <2> QED
    BY <1>1, <1>6, <1>10, <2>2 DEF Submit, TypeOK, pool, transfer, backend, memory
<1>11. ASSUME NEW t \in Tasks, Waits(t) PROVE TypeOK' /\ Counts'
  BY <1>1, <1>6, <1>11 DEF Waits, WaitReturns, TimeOut, LateReturns, TypeOK, pool, dispatchers, transfer, backend, memory
<1>12. ASSUME NEW q \in Queues, Take(q) PROVE TypeOK' /\ Counts'
  <2>1. Head(waiting[q]) \in Tasks /\ waiting' \in [Queues -> Seq(Tasks)]
    BY <1>1, <1>12, TailIn DEF Take, TypeOK
  <2> QED
    BY <1>1, <1>6, <1>12, <2>1 DEF Take, Done, TypeOK, pool, transfer, backend, memory
<1>13. ASSUME LoadGet PROVE TypeOK' /\ Counts'
  <2> DEFINE h == <<task["load"], shard["load"]>>
  <2>1. h \in Handles /\ at[h] = NoNode
    <3>1. h \in Handles /\ h[1] = task["load"] /\ h[2] = shard["load"] /\ task["load"] \in Tasks
      BY <1>3, <1>13 DEF LoadGet
    <3>2. shard["load"] \in Nat /\ \A g \in Held(task["load"]) : g[2] < shard["load"]
      BY <1>1, <3>1 DEF Shape, Stage, InDispatch, TypeOK
    <3> QED
      BY <3>1, <3>2 DEF Held
  <2> HIDE DEF h
  <2>2. PICK n \in Nodes : Get(h, n)
    BY <1>13 DEF LoadGet, h
  <2>3. /\ Counts' /\ key' \in [Nodes -> Keys \cup {NoKey}] /\ ready' \in [Nodes -> BOOLEAN]
        /\ ref' \in [Nodes -> Nat] /\ at' \in [Handles -> Nodes \cup {NoNode}]
        /\ own' \in [Handles -> BOOLEAN]
    BY <1>1, <2>1, <2>2, GetCounts
  <2>4. /\ UNCHANGED <<status, latch, failureSet, waiting, task, running, current, holder, syncing, finished>>
        /\ UNCHANGED <<dumping, todo, broken, copies, data, dst, stored>>
    BY <1>13 DEF LoadGet, clients, transfer, backend, memory
  <2>5. shard' \in [Queues -> Nat]
    BY <1>1, <1>13 DEF LoadGet, TypeOK
  <2> QED
    BY <1>1, <2>3, <2>4, <2>5 DEF TypeOK
<1>14. ASSUME LoadDispatch PROVE TypeOK' /\ Counts'
  <2> DEFINE t == task["load"]
             missing == {h \in Held(t) : own[h] /\ ~ready[at[h]]}
  <2>1. t \in Tasks /\ t \in DOMAIN Work
    BY <1>1, <1>14 DEF LoadDispatch, Gathered, TypeOK, Shape, Stage, InDispatch
  <2>2. /\ key' = key /\ ready' = ready /\ UNCHANGED <<data, dst, stored, status, waiting, shard>>
        /\ UNCHANGED <<current, holder, syncing, finished, dumping, broken, copies>>
        /\ task' \in [Queues -> Tasks \cup {NoTask}]
    BY <1>1, <1>14 DEF LoadDispatch, Idle, TypeOK, memory
  <2>3. CASE /\ todo' = [todo EXCEPT ![t] = {<<h, at[h]>> : h \in missing}]
             /\ running' = running \o AllOf(t)
             /\ UNCHANGED <<latch, failureSet, ref, at, own>>
    <3>1. {<<h, at[h]>> : h \in missing} \subseteq Handles \X Nodes
      BY <1>1 DEF Held, TypeOK
    <3>2. running' \in Seq(Handles)
      BY <1>1, <2>1, <2>3, ConcatIn DEF TypeOK
    <3>3. todo' \in [Tasks -> SUBSET (Handles \X Nodes)]
      BY <1>1, <2>1, <2>3, <3>1 DEF TypeOK
    <3>4. Counts'
      BY <1>1, <2>3, CountsFrame
    <3> QED
      BY <1>1, <2>2, <2>3, <3>2, <3>3, <3>4 DEF TypeOK
  <2>4. CASE Fail(t) /\ Release(Held(t)) /\ UNCHANGED <<todo, running>>
    <3>1. Counts' /\ ref' \in [Nodes -> Nat] /\ at' \in [Handles -> Nodes \cup {NoNode}] /\ own' \in [Handles -> BOOLEAN]
      BY <1>1, <1>4, <2>4, ReleaseCounts
    <3> QED
      BY <1>1, <2>1, <2>2, <2>4, <3>1 DEF TypeOK, Fail, Done
  <2> QED
    BY <1>14, <2>3, <2>4 DEF LoadDispatch
<1>15. ASSUME TransferTake PROVE TypeOK' /\ Counts'
  <2>1. Head(running) \in Handles /\ running' \in Seq(Handles)
    BY <1>1, <1>15, TailIn DEF TransferTake, TypeOK
  <2>2. /\ UNCHANGED <<key, ready, data, dst, stored, status, failureSet, waiting, task, shard>>
        /\ UNCHANGED <<holder, syncing, finished, dumping, todo, broken, copies>>
    BY <1>15 DEF TransferTake, dispatchers, backend
  <2>3. CASE Head(running)[1] \in failureSet
    <3>1. Release({Head(running)}) /\ current' = current /\ latch' \in SUBSET Tasks
      BY <1>1, <1>15, <2>3 DEF TransferTake, Done, TypeOK
    <3>2. Counts' /\ ref' \in [Nodes -> Nat] /\ at' \in [Handles -> Nodes \cup {NoNode}] /\ own' \in [Handles -> BOOLEAN]
      BY <1>1, <1>5, <2>1, <3>1, ReleaseCounts
    <3> QED
      BY <1>1, <2>1, <2>2, <3>1, <3>2 DEF TypeOK
  <2>4. CASE Head(running)[1] \notin failureSet
    <3>1. current' = Head(running) /\ UNCHANGED <<latch, ref, at, own>>
      BY <1>15, <2>4 DEF TransferTake
    <3> QED
      BY <1>1, <2>1, <2>2, <3>1, CountsFrame DEF TypeOK
  <2> QED
    BY <2>3, <2>4
<1>16. ASSUME ShardToDevice PROVE TypeOK' /\ Counts'
  <2>1. current \in Handles /\ at[current] # NoNode
    <3>1. current \in Handles /\ current # NoHandle
      BY <1>1, <1>16 DEF ShardToDevice, TypeOK
    <3> QED
      BY <1>1, <1>3, <3>1 DEF Shape, Stage, InHand, InTransfer
  <2>2. at[current] \in Nodes /\ current[1] \in Tasks
    BY <1>1, <1>3, <2>1 DEF TypeOK
  <2>3. ready' \in [Nodes -> BOOLEAN]
    BY <1>1, <1>16 DEF ShardToDevice, MarkReady, TypeOK
  <2>4. Counts'
    BY <1>1, <1>16, CountsFrame DEF ShardToDevice
  <2>5. /\ UNCHANGED <<key, ref, at, own, status, latch, failureSet, waiting, task, shard, running>>
        /\ UNCHANGED <<dumping, todo, broken, data, dst, stored>>
    BY <1>16 DEF ShardToDevice, clients, dispatchers, backend, memory
  <2>6. finished' \in Tasks \cup {NoTask} /\ copies' \subseteq Handles \X Nodes
    BY <1>1, <1>16, <2>1, <2>2 DEF ShardToDevice, TypeOK
  <2>7. syncing' \in BOOLEAN /\ current' \in Handles \cup {NoHandle} /\ holder' \subseteq Handles
    BY <1>1, <1>16, <2>1 DEF ShardToDevice, TypeOK
  <2> QED
    BY <1>1, <2>3, <2>4, <2>5, <2>6, <2>7 DEF TypeOK
<1>17. ASSUME ShardFails PROVE TypeOK' /\ Counts'
  <2>1. current \in Handles /\ current[1] \in Tasks
    BY <1>1, <1>3, <1>17 DEF ShardFails, TypeOK
  <2>2. Release({current}) /\ current' = NoHandle /\ syncing' = FALSE
    BY <1>17 DEF ShardFails, Finish
  <2>3. Counts' /\ ref' \in [Nodes -> Nat] /\ at' \in [Handles -> Nodes \cup {NoNode}] /\ own' \in [Handles -> BOOLEAN]
    BY <1>1, <1>5, <2>1, <2>2, ReleaseCounts
  <2>4. ready' \in [Nodes -> BOOLEAN] /\ finished' \in Tasks \cup {NoTask}
    BY <1>1, <1>17, <2>1 DEF ShardFails, MarkReady, TypeOK
  <2>5. failureSet' \in SUBSET Tasks /\ latch' \in SUBSET Tasks
    BY <1>1, <1>17, <2>1 DEF ShardFails, Done, TypeOK
  <2>6. UNCHANGED <<key, status, waiting, task, shard, running, holder, dumping, todo, broken, copies, data, dst, stored>>
    BY <1>17 DEF ShardFails, dispatchers, backend, memory
  <2> QED
    BY <1>1, <2>2, <2>3, <2>4, <2>5, <2>6 DEF TypeOK
<1>18. ASSUME TransferSync PROVE TypeOK' /\ Counts'
  <2>1. current \in Handles /\ current[1] \in Tasks
    BY <1>1, <1>3, <1>18 DEF TransferSync, TypeOK, Shape, Order
  <2>2. Release(holder \cup {current}) /\ current' = NoHandle /\ syncing' = FALSE /\ holder' = {}
    BY <1>18 DEF TransferSync, Finish
  <2>3. holder \cup {current} \in SUBSET Handles
    BY <1>1, <2>1 DEF TypeOK
  <2>4. Counts' /\ ref' \in [Nodes -> Nat] /\ at' \in [Handles -> Nodes \cup {NoNode}] /\ own' \in [Handles -> BOOLEAN]
    BY <1>1, <2>2, <2>3, ReleaseCounts
  <2>5. failureSet' \in SUBSET Tasks /\ latch' \in SUBSET Tasks
    BY <1>1, <1>18, <2>1 DEF TransferSync, Done, TypeOK
  <2>6. UNCHANGED <<key, ready, status, waiting, task, shard, running, finished, dumping, todo, broken, copies, data, dst, stored>>
    BY <1>18 DEF TransferSync, dispatchers, backend, memory
  <2> QED
    BY <1>1, <2>2, <2>4, <2>5, <2>6 DEF TypeOK
<1>19. ASSUME DumpGet PROVE TypeOK' /\ Counts'
  <2> DEFINE h == <<task["dump"], shard["dump"]>>
  <2>1. h \in Handles /\ at[h] = NoNode
    <3>1. h \in Handles /\ h[1] = task["dump"] /\ h[2] = shard["dump"] /\ task["dump"] \in Tasks
      BY <1>3, <1>19 DEF DumpGet
    <3>2. shard["dump"] \in Nat /\ \A g \in Held(task["dump"]) : g[2] < shard["dump"]
      BY <1>1, <3>1 DEF Shape, Stage, InDispatch, TypeOK
    <3> QED
      BY <3>1, <3>2 DEF Held
  <2>2. /\ UNCHANGED <<status, latch, failureSet, waiting, task, running, current, holder, syncing, finished>>
        /\ UNCHANGED <<dumping, todo, broken, data, dst, stored>>
        /\ shard' \in [Queues -> Nat]
    BY <1>1, <1>19 DEF DumpGet, TypeOK, clients, transfer, backend, memory
  <2> HIDE DEF h
  <2>3. CASE UNCHANGED <<pool, copies>>
    BY <1>1, <1>6, <2>2, <2>3 DEF TypeOK, pool
  <2>4. CASE \E n \in Nodes : /\ ref[n] = 0
                              /\ Get(h, n)
                              /\ copies' = IF ready'[n] THEN copies ELSE copies \cup {<<h, n>>}
    <3>1. PICK n \in Nodes : Get(h, n) /\ copies' = IF ready'[n] THEN copies ELSE copies \cup {<<h, n>>}
      BY <2>4
    <3>2. copies' \in SUBSET (Handles \X Nodes)
      BY <1>1, <2>1, <3>1 DEF TypeOK
    <3>3. /\ Counts' /\ key' \in [Nodes -> Keys \cup {NoKey}] /\ ready' \in [Nodes -> BOOLEAN]
          /\ ref' \in [Nodes -> Nat] /\ at' \in [Handles -> Nodes \cup {NoNode}]
          /\ own' \in [Handles -> BOOLEAN]
      BY <1>1, <2>1, <3>1, GetCounts
    <3> QED
      BY <1>1, <2>2, <3>2, <3>3 DEF TypeOK
  <2> QED
    BY <1>19, <2>3, <2>4 DEF DumpGet, h
<1>20. ASSUME DumpGetFails PROVE TypeOK' /\ Counts'
  <2> DEFINE h == <<task["dump"], shard["dump"]>>
  <2>1. h \in Handles /\ task["dump"] \in Tasks /\ KeyOf(h) \in Keys
    BY <1>3, <1>20 DEF DumpGetFails
  <2>2. key' \in [Nodes -> Keys \cup {NoKey}] /\ ready' \in [Nodes -> BOOLEAN]
    <3> HIDE DEF h
    <3> QED
      BY <1>1, <1>20, <2>1 DEF DumpGetFails, TypeOK, h
  <2>3. Release(Held(task["dump"])) /\ Fail(task["dump"]) /\ Idle("dump")
    BY <1>20 DEF DumpGetFails, DumpFails
  <2>4. Counts' /\ ref' \in [Nodes -> Nat] /\ at' \in [Handles -> Nodes \cup {NoNode}] /\ own' \in [Handles -> BOOLEAN]
    BY <1>1, <1>4, <2>3, ReleaseCounts
  <2>5. failureSet' \in SUBSET Tasks /\ latch' \in SUBSET Tasks /\ task' \in [Queues -> Tasks \cup {NoTask}]
    BY <1>1, <2>1, <2>3 DEF Fail, Done, Idle, TypeOK
  <2>6. UNCHANGED <<status, waiting, shard, running, current, holder, syncing, finished, dumping, todo, broken, copies, data, dst, stored>>
    BY <1>20 DEF DumpGetFails, transfer, backend, memory
  <2> QED
    BY <1>1, <2>2, <2>4, <2>5, <2>6 DEF TypeOK
<1>21. ASSUME DumpDispatch PROVE TypeOK' /\ Counts'
  <2> DEFINE t == task["dump"]
             H == Held(t)
  <2>1. t \in Tasks
    BY <1>1, <1>21 DEF DumpDispatch, Gathered, TypeOK
  <2>2. ready' \in [Nodes -> BOOLEAN]
    BY <1>1, <1>21 DEF DumpDispatch, MarkReady, TypeOK
  <2>3. {<<h, at[h]>> : h \in H} \subseteq Handles \X Nodes
    BY <1>1 DEF Held, TypeOK
  <2>4. UNCHANGED <<todo, dumping>> \/ (todo' = [todo EXCEPT ![t] = {<<h, at[h]>> : h \in H}] /\ dumping' = Append(dumping, t))
    BY <1>21 DEF DumpDispatch
  <2>5. todo' \in [Tasks -> SUBSET (Handles \X Nodes)] /\ dumping' \in Seq(Tasks)
    <3> HIDE DEF t, H
    <3>1. CASE UNCHANGED <<todo, dumping>>
      BY <1>1, <3>1 DEF TypeOK
    <3>2. CASE todo' = [todo EXCEPT ![t] = {<<h, at[h]>> : h \in H}] /\ dumping' = Append(dumping, t)
      <4>1. Append(dumping, t) \in Seq(Tasks)
        BY <1>1, <2>1, AppendIn DEF TypeOK
      <4>2. todo' \in [Tasks -> SUBSET (Handles \X Nodes)]
        BY <1>1, <2>1, <2>3, <3>2 DEF TypeOK
      <4> QED
        BY <3>2, <4>1, <4>2
    <3> QED
      BY <2>4, <3>1, <3>2
  <2>6. latch' \in SUBSET Tasks /\ task' \in [Queues -> Tasks \cup {NoTask}]
    BY <1>1, <1>21 DEF DumpDispatch, Done, Idle, TypeOK
  <2>7. UNCHANGED <<key, ref, at, own, status, failureSet, waiting, shard, running, current, holder, syncing, finished,
                    broken, copies, data, dst, stored>>
    BY <1>21 DEF DumpDispatch, transfer, memory
  <2> QED
    BY <1>1, <2>2, <2>5, <2>6, <2>7, CountsFrame DEF TypeOK
<1>22. ASSUME DumpDispatchFails PROVE TypeOK' /\ Counts'
  <2>1. task["dump"] \in Tasks
    BY <1>1, <1>22 DEF DumpDispatchFails, Gathered, TypeOK
  <2>2. Release(Held(task["dump"])) /\ Fail(task["dump"]) /\ Idle("dump")
    BY <1>22 DEF DumpDispatchFails, DumpFails
  <2>3. ready' \in [Nodes -> BOOLEAN]
    BY <1>1, <1>22 DEF DumpDispatchFails, MarkReady, TypeOK
  <2>4. Counts' /\ ref' \in [Nodes -> Nat] /\ at' \in [Handles -> Nodes \cup {NoNode}] /\ own' \in [Handles -> BOOLEAN]
    BY <1>1, <1>4, <2>2, ReleaseCounts
  <2>5. failureSet' \in SUBSET Tasks /\ latch' \in SUBSET Tasks /\ task' \in [Queues -> Tasks \cup {NoTask}]
    BY <1>1, <2>1, <2>2 DEF Fail, Done, Idle, TypeOK
  <2>6. UNCHANGED <<key, status, waiting, shard, running, current, holder, syncing, finished, dumping, todo, broken, copies, data, dst, stored>>
    BY <1>22 DEF DumpDispatchFails, transfer, backend, memory
  <2> QED
    BY <1>1, <2>3, <2>4, <2>5, <2>6 DEF TypeOK
<1>23. ASSUME Dumper PROVE TypeOK' /\ Counts'
  <2>1. dumping' \in Seq(Tasks)
    BY <1>1, <1>23, TailIn DEF Dumper, TypeOK
  <2>2. Counts' /\ ref' \in [Nodes -> Nat] /\ at' \in [Handles -> Nodes \cup {NoNode}] /\ own' \in [Handles -> BOOLEAN]
    BY <1>1, <1>4, <1>23, ReleaseCounts DEF Dumper
  <2>3. UNCHANGED <<key, ready, status, latch, failureSet, waiting, task, shard, running, current, holder, syncing, finished,
                    todo, broken, copies, data, dst, stored>>
    BY <1>23 DEF Dumper, clients, dispatchers, transfer, backend, memory
  <2> QED
    BY <1>1, <2>1, <2>2, <2>3 DEF TypeOK
<1>24. ASSUME NEW c \in copies, Copy(c) PROVE TypeOK' /\ Counts'
  <2>1. c \in Handles \X Nodes /\ c[1] \in Handles /\ c[2] \in Nodes
    BY <1>1 DEF TypeOK
  <2>2. KeyOf(c[1]) \in Keys
    BY <1>3, <2>1
  <2>3. dst' \in [Handles -> Bytes] /\ data' \in [Nodes -> Bytes] /\ copies' \subseteq Handles \X Nodes
    <3>1. data[c[2]] \in Bytes /\ KeyOf(c[1]) \in Bytes
      BY <1>1, <2>1, <2>2 DEF TypeOK, Bytes
    <3>2. dst' = dst \/ dst' = [dst EXCEPT ![c[1]] = data[c[2]]]
      BY <1>24 DEF Copy
    <3>3. data' = data \/ data' = [data EXCEPT ![c[2]] = KeyOf(c[1])]
      BY <1>24 DEF Copy
    <3>4. copies' \subseteq copies
      BY <1>24 DEF Copy
    <3>5. dst' \in [Handles -> Bytes]
      BY <1>1, <3>1, <3>2 DEF TypeOK
    <3>6. data' \in [Nodes -> Bytes]
      BY <1>1, <3>1, <3>3 DEF TypeOK
    <3>7. copies' \subseteq Handles \X Nodes
      BY <1>1, <3>4 DEF TypeOK
    <3> QED
      BY <3>5, <3>6, <3>7
  <2>4. UNCHANGED pool
    BY <1>24 DEF Copy
  <2> QED
    BY <1>1, <1>6, <1>24, <2>3, <2>4 DEF Copy, TypeOK, pool, clients, dispatchers, transfer, backend
<1>25. ASSUME NEW t \in Tasks, NEW s \in todo[t], BackendShard(t, s) PROVE TypeOK' /\ Counts'
  <2>1. s[1] \in Handles /\ s[2] \in Nodes
    BY <1>1 DEF TypeOK
  <2>2. KeyOf(s[1]) \in Keys
    BY <1>3, <2>1
  <2>3. data' \in [Nodes -> Bytes] /\ stored' \in [Keys -> Bytes] /\ broken' \subseteq Tasks
    BY <1>1, <1>25, <2>1, <2>2 DEF BackendShard, TypeOK, Bytes
  <2>4. todo' \in [Tasks -> SUBSET (Handles \X Nodes)]
    BY <1>1, <1>25 DEF BackendShard, TypeOK
  <2>5. UNCHANGED pool
    BY <1>25 DEF BackendShard
  <2> QED
    BY <1>1, <1>6, <1>25, <2>3, <2>4, <2>5 DEF BackendShard, TypeOK, pool, clients, dispatchers, transfer
<1> QED
  BY <1>10, <1>11, <1>12, <1>13, <1>14, <1>15, <1>16, <1>17, <1>18, <1>19, <1>20, <1>21, <1>22, <1>23, <1>24, <1>25
     DEF Next, Step, LoadDispatcher, LoadTransfer, DumpDispatcher, External

-----------------------------------------------------------------------------
(* Keys and owners.                                                        *)

\* Dropping handles, and giving a free node a key no node has.
LEMMA DropBuffers ==
    ASSUME TypeOK, Buffers, mix \in Mixes, mix' = mix,
           \A h \in Handles : at'[h] \in {at[h], NoNode} /\ (own'[h] => own[h] /\ at'[h] = at[h]),
           \/ key' = key
           \/ \E n \in Nodes, k \in Keys :
                /\ key' = [key EXCEPT ![n] = k]
                /\ \A h \in Handles : at'[h] # n
                /\ \A m \in Nodes : key[m] # k
    PROVE  Buffers'
<1>1. Handles' = Handles /\ \A h : KeyOf(h)' = KeyOf(h)
  BY MixStays
<1>2. ASSUME NEW h \in Handles, at'[h] # NoNode PROVE key'[at'[h]] = KeyOf(h)
  <2>1. at'[h] = at[h] /\ key[at[h]] = KeyOf(h)
    BY <1>2 DEF Buffers
  <2>2. key'[at'[h]] = key[at'[h]]
    BY <1>2, <2>1 DEF TypeOK
  <2> QED
    BY <2>1, <2>2
<1>3. ASSUME NEW h \in Handles, own'[h] PROVE at'[h] # NoNode
  BY <1>3 DEF Buffers
<1>4. ASSUME NEW h \in Handles, NEW g \in Handles, own'[h], own'[g], at'[h] = at'[g] PROVE h = g
  BY <1>4 DEF Buffers
<1>5. ASSUME NEW n \in Nodes, NEW m \in Nodes, key'[n] = key'[m], key'[n] # NoKey PROVE n = m
  <2>1. CASE key' = key
    BY <1>5, <2>1 DEF Buffers
  <2>2. ASSUME NEW l \in Nodes, NEW k \in Keys, key' = [key EXCEPT ![l] = k],
               \A i \in Nodes : key[i] # k
        PROVE  n = m
    <3>1. key'[l] = k /\ \A i \in Nodes : i # l => key'[i] = key[i]
      BY <2>2 DEF TypeOK
    <3> QED
      BY <1>5, <2>2, <3>1 DEF Buffers
  <2> QED
    BY <2>1, <2>2
<1> QED
  BY <1>1, <1>2, <1>3, <1>4, <1>5 DEF Buffers

\* What Release does, handle by handle.
LEMMA ReleaseDrops ==
    ASSUME NEW H \in SUBSET Handles, Release(H)
    PROVE  \A h \in Handles : /\ at'[h] = IF h \in H THEN NoNode ELSE at[h]
                              /\ own'[h] = (h \notin H /\ own[h])
                              /\ at'[h] \in {at[h], NoNode}
  BY DEF Release

\* What Get does, handle by handle and node by node.
LEMMA GetGives ==
    ASSUME TypeOK, NEW h \in Handles, NEW n \in Nodes, Get(h, n)
    PROVE  /\ at'[h] = n /\ own'[h] = (ref[n] = 0)
           /\ \A g \in Handles : g # h => at'[g] = at[g] /\ own'[g] = own[g]
           /\ \A m \in Nodes : m # n => key'[m] = key[m] /\ ready'[m] = ready[m]
           /\ key'[n] = KeyOf(h)
           /\ \/ key' = key /\ ready' = ready
              \/ ref[n] = 0 /\ ~ready'[n] /\ \A m \in Nodes : key[m] # KeyOf(h)
<1>1. \A g \in Handles : g # h => at'[g] = at[g] /\ own'[g] = own[g]
  BY DEF Get, TypeOK
<1>2. at'[h] = n /\ own'[h] = (ref[n] = 0)
  BY DEF Get, TypeOK
<1>3. CASE key[n] = KeyOf(h) /\ UNCHANGED <<key, ready>>
  BY <1>1, <1>2, <1>3
<1>4. CASE /\ ~Resident(KeyOf(h)) /\ ref[n] = 0
           /\ key' = [key EXCEPT ![n] = KeyOf(h)] /\ ready' = [ready EXCEPT ![n] = FALSE]
  BY <1>1, <1>2, <1>4 DEF TypeOK, Resident
<1> QED
  BY <1>3, <1>4 DEF Get

\* A handle a Get returns is the node's only one, or is not its owner.
LEMMA GetBuffers ==
    ASSUME TypeOK, Counts, Buffers, mix \in Mixes, mix' = mix,
           NEW h \in Handles, at[h] = NoNode, NEW n \in Nodes, Get(h, n)
    PROVE  Buffers'
<1>1. Handles' = Handles /\ \A g : KeyOf(g)' = KeyOf(g)
  BY MixStays
<1>2. \A g \in Handles : at[g] = n => ref[n] > 0
  BY HeldIsReferenced, TransferAssumption
<1>3. ref[n] \in Nat /\ NoNode \notin Nodes /\ n # NoNode
  BY TransferAssumption DEF TypeOK
<1>4. /\ at'[h] = n /\ own'[h] = (ref[n] = 0)
      /\ \A g \in Handles : g # h => at'[g] = at[g] /\ own'[g] = own[g]
      /\ \A m \in Nodes : m # n => key'[m] = key[m]
      /\ key'[n] = KeyOf(h)
      /\ key' = key \/ (ref[n] = 0 /\ \A m \in Nodes : key[m] # KeyOf(h))
  BY GetGives
<1>5. ASSUME NEW g \in Handles, at'[g] # NoNode PROVE key'[at'[g]] = KeyOf(g)
  <2>1. CASE g = h
    BY <1>4, <2>1
  <2>2. CASE g # h
    <3>1. at'[g] = at[g] /\ key[at[g]] = KeyOf(g) /\ at[g] \in Nodes
      BY <1>4, <1>5, <2>2 DEF Buffers, TypeOK
    <3>2. at[g] # n \/ key' = key
      BY <1>2, <1>3, <1>4, <3>1
    <3> QED
      BY <1>4, <3>1, <3>2
  <2> QED
    BY <2>1, <2>2
<1>6. ASSUME NEW g \in Handles, own'[g] PROVE at'[g] # NoNode
  BY <1>3, <1>4, <1>6 DEF Buffers
<1>7. ASSUME NEW g \in Handles, own'[g], own'[h], at'[g] = at'[h] PROVE g = h
  <2>1. ref[n] = 0
    BY <1>4, <1>7
  <2> QED
    BY <1>2, <1>3, <1>4, <1>7, <2>1
<1>8. ASSUME NEW f \in Handles, NEW g \in Handles, own'[f], own'[g], at'[f] = at'[g] PROVE f = g
  BY <1>4, <1>7, <1>8 DEF Buffers
<1>9. ASSUME NEW m \in Nodes, NEW l \in Nodes, key'[m] = key'[l], key'[m] # NoKey PROVE m = l
  BY <1>4, <1>9 DEF Buffers
<1> QED
  BY <1>1, <1>5, <1>6, <1>8, <1>9 DEF Buffers

\* Every step keeps one node per key and one owner per node.
LEMMA BuffersStep ==
    ASSUME Shape, Next
    PROVE  Buffers'
<1>1. TypeOK /\ Counts /\ Buffers /\ mix \in Mixes /\ mix' = mix /\ Handles' = Handles
  BY MixStays DEF Shape, Next
<1>2. \A t : Held(t) \in SUBSET Handles
  BY DEF Held
<1>3. ASSUME UNCHANGED <<key, at, own>> PROVE Buffers'
  BY <1>1, <1>3, DropBuffers
<1>4. ASSUME NEW H \in SUBSET Handles, Release(H), key' = key PROVE Buffers'
  BY <1>1, <1>4, ReleaseDrops, DropBuffers
<1>5. ASSUME NEW q \in Queues, NEW h, h = <<task[q], shard[q]>>, h \in Handles PROVE at[h] = NoNode
  <2>1. h[1] = task[q] /\ h[2] = shard[q] /\ task[q] \in Tasks
    BY <1>1, <1>5, HandleShape
  <2>2. shard[q] \in Nat /\ \A g \in Held(task[q]) : g[2] < shard[q]
    BY <1>1, <2>1 DEF Shape, Stage, InDispatch, TypeOK
  <2> QED
    BY <1>5, <2>1, <2>2 DEF Held
<1>10. CASE UNCHANGED <<key, at, own>>
  BY <1>3, <1>10
<1>11. CASE LoadGet
  <2> DEFINE h == <<task["load"], shard["load"]>>
  <2>1. h \in Handles /\ \E n \in Nodes : Get(h, n)
    BY <1>11 DEF LoadGet
  <2>2. at[h] = NoNode
    BY <1>5, <2>1 DEF Queues
  <2> QED
    BY <1>1, <2>1, <2>2, GetBuffers
<1>12. CASE LoadDispatch
  BY <1>2, <1>3, <1>4, <1>12 DEF LoadDispatch
<1>13. CASE TransferTake
  <2>1. (Release({Head(running)}) /\ key' = key) \/ UNCHANGED <<key, at, own>>
    BY <1>13 DEF TransferTake
  <2>2. Head(running) \in Handles
    BY <1>1, <1>13, TailIn DEF TransferTake, TypeOK
  <2>3. {Head(running)} \in SUBSET Handles
    BY <2>2
  <2> QED
    BY <1>3, <1>4, <2>1, <2>3
<1>14. CASE ShardFails
  <2>1. Release({current}) /\ key' = key
    BY <1>14 DEF ShardFails, Finish
  <2>2. {current} \in SUBSET Handles
    BY <1>1, <1>14 DEF ShardFails, TypeOK
  <2> QED
    BY <1>4, <2>1, <2>2
<1>15. CASE TransferSync
  <2>1. Release(holder \cup {current}) /\ key' = key
    BY <1>15 DEF TransferSync, Finish
  <2>2. holder \cup {current} \in SUBSET Handles
    BY <1>1, <1>15 DEF TransferSync, TypeOK, Shape, Order
  <2> QED
    BY <1>4, <2>1, <2>2
<1>16. CASE DumpGet
  <2> DEFINE h == <<task["dump"], shard["dump"]>>
  <2>1. h \in Handles
    BY <1>16 DEF DumpGet
  <2>2. at[h] = NoNode
    BY <1>5, <2>1 DEF Queues
  <2>3. UNCHANGED pool \/ \E n \in Nodes : Get(h, n)
    BY <1>16 DEF DumpGet
  <2> QED
    BY <1>1, <1>3, <2>1, <2>2, <2>3, GetBuffers DEF pool
<1>17. CASE DumpGetFails
  <2> DEFINE h == <<task["dump"], shard["dump"]>>
  <2>1. KeyOf(h) \in Keys
    BY <1>1, <1>17, HandleShape DEF DumpGetFails
  <2>2. Release(Held(task["dump"]))
    BY <1>17 DEF DumpGetFails
  <2>3. PICK n \in Nodes :
          /\ ref[n] = 0
          /\ key' = key \/ (~Resident(KeyOf(h)) /\ key' = [key EXCEPT ![n] = KeyOf(h)])
    BY <1>17 DEF DumpGetFails
  <2>4. \A g \in Handles : at'[g] \in {at[g], NoNode} /\ (own'[g] => own[g] /\ at'[g] = at[g])
    BY <1>2, <2>2, ReleaseDrops
  <2>5. \A g \in Handles : at[g] # n
    BY <1>1, <2>3, HeldIsReferenced, TransferAssumption
  <2>6. \A g \in Handles : at'[g] # n
    BY <2>4, <2>5, TransferAssumption
  <2>7. CASE key' = key
    BY <1>1, <2>4, <2>7, DropBuffers
  <2>8. CASE ~Resident(KeyOf(h)) /\ key' = [key EXCEPT ![n] = KeyOf(h)]
    <3>1. \A m \in Nodes : key[m] # KeyOf(h)
      BY <2>8 DEF Resident
    <3> HIDE DEF h
    <3>2. \E m \in Nodes, k \in Keys :
            /\ key' = [key EXCEPT ![m] = k]
            /\ \A g \in Handles : at'[g] # m
            /\ \A i \in Nodes : key[i] # k
      BY <2>1, <2>6, <2>8, <3>1
    <3> QED
      BY <1>1, <2>4, <3>2, DropBuffers
  <2> QED
    BY <2>3, <2>7, <2>8
<1>18. CASE DumpDispatchFails
  <2>1. Release(Held(task["dump"])) /\ key' = key
    BY <1>18 DEF DumpDispatchFails
  <2> QED
    BY <1>2, <1>4, <2>1
<1>19. CASE Dumper
  <2>1. Release(Held(Head(dumping))) /\ key' = key
    BY <1>19 DEF Dumper
  <2> QED
    BY <1>2, <1>4, <2>1
<1>20. \/ UNCHANGED <<key, at, own>>
       \/ LoadGet \/ LoadDispatch \/ TransferTake \/ ShardFails \/ TransferSync
       \/ DumpGet \/ DumpGetFails \/ DumpDispatchFails \/ Dumper
  <2>1. ASSUME NEW t \in Tasks, Submit(t) \/ Waits(t) PROVE UNCHANGED <<key, at, own>>
    BY <2>1 DEF Submit, Waits, WaitReturns, TimeOut, LateReturns, pool
  <2>2. ASSUME NEW q \in Queues, Take(q) PROVE UNCHANGED <<key, at, own>>
    BY <2>2 DEF Take, pool
  <2>3. ShardToDevice \/ DumpDispatch => UNCHANGED <<key, at, own>>
    BY DEF ShardToDevice, DumpDispatch
  <2>4. External => UNCHANGED <<key, at, own>>
    BY DEF External, Copy, BackendShard, pool
  <2> QED
    BY <2>1, <2>2, <2>3, <2>4 DEF Next, Step, LoadDispatcher, LoadTransfer, DumpDispatcher, Queues
<1> QED
  BY <1>10, <1>11, <1>12, <1>13, <1>14, <1>15, <1>16, <1>17, <1>18, <1>19, <1>20

-----------------------------------------------------------------------------
(* Where tasks are.                                                        *)

(* a step leaves task t where it is, but for buffers dropped from holder_ *)
Quiet(t) ==
    /\ status'[t] = status[t]
    /\ t \in latch' <=> t \in latch
    /\ t \in failureSet' <=> t \in failureSet
    /\ \A q \in Queues :
        /\ t \in In(waiting'[q]) => t \in In(waiting[q])
        /\ t = task'[q] => t = task[q] /\ shard'[q] = shard[q]
    /\ \A h \in Handles : h[1] = t =>
        /\ InTransfer(h)' => InTransfer(h)
        /\ h \in holder' => h \in holder /\ at'[h] = at[h]
        /\ at'[h] = at[h] \/ (h \in holder /\ at'[h] = NoNode)
    /\ LastShard(t) \in In(running) => LastShard(t) \in In(running') \/ \A h \in Handles : h[1] = t => ~InTransfer(h)'
    /\ todo[t] = {} => todo'[t] = {}
    /\ t = finished' => t = finished
    /\ t \in broken' => t \in broken
    /\ t \in In(dumping') => t \in In(dumping)

LEMMA StageFrame ==
    ASSUME mix \in Mixes, mix' = mix, TypeOK, TypeOK', NEW t \in Tasks, Stage(t), Quiet(t)
    PROVE  Stage(t)'
<1>1. /\ Handles' = Handles /\ Work' = Work /\ LastShard(t)' = LastShard(t)
      /\ \A h : TypeOf(h)' = TypeOf(h) /\ IsLast(h)' = IsLast(h)
  BY MixStays DEF LastShard
<1>2. Unsent(t) => Unsent(t)'
  BY <1>1 DEF Quiet, Unsent
<1>3. ASSUME NEW h \in Held(t)' PROVE h \in Held(t) /\ at'[h] = at[h]
  <2>1. h \in Handles /\ h[1] = t /\ at'[h] # NoNode
    BY <1>1, <1>3 DEF Held
  <2> QED
    BY <2>1 DEF Quiet, Held
<1>4. Untouched(t) => Untouched(t)'
  BY <1>2, <1>3 DEF Untouched
<1>5. t \in latch' \cup failureSet' => status'[t] \in {"waiting", "late"}
  BY DEF Quiet, Stage
<1>6. status'[t] = "new" =>
        Untouched(t)' /\ t \notin latch' /\ \A q \in Queues : t \notin In(waiting'[q]) /\ t # task'[q]
  BY <1>4 DEF Quiet, Stage
<1>7. ASSUME NEW q \in Queues, t \in In(waiting'[q]) PROVE InQueue(t, q)'
  <2>1. InQueue(t, q)
    BY <1>7 DEF Quiet, Stage
  <2> QED
    BY <1>1, <1>4, <2>1 DEF Quiet, InQueue
<1>8. ASSUME NEW q \in Queues, t = task'[q] PROVE InDispatch(t, q)'
  <2>1. InDispatch(t, q) /\ shard'[q] = shard[q]
    BY <1>8 DEF Quiet, Stage
  <2> QED
    BY <1>1, <1>2, <1>3, <2>1 DEF Quiet, InDispatch
<1>9. ASSUME t = task'["load"], NEW i \in 1..(shard'["load"] - 1) PROVE at'[<<t, i>>] # NoNode
  <2>1. t = task["load"] /\ shard'["load"] = shard["load"]
    BY <1>9 DEF Quiet, Queues
  <2>2. InDispatch(t, "load") /\ at[<<t, i>>] # NoNode
    BY <1>9, <2>1 DEF Stage, Queues
  <2>3. i \in 1..Len(Work[t].keys)
    <3>1. shard["load"] \in 1..(Len(Work[t].keys) + 1) /\ t \in DOMAIN Work
      BY <2>2 DEF InDispatch
    <3>2. Work[t].keys \in Seq(Keys)
      BY <3>1, TransferAssumption DEF MixShape, Work
    <3> QED
      BY <1>9, <2>1, <3>1, <3>2
  <2>4. t \in DOMAIN Work /\ Work[t].keys \in Seq(Keys)
    BY <2>2, TransferAssumption DEF MixShape, Work, InDispatch
  <2>5. <<t, i>> \in Handles
    BY <2>3, <2>4, HandleOf DEF Shards
  <2>6. <<t, i>> \notin holder
    BY <2>2, <2>5 DEF InDispatch, Unsent
  <2> QED
    BY <2>2, <2>5, <2>6 DEF Quiet
<1>10. ASSUME NEW h \in Handles, h[1] = t, InTransfer(h)' PROVE InHand(h)'
  <2>1. InTransfer(h) /\ InHand(h)
    BY <1>10 DEF Quiet, Stage
  <2>2. h \notin holder' /\ at'[h] # NoNode
    BY <1>10, <2>1 DEF Quiet, InHand
  <2>3. IsLast(h) \/ LastShard(t) \in In(running')
    BY <1>10, <2>1 DEF Quiet, InHand
  <2> QED
    BY <1>1, <1>10, <2>1, <2>2, <2>3 DEF Quiet, InHand
<1>11. \A h \in holder' : h[1] = t => TypeOf(h) = "load" /\ at'[h] # NoNode
  BY <1>1 DEF Quiet, Stage, TypeOK
<1>12. t \in In(dumping') => t \in DOMAIN Work /\ Work[t].type = "dump"
  BY DEF Quiet, Stage
<1> QED
  BY <1>1, <1>5, <1>6, <1>7, <1>8, <1>9, <1>10, <1>11, <1>12 DEF Stage

\* A task something has been begun of is in no waiting_ and no dispatcher's.
LEMMA BegunElsewhere ==
    ASSUME NEW t \in Tasks, Stage(t), ~Unsent(t)
    PROVE  status[t] # "new" /\ \A q \in Queues : t \notin In(waiting[q]) /\ t # task[q]
  BY DEF Stage, InQueue, InDispatch, Untouched

\* A dispatcher's task is in no waiting_, and no other dispatcher's.
LEMMA DispatchedElsewhere ==
    ASSUME NEW q \in Queues, task[q] \in Tasks, Stage(task[q])
    PROVE  /\ InDispatch(task[q], q) /\ status[task[q]] \in {"waiting", "late"}
           /\ \A p \in Queues : task[q] \notin In(waiting[p]) /\ (p # q => task[q] # task[p])
           /\ \A h \in Handles : h[1] = task[q] => ~InTransfer(h) /\ h \notin holder
           /\ task[q] \notin In(dumping)
<1>1. InDispatch(task[q], q)
  BY DEF Stage
<1>2. status[task[q]] \in {"waiting", "late"}
  BY <1>1 DEF Stage, InDispatch
<1>3. ASSUME NEW p \in Queues, task[q] \in In(waiting[p]) PROVE FALSE
  <2>1. InQueue(task[q], p)
    BY <1>3 DEF Stage
  <2> QED
    BY <1>1, <2>1 DEF InQueue, InDispatch
<1>4. ASSUME NEW p \in Queues, p # q, task[q] = task[p] PROVE FALSE
  <2>1. InDispatch(task[q], p)
    BY <1>4 DEF Stage
  <2> QED
    BY <1>1, <1>4, <2>1 DEF InDispatch
<1> QED
  BY <1>1, <1>2, <1>3, <1>4 DEF InDispatch, Unsent

\* A shard in the transfer thread's hands.
LEMMA HandElsewhere ==
    ASSUME Shape, NEW h \in Handles, InTransfer(h)
    PROVE  /\ h[1] \in Tasks /\ InHand(h) /\ ~Unsent(h[1])
           /\ status[h[1]] \in {"waiting", "late"}
           /\ \A q \in Queues : h[1] \notin In(waiting[q]) /\ h[1] # task[q]
           /\ h[1] \notin In(dumping)
<1>1. h[1] \in Tasks /\ mix \in Mixes
  BY HandleShape DEF Shape
<1>2. Stage(h[1]) /\ InHand(h) /\ ~Unsent(h[1])
  BY <1>1 DEF Shape, Stage, Unsent
<1>3. status[h[1]] \in {"waiting", "late"}
  BY <1>2 DEF Stage, InHand
<1>4. h[1] \notin In(dumping)
  BY <1>2 DEF Stage, InHand, TypeOf
<1> QED
  BY <1>1, <1>2, <1>3, <1>4, BegunElsewhere

\* A step that leaves a task's buffers and shards alone leaves it untouched.
LEMMA UntouchedFrame ==
    ASSUME Handles' = Handles, NEW t,
           UNCHANGED <<at, todo, finished, broken, dumping, running, current, holder>>
    PROVE  (Untouched(t)' <=> Untouched(t)) /\ (Unsent(t)' <=> Unsent(t)) /\ Held(t)' = Held(t)
           /\ \A h \in Handles : InTransfer(h)' <=> InTransfer(h)
<1>1. \A h \in Handles : InTransfer(h)' <=> InTransfer(h)
  BY DEF InTransfer
<1>2. Unsent(t)' <=> Unsent(t)
  BY <1>1 DEF Unsent
<1>3. Held(t)' = Held(t)
  BY DEF Held
<1> QED
  BY <1>1, <1>2, <1>3 DEF Untouched

\* Load and Dump: a new task joins waiting_.
LEMMA SubmitStage ==
    ASSUME Shape, TypeOK', mix' = mix, NEW t \in Tasks, Submit(t)
    PROVE  (\A u \in Tasks : Stage(u)') /\ Order'
<1>1. /\ TypeOK /\ mix \in Mixes /\ \A u \in Tasks : Stage(u)
      /\ Handles' = Handles /\ Work' = Work
      /\ \A h : TypeOf(h)' = TypeOf(h) /\ IsLast(h)' = IsLast(h)
  BY MixStays DEF Shape
<1>2. UNCHANGED <<at, todo, finished, broken, dumping, running, current, holder, task, shard, syncing>>
  BY DEF Submit, pool, transfer, backend
<1>3. /\ Untouched(t) /\ t \notin latch /\ \A q \in Queues : t \notin In(waiting[q]) /\ t # task[q]
      /\ t \in DOMAIN Work
  BY <1>1 DEF Stage, Submit
<1>4. Work[t].type \in Queues
  BY <1>1, <1>3, TransferAssumption DEF MixShape, Work
<1>5. \A q \in Queues : waiting[q] \in Seq(Tasks)
  BY <1>1 DEF TypeOK
<1>6. /\ \A u \in Tasks : u # t => (u \in latch' <=> u \in latch) /\ (u \in failureSet' <=> u \in failureSet)
      /\ status'[t] = "waiting" /\ \A u \in Tasks : u # t => status'[u] = status[u]
      /\ \/ waiting' = waiting
         \/ waiting' = [waiting EXCEPT ![Work[t].type] = Append(waiting[Work[t].type], t)] /\ t \in latch'
  BY <1>1 DEF Submit, TypeOK
<1>7. ASSUME NEW q \in Queues
      PROVE  /\ In(waiting'[q]) \subseteq In(waiting[q]) \cup {t}
             /\ t \in In(waiting'[q]) => q = Work[t].type /\ t \in latch'
             /\ Once(waiting'[q])
  <2>1. Once(waiting[q])
    BY <1>1 DEF Shape, Order
  <2>2. CASE waiting' = waiting
    BY <1>3, <2>1, <2>2
  <2>3. CASE waiting' = [waiting EXCEPT ![Work[t].type] = Append(waiting[Work[t].type], t)] /\ t \in latch'
    <3>1. CASE q = Work[t].type
      <4>1. waiting'[q] = Append(waiting[q], t)
        BY <1>1, <2>3, <3>1 DEF TypeOK
      <4> QED
        BY <1>3, <1>5, <2>1, <2>3, <3>1, <4>1, AppendIn
    <3>2. CASE q # Work[t].type
      BY <1>1, <1>3, <2>1, <2>3, <3>2 DEF TypeOK
    <3> QED
      BY <3>1, <3>2
  <2> QED
    BY <1>6, <2>2, <2>3
<1>8. ASSUME NEW u \in Tasks, u # t PROVE Stage(u)'
  <2>1. Quiet(u)
    BY <1>2, <1>6, <1>7, <1>8, UntouchedFrame, <1>1 DEF Quiet
  <2> QED
    BY <1>1, <2>1, StageFrame
<1>9. Stage(t)'
  <2>1. Untouched(t)' /\ (\A h \in Handles : InTransfer(h)' <=> InTransfer(h))
    BY <1>1, <1>2, <1>3, UntouchedFrame
  <2>2. ASSUME NEW q \in Queues, t \in In(waiting'[q]) PROVE InQueue(t, q)'
    BY <1>1, <1>2, <1>3, <1>7, <2>1, <2>2 DEF InQueue
  <2>3. \A h \in Handles : h[1] = t => ~InTransfer(h)' /\ h \notin holder
    BY <1>3, <2>1 DEF Untouched, Unsent
  <2>4. t \notin In(dumping)
    BY <1>3 DEF Untouched, Unsent
  <2>5. holder \subseteq Handles
    BY <1>1 DEF TypeOK
  <2> QED
    BY <1>1, <1>2, <1>3, <1>6, <2>2, <2>3, <2>4, <2>5 DEF Stage, Queues
<1>10. Order'
  BY <1>1, <1>2, <1>7 DEF Shape, Order, Followed, LastShard
<1> QED
  BY <1>8, <1>9, <1>10

\* Wait and its timeout.
LEMMA WaitsStage ==
    ASSUME Shape, TypeOK', mix' = mix, NEW t \in Tasks, Waits(t)
    PROVE  (\A u \in Tasks : Stage(u)') /\ Order'
<1>1. /\ TypeOK /\ mix \in Mixes /\ \A u \in Tasks : Stage(u)
      /\ Handles' = Handles /\ Work' = Work
      /\ \A h : TypeOf(h)' = TypeOf(h) /\ IsLast(h)' = IsLast(h)
  BY MixStays DEF Shape
<1>2. UNCHANGED <<at, todo, finished, broken, dumping, running, current, holder, waiting, task, shard, syncing, latch>>
  BY DEF Waits, WaitReturns, TimeOut, LateReturns, pool, transfer, dispatchers, backend
<1>3. /\ \A u \in Tasks : u # t => (u \in failureSet' <=> u \in failureSet) /\ status'[u] = status[u]
      /\ status[t] # "new" /\ status'[t] # "new"
      /\ t \in latch' \cup failureSet' => status'[t] \in {"waiting", "late"}
  BY <1>1 DEF Waits, WaitReturns, TimeOut, LateReturns, TypeOK
<1>4. ASSUME NEW u \in Tasks, u # t PROVE Stage(u)'
  <2>1. Quiet(u)
    BY <1>1, <1>2, <1>3, <1>4, UntouchedFrame DEF Quiet
  <2> QED
    BY <1>1, <2>1, StageFrame
<1>5. Stage(t)'
  <2>1. (Untouched(t)' <=> Untouched(t)) /\ (Unsent(t)' <=> Unsent(t)) /\ Held(t)' = Held(t)
        /\ \A h \in Handles : InTransfer(h)' <=> InTransfer(h)
    BY <1>1, <1>2, UntouchedFrame
  <2>2. \A q \in Queues : (InQueue(t, q)' <=> InQueue(t, q)) /\ (InDispatch(t, q)' <=> InDispatch(t, q))
    BY <1>1, <1>2, <2>1 DEF InQueue, InDispatch
  <2>3. \A h \in Handles : InHand(h)' <=> InHand(h)
    BY <1>1, <1>2 DEF InHand, LastShard
  <2> QED
    BY <1>1, <1>2, <1>3, <2>1, <2>2, <2>3 DEF Stage, TypeOK
<1>6. Order'
  BY <1>1, <1>2 DEF Shape, Order, Followed, LastShard
<1> QED
  BY <1>4, <1>5, <1>6

\* A dispatcher takes the first task of its waiting_.
LEMMA TakeStage ==
    ASSUME Shape, TypeOK', mix' = mix, NEW q \in Queues, Take(q)
    PROVE  (\A u \in Tasks : Stage(u)') /\ Order'
<1>1. /\ TypeOK /\ mix \in Mixes /\ \A u \in Tasks : Stage(u)
      /\ Handles' = Handles /\ Work' = Work
      /\ \A h : TypeOf(h)' = TypeOf(h) /\ IsLast(h)' = IsLast(h)
  BY MixStays DEF Shape
<1>2. UNCHANGED <<at, todo, finished, broken, dumping, running, current, holder, syncing, status, failureSet>>
  BY DEF Take, pool, transfer, backend
<1>3. waiting[q] \in Seq(Tasks) /\ waiting[q] # <<>> /\ Once(waiting[q]) /\ task[q] = NoTask
  BY <1>1 DEF Shape, Order, TypeOK, Take
<1>0. PICK t \in Tasks : t = Head(waiting[q])
  BY <1>3, TailIn
<1>4. t \in Tasks /\ t \in In(waiting[q]) /\ t \notin In(Tail(waiting[q])) /\ In(Tail(waiting[q])) \subseteq In(waiting[q])
      /\ Once(Tail(waiting[q]))
  BY <1>0, <1>3, TailIn
<1>5. waiting'[q] = Tail(waiting[q]) /\ \A p \in Queues : p # q => waiting'[p] = waiting[p]
  BY <1>1 DEF Take, TypeOK
<1>6. InQueue(t, q) /\ t \in latch /\ status[t] \in {"waiting", "late"}
  <2>1. InQueue(t, q)
    BY <1>1, <1>4 DEF Stage
  <2> QED
    BY <1>1, <1>4, <2>1 DEF Stage, InQueue
<1>7. \A p \in Queues : t \notin In(waiting'[p])
  BY <1>1, <1>4, <1>5, <1>6 DEF Stage, InQueue
<1>8. \A p \in Queues : t # task[p]
  BY <1>1, <1>4, <1>6 DEF Stage, InQueue, InDispatch
<1>9. /\ \A u \in Tasks : u # t => (u \in latch' <=> u \in latch)
      /\ \/ t \in failureSet /\ UNCHANGED <<task, shard>>
         \/ /\ latch' = latch /\ task'[q] = t /\ shard'[q] = 1
            /\ \A p \in Queues : p # q => task'[p] = task[p] /\ shard'[p] = shard[p]
  BY <1>0, <1>1 DEF Take, Done, TypeOK
<1>10. ASSUME NEW u \in Tasks, u # t PROVE Stage(u)'
  <2>1. \A p \in Queues : u \in In(waiting'[p]) => u \in In(waiting[p])
    BY <1>4, <1>5
  <2>2. \A p \in Queues : u = task'[p] => u = task[p] /\ shard'[p] = shard[p]
    BY <1>9, <1>10
  <2>3. Quiet(u)
    BY <1>1, <1>2, <1>9, <1>10, <2>1, <2>2, UntouchedFrame DEF Quiet
  <2> QED
    BY <1>1, <2>3, StageFrame
<1>11. Stage(t)'
  <2>1. Untouched(t)' /\ Unsent(t)' /\ Held(t)' = {} /\ \A h \in Handles : h[1] = t => ~InTransfer(h)' /\ h \notin holder
    <3>1. Untouched(t) /\ Unsent(t) /\ Held(t) = {} /\ \A h \in Handles : h[1] = t => ~InTransfer(h) /\ h \notin holder
      BY <1>6 DEF InQueue, Untouched, Unsent
    <3> QED
      BY <1>1, <1>2, <3>1, UntouchedFrame
  <2>2. ASSUME NEW p \in Queues, t = task'[p] PROVE InDispatch(t, p)' /\ p = q /\ shard'[p] = 1
    <3>1. p = q /\ shard'[p] = 1 /\ latch' = latch
      BY <1>8, <1>9, <2>2
    <3>2. t \in DOMAIN Work /\ Work[t].type = q
      BY <1>6 DEF InQueue
    <3>3. Len(Work[t].keys) \in Nat
      BY <1>1, <3>2, TransferAssumption DEF MixShape, Work
    <3> QED
      BY <1>1, <1>6, <2>1, <3>1, <3>2, <3>3 DEF InDispatch
  <2>3. t \notin In(dumping)
    BY <1>6 DEF InQueue, Untouched, Unsent
  <2>4. t = task'["load"] => shard'["load"] = 1
    BY <2>2 DEF Queues
  <2>5. holder \subseteq Handles
    BY <1>1 DEF TypeOK
  <2> QED
    BY <1>1, <1>2, <1>6, <1>7, <2>1, <2>2, <2>3, <2>4, <2>5 DEF Stage
<1>12. Order'
  <2>1. \A p \in Queues : Once(waiting'[p])
    BY <1>4, <1>5 DEF Shape, Order
  <2> QED
    BY <1>1, <1>2, <2>1 DEF Shape, Order, Followed, LastShard
<1> QED
  BY <1>10, <1>11, <1>12

\* A dispatcher's next shard gets its handle, or is skipped by a dump.
LEMMA GetStage ==
    ASSUME Shape, TypeOK', mix' = mix, NEW q \in Queues, NEW h \in Handles,
           h = <<task[q], shard[q]>>, shard' = [shard EXCEPT ![q] = @ + 1],
           \A g \in Handles : g # h => at'[g] = at[g],
           q = "load" => at'[h] # NoNode,
           UNCHANGED <<clients, waiting, task, transfer, dumping, backend>>
    PROVE  (\A u \in Tasks : Stage(u)') /\ Order'
<1>1. /\ TypeOK /\ mix \in Mixes /\ \A u \in Tasks : Stage(u)
      /\ Handles' = Handles /\ Work' = Work
      /\ \A g : TypeOf(g)' = TypeOf(g) /\ IsLast(g)' = IsLast(g)
  BY MixStays DEF Shape
<1>2. UNCHANGED <<todo, finished, broken, dumping, running, current, holder, syncing, status, latch, failureSet, waiting, task>>
  BY DEF clients, transfer, backend
<1>3. PICK t \in Tasks : t = task[q] /\ h[1] = t /\ h[2] = shard[q] /\ t \in DOMAIN Work /\ h[2] \in 1..Len(Work[t].keys)
  BY <1>1, HandleShape
<1>4. /\ InDispatch(t, q) /\ status[t] \in {"waiting", "late"}
      /\ \A p \in Queues : t \notin In(waiting[p]) /\ (p # q => t # task[p])
      /\ \A g \in Handles : g[1] = t => ~InTransfer(g) /\ g \notin holder
      /\ t \notin In(dumping)
  BY <1>1, <1>3, DispatchedElsewhere
<1>5. /\ shard'[q] = shard[q] + 1 /\ shard[q] \in Nat
      /\ \A p \in Queues : p # q => shard'[p] = shard[p]
  BY <1>1 DEF TypeOK
<1>6. \A g \in Handles : InTransfer(g)' <=> InTransfer(g)
  BY <1>2 DEF InTransfer
<1>7. ASSUME NEW u \in Tasks, u # t PROVE Stage(u)'
  <2>1. \A g \in Handles : g[1] = u => at'[g] = at[g]
    BY <1>3, <1>7
  <2>2. \A p \in Queues : u = task'[p] => u = task[p] /\ shard'[p] = shard[p]
    BY <1>2, <1>3, <1>5, <1>7
  <2>3. Quiet(u)
    BY <1>2, <1>6, <2>1, <2>2 DEF Quiet
  <2> QED
    BY <1>1, <2>3, StageFrame
<1>8. Stage(t)'
  <2>1. Unsent(t)'
    BY <1>1, <1>2, <1>4, <1>6 DEF InDispatch, Unsent
  <2>2. \A g \in Handles : g[1] = t /\ at'[g] # NoNode => g[2] < shard'[q]
    <3> SUFFICES ASSUME NEW g \in Handles, g[1] = t, at'[g] # NoNode PROVE g[2] < shard'[q]
      OBVIOUS
    <3>1. CASE g = h
      BY <1>3, <1>5, <3>1
    <3>2. CASE g # h
      <4>1. g[2] < shard[q]
        BY <1>4, <3>2 DEF InDispatch, Held
      <4>2. g[2] \in 1..Len(Work[g[1]].keys) /\ Work[g[1]].keys \in Seq(Keys)
        BY <1>1, HandleShape
      <4> QED
        BY <1>5, <4>1, <4>2
    <3> QED
      BY <3>1, <3>2
  <2>3. InDispatch(t, q)'
    <3>1. shard'[q] \in 1..(Len(Work[t].keys) + 1)
      BY <1>3, <1>5
    <3> QED
      BY <1>1, <1>2, <1>4, <2>1, <2>2, <3>1 DEF InDispatch, Held
  <2>4. ASSUME t = task["load"], NEW i \in 1..(shard'["load"] - 1) PROVE at'[<<t, i>>] # NoNode
    <3>1. q = "load"
      BY <1>4, <2>4 DEF Queues
    <3>2. CASE i = shard[q]
      BY <1>3, <3>1, <3>2
    <3>3. CASE i # shard[q]
      <4>1. i \in 1..(shard["load"] - 1) /\ i \in 1..Len(Work[t].keys)
        BY <1>3, <1>5, <2>4, <3>1, <3>3
      <4>2. at[<<t, i>>] # NoNode
        BY <1>1, <2>4, <4>1 DEF Stage
      <4>3. <<t, i>> \in Handles /\ <<t, i>> # h
        <5>1. Work[t].keys \in Seq(Keys)
          BY <1>1, <1>3, TransferAssumption DEF MixShape, Work
        <5>2. i \in Shards(t)
          BY <1>3, <4>1, <5>1 DEF Shards
        <5> QED
          BY <1>3, <3>3, <5>2, HandleOf
      <4> QED
        BY <4>2, <4>3
    <3> QED
      BY <3>2, <3>3
  <2>5. holder \subseteq Handles
    BY <1>1 DEF TypeOK
  <2> QED
    BY <1>1, <1>2, <1>4, <1>6, <2>3, <2>4, <2>5 DEF Stage
<1>9. Order'
  BY <1>1, <1>2 DEF Shape, Order, Followed, LastShard
<1> QED
  BY <1>7, <1>8, <1>9

\* A dispatcher's task fails, and its handles are dropped.
LEMMA DispatchFailsStage ==
    ASSUME Shape, TypeOK', mix' = mix, NEW q \in Queues, NEW t \in Tasks, t = task[q],
           Release(Held(t)), Fail(t), Idle(q),
           UNCHANGED <<status, waiting, shard, transfer, dumping, backend>>
    PROVE  (\A u \in Tasks : Stage(u)') /\ Order'
<1>1. /\ TypeOK /\ mix \in Mixes /\ \A u \in Tasks : Stage(u)
      /\ Handles' = Handles /\ Work' = Work
      /\ \A g : TypeOf(g)' = TypeOf(g) /\ IsLast(g)' = IsLast(g)
  BY MixStays DEF Shape
<1>2. UNCHANGED <<todo, finished, broken, dumping, running, current, holder, syncing, status, waiting, shard>>
  BY DEF transfer, backend
<1>3. /\ InDispatch(t, q) /\ status[t] \in {"waiting", "late"}
      /\ \A p \in Queues : t \notin In(waiting[p]) /\ (p # q => t # task[p])
      /\ \A g \in Handles : g[1] = t => ~InTransfer(g) /\ g \notin holder
      /\ t \notin In(dumping)
  BY <1>1, DispatchedElsewhere
<1>4. /\ \A u \in Tasks : u # t => (u \in latch' <=> u \in latch) /\ (u \in failureSet' <=> u \in failureSet)
      /\ task'[q] = NoTask /\ \A p \in Queues : p # q => task'[p] = task[p]
  BY <1>1 DEF Fail, Done, Idle, TypeOK
<1>5. NoTask \notin Tasks
  BY TransferAssumption
<1>6. \A g \in Handles : InTransfer(g)' <=> InTransfer(g)
  BY <1>2 DEF InTransfer
<1>7. \A g \in Handles : g[1] # t => at'[g] = at[g]
  BY ReleaseDrops DEF Held
<1>8. ASSUME NEW u \in Tasks, u # t PROVE Stage(u)'
  <2>1. \A g \in Handles : g[1] = u => at'[g] = at[g]
    BY <1>7, <1>8
  <2>2. \A p \in Queues : u = task'[p] => u = task[p] /\ shard'[p] = shard[p]
    BY <1>2, <1>4, <1>5
  <2>3. Quiet(u)
    BY <1>2, <1>4, <1>6, <1>8, <2>1, <2>2 DEF Quiet
  <2> QED
    BY <1>1, <2>3, StageFrame
<1>9. Stage(t)'
  <2>1. \A p \in Queues : t # task'[p]
    BY <1>3, <1>4, <1>5
  <2>2. holder \subseteq Handles
    BY <1>1 DEF TypeOK
  <2> QED
    BY <1>1, <1>2, <1>3, <1>6, <2>1, <2>2 DEF Stage, Queues
<1>10. Order'
  BY <1>1, <1>2 DEF Shape, Order, Followed, LastShard
<1> QED
  BY <1>8, <1>9, <1>10

\* A shard in running_ has its task's last one there.
LEMMA RunningEndsWithLast ==
    ASSUME Shape, NEW h \in In(running)
    PROVE  LastShard(h[1]) \in In(running)
  BY DEF Shape, Order, Followed, In

\* Behind its task's last shard there is none of the task.
LEMMA NoneAfterLast ==
    ASSUME Shape, NEW h \in Handles, IsLast(h),
           h = current \/ (running # <<>> /\ h = Head(running)),
           NEW g \in In(running), g # h
    PROVE  g[1] # h[1]
<1> SUFFICES ASSUME g[1] = h[1] PROVE FALSE
  OBVIOUS
<1>1. h = LastShard(g[1])
  BY HandleShape DEF Shape, IsLast, LastShard
<1>2. CASE h = current
  <2>1. h \in In(running)
    BY <1>1, RunningEndsWithLast
  <2> QED
    BY <1>2, <2>1 DEF Shape, Order
<1>3. CASE running # <<>> /\ h = Head(running)
  <2>1. running \in Seq(Handles) /\ Once(running) /\ Followed(running)
    BY DEF Shape, Order, TypeOK
  <2>2. Len(running) \in Nat /\ Len(running) # 0 /\ DOMAIN running = 1..Len(running) /\ Head(running) = running[1]
    BY <1>3, <2>1
  <2>3. PICK i \in 1..Len(running) : running[i] = g
    BY <2>2 DEF In
  <2>4. PICK j \in 1..Len(running) : j >= i /\ running[j] = h
    BY <1>1, <2>1, <2>2, <2>3 DEF Followed
  <2>5. j = 1 /\ 1 \in 1..Len(running)
    BY <1>3, <2>1, <2>2, <2>4 DEF Once
  <2>6. i = 1
    BY <2>4, <2>5
  <2> QED
    BY <1>3, <2>2, <2>3, <2>6
<1> QED
  BY <1>2, <1>3

\* The load's dispatcher hands its shards to the transfer thread.
LEMMA HandOverStage ==
    ASSUME Shape, TypeOK', mix' = mix, NEW t \in Tasks, t = task["load"], Gathered("load"),
           running' = running \o AllOf(t), Idle("load"),
           \A u \in Tasks : u # t => todo'[u] = todo[u],
           UNCHANGED <<at, latch, failureSet, status, waiting, shard, current, holder, syncing, finished, dumping, broken>>
    PROVE  (\A u \in Tasks : Stage(u)') /\ Order'
<1>1. /\ TypeOK /\ mix \in Mixes /\ \A u \in Tasks : Stage(u)
      /\ Handles' = Handles /\ Work' = Work /\ \A u : LastShard(u)' = LastShard(u)
      /\ \A g : TypeOf(g)' = TypeOf(g) /\ IsLast(g)' = IsLast(g)
  BY MixStays DEF Shape, LastShard
<1>2. /\ InDispatch(t, "load") /\ status[t] \in {"waiting", "late"}
      /\ \A p \in Queues : t \notin In(waiting[p]) /\ (p # "load" => t # task[p])
      /\ \A g \in Handles : g[1] = t => ~InTransfer(g) /\ g \notin holder
      /\ t \notin In(dumping)
  <2>1. "load" \in Queues
    BY DEF Queues
  <2> QED
    BY <1>1, <2>1, DispatchedElsewhere
<1>3. t \in DOMAIN Work /\ Work[t].type = "load" /\ t \in latch
  BY <1>2 DEF InDispatch
<1>4. Work[t].keys \in Seq(Keys) /\ Shards(t) = 1..Len(Work[t].keys) /\ Len(Work[t].keys) \in Nat \ {0}
  BY <1>1, <1>3, TransferAssumption DEF MixShape, Work, Shards
<1>5. running \in Seq(Handles)
  BY <1>1 DEF TypeOK
<1>6. /\ In(running') = In(running) \cup {<<t, i>> : i \in Shards(t)}
      /\ Followed(running') /\ Once(running')
  <2>1. \A g \in In(running) : g \in Handles
    BY <1>5 DEF In
  <2>2. \A g \in In(running) : g[1] # t
    BY <1>2, <2>1 DEF InTransfer
  <2> QED
    BY <1>1, <1>3, <1>5, <2>2, ConcatIn DEF Shape, Order
<1>7. /\ task'["load"] = NoTask /\ NoTask \notin Tasks
      /\ \A p \in Queues : p # "load" => task'[p] = task[p]
  BY <1>1, TransferAssumption DEF Idle, TypeOK
<1>8. shard["load"] = Len(Work[t].keys) + 1
  <2>1. shard["load"] \in 1..(Len(Work[t].keys) + 1)
    BY <1>2 DEF InDispatch
  <2>2. shard["load"] \notin Shards(t)
    BY HandleOf DEF Gathered
  <2> QED
    BY <1>4, <2>1, <2>2
<1>9. \A h \in Handles : h[1] # t => (InTransfer(h)' <=> InTransfer(h))
  BY <1>6 DEF InTransfer
<1>10. ASSUME NEW u \in Tasks, u # t PROVE Stage(u)'
  <2>1. \A p \in Queues : u = task'[p] => u = task[p] /\ shard'[p] = shard[p]
    BY <1>7
  <2>2. Quiet(u)
    BY <1>6, <1>9, <1>10, <2>1 DEF Quiet
  <2> QED
    BY <1>1, <2>2, StageFrame
<1>11. Stage(t)'
  <2>1. \A p \in Queues : t # task'[p]
    BY <1>2, <1>7
  <2>2. holder \subseteq Handles
    BY <1>1 DEF TypeOK
  <2>3. ASSUME NEW h \in Handles, h[1] = t PROVE InHand(h)'
    <3>1. h = <<t, h[2]>> /\ h[2] \in Shards(t)
      BY <1>1, <2>3, HandleShape
    <3>2. h[2] \in 1..(shard["load"] - 1)
      BY <1>4, <1>8, <3>1
    <3>3. at[h] # NoNode
      BY <1>1, <3>1, <3>2 DEF Stage
    <3>4. TypeOf(h) = "load"
      BY <1>3, <2>3 DEF TypeOf
    <3>5. LastShard(t) \in In(running')
      BY <1>4, <1>6 DEF LastShard
    <3> QED
      BY <1>1, <1>2, <1>3, <2>3, <3>3, <3>4, <3>5 DEF InHand
  <2> QED
    BY <1>1, <1>2, <2>1, <2>2, <2>3 DEF Stage, Queues
<1>12. Order'
  <2>1. current \notin In(running')
    <3>1. CASE current = NoHandle
      BY <1>6, <1>7, <3>1 DEF NoHandle, Shape, Order
    <3>2. CASE current # NoHandle
      <4>1. current \in Handles /\ InTransfer(current)
        BY <1>1, <3>2 DEF TypeOK, InTransfer
      <4>2. current[1] # t
        BY <1>2, <4>1
      <4> QED
        BY <1>6, <4>2 DEF Shape, Order
    <3> QED
      BY <3>1, <3>2
  <2>2. Followed(running)'
    BY <1>1, <1>6 DEF Followed, LastShard
  <2> QED
    BY <1>1, <1>6, <2>1, <2>2 DEF Shape, Order
<1> QED
  BY <1>10, <1>11, <1>12

\* The load's dispatcher, whether the backend takes its task or not.
LEMMA LoadDispatchStage ==
    ASSUME Shape, TypeOK', mix' = mix, LoadDispatch
    PROVE  (\A u \in Tasks : Stage(u)') /\ Order'
<1>1. PICK t \in Tasks : t = task["load"]
  BY DEF Shape, TypeOK, LoadDispatch, Gathered, Queues
<1>2. CASE Fail(t) /\ Release(Held(t)) /\ UNCHANGED <<todo, running>>
  <2>1. UNCHANGED <<status, waiting, shard, transfer, dumping, backend>> /\ Idle("load")
    BY <1>2 DEF LoadDispatch, transfer, backend
  <2>2. "load" \in Queues
    BY DEF Queues
  <2> QED
    BY <1>1, <1>2, <2>1, <2>2, DispatchFailsStage
<1>3. CASE /\ running' = running \o AllOf(t)
           /\ todo' = [todo EXCEPT ![t] = {<<h, at[h]>> : h \in {h \in Held(t) : own[h] /\ ~ready[at[h]]}}]
           /\ UNCHANGED <<latch, failureSet, ref, at, own>>
  <2>1. \A u \in Tasks : u # t => todo'[u] = todo[u]
    BY <1>3 DEF Shape, TypeOK
  <2>2. Gathered("load") /\ Idle("load")
        /\ UNCHANGED <<at, latch, failureSet, status, waiting, shard, current, holder, syncing, finished, dumping, broken>>
    BY <1>3 DEF LoadDispatch
  <2> QED
    BY <1>1, <1>3, <2>1, <2>2, HandOverStage
<1> QED
  BY <1>1, <1>2, <1>3 DEF LoadDispatch

\* The transfer thread takes the first shard of running_, or drops it.
LEMMA TransferTakeStage ==
    ASSUME Shape, TypeOK', mix' = mix, TransferTake
    PROVE  (\A u \in Tasks : Stage(u)') /\ Order'
<1>1. /\ TypeOK /\ mix \in Mixes /\ \A u \in Tasks : Stage(u)
      /\ Handles' = Handles /\ Work' = Work /\ \A u : LastShard(u)' = LastShard(u)
      /\ \A g : TypeOf(g)' = TypeOf(g) /\ IsLast(g)' = IsLast(g)
  BY MixStays DEF Shape, LastShard
<1>2. /\ UNCHANGED <<todo, finished, broken, dumping, holder, syncing, status, failureSet, waiting, task, shard>>
      /\ running # <<>> /\ running' = Tail(running) /\ current = NoHandle /\ ~syncing
  BY DEF TransferTake, dispatchers, backend, Shape, Order
<1>3. running \in Seq(Handles) /\ Once(running) /\ Followed(running)
  BY <1>1 DEF TypeOK, Shape, Order
<1>4. PICK h \in Handles : h = Head(running)
  BY <1>2, <1>3, TailIn
<1>5. /\ In(running) = In(running') \cup {h} /\ h \notin In(running') /\ Once(running')
  BY <1>2, <1>3, <1>4, TailIn
<1>6. Followed(running)'
  <2>1. Followed(Tail(running))
    BY <1>2, <1>3, FollowedTail
  <2> QED
    BY <1>1, <1>2, <2>1 DEF Followed, LastShard
<1>7. InTransfer(h)
  BY <1>5 DEF InTransfer
<1>8. PICK t \in Tasks : t = h[1]
  BY <1>1, HandleShape
<1>9. /\ InHand(h) /\ status[t] \in {"waiting", "late"} /\ t \notin In(dumping)
      /\ \A q \in Queues : t \notin In(waiting[q]) /\ t # task[q]
  BY <1>7, <1>8, HandElsewhere
<1>10. /\ \A u \in Tasks : u # t => (u \in latch' <=> u \in latch)
       /\ \A g \in Handles : g # h => at'[g] = at[g]
       /\ t \notin latch' => IsLast(h)
       /\ \/ current' = NoHandle /\ t \in failureSet
          \/ current' = h /\ at' = at /\ latch' = latch
  <2>1. CASE t \in failureSet
    <3>1. Release({h}) /\ (IF IsLast(h) THEN latch' = latch \ {t} ELSE latch' = latch) /\ current' = current
      BY <1>4, <1>8, <2>1 DEF TransferTake, Done
    <3>2. \A g \in Handles : g # h => at'[g] = at[g]
      BY <3>1, ReleaseDrops
    <3> QED
      BY <1>2, <1>8, <1>9, <2>1, <3>1, <3>2 DEF InHand
  <2>2. CASE t \notin failureSet
    BY <1>4, <1>8, <1>9, <2>2 DEF TransferTake, InHand
  <2> QED
    BY <2>1, <2>2
<1>11. \A g \in Handles : InTransfer(g)' => InTransfer(g) /\ (g = h => current' = h /\ at' = at /\ latch' = latch)
  BY <1>2, <1>4, <1>5, <1>10 DEF InTransfer
<1>12. h \notin holder /\ h # NoHandle
  BY <1>1, <1>9, HandleShape DEF InHand
<1>13. ASSUME NEW u \in Tasks, u # t PROVE Stage(u)'
  <2>1. \A g \in Handles : g[1] = u => at'[g] = at[g]
    BY <1>8, <1>10, <1>13
  <2>2. LastShard(u) \in In(running) => LastShard(u) \in In(running')
    BY <1>5, <1>8, <1>13 DEF LastShard
  <2>3. Quiet(u)
    BY <1>2, <1>10, <1>11, <1>13, <2>1, <2>2 DEF Quiet
  <2> QED
    BY <1>1, <2>3, StageFrame
<1>14. ASSUME NEW g \in Handles, g[1] = t, InTransfer(g)' PROVE InHand(g)'
  <2>1. InTransfer(g) /\ InHand(g)
    BY <1>8, <1>11, <1>14, HandElsewhere
  <2>2. at'[g] # NoNode /\ g \notin holder'
    BY <1>2, <1>10, <1>11, <1>14, <2>1 DEF InHand
  <2>3. t \in latch'
    <3>1. CASE g = h
      BY <1>9, <1>11, <1>14, <3>1, <1>8 DEF InHand
    <3>2. CASE g # h
      <4>1. g \in In(running)
        BY <1>2, <2>1 DEF InTransfer
      <4>2. ~IsLast(h)
        BY <1>2, <1>4, <1>8, <1>14, <3>2, <4>1, NoneAfterLast
      <4> QED
        BY <1>10, <4>2
    <3> QED
      BY <3>1, <3>2
  <2>4. IsLast(g) \/ LastShard(t) \in In(running')
    <3>1. LastShard(t) \in In(running)
      <4>1. g \in In(running)
        BY <1>2, <2>1 DEF InTransfer
      <4> QED
        BY <1>14, <4>1, RunningEndsWithLast
    <3>2. CASE LastShard(t) = h
      <4>1. IsLast(h)
        BY <1>8, <3>2 DEF IsLast, LastShard
      <4>2. g = h
        BY <1>2, <1>4, <1>8, <1>14, <2>1, <4>1, NoneAfterLast DEF InTransfer
      <4> QED
        BY <4>1, <4>2
    <3> QED
      BY <1>5, <3>1, <3>2
  <2> QED
    BY <1>1, <1>14, <2>1, <2>2, <2>3, <2>4 DEF InHand
<1>15. Stage(t)'
  <2>1. \A g \in holder : g # h /\ g \in Handles
    BY <1>1, <1>12 DEF TypeOK
  <2>2. \A g \in holder' : g[1] = t => TypeOf(g) = "load" /\ at'[g] # NoNode
    BY <1>1, <1>2, <1>10, <2>1 DEF Stage
  <2> QED
    BY <1>1, <1>2, <1>9, <1>14, <2>1, <2>2 DEF Stage, Queues
<1>16. Order'
  <2>1. current' \notin In(running')
    <3>1. NoHandle \notin In(running')
      BY <1>1, <1>5, <1>2 DEF Shape, Order
    <3> QED
      BY <1>5, <1>10, <3>1
  <2> QED
    BY <1>1, <1>2, <1>5, <1>6, <2>1 DEF Shape, Order
<1> QED
  BY <1>13, <1>15, <1>16

\* A shard's copy starts; all but the last go to holder_.
LEMMA ShardToDeviceStage ==
    ASSUME Shape, TypeOK', mix' = mix, ShardToDevice
    PROVE  (\A u \in Tasks : Stage(u)') /\ Order'
<1>1. /\ TypeOK /\ mix \in Mixes /\ \A u \in Tasks : Stage(u)
      /\ Handles' = Handles /\ Work' = Work /\ \A u : LastShard(u)' = LastShard(u)
      /\ \A g : TypeOf(g)' = TypeOf(g) /\ IsLast(g)' = IsLast(g)
  BY MixStays DEF Shape, LastShard
<1>2. UNCHANGED <<at, status, latch, failureSet, waiting, task, shard, running, dumping, todo, broken>>
  BY DEF ShardToDevice, clients, dispatchers, backend
<1>3. PICK h \in Handles : h = current
  BY <1>1 DEF ShardToDevice, TypeOK
<1>4. InTransfer(h) /\ h # NoHandle
  BY <1>3 DEF InTransfer, ShardToDevice
<1>5. PICK t \in Tasks : t = h[1]
  BY <1>1, HandleShape
<1>6. /\ InHand(h) /\ status[t] \in {"waiting", "late"} /\ t \notin In(dumping)
      /\ \A q \in Queues : t \notin In(waiting[q]) /\ t # task[q]
  BY <1>4, <1>5, HandElsewhere
<1>7. /\ finished' \in {finished, t}
      /\ \/ IsLast(h) /\ syncing' /\ current' = h /\ holder' = holder
         \/ ~syncing' /\ current' = NoHandle /\ holder' = holder \cup {h}
  BY <1>3, <1>5 DEF ShardToDevice
<1>8. h \notin In(running)
  BY <1>3 DEF Shape, Order
<1>9. \A g \in Handles : InTransfer(g)' => InTransfer(g) /\ g \notin (holder' \ holder)
  BY <1>2, <1>3, <1>4, <1>7, <1>8 DEF InTransfer
<1>10. ASSUME NEW u \in Tasks, u # t PROVE Stage(u)'
  <2>1. \A g \in Handles : g[1] = u => (g \in holder' => g \in holder)
    BY <1>5, <1>7, <1>10
  <2>2. u = finished' => u = finished
    BY <1>7, <1>10
  <2>3. Quiet(u)
    BY <1>2, <1>9, <2>1, <2>2 DEF Quiet
  <2> QED
    BY <1>1, <2>3, StageFrame
<1>11. Stage(t)'
  <2>1. ASSUME NEW g \in Handles, g[1] = t, InTransfer(g)' PROVE InHand(g)'
    <3>1. InHand(g)
      BY <1>9, <2>1, HandElsewhere
    <3> QED
      BY <1>1, <1>2, <1>7, <1>9, <2>1, <3>1 DEF InHand
  <2>2. \A g \in holder' : g[1] = t => TypeOf(g) = "load" /\ at'[g] # NoNode
    BY <1>1, <1>2, <1>6, <1>7 DEF Stage, InHand
  <2> QED
    BY <1>1, <1>2, <1>6, <2>1, <2>2 DEF Stage, InHand, Queues
<1>12. Order'
  <2>1. current' \notin In(running')
    <3>1. NoHandle \notin In(running)
      BY <1>1, QueueOfHandles DEF TypeOK
    <3> QED
      BY <1>2, <1>7, <1>8, <3>1
  <2>2. Followed(running)'
    BY <1>1, <1>2 DEF Shape, Order, Followed, LastShard
  <2> QED
    BY <1>1, <1>2, <1>4, <1>7, <2>1, <2>2 DEF Shape, Order
<1> QED
  BY <1>10, <1>11, <1>12

\* The transfer thread is done with a shard, and with what it drops of holder_.
LEMMA HandEndsStage ==
    ASSUME Shape, TypeOK', mix' = mix, NEW h \in Handles, h = current,
           NEW H \in SUBSET holder, holder' = holder \ H, Finish(h, H),
           IF IsLast(h) THEN Done(h[1]) ELSE latch' = latch,
           failureSet' \in {failureSet, failureSet \cup {h[1]}},
           finished' \in {finished, h[1]},
           UNCHANGED <<status, waiting, task, shard, running, dumping, todo, broken>>
    PROVE  (\A u \in Tasks : Stage(u)') /\ Order'
<1>1. /\ TypeOK /\ mix \in Mixes /\ \A u \in Tasks : Stage(u)
      /\ Handles' = Handles /\ Work' = Work /\ \A u : LastShard(u)' = LastShard(u)
      /\ \A g : TypeOf(g)' = TypeOf(g) /\ IsLast(g)' = IsLast(g)
  BY MixStays DEF Shape, LastShard
<1>2. h # NoHandle /\ InTransfer(h) /\ h \notin In(running)
  BY <1>1, HandleShape DEF InTransfer, Shape, Order
<1>3. PICK t \in Tasks : t = h[1]
  BY <1>1, HandleShape
<1>4. /\ InHand(h) /\ status[t] \in {"waiting", "late"} /\ t \notin In(dumping)
      /\ \A q \in Queues : t \notin In(waiting[q]) /\ t # task[q]
  BY <1>2, <1>3, HandElsewhere
<1>5. /\ current' = NoHandle /\ ~syncing'
      /\ \A g \in Handles : at'[g] = IF g \in H \cup {h} THEN NoNode ELSE at[g]
  <2>1. H \cup {h} \in SUBSET Handles
    BY <1>1 DEF TypeOK
  <2>2. Release(H \cup {h}) /\ current' = NoHandle /\ syncing' = FALSE
    BY DEF Finish
  <2> QED
    BY <2>1, <2>2, ReleaseDrops
<1>6. \A g \in Handles : InTransfer(g)' => InTransfer(g) /\ g # h /\ g \in In(running)
  BY <1>1, <1>2, <1>5, HandleShape DEF InTransfer
<1>7. /\ \A u \in Tasks : u # t => (u \in latch' <=> u \in latch) /\ (u \in failureSet' <=> u \in failureSet)
      /\ t \notin latch' => IsLast(h)
  BY <1>3, <1>4 DEF Done, InHand
<1>8. ASSUME NEW u \in Tasks, u # t PROVE Stage(u)'
  <2>1. \A g \in Handles : g[1] = u =>
          /\ g \in holder' => g \in holder /\ at'[g] = at[g]
          /\ at'[g] = at[g] \/ (g \in holder /\ at'[g] = NoNode)
    BY <1>3, <1>5, <1>8
  <2>2. u = finished' => u = finished
    BY <1>3, <1>8
  <2>3. Quiet(u)
    BY <1>6, <1>7, <1>8, <2>1, <2>2 DEF Quiet
  <2> QED
    BY <1>1, <2>3, StageFrame
<1>9. Stage(t)'
  <2>1. ASSUME NEW g \in Handles, g[1] = t, InTransfer(g)' PROVE InHand(g)'
    <3>1. InHand(g) /\ g \in In(running) /\ g # h
      BY <1>6, <2>1, HandElsewhere
    <3>2. ~IsLast(h)
      BY <1>3, <2>1, <3>1, NoneAfterLast
    <3>3. at'[g] # NoNode /\ g \notin holder'
      BY <1>5, <3>1 DEF InHand
    <3> QED
      BY <1>1, <1>3, <1>4, <1>7, <2>1, <3>1, <3>2, <3>3 DEF InHand
  <2>2. \A g \in holder' : g[1] = t => TypeOf(g) = "load" /\ at'[g] # NoNode
    BY <1>1, <1>4, <1>5 DEF Stage, InHand, TypeOK
  <2> QED
    BY <1>1, <1>4, <2>1, <2>2 DEF Stage, Queues
<1>10. Order'
  <2>1. NoHandle \notin In(running)
    BY <1>1, QueueOfHandles DEF TypeOK
  <2>2. Followed(running)'
    BY <1>1 DEF Shape, Order, Followed, LastShard
  <2> QED
    BY <1>1, <1>5, <2>1, <2>2 DEF Shape, Order
<1> QED
  BY <1>8, <1>9, <1>10

\* A shard that fails, and the wait for the streams.
LEMMA HandStage ==
    ASSUME Shape, TypeOK', mix' = mix, ShardFails \/ TransferSync
    PROVE  (\A u \in Tasks : Stage(u)') /\ Order'
<1>1. PICK h \in Handles : h = current
  BY DEF Shape, TypeOK, Order, ShardFails, TransferSync
<1>2. CASE ShardFails
  <2>1. /\ Finish(h, {}) /\ failureSet' = failureSet \cup {h[1]} /\ finished' \in {finished, h[1]}
        /\ IF IsLast(h) THEN Done(h[1]) ELSE latch' = latch
        /\ holder' = holder
    BY <1>1, <1>2 DEF ShardFails
  <2>2. UNCHANGED <<status, waiting, task, shard, running, dumping, todo, broken>>
    BY <1>2 DEF ShardFails, dispatchers, backend
  <2>3. {} \in SUBSET holder /\ holder' = holder \ {}
    BY <2>1
  <2> QED
    BY <1>1, <2>1, <2>2, <2>3, HandEndsStage
<1>3. CASE TransferSync
  <2>1. /\ Finish(h, holder) /\ failureSet' \in {failureSet, failureSet \cup {h[1]}} /\ finished' = finished
        /\ Done(h[1]) /\ holder' = {}
    BY <1>1, <1>3 DEF TransferSync
  <2>2. IsLast(h)
    BY <1>1, <1>3 DEF TransferSync, Shape, Order
  <2>3. UNCHANGED <<status, waiting, task, shard, running, dumping, todo, broken>>
    BY <1>3 DEF TransferSync, dispatchers, backend
  <2>4. holder \in SUBSET holder /\ holder' = holder \ holder
    BY <2>1
  <2> QED
    BY <1>1, <2>1, <2>2, <2>3, <2>4, HandEndsStage
<1> QED
  BY <1>2, <1>3

\* The dump's dispatcher hands its shards to the backend.
LEMMA DumpDispatchStage ==
    ASSUME Shape, TypeOK', mix' = mix, DumpDispatch
    PROVE  (\A u \in Tasks : Stage(u)') /\ Order'
<1>1. /\ TypeOK /\ mix \in Mixes /\ \A u \in Tasks : Stage(u)
      /\ Handles' = Handles /\ Work' = Work /\ \A u : LastShard(u)' = LastShard(u)
      /\ \A g : TypeOf(g)' = TypeOf(g) /\ IsLast(g)' = IsLast(g)
  BY MixStays DEF Shape, LastShard
<1>2. UNCHANGED <<at, status, failureSet, waiting, shard, running, current, holder, syncing, finished, broken>>
  BY DEF DumpDispatch, transfer
<1>3. PICK t \in Tasks : t = task["dump"]
  BY <1>1 DEF DumpDispatch, Gathered, TypeOK, Queues
<1>4. /\ InDispatch(t, "dump") /\ status[t] \in {"waiting", "late"}
      /\ \A p \in Queues : t \notin In(waiting[p]) /\ (p # "dump" => t # task[p])
      /\ \A g \in Handles : g[1] = t => ~InTransfer(g) /\ g \notin holder
      /\ t \notin In(dumping)
  <2>1. "dump" \in Queues
    BY DEF Queues
  <2> QED
    BY <1>1, <1>3, <2>1, DispatchedElsewhere
<1>5. /\ \A u \in Tasks : u # t => (u \in latch' <=> u \in latch) /\ todo'[u] = todo[u]
      /\ task'["dump"] = NoTask /\ NoTask \notin Tasks /\ \A p \in Queues : p # "dump" => task'[p] = task[p]
      /\ dumping' = dumping \/ dumping' = Append(dumping, t)
  BY <1>1, <1>3, TransferAssumption DEF DumpDispatch, Done, Idle, TypeOK
<1>6. In(dumping') \subseteq In(dumping) \cup {t} /\ Once(dumping')
  <2>1. dumping \in Seq(Tasks) /\ Once(dumping)
    BY <1>1 DEF Shape, Order, TypeOK
  <2>2. In(Append(dumping, t)) = In(dumping) \cup {t} /\ Once(Append(dumping, t))
    BY <1>4, <2>1, AppendIn
  <2> QED
    BY <1>5, <2>1, <2>2
<1>7. \A g \in Handles : InTransfer(g)' <=> InTransfer(g)
  BY <1>2 DEF InTransfer
<1>8. ASSUME NEW u \in Tasks, u # t PROVE Stage(u)'
  <2>1. \A p \in Queues : u = task'[p] => u = task[p] /\ shard'[p] = shard[p]
    BY <1>2, <1>5
  <2>2. Quiet(u)
    BY <1>2, <1>5, <1>6, <1>7, <1>8, <2>1 DEF Quiet
  <2> QED
    BY <1>1, <2>2, StageFrame
<1>9. Stage(t)'
  <2>1. \A p \in Queues : t # task'[p]
    BY <1>4, <1>5
  <2>2. holder \subseteq Handles
    BY <1>1 DEF TypeOK
  <2>3. t \in DOMAIN Work /\ Work[t].type = "dump"
    BY <1>4 DEF InDispatch
  <2> QED
    BY <1>1, <1>2, <1>4, <1>7, <2>1, <2>2, <2>3 DEF Stage, Queues
<1>10. Order'
  <2>1. Followed(running)'
    BY <1>1, <1>2 DEF Shape, Order, Followed, LastShard
  <2> QED
    BY <1>1, <1>2, <1>6, <2>1 DEF Shape, Order
<1> QED
  BY <1>8, <1>9, <1>10

\* The dumper lets a task's buffers go.
LEMMA DumperStage ==
    ASSUME Shape, TypeOK', mix' = mix, Dumper
    PROVE  (\A u \in Tasks : Stage(u)') /\ Order'
<1>1. /\ TypeOK /\ mix \in Mixes /\ \A u \in Tasks : Stage(u)
      /\ Handles' = Handles /\ Work' = Work /\ \A u : LastShard(u)' = LastShard(u)
      /\ \A g : TypeOf(g)' = TypeOf(g) /\ IsLast(g)' = IsLast(g)
  BY MixStays DEF Shape, LastShard
<1>2. UNCHANGED <<status, latch, failureSet, waiting, task, shard, running, current, holder, syncing, finished, todo, broken>>
  BY DEF Dumper, clients, dispatchers, transfer, backend
<1>3. dumping \in Seq(Tasks) /\ dumping # <<>> /\ Once(dumping) /\ dumping' = Tail(dumping)
  BY <1>1 DEF Dumper, Shape, Order, TypeOK
<1>4. PICK t \in Tasks : t = Head(dumping)
  BY <1>3, TailIn
<1>5. t \in In(dumping) /\ In(dumping') \subseteq In(dumping) /\ Once(dumping')
  BY <1>3, <1>4, TailIn
<1>6. /\ t \in DOMAIN Work /\ Work[t].type = "dump" /\ ~Unsent(t)
      /\ status[t] # "new" /\ \A q \in Queues : t \notin In(waiting[q]) /\ t # task[q]
  <2>1. ~Unsent(t)
    BY <1>5 DEF Unsent
  <2> QED
    BY <1>1, <1>5, <2>1, BegunElsewhere DEF Stage
<1>7. \A g \in Handles : at'[g] = IF g \in Held(t) THEN NoNode ELSE at[g]
  BY <1>4, ReleaseDrops DEF Dumper, Held
<1>8. \A g \in Handles : InTransfer(g)' <=> InTransfer(g)
  BY <1>2 DEF InTransfer
<1>9. ASSUME NEW g \in Handles, g[1] = t PROVE ~InTransfer(g) /\ g \notin holder
  <2>1. TypeOf(g) = "dump"
    BY <1>6, <1>9 DEF TypeOf
  <2> QED
    BY <1>1, <1>9, <2>1 DEF Stage, InHand
<1>10. ASSUME NEW u \in Tasks, u # t PROVE Stage(u)'
  <2>1. \A g \in Handles : g[1] = u => at'[g] = at[g]
    BY <1>7, <1>10 DEF Held
  <2>2. Quiet(u)
    BY <1>2, <1>5, <1>8, <1>10, <2>1 DEF Quiet
  <2> QED
    BY <1>1, <2>2, StageFrame
<1>11. Stage(t)'
  <2>1. holder \subseteq Handles
    BY <1>1 DEF TypeOK
  <2> QED
    BY <1>1, <1>2, <1>6, <1>8, <1>9, <2>1 DEF Stage, Queues
<1>12. Order'
  <2>1. Followed(running)'
    BY <1>1, <1>2 DEF Shape, Order, Followed, LastShard
  <2> QED
    BY <1>1, <1>2, <1>5, <2>1 DEF Shape, Order
<1> QED
  BY <1>10, <1>11, <1>12

\* The device and the backend.
LEMMA ExternalStage ==
    ASSUME Shape, TypeOK', mix' = mix, External
    PROVE  (\A u \in Tasks : Stage(u)') /\ Order'
<1>1. /\ TypeOK /\ mix \in Mixes /\ \A u \in Tasks : Stage(u)
      /\ Handles' = Handles /\ Work' = Work /\ \A u : LastShard(u)' = LastShard(u)
      /\ \A g : TypeOf(g)' = TypeOf(g) /\ IsLast(g)' = IsLast(g)
  BY MixStays DEF Shape, LastShard
<1>2. UNCHANGED <<at, status, latch, failureSet, waiting, task, shard, running, current, holder, syncing, finished, dumping>>
  BY DEF External, Copy, BackendShard, pool, clients, dispatchers, transfer
<1>3. \A g \in Handles : InTransfer(g)' <=> InTransfer(g)
  BY <1>2 DEF InTransfer
<1>4. Order'
  <2>1. Followed(running)'
    BY <1>1, <1>2 DEF Shape, Order, Followed, LastShard
  <2> QED
    BY <1>1, <1>2, <2>1 DEF Shape, Order
<1>5. CASE UNCHANGED backend
  <2>1. ASSUME NEW u \in Tasks PROVE Stage(u)'
    <3>1. Quiet(u)
      BY <1>2, <1>3, <1>5 DEF Quiet, backend
    <3> QED
      BY <1>1, <3>1, StageFrame
  <2> QED
    BY <1>4, <2>1
<1>6. ASSUME NEW t \in Tasks, NEW s \in todo[t], BackendShard(t, s) PROVE \A u \in Tasks : Stage(u)'
  <2>1. /\ \A u \in Tasks : u # t => todo'[u] = todo[u] /\ (u \in broken' <=> u \in broken)
        /\ todo[t] # {}
    BY <1>1, <1>6 DEF BackendShard, TypeOK
  <2>2. ASSUME NEW u \in Tasks, u # t PROVE Stage(u)'
    <3>1. Quiet(u)
      BY <1>2, <1>3, <2>1, <2>2 DEF Quiet
    <3> QED
      BY <1>1, <3>1, StageFrame
  <2>3. Stage(t)'
    <3>1. ~Unsent(t)
      BY <2>1 DEF Unsent
    <3>2. status[t] # "new" /\ \A q \in Queues : t \notin In(waiting[q]) /\ t # task[q]
      BY <1>1, <3>1, BegunElsewhere
    <3>3. \A g \in Handles : InHand(g)' <=> InHand(g)
      BY <1>1, <1>2 DEF InHand, LastShard
    <3> QED
      BY <1>1, <1>2, <1>3, <3>2, <3>3 DEF Stage, TypeOK, Queues
  <2> QED
    BY <2>2, <2>3
<1>7. External => UNCHANGED backend \/ \E t \in Tasks : \E s \in todo[t] : BackendShard(t, s)
  BY DEF External, Copy
<1> QED
  BY <1>4, <1>5, <1>6, <1>7

\* Every step keeps the shape.
LEMMA ShapeStep ==
    ASSUME Shape, Next
    PROVE  Shape'
<1>1. TypeOK' /\ Counts'
  BY TypeStep
<1>2. Buffers'
  BY BuffersStep
<1>3. mix' = mix /\ mix' \in Mixes /\ TypeOK
  BY DEF Next, Shape
<1>4. "load" \in Queues /\ "dump" \in Queues
  BY DEF Queues
<1>5. ASSUME LoadGet PROVE (\A u \in Tasks : Stage(u)') /\ Order'
  <2>1. PICK h \in Handles : h = <<task["load"], shard["load"]>>
    BY <1>5 DEF LoadGet
  <2>2. PICK n \in Nodes : Get(h, n)
    BY <1>5, <2>1 DEF LoadGet
  <2>3. at'[h] # NoNode /\ \A g \in Handles : g # h => at'[g] = at[g]
    BY <1>3, <2>2, GetGives, TransferAssumption
  <2>4. /\ shard' = [shard EXCEPT !["load"] = @ + 1]
        /\ UNCHANGED <<clients, waiting, task, transfer, dumping, backend>>
    BY <1>5 DEF LoadGet
  <2> QED
    BY <1>1, <1>3, <1>4, <2>1, <2>3, <2>4, GetStage
<1>6. ASSUME DumpGet PROVE (\A u \in Tasks : Stage(u)') /\ Order'
  <2>1. PICK h \in Handles : h = <<task["dump"], shard["dump"]>>
    BY <1>6 DEF DumpGet
  <2>2. UNCHANGED pool \/ \E n \in Nodes : Get(h, n)
    BY <1>6, <2>1 DEF DumpGet
  <2>3. \A g \in Handles : g # h => at'[g] = at[g]
    BY <1>3, <2>2, GetGives DEF pool
  <2>4. /\ shard' = [shard EXCEPT !["dump"] = @ + 1]
        /\ UNCHANGED <<clients, waiting, task, transfer, dumping, backend>>
    BY <1>6 DEF DumpGet
  <2> QED
    BY <1>1, <1>3, <1>4, <2>1, <2>3, <2>4, GetStage
<1>7. ASSUME DumpGetFails \/ DumpDispatchFails PROVE (\A u \in Tasks : Stage(u)') /\ Order'
  <2>1. PICK t \in Tasks : t = task["dump"]
    <3>1. CASE DumpGetFails
      <4>1. <<task["dump"], shard["dump"]>> \in Handles
        BY <3>1 DEF DumpGetFails
      <4> QED
        BY <4>1, HandleShape DEF Shape
    <3>2. CASE DumpDispatchFails
      BY <1>3, <1>4, <3>2 DEF DumpDispatchFails, Gathered, TypeOK
    <3> QED
      BY <1>7, <3>1, <3>2
  <2>2. Release(Held(t)) /\ Fail(t) /\ Idle("dump")
    BY <1>7, <2>1 DEF DumpGetFails, DumpDispatchFails, DumpFails
  <2>3. UNCHANGED <<status, waiting, shard, transfer, dumping, backend>>
    BY <1>7 DEF DumpGetFails, DumpDispatchFails
  <2> QED
    BY <1>1, <1>3, <1>4, <2>1, <2>2, <2>3, DispatchFailsStage
<1>8. (\A u \in Tasks : Stage(u)') /\ Order'
  BY <1>1, <1>3, <1>4, <1>5, <1>6, <1>7, SubmitStage, WaitsStage, TakeStage, LoadDispatchStage, TransferTakeStage,
     ShardToDeviceStage, HandStage, DumpDispatchStage, DumperStage, ExternalStage
     DEF Next, Step, LoadDispatcher, LoadTransfer, DumpDispatcher
<1> QED
  BY <1>1, <1>2, <1>3, <1>8 DEF Shape

-----------------------------------------------------------------------------
(* Who works on which buffer, and what is in it, while the system is calm. *)

(* the device or the backend works on the buffer of handle h *)
Used(h) == (\E c \in copies : c[1] = h) \/ (\E s \in todo[h[1]] : s[1] = h)

\* A buffer that is worked on stays its handle's, and as ready as it was.
LEMMA WorkingFrame ==
    ASSUME Shape, Working, mix' = mix,
           \A h \in Handles : Used(h) => at'[h] = at[h] /\ (own[h] => own'[h]),
           \A n \in Nodes : (\E h \in Handles : at[h] = n) /\ ready[n] => ready'[n],
           \A h \in Handles : Used(h) /\ own[h] /\ ready'[at[h]] => ready[at[h]],
           \A c \in copies :
             IF TypeOf(c[1]) = "load" THEN c[1] \in holder' \/ (c[1] = current' /\ syncing')
                                      ELSE c[1][1] = task'["dump"],
           \A t \in In(dumping) : todo[t] # {} => t \in In(dumping'),
           \A c \in copies' : c \in copies \/ CopyHeld(c)',
           \A t \in Tasks : \A s \in todo'[t] : s \in todo[t] \/ ShardHeld(t, s)'
    PROVE  Working'
<1>1. /\ TypeOK /\ mix \in Mixes /\ Handles' = Handles
      /\ \A g : TypeOf(g)' = TypeOf(g)
  BY MixStays DEF Shape
<1>2. ASSUME NEW c \in copies PROVE CopyHeld(c)'
  <2>1. c[1] \in Handles /\ c[2] \in Nodes /\ CopyHeld(c)
    BY <1>1 DEF TypeOK, Working
  <2>2. Used(c[1])
    BY DEF Used
  <2>3. at'[c[1]] = c[2] /\ at[c[1]] = c[2]
    BY <2>1, <2>2 DEF CopyHeld
  <2>4. CASE TypeOf(c[1]) = "load"
    BY <1>1, <2>1, <2>3, <2>4 DEF CopyHeld
  <2>5. CASE TypeOf(c[1]) # "load"
    BY <1>1, <2>1, <2>2, <2>3, <2>5 DEF CopyHeld
  <2> QED
    BY <2>4, <2>5
<1>3. ASSUME NEW t \in Tasks, NEW s \in todo[t] PROVE ShardHeld(t, s)'
  <2>1. s[1] \in Handles /\ s[2] \in Nodes /\ ShardHeld(t, s)
    BY <1>1 DEF TypeOK, Working
  <2>2. Used(s[1])
    BY <2>1 DEF Used, ShardHeld
  <2>3. at'[s[1]] = s[2] /\ at[s[1]] = s[2] /\ s[1][1] = t /\ own'[s[1]] /\ own[s[1]]
    BY <2>1, <2>2 DEF ShardHeld
  <2>4. CASE TypeOf(s[1]) = "load"
    BY <1>1, <2>1, <2>2, <2>3, <2>4 DEF ShardHeld
  <2>5. CASE TypeOf(s[1]) # "load"
    BY <1>1, <2>1, <2>2, <2>3, <2>5 DEF ShardHeld
  <2> QED
    BY <2>4, <2>5
<1> QED
  BY <1>2, <1>3 DEF Working

\* A buffer has one task of the device or the backend.
LEMMA OwnerIsAlone ==
    ASSUME Shape, NEW g \in Handles, NEW h \in Handles, own[g], own[h], at[g] = at[h]
    PROVE  g = h
  BY DEF Shape, Buffers

\* A new task, waiting for its dispatcher or failed.
LEMMA SubmitClaims ==
    ASSUME Shape, Calm, Claims, mix' = mix, NEW t \in Tasks, Submit(t)
    PROVE  Claims'
<1>1. /\ TypeOK /\ mix \in Mixes /\ Handles' = Handles /\ Stage(t)
      /\ \A g : TypeOf(g)' = TypeOf(g) /\ KeyOf(g)' = KeyOf(g)
  BY MixStays DEF Shape
<1>2. /\ UNCHANGED <<key, ready, at, own, data, dst, stored, todo, broken, finished, dumping, copies>>
      /\ UNCHANGED <<running, current, holder, task, shard, syncing>>
  BY DEF Submit, pool, transfer, backend, memory
<1>3. /\ Unsent(t) /\ t \notin latch /\ \A q \in Queues : t # task[q]
  BY <1>1 DEF Stage, Submit, Untouched
<1>4. /\ status' = [status EXCEPT ![t] = "waiting"]
      /\ latch \subseteq latch' /\ failureSet \subseteq failureSet' /\ failureSet' \subseteq failureSet \cup {t}
      /\ \/ waiting' = [waiting EXCEPT ![Work[t].type] = Append(waiting[Work[t].type], t)] /\ t \in latch'
         \/ waiting' = waiting /\ t \in failureSet'
  BY DEF Submit
<1>5. t \in DOMAIN Work /\ Work[t].type \in Queues /\ waiting \in [Queues -> Seq(Tasks)]
  BY <1>1, TransferAssumption DEF MixShape, Work, Submit, TypeOK
<1>6. /\ In(waiting["load"]) \subseteq In(waiting'["load"])
      /\ Work[t].type = "load" => t \in failureSet' \/ (t \in latch' /\ t \in In(waiting'["load"]))
  <2>1. CASE waiting' = waiting /\ t \in failureSet'
    BY <2>1
  <2>2. CASE Work[t].type = "load" /\ waiting' = [waiting EXCEPT ![Work[t].type] = Append(waiting[Work[t].type], t)] /\ t \in latch'
    <3>1. waiting["load"] \in Seq(Tasks) /\ waiting'["load"] = Append(waiting["load"], t)
      BY <1>5, <2>2 DEF Queues
    <3> QED
      BY <2>2, <3>1, AppendIn
  <2>3. CASE Work[t].type # "load" /\ waiting' = [waiting EXCEPT ![Work[t].type] = Append(waiting[Work[t].type], t)]
    BY <1>5, <2>3 DEF Queues
  <2> QED
    BY <1>4, <2>1, <2>2, <2>3
<1>7. Working' /\ Marked' /\ DumpsOwn' /\ ReadyBuffersHold' /\ StoredHolds'
  BY <1>1, <1>2 DEF Claims, Working, CopyHeld, ShardHeld, Marked, DumpsOwn, ReadyBuffersHold, StoredHolds
<1>8. LoadsComing' /\ DumpsComing'
  BY <1>1, <1>2 DEF Claims, LoadsComing, DumpsComing, InTransfer
<1>9. Failing'
  <2>1. current # NoHandle => current[1] # t
    BY <1>1, <1>3 DEF Unsent, InTransfer, TypeOK
  <2>2. finished \in broken => finished \in failureSet' \/ status'[finished] \notin {"new", "waiting", "late"}
    <3>1. finished # t
      BY <1>3 DEF Unsent
    <3>2. finished \in broken => finished \in Tasks
      BY <1>1 DEF TypeOK
    <3> QED
      BY <1>1, <1>4, <3>1, <3>2 DEF Claims, Failing, TypeOK
  <2>3. \A u \in failureSet' : todo[u] = {}
    BY <1>3, <1>4 DEF Unsent, Claims, Failing
  <2>4. \A q \in Queues : task[q] \notin failureSet'
    BY <1>3, <1>4 DEF Claims, Failing
  <2>5. current # NoHandle => current[1] \notin failureSet'
    BY <1>4, <2>1 DEF Claims, Failing
  <2> QED
    BY <1>2, <2>2, <2>3, <2>4, <2>5 DEF Claims, Failing
<1>10. Delivering'
  <2> SUFFICES ASSUME NEW h \in Handles, TypeOf(h) = "load"
               PROVE  \/ status'[h[1]] \notin {"waiting", "ok"} \/ h[1] \in failureSet'
                      \/ dst'[h] = KeyOf(h) \/ Coming(h)'
    BY <1>1 DEF Delivering
  <2>1. CASE h[1] = t
    BY <1>6, <2>1 DEF TypeOf, Coming
  <2>2. CASE h[1] # t
    <3>1. status'[h[1]] = status[h[1]]
      BY <1>1, <1>4, <2>2, HandleShape DEF TypeOK
    <3>2. Coming(h) => Coming(h)'
      BY <1>2, <1>4, <1>6 DEF Coming
    <3> QED
      BY <1>2, <1>4, <3>1, <3>2 DEF Claims, Delivering
  <2> QED
    BY <2>1, <2>2
<1> QED
  BY <1>7, <1>8, <1>9, <1>10 DEF Claims

\* Wait: an ok is for a task that did not fail and has nothing coming.
LEMMA WaitsClaims ==
    ASSUME Shape, Calm, Claims, mix' = mix, NEW t \in Tasks, Waits(t)
    PROVE  Claims'
<1>1. /\ TypeOK /\ mix \in Mixes /\ Handles' = Handles
      /\ \A g : TypeOf(g)' = TypeOf(g) /\ KeyOf(g)' = KeyOf(g)
  BY MixStays DEF Shape
<1>2. /\ UNCHANGED <<key, ready, at, own, data, dst, stored, todo, broken, finished, dumping, copies>>
      /\ UNCHANGED <<running, current, holder, task, shard, syncing, waiting, latch>>
  BY DEF Waits, WaitReturns, TimeOut, LateReturns, pool, transfer, dispatchers, backend, memory
<1>3. /\ \A u \in Tasks : u # t => status'[u] = status[u]
      /\ failureSet' = failureSet \ {t}
      /\ status'[t] \in {"ok", "error", "timeout"}
      /\ status'[t] = "ok" => status[t] = "waiting" /\ t \notin latch /\ t \notin failureSet
  BY <1>1 DEF Waits, WaitReturns, TimeOut, LateReturns, TypeOK, Calm
<1>4. Working' /\ Marked' /\ DumpsOwn' /\ ReadyBuffersHold' /\ StoredHolds'
  BY <1>1, <1>2 DEF Claims, Working, CopyHeld, ShardHeld, Marked, DumpsOwn, ReadyBuffersHold, StoredHolds
<1>5. LoadsComing' /\ DumpsComing'
  BY <1>1, <1>2 DEF Claims, LoadsComing, DumpsComing, InTransfer
<1>6. Failing'
  <2>1. finished \in broken => finished \in failureSet' \/ status'[finished] \notin {"new", "waiting", "late"}
    BY <1>1, <1>3 DEF Claims, Failing, TypeOK
  <2> QED
    BY <1>2, <1>3, <2>1 DEF Claims, Failing
<1>7. Delivering'
  <2> SUFFICES ASSUME NEW h \in Handles, TypeOf(h) = "load"
               PROVE  \/ status'[h[1]] \notin {"waiting", "ok"} \/ h[1] \in failureSet'
                      \/ dst'[h] = KeyOf(h) \/ Coming(h)'
    BY <1>1 DEF Delivering
  <2>1. h[1] \in Tasks
    BY <1>1, HandleShape
  <2>2. Coming(h) <=> Coming(h)'
    BY <1>2 DEF Coming
  <2>3. CASE h[1] = t
    BY <1>2, <1>3, <2>3 DEF Claims, Delivering, Coming
  <2>4. CASE h[1] # t
    BY <1>2, <1>3, <2>1, <2>2, <2>4 DEF Claims, Delivering
  <2> QED
    BY <2>3, <2>4
<1> QED
  BY <1>4, <1>5, <1>6, <1>7 DEF Claims

\* A dispatcher takes a task, or finds it failed.
LEMMA TakeClaims ==
    ASSUME Shape, Calm, Claims, mix' = mix, NEW q \in Queues, Take(q)
    PROVE  Claims'
<1>1. /\ TypeOK /\ mix \in Mixes /\ Handles' = Handles
      /\ \A g : TypeOf(g)' = TypeOf(g) /\ KeyOf(g)' = KeyOf(g)
  BY MixStays DEF Shape
<1>2. /\ UNCHANGED <<key, ready, at, own, data, dst, stored, todo, broken, finished, dumping, copies>>
      /\ UNCHANGED <<running, current, holder, syncing, status, failureSet>>
  BY DEF Take, pool, transfer, backend, memory
<1>3. waiting[q] \in Seq(Tasks) /\ waiting[q] # <<>> /\ task[q] = NoTask /\ NoTask \notin Tasks
  BY <1>1, TransferAssumption DEF TypeOK, Take
<1>4. PICK t \in Tasks : t = Head(waiting[q])
  BY <1>3, TailIn
<1>5. /\ waiting'[q] = Tail(waiting[q]) /\ \A p \in Queues : p # q => waiting'[p] = waiting[p]
      /\ In(waiting[q]) = In(waiting'[q]) \cup {t} /\ t \in In(waiting[q])
  <2>1. waiting'[q] = Tail(waiting[q]) /\ \A p \in Queues : p # q => waiting'[p] = waiting[p]
    BY <1>1 DEF Take, TypeOK
  <2> QED
    BY <1>3, <1>4, <2>1, TailIn
<1>6. Held(t) = {} /\ t \in latch /\ Work[t].type = q
  <2>1. InQueue(t, q)
    BY <1>5 DEF Shape, Stage
  <2> QED
    BY <2>1 DEF InQueue, Untouched
<1>7. \/ latch' = latch \ {t} /\ t \in failureSet /\ task' = task
      \/ latch' = latch /\ t \notin failureSet /\ task'[q] = t /\ \A p \in Queues : p # q => task'[p] = task[p]
  BY <1>1, <1>4 DEF Take, Done, TypeOK
<1>8. Working'
  <2>1. ASSUME NEW c \in copies, TypeOf(c[1]) # "load" PROVE c[1][1] = task'["dump"]
    <3>1. c[1][1] = task["dump"] /\ c[1] \in Handles
      BY <1>1, <2>1 DEF Claims, Working, CopyHeld, TypeOK
    <3>2. c[1][1] \in Tasks
      BY <1>1, <3>1, HandleShape
    <3>3. q # "dump"
      BY <1>3, <3>1, <3>2
    <3> QED
      BY <1>7, <3>1, <3>3 DEF Queues
  <2>2. \A c \in copies : CopyHeld(c)'
    BY <1>1, <1>2, <2>1 DEF Claims, Working, CopyHeld
  <2> QED
    BY <1>1, <1>2, <2>2 DEF Claims, Working, ShardHeld
<1>9. Marked' /\ DumpsOwn' /\ ReadyBuffersHold' /\ StoredHolds' /\ LoadsComing'
  BY <1>1, <1>2 DEF Claims, Marked, DumpsOwn, ReadyBuffersHold, StoredHolds, LoadsComing, InTransfer
<1>10. Failing'
  <2>1. \A p \in Queues : task'[p] \notin failureSet
    BY <1>7 DEF Claims, Failing
  <2> QED
    BY <1>2, <2>1 DEF Claims, Failing
<1>11. DumpsComing'
  <2>1. \A h \in Handles : h[1] = task'["dump"] /\ at[h] # NoNode => h[1] = task["dump"]
    BY <1>6, <1>7 DEF Held, Queues
  <2> QED
    BY <1>1, <1>2, <2>1 DEF Claims, DumpsComing
<1>12. Delivering'
  <2> SUFFICES ASSUME NEW h \in Handles, TypeOf(h) = "load"
               PROVE  \/ status[h[1]] \notin {"waiting", "ok"} \/ h[1] \in failureSet
                      \/ dst[h] = KeyOf(h) \/ Coming(h)'
    BY <1>1, <1>2 DEF Delivering
  <2>1. CASE h[1] = t
    <3>1. q = "load"
      BY <1>6, <2>1 DEF TypeOf
    <3> QED
      BY <1>6, <1>7, <2>1, <3>1 DEF Coming
  <2>2. CASE h[1] # t
    <3>1. h[1] \in Tasks
      BY <1>1, HandleShape
    <3>2. h[1] \in In(waiting["load"]) => h[1] \in In(waiting'["load"])
      BY <1>5, <2>2 DEF Queues
    <3>3. h[1] = task["load"] => h[1] = task'["load"]
      BY <1>3, <1>7, <3>1 DEF Queues
    <3>4. Coming(h) => Coming(h)'
      BY <1>2, <1>7, <2>2, <3>2, <3>3 DEF Coming
    <3> QED
      BY <3>4 DEF Claims, Delivering
  <2> QED
    BY <2>1, <2>2
<1> QED
  BY <1>8, <1>9, <1>10, <1>11, <1>12 DEF Claims

\* A Get leaves the buffers of the handles there are alone.
LEMMA GetAlone ==
    ASSUME Shape, NEW h \in Handles, at[h] = NoNode, NEW n \in Nodes, Get(h, n)
    PROVE  /\ at'[h] = n /\ own'[h] = (ref[n] = 0)
           /\ \A g \in Handles : at[g] # NoNode =>
                /\ g # h /\ at'[g] = at[g] /\ own'[g] = own[g]
                /\ key'[at[g]] = key[at[g]] /\ ready'[at[g]] = ready[at[g]]
           /\ \A g \in Handles : g # h => at'[g] = at[g]
           /\ \A m \in Nodes : ready'[m] => ready[m] /\ key'[m] = key[m]
           /\ key'[n] = KeyOf(h)
           /\ ready'[n] => key[n] = KeyOf(h)
<1>1. TypeOK /\ Counts
  BY DEF Shape
<1>2. /\ at'[h] = n /\ own'[h] = (ref[n] = 0)
      /\ \A g \in Handles : g # h => at'[g] = at[g] /\ own'[g] = own[g]
      /\ \A m \in Nodes : m # n => key'[m] = key[m] /\ ready'[m] = ready[m]
      /\ key'[n] = KeyOf(h)
      /\ \/ key' = key /\ ready' = ready
         \/ ref[n] = 0 /\ ~ready'[n] /\ \A m \in Nodes : key[m] # KeyOf(h)
  BY <1>1, GetGives
<1>3. \A g \in Handles : at[g] # NoNode => at[g] \in Nodes /\ ref[at[g]] > 0
  BY <1>1, HeldIsReferenced
<1>4. ASSUME NEW g \in Handles, at[g] # NoNode
      PROVE  key'[at[g]] = key[at[g]] /\ ready'[at[g]] = ready[at[g]]
  <2>1. CASE key' = key /\ ready' = ready
    BY <2>1
  <2>2. CASE ref[n] = 0
    <3>1. at[g] \in Nodes /\ at[g] # n
      BY <1>3, <1>4, <2>2
    <3> QED
      BY <1>2, <3>1
  <2> QED
    BY <1>2, <2>1, <2>2
<1>5. \A g \in Handles : at[g] # NoNode => g # h
  OBVIOUS
<1> QED
  BY <1>2, <1>4, <1>5

\* A handle somebody works on, and a shard in the transfer thread's hands, has
\* its buffer; a dispatcher's next shard has none and nobody works on it.
LEMMA UsedIsHeld ==
    ASSUME Shape, Working, NEW h \in Handles, Used(h) \/ InTransfer(h) \/ h \in holder
    PROVE  at[h] # NoNode
<1>1. h[1] \in Tasks /\ mix \in Mixes /\ TypeOK /\ NoNode \notin Nodes
  BY HandleShape, TransferAssumption DEF Shape
<1>2. CASE InTransfer(h)
  BY <1>2, HandElsewhere DEF InHand
<1>3. CASE h \in holder
  BY <1>1, <1>3 DEF Shape, Stage
<1>4. ASSUME NEW c \in copies, c[1] = h PROVE at[h] # NoNode
  <2>1. c[2] \in Nodes /\ at[h] = c[2]
    BY <1>1, <1>4 DEF Working, CopyHeld, TypeOK
  <2> QED
    BY <1>1, <2>1
<1>5. ASSUME NEW s \in todo[h[1]], s[1] = h PROVE at[h] # NoNode
  <2>1. s[2] \in Nodes /\ at[h] = s[2]
    BY <1>1, <1>5 DEF Working, ShardHeld, TypeOK
  <2> QED
    BY <1>1, <2>1
<1> QED
  BY <1>2, <1>3, <1>4, <1>5 DEF Used

LEMMA NextShardIsFree ==
    ASSUME Shape, NEW q \in Queues, NEW h \in Handles, h = <<task[q], shard[q]>>
    PROVE  at[h] = NoNode /\ h[1] = task[q] /\ task[q] \in Tasks
<1>1. h[1] = task[q] /\ h[2] = shard[q] /\ task[q] \in Tasks /\ TypeOK
  BY HandleShape DEF Shape
<1>2. shard[q] \in Nat /\ \A g \in Held(task[q]) : g[2] < shard[q]
  BY <1>1 DEF Shape, Stage, InDispatch, TypeOK
<1> QED
  BY <1>1, <1>2 DEF Held

\* A dispatcher gets a buffer: a load's waits for its bytes, a dump's own copy
\* brings them.
LEMMA GetClaims ==
    ASSUME Shape, Claims, mix' = mix, NEW q \in Queues, NEW h \in Handles, h = <<task[q], shard[q]>>,
           NEW n \in Nodes, Get(h, n),
           IF q = "load" THEN copies' = copies
                         ELSE ref[n] = 0 /\ copies' = IF ready'[n] THEN copies ELSE copies \cup {<<h, n>>},
           UNCHANGED <<clients, waiting, task, transfer, dumping, backend, memory>>
    PROVE  Claims'
<1>1. /\ TypeOK /\ mix \in Mixes /\ Handles' = Handles /\ NoNode \notin Nodes
      /\ \A g : TypeOf(g)' = TypeOf(g) /\ KeyOf(g)' = KeyOf(g)
  BY MixStays, TransferAssumption DEF Shape
<1>2. /\ UNCHANGED <<data, dst, stored, todo, broken, finished, dumping, waiting, task, status, latch, failureSet>>
      /\ UNCHANGED <<running, current, holder, syncing>>
  BY DEF clients, transfer, backend, memory
<1>3. at[h] = NoNode /\ h[1] = task[q] /\ TypeOf(h) = q
  <2>1. at[h] = NoNode /\ h[1] = task[q] /\ task[q] \in Tasks
    BY NextShardIsFree
  <2>2. InDispatch(task[q], q)
    BY <2>1 DEF Shape, Stage
  <2> QED
    BY <2>1, <2>2 DEF InDispatch, TypeOf
<1>4. /\ at'[h] = n /\ own'[h] = (ref[n] = 0)
      /\ \A g \in Handles : at[g] # NoNode =>
           /\ g # h /\ at'[g] = at[g] /\ own'[g] = own[g]
           /\ key'[at[g]] = key[at[g]] /\ ready'[at[g]] = ready[at[g]]
      /\ \A g \in Handles : g # h => at'[g] = at[g]
      /\ \A m \in Nodes : ready'[m] => ready[m] /\ key'[m] = key[m]
  BY <1>3, GetAlone
<1>5. \A g \in Handles : Used(g) \/ InTransfer(g) \/ g \in holder => at[g] # NoNode
  BY UsedIsHeld DEF Claims
<1>6. copies \subseteq copies' /\ \A c \in copies' : c \in copies \/ CopyHeld(c)'
  <2>1. copies \subseteq copies'
    OBVIOUS
  <2>2. ASSUME NEW c \in copies', c \notin copies PROVE CopyHeld(c)'
    <3>1. q = "dump" /\ c = <<h, n>> /\ ref[n] = 0 /\ ~ready'[n]
      BY <2>2 DEF Queues
    <3>2. c[1] = h /\ c[2] = n
      BY <3>1
    <3>3. TypeOf(h)' = "dump"
      BY <1>1, <1>3, <3>1
    <3> QED
      BY <1>2, <1>3, <1>4, <3>1, <3>2, <3>3 DEF CopyHeld
  <2> QED
    BY <2>1, <2>2
<1>7. Working'
  <2>1. \A g \in Handles : Used(g) => at'[g] = at[g] /\ (own[g] => own'[g])
    BY <1>4, <1>5
  <2>2. \A m \in Nodes : (\E g \in Handles : at[g] = m) /\ ready[m] => ready'[m]
    BY <1>1, <1>4
  <2>3. \A g \in Handles : Used(g) /\ own[g] /\ ready'[at[g]] => ready[at[g]]
    BY <1>4, <1>5
  <2>4. \A c \in copies :
             IF TypeOf(c[1]) = "load" THEN c[1] \in holder' \/ (c[1] = current' /\ syncing')
                                      ELSE c[1][1] = task'["dump"]
    BY <1>2 DEF Claims, Working, CopyHeld
  <2> QED
    BY <1>2, <1>6, <2>1, <2>2, <2>3, <2>4, WorkingFrame DEF Claims
<1>8. Failing'
  BY <1>2 DEF Claims, Failing
<1>9. Marked'
  <2>1. holder \subseteq Handles
    BY <1>1 DEF TypeOK
  <2>2. syncing => current \in Handles /\ InTransfer(current)
    BY <1>1 DEF Shape, Order, TypeOK, InTransfer
  <2> QED
    BY <1>2, <1>4, <1>5, <2>1, <2>2 DEF Claims, Marked
<1>10. DumpsOwn'
  <2> SUFFICES ASSUME NEW g \in Handles, TypeOf(g) = "dump", at'[g] # NoNode PROVE own'[g]
    BY <1>1 DEF DumpsOwn
  <2>1. CASE g = h
    BY <1>3, <1>4, <2>1
  <2>2. CASE g # h
    BY <1>4, <2>2 DEF Claims, DumpsOwn
  <2> QED
    BY <2>1, <2>2
<1>11. ReadyBuffersHold' /\ StoredHolds'
  BY <1>2, <1>4 DEF Claims, ReadyBuffersHold, StoredHolds
<1>12. LoadsComing'
  <2>1. \A g \in Handles : InTransfer(g)' <=> InTransfer(g)
    BY <1>2 DEF InTransfer
  <2> QED
    BY <1>1, <1>2, <1>4, <1>5, <2>1 DEF Claims, LoadsComing
<1>13. DumpsComing'
  <2> SUFFICES ASSUME NEW g \in Handles, g[1] = task["dump"], at'[g] # NoNode
               PROVE  ready'[at'[g]] \/ <<g, at'[g]>> \in copies' \/ data[at'[g]] = KeyOf(g)
    BY <1>1, <1>2 DEF DumpsComing
  <2>1. CASE g = h
    <3>1. q # "load"
      <4>1. task["dump"] \in Tasks /\ task["dump"] = task[q]
        BY <1>1, <1>3, <2>1, HandleShape
      <4> QED
        BY <4>1, DispatchedElsewhere DEF Shape, Queues
    <3> QED
      BY <1>4, <2>1, <3>1
  <2>2. CASE g # h
    <3>1. at'[g] = at[g] /\ ready'[at[g]] = ready[at[g]]
      BY <1>4, <2>2
    <3> QED
      BY <1>6, <3>1 DEF Claims, DumpsComing
  <2> QED
    BY <2>1, <2>2
<1>14. Delivering'
  <2>1. ASSUME NEW g \in Handles, Coming(g) PROVE Coming(g)'
    <3>1. <<g, at[g]>> \in copies => <<g, at'[g]>> \in copies'
      <4>1. <<g, at[g]>> \in copies => at[g] # NoNode
        BY <1>1 DEF TypeOK
      <4> QED
        BY <1>4, <1>6, <4>1
    <3> QED
      BY <1>2, <2>1, <3>1 DEF Coming
  <2> QED
    BY <1>1, <1>2, <2>1 DEF Claims, Delivering
<1> QED
  BY <1>7, <1>8, <1>9, <1>10, <1>11, <1>12, <1>13, <1>14 DEF Claims

\* The load's dispatcher hands its shards over; the backend reads what is missing.
LEMMA HandOverClaims ==
    ASSUME Shape, Claims, mix' = mix, NEW t \in Tasks, t = task["load"], Gathered("load"),
           running' = running \o AllOf(t), Idle("load"),
           todo' = [todo EXCEPT ![t] = {<<h, at[h]>> : h \in {h \in Held(t) : own[h] /\ ~ready[at[h]]}}],
           UNCHANGED <<pool, clients, waiting, shard, current, holder, syncing, finished, dumping, broken, copies, memory>>
    PROVE  Claims'
<1>1. /\ TypeOK /\ mix \in Mixes /\ Handles' = Handles /\ NoTask \notin Tasks
      /\ \A g : TypeOf(g)' = TypeOf(g) /\ KeyOf(g)' = KeyOf(g)
  BY MixStays, TransferAssumption DEF Shape
<1>2. /\ UNCHANGED <<key, ready, at, own, data, dst, stored, broken, finished, dumping, waiting, status, latch, failureSet>>
      /\ UNCHANGED <<current, holder, syncing, copies>>
  BY DEF pool, clients, memory
<1>3. /\ InDispatch(t, "load") /\ Unsent(t) /\ t \in latch
      /\ t \in DOMAIN Work /\ Work[t].type = "load" /\ t # task["dump"]
  <2>1. "load" \in Queues /\ "dump" \in Queues
    BY DEF Queues
  <2> QED
    BY <2>1, DispatchedElsewhere DEF Shape, InDispatch
<1>4. /\ \A u \in Tasks : u # t => todo'[u] = todo[u]
      /\ todo'[t] = {<<h, at[h]>> : h \in {h \in Held(t) : own[h] /\ ~ready[at[h]]}}
      /\ todo[t] = {}
      /\ task'["load"] = NoTask /\ task'["dump"] = task["dump"]
  BY <1>1, <1>3 DEF TypeOK, Idle, Unsent, Queues
<1>5. In(running') = In(running) \cup {<<t, i>> : i \in Shards(t)}
  BY <1>1, <1>3, ConcatIn DEF TypeOK
<1>6. Working'
  <2>1. \A c \in copies : CopyHeld(c)'
    BY <1>1, <1>2, <1>4 DEF Claims, Working, CopyHeld
  <2>2. ASSUME NEW u \in Tasks, NEW s \in todo'[u] PROVE ShardHeld(u, s)'
    <3>1. CASE u # t
      BY <1>1, <1>2, <1>4, <2>2, <3>1 DEF Claims, Working, ShardHeld
    <3>2. CASE u = t
      <4>1. PICK h \in Held(t) : s = <<h, at[h]>> /\ own[h] /\ ~ready[at[h]]
        BY <1>4, <2>2, <3>2
      <4>2. s[1] = h /\ s[2] = at[h] /\ h[1] = t /\ TypeOf(h) = "load"
        BY <1>3, <4>1 DEF Held, TypeOf
      <4> QED
        BY <1>1, <1>2, <3>2, <4>1, <4>2 DEF ShardHeld
    <3> QED
      BY <3>1, <3>2
  <2> QED
    BY <1>2, <2>1, <2>2 DEF Working
<1>7. Failing'
  <2>1. t \notin failureSet
    BY DEF Claims, Failing, Queues
  <2>2. \A u \in failureSet : todo'[u] = {}
    BY <1>1, <1>4, <2>1 DEF Claims, Failing, TypeOK
  <2>3. finished # NoTask => todo'[finished] = {}
    <3>1. finished # t
      BY <1>3 DEF Unsent
    <3> QED
      BY <1>1, <1>4, <3>1 DEF Claims, Failing, TypeOK
  <2>4. \A q \in Queues : task'[q] \notin failureSet
    BY <1>1, <1>4 DEF Claims, Failing, TypeOK, Queues
  <2> QED
    BY <1>2, <2>2, <2>3, <2>4 DEF Claims, Failing
<1>8. Marked' /\ DumpsOwn' /\ ReadyBuffersHold' /\ StoredHolds'
  BY <1>1, <1>2 DEF Claims, Marked, DumpsOwn, ReadyBuffersHold, StoredHolds
<1>9. LoadsComing'
  <2> SUFFICES ASSUME NEW h \in Handles, InTransfer(h)', own[h], ~ready[at[h]]
               PROVE  <<h, at[h]>> \in todo'[h[1]] \/ data[at[h]] = KeyOf(h) \/ h[1] \in broken
    BY <1>1, <1>2 DEF LoadsComing
  <2>1. CASE h[1] = t
    <3>1. h \in Held(t)
      BY <2>1 DEF Held, Shape, Buffers
    <3> QED
      BY <1>4, <2>1, <3>1
  <2>2. CASE h[1] # t
    <3>1. InTransfer(h)
      BY <1>2, <1>5, <2>2 DEF InTransfer
    <3>2. h[1] \in Tasks
      BY <1>1, HandleShape
    <3> QED
      BY <1>4, <2>2, <3>1, <3>2 DEF Claims, LoadsComing
  <2> QED
    BY <2>1, <2>2
<1>10. DumpsComing'
  BY <1>1, <1>2, <1>4 DEF Claims, DumpsComing
<1>11. Delivering'
  <2> SUFFICES ASSUME NEW h \in Handles, TypeOf(h) = "load", Coming(h) PROVE Coming(h)'
    BY <1>1, <1>2 DEF Claims, Delivering
  <2>1. CASE h[1] = t
    <3>1. h = <<t, h[2]>> /\ h[2] \in Shards(t)
      BY <1>1, <2>1, HandleShape
    <3> QED
      BY <1>2, <1>3, <1>5, <2>1, <3>1 DEF Coming
  <2>2. CASE h[1] # t
    BY <1>2, <1>5, <2>2 DEF Coming
  <2> QED
    BY <2>1, <2>2
<1> QED
  BY <1>6, <1>7, <1>8, <1>9, <1>10, <1>11 DEF Claims

\* A dispatcher's task fails: nobody works on its buffers.
LEMMA DispatchFailsClaims ==
    ASSUME Shape, Claims, mix' = mix, NEW q \in Queues, NEW t \in Tasks, t = task[q],
           Release(Held(t)), Fail(t), Idle(q), key' = key,
           ready' = ready \/ (q = "dump" /\ MarkReady(Held(t))),
           q = "dump" => StreamsIdle("dump"),
           UNCHANGED <<status, waiting, shard, transfer, dumping, backend, copies, memory>>
    PROVE  Claims'
<1>1. /\ TypeOK /\ mix \in Mixes /\ Handles' = Handles /\ NoTask \notin Tasks /\ NoNode \notin Nodes
      /\ \A g : TypeOf(g)' = TypeOf(g) /\ KeyOf(g)' = KeyOf(g)
  BY MixStays, TransferAssumption DEF Shape
<1>2. /\ UNCHANGED <<data, dst, stored, todo, broken, finished, dumping, waiting, status>>
      /\ UNCHANGED <<running, current, holder, syncing, copies>>
  BY DEF transfer, backend, memory
<1>3. /\ InDispatch(t, q) /\ Unsent(t) /\ Work[t].type = q
      /\ \A p \in Queues : t \notin In(waiting[p]) /\ (p # q => t # task[p])
      /\ \A g \in Handles : g[1] = t => ~InTransfer(g) /\ g \notin holder /\ TypeOf(g) = q
  BY DispatchedElsewhere DEF Shape, InDispatch, TypeOf
<1>4. /\ \A u \in Tasks : u # t => (u \in latch' <=> u \in latch) /\ (u \in failureSet' <=> u \in failureSet)
      /\ failureSet' = failureSet \cup {t}
      /\ task'[q] = NoTask /\ \A p \in Queues : p # q => task'[p] = task[p]
  BY <1>1 DEF Fail, Done, Idle, TypeOK
<1>5. \A g \in Handles : /\ at'[g] = IF g[1] = t THEN NoNode ELSE at[g]
                         /\ own'[g] = (g[1] # t /\ own[g])
  <2>1. Held(t) \in SUBSET Handles
    BY DEF Held
  <2> QED
    BY <2>1, ReleaseDrops DEF Held, Shape, Buffers
<1>6. ASSUME NEW c \in copies PROVE c[1] \in Handles /\ c[1][1] # t /\ CopyHeld(c) /\ (q = "dump" => TypeOf(c[1]) = "load")
  <2>1. c[1] \in Handles /\ CopyHeld(c)
    BY <1>1 DEF TypeOK, Claims, Working
  <2>2. TypeOf(c[1]) = "load" \/ (TypeOf(c[1]) = "dump" /\ q # "dump")
    BY <1>1, <2>1, HandleShape DEF StreamsIdle, Queues
  <2>3. c[1][1] # t
    <3>1. CASE TypeOf(c[1]) = "load"
      BY <1>3, <2>1, <3>1 DEF CopyHeld, InTransfer, Shape, Order
    <3>2. CASE TypeOf(c[1]) = "dump" /\ q # "dump"
      BY <1>3, <2>1, <3>2
    <3> QED
      BY <2>2, <3>1, <3>2
  <2> QED
    BY <2>1, <2>2, <2>3
<1>7. \A g \in Handles : Used(g) => g[1] # t
  BY <1>3, <1>6 DEF Used, Unsent
<1>8. /\ \A n \in Nodes : ready[n] => ready'[n]
      /\ \A n \in Nodes : ready'[n] /\ ~ready[n] =>
           \E g \in Handles : g[1] = t /\ at[g] = n /\ own[g] /\ q = "dump" /\ data[n] = key[n]
  <2>1. CASE ready' = ready
    BY <2>1
  <2>2. CASE q = "dump" /\ MarkReady(Held(t))
    <3>1. \A n \in Nodes : ready'[n] = (ready[n] \/ \E g \in Held(t) : at[g] = n)
      BY <2>2 DEF MarkReady
    <3>2. ASSUME NEW g \in Held(t), NEW n \in Nodes, at[g] = n, ~ready[n] PROVE own[g] /\ data[n] = key[n]
      <4>1. g \in Handles /\ g[1] = t /\ at[g] # NoNode /\ key[n] = KeyOf(g)
        BY <3>2 DEF Held, Shape, Buffers
      <4>2. <<g, at[g]>> \notin copies
        <5>1. <<g, at[g]>>[1] = g
          OBVIOUS
        <5> QED
          BY <1>6, <4>1, <5>1
      <4>3. own[g]
        BY <1>3, <2>2, <4>1 DEF Claims, DumpsOwn
      <4> QED
        BY <2>2, <3>2, <4>1, <4>2, <4>3 DEF Claims, DumpsComing
    <3> QED
      BY <2>2, <3>1, <3>2 DEF Held
  <2> QED
    BY <2>1, <2>2
<1>9. Working'
  <2>1. \A g \in Handles : Used(g) => at'[g] = at[g] /\ (own[g] => own'[g])
    BY <1>5, <1>7
  <2>2. ASSUME NEW g \in Handles, Used(g), own[g], ready'[at[g]] PROVE ready[at[g]]
    <3>1. at[g] \in Nodes
      BY <1>1, <2>2 DEF Shape, Buffers, TypeOK
    <3>2. ASSUME ~ready[at[g]] PROVE FALSE
      <4>1. PICK f \in Handles : f[1] = t /\ at[f] = at[g] /\ own[f]
        BY <1>8, <2>2, <3>1, <3>2
      <4> QED
        BY <1>7, <2>2, <4>1, OwnerIsAlone
    <3> QED
      BY <3>2
  <2>3. \A c \in copies :
             IF TypeOf(c[1]) = "load" THEN c[1] \in holder' \/ (c[1] = current' /\ syncing')
                                      ELSE c[1][1] = task'["dump"]
    BY <1>2, <1>4, <1>6 DEF CopyHeld, Queues
  <2> QED
    BY <1>2, <1>8, <2>1, <2>2, <2>3, WorkingFrame DEF Claims
<1>10. Failing'
  <2>1. current # NoHandle => current[1] # t
    BY <1>1, <1>3 DEF InTransfer, TypeOK
  <2>2. \A p \in Queues : task'[p] \notin failureSet'
    <3>1. NoTask \notin failureSet /\ t # NoTask
      BY <1>1 DEF TypeOK
    <3> QED
      BY <1>3, <1>4, <3>1 DEF Claims, Failing
  <2> QED
    BY <1>2, <1>3, <1>4, <2>1, <2>2 DEF Claims, Failing, Unsent
<1>11. Marked'
  <2>1. ASSUME NEW h \in holder PROVE at'[h] = at[h] /\ at[h] \in Nodes
    <3>1. h \in Handles /\ h[1] \in Tasks
      BY <1>1, HandleShape DEF TypeOK
    <3> QED
      BY <1>1, <1>3, <1>5, <3>1 DEF Shape, Stage, TypeOK
  <2>2. syncing => at'[current] = at[current] /\ at[current] \in Nodes
    <3>1. syncing => current \in Handles /\ InTransfer(current)
      BY <1>1 DEF Shape, Order, TypeOK, InTransfer
    <3> QED
      BY <1>1, <1>3, <1>5, <3>1, UsedIsHeld DEF Claims, TypeOK
  <2> QED
    BY <1>2, <1>8, <2>1, <2>2 DEF Claims, Marked
<1>12. DumpsOwn'
  BY <1>1, <1>5 DEF Claims, DumpsOwn
<1>13. ReadyBuffersHold' /\ StoredHolds'
  BY <1>2, <1>8 DEF Claims, ReadyBuffersHold, StoredHolds
<1>14. LoadsComing'
  <2>1. ASSUME NEW h \in Handles, InTransfer(h)', own'[h], ~ready'[at'[h]]
        PROVE  InTransfer(h) /\ own[h] /\ ~ready[at[h]] /\ at'[h] = at[h]
    <3>1. InTransfer(h) /\ own[h] /\ at'[h] = at[h]
      BY <1>2, <1>3, <1>5, <2>1 DEF InTransfer
    <3>2. at[h] \in Nodes
      BY <1>1, <3>1 DEF Shape, Buffers, TypeOK
    <3> QED
      BY <1>8, <2>1, <3>1, <3>2
  <2> QED
    BY <1>1, <1>2, <2>1 DEF Claims, LoadsComing
<1>15. DumpsComing'
  <2> SUFFICES ASSUME NEW g \in Handles, g[1] = task'["dump"], at'[g] # NoNode
               PROVE  ready'[at'[g]] \/ <<g, at'[g]>> \in copies \/ data[at'[g]] = KeyOf(g)
    BY <1>1, <1>2 DEF DumpsComing
  <2>1. g[1] \in Tasks
    BY <1>1, HandleShape
  <2>2. g[1] = task["dump"] /\ at'[g] = at[g] /\ at[g] \in Nodes
    BY <1>1, <1>4, <1>5, <2>1 DEF Queues, TypeOK
  <2> QED
    BY <1>8, <2>2 DEF Claims, DumpsComing
<1>16. Delivering'
  <2> SUFFICES ASSUME NEW h \in Handles, TypeOf(h) = "load"
               PROVE  \/ status[h[1]] \notin {"waiting", "ok"} \/ h[1] \in failureSet'
                      \/ dst[h] = KeyOf(h) \/ Coming(h)'
    BY <1>1, <1>2 DEF Delivering
  <2>1. CASE h[1] # t
    <3>1. h[1] \in Tasks /\ at'[h] = at[h]
      BY <1>1, <1>5, <2>1, HandleShape
    <3>2. h[1] = task["load"] => h[1] = task'["load"]
      BY <1>4, <2>1 DEF Queues
    <3>3. Coming(h) => Coming(h)'
      BY <1>2, <1>4, <2>1, <3>1, <3>2 DEF Coming
    <3> QED
      BY <1>4, <3>3 DEF Claims, Delivering
  <2> QED
    BY <1>4, <2>1
<1> QED
  BY <1>9, <1>10, <1>11, <1>12, <1>13, <1>14, <1>15, <1>16 DEF Claims

\* Dropping the handles of a set nobody works on, none of them the transfer
\* thread's or the dump's dispatcher's.
LEMMA DropClaims ==
    ASSUME Shape, Claims, mix' = mix, NEW H \in SUBSET Handles, Release(H),
           \A h \in H : ~Used(h) /\ ~InTransfer(h)' /\ h[1] # task["dump"],
           holder' = holder \ H,
           \A h \in Handles : InTransfer(h)' => InTransfer(h),
           \A c \in copies : TypeOf(c[1]) = "load" /\ c[1] \notin holder => c[1] = current' /\ syncing',
           syncing' => current' = current /\ syncing /\ InTransfer(current),
           \A t \in In(dumping) : todo[t] # {} => t \in In(dumping'),
           UNCHANGED <<key, ready, task, todo, broken, copies, memory>>
    PROVE  /\ Working' /\ Marked' /\ DumpsOwn' /\ ReadyBuffersHold' /\ StoredHolds'
           /\ LoadsComing' /\ DumpsComing'
<1>1. /\ TypeOK /\ mix \in Mixes /\ Handles' = Handles /\ NoHandle \notin Handles
      /\ \A g : TypeOf(g)' = TypeOf(g) /\ KeyOf(g)' = KeyOf(g)
  BY MixStays, HandleShape DEF Shape
<1>2. /\ UNCHANGED <<data, dst, stored>>
  BY DEF memory
<1>3. \A g \in Handles : /\ at'[g] = IF g \in H THEN NoNode ELSE at[g]
                         /\ own'[g] = (g \notin H /\ own[g])
  BY ReleaseDrops
<1>4. \A c \in copies : c[1] \in Handles /\ c[1] \notin H /\ CopyHeld(c)
  BY <1>1 DEF TypeOK, Used, Claims, Working
<1>5. Working'
  <2>1. \A g \in Handles : Used(g) => at'[g] = at[g] /\ (own[g] => own'[g])
    BY <1>3
  <2>2. \A c \in copies :
             IF TypeOf(c[1]) = "load" THEN c[1] \in holder' \/ (c[1] = current' /\ syncing')
                                      ELSE c[1][1] = task'["dump"]
    BY <1>4 DEF CopyHeld
  <2> QED
    BY <2>1, <2>2, WorkingFrame DEF Claims
<1>6. Marked'
  <2>1. \A h \in holder' : h \in Handles /\ h \in holder /\ at'[h] = at[h]
    BY <1>1, <1>3 DEF TypeOK
  <2>2. syncing' => current' = current /\ current \in Handles /\ at'[current] = at[current] /\ syncing
    <3>1. ASSUME syncing' PROVE current \in Handles /\ current \notin H
      <4>1. current' = current /\ syncing /\ InTransfer(current)
        BY <3>1
      <4>2. current \in Handles /\ current # NoHandle
        BY <1>1, <4>1 DEF Shape, Order, TypeOK
      <4>3. InTransfer(current)'
        BY <4>1, <4>2 DEF InTransfer
      <4> QED
        BY <4>1, <4>2, <4>3
    <3> QED
      BY <1>3, <3>1
  <2> QED
    BY <2>1, <2>2 DEF Claims, Marked
<1>7. DumpsOwn' /\ ReadyBuffersHold' /\ StoredHolds'
  BY <1>1, <1>2, <1>3 DEF Claims, DumpsOwn, ReadyBuffersHold, StoredHolds
<1>8. LoadsComing'
  BY <1>1, <1>2, <1>3 DEF Claims, LoadsComing
<1>9. DumpsComing'
  BY <1>1, <1>2, <1>3 DEF Claims, DumpsComing
<1> QED
  BY <1>5, <1>6, <1>7, <1>8, <1>9

\* The dumper lets a task's buffers go once the backend has taken them.
LEMMA DumperClaims ==
    ASSUME Shape, Claims, mix' = mix, Dumper
    PROVE  Claims'
<1>1. /\ TypeOK /\ mix \in Mixes /\ Handles' = Handles
      /\ \A g : TypeOf(g)' = TypeOf(g) /\ KeyOf(g)' = KeyOf(g)
  BY MixStays DEF Shape
<1>2. UNCHANGED <<key, ready, status, latch, failureSet, waiting, task, running, current, holder, syncing, finished, todo, broken, copies, dst>>
  BY DEF Dumper, clients, dispatchers, transfer, backend, memory
<1>3. dumping \in Seq(Tasks) /\ dumping # <<>> /\ dumping' = Tail(dumping)
  BY <1>1 DEF Dumper, TypeOK
<1>4. PICK t \in Tasks : t = Head(dumping) /\ todo[t] = {} /\ Release(Held(t))
  BY <1>3, TailIn DEF Dumper
<1>5. In(dumping) = In(dumping') \cup {t} /\ t \in In(dumping)
  BY <1>3, <1>4, TailIn
<1>6. t # task["dump"] /\ t # task["load"] /\ \A h \in Handles : h[1] = t => TypeOf(h) = "dump" /\ ~InTransfer(h) /\ h \notin holder
  <2>1. Stage(t) /\ ~Unsent(t)
    BY <1>5 DEF Shape, Unsent
  <2>2. \A h \in Handles : h[1] = t => TypeOf(h) = "dump"
    BY <1>5, <2>1 DEF Stage, TypeOf
  <2> QED
    BY <2>1, <2>2, BegunElsewhere DEF Stage, InHand, Queues
<1>7. ASSUME NEW h \in Handles, h[1] = t PROVE ~Used(h)
  BY <1>4, <1>6, <1>7 DEF Used, Claims, Working, CopyHeld
<1>8. /\ Working' /\ Marked' /\ DumpsOwn' /\ ReadyBuffersHold' /\ StoredHolds'
      /\ LoadsComing' /\ DumpsComing'
  <2>1. \A h \in Handles : InTransfer(h)' <=> InTransfer(h)
    BY <1>2 DEF InTransfer
  <2>2. Held(t) \in SUBSET Handles /\ \A h \in Held(t) : ~Used(h) /\ ~InTransfer(h)' /\ h[1] # task["dump"]
    BY <1>6, <1>7, <2>1 DEF Held
  <2>3. holder' = holder \ Held(t)
    BY <1>2, <1>6 DEF Held
  <2>4. \A c \in copies : TypeOf(c[1]) = "load" /\ c[1] \notin holder => c[1] = current' /\ syncing'
    BY <1>2 DEF Claims, Working, CopyHeld
  <2>5. syncing' => current' = current /\ syncing /\ InTransfer(current)
    BY <1>2 DEF Shape, Order, InTransfer
  <2>6. \A u \in In(dumping) : todo[u] # {} => u \in In(dumping')
    BY <1>4, <1>5
  <2>7. UNCHANGED memory
    BY DEF Dumper
  <2> QED
    BY <1>2, <1>4, <2>1, <2>2, <2>3, <2>4, <2>5, <2>6, <2>7, DropClaims
<1>9. Failing'
  BY <1>2 DEF Claims, Failing
<1>10. Delivering'
  <2>1. ASSUME NEW h \in Handles, TypeOf(h) = "load" PROVE at'[h] = at[h]
    <3>1. h \notin Held(t)
      BY <1>6, <2>1 DEF Held
    <3> QED
      BY <1>4, <3>1, ReleaseDrops DEF Held
  <2>2. ASSUME NEW h \in Handles, TypeOf(h) = "load", Coming(h) PROVE Coming(h)'
    BY <1>2, <2>1, <2>2 DEF Coming
  <2> QED
    BY <1>1, <1>2, <2>2 DEF Claims, Delivering
<1> QED
  BY <1>8, <1>9, <1>10 DEF Claims

\* The transfer thread takes a shard, or drops one of a failed task.
LEMMA TransferTakeClaims ==
    ASSUME Shape, Claims, mix' = mix, TransferTake
    PROVE  Claims'
<1>1. /\ TypeOK /\ mix \in Mixes /\ Handles' = Handles /\ NoHandle \notin Handles
      /\ \A g : TypeOf(g)' = TypeOf(g) /\ KeyOf(g)' = KeyOf(g)
  BY MixStays, HandleShape DEF Shape
<1>2. /\ UNCHANGED <<key, ready, data, dst, stored, status, failureSet, waiting, task, holder, syncing, finished, dumping, todo, broken, copies>>
      /\ running # <<>> /\ running' = Tail(running) /\ current = NoHandle /\ ~syncing
  BY DEF TransferTake, dispatchers, backend, Shape, Order
<1>3. running \in Seq(Handles) /\ Once(running)
  BY <1>1 DEF TypeOK, Shape, Order
<1>4. PICK h \in Handles : h = Head(running) /\ h \in In(running)
  BY <1>2, <1>3, TailIn
<1>5. In(running) = In(running') \cup {h} /\ h \notin In(running')
  BY <1>2, <1>3, <1>4, TailIn
<1>6. InTransfer(h) /\ InHand(h) /\ h[1] \in Tasks /\ (\A q \in Queues : h[1] # task[q]) /\ h[1] \notin In(dumping)
  BY <1>4, HandElsewhere DEF InTransfer
<1>7. h \notin holder /\ TypeOf(h) = "load"
  BY <1>6 DEF InHand
<1>8. \A c \in copies : TypeOf(c[1]) = "load" => c[1] \in holder
  BY <1>2 DEF Claims, Working, CopyHeld
<1>9. CASE h[1] \in failureSet
  <2>1. current' = current /\ Release({h})
    BY <1>4, <1>9 DEF TransferTake
  <2>2. \A u \in Tasks : u # h[1] => (u \in latch' <=> u \in latch)
    BY <1>4, <1>9 DEF TransferTake, Done
  <2>3. ~Used(h)
    BY <1>7, <1>8, <1>9 DEF Used, Claims, Failing
  <2>4. /\ Working' /\ Marked' /\ DumpsOwn' /\ ReadyBuffersHold' /\ StoredHolds'
        /\ LoadsComing' /\ DumpsComing'
    <3>1. \A g \in Handles : InTransfer(g)' => InTransfer(g) /\ g # h
      BY <1>1, <1>2, <1>5, <2>1 DEF InTransfer
    <3>2. {h} \in SUBSET Handles /\ holder' = holder \ {h}
      BY <1>2, <1>7
    <3>3. h[1] # task["dump"]
      BY <1>6 DEF Queues
    <3> QED
      BY <1>2, <1>8, <2>1, <2>3, <3>1, <3>2, <3>3, DropClaims DEF memory
  <2>5. Failing'
    BY <1>2, <2>1 DEF Claims, Failing
  <2>6. Delivering'
    <3> SUFFICES ASSUME NEW g \in Handles, TypeOf(g) = "load", Coming(g), g[1] # h[1] PROVE Coming(g)'
      BY <1>1, <1>2, <1>9 DEF Claims, Delivering
    <3>1. g[1] \in Tasks
      BY <1>1, HandleShape
    <3>2. {h} \in SUBSET Handles /\ g \notin {h}
      OBVIOUS
    <3>3. at'[g] = at[g]
      BY <2>1, <3>2, ReleaseDrops
    <3> QED
      BY <1>1, <1>2, <1>5, <2>1, <2>2, <3>1, <3>2, <3>3 DEF Coming
  <2> QED
    BY <2>4, <2>5, <2>6 DEF Claims
<1>10. CASE h[1] \notin failureSet
  <2>1. current' = h /\ UNCHANGED <<latch, ref, at, own>>
    BY <1>4, <1>10 DEF TransferTake
  <2>2. \A g \in Handles : InTransfer(g)' <=> InTransfer(g)
    BY <1>1, <1>2, <1>5, <2>1 DEF InTransfer
  <2>3. Working'
    <3>1. \A c \in copies : CopyHeld(c)'
      BY <1>1, <1>2, <1>8, <2>1 DEF Claims, Working, CopyHeld
    <3>2. \A t \in Tasks : \A s \in todo[t] : ShardHeld(t, s)'
      BY <1>1, <1>2, <2>1 DEF Claims, Working, ShardHeld
    <3> QED
      BY <1>2, <3>1, <3>2 DEF Working
  <2>4. Marked' /\ DumpsOwn' /\ ReadyBuffersHold' /\ StoredHolds'
    BY <1>1, <1>2, <2>1 DEF Claims, Marked, DumpsOwn, ReadyBuffersHold, StoredHolds
  <2>5. LoadsComing' /\ DumpsComing'
    BY <1>1, <1>2, <2>1, <2>2 DEF Claims, LoadsComing, DumpsComing
  <2>6. Failing'
    BY <1>2, <1>10, <2>1 DEF Claims, Failing
  <2>7. Delivering'
    <3>1. ASSUME NEW g \in Handles, Coming(g) PROVE Coming(g)'
      BY <1>1, <1>2, <1>5, <2>1, <3>1 DEF Coming
    <3> QED
      BY <1>1, <1>2, <3>1 DEF Claims, Delivering
  <2> QED
    BY <2>3, <2>4, <2>5, <2>6, <2>7 DEF Claims
<1> QED
  BY <1>9, <1>10

\* The shards of a dispatcher's task are of its queue.
LEMMA DispatcherType ==
    ASSUME Shape, NEW q \in Queues, NEW h \in Handles, h[1] = task[q]
    PROVE  TypeOf(h) = q
<1>1. task[q] \in Tasks
  BY HandleShape DEF Shape
<1> QED
  BY <1>1 DEF Shape, Stage, InDispatch, TypeOf

\* A failed shard's buffer is dropped when the backend is done with its task.
LEMMA ShardFailsClaims ==
    ASSUME Shape, Calm, Claims, mix' = mix, ShardFails
    PROVE  Claims'
<1>1. /\ TypeOK /\ mix \in Mixes /\ Handles' = Handles /\ NoHandle \notin Handles /\ NoTask \notin Tasks
      /\ \A g : TypeOf(g)' = TypeOf(g) /\ KeyOf(g)' = KeyOf(g)
  BY MixStays, HandleShape, TransferAssumption DEF Shape
<1>2. PICK h \in Handles : h = current
  BY <1>1 DEF ShardFails, TypeOK
<1>3. PICK t \in Tasks : t = h[1]
  BY <1>1, HandleShape
<1>4. /\ ~syncing /\ ~ready[at[h]] /\ ready' = ready /\ own[h] /\ BackendOver(h) /\ finished' = t
      /\ failureSet' = failureSet \cup {t} /\ current' = NoHandle /\ ~syncing' /\ Release({h})
  <2>1. h[1] \notin failureSet
    BY <1>1, <1>2 DEF Claims, Failing
  <2> QED
    BY <1>2, <1>3, <2>1 DEF ShardFails, Calm, Finish
<1>5. /\ UNCHANGED <<key, data, dst, stored, status, waiting, task, running, holder, dumping, todo, broken, copies>>
      /\ \A u \in Tasks : u # t => (u \in latch' <=> u \in latch)
  BY <1>2, <1>3 DEF ShardFails, dispatchers, backend, memory, Done
<1>6. InTransfer(h) /\ InHand(h) /\ (\A q \in Queues : t # task[q]) /\ h \notin holder /\ h \notin In(running)
  <2>1. InTransfer(h) /\ h \notin In(running)
    BY <1>1, <1>2 DEF InTransfer, Shape, Order
  <2> QED
    BY <1>3, <2>1, HandElsewhere DEF InHand
<1>7. todo[t] = {}
  BY <1>1, <1>3, <1>4 DEF BackendOver, Claims, Failing
<1>8. ~Used(h)
  BY <1>3, <1>4, <1>6, <1>7 DEF Used, Claims, Working, CopyHeld, InHand
<1>9. \A g \in Handles : InTransfer(g)' => InTransfer(g) /\ g # h
  BY <1>1, <1>4, <1>5, <1>6 DEF InTransfer
<1>10. /\ Working' /\ Marked' /\ DumpsOwn' /\ ReadyBuffersHold' /\ StoredHolds'
       /\ LoadsComing' /\ DumpsComing'
  <2>1. {h} \in SUBSET Handles /\ holder' = holder \ {h}
    BY <1>5, <1>6
  <2>2. \A g \in {h} : ~Used(g) /\ ~InTransfer(g)' /\ g[1] # task["dump"]
    BY <1>3, <1>6, <1>8, <1>9 DEF Queues
  <2>3. \A c \in copies : TypeOf(c[1]) = "load" => c[1] \in holder
    BY <1>4 DEF Claims, Working, CopyHeld
  <2> QED
    BY <1>4, <1>5, <1>9, <2>1, <2>2, <2>3, DropClaims DEF memory
<1>11. Failing'
  BY <1>4, <1>5, <1>6, <1>7 DEF Claims, Failing
<1>12. Delivering'
  <2> SUFFICES ASSUME NEW g \in Handles, TypeOf(g) = "load", Coming(g), g[1] # t PROVE Coming(g)'
    BY <1>1, <1>4, <1>5 DEF Claims, Delivering
  <2>1. g[1] \in Tasks /\ g # h
    BY <1>1, <1>3, HandleShape
  <2>2. at'[g] = at[g]
    <3>1. {h} \in SUBSET Handles /\ g \notin {h}
      BY <2>1
    <3> QED
      BY <1>4, <3>1, ReleaseDrops
  <2> QED
    BY <1>2, <1>5, <2>1, <2>2 DEF Coming
<1> QED
  BY <1>10, <1>11, <1>12 DEF Claims

\* The last shard's copies are over: everything of the task was delivered.
LEMMA TransferSyncClaims ==
    ASSUME Shape, Calm, Claims, mix' = mix, TransferSync
    PROVE  Claims'
<1>1. /\ TypeOK /\ mix \in Mixes /\ Handles' = Handles /\ NoHandle \notin Handles
      /\ \A g : TypeOf(g)' = TypeOf(g) /\ KeyOf(g)' = KeyOf(g)
  BY MixStays, HandleShape DEF Shape
<1>2. PICK h \in Handles : h = current
  BY <1>1 DEF TransferSync, TypeOK, Shape, Order
<1>3. PICK t \in Tasks : t = h[1]
  BY <1>1, HandleShape
<1>4. /\ syncing /\ failureSet' = failureSet /\ holder' = {} /\ current' = NoHandle /\ ~syncing'
      /\ Release(holder \cup {h}) /\ latch' = latch \ {t} /\ IsLast(h)
      /\ \A c \in copies : TypeOf(c[1]) # "load"
  BY <1>2, <1>3 DEF TransferSync, Calm, Finish, Done, StreamsIdle, Shape, Order
<1>5. UNCHANGED <<key, ready, data, dst, stored, status, waiting, task, running, finished, dumping, todo, broken, copies>>
  BY DEF TransferSync, dispatchers, backend, memory
<1>6. InTransfer(h) /\ InHand(h) /\ (\A q \in Queues : t # task[q] /\ t \notin In(waiting[q])) /\ h \notin In(running)
  <2>1. InTransfer(h) /\ h \notin In(running)
    BY <1>1, <1>2 DEF InTransfer, Shape, Order
  <2> QED
    BY <1>3, <2>1, HandElsewhere
<1>7. \A g \in Handles : InTransfer(g)' => InTransfer(g) /\ g # h /\ g \notin holder
  <2>1. \A g \in Handles : InTransfer(g)' => InTransfer(g) /\ g # h
    BY <1>1, <1>4, <1>5, <1>6 DEF InTransfer
  <2> QED
    BY <2>1, HandElsewhere DEF InHand
<1>8. \A g \in holder \cup {h} : g \in Handles /\ TypeOf(g) = "load" /\ ready[at[g]]
  <2>1. ASSUME NEW g \in holder PROVE g \in Handles /\ TypeOf(g) = "load" /\ ready[at[g]]
    <3>1. g \in Handles /\ g[1] \in Tasks
      BY <1>1, HandleShape DEF TypeOK
    <3> QED
      BY <3>1 DEF Shape, Stage, Claims, Marked
  <2> QED
    BY <1>2, <1>4, <1>6, <2>1 DEF InHand, Claims, Marked
<1>9. ASSUME NEW g \in holder \cup {h} PROVE ~Used(g) /\ ~InTransfer(g)' /\ g[1] # task["dump"]
  <2>1. ~Used(g)
    <3>1. g[1] \in Tasks
      BY <1>1, <1>8, HandleShape
    <3> QED
      BY <1>4, <1>8, <3>1 DEF Used, Claims, Working, ShardHeld
  <2>2. g[1] # task["dump"]
    BY <1>8, DispatcherType DEF Queues
  <2> QED
    BY <1>7, <1>8, <2>1, <2>2
<1>10. /\ Working' /\ Marked' /\ DumpsOwn' /\ ReadyBuffersHold' /\ StoredHolds'
       /\ LoadsComing' /\ DumpsComing'
  <2>1. holder \cup {h} \in SUBSET Handles /\ holder' = holder \ (holder \cup {h})
    BY <1>4, <1>8
  <2> QED
    BY <1>4, <1>5, <1>7, <1>9, <2>1, DropClaims DEF memory
<1>11. Failing'
  BY <1>4, <1>5 DEF Claims, Failing
<1>12. Delivering'
  <2> SUFFICES ASSUME NEW g \in Handles, TypeOf(g) = "load", Coming(g)
               PROVE  Coming(g)'
    BY <1>1, <1>4, <1>5 DEF Claims, Delivering
  <2>1. g[1] \in Tasks /\ <<g, at[g]>> \notin copies
    <3>1. <<g, at[g]>>[1] = g
      OBVIOUS
    <3> QED
      BY <1>1, <1>4, <3>1, HandleShape
  <2>2. g[1] # t
    <3>1. g \in In(running) => g[1] # t
      BY <1>2, <1>3, <1>4, <1>6, NoneAfterLast
    <3> QED
      BY <1>4, <1>6, <2>1, <3>1 DEF Coming, Queues
  <2> QED
    BY <1>4, <1>5, <2>1, <2>2 DEF Coming
<1> QED
  BY <1>10, <1>11, <1>12 DEF Claims

\* The transfer thread marks a buffer ready when its bytes are there.
LEMMA ShardToDeviceClaims ==
    ASSUME Shape, Calm, Claims, mix' = mix, ShardToDevice
    PROVE  Claims'
<1>1. /\ TypeOK /\ mix \in Mixes /\ Handles' = Handles /\ NoHandle \notin Handles /\ NoTask \notin Tasks
      /\ \A g : TypeOf(g)' = TypeOf(g) /\ KeyOf(g)' = KeyOf(g)
  BY MixStays, HandleShape, TransferAssumption DEF Shape
<1>2. PICK h \in Handles : h = current
  BY <1>1 DEF ShardToDevice, TypeOK
<1>3. PICK t \in Tasks : t = h[1]
  BY <1>1, HandleShape
<1>4. /\ UNCHANGED <<key, at, own, data, dst, stored, status, latch, failureSet, waiting, task>>
      /\ UNCHANGED <<running, dumping, todo, broken>>
      /\ ~syncing
      /\ ready[at[h]] \/ (own[h] /\ BackendOver(h) /\ BackendOk(h))
      /\ finished' = IF ready[at[h]] THEN finished ELSE t
      /\ copies' = copies \cup {<<h, at[h]>>}
      /\ \A n \in Nodes : ready'[n] = (ready[n] \/ at[h] = n)
      /\ \/ syncing' /\ current' = h /\ holder' = holder
         \/ ~syncing' /\ current' = NoHandle /\ holder' = holder \cup {h}
  BY <1>2, <1>3 DEF ShardToDevice, MarkReady, clients, dispatchers, backend, memory
<1>5. /\ InTransfer(h) /\ InHand(h) /\ status[t] \in {"waiting", "late"} /\ t \notin failureSet
      /\ h \notin In(running) /\ at[h] \in Nodes /\ key[at[h]] = KeyOf(h) /\ TypeOf(h) = "load" /\ t \in latch
  <2>1. InTransfer(h) /\ h \notin In(running)
    BY <1>1, <1>2 DEF InTransfer, Shape, Order
  <2>2. InHand(h) /\ status[t] \in {"waiting", "late"}
    BY <1>3, <2>1, HandElsewhere
  <2>3. t \notin failureSet
    BY <1>1, <1>2, <1>3 DEF Claims, Failing
  <2> QED
    BY <1>1, <1>3, <2>1, <2>2, <2>3 DEF InHand, TypeOK, Shape, Buffers
<1>6. ASSUME ~ready[at[h]]
      PROVE  own[h] /\ todo[t] = {} /\ t \notin broken /\ data[at[h]] = key[at[h]] /\ ~Used(h)
  <2>1. own[h] /\ BackendOver(h) /\ BackendOk(h)
    BY <1>4, <1>6
  <2>2. todo[t] = {}
    BY <1>1, <1>3, <2>1 DEF BackendOver, Claims, Failing
  <2>3. t \notin broken
    BY <1>3, <1>5, <2>1 DEF BackendOk, Claims, Failing
  <2>4. data[at[h]] = key[at[h]]
    BY <1>3, <1>5, <1>6, <2>1, <2>2, <2>3 DEF Claims, LoadsComing
  <2>5. ~Used(h)
    BY <1>3, <1>5, <1>6, <2>2 DEF Used, Claims, Working, CopyHeld
  <2> QED
    BY <2>1, <2>2, <2>3, <2>4, <2>5
<1>7. \A g \in Handles : InTransfer(g)' => InTransfer(g)
  BY <1>1, <1>2, <1>4 DEF InTransfer
<1>8. Working'
  <2>1. ASSUME NEW g \in Handles, Used(g), own[g], ready'[at[g]] PROVE ready[at[g]]
    <3>1. at[g] \in Nodes
      BY <1>1, <2>1 DEF Shape, Buffers, TypeOK
    <3>2. ASSUME ~ready[at[g]] PROVE FALSE
      <4>1. at[h] = at[g]
        BY <1>4, <2>1, <3>1, <3>2
      <4> QED
        BY <1>6, <2>1, <3>2, <4>1, OwnerIsAlone
    <3> QED
      BY <3>2
  <2>2. \A c \in copies :
             IF TypeOf(c[1]) = "load" THEN c[1] \in holder' \/ (c[1] = current' /\ syncing')
                                      ELSE c[1][1] = task'["dump"]
    BY <1>4 DEF Claims, Working, CopyHeld
  <2>3. CopyHeld(<<h, at[h]>>)'
    <3>1. <<h, at[h]>>[1] = h /\ <<h, at[h]>>[2] = at[h]
      OBVIOUS
    <3>2. TypeOf(h)' = "load" /\ ready'[at[h]]
      BY <1>1, <1>4, <1>5
    <3>3. h \in holder' \/ (h = current' /\ syncing')
      BY <1>4
    <3>4. at'[h] = at[h]
      BY <1>4
    <3> QED
      BY <1>4, <3>1, <3>2, <3>3, <3>4 DEF CopyHeld
  <2>4. \A c \in copies' : c \in copies \/ CopyHeld(c)'
    <3> SUFFICES ASSUME NEW c \in copies', c \notin copies PROVE CopyHeld(c)'
      OBVIOUS
    <3>1. c = <<h, at[h]>>
      BY <1>4
    <3>2. c[1] = h /\ c[2] = at[h]
      BY <3>1
    <3>3. TypeOf(h)' = "load" /\ ready'[at[h]]
      BY <1>1, <1>4, <1>5
    <3>4. h \in holder' \/ (h = current' /\ syncing')
      BY <1>4
    <3> QED
      BY <1>4, <3>2, <3>3, <3>4 DEF CopyHeld
  <2> QED
    BY <1>4, <2>1, <2>2, <2>4, WorkingFrame DEF Claims
<1>9. Failing'
  <2>1. finished' # NoTask => todo[finished'] = {}
    BY <1>4, <1>6 DEF Claims, Failing
  <2>2. finished' \in broken => finished' \in failureSet \/ status[finished'] \notin {"new", "waiting", "late"}
    BY <1>4, <1>6 DEF Claims, Failing
  <2>3. current' # NoHandle => current'[1] \notin failureSet
    BY <1>3, <1>4, <1>5
  <2> QED
    BY <1>4, <2>1, <2>2, <2>3 DEF Claims, Failing
<1>10. Marked'
  <2>1. ASSUME NEW g \in holder' PROVE ready'[at[g]]
    <3>1. CASE g = h
      BY <1>4, <1>5, <3>1
    <3>2. CASE g # h
      <4>1. g \in holder /\ g \in Handles
        BY <1>1, <1>4, <3>2 DEF TypeOK
      <4>2. at[g] \in Nodes /\ ready[at[g]]
        BY <1>1, <4>1, UsedIsHeld DEF Claims, Marked, TypeOK
      <4> QED
        BY <1>4, <4>2
    <3> QED
      BY <3>1, <3>2
  <2>2. syncing' => ready'[at[current']]
    BY <1>4, <1>5
  <2> QED
    BY <1>4, <2>1, <2>2 DEF Marked
<1>11. DumpsOwn' /\ StoredHolds'
  BY <1>1, <1>4 DEF Claims, DumpsOwn, StoredHolds
<1>12. ReadyBuffersHold'
  BY <1>4, <1>6 DEF Claims, ReadyBuffersHold
<1>13. LoadsComing'
  <2>1. \A g \in Handles : own[g] /\ ready[at[g]] => ready'[at[g]]
    BY <1>1, <1>4 DEF Shape, Buffers, TypeOK
  <2> QED
    BY <1>1, <1>4, <1>7, <2>1 DEF Claims, LoadsComing
<1>14. DumpsComing'
  <2>1. \A g \in Handles : at[g] # NoNode /\ ready[at[g]] => ready'[at[g]]
    BY <1>1, <1>4 DEF TypeOK
  <2> QED
    BY <1>1, <1>4, <2>1 DEF Claims, DumpsComing
<1>15. Delivering'
  <2>1. ASSUME NEW g \in Handles, Coming(g) PROVE Coming(g)'
    <3>1. CASE g = h
      BY <1>3, <1>4, <1>5, <3>1 DEF Coming
    <3>2. CASE g # h
      BY <1>2, <1>4, <2>1, <3>2 DEF Coming
    <3> QED
      BY <3>1, <3>2
  <2> QED
    BY <1>1, <1>4, <2>1 DEF Claims, Delivering
<1> QED
  BY <1>8, <1>9, <1>10, <1>11, <1>12, <1>13, <1>14, <1>15 DEF Claims

\* The dump's dispatcher marks its buffers ready when their copies are over.
LEMMA DumpDispatchClaims ==
    ASSUME Shape, Claims, mix' = mix, DumpDispatch
    PROVE  Claims'
<1>1. /\ TypeOK /\ mix \in Mixes /\ Handles' = Handles /\ NoTask \notin Tasks /\ NoNode \notin Nodes
      /\ \A g : TypeOf(g)' = TypeOf(g) /\ KeyOf(g)' = KeyOf(g)
  BY MixStays, TransferAssumption DEF Shape
<1>2. PICK t \in Tasks : t = task["dump"]
  BY <1>1 DEF DumpDispatch, Gathered, TypeOK, Queues
<1>3. /\ UNCHANGED <<key, at, own, data, dst, stored, status, failureSet, waiting, broken, copies>>
      /\ UNCHANGED <<running, current, holder, syncing, finished>>
  BY DEF DumpDispatch, transfer, memory
<1>4. /\ InDispatch(t, "dump") /\ Unsent(t) /\ t # task["load"]
      /\ \A g \in Handles : g[1] = t => TypeOf(g) = "dump" /\ ~InTransfer(g) /\ g \notin holder
  <2>1. "load" \in Queues /\ "dump" \in Queues
    BY DEF Queues
  <2> QED
    BY <1>2, <2>1, DispatchedElsewhere DEF Shape, InDispatch, TypeOf
<1>5. /\ \A u \in Tasks : u # t => (u \in latch' <=> u \in latch) /\ todo'[u] = todo[u]
      /\ task'["dump"] = NoTask /\ task'["load"] = task["load"]
      /\ \A n \in Nodes : ready'[n] = (ready[n] \/ \E g \in Held(t) : at[g] = n)
      /\ \/ todo' = todo /\ dumping' = dumping
         \/ todo'[t] = {<<g, at[g]>> : g \in Held(t)} /\ dumping' = Append(dumping, t)
  BY <1>1, <1>2 DEF DumpDispatch, Done, Idle, TypeOK, MarkReady, Queues
<1>6. In(dumping) \subseteq In(dumping') /\ (dumping' = Append(dumping, t) => t \in In(dumping'))
  <2>1. dumping \in Seq(Tasks) /\ In(Append(dumping, t)) = In(dumping) \cup {t}
    BY <1>1, AppendIn DEF TypeOK
  <2>2. CASE dumping' = Append(dumping, t)
    BY <2>1, <2>2
  <2>3. CASE dumping' # Append(dumping, t)
    <3>1. dumping' = dumping
      BY <1>5, <2>3
    <3> QED
      BY <2>3, <3>1
  <2> QED
    BY <2>2, <2>3
<1>7. \A c \in copies : c[1] \in Handles /\ TypeOf(c[1]) = "load" /\ CopyHeld(c)
  <2>1. ASSUME NEW c \in copies PROVE c[1] \in Handles /\ c[2] \in Nodes /\ CopyHeld(c)
    BY <1>1 DEF TypeOK, Claims, Working
  <2>2. ASSUME NEW c \in copies, TypeOf(c[1]) # "load" PROVE FALSE
    <3>1. at[c[1]] = c[2] /\ c[1][1] = t
      BY <1>2, <2>1, <2>2 DEF CopyHeld
    <3>2. c[1] \in Held(t)
      BY <1>1, <2>1, <3>1 DEF Held
    <3>3. TypeOf(c[1]) # "dump"
      BY <1>2, <3>2 DEF DumpDispatch, StreamsIdle
    <3> QED
      BY <1>4, <2>1, <3>1, <3>3
  <2> QED
    BY <2>1, <2>2
<1>8. ASSUME NEW g \in Held(t) PROVE g \in Handles /\ g[1] = t /\ own[g] /\ at[g] \in Nodes /\ ready'[at[g]]
                                     /\ (~ready[at[g]] => data[at[g]] = key[at[g]])
  <2>1. g \in Handles /\ g[1] = t /\ at[g] # NoNode
    BY DEF Held
  <2>2. own[g] /\ at[g] \in Nodes /\ key[at[g]] = KeyOf(g)
    BY <1>1, <1>4, <2>1 DEF Claims, DumpsOwn, TypeOK, Shape, Buffers
  <2>3. <<g, at[g]>> \notin copies
    <3>1. <<g, at[g]>>[1] = g
      OBVIOUS
    <3> QED
      BY <1>4, <1>7, <2>1, <3>1
  <2> QED
    BY <1>2, <1>5, <2>1, <2>2, <2>3 DEF Claims, DumpsComing
<1>9. \A n \in Nodes : ready[n] => ready'[n]
  BY <1>5
<1>10. Working'
  <2>1. ASSUME NEW g \in Handles, Used(g), own[g], ready'[at[g]] PROVE ready[at[g]]
    <3>1. at[g] \in Nodes
      BY <1>1, <2>1 DEF Shape, Buffers, TypeOK
    <3>2. ASSUME ~ready[at[g]] PROVE FALSE
      <4>1. PICK f \in Held(t) : at[f] = at[g]
        BY <1>5, <2>1, <3>1, <3>2
      <4>2. f = g
        BY <1>8, <2>1, <4>1, OwnerIsAlone
      <4>3. g[1] = t /\ TypeOf(g) = "dump"
        BY <1>4, <1>8, <4>1, <4>2
      <4> QED
        BY <1>4, <1>7, <2>1, <4>3 DEF Used, Unsent
    <3> QED
      BY <3>2
  <2>2. \A c \in copies :
             IF TypeOf(c[1]) = "load" THEN c[1] \in holder' \/ (c[1] = current' /\ syncing')
                                      ELSE c[1][1] = task'["dump"]
    BY <1>3, <1>7 DEF CopyHeld
  <2>3. ASSUME NEW u \in Tasks, NEW s \in todo'[u], s \notin todo[u] PROVE ShardHeld(u, s)'
    <3>1. u = t /\ s \in {<<g, at[g]>> : g \in Held(t)} /\ dumping' = Append(dumping, t)
      BY <1>5, <2>3
    <3>2. PICK g \in Held(t) : s = <<g, at[g]>>
      BY <3>1
    <3>3. s[1] = g /\ s[2] = at[g] /\ g[1] = t /\ TypeOf(g)' = "dump"
      BY <1>1, <1>4, <1>8, <3>2
    <3>4. t \in In(dumping')
      BY <1>6, <3>1
    <3> QED
      BY <1>3, <1>8, <3>1, <3>3, <3>4 DEF ShardHeld
  <2>4. \A g \in Handles : Used(g) => at'[g] = at[g] /\ (own[g] => own'[g])
    BY <1>3
  <2>5. \A c \in copies' : c \in copies \/ CopyHeld(c)'
    BY <1>3
  <2>6. \A u \in In(dumping) : todo[u] # {} => u \in In(dumping')
    BY <1>6
  <2> QED
    BY <1>9, <2>1, <2>2, <2>3, <2>4, <2>5, <2>6, WorkingFrame DEF Claims
<1>11. Failing'
  <2>1. t \notin failureSet /\ t # finished
    BY <1>2, <1>4 DEF Claims, Failing, Queues, Unsent
  <2>2. \A u \in failureSet : todo'[u] = {}
    BY <1>1, <1>5, <2>1 DEF Claims, Failing, TypeOK
  <2>3. finished # NoTask => todo'[finished] = {}
    BY <1>1, <1>5, <2>1 DEF Claims, Failing, TypeOK
  <2>4. \A q \in Queues : task'[q] \notin failureSet
    BY <1>1, <1>5 DEF Claims, Failing, TypeOK, Queues
  <2> QED
    BY <1>3, <2>2, <2>3, <2>4 DEF Claims, Failing
<1>12. Marked'
  <2>1. \A g \in holder : at[g] \in Nodes
    BY <1>1, UsedIsHeld DEF Claims, TypeOK
  <2>2. syncing => at[current] \in Nodes
    <3>1. syncing => current \in Handles /\ InTransfer(current)
      BY <1>1 DEF Shape, Order, TypeOK, InTransfer
    <3> QED
      BY <1>1, <3>1, UsedIsHeld DEF Claims, TypeOK
  <2> QED
    BY <1>3, <1>9, <2>1, <2>2 DEF Claims, Marked
<1>13. DumpsOwn' /\ StoredHolds'
  BY <1>1, <1>3 DEF Claims, DumpsOwn, StoredHolds
<1>14. ReadyBuffersHold'
  <2> SUFFICES ASSUME NEW n \in Nodes, key[n] # NoKey, ready'[n] PROVE data[n] = key[n]
    BY <1>3 DEF ReadyBuffersHold
  <2>1. CASE ready[n]
    BY <2>1 DEF Claims, ReadyBuffersHold
  <2>2. CASE ~ready[n]
    <3>1. PICK g \in Held(t) : at[g] = n
      BY <1>5, <2>2
    <3> QED
      BY <1>8, <2>2, <3>1
  <2> QED
    BY <2>1, <2>2
<1>15. LoadsComing'
  <2>2. \A h : InTransfer(h)' <=> InTransfer(h)
    BY <1>3 DEF InTransfer, NoHandle, NoTask
  <2> SUFFICES ASSUME NEW h \in Handles, InTransfer(h), own[h], ~ready'[at[h]]
               PROVE  <<h, at[h]>> \in todo'[h[1]] \/ data[at[h]] = KeyOf(h) \/ h[1] \in broken
    BY <1>1, <1>3, <2>2 DEF LoadsComing
  <2>4. h[1] \in Tasks /\ h[1] # t
    BY <1>1, <1>4, HandleShape
  <2>1. at[h] \in Nodes /\ h[1] \in Tasks /\ h[1] # t
    BY <1>1, <2>4 DEF Shape, Buffers, TypeOK
  <2>3. ~ready[at[h]] /\ todo'[h[1]] = todo[h[1]]
    BY <1>5, <1>9, <2>1
  <2> QED
    BY <2>1, <2>3 DEF Claims, LoadsComing
<1>16. DumpsComing'
  BY <1>1, <1>5, HandleShape DEF DumpsComing
<1>17. Delivering'
  <2>1. ASSUME NEW g \in Handles, TypeOf(g) = "load", Coming(g) PROVE Coming(g)'
    <3>1. g[1] # t /\ g[1] \in Tasks
      BY <1>1, <1>4, <2>1, HandleShape
    <3> QED
      BY <1>3, <1>5, <2>1, <3>1 DEF Coming
  <2> QED
    BY <1>1, <1>3, <2>1 DEF Claims, Delivering
<1> QED
  BY <1>10, <1>11, <1>12, <1>13, <1>14, <1>15, <1>16, <1>17 DEF Claims

\* A copy brings a load's bytes to the device, or a dump's to the buffer.
LEMMA CopyClaims ==
    ASSUME Shape, Claims, mix' = mix, NEW c \in copies, Copy(c)
    PROVE  Claims'
<1>1. /\ TypeOK /\ mix \in Mixes /\ Handles' = Handles /\ NoNode \notin Nodes
      /\ \A g : TypeOf(g)' = TypeOf(g) /\ KeyOf(g)' = KeyOf(g)
  BY MixStays, TransferAssumption DEF Shape
<1>2. PICK h \in Handles, n \in Nodes : h = c[1] /\ n = c[2] /\ c = <<h, n>>
  BY <1>1 DEF TypeOK
<1>3. /\ UNCHANGED <<key, at, own, ready, status, latch, failureSet, waiting, task, running, current,
                     holder, syncing, finished, dumping, todo, broken, stored>>
      /\ copies' = copies \ {c}
  BY DEF Copy, pool, clients, dispatchers, transfer, backend
<1>4. at[h] = n /\ CopyHeld(c) /\ key[n] = KeyOf(h)
  <2>1. CopyHeld(c) /\ at[h] = n
    BY <1>2 DEF Claims, Working, CopyHeld
  <2> QED
    BY <1>1, <1>2, <2>1 DEF Shape, Buffers
<1>5. \A g : InTransfer(g)' <=> InTransfer(g)
  BY <1>3 DEF InTransfer
<1>6. Working'
  <2>1. \A d : CopyHeld(d) => CopyHeld(d)'
    BY <1>1, <1>3 DEF CopyHeld
  <2>2. \A t, s : ShardHeld(t, s) => ShardHeld(t, s)'
    BY <1>1, <1>3 DEF ShardHeld
  <2> QED
    BY <1>3, <2>1, <2>2 DEF Claims, Working
<1>7. Failing' /\ Marked' /\ DumpsOwn' /\ StoredHolds'
  BY <1>1, <1>3 DEF Claims, Failing, Marked, DumpsOwn, StoredHolds
<1>8. CASE TypeOf(h) = "load"
  <2>1. data' = data /\ dst' = [dst EXCEPT ![h] = data[n]] /\ ready[n]
    BY <1>2, <1>4, <1>8 DEF Copy, CopyHeld
  <2>2. ReadyBuffersHold' /\ LoadsComing'
    BY <1>1, <1>3, <1>5, <2>1 DEF Claims, ReadyBuffersHold, LoadsComing
  <2>3. dst'[h] = KeyOf(h)
    <3>1. key[n] # NoKey
      BY <1>1, <1>4, HandleShape
    <3> QED
      BY <1>1, <1>4, <2>1, <3>1 DEF Claims, ReadyBuffersHold, TypeOK
  <2>4. ASSUME NEW g \in Handles, g # h PROVE dst'[g] = dst[g] /\ (Coming(g) => Coming(g)')
    <3>1. <<g, at[g]>> # c
      BY <1>2, <2>4
    <3> QED
      BY <1>1, <1>3, <2>1, <2>4, <3>1 DEF Coming, TypeOK
  <2>5. Delivering'
    BY <1>1, <1>3, <2>3, <2>4 DEF Claims, Delivering
  <2>6. ASSUME NEW g \in Handles, g[1] = task["dump"] PROVE <<g, at[g]>> # c
    <3>1. TypeOf(g) = "dump"
      BY <2>6, DispatcherType DEF Queues
    <3> QED
      BY <1>2, <1>8, <3>1
  <2>7. DumpsComing'
    BY <1>1, <1>3, <2>1, <2>6 DEF Claims, DumpsComing
  <2> QED
    BY <1>6, <1>7, <2>2, <2>5, <2>7 DEF Claims
<1>9. CASE TypeOf(h) # "load"
  <2>1. dst' = dst /\ data' = [data EXCEPT ![n] = KeyOf(h)] /\ own[h] /\ ~ready[n] /\ h[1] = task["dump"]
    BY <1>2, <1>4, <1>9 DEF Copy, CopyHeld
  <2>2. data'[n] = KeyOf(h) /\ \A m \in Nodes : m # n => data'[m] = data[m]
    BY <1>1, <2>1 DEF TypeOK
  <2>3. ReadyBuffersHold'
    BY <1>3, <2>1, <2>2 DEF Claims, ReadyBuffersHold
  <2>4. ASSUME NEW g \in Handles, own[g], at[g] = n PROVE g = h
    BY <1>4, <2>1, <2>4, OwnerIsAlone
  <2>5. LoadsComing'
    <3> SUFFICES ASSUME NEW g \in Handles, InTransfer(g), own[g], ~ready[at[g]]
                 PROVE  <<g, at[g]>> \in todo[g[1]] \/ data'[at[g]] = KeyOf(g) \/ g[1] \in broken
      BY <1>1, <1>3, <1>5 DEF LoadsComing
    <3>1. at[g] \in Nodes
      BY <1>1 DEF Shape, Buffers, TypeOK
    <3> QED
      BY <2>2, <2>4, <3>1 DEF Claims, LoadsComing
  <2>6. DumpsComing'
    <3> SUFFICES ASSUME NEW g \in Handles, g[1] = task["dump"], at[g] # NoNode
                 PROVE  ready[at[g]] \/ <<g, at[g]>> \in copies' \/ data'[at[g]] = KeyOf(g)
      BY <1>1, <1>3 DEF DumpsComing
    <3>1. at[g] \in Nodes /\ own[g]
      <4>1. TypeOf(g) = "dump"
        BY DispatcherType DEF Queues
      <4> QED
        BY <1>1, <4>1 DEF Claims, DumpsOwn, TypeOK
    <3>2. CASE at[g] = n
      BY <2>2, <2>4, <3>1, <3>2
    <3>3. CASE at[g] # n
      <4>1. <<g, at[g]>> # c
        BY <1>2, <3>3
      <4> QED
        BY <1>3, <2>2, <3>1, <3>3, <4>1 DEF Claims, DumpsComing
    <3> QED
      BY <3>2, <3>3
  <2>7. ASSUME NEW g \in Handles, TypeOf(g) = "load", Coming(g) PROVE Coming(g)'
    <3>1. <<g, at[g]>> # c
      BY <1>2, <1>9, <2>7
    <3> QED
      BY <1>3, <2>7, <3>1 DEF Coming
  <2>8. Delivering'
    BY <1>1, <1>3, <2>1, <2>7 DEF Claims, Delivering
  <2> QED
    BY <1>6, <1>7, <2>3, <2>5, <2>6, <2>8 DEF Claims
<1> QED
  BY <1>8, <1>9

\* The backend reads into a buffer that is not ready, or takes the bytes of
\* one that is.
LEMMA BackendClaims ==
    ASSUME Shape, Claims, mix' = mix, NEW t \in Tasks, NEW s \in todo[t], BackendShard(t, s)
    PROVE  Claims'
<1>1. /\ TypeOK /\ mix \in Mixes /\ Handles' = Handles /\ NoNode \notin Nodes /\ NoTask \notin Tasks
      /\ \A g : TypeOf(g)' = TypeOf(g) /\ KeyOf(g)' = KeyOf(g)
  BY MixStays, TransferAssumption DEF Shape
<1>2. PICK h \in Handles, n \in Nodes : h = s[1] /\ n = s[2] /\ s = <<h, n>>
  <2>1. s \in Handles \X Nodes
    BY <1>1 DEF TypeOK
  <2> QED
    BY <2>1
<1>3. /\ UNCHANGED <<key, at, own, ready, status, latch, failureSet, waiting, task, running, current,
                     holder, syncing, finished, dumping, copies, dst>>
      /\ todo' = [todo EXCEPT ![t] = @ \ {s}]
      /\ broken \subseteq broken' /\ broken' \subseteq broken \cup {t}
  BY DEF BackendShard, pool, clients, dispatchers, transfer
<1>4. todo'[t] = todo[t] \ {s} /\ \A u \in Tasks : u # t => todo'[u] = todo[u]
  BY <1>1, <1>3 DEF TypeOK
<1>5. ShardHeld(t, s) /\ h[1] = t /\ at[h] = n /\ own[h] /\ key[n] = KeyOf(h) /\ KeyOf(h) \in Keys /\ KeyOf(h) # NoKey
  <2>1. ShardHeld(t, s) /\ h[1] = t /\ at[h] = n /\ own[h]
    BY <1>2 DEF Claims, Working, ShardHeld
  <2> QED
    BY <1>1, <2>1, HandleShape DEF Shape, Buffers
<1>6. \A g : InTransfer(g)' <=> InTransfer(g)
  BY <1>3 DEF InTransfer
<1>7. Working'
  <2>1. \A d : CopyHeld(d) => CopyHeld(d)'
    BY <1>1, <1>3 DEF CopyHeld
  <2>2. \A u, r : ShardHeld(u, r) => ShardHeld(u, r)'
    BY <1>1, <1>3 DEF ShardHeld
  <2>3. \A u \in Tasks : todo'[u] \subseteq todo[u]
    BY <1>4
  <2> QED
    BY <1>3, <2>1, <2>2, <2>3 DEF Claims, Working
<1>8. Failing'
  <2>1. todo[t] # {} /\ t # finished
    BY <1>1 DEF Claims, Failing
  <2>2. finished \in broken' => finished \in broken
    BY <1>3, <2>1
  <2>3. \A u \in Tasks : todo[u] = {} => todo'[u] = {}
    BY <1>4
  <2>4. (\A u \in failureSet : todo'[u] = {}) /\ (finished # NoTask => todo'[finished] = {})
    BY <1>1, <2>3 DEF Claims, Failing, TypeOK
  <2> QED
    BY <1>3, <2>2, <2>4 DEF Claims, Failing
<1>9. Marked' /\ DumpsOwn'
  BY <1>1, <1>3 DEF Claims, Marked, DumpsOwn
<1>10. Delivering'
  <2>1. \A g : Coming(g) => Coming(g)'
    BY <1>3 DEF Coming
  <2> QED
    BY <1>1, <1>3, <2>1 DEF Claims, Delivering
<1>11. \A g \in Handles : own[g] /\ at[g] = n => g = h
  BY <1>5, OwnerIsAlone
<1>12. CASE TypeOf(h) = "load"
  <2>1. ~ready[n] /\ stored' = stored
    BY <1>2, <1>5, <1>12 DEF ShardHeld, BackendShard
  <2>2. \A m \in Nodes : m # n => data'[m] = data[m]
    BY <1>1, <1>2, <1>12 DEF BackendShard, TypeOK
  <2>3. data'[n] = KeyOf(h) \/ t \in broken'
    <3>1. \/ stored[KeyOf(h)] # NoKey /\ data' = [data EXCEPT ![n] = stored[KeyOf(h)]]
          \/ t \in broken'
      BY <1>2, <1>12 DEF BackendShard
    <3>2. stored[KeyOf(h)] \in {KeyOf(h), NoKey}
      BY <1>5 DEF Claims, StoredHolds
    <3> QED
      BY <1>1, <3>1, <3>2 DEF TypeOK
  <2>4. ReadyBuffersHold' /\ StoredHolds'
    BY <1>3, <2>1, <2>2 DEF Claims, ReadyBuffersHold, StoredHolds
  <2>5. LoadsComing'
    <3> SUFFICES ASSUME NEW g \in Handles, InTransfer(g), own[g], ~ready[at[g]]
                 PROVE  <<g, at[g]>> \in todo'[g[1]] \/ data'[at[g]] = KeyOf(g) \/ g[1] \in broken'
      BY <1>1, <1>3, <1>6 DEF LoadsComing
    <3>4. at[g] \in Nodes
      BY <1>1 DEF Shape, Buffers, TypeOK
    <3>1. at[g] \in Nodes /\ g[1] \in Tasks
      BY <1>1, <3>4, HandleShape
    <3>2. CASE at[g] = n
      BY <1>5, <1>11, <2>3, <3>2
    <3>3. CASE at[g] # n
      <4>1. <<g, at[g]>> # s
        BY <1>2, <3>3
      <4> QED
        BY <1>3, <1>4, <2>2, <3>1, <3>3, <4>1 DEF Claims, LoadsComing
    <3> QED
      BY <3>2, <3>3
  <2>6. DumpsComing'
    <3> SUFFICES ASSUME NEW g \in Handles, g[1] = task["dump"], at[g] # NoNode
                 PROVE  ready[at[g]] \/ <<g, at[g]>> \in copies \/ data'[at[g]] = KeyOf(g)
      BY <1>1, <1>3 DEF DumpsComing
    <3>1. TypeOf(g) = "dump"
      BY DispatcherType DEF Queues
    <3>2. at[g] \in Nodes /\ at[g] # n
      BY <1>1, <1>11, <1>12, <3>1 DEF Claims, DumpsOwn, TypeOK
    <3> QED
      BY <2>2, <3>2 DEF Claims, DumpsComing
  <2> QED
    BY <1>7, <1>8, <1>9, <1>10, <2>4, <2>5, <2>6 DEF Claims
<1>13. CASE TypeOf(h) # "load"
  <2>1. ready[n] /\ data' = data /\ data[n] = KeyOf(h)
    <3>1. ready[n] /\ data' = data
      BY <1>2, <1>5, <1>13 DEF ShardHeld, BackendShard
    <3> QED
      BY <1>5, <3>1 DEF Claims, ReadyBuffersHold
  <2>2. StoredHolds'
    <3>1. stored' = stored \/ stored' = [stored EXCEPT ![KeyOf(h)] = data[n]]
      BY <1>2, <1>13 DEF BackendShard
    <3> QED
      BY <1>1, <2>1, <3>1 DEF Claims, StoredHolds, TypeOK
  <2>3. ReadyBuffersHold' /\ DumpsComing'
    BY <1>1, <1>3, <2>1 DEF Claims, ReadyBuffersHold, DumpsComing
  <2>4. LoadsComing'
    <3> SUFFICES ASSUME NEW g \in Handles, InTransfer(g), own[g], ~ready[at[g]]
                 PROVE  <<g, at[g]>> \in todo'[g[1]] \/ data[at[g]] = KeyOf(g) \/ g[1] \in broken'
      BY <1>1, <1>3, <1>6, <2>1 DEF LoadsComing
    <3>1. g[1] \in Tasks
      BY <1>1, HandleShape
    <3>2. <<g, at[g]>> # s
      BY <1>2, <2>1
    <3> QED
      BY <1>3, <1>4, <3>1, <3>2 DEF Claims, LoadsComing
  <2> QED
    BY <1>7, <1>8, <1>9, <1>10, <2>2, <2>3, <2>4 DEF Claims
<1> QED
  BY <1>12, <1>13

\* A step that leaves alone what the claims speak of.
LEMMA ClaimsFrame ==
    ASSUME Shape, Claims, mix' = mix,
           UNCHANGED <<pool, clients, waiting, task, transfer, dumping, backend, copies, memory>>
    PROVE  Claims'
<1>1. /\ Handles' = Handles /\ UNCHANGED <<key, at, own, ready, status, latch, failureSet>>
      /\ UNCHANGED <<running, current, holder, syncing, finished, todo, broken, data, dst, stored>>
      /\ \A g : TypeOf(g)' = TypeOf(g) /\ KeyOf(g)' = KeyOf(g)
  BY MixStays DEF Shape, pool, clients, transfer, backend, memory
<1>2. Working'
  <2>1. \A d : CopyHeld(d) => CopyHeld(d)'
    BY <1>1 DEF CopyHeld
  <2>2. \A u, r : ShardHeld(u, r) => ShardHeld(u, r)'
    BY <1>1 DEF ShardHeld
  <2> QED
    BY <1>1, <2>1, <2>2 DEF Claims, Working
<1>3. Failing' /\ Marked' /\ DumpsOwn' /\ StoredHolds' /\ ReadyBuffersHold' /\ DumpsComing'
  BY <1>1 DEF Claims, Failing, Marked, DumpsOwn, StoredHolds, ReadyBuffersHold, DumpsComing
<1>4. LoadsComing'
  BY <1>1 DEF Claims, LoadsComing, InTransfer
<1>5. Delivering'
  <2>1. \A g : Coming(g) => Coming(g)'
    BY <1>1 DEF Coming
  <2> QED
    BY <1>1, <2>1 DEF Claims, Delivering
<1> QED
  BY <1>2, <1>3, <1>4, <1>5 DEF Claims

\* Every step of a calm system keeps the claims.
LEMMA ClaimsStep ==
    ASSUME Shape, Calm, Claims, Next
    PROVE  Claims'
<1>1. mix' = mix /\ mix \in Mixes /\ TypeOK /\ "load" \in Queues /\ "dump" \in Queues
  BY DEF Next, Shape, Queues
<1>2. ASSUME LoadGet PROVE Claims'
  <2>1. PICK h \in Handles : h = <<task["load"], shard["load"]>>
    BY <1>2 DEF LoadGet
  <2>2. PICK n \in Nodes : Get(h, n)
    BY <1>2, <2>1 DEF LoadGet
  <2>3. copies' = copies /\ UNCHANGED <<clients, waiting, task, transfer, dumping, backend, memory>>
    BY <1>2 DEF LoadGet
  <2> QED
    BY <1>1, <2>1, <2>2, <2>3, GetClaims
<1>3. ASSUME DumpGet PROVE Claims'
  <2>1. PICK h \in Handles : h = <<task["dump"], shard["dump"]>>
    BY <1>3 DEF DumpGet
  <2>2. UNCHANGED <<clients, waiting, task, transfer, dumping, backend, memory>>
    BY <1>3 DEF DumpGet
  <2>3. CASE UNCHANGED <<pool, copies>>
    BY <1>1, <2>2, <2>3, ClaimsFrame
  <2>4. CASE ~UNCHANGED <<pool, copies>>
    <3>1. PICK n \in Nodes : /\ ref[n] = 0 /\ Get(h, n)
                             /\ copies' = IF ready'[n] THEN copies ELSE copies \cup {<<h, n>>}
      BY <1>3, <2>1, <2>4 DEF DumpGet
    <3>2. "dump" # "load"
      OBVIOUS
    <3> QED
      BY <1>1, <2>1, <2>2, <3>1, <3>2, GetClaims
  <2> QED
    BY <2>3, <2>4
<1>4. ASSUME LoadDispatch PROVE Claims'
  <2>1. PICK t \in Tasks : t = task["load"]
    BY <1>1, <1>4 DEF LoadDispatch, Gathered, TypeOK
  <2>2. /\ Gathered("load") /\ Idle("load") /\ UNCHANGED <<key, ready, status, waiting, shard>>
        /\ UNCHANGED <<current, holder, syncing, finished, dumping, broken, copies, memory>>
    BY <1>4 DEF LoadDispatch
  <2>3. CASE Fail(t) /\ Release(Held(t)) /\ UNCHANGED <<todo, running>>
    <3>1. UNCHANGED <<status, waiting, shard, transfer, dumping, backend, copies, memory>>
      BY <2>2, <2>3 DEF transfer, backend
    <3>2. "load" # "dump"
      OBVIOUS
    <3> QED
      BY <1>1, <2>1, <2>2, <2>3, <3>1, <3>2, DispatchFailsClaims
  <2>4. CASE ~(Fail(t) /\ Release(Held(t)) /\ UNCHANGED <<todo, running>>)
    <3>1. /\ todo' = [todo EXCEPT ![t] = {<<h, at[h]>> : h \in {h \in Held(t) : own[h] /\ ~ready[at[h]]}}]
          /\ running' = running \o AllOf(t) /\ UNCHANGED <<latch, failureSet, ref, at, own>>
      BY <1>4, <2>1, <2>4 DEF LoadDispatch
    <3>2. UNCHANGED <<pool, clients, waiting, shard, current, holder, syncing, finished, dumping, broken,
                      copies, memory>>
      BY <2>2, <3>1 DEF pool, clients
    <3> QED
      BY <1>1, <2>1, <2>2, <3>1, <3>2, HandOverClaims
  <2> QED
    BY <2>3, <2>4
<1>5. ASSUME DumpDispatchFails PROVE Claims'
  <2>1. PICK t \in Tasks : t = task["dump"]
    BY <1>1, <1>5 DEF DumpDispatchFails, Gathered, TypeOK
  <2>2. /\ StreamsIdle("dump") /\ MarkReady(Held(t)) /\ Release(Held(t)) /\ Fail(t) /\ Idle("dump")
        /\ UNCHANGED <<key, status, waiting, shard, transfer, dumping, backend, copies, memory>>
    BY <1>5, <2>1 DEF DumpDispatchFails, DumpFails, Calm
  <2> QED
    BY <1>1, <2>1, <2>2, DispatchFailsClaims
<1>6. ~DumpGetFails
  BY DEF DumpGetFails, Calm
<1>7. ASSUME External PROVE Claims'
  BY <1>1, <1>7, CopyClaims, BackendClaims DEF External
<1> QED
  BY <1>1, <1>2, <1>3, <1>4, <1>5, <1>6, <1>7, SubmitClaims, WaitsClaims, TakeClaims, TransferTakeClaims,
     ShardToDeviceClaims, ShardFailsClaims, TransferSyncClaims, DumpDispatchClaims, DumperClaims
     DEF Next, Step, LoadDispatcher, LoadTransfer, DumpDispatcher

-----------------------------------------------------------------------------
(* The inductive invariant.                                                *)

\* The empty queues and the empty buffer.
LEMMA InitShape ==
    ASSUME Init
    PROVE  Shape
<1>1. mix \in Mixes /\ NoTask \notin Tasks /\ NoNode \notin Nodes
  BY TransferAssumption DEF Init
<1>2. TypeOK
  <2>1. /\ waiting \in [Queues -> Seq(Tasks)] /\ task \in [Queues -> Tasks \cup {NoTask}]
        /\ shard \in [Queues -> Nat] /\ running \in Seq(Handles) /\ dumping \in Seq(Tasks)
    BY DEF Init
  <2>2. stored \in [Keys -> Bytes] /\ data \in [Nodes -> Bytes] /\ dst \in [Handles -> Bytes]
    BY DEF Init, Bytes
  <2> QED
    BY <2>1, <2>2 DEF Init, TypeOK
<1>3. Counts
  <2>1. \A n \in Nodes : HoldersOf(n) = {} /\ ref[n] = 0
    BY <1>1 DEF Init, HoldersOf
  <2> QED
    BY <2>1, FS_EmptySet DEF Counts
<1>4. Buffers
  BY DEF Init, Buffers
<1>5. /\ \A q \in Queues : In(waiting[q]) = {} /\ task[q] = NoTask
      /\ In(running) = {} /\ In(dumping) = {} /\ current = NoHandle
  BY DEF Init, In
<1>6. Order
  <2>1. running = <<>> /\ dumping = <<>> /\ ~syncing /\ \A q \in Queues : waiting[q] = <<>>
    BY DEF Init
  <2>2. Once(<<>>) /\ Followed(<<>>)
    BY DEF Once, Followed
  <2> QED
    BY <1>5, <2>1, <2>2 DEF Order
<1>7. ASSUME NEW t \in Tasks PROVE Stage(t)
  <2>1. \A h : ~InTransfer(h)
    BY <1>5 DEF InTransfer
  <2>2. Untouched(t)
    BY <1>1, <1>5, <2>1 DEF Init, Untouched, Unsent, Held
  <2>3. "load" \in Queues /\ t # NoTask
    BY <1>1 DEF Queues
  <2> QED
    BY <1>5, <2>1, <2>2, <2>3 DEF Init, Stage
<1> QED
  BY <1>1, <1>2, <1>3, <1>4, <1>6, <1>7 DEF Shape

\* Nothing is under way yet, and the backend's blocks are their own.
LEMMA InitClaims ==
    ASSUME Init
    PROVE  Claims
<1>1. NoTask \notin Tasks
  BY TransferAssumption
<1>2. Working /\ Marked /\ DumpsOwn /\ ReadyBuffersHold /\ StoredHolds /\ DumpsComing
  BY DEF Init, Working, Marked, DumpsOwn, ReadyBuffersHold, StoredHolds, DumpsComing
<1>3. Failing
  BY DEF Init, Failing
<1>4. LoadsComing
  BY DEF Init, LoadsComing
<1>5. Delivering
  <2>1. \A h \in Handles : h[1] \in Tasks
    BY DEF Handles
  <2> QED
    BY <2>1 DEF Init, Delivering
<1> QED
  BY <1>2, <1>3, <1>4, <1>5 DEF Claims

\* A step of nobody.
LEMMA StutterShape ==
    ASSUME Shape, UNCHANGED vars
    PROVE  Shape' /\ mix' = mix
<1>1. /\ mix' = mix /\ Handles' = Handles /\ Work' = Work
      /\ \A t : LastShard(t)' = LastShard(t)
  BY MixStays DEF Shape, vars, LastShard
<1>2. /\ UNCHANGED <<key, ref, ready, at, own, data, status, latch, failureSet, waiting, task, shard>>
      /\ UNCHANGED <<running, current, holder, syncing, finished, dumping, todo, broken, copies, dst, stored>>
  BY DEF vars, pool, clients, dispatchers, transfer, backend, memory
<1>3. TypeOK' /\ mix' \in Mixes
  BY <1>1, <1>2 DEF Shape, TypeOK
<1>4. Counts'
  BY <1>1, <1>2, CountsFrame DEF Shape
<1>5. Buffers'
  <2>1. \A h : KeyOf(h)' = KeyOf(h)
    BY <1>1, MixStays DEF Shape
  <2> QED
    BY <1>1, <1>2, <2>1 DEF Shape, Buffers
<1>6. ASSUME NEW t \in Tasks PROVE Stage(t)'
  <2>1. Quiet(t)
    <3>1. \A h : InTransfer(h)' <=> InTransfer(h)
      BY <1>2 DEF InTransfer
    <3> QED
      BY <1>2, <3>1 DEF Quiet
  <2> QED
    BY <1>1, <1>3, <2>1, StageFrame DEF Shape
<1>7. Order'
  <2>1. Followed(running)'
    BY <1>1, <1>2 DEF Shape, Order, Followed
  <2>2. \A h : IsLast(h)' = IsLast(h)
    BY <1>1, MixStays DEF Shape
  <2> QED
    BY <1>2, <2>1, <2>2 DEF Shape, Order
<1> QED
  BY <1>1, <1>3, <1>4, <1>5, <1>6, <1>7 DEF Shape

\* The shape always, and the claims as long as nothing fails early.
THEOREM Inductive == Spec => []IInv
<1>1. Init => IInv
  BY InitShape, InitClaims DEF IInv
<1>2. IInv /\ [Next]_vars => IInv'
  <2> SUFFICES ASSUME IInv, [Next]_vars PROVE IInv'
    OBVIOUS
  <2>1. CASE Next
    <3>1. Shape' /\ mix' = mix /\ mix \in Mixes
      BY <2>1, ShapeStep DEF IInv, Shape, Next
    <3>2. Calm' = Calm
      BY <3>1, MixStays
    <3>3. Calm => Claims'
      BY <2>1, ClaimsStep DEF IInv
    <3> QED
      BY <3>1, <3>2, <3>3 DEF IInv
  <2>2. CASE UNCHANGED vars
    <3>1. Shape' /\ mix' = mix
      BY <2>2, StutterShape DEF IInv
    <3>2. Calm' = Calm
      BY <3>1, MixStays
    <3>3. UNCHANGED <<pool, clients, waiting, task, transfer, dumping, backend, copies, memory>>
      BY <2>2 DEF vars, dispatchers
    <3>4. Calm => Claims'
      BY <3>1, <3>3, ClaimsFrame DEF IInv
    <3> QED
      BY <3>1, <3>2, <3>4 DEF IInv
  <2> QED
    BY <2>1, <2>2
<1> QED
  BY <1>1, <1>2, PTL DEF Spec

\* Every variable of the two queues, the buffer and the backend keeps its type.
THEOREM TransferTypeCorrect == Spec => []TypeOK
<1>1. IInv => TypeOK
  BY DEF IInv, Shape
<1> QED
  BY <1>1, Inductive, PTL

\* A buffer marked ready holds its block's bytes, for any tasks, buffers and
\* faults of the backend, as long as no Wait runs out and no copy fails.
THEOREM ReadyHoldsBytes == Spec => []ReadyIsRight
<1>1. IInv => ReadyIsRight
  BY DEF IInv, Claims, ReadyIsRight
<1> QED
  BY <1>1, Inductive, PTL

\* What reaches the backend under a key is that block's bytes.
THEOREM StoredHoldsBytes == Spec => []StoredIsRight
<1>1. IInv => StoredIsRight
  BY DEF IInv, Claims, StoredHolds, StoredIsRight
<1> QED
  BY <1>1, Inductive, PTL

\* A load whose Wait returned OK put every shard's own bytes on the device: a
\* task that ended has no shard on its way.
THEOREM LoadsDeliver == Spec => []LoadOkIsRight
<1>1. IInv => LoadOkIsRight
  <2> SUFFICES ASSUME Shape, Claims, NEW t \in DOMAIN Work, Work[t].type = "load", status[t] = "ok",
                      NEW i \in Shards(t)
               PROVE  dst[<<t, i>>] = Work[t].keys[i]
    BY DEF IInv, LoadOkIsRight, LoadsDelivered
  <2>1. t \in Tasks
    BY TransferAssumption DEF Shape, MixShape, Work
  <2>2. <<t, i>> \in Handles
    BY <2>1, HandleOf
  <2>3. t \notin latch /\ t \notin failureSet
    BY <2>1 DEF Shape, Stage
  <2>4. PICK h \in Handles : h = <<t, i>>
    BY <2>2
  <2>5. h[1] = t /\ TypeOf(h) = "load" /\ KeyOf(h) = Work[t].keys[i]
    BY <2>4 DEF TypeOf, KeyOf
  <2>6. dst[h] = KeyOf(h)
    BY <2>3, <2>5 DEF Claims, Delivering, Coming
  <2> QED
    BY <2>4, <2>5, <2>6
<1> QED
  BY <1>1, Inductive, PTL

\* A task whose Wait returned has left the failure set, the dispatchers and the
\* transfer thread, whatever failed or ran out of time.
THEOREM NothingIsLeft == Spec => []NothingLeft
<1>1. IInv => NothingLeft
  <2> SUFFICES ASSUME Shape, NEW t \in Tasks, status[t] \in {"ok", "error", "timeout"}
               PROVE  /\ t \notin failureSet
                      /\ \A q \in Queues : task[q] # t
                      /\ \A i \in DOMAIN running : running[i][1] # t
                      /\ current[1] # t
    BY DEF IInv, NothingLeft
  <2>1. t \notin latch /\ t \notin failureSet
    BY DEF Shape, Stage
  <2>2. \A q \in Queues : task[q] # t
    BY <2>1 DEF Shape, Stage, InDispatch
  <2>3. ASSUME NEW h \in Handles, InTransfer(h) PROVE h[1] # t
    BY <2>1, <2>3, HandElsewhere DEF InHand
  <2>4. ASSUME NEW i \in DOMAIN running PROVE running[i][1] # t
    <3>1. PICK h \in Handles : h = running[i]
      BY DEF Shape, TypeOK
    <3>2. InTransfer(h)
      BY <3>1 DEF InTransfer, In
    <3> QED
      BY <2>3, <3>1, <3>2
  <2>5. current[1] # t
    <3>1. CASE current = NoHandle
      BY <3>1, TransferAssumption DEF NoHandle
    <3>2. CASE current # NoHandle
      <4>1. current \in Handles /\ InTransfer(current)
        BY <3>2 DEF Shape, TypeOK, InTransfer
      <4>2. PICK h \in Handles : h = current
        BY <4>1
      <4> QED
        BY <2>3, <4>1, <4>2
    <3> QED
      BY <3>1, <3>2
  <2> QED
    BY <2>1, <2>2, <2>4, <2>5
<1> QED
  BY <1>1, Inductive, PTL

=============================================================================
