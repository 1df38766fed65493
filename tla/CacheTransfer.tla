--------------------------- MODULE CacheTransfer ---------------------------
(***************************************************************************)
(* The transfers of the cache store, ucm/store/cache/cc: the load queue    *)
(* (a dispatcher and a transfer thread), the dump queue (a dispatcher and  *)
(* a dumper thread), the task table and failure set both share             *)
(* (TransManager, TaskWrapper, Latch), over the buffer of BufferPool.tla.  *)
(* The device's copy streams and the store behind the cache are external.  *)
(*                                                                         *)
(* A key stands for a block's shard and, in data, dst and stored, for that *)
(* shard's bytes.  Handle <<t, i>> is the buffer handle of the i-th shard  *)
(* of task t, whichever queue element, local or holder it is moved to.     *)
(*                                                                         *)
(* running_ and dumping_ are never full here (their default depth is       *)
(* 524288); waiting_ is bounded, as a full one fails a task.               *)
(***************************************************************************)
EXTENDS Integers, Sequences, FiniteSets

CONSTANTS
    Keys, Nodes, NoKey, NoNode,
    Tasks,
    Mixes,          \* tasks and faults of the behaviours, records (see below)
    QueueCapacity   \* waitingQueueDepth - 1

VARIABLE mix                   \* the mix of this behaviour

Queues == {"load", "dump"}

NoTask == 0

NoHandle == <<NoTask, 0>>

\* The type and keys of each task, the keys the backend holds at first, and
\* whether a Wait may run into timeout_ms, the backend may fail a shard or
\* refuse a task, and a copy or a stream may fail.
MixShape(m) ==
    /\ DOMAIN m = {"work", "stored", "timeouts", "backendFails", "copyFails"}
    /\ DOMAIN m.work \subseteq Tasks
    /\ \A t \in DOMAIN m.work :
        /\ m.work[t].type \in Queues
        /\ m.work[t].keys \in Seq(Keys) \ {<<>>}
    /\ m.stored \subseteq Keys
    /\ {m.timeouts, m.backendFails, m.copyFails} \subseteq BOOLEAN

ASSUME TransferAssumption ==
    /\ Tasks \subseteq Nat \ {NoTask} /\ NoKey \notin Keys /\ NoNode \notin Nodes
    /\ \A m \in Mixes : MixShape(m)
    /\ QueueCapacity \in Nat \ {0}

Work == mix.work

Timeouts == mix.timeouts

BackendFails == mix.backendFails

CopyFails == mix.copyFails

Shards(t) == IF t \in DOMAIN Work THEN DOMAIN Work[t].keys ELSE {}

Handles == UNION {{t} \X Shards(t) : t \in Tasks}

VARIABLES
    key, ref, ready, at, own,  \* the buffer, as in BufferPool
    data,                      \* data[n]: whose bytes buffer node n holds
    status,                    \* status[t]: Wait's view of task t
    latch,                     \* the tasks whose Latch is not down to zero
    failureSet,                \* TaskWrapper::failureSet_
    waiting,                   \* waiting_ of each queue
    task, shard,               \* each dispatcher's current task and shard
    running, current, holder,  \* LoadQueue::running_, the transfer thread's
    syncing, finished,         \*   shard, holder_, and its progress
    dumping,                   \* DumpQueue::dumping_
    todo, broken,              \* the backend's tasks: shards to do, failed ones
    copies,                    \* the copies in the device's streams
    dst,                       \* dst[h]: whose bytes the load of h delivered
    stored                     \* stored[k]: the backend's bytes under key k

pool == <<key, ref, ready, at, own>>
clients == <<status, latch, failureSet>>
dispatchers == <<waiting, task, shard>>
transfer == <<running, current, holder, syncing, finished>>
backend == <<todo, broken>>
memory == <<data, dst, stored>>
vars == <<mix, pool, clients, dispatchers, transfer, dumping, backend, copies, memory>>

KeyOf(h) == Work[h[1]].keys[h[2]]

TypeOf(h) == Work[h[1]].type

IsLast(h) == h[2] = Len(Work[h[1]].keys)

Held(t) == {h \in Handles : h[1] = t /\ at[h] # NoNode}

Done(t) == latch' = latch \ {t}

Fail(t) == failureSet' = failureSet \cup {t} /\ Done(t)

Init ==
    /\ mix \in Mixes
    /\ key = [n \in Nodes |-> NoKey]
    /\ ref = [n \in Nodes |-> 0]
    /\ ready = [n \in Nodes |-> FALSE]
    /\ at = [h \in Handles |-> NoNode]
    /\ own = [h \in Handles |-> FALSE]
    /\ data = [n \in Nodes |-> NoKey]
    /\ status = [t \in Tasks |-> "new"]
    /\ latch = {}
    /\ failureSet = {}
    /\ waiting = [q \in Queues |-> <<>>]
    /\ task = [q \in Queues |-> NoTask]
    /\ shard = [q \in Queues |-> 1]
    /\ running = <<>>
    /\ current = NoHandle
    /\ holder = {}
    /\ syncing = FALSE
    /\ finished = NoTask
    /\ dumping = <<>>
    /\ todo = [t \in Tasks |-> {}]
    /\ broken = {}
    /\ copies = {}
    /\ dst = [h \in Handles |-> NoKey]
    /\ stored = [k \in Keys |-> IF k \in mix.stored THEN k ELSE NoKey]

-----------------------------------------------------------------------------
(* The buffer: Get as one step (BufferPool's Evict and GetMiss, or GetHit) *)
(* and the destruction of a set of handles.                                *)

Resident(k) == \E n \in Nodes : key[n] = k

\* Mutant: only the first handle of a node counts.
GetUncounted(h, n) ==
    \/ /\ key[n] = KeyOf(h)
       /\ at' = [at EXCEPT ![h] = n]
       /\ own' = [own EXCEPT ![h] = (ref[n] = 0)]
       /\ ref' = [ref EXCEPT ![n] = 1]
       /\ UNCHANGED <<key, ready>>
    \/ /\ ~Resident(KeyOf(h))
       /\ ref[n] = 0
       /\ key' = [key EXCEPT ![n] = KeyOf(h)]
       /\ ref' = [ref EXCEPT ![n] = 1]
       /\ ready' = [ready EXCEPT ![n] = FALSE]
       /\ at' = [at EXCEPT ![h] = n]
       /\ own' = [own EXCEPT ![h] = TRUE]

\* The handle h a Get for its key returns, on node n.
Get(h, n) ==
    \/ /\ key[n] = KeyOf(h)
       /\ at' = [at EXCEPT ![h] = n]
       /\ own' = [own EXCEPT ![h] = (ref[n] = 0)]
       /\ ref' = [ref EXCEPT ![n] = @ + 1]
       /\ UNCHANGED <<key, ready>>
    \/ /\ ~Resident(KeyOf(h))
       /\ ref[n] = 0
       /\ key' = [key EXCEPT ![n] = KeyOf(h)]
       /\ ref' = [ref EXCEPT ![n] = 1]
       /\ ready' = [ready EXCEPT ![n] = FALSE]
       /\ at' = [at EXCEPT ![h] = n]
       /\ own' = [own EXCEPT ![h] = TRUE]

Release(H) ==
    /\ ref' = [n \in Nodes |-> ref[n] - Cardinality({h \in H : at[h] = n})]
    /\ at' = [h \in Handles |-> IF h \in H THEN NoNode ELSE at[h]]
    /\ own' = [h \in Handles |-> h \notin H /\ own[h]]

MarkReady(H) ==
    ready' = [n \in Nodes |-> ready[n] \/ \E h \in H : at[h] = n]

-----------------------------------------------------------------------------
(* The client: Load or Dump, then Wait.                                    *)

\* A full waiting_ fails the task.
Submit(t) ==
    LET q == Work[t].type IN
    /\ t \in DOMAIN Work
    /\ status[t] = "new"
    /\ status' = [status EXCEPT ![t] = "waiting"]
    /\ IF Len(waiting[q]) < QueueCapacity
         THEN /\ waiting' = [waiting EXCEPT ![q] = Append(@, t)]
              /\ latch' = latch \cup {t}
              /\ UNCHANGED failureSet
         ELSE /\ failureSet' = failureSet \cup {t}
              /\ UNCHANGED <<waiting, latch>>
    /\ UNCHANGED <<pool, task, shard, transfer, dumping, backend, copies, memory>>

WaitReturns(t) ==
    /\ status[t] = "waiting"
    /\ t \notin latch
    /\ status' = [status EXCEPT ![t] = IF t \in failureSet THEN "error" ELSE "ok"]
    /\ failureSet' = failureSet \ {t}
    /\ UNCHANGED <<pool, latch, dispatchers, transfer, dumping, backend, copies, memory>>

\* Mutant: the timed-out task is not made to fail.
TimeOutOnly(t) ==
    /\ Timeouts
    /\ status[t] = "waiting"
    /\ t \in latch
    /\ status' = [status EXCEPT ![t] = "late"]
    /\ UNCHANGED <<pool, latch, failureSet, dispatchers, transfer, dumping, backend, copies, memory>>

\* WaitFor runs out; the task is made to fail, and waited for without limit.
TimeOut(t) ==
    /\ Timeouts
    /\ status[t] = "waiting"
    /\ t \in latch
    /\ status' = [status EXCEPT ![t] = "late"]
    /\ failureSet' = failureSet \cup {t}
    /\ UNCHANGED <<pool, latch, dispatchers, transfer, dumping, backend, copies, memory>>

\* Mutant: the late task stays in the failure set.
LateReturnsKeeps(t) ==
    /\ status[t] = "late"
    /\ t \notin latch
    /\ status' = [status EXCEPT ![t] = "timeout"]
    /\ UNCHANGED <<pool, latch, failureSet, dispatchers, transfer, dumping, backend, copies, memory>>

LateReturns(t) ==
    /\ status[t] = "late"
    /\ t \notin latch
    /\ status' = [status EXCEPT ![t] = "timeout"]
    /\ failureSet' = failureSet \ {t}
    /\ UNCHANGED <<pool, latch, dispatchers, transfer, dumping, backend, copies, memory>>

-----------------------------------------------------------------------------
(* A dispatcher takes a task; the load queue's asks the backend for what   *)
(* is not in the buffer, once it holds a handle for every shard.           *)

Take(q) ==
    /\ task[q] = NoTask
    /\ waiting[q] # <<>>
    /\ waiting' = [waiting EXCEPT ![q] = Tail(@)]
    /\ IF Head(waiting[q]) \in failureSet
         THEN Done(Head(waiting[q])) /\ UNCHANGED <<task, shard>>
         ELSE /\ task' = [task EXCEPT ![q] = Head(waiting[q])]
              /\ shard' = [shard EXCEPT ![q] = 1]
              /\ UNCHANGED latch
    /\ UNCHANGED <<pool, status, failureSet, transfer, dumping, backend, copies, memory>>

Idle(q) == task' = [task EXCEPT ![q] = NoTask]

LoadGet ==
    LET h == <<task["load"], shard["load"]>> IN
    /\ h \in Handles
    /\ \E n \in Nodes : Get(h, n)
    /\ shard' = [shard EXCEPT !["load"] = @ + 1]
    /\ UNCHANGED <<clients, waiting, task, transfer, dumping, backend, copies, memory>>

\* Every shard has its handle.
Gathered(q) == task[q] # NoTask /\ <<task[q], shard[q]>> \notin Handles

AllOf(t) == [i \in Shards(t) |-> <<t, i>>]

LoadDispatch ==
    LET t == task["load"]
        missing == {h \in Held(t) : own[h] /\ ~ready[at[h]]} IN
    /\ Gathered("load")
    /\ \/ /\ todo' = [todo EXCEPT ![t] = {<<h, at[h]>> : h \in missing}]
          /\ running' = running \o AllOf(t)
          /\ UNCHANGED <<latch, failureSet, ref, at, own>>
       \/ /\ BackendFails /\ missing # {}
          /\ Fail(t)
          /\ Release(Held(t))
          /\ UNCHANGED <<todo, running>>
    /\ Idle("load")
    /\ UNCHANGED <<key, ready, status, waiting, shard, current, holder, syncing, finished,
                   dumping, broken, copies, memory>>

-----------------------------------------------------------------------------
(* The load queue's transfer thread.                                       *)

\* The end of TransferOneTask: its shard and the handles H are destroyed.
Finish(h, H) ==
    /\ Release(H \cup {h})
    /\ current' = NoHandle
    /\ syncing' = FALSE

TransferTake ==
    LET h == Head(running) IN
    /\ current = NoHandle
    /\ running # <<>>
    /\ running' = Tail(running)
    /\ IF h[1] \in failureSet
         THEN /\ IF IsLast(h) THEN Done(h[1]) ELSE UNCHANGED latch
              /\ Release({h})
              /\ UNCHANGED current
         ELSE current' = h /\ UNCHANGED <<latch, ref, at, own>>
    /\ UNCHANGED <<key, ready, data, status, failureSet, dispatchers, holder, syncing,
                   finished, dumping, backend, copies, dst, stored>>

\* What WaitBackendTaskReady waits for: somebody's MarkReady, or, in the
\* owner, the end of the backend's task, unless that was waited for before.
BackendOver(h) == h[1] = finished \/ todo[h[1]] = {}

BackendOk(h) == h[1] = finished \/ h[1] \notin broken

\* The buffer is ready; its copy to the device starts.  All but the last
\* shard of a task go to holder_.
ShardToDevice ==
    LET h == current IN
    /\ h # NoHandle /\ ~syncing
    /\ ready[at[h]] \/ (own[h] /\ BackendOver(h) /\ BackendOk(h))
    /\ MarkReady({h})
    /\ finished' = IF ready[at[h]] THEN finished ELSE h[1]
    /\ copies' = copies \cup {<<h, at[h]>>}
    /\ IF IsLast(h)
         THEN syncing' = TRUE /\ UNCHANGED <<current, holder>>
         ELSE holder' = holder \cup {h} /\ current' = NoHandle /\ UNCHANGED syncing
    /\ UNCHANGED <<key, ref, at, own, clients, dispatchers, running, dumping, backend, memory>>

\* Mutant: the failed shard's task is not made to fail.
ShardFailsSilently ==
    LET h == current IN
    /\ h # NoHandle /\ ~syncing
    /\ ~ready[at[h]]
    /\ own[h] /\ BackendOver(h) /\ ~BackendOk(h)
    /\ finished' = h[1]
    /\ IF IsLast(h) THEN Done(h[1]) ELSE UNCHANGED latch
    /\ Finish(h, {})
    /\ UNCHANGED <<key, ready, status, failureSet, dispatchers, running, holder, dumping,
                   backend, copies, memory>>

\* A shard that fails: the backend's task did, or the task was made to fail
\* while it waits for another's MarkReady, or its copy cannot be started.
ShardFails ==
    LET h == current IN
    /\ h # NoHandle /\ ~syncing
    /\ \/ /\ ~ready[at[h]]
          /\ IF own[h] THEN BackendOver(h) /\ ~BackendOk(h) ELSE h[1] \in failureSet
          /\ finished' = IF own[h] THEN h[1] ELSE finished
          /\ UNCHANGED ready
       \/ /\ CopyFails
          /\ ready[at[h]] \/ (own[h] /\ BackendOver(h) /\ BackendOk(h))
          /\ finished' = IF ready[at[h]] THEN finished ELSE h[1]
          /\ MarkReady({h})
    /\ failureSet' = failureSet \cup {h[1]}
    /\ IF IsLast(h) THEN Done(h[1]) ELSE UNCHANGED latch
    /\ Finish(h, {})
    /\ UNCHANGED <<key, status, dispatchers, running, holder, dumping, backend, copies, memory>>

StreamsIdle(q) == \A c \in copies : TypeOf(c[1]) # q

\* The last shard waits for the streams; holder_ is emptied.
TransferSync ==
    LET h == current IN
    /\ syncing
    /\ StreamsIdle("load")
    /\ IF CopyFails THEN failureSet' \in {failureSet, failureSet \cup {h[1]}}
                    ELSE UNCHANGED failureSet
    /\ Done(h[1])
    /\ holder' = {}
    /\ Finish(h, holder)
    /\ UNCHANGED <<key, ready, status, dispatchers, running, finished, dumping, backend,
                   copies, memory>>

-----------------------------------------------------------------------------
(* The dump queue.                                                         *)

\* DumpOneTask's early return: the handles it had are destroyed.
DumpFails(t) ==
    /\ CopyFails \/ BackendFails
    /\ Fail(t)
    /\ Idle("dump")

\* A shard somebody else holds is skipped; one already ready is not copied.
DumpGet ==
    LET h == <<task["dump"], shard["dump"]>> IN
    /\ h \in Handles
    /\ shard' = [shard EXCEPT !["dump"] = @ + 1]
    /\ \/ /\ \E n \in Nodes : key[n] = KeyOf(h) /\ ref[n] > 0
          /\ UNCHANGED <<pool, copies>>
       \/ \E n \in Nodes :
          /\ ref[n] = 0
          /\ Get(h, n)
          /\ copies' = IF ready'[n] THEN copies ELSE copies \cup {<<h, n>>}
    /\ UNCHANGED <<clients, waiting, task, transfer, dumping, backend, memory>>

\* The copy to the host cannot be started: the handles of the shards before
\* this one, and this one's, are destroyed again.
DumpGetFails ==
    LET t == task["dump"]  h == <<task["dump"], shard["dump"]>> IN
    /\ CopyFails
    /\ h \in Handles
    /\ \E n \in Nodes :
        \/ /\ key[n] = KeyOf(h) /\ ref[n] = 0 /\ ~ready[n]
           /\ UNCHANGED <<key, ready>>
        \/ /\ ~Resident(KeyOf(h)) /\ ref[n] = 0
           /\ key' = [key EXCEPT ![n] = KeyOf(h)]
           /\ ready' = [ready EXCEPT ![n] = FALSE]
    /\ Release(Held(t))
    /\ DumpFails(t)
    /\ UNCHANGED <<status, waiting, shard, transfer, dumping, backend, copies, memory>>

\* Mutant: the buffers are ready as soon as their copies have started.
DumpDispatchNoSync ==
    LET t == task["dump"]  H == Held(task["dump"]) IN
    /\ Gathered("dump")
    /\ MarkReady(H)
    /\ IF H = {}
         THEN UNCHANGED <<todo, dumping>>
         ELSE /\ todo' = [todo EXCEPT ![t] = {<<h, at[h]>> : h \in H}]
              /\ dumping' = Append(dumping, t)
    /\ Done(t)
    /\ Idle("dump")
    /\ UNCHANGED <<key, ref, at, own, status, failureSet, waiting, shard, transfer, broken,
                   copies, memory>>

\* The copies are over: the buffers are ready, and go to the backend.
DumpDispatch ==
    LET t == task["dump"]  H == Held(task["dump"]) IN
    /\ Gathered("dump")
    /\ H # {} => StreamsIdle("dump")
    /\ MarkReady(H)
    /\ IF H = {}
         THEN UNCHANGED <<todo, dumping>>
         ELSE /\ todo' = [todo EXCEPT ![t] = {<<h, at[h]>> : h \in H}]
              /\ dumping' = Append(dumping, t)
    /\ Done(t)
    /\ Idle("dump")
    /\ UNCHANGED <<key, ref, at, own, status, failureSet, waiting, shard, transfer, broken,
                   copies, memory>>

\* The streams fail, or the backend refuses the task.
DumpDispatchFails ==
    LET t == task["dump"]  H == Held(task["dump"]) IN
    /\ Gathered("dump")
    /\ H # {}
    /\ StreamsIdle("dump")
    /\ \/ CopyFails /\ UNCHANGED ready
       \/ BackendFails /\ MarkReady(H)
    /\ Release(H)
    /\ DumpFails(t)
    /\ UNCHANGED <<key, status, waiting, shard, transfer, dumping, backend, copies, memory>>

\* Mutant: the dumper lets the buffers go at once.
DumperNoWait ==
    /\ dumping # <<>>
    /\ dumping' = Tail(dumping)
    /\ Release(Held(Head(dumping)))
    /\ UNCHANGED <<key, ready, clients, dispatchers, transfer, backend, copies, memory>>

\* BackendDumpStage: the handles go when the backend's task is over, be it
\* with a failure.
Dumper ==
    /\ dumping # <<>>
    /\ todo[Head(dumping)] = {}
    /\ dumping' = Tail(dumping)
    /\ Release(Held(Head(dumping)))
    /\ UNCHANGED <<key, ready, clients, dispatchers, transfer, backend, copies, memory>>

-----------------------------------------------------------------------------
(* The device's streams and the backend, one shard at a time in any order. *)

Copy(c) ==
    /\ c \in copies
    /\ copies' = copies \ {c}
    /\ IF TypeOf(c[1]) = "load"
         THEN dst' = [dst EXCEPT ![c[1]] = data[c[2]]] /\ UNCHANGED data
         ELSE data' = [data EXCEPT ![c[2]] = KeyOf(c[1])] /\ UNCHANGED dst
    /\ UNCHANGED <<pool, clients, dispatchers, transfer, dumping, backend, stored>>

\* A shard s = <<handle, node>> of a backend task is read into, or written
\* from, the buffer; a failed read leaves the buffer in any state.
BackendShard(t, s) ==
    LET h == s[1]  n == s[2]  k == KeyOf(s[1]) IN
    /\ s \in todo[t]
    /\ todo' = [todo EXCEPT ![t] = @ \ {s}]
    /\ \/ /\ TypeOf(h) = "load" /\ stored[k] # NoKey
          /\ data' = [data EXCEPT ![n] = stored[k]]
          /\ UNCHANGED <<broken, stored>>
       \/ /\ TypeOf(h) = "load" /\ (stored[k] = NoKey \/ BackendFails)
          /\ data' = [data EXCEPT ![n] = NoKey]
          /\ broken' = broken \cup {t}
          /\ UNCHANGED stored
       \/ /\ TypeOf(h) = "dump"
          /\ stored' = [stored EXCEPT ![k] = data[n]]
          /\ UNCHANGED <<broken, data>>
       \/ /\ TypeOf(h) = "dump" /\ BackendFails
          /\ broken' = broken \cup {t}
          /\ UNCHANGED <<data, stored>>
    /\ UNCHANGED <<pool, clients, dispatchers, transfer, dumping, copies, dst>>

-----------------------------------------------------------------------------

LoadTransfer == TransferTake \/ ShardToDevice \/ ShardFails \/ TransferSync

LoadDispatcher == Take("load") \/ LoadGet \/ LoadDispatch

DumpDispatcher ==
    Take("dump") \/ DumpGet \/ DumpGetFails \/ DumpDispatch \/ DumpDispatchFails

External ==
    \/ \E c \in copies : Copy(c)
    \/ \E t \in Tasks : \E s \in todo[t] : BackendShard(t, s)

Waits(t) == WaitReturns(t) \/ TimeOut(t) \/ LateReturns(t)

Step ==
    \/ \E t \in Tasks : Submit(t) \/ Waits(t)
    \/ LoadDispatcher \/ LoadTransfer
    \/ DumpDispatcher \/ Dumper
    \/ External

Next == Step /\ UNCHANGED mix

Spec == Init /\ [][Next]_vars

\* Every thread runs, the streams and the backend finish what they started
\* (the stores end each task), and a client waits for each of its tasks.
FairSpec ==
    /\ Spec
    /\ WF_vars(LoadDispatcher /\ UNCHANGED mix) /\ WF_vars(LoadTransfer /\ UNCHANGED mix)
    /\ WF_vars(DumpDispatcher /\ UNCHANGED mix) /\ WF_vars(Dumper /\ UNCHANGED mix)
    /\ WF_vars(External /\ UNCHANGED mix)
    /\ \A t \in Tasks : WF_vars(Waits(t) /\ UNCHANGED mix)

-----------------------------------------------------------------------------
(* Properties.                                                             *)

Bytes == Keys \cup {NoKey}

TypeOK ==
    /\ key \in [Nodes -> Keys \cup {NoKey}]
    /\ ref \in [Nodes -> Nat]
    /\ ready \in [Nodes -> BOOLEAN]
    /\ at \in [Handles -> Nodes \cup {NoNode}]
    /\ own \in [Handles -> BOOLEAN]
    /\ data \in [Nodes -> Bytes]
    /\ status \in [Tasks -> {"new", "waiting", "late", "ok", "error", "timeout"}]
    /\ latch \subseteq Tasks
    /\ failureSet \subseteq Tasks
    /\ waiting \in [Queues -> Seq(Tasks)]
    /\ task \in [Queues -> Tasks \cup {NoTask}]
    /\ shard \in [Queues -> Nat]
    /\ running \in Seq(Handles)
    /\ current \in Handles \cup {NoHandle}
    /\ holder \subseteq Handles
    /\ syncing \in BOOLEAN
    /\ finished \in Tasks \cup {NoTask}
    /\ dumping \in Seq(Tasks)
    /\ todo \in [Tasks -> SUBSET (Handles \X Nodes)]
    /\ broken \subseteq Tasks
    /\ copies \subseteq Handles \X Nodes
    /\ dst \in [Handles -> Bytes]
    /\ stored \in [Keys -> Bytes]

\* Nothing makes a task fail while the device or the backend still works for
\* it: after a timeout, or when a copy of a shard cannot be started, buffers are
\* let go that the backend still reads into, or an earlier shard is copied to.
Calm == ~Timeouts /\ ~CopyFails

\* A buffer that is marked ready holds its block's bytes: no backend read that
\* fails, is still under way, or belongs to an evicted block makes a Get serve
\* other bytes.
ReadyBuffersHold == \A n \in Nodes : key[n] # NoKey /\ ready[n] => data[n] = key[n]

\* The same, as long as no Wait runs out and no copy fails (CacheEarlyReturn).
ReadyIsRight == Calm => ReadyBuffersHold

\* A load whose Wait returned OK put every shard's own bytes on the device.
LoadsDelivered ==
    \A t \in DOMAIN Work :
        Work[t].type = "load" /\ status[t] = "ok" =>
            \A i \in Shards(t) : dst[<<t, i>>] = Work[t].keys[i]

\* The same, as long as no Wait runs out and no copy fails.
LoadOkIsRight == Calm => LoadsDelivered

\* What is in the backend is right, as long as no Wait runs out and no copy
\* fails: a buffer on its way there keeps its bytes until the backend has taken
\* them.
StoredIsRight == Calm => \A k \in Keys : stored[k] \in {k, NoKey}

\* Nothing of a task is left when its Wait returned: no entry in the failure
\* set, that would fail a later check, and no element of a queue.
NothingLeft ==
    \A t \in Tasks :
        status[t] \in {"ok", "error", "timeout"} =>
            /\ t \notin failureSet
            /\ \A q \in Queues : task[q] # t
            /\ \A i \in DOMAIN running : running[i][1] # t
            /\ current[1] # t

\* A Wait that may run out returns, whatever fails and whoever waits for whom:
\* a shard that waits for another task's MarkReady, which may never come, gives
\* up once its own task is late.
WaitEnds ==
    \A t \in Tasks :
        Timeouts /\ status[t] = "waiting" ~> status[t] \in {"ok", "error", "timeout"}

\* What CacheStore::Lookup answers for a key: in the buffer, or in the backend.
Lookup(k) == Resident(k) \/ stored[k] # NoKey

\* A key Lookup reports has its bytes somewhere, or a task that gets them.
LookupIsTrue ==
    \A k \in Keys :
        Lookup(k) =>
            \/ stored[k] # NoKey
            \/ \E n \in Nodes : key[n] = k /\ (ready[n] \/ ref[n] > 0)

\* A dump whose Wait returned OK left each shard in the backend, in a ready
\* buffer, or on its way there.
DumpOkIsKept ==
    \A t \in DOMAIN Work :
        Work[t].type = "dump" /\ status[t] = "ok" =>
            \A i \in Shards(t) :
                \/ stored[Work[t].keys[i]] # NoKey
                \/ \E n \in Nodes : key[n] = Work[t].keys[i] /\ (ready[n] \/ ref[n] > 0)

\* When the Wait of a load returned, no copy to its device memory is left.
CopiesEndBeforeWait ==
    \A c \in copies : status[c[1][1]] \notin {"ok", "error", "timeout"}

=============================================================================
