--------------------------- MODULE PosixTransfer ---------------------------
(***************************************************************************)
(* The transfers of the POSIX store, ucm/store/posix/cc: a pool of workers *)
(* moves shards between memory and one file per block.  A dump writes its  *)
(* shards into the block's .tmp file and the worker of the block's last    *)
(* shard renames it.  The file system is external: paths name inodes, an   *)
(* open file stays the inode it was when its path is renamed or removed,   *)
(* and a read beyond what was written finds a hole's zeros or the end of   *)
(* the file.                                                               *)
(*                                                                         *)
(* content[i] is the set of shard indices written to inode i: blocks are   *)
(* content-addressed, so every dump of a block writes the same bytes.      *)
(***************************************************************************)
EXTENDS Integers, Sequences, FiniteSets, FiniteSetsExt

CONSTANTS
    Blocks, Workers,
    NShard,     \* nShardPerBlock_
    Work,       \* Work[t]: the type and the shards <<block, index>> of task t
    IoFails,    \* whether an open, a write, a read or a rename may fail
    Timeouts,   \* whether a Wait may run into timeout_ms
    MaxCrashes  \* bound on the number of crashes of the process

Tasks == DOMAIN Work

NoFile == 0

\* Two paths per block, and one open file per worker.
Inodes == 1 .. 2 * Cardinality(Blocks) + Cardinality(Workers)

NoIo == <<0, 0>>

ASSUME PosixAssumption ==
    /\ IsFiniteSet(Blocks) /\ IsFiniteSet(Workers)
    /\ {NShard, MaxCrashes} \subseteq Nat /\ NShard > 0
    /\ Tasks \subseteq Nat \ {0}
    /\ \A t \in Tasks :
        /\ Work[t].type \in {"load", "dump"}
        /\ Work[t].shards \in Seq(Blocks \X (0 .. NShard - 1)) \ {<<>>}
    /\ {IoFails, Timeouts} \subseteq BOOLEAN

VARIABLES
    queue,                      \* the pool's queue of IoUnits <<task, position>>
    pc, io, inode, good,        \* each worker: step, IoUnit, open file, s.Success()
    tmp, file, content,         \* the .tmp path, the path, the inodes
    status, latch, failureSet,  \* Wait's view, the Latch, failureSet_
    wrong,                      \* the loads that were given a hole's zeros
    crashes

workers == <<pc, io, inode, good>>
disk == <<tmp, file, content>>
clients == <<status, latch, failureSet>>
vars == <<queue, workers, disk, clients, wrong, crashes>>

TaskOf(w) == io[w][1]

BlockOf(w) == Work[io[w][1]].shards[io[w][2]][1]

IndexOf(w) == Work[io[w][1]].shards[io[w][2]][2]

IsDump(w) == Work[TaskOf(w)].type = "dump"

Init ==
    /\ queue = <<>>
    /\ pc = [w \in Workers |-> "idle"]
    /\ io = [w \in Workers |-> NoIo]
    /\ inode = [w \in Workers |-> NoFile]
    /\ good = [w \in Workers |-> TRUE]
    /\ tmp = [b \in Blocks |-> NoFile]
    /\ file = [b \in Blocks |-> NoFile]
    /\ content = [i \in Inodes |-> {}]
    /\ status = [t \in Tasks |-> "new"]
    /\ latch = [t \in Tasks |-> 0]
    /\ failureSet = {}
    /\ wrong = {}
    /\ crashes = 0

-----------------------------------------------------------------------------
(* The client.                                                             *)

\* Tasks are numbered in the order in which the client submits them.
Submit(t) ==
    /\ status[t] = "new"
    /\ \A u \in Tasks : u < t => status[u] # "new"
    /\ status' = [status EXCEPT ![t] = "waiting"]
    /\ latch' = [latch EXCEPT ![t] = Len(Work[t].shards)]
    /\ queue' = queue \o [j \in DOMAIN Work[t].shards |-> <<t, j>>]
    /\ UNCHANGED <<workers, disk, failureSet, wrong, crashes>>

WaitReturns(t) ==
    /\ status[t] = "waiting"
    /\ latch[t] = 0
    /\ status' = [status EXCEPT ![t] = IF t \in failureSet THEN "error" ELSE "ok"]
    /\ failureSet' = failureSet \ {t}
    /\ UNCHANGED <<queue, workers, disk, latch, wrong, crashes>>

TimeOut(t) ==
    /\ Timeouts
    /\ status[t] = "waiting"
    /\ latch[t] > 0
    /\ status' = [status EXCEPT ![t] = "late"]
    /\ failureSet' = failureSet \cup {t}
    /\ UNCHANGED <<queue, workers, disk, latch, wrong, crashes>>

LateReturns(t) ==
    /\ status[t] = "late"
    /\ latch[t] = 0
    /\ status' = [status EXCEPT ![t] = "timeout"]
    /\ failureSet' = failureSet \ {t}
    /\ UNCHANGED <<queue, workers, disk, latch, wrong, crashes>>

-----------------------------------------------------------------------------
(* A worker.                                                               *)

Goto(w, label) == pc' = [pc EXCEPT ![w] = label]

\* Latch::Done; a latch that is down stays down.
Down(t) == latch' = [latch EXCEPT ![t] = Max({@ - 1, 0})]

\* The worker's shard is over: its file is closed, its latch goes down.
Finish(w, success) ==
    /\ failureSet' = IF success THEN failureSet ELSE failureSet \cup {TaskOf(w)}
    /\ Down(TaskOf(w))
    /\ Goto(w, "idle")
    /\ io' = [io EXCEPT ![w] = NoIo]
    /\ inode' = [inode EXCEPT ![w] = NoFile]
    /\ good' = [good EXCEPT ![w] = TRUE]
    /\ UNCHANGED status

\* Mutant: a failed task's shards are moved all the same.
TakeUnchecked(w) ==
    /\ pc[w] = "idle"
    /\ queue # <<>>
    /\ queue' = Tail(queue)
    /\ io' = [io EXCEPT ![w] = Head(queue)]
    /\ Goto(w, "open")
    /\ UNCHANGED <<inode, good, disk, clients, wrong, crashes>>

\* Mutant: a skipped shard does not bring the latch down.
TakeSkipsSilently(w) ==
    LET t == Head(queue)[1] IN
    /\ pc[w] = "idle"
    /\ queue # <<>>
    /\ queue' = Tail(queue)
    /\ IF t \in failureSet
         THEN UNCHANGED <<io, pc>>
         ELSE io' = [io EXCEPT ![w] = Head(queue)] /\ Goto(w, "open")
    /\ UNCHANGED <<inode, good, disk, clients, wrong, crashes>>

\* The shards of a task that failed are skipped.
Take(w) ==
    LET t == Head(queue)[1] IN
    /\ pc[w] = "idle"
    /\ queue # <<>>
    /\ queue' = Tail(queue)
    /\ IF t \in failureSet
         THEN Down(t) /\ UNCHANGED <<io, pc>>
         ELSE io' = [io EXCEPT ![w] = Head(queue)] /\ Goto(w, "open") /\ UNCHANGED latch
    /\ UNCHANGED <<inode, good, disk, status, failureSet, wrong, crashes>>

\* What follows H2S: the block's last shard, written or not, commits.
Written(w, success) ==
    IF IndexOf(w) + 1 = NShard
      THEN /\ Goto(w, "commit")
           /\ good' = [good EXCEPT ![w] = success]
           /\ UNCHANGED <<io, inode, clients>>
      ELSE Finish(w, success)

OpenDump(w) ==
    LET b == BlockOf(w)
        free == Inodes \ ((UNION {{tmp[d], file[d]} : d \in Blocks}) \cup {inode[v] : v \in Workers}) IN
    /\ pc[w] = "open"
    /\ IsDump(w)
    /\ IF tmp[b] # NoFile
         THEN inode' = [inode EXCEPT ![w] = tmp[b]] /\ UNCHANGED <<tmp, content>>
         ELSE /\ inode' = [inode EXCEPT ![w] = Min(free)]
              /\ tmp' = [tmp EXCEPT ![b] = Min(free)]
              /\ content' = [content EXCEPT ![Min(free)] = {}]
    /\ Goto(w, "write")
    /\ UNCHANGED <<queue, io, good, file, clients, wrong, crashes>>

OpenDumpFails(w) ==
    /\ IoFails
    /\ pc[w] = "open"
    /\ IsDump(w)
    /\ Written(w, FALSE)
    /\ UNCHANGED <<queue, disk, wrong, crashes>>

Write(w) ==
    /\ pc[w] = "write"
    /\ \/ /\ content' = [content EXCEPT ![inode[w]] = @ \cup {IndexOf(w)}]
          /\ Written(w, TRUE)
       \/ /\ IoFails
          /\ Written(w, FALSE)
          /\ UNCHANGED content
    /\ UNCHANGED <<queue, tmp, file, wrong, crashes>>

\* CommitFile: rename, or remove after a failure.  The result of the rename
\* is not looked at.
Commit(w) ==
    LET b == BlockOf(w) IN
    /\ pc[w] = "commit"
    /\ tmp' = [tmp EXCEPT ![b] = NoFile]
    /\ \/ /\ good[w] /\ tmp[b] # NoFile
          /\ file' = [file EXCEPT ![b] = tmp[b]]
       \/ /\ ~good[w] \/ tmp[b] = NoFile \/ IoFails
          /\ UNCHANGED file
    /\ Finish(w, good[w])
    /\ UNCHANGED <<queue, content, wrong, crashes>>

OpenLoad(w) ==
    LET b == BlockOf(w) IN
    /\ pc[w] = "open"
    /\ ~IsDump(w)
    /\ \/ /\ file[b] # NoFile
          /\ inode' = [inode EXCEPT ![w] = file[b]]
          /\ Goto(w, "read")
          /\ UNCHANGED <<io, good, clients>>
       \/ /\ file[b] = NoFile \/ IoFails
          /\ Finish(w, FALSE)
    /\ UNCHANGED <<queue, disk, wrong, crashes>>

\* What a read finds: the shard, a hole's zeros before a later shard, or the
\* end of the file.
Found(w) ==
    LET here == content[inode[w]]
    IN IF IndexOf(w) \in here THEN "shard"
       ELSE IF \E i \in here : i > IndexOf(w) THEN "zeros" ELSE "end"

Read(w) ==
    /\ pc[w] = "read"
    /\ \/ /\ Found(w) # "end"
          /\ wrong' = IF Found(w) = "zeros" THEN wrong \cup {TaskOf(w)} ELSE wrong
          /\ Finish(w, TRUE)
       \/ /\ IoFails \/ Found(w) = "end"
          /\ Finish(w, FALSE)
          /\ UNCHANGED wrong
    /\ UNCHANGED <<queue, disk, crashes>>

-----------------------------------------------------------------------------
(* The process dies and is started again: only the files are left.         *)

Crash ==
    /\ crashes < MaxCrashes
    /\ crashes' = crashes + 1
    /\ queue' = <<>>
    /\ pc' = [w \in Workers |-> "idle"]
    /\ io' = [w \in Workers |-> NoIo]
    /\ inode' = [w \in Workers |-> NoFile]
    /\ good' = [w \in Workers |-> TRUE]
    /\ status' = [t \in Tasks |->
                    IF status[t] \in {"waiting", "late"} THEN "crashed" ELSE status[t]]
    /\ latch' = [t \in Tasks |-> 0]
    /\ failureSet' = {}
    /\ UNCHANGED <<disk, wrong>>

-----------------------------------------------------------------------------

Worker(w) ==
    \/ Take(w) \/ OpenDump(w) \/ OpenDumpFails(w) \/ Write(w) \/ Commit(w)
    \/ OpenLoad(w) \/ Read(w)

Client(t) == Submit(t) \/ WaitReturns(t) \/ TimeOut(t) \/ LateReturns(t)

Next == (\E w \in Workers : Worker(w)) \/ (\E t \in Tasks : Client(t)) \/ Crash

Spec == Init /\ [][Next]_vars

\* The workers run, and the client waits for its tasks.
FairSpec ==
    /\ Spec
    /\ \A w \in Workers : WF_vars(Worker(w))
    /\ \A t \in Tasks : WF_vars(WaitReturns(t) \/ LateReturns(t))

-----------------------------------------------------------------------------
(* Properties.                                                             *)

TypeOK ==
    /\ queue \in Seq(Tasks \X Nat)
    /\ pc \in [Workers -> {"idle", "open", "write", "commit", "read"}]
    /\ io \in [Workers -> (Tasks \X Nat) \cup {NoIo}]
    /\ inode \in [Workers -> Inodes \cup {NoFile}]
    /\ good \in [Workers -> BOOLEAN]
    /\ tmp \in [Blocks -> Inodes \cup {NoFile}]
    /\ file \in [Blocks -> Inodes \cup {NoFile}]
    /\ content \in [Inodes -> SUBSET (0 .. NShard - 1)]
    /\ status \in [Tasks -> {"new", "waiting", "late", "ok", "error", "timeout", "crashed"}]
    /\ latch \in [Tasks -> Nat]
    /\ failureSet \subseteq Tasks
    /\ wrong \subseteq Tasks
    /\ crashes \in 0 .. MaxCrashes

\* A load whose Wait returned OK got the bytes that were dumped, though other
\* tasks dump, rename and remove the same block's file meanwhile.
LoadOkIsRight == \A t \in Tasks : status[t] = "ok" => t \notin wrong

\* A block that Lookup finds has all its shards: no failure, timeout or crash
\* in the middle of a dump makes a part of a block visible.
VisibleIsWhole ==
    \A b \in Blocks : file[b] # NoFile => content[file[b]] = 0 .. NShard - 1

\* Every Wait returns, or the process died: each shard, moved, failed or
\* skipped, brings its latch down once.
WaitEnds ==
    \A t \in Tasks :
        status[t] = "waiting" ~> status[t] \in {"ok", "error", "timeout", "crashed"}

\* A dump of a block's last shard whose Wait returned OK left the block where
\* Lookup finds it.
DumpOkIsVisible ==
    \A t \in Tasks :
        status[t] = "ok" /\ Work[t].type = "dump" =>
            \A j \in DOMAIN Work[t].shards :
                Work[t].shards[j][2] = NShard - 1 => file[Work[t].shards[j][1]] # NoFile

=============================================================================
