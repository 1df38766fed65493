------------------------ MODULE PosixTransferProofs ------------------------
(***************************************************************************)
(* The transfers of PosixTransfer, for any blocks, tasks, number of shards *)
(* in a block, failures, timeouts and crashes.  TypeCorrect holds for any  *)
(* number of workers.  What a lookup or a load finds is right only if      *)
(* shards are moved one at a time (OneWorker) and a dump brings a block's  *)
(* shards together and in order (WholeDumps): without either a run shows   *)
(* or a short argument gives a counterexample (see the README).            *)
(*                                                                         *)
(* The inductive invariant Inv says what a worker has in hand (Busy), that *)
(* the queue keeps each task's order (Order) and holds the rest of a task  *)
(* without a gap (Lined), that the latch stays up while a shard is to come *)
(* (Latches), and that whoever is about to write a shard finds those       *)
(* before it in the .tmp file, or its task has failed (Prepared).  Latches *)
(* keeps Wait from clearing a failure while a shard of the task is left.   *)
(***************************************************************************)
EXTENDS PosixTransfer, FiniteSetTheorems, SequenceTheorems, WellFoundedInduction, TLAPS

\* The pool has one thread.
OneWorker == \A v, w \in Workers : v = w

\* In a dump a shard that is not a block's first follows the shard before it.
WholeDumps ==
    \A t \in Tasks : Work[t].type = "dump" =>
        \A j \in DOMAIN Work[t].shards :
            Work[t].shards[j][2] > 0 =>
                j > 1 /\ Work[t].shards[j - 1] = <<Work[t].shards[j][1], Work[t].shards[j][2] - 1>>

\* What the pool's queue and its workers hold.
Units == {u \in Tasks \X Nat : u[2] \in DOMAIN Work[u[1]].shards}

Block(u) == Work[u[1]].shards[u[2]][1]
Index(u) == Work[u[1]].shards[u[2]][2]

\* A file with all its shards.
Whole == 0 .. NShard - 1

\* The .tmp file has the shards before u's.
Ready(u) ==
    Index(u) > 0 => tmp[Block(u)] # NoFile /\ 0 .. Index(u) - 1 \subseteq content[tmp[Block(u)]]

\* TypeOK, with IoUnits that are shards of their tasks.
Types ==
    /\ queue \in Seq(Units)
    /\ pc \in [Workers -> {"idle", "open", "write", "commit", "read"}]
    /\ io \in [Workers -> Units \cup {NoIo}]
    /\ inode \in [Workers -> Inodes \cup {NoFile}]
    /\ good \in [Workers -> BOOLEAN]
    /\ tmp \in [Blocks -> Inodes \cup {NoFile}]
    /\ file \in [Blocks -> Inodes \cup {NoFile}]
    /\ content \in [Inodes -> SUBSET Whole]
    /\ status \in [Tasks -> {"new", "waiting", "late", "ok", "error", "timeout", "crashed"}]
    /\ latch \in [Tasks -> Nat]
    /\ failureSet \subseteq Tasks
    /\ wrong \subseteq Tasks
    /\ crashes \in 0 .. MaxCrashes

\* What a worker has in hand at each step.
Busy ==
    \A w \in Workers :
        /\ pc[w] = "idle" => io[w] = NoIo
        /\ pc[w] # "idle" => io[w] \in Units
        /\ pc[w] \in {"idle", "open"} => inode[w] = NoFile
        /\ pc[w] \in {"write", "commit"} => IsDump(w)
        /\ pc[w] = "read" => ~IsDump(w)

\* A task's shards are moved in the order in which they were submitted.
Order ==
    /\ \A k, l \in 1 .. Len(queue) :
        k < l /\ queue[k][1] = queue[l][1] => queue[k][2] < queue[l][2]
    /\ \A w \in Workers, k \in 1 .. Len(queue) :
        pc[w] # "idle" /\ io[w][1] = queue[k][1] => io[w][2] < queue[k][2]

\* The rest of a task is in the queue without a gap, behind the shard that is
\* being moved.
Lined ==
    /\ \A k \in 2 .. Len(queue) :
        queue[k][2] > 1 => queue[k - 1] = <<queue[k][1], queue[k][2] - 1>>
    /\ queue # <<>> /\ queue[1][2] > 1 =>
        \A w \in Workers : pc[w] # "idle" => io[w] = <<queue[1][1], queue[1][2] - 1>>

\* A shard that is to come has not been counted down.
Owed(u) == status[u[1]] # "new" /\ latch[u[1]] > Len(Work[u[1]].shards) - u[2]

Latches ==
    /\ \A k \in 1 .. Len(queue) : Owed(queue[k])
    /\ \A w \in Workers : pc[w] # "idle" => Owed(io[w])

\* Who is about to write a shard, or has just taken the queue's head to do so,
\* finds the shards before it; what is committed or read is whole.
Prepared ==
    /\ queue # <<>> /\ Work[queue[1][1]].type = "dump" /\ (\A w \in Workers : pc[w] = "idle") =>
        queue[1][1] \in failureSet \/ Ready(queue[1])
    /\ \A w \in Workers :
        /\ pc[w] \in {"open", "write"} /\ IsDump(w) => Ready(io[w])
        /\ pc[w] = "write" => inode[w] # NoFile /\ inode[w] = tmp[BlockOf(w)]
        /\ pc[w] = "commit" => IndexOf(w) + 1 = NShard
        /\ pc[w] = "commit" /\ good[w] => tmp[BlockOf(w)] # NoFile /\ content[tmp[BlockOf(w)]] = Whole
        /\ pc[w] = "read" => inode[w] # NoFile /\ content[inode[w]] = Whole

\* LoadOkIsRight holds since no load is ever given a hole's zeros.
Right == VisibleIsWhole /\ wrong = {}

Inv == Types /\ Busy /\ Order /\ Lined /\ Latches /\ Prepared /\ Right

-----------------------------------------------------------------------------
\* Numbers, inodes and what the actions do.

\* A nonempty set of natural numbers has a least element.
LEMMA NatLeast ==
    ASSUME NEW T \in SUBSET Nat, T # {}
    PROVE  \E x \in T : \A y \in T : x <= y
<1>1. \A R, S, U : IsWellFoundedOn(R, S) /\ U \subseteq S /\ U # {} => \E x \in U : \A y \in U : ~ (<<y, x>> \in R)
  BY WFMin, Zenon
<1>2. \E x \in T : \A y \in T : ~ (<<y, x>> \in OpToRel(<, Nat))
  <2>1. T \subseteq Nat
    OBVIOUS
  <2> QED
    BY <1>1, <2>1, NatLessThanWellFounded, Zenon
<1>3. PICK x \in T : \A y \in T : ~ (<<y, x>> \in OpToRel(<, Nat))
  BY <1>2, Zenon
<1>4. \A y \in T : ~ (y < x)
  <2>1. \A z, y \in Nat : y < z => <<y, z>> \in OpToRel(<, Nat)
    BY DEF OpToRel
  <2>2. \A y \in T : y \in Nat
    OBVIOUS
  <2> QED
    BY <1>3, <2>1, <2>2, Zenon
<1> QED
  BY <1>4

\* Latch::Done takes one off, and nothing off zero.
LEMMA MaxDown ==
    ASSUME NEW a \in Nat
    PROVE  Max({a - 1, 0}) = IF a = 0 THEN 0 ELSE a - 1
<1> DEFINE m == IF a = 0 THEN 0 ELSE a - 1
<1>1. m \in {a - 1, 0} /\ \A y \in {a - 1, 0} : m >= y
  OBVIOUS
<1>2. \A x \in {a - 1, 0} : (\A y \in {a - 1, 0} : x >= y) => x = m
  OBVIOUS
<1> QED
  BY <1>1, <1>2 DEF Max

\* The latch after Done.
LEMMA Downs ==
    ASSUME latch \in [Tasks -> Nat], NEW t \in Tasks, Down(t)
    PROVE  /\ latch' \in [Tasks -> Nat]
           /\ latch' = [latch EXCEPT ![t] = IF latch[t] = 0 THEN 0 ELSE latch[t] - 1]
<1>1. Max({latch[t] - 1, 0}) = IF latch[t] = 0 THEN 0 ELSE latch[t] - 1
  BY MaxDown
<1>2. latch' = [latch EXCEPT ![t] = IF latch[t] = 0 THEN 0 ELSE latch[t] - 1]
  BY <1>1 DEF Down
<1> QED
  BY <1>2

\* The inodes that no path and no open file uses.
Free == Inodes \ ((UNION {{tmp[d], file[d]} : d \in Blocks}) \cup {inode[v] : v \in Workers})

\* A function has at most as many values as arguments.
LEMMA ImageSize ==
    ASSUME NEW S, IsFiniteSet(S), NEW f, DOMAIN f = S
    PROVE  /\ IsFiniteSet({f[x] : x \in S})
           /\ Cardinality({f[x] : x \in S}) <= Cardinality(S)
<1> DEFINE g == [x \in S |-> f[x]]
<1>1. g \in Surjection(S, {f[x] : x \in S})
  BY DEF Surjection
<1> QED
  BY <1>1, FS_Surjection

\* OpenDump finds an inode that no path and no open file uses: two paths per
\* block and the other workers' files leave one.
LEMMA FreeInode ==
    ASSUME tmp \in [Blocks -> Inodes \cup {NoFile}], file \in [Blocks -> Inodes \cup {NoFile}],
           inode \in [Workers -> Inodes \cup {NoFile}], NEW w \in Workers, inode[w] = NoFile
    PROVE  Min(Free) \in Free
<1> DEFINE B == Cardinality(Blocks)
           W == Cardinality(Workers)
           T == {tmp[d] : d \in Blocks}
           F == {file[d] : d \in Blocks}
           others == Workers \ {w}
           other == [v \in others |-> inode[v]]
           V == {other[v] : v \in others}
           P == UNION {{tmp[d], file[d]} : d \in Blocks}
           O == {inode[v] : v \in Workers}
<1>1. B \in Nat /\ W \in Nat /\ IsFiniteSet(Blocks) /\ IsFiniteSet(Workers)
  BY PosixAssumption, FS_CardinalityType
<1>2. IsFiniteSet(others) /\ Cardinality(others) = W - 1
  BY <1>1, FS_RemoveElement
<1>3. IsFiniteSet(T) /\ Cardinality(T) <= B
  BY <1>1, ImageSize
<1>4. IsFiniteSet(F) /\ Cardinality(F) <= B
  BY <1>1, ImageSize
<1>5. IsFiniteSet(V) /\ Cardinality(V) <= W - 1
  <2>1. DOMAIN other = others
    OBVIOUS
  <2> HIDE DEF other, others
  <2> QED
    BY <1>2, <2>1, ImageSize
<1>6. IsFiniteSet(Inodes) /\ Cardinality(Inodes) = 2 * B + W /\ Inodes \subseteq Nat /\ NoFile \notin Inodes
  <2>1. Inodes = 1 .. 2 * B + W
    BY DEF Inodes
  <2> HIDE DEF B, W
  <2>2. 2 * B + W \in Int /\ 2 * B + W >= 0
    BY <1>1
  <2> QED
    BY <2>1, <2>2, FS_Interval DEF NoFile
<1>7. (P \cup O) \ {NoFile} \subseteq (T \cup F) \cup V
  <2>1. \A d \in Blocks : tmp[d] \in T /\ file[d] \in F
    OBVIOUS
  <2>2. \A v \in Workers : inode[v] = NoFile \/ inode[v] \in V
    <3> SUFFICES ASSUME NEW v \in Workers, v # w PROVE inode[v] \in V
      OBVIOUS
    <3>1. v \in others /\ other[v] = inode[v]
      OBVIOUS
    <3> QED
      BY <3>1
  <2> HIDE DEF T, F, V
  <2>3. ASSUME NEW x \in P PROVE x \in T \cup F
    <3>1. PICK d \in Blocks : x \in {tmp[d], file[d]}
      BY <2>3
    <3> QED
      BY <2>1, <3>1
  <2>4. ASSUME NEW x \in O, x # NoFile PROVE x \in V
    <3>1. PICK v \in Workers : x = inode[v]
      BY <2>4
    <3> QED
      BY <2>2, <2>4, <3>1
  <2> HIDE DEF P, O
  <2> QED
    BY <2>3, <2>4
<1>12. Free = Inodes \ (P \cup O)
  BY Zenon DEF Free
<1> HIDE DEF T, F, V, B, W, P, O
<1>8. /\ IsFiniteSet((T \cup F) \cup V)
      /\ Cardinality((T \cup F) \cup V) <= 2 * B + W - 1
  <2>1. IsFiniteSet(T \cup F) /\ Cardinality(T \cup F) = Cardinality(T) + Cardinality(F) - Cardinality(T \cap F)
    BY <1>3, <1>4, FS_Union
  <2>2. IsFiniteSet((T \cup F) \cup V)
        /\ Cardinality((T \cup F) \cup V) = Cardinality(T \cup F) + Cardinality(V) - Cardinality((T \cup F) \cap V)
    BY <1>5, <2>1, FS_Union
  <2>3. IsFiniteSet(T \cap F) /\ IsFiniteSet((T \cup F) \cap V)
    BY <1>3, <1>5, FS_Intersection
  <2>4. /\ Cardinality(T \cap F) \in Nat /\ Cardinality((T \cup F) \cap V) \in Nat
        /\ Cardinality(T) \in Nat /\ Cardinality(F) \in Nat /\ Cardinality(V) \in Nat
        /\ Cardinality(T \cup F) \in Nat /\ Cardinality((T \cup F) \cup V) \in Nat
    BY <1>3, <1>4, <1>5, <2>1, <2>2, <2>3, FS_CardinalityType
  <2> QED
    BY <1>1, <1>3, <1>4, <1>5, <2>1, <2>2, <2>4
<1>9. Free # {}
  <2> SUFFICES ASSUME Free = {} PROVE FALSE
    OBVIOUS
  <2>1. Inodes \in SUBSET ((T \cup F) \cup V)
    BY <1>6, <1>7, <1>12
  <2>2. Cardinality(Inodes) <= Cardinality((T \cup F) \cup V)
    BY <1>8, <2>1, FS_Subset
  <2>3. Cardinality((T \cup F) \cup V) \in Nat
    BY <1>8, FS_CardinalityType
  <2> QED
    BY <1>1, <1>6, <1>8, <2>2, <2>3
<1>10. Free \in SUBSET Nat
  BY <1>6, <1>12
<1>11. \E x \in Free : \A y \in Free : x <= y
  BY <1>9, <1>10, NatLeast
<1> QED
  BY <1>11, Zenon DEF Min

\* An IoUnit is a shard of a task.
LEMMA UnitFacts ==
    ASSUME NEW u \in Units
    PROVE  /\ u[1] \in Tasks /\ u[2] \in 1 .. Len(Work[u[1]].shards) /\ u = <<u[1], u[2]>>
           /\ Len(Work[u[1]].shards) \in Nat
           /\ Block(u) \in Blocks /\ Index(u) \in 0 .. NShard - 1
           /\ u # NoIo
<1>1. u[1] \in Tasks /\ u[2] \in DOMAIN Work[u[1]].shards /\ u = <<u[1], u[2]>>
  BY DEF Units
<1>2. Work[u[1]].shards \in Seq(Blocks \X (0 .. NShard - 1))
  BY <1>1, PosixAssumption
<1>3. u[2] \in 1 .. Len(Work[u[1]].shards) /\ Len(Work[u[1]].shards) \in Nat
  BY <1>1, <1>2
<1>4. Work[u[1]].shards[u[2]] \in Blocks \X (0 .. NShard - 1)
  BY <1>2, <1>3
<1>5. u # NoIo
  BY <1>1, PosixAssumption DEF NoIo
<1> QED
  BY <1>1, <1>3, <1>4, <1>5 DEF Block, Index

\* The queue holds IoUnits.
LEMMA QueueUnits ==
    ASSUME Types
    PROVE  Len(queue) \in Nat /\ \A k \in 1 .. Len(queue) : queue[k] \in Units
BY DEF Types

\* Submit appends the task's shards in order.
LEMMA SubmitFacts ==
    ASSUME Types, NEW t \in Tasks, Submit(t)
    PROVE  /\ queue' \in Seq(Units)
           /\ Len(Work[t].shards) \in Nat /\ Len(Work[t].shards) > 0
           /\ Len(queue') = Len(queue) + Len(Work[t].shards)
           /\ \A k \in 1 .. Len(queue) : queue'[k] = queue[k]
           /\ \A k \in 1 .. Len(queue') : k > Len(queue) => queue'[k] = <<t, k - Len(queue)>>
<1> DEFINE s == Work[t].shards
           new == [j \in DOMAIN s |-> <<t, j>>]
<1>1. s \in Seq(Blocks \X (0 .. NShard - 1)) \ {<<>>} /\ t \in Nat
  BY PosixAssumption
<1>2. DOMAIN s = 1 .. Len(s) /\ Len(s) \in Nat /\ Len(s) > 0
  BY <1>1
<1>3. new \in Seq(Units) /\ Len(new) = Len(s) /\ \A j \in 1 .. Len(s) : new[j] = <<t, j>>
  <2>1. \A j \in DOMAIN s : <<t, j>> \in Units
    BY <1>2 DEF Units
  <2> QED
    BY <1>2, <2>1
<1>4. queue' = queue \o new /\ queue \in Seq(Units)
  BY DEF Submit, Types
<1> HIDE DEF new, s
<1>5. /\ queue \o new \in Seq(Units)
      /\ Len(queue \o new) = Len(queue) + Len(new)
      /\ \A k \in 1 .. Len(queue) + Len(new) :
            (queue \o new)[k] = IF k <= Len(queue) THEN queue[k] ELSE new[k - Len(queue)]
  BY <1>3, <1>4, ConcatProperties
<1>6. Len(queue) \in Nat
  BY <1>4
<1>7. queue' \in Seq(Units) /\ Len(queue') = Len(queue) + Len(s)
  BY <1>3, <1>4, <1>5
<1>8. \A k \in 1 .. Len(queue) : queue'[k] = queue[k]
  BY <1>2, <1>3, <1>4, <1>5, <1>6
<1>9. ASSUME NEW k \in 1 .. Len(queue'), k > Len(queue) PROVE queue'[k] = <<t, k - Len(queue)>>
  <2>1. k - Len(queue) \in 1 .. Len(s) /\ k \in 1 .. Len(queue) + Len(new) /\ ~(k <= Len(queue))
    BY <1>2, <1>3, <1>6, <1>7, <1>9
  <2> QED
    BY <1>3, <1>4, <1>5, <2>1
<1> QED
  BY <1>2, <1>7, <1>8, <1>9 DEF s

\* Take removes the queue's head, which the worker moves or skips.
LEMMA TakeFacts ==
    ASSUME Types, NEW w \in Workers, Take(w)
    PROVE  /\ queue # <<>> /\ Len(queue) > 0 /\ queue[1] \in Units
           /\ queue' \in Seq(Units) /\ Len(queue') = Len(queue) - 1
           /\ \A k \in 1 .. Len(queue') : queue'[k] = queue[k + 1]
           /\ pc[w] = "idle"
           /\ IF queue[1][1] \in failureSet
                THEN /\ latch' = [latch EXCEPT ![queue[1][1]] = IF @ = 0 THEN 0 ELSE @ - 1]
                     /\ UNCHANGED <<io, pc>>
                ELSE /\ io' = [io EXCEPT ![w] = queue[1]] /\ pc' = [pc EXCEPT ![w] = "open"]
                     /\ UNCHANGED latch
<1>1. queue \in Seq(Units) /\ queue # <<>> /\ queue' = Tail(queue) /\ pc[w] = "idle"
  BY DEF Types, Take
<1>2. /\ queue[1] \in Units /\ Head(queue) = queue[1] /\ Len(queue) > 0
      /\ queue' \in Seq(Units) /\ Len(queue') = Len(queue) - 1
      /\ \A k \in 1 .. Len(queue') : queue'[k] = queue[k + 1]
  BY <1>1
<1>3. queue[1][1] \in Tasks
  BY <1>2, UnitFacts
<1>4. CASE queue[1][1] \in failureSet
  <2>1. Down(queue[1][1]) /\ UNCHANGED <<io, pc>>
    BY <1>2, <1>4 DEF Take
  <2> QED
    BY <1>1, <1>2, <1>3, <1>4, <2>1, Downs DEF Types
<1>5. CASE queue[1][1] \notin failureSet
  BY <1>1, <1>2, <1>5 DEF Take, Goto
<1> QED
  BY <1>4, <1>5

\* The end of a shard: its latch goes down, a failure is remembered.
LEMMA FinishFacts ==
    ASSUME Types, NEW w \in Workers, io[w] \in Units, NEW success, Finish(w, success)
    PROVE  /\ io[w][1] \in Tasks
           /\ latch' = [latch EXCEPT ![io[w][1]] = IF @ = 0 THEN 0 ELSE @ - 1]
           /\ failureSet' = IF success THEN failureSet ELSE failureSet \cup {io[w][1]}
           /\ pc' = [pc EXCEPT ![w] = "idle"] /\ io' = [io EXCEPT ![w] = NoIo]
           /\ inode' = [inode EXCEPT ![w] = NoFile] /\ good' = [good EXCEPT ![w] = TRUE]
           /\ status' = status
<1>1. io[w][1] \in Tasks
  BY UnitFacts
<1> QED
  BY <1>1, Downs DEF Finish, TaskOf, Goto, Types

-----------------------------------------------------------------------------
\* Types and what the workers hold.

\* What the workers and the client's view are made of.
Moving ==
    /\ pc \in [Workers -> {"idle", "open", "write", "commit", "read"}]
    /\ io \in [Workers -> Units \cup {NoIo}]
    /\ inode \in [Workers -> Inodes \cup {NoFile}]
    /\ good \in [Workers -> BOOLEAN]
    /\ status \in [Tasks -> {"new", "waiting", "late", "ok", "error", "timeout", "crashed"}]
    /\ latch \in [Tasks -> Nat]
    /\ failureSet \subseteq Tasks

\* The end of a shard keeps the types and leaves the other workers alone.
LEMMA FinishMoving ==
    ASSUME Types, NEW w \in Workers, io[w] \in Units, NEW success, Finish(w, success)
    PROVE  Moving' /\ pc'[w] = "idle" /\ io'[w] = NoIo /\ inode'[w] = NoFile
           /\ \A v \in Workers : v # w => pc'[v] = pc[v] /\ io'[v] = io[v] /\ inode'[v] = inode[v]
<1>1. /\ io[w][1] \in Tasks
      /\ latch' = [latch EXCEPT ![io[w][1]] = IF @ = 0 THEN 0 ELSE @ - 1]
      /\ failureSet' = IF success THEN failureSet ELSE failureSet \cup {io[w][1]}
      /\ pc' = [pc EXCEPT ![w] = "idle"] /\ io' = [io EXCEPT ![w] = NoIo]
      /\ inode' = [inode EXCEPT ![w] = NoFile] /\ good' = [good EXCEPT ![w] = TRUE]
      /\ status' = status
  BY FinishFacts
<1>2. latch' \in [Tasks -> Nat]
  BY <1>1 DEF Types
<1>3. failureSet' \subseteq Tasks /\ io' \in [Workers -> Units \cup {NoIo}]
  BY <1>1 DEF Types
<1>4. /\ pc' \in [Workers -> {"idle", "open", "write", "commit", "read"}]
      /\ inode' \in [Workers -> Inodes \cup {NoFile}] /\ good' \in [Workers -> BOOLEAN]
  BY <1>1 DEF Types
<1> QED
  BY <1>1, <1>2, <1>3, <1>4 DEF Types, Moving

\* After the bytes a block's last shard goes on to the commit.
LEMMA WrittenFacts ==
    ASSUME Types, NEW w \in Workers, io[w] \in Units, NEW success \in BOOLEAN, Written(w, success)
    PROVE  \/ /\ Index(io[w]) + 1 = NShard
              /\ pc' = [pc EXCEPT ![w] = "commit"] /\ good' = [good EXCEPT ![w] = success]
              /\ UNCHANGED <<io, inode, status, latch, failureSet>>
           \/ Index(io[w]) + 1 # NShard /\ Finish(w, success)
BY DEF Written, IndexOf, Index, Goto, clients

\* What follows the bytes keeps the types and leaves the other workers alone.
LEMMA WrittenMoving ==
    ASSUME Types, NEW w \in Workers, io[w] \in Units, NEW success \in BOOLEAN, Written(w, success)
    PROVE  /\ Moving'
           /\ \/ pc'[w] = "idle" /\ io'[w] = NoIo /\ inode'[w] = NoFile
              \/ pc'[w] = "commit" /\ io'[w] = io[w] /\ inode'[w] = inode[w]
           /\ \A v \in Workers : v # w => pc'[v] = pc[v] /\ io'[v] = io[v] /\ inode'[v] = inode[v]
<1>1. CASE Index(io[w]) + 1 # NShard /\ Finish(w, success)
  BY <1>1, FinishMoving
<1>2. CASE /\ pc' = [pc EXCEPT ![w] = "commit"] /\ good' = [good EXCEPT ![w] = success]
           /\ UNCHANGED <<io, inode, status, latch, failureSet>>
  BY <1>2 DEF Types, Moving
<1> QED
  BY <1>1, <1>2, WrittenFacts

\* Every step keeps the types.
LEMMA TypesStep ==
    ASSUME Types, Busy, Next
    PROVE  Types'
<1>1. ASSUME NEW t \in Tasks, Submit(t) PROVE Types'
  BY <1>1, SubmitFacts DEF Types, Submit, workers, disk
<1>2. ASSUME NEW t \in Tasks, WaitReturns(t) PROVE Types'
  BY <1>2 DEF Types, WaitReturns, workers, disk
<1>3. ASSUME NEW t \in Tasks, TimeOut(t) PROVE Types'
  BY <1>3 DEF Types, TimeOut, workers, disk
<1>4. ASSUME NEW t \in Tasks, LateReturns(t) PROVE Types'
  BY <1>4 DEF Types, LateReturns, workers, disk
<1>5. ASSUME NEW w \in Workers, Take(w) PROVE Types'
  <2>1. /\ queue[1] \in Units /\ queue' \in Seq(Units)
        /\ UNCHANGED <<inode, good, tmp, file, content, status, failureSet, wrong, crashes>>
    BY <1>5, TakeFacts DEF Take, disk
  <2>2. CASE queue[1][1] \in failureSet
    <3>1. latch' \in [Tasks -> Nat] /\ UNCHANGED <<io, pc>>
      BY <1>5, <2>1, <2>2, TakeFacts, UnitFacts DEF Types
    <3> QED
      BY <2>1, <3>1 DEF Types
  <2>3. CASE queue[1][1] \notin failureSet
    <3>1. io' = [io EXCEPT ![w] = queue[1]] /\ pc' = [pc EXCEPT ![w] = "open"] /\ UNCHANGED latch
      BY <1>5, <2>3, TakeFacts
    <3> QED
      BY <2>1, <3>1 DEF Types
  <2> QED
    BY <2>2, <2>3
<1>6. ASSUME NEW w \in Workers, OpenDump(w) PROVE Types'
  <2>1. io[w] \in Units /\ pc[w] # "idle" /\ BlockOf(w) \in Blocks
    BY <1>6, UnitFacts DEF Busy, OpenDump, BlockOf, Block
  <2>2. Min(Free) \in Inodes
    BY <1>6, FreeInode DEF Types, Busy, OpenDump, Free
  <2> QED
    BY <1>6, <2>1, <2>2 DEF Types, OpenDump, Free, Goto, clients
<1>7. ASSUME NEW w \in Workers, OpenDumpFails(w) PROVE Types'
  <2>1. io[w] \in Units /\ pc[w] # "idle" /\ BlockOf(w) \in Blocks
    BY <1>7, UnitFacts DEF Busy, OpenDumpFails, BlockOf, Block
  <2> QED
    BY <1>7, <2>1, WrittenMoving DEF Types, OpenDumpFails, Moving, disk
<1>8. ASSUME NEW w \in Workers, Write(w) PROVE Types'
  <2>1. io[w] \in Units /\ pc[w] # "idle" /\ BlockOf(w) \in Blocks
    BY <1>8, UnitFacts DEF Busy, Write, BlockOf, Block
  <2>2. Moving'
    BY <1>8, <2>1, WrittenMoving DEF Write
  <2>3. content' \in [Inodes -> SUBSET Whole]
    <3>1. IndexOf(w) \in Whole
      BY <2>1, UnitFacts DEF Whole, IndexOf, Index
    <3>2. content' = content \/ content' = [content EXCEPT ![inode[w]] = content[inode[w]] \cup {IndexOf(w)}]
      BY <1>8, Zenon DEF Write
    <3>3. inode[w] \in Inodes => content[inode[w]] \cup {IndexOf(w)} \in SUBSET Whole
      BY <3>1 DEF Types
    <3> QED
      BY <3>2, <3>3 DEF Types
  <2> QED
    BY <1>8, <2>2, <2>3 DEF Types, Write, Moving
<1>9. ASSUME NEW w \in Workers, Commit(w) PROVE Types'
  <2>1. io[w] \in Units /\ pc[w] # "idle" /\ BlockOf(w) \in Blocks
    BY <1>9, UnitFacts DEF Busy, Commit, BlockOf, Block
  <2> QED
    BY <1>9, <2>1, FinishMoving DEF Types, Commit, Moving
<1>10. ASSUME NEW w \in Workers, OpenLoad(w) PROVE Types'
  <2>1. io[w] \in Units /\ pc[w] # "idle" /\ BlockOf(w) \in Blocks
    BY <1>10, UnitFacts DEF Busy, OpenLoad, BlockOf, Block
  <2>2. Moving'
    BY <1>10, <2>1, FinishMoving DEF Types, OpenLoad, Moving, Goto, clients
  <2> QED
    BY <1>10, <2>2 DEF Types, OpenLoad, Moving, disk
<1>11. ASSUME NEW w \in Workers, Read(w) PROVE Types'
  <2>1. io[w] \in Units /\ pc[w] # "idle" /\ BlockOf(w) \in Blocks
    BY <1>11, UnitFacts DEF Busy, Read, BlockOf, Block
  <2>2. Moving'
    BY <1>11, <2>1, FinishMoving DEF Read
  <2>3. wrong' \subseteq Tasks
    BY <1>11, <2>1, UnitFacts DEF Types, Read, TaskOf
  <2> QED
    BY <1>11, <2>2, <2>3 DEF Types, Read, Moving, disk
<1>12. ASSUME Crash PROVE Types'
  <2>1. status' \in [Tasks -> {"new", "waiting", "late", "ok", "error", "timeout", "crashed"}]
    BY <1>12 DEF Types, Crash
  <2>2. crashes' \in 0 .. MaxCrashes /\ queue' \in Seq(Units)
    BY <1>12, PosixAssumption DEF Types, Crash
  <2> QED
    BY <1>12, <2>1, <2>2 DEF Types, Crash, disk
<1> QED
  BY <1>1, <1>2, <1>3, <1>4, <1>5, <1>6, <1>7, <1>8, <1>9, <1>10, <1>11, <1>12 DEF Next, Worker, Client

\* Every step leaves each worker with what belongs to its place in the code.
LEMMA BusyStep ==
    ASSUME Types, Types', Busy, Next
    PROVE  Busy'
<1> USE PosixAssumption
<1>1. ASSUME NEW t \in Tasks, Submit(t) PROVE Busy'
  BY <1>1 DEF Types, Busy, IsDump, TaskOf, workers, Submit
<1>2. ASSUME NEW t \in Tasks, WaitReturns(t) PROVE Busy'
  BY <1>2 DEF Types, Busy, IsDump, TaskOf, workers, WaitReturns
<1>3. ASSUME NEW t \in Tasks, TimeOut(t) PROVE Busy'
  BY <1>3 DEF Types, Busy, IsDump, TaskOf, workers, TimeOut
<1>4. ASSUME NEW t \in Tasks, LateReturns(t) PROVE Busy'
  BY <1>4 DEF Types, Busy, IsDump, TaskOf, workers, LateReturns
<1>5. ASSUME NEW w \in Workers, Take(w) PROVE Busy'
  <2>1. /\ queue[1] \in Units /\ UNCHANGED inode
        /\ \/ UNCHANGED <<io, pc>>
           \/ io' = [io EXCEPT ![w] = queue[1]] /\ pc' = [pc EXCEPT ![w] = "open"]
        /\ pc[w] = "idle"
    BY <1>5, TakeFacts DEF Take
  <2> QED
    BY <2>1 DEF Types, Busy, IsDump, TaskOf
<1>6. ASSUME NEW w \in Workers, OpenDump(w) PROVE Busy'
  BY <1>6 DEF Types, Busy, IsDump, TaskOf, OpenDump, Goto
<1>7. ASSUME NEW w \in Workers, OpenDumpFails(w) PROVE Busy'
  <2>1. io[w] \in Units
    BY <1>7 DEF Busy, OpenDumpFails
  <2>2. /\ \/ pc'[w] = "idle" /\ io'[w] = NoIo /\ inode'[w] = NoFile
           \/ pc'[w] = "read" /\ io'[w] = io[w] /\ ~IsDump(w)
           \/ pc'[w] = "commit" /\ io'[w] = io[w] /\ IsDump(w)
        /\ \A v \in Workers : v # w => pc'[v] = pc[v] /\ io'[v] = io[v] /\ inode'[v] = inode[v]
    BY <1>7, <2>1, WrittenMoving DEF Types, Busy, OpenDumpFails
  <2> QED
    BY <2>1, <2>2 DEF Types, Busy, IsDump, TaskOf
<1>8. ASSUME NEW w \in Workers, Write(w) PROVE Busy'
  <2>1. io[w] \in Units
    BY <1>8 DEF Busy, Write
  <2>2. /\ \/ pc'[w] = "idle" /\ io'[w] = NoIo /\ inode'[w] = NoFile
           \/ pc'[w] = "read" /\ io'[w] = io[w] /\ ~IsDump(w)
           \/ pc'[w] = "commit" /\ io'[w] = io[w] /\ IsDump(w)
        /\ \A v \in Workers : v # w => pc'[v] = pc[v] /\ io'[v] = io[v] /\ inode'[v] = inode[v]
    BY <1>8, <2>1, WrittenMoving DEF Types, Busy, Write
  <2> QED
    BY <2>1, <2>2 DEF Types, Busy, IsDump, TaskOf
<1>9. ASSUME NEW w \in Workers, Commit(w) PROVE Busy'
  <2>1. io[w] \in Units
    BY <1>9 DEF Busy, Commit
  <2>2. /\ \/ pc'[w] = "idle" /\ io'[w] = NoIo /\ inode'[w] = NoFile
           \/ pc'[w] = "read" /\ io'[w] = io[w] /\ ~IsDump(w)
           \/ pc'[w] = "commit" /\ io'[w] = io[w] /\ IsDump(w)
        /\ \A v \in Workers : v # w => pc'[v] = pc[v] /\ io'[v] = io[v] /\ inode'[v] = inode[v]
    BY <1>9, <2>1, FinishMoving DEF Types, Busy, Commit
  <2> QED
    BY <2>1, <2>2 DEF Types, Busy, IsDump, TaskOf
<1>10. ASSUME NEW w \in Workers, OpenLoad(w) PROVE Busy'
  <2>1. io[w] \in Units
    BY <1>10 DEF Busy, OpenLoad
  <2>2. /\ \/ pc'[w] = "idle" /\ io'[w] = NoIo /\ inode'[w] = NoFile
           \/ pc'[w] = "read" /\ io'[w] = io[w] /\ ~IsDump(w)
           \/ pc'[w] = "commit" /\ io'[w] = io[w] /\ IsDump(w)
        /\ \A v \in Workers : v # w => pc'[v] = pc[v] /\ io'[v] = io[v] /\ inode'[v] = inode[v]
    BY <1>10, <2>1, FinishMoving DEF Types, Busy, OpenLoad, Goto, clients
  <2> QED
    BY <2>1, <2>2 DEF Types, Busy, IsDump, TaskOf
<1>11. ASSUME NEW w \in Workers, Read(w) PROVE Busy'
  <2>1. io[w] \in Units
    BY <1>11 DEF Busy, Read
  <2>2. /\ \/ pc'[w] = "idle" /\ io'[w] = NoIo /\ inode'[w] = NoFile
           \/ pc'[w] = "read" /\ io'[w] = io[w] /\ ~IsDump(w)
           \/ pc'[w] = "commit" /\ io'[w] = io[w] /\ IsDump(w)
        /\ \A v \in Workers : v # w => pc'[v] = pc[v] /\ io'[v] = io[v] /\ inode'[v] = inode[v]
    BY <1>11, <2>1, FinishMoving DEF Types, Busy, Read
  <2> QED
    BY <2>1, <2>2 DEF Types, Busy, IsDump, TaskOf
<1>12. ASSUME Crash PROVE Busy'
  BY <1>12 DEF Types, Busy, IsDump, TaskOf, workers, Crash
<1> QED
  BY <1>1, <1>2, <1>3, <1>4, <1>5, <1>6, <1>7, <1>8, <1>9, <1>10, <1>11, <1>12 DEF Next, Worker, Client

-----------------------------------------------------------------------------
\* The queue and the latches.

\* A step in the middle or at the end of a worker's shard.
Moves(w) == OpenDump(w) \/ OpenDumpFails(w) \/ Write(w) \/ Commit(w) \/ OpenLoad(w) \/ Read(w)

\* A step of a shard that is being moved leaves the queue alone; at the end
\* the latch goes down and no failure is forgotten.
LEMMA MovesFacts ==
    ASSUME Types, Busy, NEW w \in Workers, Moves(w)
    PROVE  /\ pc[w] # "idle" /\ io[w] \in Units /\ UNCHANGED <<queue, status>>
           /\ \A v \in Workers : v # w => pc'[v] = pc[v] /\ io'[v] = io[v]
           /\ \/ pc'[w] # "idle" /\ io'[w] = io[w] /\ UNCHANGED <<latch, failureSet>>
              \/ /\ pc'[w] = "idle" /\ failureSet \subseteq failureSet'
                 /\ latch' = [latch EXCEPT ![io[w][1]] = IF @ = 0 THEN 0 ELSE @ - 1]
<1>1. pc[w] # "idle" /\ io[w] \in Units /\ UNCHANGED queue
  BY DEF Moves, OpenDump, OpenDumpFails, Write, Commit, OpenLoad, Read, Busy
<1>2. ASSUME NEW success, Finish(w, success)
      PROVE  /\ pc'[w] = "idle" /\ failureSet \subseteq failureSet' /\ UNCHANGED status
             /\ \A v \in Workers : v # w => pc'[v] = pc[v] /\ io'[v] = io[v]
             /\ latch' = [latch EXCEPT ![io[w][1]] = IF @ = 0 THEN 0 ELSE @ - 1]
  <2>1. /\ latch' = [latch EXCEPT ![io[w][1]] = IF @ = 0 THEN 0 ELSE @ - 1]
        /\ failureSet' = IF success THEN failureSet ELSE failureSet \cup {io[w][1]}
        /\ pc' = [pc EXCEPT ![w] = "idle"] /\ io' = [io EXCEPT ![w] = NoIo]
        /\ status' = status
    BY <1>1, <1>2, FinishFacts
  <2>2. failureSet \subseteq failureSet'
    BY <2>1
  <2>3. pc'[w] = "idle" /\ \A v \in Workers : v # w => pc'[v] = pc[v] /\ io'[v] = io[v]
    BY <2>1 DEF Types
  <2> QED
    BY <2>1, <2>2, <2>3
<1>3. ASSUME NEW label \in {"write", "commit", "read"}, Goto(w, label), UNCHANGED <<io, clients>>
      PROVE  /\ pc'[w] # "idle" /\ io'[w] = io[w] /\ UNCHANGED <<latch, failureSet, status>>
             /\ \A v \in Workers : v # w => pc'[v] = pc[v] /\ io'[v] = io[v]
  BY <1>3 DEF Goto, clients, Types
<1>4. ASSUME NEW success, Written(w, success)
      PROVE  (Goto(w, "commit") /\ UNCHANGED <<io, clients>>) \/ Finish(w, success)
  BY <1>4 DEF Written
<1>5. \/ \E success : Finish(w, success)
      \/ \E label \in {"write", "commit", "read"} : Goto(w, label) /\ UNCHANGED <<io, clients>>
  BY <1>4, Zenon DEF Moves, OpenDump, OpenDumpFails, Write, Commit, OpenLoad, Read, clients
<1> QED
  BY <1>1, <1>2, <1>3, <1>5

\* The queue is first in, first out, and a task is submitted once.
LEMMA OrderStep ==
    ASSUME Types, Types', Busy, Busy', Latches, Order, Next
    PROVE  Order'
<1>1. Len(queue) \in Nat /\ \A k \in 1 .. Len(queue) : queue[k] \in Units
  BY QueueUnits
<1>2. ASSUME NEW t \in Tasks, Submit(t) PROVE Order'
  <2>1. /\ Len(Work[t].shards) \in Nat /\ Len(queue') = Len(queue) + Len(Work[t].shards)
        /\ \A k \in 1 .. Len(queue) : queue'[k] = queue[k] /\ queue[k][1] # t
        /\ \A k \in 1 .. Len(queue') : k > Len(queue) => queue'[k] = <<t, k - Len(queue)>>
    BY <1>1, <1>2, SubmitFacts DEF Latches, Owed, Submit
  <2>2. UNCHANGED <<pc, io>> /\ \A w \in Workers : pc[w] # "idle" => io[w][1] # t
    BY <1>2 DEF Submit, workers, Latches, Owed
  <2>3. ASSUME NEW k \in 1 .. Len(queue'), NEW l \in 1 .. Len(queue'), k < l, queue'[k][1] = queue'[l][1]
        PROVE  queue'[k][2] < queue'[l][2]
    <3>1. CASE l <= Len(queue)
      BY <1>1, <2>1, <2>3, <3>1 DEF Order
    <3>2. CASE l > Len(queue) /\ k <= Len(queue)
      BY <1>1, <2>1, <2>3, <3>2
    <3>3. CASE l > Len(queue) /\ k > Len(queue)
      BY <1>1, <2>1, <2>3, <3>3
    <3> QED
      BY <1>1, <2>1, <3>1, <3>2, <3>3
  <2>4. ASSUME NEW w \in Workers, NEW k \in 1 .. Len(queue'), pc'[w] # "idle", io'[w][1] = queue'[k][1]
        PROVE  io'[w][2] < queue'[k][2]
    BY <1>1, <2>1, <2>2, <2>4 DEF Order
  <2> QED
    BY <2>3, <2>4 DEF Order
<1>3. ASSUME NEW t \in Tasks, WaitReturns(t) \/ TimeOut(t) \/ LateReturns(t) PROVE Order'
  BY <1>3 DEF WaitReturns, TimeOut, LateReturns, workers, Order
<1>4. ASSUME NEW w \in Workers, Take(w) PROVE Order'
  <2>1. /\ Len(queue) > 0 /\ Len(queue') = Len(queue) - 1
        /\ \A k \in 1 .. Len(queue') : queue'[k] = queue[k + 1]
        /\ UNCHANGED <<io, pc>> \/ (io' = [io EXCEPT ![w] = queue[1]] /\ pc' = [pc EXCEPT ![w] = "open"])
        /\ pc[w] = "idle"
    BY <1>4, TakeFacts
  <2>2. ASSUME NEW k \in 1 .. Len(queue'), NEW l \in 1 .. Len(queue'), k < l, queue'[k][1] = queue'[l][1]
        PROVE  queue'[k][2] < queue'[l][2]
    BY <1>1, <2>1, <2>2 DEF Order
  <2>3. ASSUME NEW v \in Workers, NEW k \in 1 .. Len(queue'), pc'[v] # "idle", io'[v][1] = queue'[k][1]
        PROVE  io'[v][2] < queue'[k][2]
    <3>1. k + 1 \in 1 .. Len(queue) /\ 1 \in 1 .. Len(queue) /\ 1 < k + 1 /\ queue'[k] = queue[k + 1]
      BY <1>1, <2>1
    <3>2. CASE io'[v] = io[v] /\ pc[v] # "idle"
      BY <2>3, <3>1, <3>2 DEF Order
    <3>3. CASE io'[v] = queue[1]
      BY <2>3, <3>1, <3>3 DEF Order
    <3> QED
      BY <2>1, <2>3, <3>2, <3>3 DEF Types
  <2> QED
    BY <2>2, <2>3 DEF Order
<1>5. ASSUME NEW w \in Workers, Moves(w) PROVE Order'
  BY <1>5, MovesFacts DEF Order
<1>6. ASSUME Crash PROVE Order'
  BY <1>6 DEF Crash, Order
<1> QED
  BY <1>2, <1>3, <1>4, <1>5, <1>6 DEF Next, Worker, Client, Moves

\* A shard that is over leaves enough on its task's latch for those after it.
LEMMA OwedAfter ==
    ASSUME Types, NEW u \in Units, Owed(u), NEW e \in Units, Owed(e),
           u[1] = e[1] => e[2] < u[2], status' = status,
           latch' = [latch EXCEPT ![e[1]] = IF @ = 0 THEN 0 ELSE @ - 1]
    PROVE  Owed(u)'
<1>1. /\ e[1] \in Tasks /\ e[2] \in 1 .. Len(Work[e[1]].shards) /\ Len(Work[e[1]].shards) \in Nat
      /\ u[1] \in Tasks /\ u[2] \in 1 .. Len(Work[u[1]].shards) /\ Len(Work[u[1]].shards) \in Nat
  BY UnitFacts
<1>2. latch[e[1]] \in Nat /\ latch[u[1]] \in Nat
  BY <1>1 DEF Types
<1>3. CASE u[1] = e[1]
  <2>1. latch'[u[1]] = latch[u[1]] - 1
    BY <1>1, <1>2, <1>3 DEF Owed, Types
  <2> QED
    BY <1>1, <1>2, <1>3, <2>1 DEF Owed
<1>4. CASE u[1] # e[1]
  <2>1. latch'[u[1]] = latch[u[1]]
    BY <1>1, <1>4 DEF Types
  <2> QED
    BY <2>1 DEF Owed
<1> QED
  BY <1>3, <1>4

\* No shard is counted down before it is moved, failed or skipped.
LEMMA LatchesStep ==
    ASSUME Types, Types', Busy, Busy', Order, Latches, OneWorker, Next
    PROVE  Latches'
<1>1. Len(queue) \in Nat /\ \A k \in 1 .. Len(queue) : queue[k] \in Units
  BY QueueUnits
<1>2. ASSUME NEW t \in Tasks, Submit(t) PROVE Latches'
  <2>1. /\ Len(Work[t].shards) \in Nat /\ Len(queue') = Len(queue) + Len(Work[t].shards)
        /\ \A k \in 1 .. Len(queue) : queue'[k] = queue[k] /\ queue[k][1] # t
        /\ \A k \in 1 .. Len(queue') : k > Len(queue) => queue'[k] = <<t, k - Len(queue)>>
    BY <1>1, <1>2, SubmitFacts DEF Latches, Owed, Submit
  <2>2. UNCHANGED <<pc, io>> /\ \A w \in Workers : pc[w] # "idle" => io[w][1] # t
    BY <1>2 DEF Submit, workers, Latches, Owed
  <2>3. /\ latch'[t] = Len(Work[t].shards) /\ status'[t] = "waiting"
        /\ \A u \in Tasks : u # t => latch'[u] = latch[u] /\ status'[u] = status[u]
    BY <1>2 DEF Submit, Types
  <2>4. ASSUME NEW u \in Units, u[1] # t, Owed(u) PROVE Owed(u)'
    BY <2>3, <2>4, UnitFacts DEF Owed
  <2>5. ASSUME NEW k \in 1 .. Len(queue'), NEW u, u = queue'[k] PROVE Owed(u)'
    <3>1. CASE k <= Len(queue)
      <4>1. u \in Units /\ u[1] # t /\ Owed(u)
        BY <1>1, <2>1, <2>5, <3>1 DEF Latches
      <4> QED
        BY <2>4, <4>1
    <3>2. CASE k > Len(queue)
      <4>1. u[1] = t /\ u[2] = k - Len(queue) /\ u[2] > 0 /\ u[2] \in Int
        BY <1>1, <2>1, <2>5, <3>2
      <4> QED
        BY <2>1, <2>3, <4>1 DEF Owed
    <3> QED
      BY <1>1, <2>1, <3>1, <3>2
  <2>6. ASSUME NEW w \in Workers, pc'[w] # "idle", NEW u, u = io'[w] PROVE Owed(u)'
    <3>1. u \in Units /\ u[1] # t /\ Owed(u)
      BY <2>2, <2>6 DEF Busy, Latches
    <3> QED
      BY <2>4, <3>1
  <2>7. (\A k \in 1 .. Len(queue) : Owed(queue[k]))'
    BY <2>5 DEF Owed
  <2>8. (\A w \in Workers : pc[w] # "idle" => Owed(io[w]))'
    BY <2>6 DEF Owed
  <2> QED
    BY <2>7, <2>8 DEF Latches
<1>3. ASSUME NEW t \in Tasks, WaitReturns(t) \/ TimeOut(t) \/ LateReturns(t) PROVE Latches'
  <2>1. UNCHANGED <<queue, pc, io, latch>> /\ \A u \in Tasks : status[u] # "new" => status'[u] # "new"
    BY <1>3 DEF WaitReturns, TimeOut, LateReturns, workers, Types
  <2>2. \A u \in Units : Owed(u) => Owed(u)'
    BY <2>1, UnitFacts DEF Owed
  <2> QED
    BY <1>1, <2>1, <2>2 DEF Latches, Busy
<1>4. ASSUME NEW w \in Workers, Take(w) PROVE Latches'
  <2>1. /\ Len(queue) > 0 /\ Len(queue') = Len(queue) - 1 /\ queue[1] \in Units
        /\ \A k \in 1 .. Len(queue') : queue'[k] = queue[k + 1]
        /\ pc[w] = "idle" /\ status' = status
    BY <1>4, TakeFacts DEF Take
  <2>2. \A k \in 1 .. Len(queue') : queue'[k] \in Units /\ Owed(queue'[k])
    BY <1>1, <2>1 DEF Latches
  <2>3. Owed(queue[1])
    BY <1>1, <2>1 DEF Latches
  <2>4. CASE queue[1][1] \in failureSet
    <3>1. /\ latch' = [latch EXCEPT ![queue[1][1]] = IF @ = 0 THEN 0 ELSE @ - 1]
          /\ UNCHANGED <<io, pc>>
      BY <1>4, <2>4, TakeFacts
    <3>2. \A v \in Workers : pc[v] = "idle"
      BY <2>1 DEF OneWorker
    <3>3. ASSUME NEW k \in 1 .. Len(queue'), NEW u, u = queue'[k] PROVE Owed(u)'
      <4>1. u \in Units /\ Owed(u)
        BY <2>2, <3>3
      <4>2. u[1] = queue[1][1] => queue[1][2] < u[2]
        BY <1>1, <2>1, <3>3 DEF Order
      <4> QED
        BY <2>1, <2>3, <3>1, <4>1, <4>2, OwedAfter
    <3>4. (\A k \in 1 .. Len(queue) : Owed(queue[k]))'
      BY <3>3 DEF Owed
    <3> QED
      BY <3>1, <3>2, <3>4 DEF Latches
  <2>5. CASE queue[1][1] \notin failureSet
    <3>1. io' = [io EXCEPT ![w] = queue[1]] /\ pc' = [pc EXCEPT ![w] = "open"] /\ UNCHANGED latch
      BY <1>4, <2>5, TakeFacts
    <3>2. \A u : Owed(u) => Owed(u)'
      BY <2>1, <3>1 DEF Owed
    <3>3. \A v \in Workers : pc'[v] # "idle" => Owed(io'[v])
      BY <2>3, <3>1 DEF Latches, Types
    <3> QED
      BY <2>2, <3>2, <3>3 DEF Latches
  <2> QED
    BY <2>4, <2>5
<1>5. ASSUME NEW w \in Workers, Moves(w) PROVE Latches'
  <2>1. pc[w] # "idle" /\ io[w] \in Units /\ UNCHANGED <<queue, status>>
    BY <1>5, MovesFacts
  <2>2. \A v \in Workers : v = w
    BY DEF OneWorker
  <2>3. CASE pc'[w] # "idle" /\ io'[w] = io[w] /\ UNCHANGED <<latch, failureSet>>
    <3>1. \A u : Owed(u) => Owed(u)'
      BY <2>1, <2>3 DEF Owed
    <3>2. Owed(io[w]) /\ \A k \in 1 .. Len(queue) : Owed(queue[k])
      BY <2>1 DEF Latches
    <3> QED
      BY <2>1, <2>2, <2>3, <3>1, <3>2 DEF Latches
  <2>4. CASE /\ pc'[w] = "idle"
             /\ latch' = [latch EXCEPT ![io[w][1]] = IF @ = 0 THEN 0 ELSE @ - 1]
    <3>1. ASSUME NEW k \in 1 .. Len(queue), NEW u, u = queue[k] PROVE Owed(u)'
      <4>1. u \in Units /\ Owed(u) /\ Owed(io[w])
        BY <1>1, <2>1, <3>1 DEF Latches
      <4>2. u[1] = io[w][1] => io[w][2] < u[2]
        BY <2>1, <3>1 DEF Order
      <4> QED
        BY <2>1, <2>4, <4>1, <4>2, OwedAfter
    <3>2. (\A k \in 1 .. Len(queue) : Owed(queue[k]))'
      BY <2>1, <3>1 DEF Owed
    <3> QED
      BY <2>2, <2>4, <3>2 DEF Latches
  <2> QED
    BY <1>5, <2>3, <2>4, MovesFacts
<1>6. ASSUME Crash PROVE Latches'
  BY <1>6 DEF Crash, Latches
<1> QED
  BY <1>2, <1>3, <1>4, <1>5, <1>6 DEF Next, Worker, Client, Moves

\* Submit leaves the queue's head alone, or makes the task's first shard it.
LEMMA SubmitHead ==
    ASSUME Types, NEW t \in Tasks, Submit(t)
    PROVE  /\ UNCHANGED <<pc, io, inode, good, tmp, file, content, failureSet, wrong>>
           /\ Len(queue') > 0 /\ (queue' # <<>>)
           /\ IF queue = <<>> THEN queue'[1] = <<t, 1>> ELSE Len(queue) > 0 /\ queue'[1] = queue[1]
<1>1. /\ Len(Work[t].shards) \in Nat /\ Len(Work[t].shards) > 0
      /\ Len(queue') = Len(queue) + Len(Work[t].shards)
      /\ queue' \in Seq(Units) /\ queue \in Seq(Units)
      /\ \A k \in 1 .. Len(queue) : queue'[k] = queue[k]
      /\ \A k \in 1 .. Len(queue') : k > Len(queue) => queue'[k] = <<t, k - Len(queue)>>
  BY SubmitFacts DEF Types
<1>2. UNCHANGED <<pc, io, inode, good, tmp, file, content, failureSet, wrong>>
  BY DEF Submit, workers, disk
<1>3. Len(queue') > 0 /\ queue' # <<>>
  BY <1>1
<1>4. CASE queue = <<>>
  <2>1. Len(queue) = 0 /\ 1 \in 1 .. Len(queue')
    BY <1>1, <1>4
  <2>2. queue'[1] = <<t, 1 - 0>>
    BY <1>1, <2>1
  <2> QED
    BY <1>2, <1>3, <1>4, <2>2
<1>5. CASE queue # <<>>
  <2>1. Len(queue) > 0 /\ Len(queue) \in Nat
    BY <1>1, <1>5
  <2>2. queue'[1] = queue[1]
    BY <1>1, <2>1
  <2> QED
    BY <1>2, <1>3, <1>5, <2>1, <2>2
<1> QED
  BY <1>4, <1>5

\* Taking, skipping and finishing shards leaves no gap in a task.
LEMMA LinedStep ==
    ASSUME Types, Types', Busy, Lined, OneWorker, Next
    PROVE  Lined'
<1>1. Len(queue) \in Nat /\ \A k \in 1 .. Len(queue) : queue[k] \in Units
  BY QueueUnits
<1>2. ASSUME NEW t \in Tasks, Submit(t) PROVE Lined'
  <2>1. /\ Len(Work[t].shards) \in Nat /\ Len(queue') = Len(queue) + Len(Work[t].shards)
        /\ \A k \in 1 .. Len(queue) : queue'[k] = queue[k]
        /\ \A k \in 1 .. Len(queue') : k > Len(queue) => queue'[k] = <<t, k - Len(queue)>>
    BY <1>2, SubmitFacts
  <2>2. /\ UNCHANGED <<pc, io>>
        /\ IF queue = <<>> THEN queue'[1] = <<t, 1>> ELSE queue'[1] = queue[1]
    BY <1>2, SubmitHead
  <2>3. ASSUME NEW k \in 2 .. Len(queue'), queue'[k][2] > 1
        PROVE  queue'[k - 1] = <<queue'[k][1], queue'[k][2] - 1>>
    <3>1. CASE k <= Len(queue)
      BY <1>1, <2>1, <2>3, <3>1 DEF Lined
    <3>2. CASE k > Len(queue) /\ k - 1 <= Len(queue)
      <4>1. k - Len(queue) = 1 /\ queue'[k][2] = 1
        BY <1>1, <2>1, <3>2
      <4> QED
        BY <2>3, <4>1
    <3>3. CASE k - 1 > Len(queue)
      <4>1. k \in 1 .. Len(queue') /\ k - 1 \in 1 .. Len(queue') /\ k > Len(queue)
        BY <1>1, <2>1, <3>3
      <4>2. queue'[k] = <<t, k - Len(queue)>> /\ queue'[k - 1] = <<t, (k - 1) - Len(queue)>>
        BY <2>1, <3>3, <4>1
      <4> QED
        BY <1>1, <4>1, <4>2
    <3> QED
      BY <1>1, <2>1, <3>1, <3>2, <3>3
  <2>4. ASSUME queue' # <<>>, queue'[1][2] > 1, NEW w \in Workers, pc'[w] # "idle"
        PROVE  io'[w] = <<queue'[1][1], queue'[1][2] - 1>>
    <3>1. CASE queue = <<>>
      BY <2>2, <2>4, <3>1
    <3>2. CASE queue # <<>>
      BY <2>2, <2>4, <3>2 DEF Lined
    <3> QED
      BY <3>1, <3>2
  <2> QED
    BY <2>3, <2>4 DEF Lined
<1>3. ASSUME NEW t \in Tasks, WaitReturns(t) \/ TimeOut(t) \/ LateReturns(t) PROVE Lined'
  BY <1>3 DEF WaitReturns, TimeOut, LateReturns, workers, Lined
<1>4. ASSUME NEW w \in Workers, Take(w) PROVE Lined'
  <2>1. /\ Len(queue) > 0 /\ Len(queue') = Len(queue) - 1 /\ queue' \in Seq(Units)
        /\ \A k \in 1 .. Len(queue') : queue'[k] = queue[k + 1]
        /\ UNCHANGED <<io, pc>> \/ (io' = [io EXCEPT ![w] = queue[1]] /\ pc' = [pc EXCEPT ![w] = "open"])
        /\ pc[w] = "idle"
    BY <1>4, TakeFacts
  <2>2. ASSUME NEW k \in 2 .. Len(queue'), queue'[k][2] > 1
        PROVE  queue'[k - 1] = <<queue'[k][1], queue'[k][2] - 1>>
    <3>1. queue'[k] = queue[k + 1] /\ queue'[k - 1] = queue[k] /\ k + 1 \in 2 .. Len(queue)
      BY <1>1, <2>1
    <3>2. queue[(k + 1) - 1] = <<queue[k + 1][1], queue[k + 1][2] - 1>>
      BY <2>2, <3>1 DEF Lined
    <3> QED
      BY <3>1, <3>2
  <2>3. ASSUME queue' # <<>>, queue'[1][2] > 1, NEW v \in Workers, pc'[v] # "idle"
        PROVE  io'[v] = <<queue'[1][1], queue'[1][2] - 1>>
    <3>1. Len(queue') > 0 /\ queue'[1] = queue[2] /\ 2 \in 2 .. Len(queue)
      BY <1>1, <2>1, <2>3
    <3>2. queue[2 - 1] = <<queue[2][1], queue[2][2] - 1>>
      BY <2>3, <3>1 DEF Lined
    <3>3. v = w /\ io'[v] = queue[1]
      BY <2>1, <2>3 DEF OneWorker, Types
    <3> QED
      BY <3>1, <3>2, <3>3
  <2> QED
    BY <2>2, <2>3 DEF Lined
<1>5. ASSUME NEW w \in Workers, Moves(w) PROVE Lined'
  <2>1. /\ pc[w] # "idle" /\ UNCHANGED queue
        /\ pc'[w] # "idle" => io'[w] = io[w]
    BY <1>5, MovesFacts
  <2>2. \A v \in Workers : v = w
    BY DEF OneWorker
  <2> QED
    BY <2>1, <2>2 DEF Lined
<1>6. ASSUME Crash PROVE Lined'
  BY <1>6 DEF Crash, Lined
<1> QED
  BY <1>2, <1>3, <1>4, <1>5, <1>6 DEF Next, Worker, Client, Moves

\* A dump's first shard is a block's first: nothing has to be there before it.
LEMMA FirstIsReady ==
    ASSUME WholeDumps, NEW u \in Units, Work[u[1]].type = "dump", u[2] = 1
    PROVE  Index(u) = 0 /\ Ready(u) /\ Ready(u)'
<1>1. u[1] \in Tasks /\ u[2] \in DOMAIN Work[u[1]].shards /\ Index(u) \in 0 .. NShard - 1
  BY UnitFacts DEF Units
<1>2. Index(u) = 0
  BY <1>1, PosixAssumption DEF WholeDumps, Index
<1> QED
  BY <1>2 DEF Ready, Index

\* A dump's later shard is a block's first, or follows the one before it.
LEMMA NextShard ==
    ASSUME WholeDumps, NEW u \in Units, Work[u[1]].type = "dump", NEW e \in Units,
           e = <<u[1], u[2] - 1>>, Index(u) # 0
    PROVE  Block(e) = Block(u) /\ Index(e) = Index(u) - 1
<1>1. u[1] \in Tasks /\ u[2] \in DOMAIN Work[u[1]].shards /\ Index(u) \in 0 .. NShard - 1
  BY UnitFacts DEF Units
<1>2. Index(u) > 0
  BY <1>1, PosixAssumption
<1>3. Work[u[1]].shards[u[2] - 1] = <<Block(u), Index(u) - 1>>
  BY <1>1, <1>2, Zenon DEF WholeDumps, Index, Block
<1> QED
  BY <1>3 DEF Block, Index

-----------------------------------------------------------------------------
\* The shards before the one that is written.

\* Prepared, part by part.
HeadReady ==
    queue # <<>> /\ Work[queue[1][1]].type = "dump" /\ (\A w \in Workers : pc[w] = "idle") =>
        queue[1][1] \in failureSet \/ Ready(queue[1])

Held(w) ==
    /\ pc[w] \in {"open", "write"} /\ IsDump(w) => Ready(io[w])
    /\ pc[w] = "write" => inode[w] # NoFile /\ inode[w] = tmp[BlockOf(w)]
    /\ pc[w] = "commit" => IndexOf(w) + 1 = NShard
    /\ pc[w] = "commit" /\ good[w] => tmp[BlockOf(w)] # NoFile /\ content[tmp[BlockOf(w)]] = Whole
    /\ pc[w] = "read" => inode[w] # NoFile /\ content[inode[w]] = Whole

\* When the worker is done with a shard, the next one finds it written, or the
\* task has failed.
LEMMA HeadAfter ==
    ASSUME Types, Lined, WholeDumps, OneWorker, NEW w \in Workers, Moves(w), Busy,
           io[w] \in Units, queue # <<>>, Work[queue[1][1]].type = "dump", pc'[w] = "idle",
           \* the worker's shard failed, or it is written and not a block's last
           IsDump(w) => \/ io[w][1] \in failureSet'
                        \/ Index(io[w]) + 1 = NShard
                        \/ tmp[Block(io[w])] # NoFile /\ 0 .. Index(io[w]) \subseteq content'[tmp[Block(io[w])]]
                           /\ tmp' = tmp
    PROVE  queue[1][1] \in failureSet' \/ \A h : h = queue[1] => Ready(h)'
<1>1. pc[w] # "idle" /\ UNCHANGED queue
  BY MovesFacts
<1>2. PICK h : h = queue[1]
  OBVIOUS
<1>3. h \in Units /\ Len(queue) > 0
  BY <1>2 DEF Types
<1>4. h[1] \in Tasks /\ h[2] \in 1 .. Len(Work[h[1]].shards) /\ Index(h) \in 0 .. NShard - 1
  BY <1>3, UnitFacts
<1>5. CASE h[2] = 1
  BY <1>2, <1>3, <1>5, FirstIsReady
<1>6. CASE h[2] > 1 /\ Index(h) = 0
  BY <1>2, <1>6 DEF Ready, Index
<1>7. CASE h[2] > 1 /\ Index(h) # 0
  <2>1. PICK e : e = io[w]
    OBVIOUS
  <2>2. e = <<h[1], h[2] - 1>> /\ e \in Units
    BY <1>1, <1>2, <1>7, <2>1 DEF Lined
  <2>3. Block(e) = Block(h) /\ Index(e) = Index(h) - 1
    BY <1>2, <1>3, <1>7, <2>2, NextShard
  <2>4. IsDump(w) /\ e[1] = h[1]
    BY <1>2, <2>1, <2>2 DEF IsDump, TaskOf
  <2>5. Index(e) + 1 # NShard
    BY <1>4, <2>3, PosixAssumption
  <2>6. CASE e[1] \in failureSet'
    BY <1>2, <2>4, <2>6
  <2>7. CASE /\ tmp[Block(e)] # NoFile /\ 0 .. Index(e) \subseteq content'[tmp[Block(e)]]
             /\ tmp' = tmp
    <3>1. tmp[Block(h)] # NoFile /\ 0 .. Index(h) - 1 \subseteq content'[tmp[Block(h)]] /\ tmp' = tmp
      BY <2>3, <2>7
    <3>2. Ready(h)'
      BY <3>1 DEF Ready, Index, Block
    <3> QED
      BY <1>2, <3>2
  <2> QED
    BY <2>1, <2>4, <2>5, <2>6, <2>7
<1> QED
  BY <1>4, <1>5, <1>6, <1>7

\* Every step leaves the queue's head ready to be written, or to be skipped.
\* Wait forgets a failure only when no shard of the task is left.
LEMMA HeadStep ==
    ASSUME Types, Types', Busy, Latches, Lined, Prepared, OneWorker, WholeDumps, Next
    PROVE  HeadReady'
<1>0. ASSUME NEW h, h = queue'[1], h[1] \in failureSet' \/ Ready(h)' PROVE HeadReady'
  <2>1. queue'[1][1] \in failureSet' \/ Ready(queue[1])'
    BY <1>0 DEF Ready, Index, Block
  <2> QED
    BY <2>1 DEF HeadReady
<1>1. ASSUME NEW t \in Tasks, Submit(t) PROVE HeadReady'
  <2>1. /\ UNCHANGED <<pc, tmp, content, failureSet>> /\ queue' # <<>> /\ Len(queue') > 0
        /\ IF queue = <<>> THEN queue'[1] = <<t, 1>> ELSE queue'[1] = queue[1]
    BY <1>1, SubmitHead
  <2>2. ASSUME Work[queue'[1][1]].type = "dump", \A w \in Workers : pc'[w] = "idle" PROVE HeadReady'
    <3>1. PICK h : h = queue'[1]
      OBVIOUS
    <3>2. CASE queue = <<>>
      <4>1. h \in Units /\ h[2] = 1 /\ Work[h[1]].type = "dump"
        BY <2>1, <2>2, <3>1, <3>2 DEF Types
      <4> QED
        BY <1>0, <3>1, <4>1, FirstIsReady
    <3>3. CASE queue # <<>>
      <4>1. h[1] \in failureSet \/ Ready(h)
        BY <2>1, <2>2, <3>1, <3>3 DEF Prepared
      <4>2. h[1] \in failureSet' \/ Ready(h)'
        BY <2>1, <4>1 DEF Ready, Index, Block
      <4> QED
        BY <1>0, <3>1, <4>2
    <3> QED
      BY <3>2, <3>3
  <2> QED
    BY <2>2 DEF HeadReady
<1>2. ASSUME NEW t \in Tasks, WaitReturns(t) \/ TimeOut(t) \/ LateReturns(t) PROVE HeadReady'
  <2>1. /\ UNCHANGED <<queue, pc, tmp, content>>
        /\ \/ failureSet \subseteq failureSet'
           \/ failureSet' = failureSet \ {t} /\ latch[t] = 0
    BY <1>2 DEF WaitReturns, TimeOut, LateReturns, workers, disk
  <2>2. ASSUME queue # <<>> PROVE queue[1][1] = t => latch[t] # 0
    <3>1. queue[1] \in Units /\ Owed(queue[1])
      BY <2>2 DEF Types, Latches
    <3>2. /\ queue[1][1] \in Tasks /\ queue[1][2] \in 1 .. Len(Work[queue[1][1]].shards)
          /\ Len(Work[queue[1][1]].shards) \in Nat
      BY <3>1, UnitFacts
    <3> QED
      BY <3>1, <3>2 DEF Owed
  <2>3. queue # <<>> /\ queue[1][1] \in failureSet => queue[1][1] \in failureSet'
    BY <2>1, <2>2
  <2>4. Ready(queue[1]) => Ready(queue[1])'
    BY <2>1 DEF Ready, Index, Block
  <2> QED
    BY <2>1, <2>3, <2>4 DEF HeadReady, Prepared
<1>3. ASSUME NEW w \in Workers, Take(w) PROVE HeadReady'
  <2>1. /\ Len(queue) > 0 /\ Len(queue') = Len(queue) - 1 /\ queue' \in Seq(Units)
        /\ \A k \in 1 .. Len(queue') : queue'[k] = queue[k + 1]
        /\ pc[w] = "idle" /\ queue \in Seq(Units)
        /\ UNCHANGED <<tmp, content, failureSet>>
    BY <1>3, TakeFacts DEF Take, disk, Types
  <2>2. CASE queue[1][1] \notin failureSet
    <3>1. pc'[w] = "open"
      BY <1>3, <2>2, TakeFacts DEF Types
    <3> QED
      BY <3>1 DEF HeadReady
  <2>3. CASE queue[1][1] \in failureSet
    <3>1. ASSUME queue' # <<>>, Work[queue'[1][1]].type = "dump" PROVE HeadReady'
      <4>1. PICK h : h = queue'[1]
        OBVIOUS
      <4>2. h \in Units /\ h = queue[2] /\ 2 \in 2 .. Len(queue)
        BY <2>1, <3>1, <4>1
      <4>3. h[2] \in Nat /\ h[2] >= 1
        BY <4>2, UnitFacts
      <4>4. CASE h[2] > 1
        <5>1. queue[2 - 1] = <<h[1], h[2] - 1>>
          BY <4>2, <4>4 DEF Lined
        <5>2. h[1] \in failureSet'
          BY <2>1, <2>3, <5>1
        <5> QED
          BY <1>0, <4>1, <5>2
      <4>5. CASE h[2] = 1
        <5>1. Ready(h)'
          BY <3>1, <4>1, <4>2, <4>5, FirstIsReady
        <5> QED
          BY <1>0, <4>1, <5>1
      <4> QED
        BY <4>3, <4>4, <4>5
    <3> QED
      BY <3>1 DEF HeadReady
  <2> QED
    BY <2>2, <2>3
<1>4. ASSUME NEW w \in Workers, Moves(w) PROVE HeadReady'
  <2>1. pc[w] # "idle" /\ io[w] \in Units /\ UNCHANGED queue
    BY <1>4, MovesFacts
  <2>2. ASSUME queue # <<>>, Work[queue[1][1]].type = "dump", pc'[w] = "idle" PROVE HeadReady'
    <3>1. IsDump(w) => \/ io[w][1] \in failureSet'
                       \/ Index(io[w]) + 1 = NShard
                       \/ tmp[Block(io[w])] # NoFile /\ 0 .. Index(io[w]) \subseteq content'[tmp[Block(io[w])]]
                          /\ tmp' = tmp
      <4>1. ASSUME Finish(w, FALSE) PROVE io[w][1] \in failureSet'
        BY <4>1 DEF Finish, TaskOf
      <4>2. ASSUME Written(w, FALSE) PROVE io[w][1] \in failureSet'
        BY <2>1, <2>2, <4>1, <4>2, WrittenFacts DEF Types
      <4>3. CASE OpenDump(w) \/ OpenLoad(w) \/ Read(w)
        <5>1. pc[w] = "read" => ~IsDump(w)
          BY DEF Busy
        <5>2. OpenDump(w) => pc'[w] = "write"
          BY DEF OpenDump, Goto, Types
        <5> QED
          BY <2>2, <4>3, <5>1, <5>2 DEF OpenLoad, Read
      <4>4. CASE OpenDumpFails(w)
        BY <4>2, <4>4 DEF OpenDumpFails
      <4>5. CASE Commit(w)
        BY <4>5 DEF Commit, Prepared, IndexOf, Index
      <4>6. CASE Write(w)
        <5>1. /\ IsDump(w) /\ pc[w] = "write" /\ Ready(io[w]) /\ inode[w] = tmp[BlockOf(w)]
              /\ inode[w] # NoFile /\ tmp' = tmp
          BY <4>6 DEF Write, Prepared, Busy
        <5>2. CASE content' = [content EXCEPT ![inode[w]] = content[inode[w]] \cup {IndexOf(w)}]
          <6>1. inode[w] \in Inodes /\ Index(io[w]) \in Nat /\ content[inode[w]] \in SUBSET Whole
            BY <2>1, <5>1, UnitFacts, PosixAssumption DEF Types
          <6>2. content'[inode[w]] = content[inode[w]] \cup {Index(io[w])}
            BY <5>2, <6>1 DEF Types, IndexOf, Index
          <6>3. 0 .. Index(io[w]) - 1 \subseteq content[inode[w]]
            <7>1. tmp[Block(io[w])] = inode[w]
              BY <5>1 DEF BlockOf, Block
            <7>2. CASE Index(io[w]) > 0
              BY <5>1, <7>1, <7>2 DEF Ready
            <7>3. CASE Index(io[w]) = 0
              BY <7>3
            <7> QED
              BY <6>1, <7>2, <7>3
          <6>4. 0 .. Index(io[w]) \subseteq content'[inode[w]]
            BY <6>1, <6>2, <6>3
          <6> QED
            BY <5>1, <6>4 DEF BlockOf, Block
        <5>3. CASE Written(w, FALSE)
          BY <4>2, <5>3
        <5> QED
          BY <4>6, <5>2, <5>3, Zenon DEF Write
      <4> QED
        BY <1>4, <4>3, <4>4, <4>5, <4>6 DEF Moves
    <3>2. queue[1][1] \in failureSet' \/ \A h : h = queue[1] => Ready(h)'
      BY <1>4, <2>1, <2>2, <3>1, HeadAfter
    <3>3. PICK h : h = queue[1]
      OBVIOUS
    <3> QED
      BY <1>0, <2>1, <3>2, <3>3
  <2> QED
    BY <2>1, <2>2 DEF HeadReady
<1>5. ASSUME Crash PROVE HeadReady'
  BY <1>5 DEF Crash, HeadReady
<1> QED
  BY <1>1, <1>2, <1>3, <1>4, <1>5 DEF Next, Worker, Client, Moves

\* The end of a shard makes the worker idle.
LEMMA FinishIdle ==
    ASSUME Types, NEW w \in Workers, NEW success, Finish(w, success)
    PROVE  pc'[w] = "idle"
BY DEF Finish, Goto, Types

\* The two ways on after the bytes.
LEMMA WrittenEnds ==
    ASSUME Types, NEW w \in Workers, NEW success, Written(w, success)
    PROVE  \/ pc'[w] = "idle"
           \/ pc'[w] = "commit" /\ good'[w] = success /\ io'[w] = io[w] /\ Index(io[w]) + 1 = NShard
<1>1. CASE Finish(w, success)
  BY <1>1, FinishIdle
<1>2. CASE Goto(w, "commit") /\ good' = [good EXCEPT ![w] = success] /\ IndexOf(w) + 1 = NShard /\ io' = io
  BY <1>2 DEF Goto, Types, IndexOf, Index
<1> QED
  BY <1>1, <1>2 DEF Written

\* Every step leaves the worker with the .tmp file, or the whole file, it needs.
LEMMA HeldStep ==
    ASSUME Types, Types', Busy, Busy', Prepared, VisibleIsWhole, OneWorker, WholeDumps, Next
    PROVE  \A w \in Workers : Held(w)'
<1>0. \A v, w \in Workers : v = w
  BY DEF OneWorker
<1>1. ASSUME NEW w \in Workers, UNCHANGED <<pc, io, inode, good, tmp, content>> PROVE Held(w)'
  BY <1>1 DEF Held, Prepared, Ready, Index, Block, IsDump, TaskOf, IndexOf, BlockOf
<1>2. ASSUME NEW w \in Workers, pc'[w] = "idle" PROVE Held(w)'
  BY <1>2 DEF Held
<1>3. ASSUME NEW t \in Tasks, Client(t), NEW w \in Workers PROVE Held(w)'
  <2>1. UNCHANGED <<pc, io, inode, good, tmp, content>>
    BY <1>3 DEF Client, Submit, WaitReturns, TimeOut, LateReturns, workers, disk
  <2> QED
    BY <1>1, <2>1
<1>4. ASSUME NEW w \in Workers, Take(w) PROVE Held(w)'
  <2>1. /\ Len(queue) > 0 /\ queue[1] \in Units /\ pc[w] = "idle" /\ queue # <<>>
        /\ UNCHANGED <<tmp, content>>
    BY <1>4, TakeFacts DEF Take, disk
  <2>2. CASE queue[1][1] \in failureSet
    <3>1. pc'[w] = "idle"
      BY <1>4, <2>1, <2>2, TakeFacts
    <3> QED
      BY <1>2, <3>1
  <2>3. CASE queue[1][1] \notin failureSet
    <3>1. io'[w] = queue[1] /\ pc'[w] = "open"
      BY <1>4, <2>3, TakeFacts DEF Types
    <3>2. Work[queue[1][1]].type = "dump" => Ready(queue[1])
      BY <1>0, <2>1, <2>3 DEF Prepared
    <3>3. PICK h : h = queue[1]
      OBVIOUS
    <3>4. Work[h[1]].type = "dump" => Ready(h)'
      BY <2>1, <3>2, <3>3 DEF Ready, Index, Block
    <3>5. IsDump(w)' => Ready(io[w])'
      BY <3>1, <3>3, <3>4 DEF IsDump, TaskOf, Ready, Index, Block
    <3> QED
      BY <3>1, <3>5 DEF Held
  <2> QED
    BY <2>2, <2>3
<1>5. ASSUME NEW w \in Workers, OpenDump(w) PROVE Held(w)'
  <2>1. /\ io[w] \in Units /\ IsDump(w) /\ Ready(io[w]) /\ BlockOf(w) = Block(io[w])
        /\ UNCHANGED <<io, good>> /\ pc'[w] = "write"
    BY <1>5 DEF Prepared, Busy, OpenDump, Types, Goto, BlockOf, Block
  <2>2. PICK e : e = io[w]
    OBVIOUS
  <2>3. /\ e \in Units /\ Ready(e) /\ Block(e) \in Blocks /\ Index(e) \in Nat /\ io'[w] = e
    BY <2>1, <2>2, UnitFacts, PosixAssumption
  <2>4. CASE tmp[BlockOf(w)] # NoFile
    <3>1. inode'[w] = tmp[Block(e)] /\ UNCHANGED <<tmp, content>> /\ tmp[Block(e)] # NoFile
      BY <1>5, <2>1, <2>2, <2>4, Zenon DEF OpenDump, Types
    <3>2. Ready(e)'
      BY <2>3, <3>1 DEF Ready, Index, Block
    <3>3. Ready(io[w])' /\ (inode[w] # NoFile /\ inode[w] = tmp[BlockOf(w)])'
      BY <2>3, <3>1, <3>2 DEF Ready, Index, Block, BlockOf
    <3> QED
      BY <2>1, <3>3 DEF Held
  <2>5. CASE tmp[BlockOf(w)] = NoFile
    <3>1. inode[w] = NoFile
      BY <1>5 DEF Busy, OpenDump
    <3>2. Min(Free) \in Inodes
      BY <3>1, FreeInode DEF Types, Free
    <3>3. inode'[w] = Min(Free) /\ tmp' = [tmp EXCEPT ![BlockOf(w)] = Min(Free)]
      BY <1>5, <2>5 DEF OpenDump, Types, Free
    <3>4. inode'[w] = Min(Free) /\ tmp'[Block(e)] = Min(Free)
      BY <2>1, <2>2, <2>3, <3>3 DEF Types
    <3>5. Min(Free) # NoFile
      BY <3>2, PosixAssumption, FS_CardinalityType DEF Inodes, NoFile
    <3>6. Index(e) = 0
      BY <2>1, <2>2, <2>3, <2>5 DEF Ready
    <3>7. Ready(io[w])' /\ (inode[w] # NoFile /\ inode[w] = tmp[BlockOf(w)])'
      BY <2>3, <3>4, <3>5, <3>6 DEF Ready, Index, Block, BlockOf, NoFile
    <3> QED
      BY <2>1, <3>7 DEF Held
  <2> QED
    BY <2>4, <2>5
<1>6. ASSUME NEW w \in Workers, io[w] \in Units, IsDump(w), Written(w, FALSE) PROVE Held(w)'
  <2>1. \/ pc'[w] = "idle"
        \/ /\ pc'[w] = "commit" /\ ~good'[w] /\ Index(io[w]) + 1 = NShard /\ io'[w] = io[w]
    BY <1>6, WrittenEnds
  <2> QED
    BY <1>2, <2>1 DEF Held, IndexOf, Index
<1>7. ASSUME NEW w \in Workers, OpenDumpFails(w) PROVE Held(w)'
  BY <1>6, <1>7 DEF OpenDumpFails, Busy
<1>8. ASSUME NEW w \in Workers, Write(w) PROVE Held(w)'
  <2>1. /\ IsDump(w) /\ pc[w] = "write" /\ Ready(io[w]) /\ inode[w] = tmp[BlockOf(w)]
        /\ inode[w] # NoFile /\ tmp' = tmp /\ io[w] \in Units
    BY <1>8 DEF Write, Prepared, Busy
  <2>2. CASE Written(w, FALSE)
    BY <1>6, <2>1, <2>2
  <2>3. CASE /\ content' = [content EXCEPT ![inode[w]] = content[inode[w]] \cup {IndexOf(w)}]
             /\ Written(w, TRUE)
    <3>1. CASE pc'[w] = "idle"
      BY <1>2, <3>1
    <3>2. CASE pc'[w] = "commit" /\ io'[w] = io[w] /\ Index(io[w]) + 1 = NShard
      <4>1. inode[w] \in Inodes /\ Index(io[w]) \in Nat /\ content[inode[w]] \in SUBSET Whole
        BY <2>1, UnitFacts, PosixAssumption DEF Types
      <4>2. content'[inode[w]] = content[inode[w]] \cup {Index(io[w])}
        BY <2>3, <4>1 DEF Types, IndexOf, Index
      <4>3. tmp[Block(io[w])] = inode[w]
        BY <2>1 DEF BlockOf, Block
      <4>4. 0 .. Index(io[w]) - 1 \subseteq content[inode[w]]
        <5>1. CASE Index(io[w]) > 0
          BY <2>1, <4>3, <5>1 DEF Ready
        <5>2. CASE Index(io[w]) = 0
          BY <5>2
        <5> QED
          BY <4>1, <5>1, <5>2
      <4>5. content'[inode[w]] = Whole
        BY <3>2, <4>1, <4>2, <4>4, PosixAssumption DEF Whole
      <4>6. tmp'[BlockOf(w)'] = inode[w] /\ inode[w] # NoFile
        BY <2>1, <3>2, <4>3 DEF BlockOf, Block
      <4> QED
        BY <3>2, <4>5, <4>6 DEF Held, IndexOf, Index
    <3> QED
      BY <2>3, <3>1, <3>2, WrittenEnds
  <2> QED
    BY <1>8, <2>2, <2>3, Zenon DEF Write
<1>9. ASSUME NEW w \in Workers, Commit(w) PROVE Held(w)'
  <2>1. pc'[w] = "idle"
    BY <1>9, FinishIdle DEF Commit
  <2> QED
    BY <1>2, <2>1
<1>10. ASSUME NEW w \in Workers, OpenLoad(w) PROVE Held(w)'
  <2>1. io[w] \in Units /\ UNCHANGED <<tmp, file, content>>
    BY <1>10 DEF Busy, OpenLoad, disk
  <2>2. CASE Finish(w, FALSE)
    BY <1>2, <2>2, FinishIdle
  <2>3. CASE file[BlockOf(w)] # NoFile /\ inode' = [inode EXCEPT ![w] = file[BlockOf(w)]] /\ Goto(w, "read")
    <3>1. BlockOf(w) \in Blocks
      BY <2>1, UnitFacts DEF BlockOf, Block
    <3>2. content[file[BlockOf(w)]] = Whole
      BY <2>3, <3>1 DEF VisibleIsWhole, Whole
    <3>3. inode'[w] = file[BlockOf(w)] /\ pc'[w] = "read"
      BY <2>3 DEF Goto, Types
    <3> QED
      BY <2>1, <2>3, <3>2, <3>3 DEF Held
  <2> QED
    BY <1>10, <2>2, <2>3, Zenon DEF OpenLoad
<1>11. ASSUME NEW w \in Workers, Read(w) PROVE Held(w)'
  <2>1. pc'[w] = "idle"
    BY <1>11, FinishIdle DEF Read
  <2> QED
    BY <1>2, <2>1
<1>12. ASSUME Crash, NEW w \in Workers PROVE Held(w)'
  BY <1>2, <1>12 DEF Crash
<1>13. ASSUME NEW w \in Workers, Worker(w) PROVE Held(w)'
  BY <1>4, <1>5, <1>7, <1>8, <1>9, <1>10, <1>11, <1>13 DEF Worker
<1> QED
  BY <1>0, <1>3, <1>12, <1>13 DEF Next

-----------------------------------------------------------------------------
\* What a lookup and a load find.

\* Only whole files become visible, and a visible file stays whole: it is never
\* truncated, reopened for another block or written less.
LEMMA RightStep ==
    ASSUME Types, Types', Busy, Prepared, Right, Next
    PROVE  Right'
<1>0. ASSUME UNCHANGED <<file, content, wrong>> PROVE Right'
  BY <1>0 DEF Right, VisibleIsWhole
<1>1. ASSUME NEW t \in Tasks, Client(t) PROVE Right'
  BY <1>0, <1>1 DEF Client, Submit, WaitReturns, TimeOut, LateReturns, disk
<1>2. ASSUME NEW w \in Workers, Take(w) \/ OpenDumpFails(w) \/ OpenLoad(w) PROVE Right'
  BY <1>0, <1>2 DEF Take, OpenDumpFails, OpenLoad, disk
<1>3. ASSUME NEW w \in Workers, OpenDump(w) PROVE Right'
  <2>1. inode[w] = NoFile /\ UNCHANGED <<file, wrong>>
    BY <1>3 DEF Busy, OpenDump
  <2>2. Min(Free) \in Free
    BY <2>1, FreeInode DEF Types
  <2>3. \A b \in Blocks : file[b] # Min(Free)
    <3>1. ASSUME NEW b \in Blocks PROVE file[b] \in UNION {{tmp[d], file[d]} : d \in Blocks}
      OBVIOUS
    <3> HIDE DEF Inodes
    <3> QED
      BY <2>2, <3>1 DEF Free
  <2>4. content' = content \/ content' = [content EXCEPT ![Min(Free)] = {}]
    BY <1>3, Zenon DEF OpenDump, Free
  <2>5. ASSUME NEW b \in Blocks, file[b] # NoFile PROVE content'[file[b]] = content[file[b]]
    BY <2>3, <2>4, <2>5 DEF Types
  <2> QED
    BY <2>1, <2>5 DEF Right, VisibleIsWhole
<1>4. ASSUME NEW w \in Workers, Write(w) PROVE Right'
  <2>1. UNCHANGED <<file, wrong>>
    BY <1>4 DEF Write
  <2>2. content' = content \/ content' = [content EXCEPT ![inode[w]] = content[inode[w]] \cup {IndexOf(w)}]
    BY <1>4, Zenon DEF Write
  <2>3. ASSUME NEW b \in Blocks, file[b] # NoFile PROVE content'[file[b]] = Whole
    <3>1. file[b] \in Inodes /\ content[file[b]] = Whole
      BY <2>3 DEF Right, VisibleIsWhole, Types, Whole
    <3>2. content[file[b]] \subseteq content'[file[b]]
      <4>1. CASE content' = [content EXCEPT ![inode[w]] = content[inode[w]] \cup {IndexOf(w)}]
        <5>1. CASE file[b] = inode[w]
          BY <3>1, <4>1, <5>1 DEF Types
        <5>2. CASE file[b] # inode[w]
          BY <3>1, <4>1, <5>2 DEF Types
        <5> QED
          BY <5>1, <5>2
      <4> QED
        BY <2>2, <4>1
    <3>3. content'[file[b]] \subseteq Whole
      BY <3>1 DEF Types
    <3> QED
      BY <3>1, <3>2, <3>3
  <2> QED
    BY <2>1, <2>3 DEF Right, VisibleIsWhole, Whole
<1>5. ASSUME NEW w \in Workers, Commit(w) PROVE Right'
  <2>1. /\ UNCHANGED <<content, wrong>> /\ pc[w] = "commit"
        /\ \/ UNCHANGED file
           \/ good[w] /\ tmp[BlockOf(w)] # NoFile /\ file' = [file EXCEPT ![BlockOf(w)] = tmp[BlockOf(w)]]
    BY <1>5, Zenon DEF Commit
  <2>2. good[w] => content[tmp[BlockOf(w)]] = Whole
    BY <2>1 DEF Prepared
  <2>3. ASSUME NEW b \in Blocks, file'[b] # NoFile PROVE content[file'[b]] = Whole
    BY <2>1, <2>2, <2>3 DEF Types, Right, VisibleIsWhole, Whole
  <2> QED
    BY <2>1, <2>3 DEF Right, VisibleIsWhole, Whole
<1>6. ASSUME NEW w \in Workers, Read(w) PROVE Right'
  <2>1. io[w] \in Units /\ content[inode[w]] = Whole /\ UNCHANGED <<file, content>>
    BY <1>6 DEF Read, Busy, Prepared, disk
  <2>2. IndexOf(w) \in Whole
    BY <2>1, UnitFacts DEF IndexOf, Index, Whole
  <2>3. Found(w) = "shard"
    BY <2>1, <2>2 DEF Found
  <2>4. wrong' = wrong
    BY <1>6, <2>3 DEF Read
  <2> QED
    BY <1>0, <2>1, <2>4
<1>7. ASSUME Crash PROVE Right'
  BY <1>0, <1>7 DEF Crash, disk
<1> QED
  BY <1>1, <1>2, <1>3, <1>4, <1>5, <1>6, <1>7 DEF Next, Worker

\* The store starts with no task and no file.
LEMMA Initially ==
    ASSUME Init
    PROVE  Inv
<1>1. Types
  BY PosixAssumption DEF Init, Types, Tasks
<1>2. Busy /\ Order /\ Lined /\ Latches /\ Prepared
  BY DEF Init, Busy, Order, Lined, Latches, Prepared
<1>3. Right
  BY DEF Init, Right, VisibleIsWhole
<1> QED
  BY <1>1, <1>2, <1>3 DEF Inv

\* Every step keeps the invariant.
LEMMA Inductive ==
    ASSUME OneWorker, WholeDumps, Inv, [Next]_vars
    PROVE  Inv'
<1>1. CASE Next
  <2>1. Types'
    BY <1>1, TypesStep DEF Inv
  <2>2. Busy'
    BY <1>1, <2>1, BusyStep DEF Inv
  <2>3. Order'
    BY <1>1, <2>1, <2>2, OrderStep DEF Inv
  <2>4. Lined'
    BY <1>1, <2>1, <2>2, LinedStep DEF Inv
  <2>5. Latches'
    BY <1>1, <2>1, <2>2, LatchesStep DEF Inv
  <2>6. HeadReady'
    BY <1>1, <2>1, HeadStep DEF Inv
  <2>7. \A w \in Workers : Held(w)'
    BY <1>1, <2>1, <2>2, HeldStep DEF Inv, Right
  <2>8. Prepared'
    BY <2>6, <2>7 DEF Prepared, HeadReady, Held
  <2>9. Right'
    BY <1>1, <2>1, RightStep DEF Inv
  <2> QED
    BY <2>1, <2>2, <2>3, <2>4, <2>5, <2>8, <2>9 DEF Inv
<1>2. CASE UNCHANGED vars
  <2>1. Types' /\ Busy'
    BY <1>2 DEF Inv, vars, workers, disk, clients, Types, Busy, IsDump, TaskOf
  <2>2. Order' /\ Lined' /\ Latches'
    BY <1>2 DEF Inv, vars, workers, disk, clients, Order, Lined, Latches, Owed
  <2>3. Prepared' /\ Right'
    BY <1>2 DEF Inv, vars, workers, disk, clients, Prepared, Right, VisibleIsWhole, Ready, Index, Block,
                IsDump, TaskOf, IndexOf, BlockOf
  <2> QED
    BY <2>1, <2>2, <2>3 DEF Inv
<1> QED
  BY <1>1, <1>2

\* Every variable keeps its type, for any number of workers: in particular a
\* free inode is always found, and an IoUnit is always a shard of its task.
THEOREM TypeCorrect ==
    Spec => []TypeOK
<1>1. Init => Types /\ Busy
  BY Initially DEF Inv
<1>2. ASSUME Types, Busy, [Next]_vars PROVE Types' /\ Busy'
  <2>1. CASE Next
    BY <1>2, <2>1, TypesStep, BusyStep
  <2>2. CASE UNCHANGED vars
    BY <1>2, <2>2 DEF vars, workers, disk, clients, Types, Busy, IsDump, TaskOf
  <2> QED
    BY <1>2, <2>1, <2>2
<1>3. Types => TypeOK
  <2>1. Units \subseteq Tasks \X Nat
    BY DEF Units
  <2> QED
    BY <2>1 DEF Types, TypeOK, Whole
<1> QED
  BY <1>1, <1>2, <1>3, PTL DEF Spec

\* The inductive invariant of the POSIX store's transfers.
THEOREM Invariance ==
    ASSUME OneWorker, WholeDumps
    PROVE  Spec => []Inv
BY Initially, Inductive, PTL DEF Spec

\* Commit renames only files that have every shard, whatever fails, times out
\* or crashes, so a block that Lookup finds is whole.
THEOREM VisibleWhole ==
    ASSUME OneWorker, WholeDumps
    PROVE  Spec => []VisibleIsWhole
<1>1. Inv => VisibleIsWhole
  BY DEF Inv, Right
<1> QED
  BY <1>1, Invariance, PTL

\* A load that returned OK was never given a hole's zeros.
THEOREM LoadsRight ==
    ASSUME OneWorker, WholeDumps
    PROVE  Spec => []LoadOkIsRight
<1>1. Inv => LoadOkIsRight
  BY DEF Inv, Right, LoadOkIsRight
<1> QED
  BY <1>1, Invariance, PTL

=============================================================================
