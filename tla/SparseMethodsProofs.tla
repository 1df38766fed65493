------------------------- MODULE SparseMethodsProofs -------------------------
(***************************************************************************)
(* More about the engine and its sparse methods, on the invariant that no  *)
(* block is lost (SparseEngineProofs).  First: the block tables the worker *)
(* attends with are those the scheduler allocated (vllm_patch.py,          *)
(* _update_states), and what a method keeps of a request goes with it.     *)
(* Then what GSAOnDevice relies on whatever its configuration and batch:   *)
(* the lengths that are left fit the table of the best blocks, in every    *)
(* layer a decoding request attends to whole blocks of its own, and the    *)
(* hashes fit in the memory that is taken from the KV for them.            *)
(***************************************************************************)
EXTENDS SparseEngineProofs, FiniteSetTheorems

----------------------------------------------------------------------------
(* The block tables of the worker.                                         *)

(* The status of a request says in which queue it is. *)
Places ==
    /\ \A r \in Requests : r \in ToSet(waiting) <=> status[r] \in {"WAITING", "PREEMPTED"}
    /\ \A r \in Requests : r \in ToSet(running) <=> status[r] = "RUNNING"
    /\ \A r \in finished : r \in Requests /\ status[r] = "FINISHED"
    /\ pc \in {"idle", "running", "waiting", "execute"}

(* r is the running request whose turn it is *)
Turn(r) == pc = "running" /\ at <= Len(running) /\ r = running[at] /\ budget > 0

(* the worker knows the blocks of r *)
Known(r) == r \in DOMAIN held /\ held[r] = blocks[r] /\ (r \in DOMAIN rows => rows[r] = blocks[r])

(* the worker knows them once it has the output of schedule *)
Sent(r) ==
    /\ r \in DOMAIN out.slots /\ r \in DOMAIN out.blocks
    /\ BlockIds(r) = blocks[r]
    /\ r \in DOMAIN rows \ finished => (IF Sparsed(r) THEN <<>> ELSE rows[r]) \o out.blocks[r] = blocks[r]

(* Only of a request at hand, which gave up blocks for a sparse step and got none yet, the worker may have others. *)
Told == \A r \in ToSet(running) : Known(r) \/ (pc # "idle" /\ r \in Scheduled) \/ (Turn(r) /\ SparseNow(r))

(* the output of a step, once it is begun *)
Chosen == pc # "idle" => IsInjective(out.order) /\ Scheduled \subseteq ToSet(running) /\ \A r \in Scheduled : Sent(r)

(* the requests before the one at hand are scheduled *)
InTurn ==
    pc = "running" =>
        /\ out.new = {} /\ out.resumed = {} /\ at <= Len(running) + 1
        /\ Scheduled = {running[i] : i \in 1..(at - 1)}

(* Who has a row and is not finished runs: a request that is admitted has none. *)
Rowed == (pc = "running" => ~preempted) /\ pc # "execute" => DOMAIN rows \ finished \subseteq ToSet(running)

Agreed == Places /\ Told /\ Chosen /\ InTurn /\ Rowed /\ batch \in Seq(Requests) /\ IsInjective(batch)

\* What the invariant is about, beside the pool.
agreedVars == <<load, status, waiting, running, tokens, computed, blocks, finished, pc, at, budget, preempted, out,
                held, rows, batch, preempt_req_output_tokens>>

\* What is asked for r depends on what does not change in its turn.
LEMMA SparseFrame ==
    ASSUME NEW r, UNCHANGED <<load, tokens, preempt_req_output_tokens>>, computed'[r] = computed[r]
    PROVE  SparseNow(r)' = SparseNow(r)
BY Zenon DEF SparseNow, ESA!estimate_num_slots_sparsed, ESA!NumOutputTokens, ESA!is_sparsed_request, ESA!top_k,
  ESA!sparse_range, ESA!Outputs, ESA!Prompt, Prompt, KVStar!estimate_num_slots_sparsed, KVStar!Outputs,
  KVStar!Middle, KVStar!num_prefill_fully_block, KVStar!num_prefill_keep_fixed_blk, KVStar!Prompt

\* The invariant is about these variables.
LEMMA AgreedFrame == ASSUME Agreed, UNCHANGED agreedVars PROVE Agreed'
<1>1. ASSUME NEW r PROVE SparseNow(r)' = SparseNow(r)
  BY SparseFrame DEF agreedVars
<1>2. Told'
  BY <1>1 DEF Agreed, Told, Known, Turn, Scheduled, agreedVars
<1>3. Places' /\ InTurn' /\ Rowed'
  BY DEF Agreed, Places, InTurn, Rowed, Scheduled, agreedVars
<1>4. Chosen'
  BY DEF Sent, BlockIds, Sparsed, agreedVars, Scheduled, Agreed, Chosen
<1> QED
  BY <1>2, <1>3, <1>4 DEF Agreed, agreedVars

\* A step begins with nothing chosen, and its loops end with nothing left out.
LEMMA LoopsAgree ==
    ASSUME Inv, Agreed, Schedule \/ RunningDone \/ WaitingDone, UNCHANGED preempt_req_output_tokens
    PROVE  Agreed'
<1>1. UNCHANGED <<load, status, waiting, running, tokens, computed, blocks, finished, held, rows, batch>>
  BY DEF Schedule, RunningDone, WaitingDone, schedulerVars, runnerVars
<1>2. Places'
  BY <1>1 DEF Agreed, Places, Schedule, RunningDone, WaitingDone
<1>3. \A r : Known(r)' <=> Known(r)
  BY <1>1 DEF Known
<1>4. CASE Schedule
  <2>1. pc = "idle" /\ pc' = "running" /\ at' = 1 /\ preempted' = FALSE /\ out' = NoOutput
    BY <1>4 DEF Schedule
  <2>2. Told'
    BY <1>1, <1>3, <2>1 DEF Agreed, Told, Turn
  <2>3. PICK none : none = <<>>
    OBVIOUS
  <2>4. none \in Seq(Requests) /\ IsInjective(none) /\ ToSet(none) = {}
    BY <2>3, Empty
  <2>5. out'.order = none /\ out'.new = {} /\ out'.resumed = {}
    BY <2>1, <2>3 DEF NoOutput
  <2>6. Scheduled' = {}
    BY <2>4, <2>5 DEF Scheduled, ToSet
  <2>7. Chosen'
    BY <2>4, <2>5, <2>6 DEF IsInjective, Chosen
  <2>8. InTurn'
    BY <1>1, <2>1, <2>5, <2>6 DEF Inv, Queues, InTurn
  <2>9. Rowed'
    BY <1>1, <2>1 DEF Agreed, Rowed
  <2> QED
    BY <1>1, <1>2, <2>2, <2>7, <2>8, <2>9 DEF Agreed
<1>5. CASE RunningDone \/ WaitingDone
  <2>1. UNCHANGED <<at, budget, preempted, out>>
    BY <1>5 DEF RunningDone, WaitingDone
  <2>2. pc # "idle" /\ pc' \in {"waiting", "execute"} /\ (pc = "running" => (at > Len(running) \/ budget = 0))
        /\ (pc = "running" /\ preempted => pc' = "execute") /\ (pc # "running" => pc' = "execute")
    BY <1>5 DEF RunningDone, WaitingDone
  <2>3. Scheduled' = Scheduled /\ \A r : Sent(r)' <=> Sent(r)
    BY <1>1, <2>1 DEF Sent, BlockIds, Sparsed, Scheduled
  <2>4. Told'
    BY <1>1, <1>3, <2>2, <2>3 DEF Inv, Queues, Numbers, Turn, Agreed, Told
  <2>5. Chosen'
    BY <1>1, <2>1, <2>2, <2>3 DEF Agreed, Chosen
  <2>6. InTurn' /\ Rowed'
    BY <1>1, <2>1, <2>2 DEF Agreed, InTurn, Rowed
  <2> QED
    BY <1>1, <1>2, <2>4, <2>5, <2>6 DEF Agreed
<1> QED
  BY <1>4, <1>5

\* Between two steps a request comes, or a client gives up: the others have the blocks they had.
LEMMA ClientsAgree ==
    ASSUME Inv, Agreed, NEW r \in Requests, Arrive(r) \/ Abort(r), UNCHANGED preempt_req_output_tokens
    PROVE  Agreed'
<1>1. pc = "idle" /\ UNCHANGED <<load, tokens, computed, pc, at, budget, preempted, out, held, rows, batch>>
  BY DEF Arrive, Abort, scheduleVars, runnerVars
<1>2. /\ status \in [Requests -> Statuses] /\ waiting \in Seq(Requests) /\ running \in Seq(Requests)
      /\ IsInjective(waiting) /\ IsInjective(running)
  BY DEF Inv, Queues
<1>3. CASE Arrive(r)
  BY <1>1, <1>2, <1>3, Appended DEF Arrive, Inv, Queues, Agreed, Places, Told, Known, Turn, Chosen, InTurn, Rowed
<1>4. CASE Abort(r)
  <2>1. /\ status[r] \in load.aborts
        /\ status' = [status EXCEPT ![r] = "FINISHED"]
        /\ waiting' = Without(waiting, {r}) /\ running' = Without(running, {r})
        /\ finished' = finished \cup {r} /\ blocks' = [blocks EXCEPT ![r] = <<>>]
    BY <1>4 DEF Abort
  <2>2. ToSet(waiting') = ToSet(waiting) \ {r} /\ ToSet(running') = ToSet(running) \ {r}
    BY <1>2, <2>1, Filtered
  <2>3. Places'
    BY <1>1, <1>2, <2>1, <2>2 DEF Agreed, Places
  <2>4. ASSUME NEW q \in ToSet(running') PROVE Known(q)'
    <3>1. q \in ToSet(running) /\ q # r
      BY <2>2, <2>4
    <3>2. Known(q)
      BY <1>1, <3>1 DEF Agreed, Told, Turn
    <3>3. q \in Requests /\ blocks \in [Requests -> Seq(1..load.hbm)]
      BY <1>2, <3>1, SetOf DEF Inv, Pool, Whole
    <3>4. blocks'[q] = blocks[q]
      BY <2>1, <3>1, <3>3
    <3> QED
      BY <1>1, <3>2, <3>4 DEF Known
  <2>5. Told'
    BY <2>4 DEF Told
  <2>6. Chosen' /\ InTurn'
    BY <1>1 DEF Chosen, InTurn
  <2>7. Rowed'
    BY <1>1, <2>1, <2>2 DEF Agreed, Rowed
  <2> QED
    BY <1>1, <2>3, <2>5, <2>6, <2>7 DEF Agreed
<1> QED
  BY <1>3, <1>4

\* A running request that gets its blocks: the worker is told all of them, or those it has not.
LEMMA ServedAgree ==
    ASSUME Inv, Agreed, NEW r \in ToSet(running), NEW slots, NEW a, Sound(r, a), Reports(r, slots, a), a.ok,
           ScheduleRunning(r, slots, a), UNCHANGED preempt_req_output_tokens
    PROVE  Agreed'
<1>1. /\ pc = "running" /\ at <= Len(running) /\ budget > 0 /\ r = running[at]
      /\ blocks' = [blocks EXCEPT ![r] = a.blocks] /\ at' = at + 1
      /\ UNCHANGED <<load, status, waiting, running, tokens, computed, finished, pc, preempted, held, rows, batch>>
  BY DEF ScheduleRunning, runnerVars
<1>2. PICK n : out' = [out EXCEPT !.order = Append(@, r), !.n = Put(@, r, n),
                                  !.slots = Put(@, r, slots), !.blocks = Put(@, r, a.new)]
  BY Zenon DEF ScheduleRunning
<1>3. running \in Seq(Requests) /\ IsInjective(running) /\ r \in Requests /\ at \in Nat \ {0}
  BY SetOf DEF Inv, Queues, Numbers
<1>4. PICK order, oslots, oblocks : order = out.order /\ oslots = out.slots /\ oblocks = out.blocks
  OBVIOUS
<1>5. order \in Seq(Requests) /\ DOMAIN out = {"order", "new", "resumed", "n", "slots", "blocks"}
  BY <1>4 DEF Inv, Numbers, Counted
<1>6. /\ out'.order = Append(order, r) /\ out'.new = out.new /\ out'.resumed = out.resumed
      /\ out'.slots = Put(oslots, r, slots) /\ out'.blocks = Put(oblocks, r, a.new)
  BY <1>2, <1>4, <1>5
<1>7. out.new = {} /\ out.resumed = {} /\ ToSet(order) = {running[i] : i \in 1..(at - 1)}
  BY <1>1, <1>4 DEF Agreed, InTurn, Scheduled
<1>8. IsInjective(order) /\ ToSet(order) \subseteq ToSet(running) /\ \A q \in ToSet(order) : Sent(q)
  BY <1>1, <1>4 DEF Agreed, Chosen, Scheduled
<1>9. DOMAIN running = 1..Len(running) /\ Len(running) \in Nat /\ at \in 1..Len(running)
  BY <1>1, <1>3
<1>10. r \notin ToSet(order)
  <2>1. SUFFICES ASSUME NEW i \in 1..(at - 1), r = running[i] PROVE FALSE
    BY <1>7
  <2>2. i \in 1..Len(running) /\ i # at
    BY <1>9
  <2> QED
    BY <1>1, <1>3, <1>9, <2>1, <2>2 DEF IsInjective
<1>11. ToSet(out'.order) = ToSet(order) \cup {r} /\ IsInjective(out'.order)
  BY <1>3, <1>5, <1>6, <1>8, <1>10, Appended
<1>12. Scheduled' = ToSet(order) \cup {r}
  BY <1>11 DEF Scheduled, ToSet
<1>13. blocks \in [Requests -> Seq(1..load.hbm)] /\ a.blocks \in Seq(1..load.hbm)
  BY DEF Inv, Pool, Whole, Sound, Fits
<1>14. ASSUME NEW q \in ToSet(order) PROVE Sent(q)'
  <2>1. Sent(q) /\ q # r /\ q \in Requests
    BY <1>3, <1>8, <1>10, SetOf
  <2>2. blocks'[q] = blocks[q]
    BY <1>1, <1>13, <2>1
  <2>3. q \in DOMAIN out'.slots /\ q \in DOMAIN out'.blocks /\ out'.slots[q] = out.slots[q] /\ out'.blocks[q] = out.blocks[q]
    BY <1>4, <1>6, <2>1 DEF Sent, Put
  <2>4. BlockIds(q)' = BlockIds(q) /\ (Sparsed(q)' <=> Sparsed(q))
    BY <1>1, <1>6, <2>3, Zenon DEF BlockIds, Sparsed
  <2> QED
    BY <1>1, <2>1, <2>2, <2>3, <2>4 DEF Sent
<1>15. Sent(r)'
  <2>1. blocks'[r] = a.blocks
    BY <1>1, <1>3, <1>13
  <2>2. r \in DOMAIN out'.slots /\ r \in DOMAIN out'.blocks /\ out'.slots[r] = slots /\ out'.blocks[r] = a.new
    BY <1>6 DEF Put
  <2>3. (Sparsed(r)' <=> slots # INVALID_SLOT) /\ r \notin out'.new \cup out'.resumed
    BY <1>6, <1>7, <2>2 DEF Sparsed, INVALID_SLOT
  <2>4. CASE slots # INVALID_SLOT
    <3>1. a.new = a.blocks
      BY <2>4 DEF Reports
    <3>2. BlockIds(r)' = a.blocks
      BY <2>2, <2>3, <2>4, <3>1 DEF BlockIds
    <3>3. <<>> \o a.blocks = a.blocks
      BY <1>13
    <3> QED
      BY <2>1, <2>2, <2>3, <2>4, <3>1, <3>2, <3>3 DEF Sent
  <2>5. CASE slots = INVALID_SLOT
    <3>1. a.blocks = blocks[r] \o a.new /\ ~SparseNow(r)
      BY <2>5 DEF Reports
    <3>2. Known(r)
      BY <1>4, <1>10, <3>1 DEF Agreed, Told, Scheduled
    <3>3. BlockIds(r)' = blocks[r] \o a.new
      BY <1>1, <2>2, <2>3, <2>5, <3>2 DEF BlockIds, Known
    <3> QED
      BY <1>1, <2>1, <2>2, <2>3, <2>5, <3>1, <3>2, <3>3 DEF Sent, Known
  <2> QED
    BY <2>4, <2>5
<1>16. Told'
  <2>1. ASSUME NEW q \in ToSet(running), q \notin ToSet(order), q # r PROVE Known(q)'
    BY <1>1, <1>3, <1>4, <1>13, <2>1, SetOf DEF Agreed, Told, Scheduled, Turn, Known
  <2> QED
    BY <1>1, <1>12, <2>1 DEF Told
<1>17. Chosen'
  BY <1>1, <1>8, <1>11, <1>12, <1>14, <1>15 DEF IsInjective, Chosen
<1>18. InTurn'
  BY <1>1, <1>3, <1>6, <1>7, <1>9, <1>12 DEF InTurn
<1>19. Places' /\ Rowed'
  BY <1>1 DEF Agreed, Places, Rowed
<1> QED
  BY <1>1, <1>16, <1>17, <1>18, <1>19 DEF Agreed

\* One that does not: the last running request gives up its own, and one that was scheduled never does.
LEMMA PreemptAgree ==
    ASSUME Inv, Agreed, NEW r \in ToSet(running), NEW slots, NEW a, Reports(r, slots, a), ~a.ok,
           ScheduleRunning(r, slots, a), UNCHANGED preempt_req_output_tokens
    PROVE  Agreed'
<1>1. pc = "running" /\ at <= Len(running) /\ budget > 0 /\ r = running[at] /\ PreemptLast(r, slots, a)
  BY DEF ScheduleRunning
<1>2. PICK victim, others : victim = Last(running) /\ others = Front(running)
  OBVIOUS
<1>3. PICK shared : shared = UNION {ToSet([blocks EXCEPT ![r] = a.blocks][q]) : q \in Requests \ {victim}}
  OBVIOUS
<1>4. /\ status' = [status EXCEPT ![victim] = "PREEMPTED"] /\ waiting' = <<victim>> \o waiting /\ running' = others
      /\ computed' = [computed EXCEPT ![victim] = 0]
      /\ blocks' = [[blocks EXCEPT ![r] = a.blocks] EXCEPT ![victim] = <<>>]
      /\ preempted' = TRUE /\ out' = [out EXCEPT !.slots = Put(@, r, slots)]
      /\ pc' = IF victim = r THEN "execute" ELSE pc
      /\ UNCHANGED <<load, tokens, finished, at, budget, held, rows, batch>>
  BY <1>1, <1>2, Zenon DEF PreemptLast, runnerVars
<1>5. running \in Seq(Requests) /\ IsInjective(running) /\ at \in Nat \ {0} /\ waiting \in Seq(Requests)
      /\ computed \in [Requests -> Int] /\ status \in [Requests -> Statuses]
  BY DEF Inv, Queues, Numbers
<1>6. DOMAIN running = 1..Len(running) /\ Len(running) \in Nat /\ at \in 1..Len(running) /\ r \in Requests
  BY <1>1, <1>5, SetOf
<1>7. PICK l \in Nat : l + 1 = Len(running)
  <2>1. PICK k \in Nat : k = Len(running)
    BY <1>6
  <2>2. k - 1 \in Nat /\ (k - 1) + 1 = k
    BY <1>6, <2>1
  <2> QED
    BY <2>1, <2>2
<1>8. /\ others \in Seq(Requests) /\ IsInjective(others) /\ victim \in Requests
      /\ ToSet(running) = ToSet(others) \cup {victim} /\ victim \notin ToSet(others)
  <2>1. Len(running) # 0
    BY <1>7
  <2> QED
    BY <1>2, <1>5, <2>1, LastOf
<1>9. victim = running[l + 1] /\ Len(others) = l /\ \A i \in 1..l : others[i] = running[i]
  BY <1>2, <1>5, <1>7 DEF Front, Last
<1>10. PICK order, oslots : order = out.order /\ oslots = out.slots
  OBVIOUS
<1>11. DOMAIN out = {"order", "new", "resumed", "n", "slots", "blocks"}
  BY DEF Inv, Numbers, Counted
<1>12. /\ out'.order = order /\ out'.new = out.new /\ out'.resumed = out.resumed /\ out'.blocks = out.blocks
       /\ out'.slots = Put(oslots, r, slots)
  BY <1>4, <1>10, <1>11
<1>13. out.new = {} /\ out.resumed = {} /\ Scheduled = {running[i] : i \in 1..(at - 1)}
  BY <1>1 DEF Agreed, InTurn
<1>14. IsInjective(order) /\ Scheduled \subseteq ToSet(running) /\ \A q \in Scheduled : Sent(q)
  BY <1>1, <1>10 DEF Agreed, Chosen
<1>15. r \notin Scheduled /\ victim \notin Scheduled
  <2>1. ASSUME NEW i \in 1..(at - 1) PROVE running[i] # r /\ running[i] # victim
    <3>1. i \in 1..Len(running) /\ i # at /\ i # l + 1 /\ l + 1 \in 1..Len(running)
      BY <1>6, <1>7
    <3> QED
      BY <1>1, <1>5, <1>6, <1>9, <3>1 DEF IsInjective
  <2> QED
    BY <1>13, <2>1
<1>16. Scheduled' = Scheduled
  BY <1>10, <1>12 DEF Scheduled
<1>17. blocks \in [Requests -> Seq(1..load.hbm)]
  BY DEF Inv, Pool, Whole
<1>18. \A q \in Requests : q # r /\ q # victim => blocks'[q] = blocks[q]
  BY <1>4, <1>17
<1>19. Places'
  <2>1. ToSet(waiting') = {victim} \cup ToSet(waiting)
    <3>1. PICK first : first = <<victim>>
      OBVIOUS
    <3>2. first \in Seq(Requests) /\ ToSet(first) = {victim}
      BY <1>8, <3>1, OneOf
    <3>3. waiting' = first \o waiting
      BY <1>4, <3>1
    <3> QED
      BY <1>5, <3>2, <3>3, Joined
  <2>2. pc' \in {"idle", "running", "waiting", "execute"}
    BY <1>1, <1>4
  <2>3. status[victim] = "RUNNING"
    BY <1>8 DEF Agreed, Places
  <2> QED
    BY <1>4, <1>5, <1>8, <2>1, <2>2, <2>3 DEF Agreed, Places
<1>20. ASSUME NEW q \in Scheduled PROVE Sent(q)'
  <2>1. Sent(q) /\ q # r /\ q # victim /\ q \in Requests
    BY <1>5, <1>14, <1>15, SetOf
  <2>2. q \in DOMAIN out'.slots /\ out'.slots[q] = out.slots[q]
    BY <1>10, <1>12, <2>1 DEF Sent, Put
  <2>3. BlockIds(q)' = BlockIds(q) /\ (Sparsed(q)' <=> Sparsed(q))
    BY <1>4, <1>12, <2>2 DEF BlockIds, Sparsed
  <2> QED
    BY <1>4, <1>12, <1>18, <2>1, <2>2, <2>3 DEF Sent
<1>21. Chosen'
  BY <1>4, <1>8, <1>12, <1>14, <1>15, <1>16, <1>20 DEF IsInjective, Chosen
<1>22. ASSUME NEW q \in ToSet(others), q \notin Scheduled, q # r PROVE Known(q)'
  BY <1>1, <1>4, <1>5, <1>8, <1>18, <1>22, SetOf DEF Agreed, Told, Turn, Known
<1>23. ASSUME r # victim PROVE Known(r)' \/ (Turn(r)' /\ SparseNow(r)')
  <2>1. at # l + 1
    BY <1>1, <1>9, <1>23
  <2>2. at \in 1..l
    BY <1>6, <1>7, <2>1
  <2>3. Turn(r)'
    BY <1>1, <1>4, <1>9, <1>23, <2>2 DEF Turn
  <2>4. CASE SparseNow(r)
    BY <1>4, <1>5, <1>6, <1>23, <2>3, <2>4, SparseFrame
  <2>5. CASE ~SparseNow(r)
    BY <1>4, <1>6, <1>15, <1>17, <1>23, <2>5 DEF Reports, Agreed, Told, Known
  <2> QED
    BY <2>4, <2>5
<1>24. Told'
  <2>1. ASSUME NEW q \in ToSet(others) PROVE Known(q)' \/ q \in Scheduled \/ (Turn(q)' /\ SparseNow(q)')
    BY <1>8, <1>22, <1>23
  <2> QED
    BY <1>1, <1>4, <1>16, <2>1 DEF Told
<1>25. InTurn'
  <2>1. CASE victim = r
    BY <1>4, <2>1 DEF InTurn
  <2>2. CASE victim # r
    <3>1. at # l + 1
      BY <1>1, <1>9, <2>2
    <3>2. at \in 1..l
      BY <1>6, <1>7, <3>1
    <3>3. \A i \in 1..(at - 1) : others[i] = running[i]
      BY <1>9, <3>2
    <3>4. {others[i] : i \in 1..(at - 1)} = {running[i] : i \in 1..(at - 1)}
      BY <3>3
    <3>5. at <= Len(others) + 1
      BY <1>9, <3>2
    <3>6. at' <= Len(running') + 1 /\ Scheduled' = {running'[i] : i \in 1..(at' - 1)}
      BY <1>4, <1>13, <1>16, <3>4, <3>5
    <3> QED
      BY <1>12, <1>13, <3>6 DEF InTurn
  <2> QED
    BY <2>1, <2>2
<1>26. Rowed'
  BY <1>1, <1>4 DEF Rowed
<1> QED
  BY <1>4, <1>19, <1>21, <1>24, <1>25, <1>26 DEF Agreed

\* A waiting request that is admitted: the worker, which has no row of it, is told all of its blocks.
LEMMA AdmittedAgree ==
    ASSUME Inv, Agreed, NEW r \in ToSet(waiting), NEW slots, NEW from, NEW a, ~a.ok => a.blocks = blocks[r],
           Sound(r, a), ScheduleWaiting(r, slots, from, a)
    PROVE  Agreed'
<1>1. /\ pc = "waiting" /\ r = Head(waiting) /\ waiting # <<>>
      /\ blocks' = [blocks EXCEPT ![r] = a.blocks]
      /\ UNCHANGED <<load, tokens, finished, at, preempted, held, rows, batch>>
  BY DEF ScheduleWaiting, CanAdmit, runnerVars
<1>2. /\ waiting \in Seq(Requests) /\ IsInjective(waiting) /\ running \in Seq(Requests) /\ IsInjective(running)
      /\ ToSet(waiting) \cap ToSet(running) = {} /\ status \in [Requests -> Statuses]
  BY DEF Inv, Queues
<1>3. r \in Requests /\ r \notin ToSet(running)
  BY <1>2, SetOf
<1>4. blocks \in [Requests -> Seq(1..load.hbm)]
  BY DEF Inv, Pool, Whole
<1>5. PICK order, oslots, oblocks : order = out.order /\ oslots = out.slots /\ oblocks = out.blocks
  OBVIOUS
<1>6. order \in Seq(Requests) /\ DOMAIN out = {"order", "new", "resumed", "n", "slots", "blocks"}
  BY <1>5 DEF Inv, Numbers, Counted
<1>7. IsInjective(order) /\ ToSet(order) \subseteq ToSet(running) /\ \A q \in ToSet(order) : Sent(q)
  BY <1>1, <1>5 DEF Agreed, Chosen, Scheduled
<1>8. ASSUME NEW q \in ToSet(running) PROVE blocks'[q] = blocks[q] /\ (Known(q) \/ q \in ToSet(order))
  BY <1>1, <1>2, <1>3, <1>4, <1>5, SetOf DEF Agreed, Told, Turn, Scheduled
<1>9. CASE ~a.ok
  <2>1. pc' = "execute" /\ out' = [out EXCEPT !.slots = Put(@, r, slots)] /\ UNCHANGED <<status, waiting, running>>
    BY <1>9 DEF ScheduleWaiting
  <2>2. /\ out'.order = order /\ out'.new = out.new /\ out'.resumed = out.resumed /\ out'.blocks = out.blocks
        /\ out'.slots = Put(oslots, r, slots)
    BY <1>5, <1>6, <2>1
  <2>3. Scheduled' = ToSet(order)
    BY <2>2 DEF Scheduled
  <2>4. ASSUME NEW q \in ToSet(order) PROVE Sent(q)'
    <3>1. Sent(q) /\ q # r /\ q \in ToSet(running)
      BY <1>3, <1>7
    <3>2. q \in DOMAIN out'.slots /\ out'.slots[q] = out.slots[q]
      BY <1>5, <2>2, <3>1 DEF Sent, Put
    <3>3. BlockIds(q)' = BlockIds(q) /\ (Sparsed(q)' <=> Sparsed(q))
      BY <1>1, <2>2, <3>2 DEF BlockIds, Sparsed
    <3> QED
      BY <1>1, <1>8, <2>2, <3>1, <3>2, <3>3 DEF Sent
  <2>5. Told'
    BY <1>1, <1>8, <2>1, <2>3 DEF Told, Known
  <2>6. Chosen'
    BY <1>7, <2>1, <2>2, <2>3, <2>4 DEF IsInjective, Chosen
  <2>7. Places' /\ InTurn' /\ Rowed'
    BY <1>1, <2>1 DEF Agreed, Places, InTurn, Rowed
  <2> QED
    BY <1>1, <2>5, <2>6, <2>7 DEF Agreed
<1>10. CASE a.ok
  <2>1. PICK n : out' = [out EXCEPT !.order = Append(@, r), !.n = Put(@, r, n),
                            !.slots = Put(@, r, slots), !.blocks = Put(@, r, a.blocks),
                            !.new = IF status[r] = "WAITING" THEN @ \cup {r} ELSE @,
                            !.resumed = IF status[r] = "PREEMPTED" THEN @ \cup {r} ELSE @]
    BY <1>10, Zenon DEF ScheduleWaiting
  <2>2. pc' = pc /\ status' = [status EXCEPT ![r] = "RUNNING"] /\ waiting' = Tail(waiting) /\ running' = Append(running, r)
    BY <1>10 DEF ScheduleWaiting
  <2>3. status[r] \in {"WAITING", "PREEMPTED"}
    BY <1>3 DEF Agreed, Places
  <2>4. /\ out'.order = Append(order, r) /\ out'.slots = Put(oslots, r, slots) /\ out'.blocks = Put(oblocks, r, a.blocks)
        /\ out'.new \cup out'.resumed = out.new \cup out.resumed \cup {r}
    BY <1>5, <1>6, <2>1, <2>3
  <2>5. ToSet(waiting) = ToSet(waiting') \cup {r} /\ r \notin ToSet(waiting')
    BY <1>1, <1>2, <2>2, FirstOf
  <2>6. ToSet(running') = ToSet(running) \cup {r}
    BY <1>2, <1>3, <2>2, Appended
  <2>7. Places'
    BY <1>1, <1>2, <1>3, <2>2, <2>5, <2>6 DEF Agreed, Places
  <2>8. r \notin ToSet(order) /\ ToSet(out'.order) = ToSet(order) \cup {r} /\ IsInjective(out'.order)
    BY <1>3, <1>6, <1>7, <2>4, Appended
  <2>9. Scheduled' = ToSet(order) \cup {r}
    BY <2>8 DEF Scheduled, ToSet
  <2>10. ASSUME NEW q \in ToSet(order) PROVE Sent(q)'
    <3>1. Sent(q) /\ q # r /\ q \in ToSet(running)
      BY <1>3, <1>7
    <3>2. q \in DOMAIN out'.slots /\ q \in DOMAIN out'.blocks /\ out'.slots[q] = out.slots[q] /\ out'.blocks[q] = out.blocks[q]
      BY <1>5, <2>4, <3>1 DEF Sent, Put
    <3>3. BlockIds(q)' = BlockIds(q) /\ (Sparsed(q)' <=> Sparsed(q))
      BY <1>1, <2>4, <3>1, <3>2 DEF BlockIds, Sparsed, INVALID_SLOT
    <3> QED
      BY <1>1, <1>8, <3>1, <3>2, <3>3 DEF Sent
  <2>11. Sent(r)'
    <3>1. blocks'[r] = a.blocks
      BY <1>1, <1>3, <1>4
    <3>2. r \in DOMAIN out'.slots /\ r \in DOMAIN out'.blocks /\ out'.blocks[r] = a.blocks /\ r \in out'.new \cup out'.resumed
      BY <2>4 DEF Put
    <3>3. BlockIds(r)' = a.blocks
      BY <3>2 DEF BlockIds
    <3>4. r \notin DOMAIN rows' \ finished'
      BY <1>1, <1>3 DEF Agreed, Rowed
    <3> QED
      BY <3>1, <3>2, <3>3, <3>4 DEF Sent
  <2>12. Told'
    BY <1>1, <1>8, <2>2, <2>6, <2>9 DEF Told, Known
  <2>13. Chosen'
    BY <1>7, <2>6, <2>8, <2>9, <2>10, <2>11 DEF IsInjective, Chosen
  <2>14. InTurn' /\ Rowed'
    BY <1>1, <2>2, <2>6 DEF Agreed, InTurn, Rowed
  <2> QED
    BY <1>1, <2>7, <2>12, <2>13, <2>14 DEF Agreed
<1>11. a.ok \in BOOLEAN
  BY DEF Sound
<1> QED
  BY <1>9, <1>10, <1>11

\* What the worker knows after it has the output are the blocks the scheduler allocated: _update_states.
LEMMA SentAre ==
    ASSUME Agreed, pc = "execute", NEW r \in Scheduled
    PROVE  UpdatedHeld[r] = blocks[r] /\ UpdatedRows[r] = blocks[r]
<1>1. Sent(r)
  BY DEF Agreed, Chosen
<1>2. UpdatedHeld[r] = BlockIds(r)
  BY DEF UpdatedHeld
<1>3. UpdatedRows[r] = IF r \in DOMAIN rows \ finished THEN (IF Sparsed(r) THEN <<>> ELSE rows[r]) \o out.blocks[r] ELSE BlockIds(r)
  BY DEF UpdatedRows
<1> QED
  BY <1>1, <1>2, <1>3 DEF Sent

\* A step ends: who goes on is known to the worker, and who leaves is reported.
LEMMA LeavesAgree ==
    ASSUME Inv, Agreed, Leaves, UpdatedBatch \in Seq(Requests), IsInjective(UpdatedBatch)
    PROVE  Agreed'
<1>1. pc = "execute" /\ pc' = "idle" /\ UNCHANGED <<load, waiting>> /\ finished' = Stopped
      /\ status' = [r \in Requests |-> IF r \in Stopped THEN "FINISHED" ELSE status[r]]
      /\ blocks' = [r \in Requests |-> IF r \in Stopped THEN <<>> ELSE blocks[r]]
      /\ held' = UpdatedHeld /\ rows' = UpdatedRows
  BY DEF Leaves
<1>2. waiting \in Seq(Requests) /\ running \in Seq(Requests) /\ ToSet(running) \subseteq Requests
  BY SetOf DEF Inv, Queues
<1>3. ToSet(running') = ToSet(running) \ Stopped
  BY <1>2, Filtered DEF Leaves
<1>4. Scheduled \subseteq ToSet(running)
  BY <1>1 DEF Agreed, Chosen
<1>5. Stopped \subseteq Scheduled
  BY DEF Stopped, Sampled
<1>6. Places'
  BY <1>1, <1>2, <1>3, <1>4, <1>5 DEF Agreed, Places
<1>7. DOMAIN rows' = Scheduled /\ DOMAIN held' = (DOMAIN held \ finished) \cup Scheduled
  BY <1>1 DEF UpdatedRows, UpdatedHeld
<1>8. ASSUME NEW r \in ToSet(running') PROVE Known(r)'
  <2>1. r \in ToSet(running) /\ r \notin Stopped /\ r \in Requests
    BY <1>2, <1>3
  <2>2. blocks'[r] = blocks[r]
    BY <1>1, <2>1
  <2>3. CASE r \in Scheduled
    BY <1>1, <1>7, <2>2, <2>3, SentAre DEF Known
  <2>4. CASE r \notin Scheduled
    BY <1>1, <1>7, <2>1, <2>2, <2>4 DEF Agreed, Told, Turn, Places, UpdatedHeld, Known
  <2> QED
    BY <2>3, <2>4
<1>9. Told'
  BY <1>8 DEF Told
<1>10. Chosen' /\ InTurn'
  BY <1>1 DEF Chosen, InTurn
<1>11. Rowed'
  BY <1>1, <1>3, <1>4, <1>7 DEF Rowed
<1>12. (batch \in Seq(Requests) /\ IsInjective(batch))'
  BY DEF Leaves, IsInjective
<1> QED
  BY <1>6, <1>9, <1>10, <1>11, <1>12 DEF Agreed

\* Places are counted from 1.
LEMMA FirstPlaces == ASSUME NEW n \in Nat PROVE IsFiniteSet(1..n) /\ Cardinality(1..n) = n
BY FS_Interval

\* A list without repetitions has as many members as places.
LEMMA Members ==
    ASSUME NEW T, NEW s \in Seq(T), IsInjective(s)
    PROVE  IsFiniteSet(ToSet(s)) /\ Cardinality(ToSet(s)) = Len(s)
<1>1. Len(s) \in Nat /\ DOMAIN s = 1..Len(s) /\ ToSet(s) = {s[i] : i \in 1..Len(s)}
  BY SetOf
<1>2. s \in [1..Len(s) -> ToSet(s)]
  BY <1>1
<1>3. s \in Bijection(1..Len(s), ToSet(s))
  BY <1>1, <1>2 DEF Bijection, Injection, Surjection, IsInjective
<1>4. ExistsBijection(1..Len(s), ToSet(s))
  BY <1>3 DEF ExistsBijection
<1>5. IsFiniteSet(1..Len(s)) /\ Cardinality(1..Len(s)) = Len(s)
  BY <1>1, FirstPlaces
<1>6. IsFiniteSet(ToSet(s)) /\ Cardinality(ToSet(s)) = Cardinality(1..Len(s))
  BY <1>4, <1>5, FS_Bijection
<1> QED
  BY <1>5, <1>6

\* The members of a list in S are as many as the places that hold them.
LEMMA PlacesOf ==
    ASSUME NEW T, NEW s \in Seq(T), IsInjective(s), NEW S
    PROVE  Cardinality({i \in 1..Len(s) : s[i] \in S}) = Cardinality(S \cap ToSet(s))
<1> DEFINE P == {i \in 1..Len(s) : s[i] \in S}
           f == [i \in P |-> s[i]]
<1>1. Len(s) \in Nat /\ DOMAIN s = 1..Len(s) /\ ToSet(s) = {s[i] : i \in 1..Len(s)}
  BY SetOf
<1>2. IsFiniteSet(1..Len(s))
  BY <1>1, FirstPlaces
<1>3. IsFiniteSet(P)
  BY <1>2, FS_Subset
<1>4. f \in Bijection(P, S \cap ToSet(s))
  BY <1>1 DEF Bijection, Injection, Surjection, IsInjective
<1>5. ExistsBijection(P, S \cap ToSet(s))
  BY <1>4 DEF ExistsBijection
<1>6. Cardinality(S \cap ToSet(s)) = Cardinality(P)
  <2> HIDE DEF P
  <2> QED
    BY <1>3, <1>5, FS_Bijection
<1> QED
  BY <1>6

(* The persistent batch, of n requests, when those of old in S stay and    *)
(* those of added come (UpdatedBatch).                                     *)
StaysAt(S, old, i) == i <= Len(old) /\ old[i] \in S
GapsTo(S, old, i) == Cardinality({j \in 1..i : ~StaysAt(S, old, j)})
FilledBy(n, S, old, added) ==
    [i \in 1..Len(old) \cup 1..n |->
        IF StaysAt(S, old, i) THEN <<old[i]>>
        ELSE IF GapsTo(S, old, i) <= Len(added) THEN <<added[GapsTo(S, old, i)]>> ELSE <<>>]
BeyondOf(n, S, old, added) ==
    Reverse(Without([i \in 1..Len(old) |-> i],
                    {i \in 1..Len(old) : i <= n \/ FilledBy(n, S, old, added)[i] = <<>>}))
Condensed(n, S, old, added) ==
    [i \in 1..n |->
        IF FilledBy(n, S, old, added)[i] # <<>> THEN FilledBy(n, S, old, added)[i][1]
        ELSE FilledBy(n, S, old, added)[BeyondOf(n, S, old, added)[GapsTo(S, old, i) - Len(added)]][1]]

\* How many gaps there are up to a place, and that each gap is one more.
LEMMA GapsGrow ==
    ASSUME NEW S, NEW old
    PROVE  /\ \A i \in Nat : GapsTo(S, old, i) \in 0..i
           /\ \A i \in Nat : GapsTo(S, old, i) = i - Cardinality({j \in 1..i : StaysAt(S, old, j)})
           /\ \A i, j \in Nat : i <= j => GapsTo(S, old, i) <= GapsTo(S, old, j)
           /\ \A i, j \in Nat : i < j /\ ~StaysAt(S, old, j) => GapsTo(S, old, i) < GapsTo(S, old, j)
<1> DEFINE G(i) == {j \in 1..i : ~StaysAt(S, old, j)}
           H(i) == {j \in 1..i : StaysAt(S, old, j)}
<1>1. ASSUME NEW i \in Nat
      PROVE  /\ IsFiniteSet(G(i)) /\ Cardinality(G(i)) \in 0..i /\ Cardinality(G(i)) = i - Cardinality(H(i))
  <2>1. IsFiniteSet(1..i) /\ Cardinality(1..i) = i
    BY FirstPlaces
  <2>2. G(i) \in SUBSET (1..i) /\ H(i) \in SUBSET (1..i) /\ G(i) = (1..i) \ H(i) /\ (1..i) \cap H(i) = H(i)
    OBVIOUS
  <2> HIDE DEF G, H
  <2>3. IsFiniteSet(G(i)) /\ IsFiniteSet(H(i)) /\ Cardinality(H(i)) <= i
    BY <2>1, <2>2, FS_Subset
  <2>4. Cardinality(G(i)) \in Nat /\ Cardinality(H(i)) \in Nat
    BY <2>3, FS_CardinalityType
  <2>5. Cardinality((1..i) \ H(i)) = Cardinality(1..i) - Cardinality((1..i) \cap H(i))
    BY <2>1, FS_Difference
  <2>6. Cardinality(G(i)) = i - Cardinality(H(i))
    BY <2>1, <2>2, <2>5
  <2> QED
    BY <2>3, <2>4, <2>6
<1>2. ASSUME NEW i \in Nat, NEW j \in Nat, i < j, ~StaysAt(S, old, j)
      PROVE  Cardinality(G(i)) < Cardinality(G(j))
  <2>1. G(i) \cup {j} \in SUBSET G(j) /\ j \notin G(i)
    BY <1>2
  <2>2. IsFiniteSet(G(i)) /\ IsFiniteSet(G(j)) /\ Cardinality(G(i)) \in Nat /\ Cardinality(G(j)) \in Nat
    <3>1. IsFiniteSet(G(i)) /\ Cardinality(G(i)) \in 0..i
      BY <1>1
    <3>2. IsFiniteSet(G(j)) /\ Cardinality(G(j)) \in 0..j
      BY <1>1
    <3> HIDE DEF G
    <3> QED
      BY <3>1, <3>2
  <2> HIDE DEF G
  <2>3. Cardinality(G(i) \cup {j}) = Cardinality(G(i)) + 1
    BY <2>1, <2>2, FS_AddElement
  <2>4. Cardinality(G(i) \cup {j}) <= Cardinality(G(j))
    BY <2>1, <2>2, FS_Subset
  <2> QED
    BY <2>2, <2>3, <2>4
<1>3. ASSUME NEW i \in Nat, NEW j \in Nat, i <= j PROVE Cardinality(G(i)) <= Cardinality(G(j))
  <2>1. G(i) \in SUBSET G(j)
    BY <1>3
  <2>2. IsFiniteSet(G(j))
    <3>1. IsFiniteSet(G(j)) /\ Cardinality(G(j)) \in 0..j
      BY <1>1
    <3> QED
      BY <3>1
  <2> HIDE DEF G
  <2> QED
    BY <2>1, <2>2, FS_Subset
<1> QED
  BY <1>1, <1>2, <1>3 DEF GapsTo

\* The batch after a step has each request of the step once, whoever stayed and whoever came.
LEMMA CondensedIs ==
    ASSUME NEW T, NEW S \in SUBSET T, IsFiniteSet(S), NEW n \in Nat, Cardinality(S) = n,
           NEW old \in Seq(T), IsInjective(old), NEW added \in Seq(T), IsInjective(added),
           ToSet(added) = S \ ToSet(old)
    PROVE  /\ Condensed(n, S, old, added) \in Seq(T) /\ IsInjective(Condensed(n, S, old, added))
           /\ ToSet(Condensed(n, S, old, added)) = S
<1>1. PICK N, A, P, gap : /\ N = Len(old) /\ A = Len(added) /\ P = {i \in 1..N : old[i] \in S}
                          /\ gap = [i \in Nat |-> GapsTo(S, old, i)]
  OBVIOUS
<1>2. N \in Nat /\ A \in Nat /\ DOMAIN old = 1..N /\ DOMAIN added = 1..A
  BY <1>1
<1>3. /\ \A i, j \in 1..N : old[i] = old[j] => i = j
      /\ \A i, j \in 1..A : added[i] = added[j] => i = j
      /\ ToSet(old) = {old[i] : i \in 1..N} /\ ToSet(added) = {added[i] : i \in 1..A}
  BY <1>1, <1>2, SetOf DEF IsInjective
<1>4. \A i \in Nat \ {0} : StaysAt(S, old, i) <=> i \in P
  BY <1>1, <1>2 DEF StaysAt
<1>5. /\ \A i \in Nat : gap[i] \in 0..i
      /\ \A i, j \in Nat : i <= j => gap[i] <= gap[j]
      /\ \A i, j \in Nat : i < j /\ j \notin P => gap[i] < gap[j]
  <2>1. \A i \in Nat : gap[i] = GapsTo(S, old, i)
    BY <1>1
  <2>2. /\ \A i \in Nat : GapsTo(S, old, i) \in 0..i
        /\ \A i, j \in Nat : i <= j => GapsTo(S, old, i) <= GapsTo(S, old, j)
        /\ \A i, j \in Nat : i < j /\ ~StaysAt(S, old, j) => GapsTo(S, old, i) < GapsTo(S, old, j)
    BY GapsGrow
  <2>3. \A i \in Nat : gap[i] \in 0..i
    BY <2>1, <2>2
  <2>4. \A i, j \in Nat : i <= j => gap[i] <= gap[j]
    BY <2>1, <2>2
  <2>5. \A i, j \in Nat : i < j /\ j \notin P => gap[i] < gap[j]
    <3>1. ASSUME NEW i \in Nat, NEW j \in Nat, i < j, j \notin P PROVE gap[i] < gap[j]
      <4>1. j \in Nat \ {0}
        BY <3>1
      <4>2. ~StaysAt(S, old, j)
        BY <1>4, <3>1, <4>1
      <4> QED
        BY <2>1, <2>2, <3>1, <4>2
    <3> QED
      BY <3>1
  <2> QED
    BY <2>3, <2>4, <2>5
<1>6. \A i, j \in Nat \ {0} : i \notin P /\ j \notin P /\ gap[i] = gap[j] => i = j
  BY <1>5
<1>7. \A i \in Nat \ {0} : i \notin P => gap[i] \in Nat \ {0}
  <2>1. ASSUME NEW i \in Nat \ {0}, i \notin P PROVE gap[0] < gap[i] /\ gap[0] = 0 /\ gap[i] \in Nat
    BY <1>5, <2>1
  <2> QED
    BY <2>1
<1>8. PICK filled : filled = FilledBy(n, S, old, added)
  OBVIOUS
<1>9. PICK D : D = 1..N \cup 1..n
  OBVIOUS
<1>10. ASSUME NEW i \in D
       PROVE  /\ i \in P => filled[i] # <<>> /\ filled[i][1] = old[i]
              /\ i \notin P /\ gap[i] <= A => filled[i] # <<>> /\ filled[i][1] = added[gap[i]]
              /\ i \notin P /\ ~(gap[i] <= A) => filled[i] = <<>>
  <2>1. i \in Nat \ {0} /\ (StaysAt(S, old, i) <=> i \in P)
    BY <1>2, <1>4, <1>9
  <2>2. filled[i] = IF i \in P THEN <<old[i]>> ELSE IF gap[i] <= A THEN <<added[gap[i]]>> ELSE <<>>
    BY <1>1, <1>8, <1>9, <2>1 DEF FilledBy
  <2>3. ASSUME NEW x PROVE <<x>> # <<>> /\ <<x>>[1] = x
    OBVIOUS
  <2> QED
    BY <2>2, <2>3, Zenon
<1>11. ASSUME NEW i \in D, filled[i] # <<>>
       PROVE  /\ filled[i][1] \in S
              /\ i \in P => filled[i][1] = old[i]
              /\ i \notin P => gap[i] \in 1..A /\ filled[i][1] = added[gap[i]]
  <2>1. i \in Nat \ {0}
    BY <1>2, <1>9
  <2>2. CASE i \in P
    BY <1>1, <1>10, <2>2
  <2>3. CASE i \notin P
    BY <1>2, <1>3, <1>7, <1>10, <1>11, <2>1, <2>3
  <2> QED
    BY <2>2, <2>3
<1>12. ASSUME NEW i \in D, NEW j \in D, filled[i] # <<>>, filled[j] # <<>>, filled[i][1] = filled[j][1]
       PROVE  i = j
  <2>1. i \in Nat \ {0} /\ j \in Nat \ {0}
    BY <1>2, <1>9
  <2>2. CASE i \in P /\ j \in P
    <3>1. i \in 1..N /\ j \in 1..N /\ old[i] = old[j]
      BY <1>1, <1>11, <1>12, <2>2
    <3> QED
      BY <1>3, <3>1
  <2>3. CASE i \notin P /\ j \notin P
    <3>1. gap[i] \in 1..A /\ gap[j] \in 1..A /\ added[gap[i]] = added[gap[j]]
      BY <1>11, <1>12, <2>3
    <3>2. gap[i] = gap[j]
      BY <1>3, <3>1
    <3> QED
      BY <1>6, <2>1, <2>3, <3>2
  <2>4. ASSUME NEW k \in P, NEW m \in D, filled[k] # <<>>, filled[m] # <<>>, k \in D, m \notin P
        PROVE  filled[k][1] # filled[m][1]
    <3>1. filled[k][1] = old[k] /\ filled[m][1] = added[gap[m]] /\ gap[m] \in 1..A
      BY <1>11, <2>4
    <3>2. old[k] \in ToSet(old) /\ added[gap[m]] \in ToSet(added)
      BY <1>1, <1>3, <3>1
    <3> QED
      BY <3>1, <3>2
  <2> QED
    BY <1>12, <2>2, <2>3, <2>4
<1>13. PICK beyond : beyond = BeyondOf(n, S, old, added)
  OBVIOUS
<1>14. /\ beyond \in Seq(Nat) /\ IsInjective(beyond)
       /\ ToSet(beyond) = {i \in 1..N : i > n /\ filled[i] # <<>>}
  <2>1. PICK ids : ids = [i \in 1..N |-> i]
    OBVIOUS
  <2>2. ids \in Seq(Nat) /\ Len(ids) = N /\ IsInjective(ids)
    BY <1>2, <2>1 DEF IsInjective
  <2>3. ToSet(ids) = 1..N
    <3>1. ToSet(ids) = {ids[i] : i \in 1..N}
      BY <2>2, SetOf
    <3> QED
      BY <2>1, <3>1
  <2>4. PICK not : not = {i \in 1..N : i <= n \/ filled[i] = <<>>}
    OBVIOUS
  <2>5. /\ Without(ids, not) \in Seq(Nat) /\ IsInjective(Without(ids, not)) /\ ToSet(Without(ids, not)) = 1..N \ not
    BY <2>2, <2>3, Filtered
  <2>6. beyond = Reverse(Without(ids, not))
    BY <1>1, <1>8, <1>13, <2>1, <2>4, Zenon DEF BeyondOf
  <2>7. beyond \in Seq(Nat) /\ IsInjective(beyond) /\ ToSet(beyond) = 1..N \ not
    BY <2>5, <2>6, Reversed
  <2> QED
    BY <1>2, <2>4, <2>7
<1>15. gap[n] - A <= Len(beyond)
  <2>1. IsFiniteSet(ToSet(beyond)) /\ Cardinality(ToSet(beyond)) = Len(beyond)
    BY <1>14, Members
  <2>2. P \ (1..n) \in SUBSET ToSet(beyond)
    <3>1. ASSUME NEW i \in P, i \notin 1..n PROVE i \in ToSet(beyond)
      <4>1. i \in 1..N /\ i \in D /\ i > n
        BY <1>1, <1>2, <1>9, <3>1
      <4> QED
        BY <1>10, <1>14, <3>1, <4>1
    <3> QED
      BY <3>1
  <2>3. Cardinality(P \ (1..n)) <= Len(beyond)
    BY <2>1, <2>2, FS_Subset
  <2>4. IsFiniteSet(P) /\ Cardinality(P) = Cardinality(S \cap ToSet(old))
    BY <1>1, <1>2, FirstPlaces, PlacesOf, FS_Subset
  <2>5. Cardinality(P \ (1..n)) = Cardinality(P) - Cardinality(P \cap 1..n)
    BY <2>4, FS_Difference
  <2>6. A = n - Cardinality(S \cap ToSet(old))
    BY <1>1, Members, FS_Difference
  <2>7. gap[n] = n - Cardinality(P \cap 1..n)
    <3>1. {j \in 1..n : StaysAt(S, old, j)} = P \cap 1..n
      BY <1>4
    <3>2. gap[n] = n - Cardinality({j \in 1..n : StaysAt(S, old, j)})
      BY <1>1, GapsGrow
    <3> QED
      BY <3>1, <3>2
  <2>8. PICK c, d : c = Cardinality(S \cap ToSet(old)) /\ d = Cardinality(P \cap 1..n)
    OBVIOUS
  <2>9. c \in Nat /\ d \in Nat
    BY <2>4, <2>8, FS_Intersection, FS_CardinalityType
  <2> QED
    BY <1>14, <2>3, <2>4, <2>5, <2>6, <2>7, <2>8, <2>9
<1>16. PICK new : new = Condensed(n, S, old, added)
  OBVIOUS
<1>17. PICK phi : phi = [i \in 1..n |-> IF filled[i] # <<>> THEN i ELSE beyond[gap[i] - A]]
  OBVIOUS
<1>18. \A i \in 1..n : new[i] = filled[phi[i]][1]
  <2>1. ASSUME NEW i \in 1..n
        PROVE  new[i] = IF filled[i] # <<>> THEN filled[i][1] ELSE filled[beyond[gap[i] - A]][1]
    BY <1>1, <1>8, <1>13, <1>16 DEF Condensed
  <2> QED
    BY <1>17, <2>1
<1>19. ASSUME NEW i \in 1..n, filled[i] = <<>>
       PROVE  /\ i \notin P /\ gap[i] - A \in 1..Len(beyond) /\ phi[i] = beyond[gap[i] - A]
              /\ phi[i] \in D /\ phi[i] > n /\ filled[phi[i]] # <<>>
  <2>1. i \in D /\ i \in Nat \ {0} /\ i <= n
    BY <1>9
  <2>2. i \notin P /\ ~(gap[i] <= A)
    BY <1>10, <1>19, <2>1
  <2>3. gap[i] \in Nat /\ gap[n] \in Nat /\ gap[i] <= gap[n] /\ Len(beyond) \in Nat
    BY <1>5, <1>14, <2>1
  <2>4. gap[i] - A \in 1..Len(beyond)
    BY <1>2, <1>15, <2>2, <2>3
  <2>5. beyond[gap[i] - A] \in ToSet(beyond)
    BY <1>14, <2>4, SetOf
  <2>6. phi[i] = beyond[gap[i] - A]
    BY <1>17, <1>19
  <2> QED
    BY <1>9, <1>14, <2>2, <2>4, <2>5, <2>6
<1>20. ASSUME NEW i \in 1..n, filled[i] # <<>> PROVE phi[i] = i /\ phi[i] \in D
  BY <1>9, <1>17, <1>20
<1>21. ASSUME NEW i \in 1..n, NEW j \in 1..n, phi[i] = phi[j] PROVE i = j
  <2>1. CASE filled[i] = <<>> /\ filled[j] = <<>>
    <3>1. /\ i \notin P /\ j \notin P /\ gap[i] - A \in 1..Len(beyond) /\ gap[j] - A \in 1..Len(beyond)
          /\ beyond[gap[i] - A] = beyond[gap[j] - A]
      BY <1>19, <1>21, <2>1
    <3>2. gap[i] - A = gap[j] - A
      BY <1>14, <3>1 DEF IsInjective
    <3>3. gap[i] \in Nat /\ gap[j] \in Nat
      BY <1>5
    <3>4. gap[i] = gap[j]
      BY <1>2, <3>2, <3>3
    <3> QED
      BY <1>6, <3>1, <3>4
  <2>2. CASE filled[i] # <<>> /\ filled[j] # <<>>
    BY <1>20, <1>21, <2>2
  <2>3. ASSUME NEW k \in 1..n, NEW m \in 1..n, filled[k] = <<>>, filled[m] # <<>> PROVE phi[k] # phi[m]
    BY <1>19, <1>20, <2>3
  <2> QED
    BY <1>21, <2>1, <2>2, <2>3
<1>22. \A i \in 1..n : phi[i] \in D /\ filled[phi[i]] # <<>>
  BY <1>19, <1>20
<1>23. \A i \in 1..n : new[i] \in S
  BY <1>11, <1>18, <1>22
<1>24. \A i, j \in 1..n : new[i] = new[j] => i = j
  BY <1>12, <1>18, <1>21, <1>22
<1>25. new \in Seq(S) /\ new \in Seq(T) /\ Len(new) = n /\ DOMAIN new = 1..n
  BY <1>16, <1>23 DEF Condensed
<1>26. IsInjective(new)
  BY <1>24, <1>25 DEF IsInjective
<1>27. ToSet(new) \in SUBSET S
  BY <1>25, SetOf
<1>28. Cardinality(ToSet(new)) = n
  BY <1>25, <1>26, Members
<1>29. ToSet(new) = S
  BY <1>27, <1>28, FS_Subset
<1> QED
  BY <1>16, <1>25, <1>26, <1>29

\* The batch of a step is that of the requests that stay and of those that come, each of them once.
LEMMA BatchIs ==
    ASSUME Inv, Agreed, pc = "execute"
    PROVE  UpdatedBatch \in Seq(Requests) /\ IsInjective(UpdatedBatch) /\ ToSet(UpdatedBatch) = Scheduled
<1>1. PICK order, new : order = out.order /\ new = out.new
  OBVIOUS
<1>2. /\ order \in Seq(Requests) /\ IsInjective(order) /\ Scheduled = ToSet(order)
      /\ batch \in Seq(Requests) /\ IsInjective(batch) /\ Scheduled \subseteq ToSet(running)
  BY <1>1 DEF Inv, Numbers, Counted, Agreed, Chosen, Scheduled
<1>3. Scheduled \subseteq Requests /\ Len(order) \in Nat
  BY <1>2, SetOf
<1>4. Scheduled \cap finished = {}
  BY <1>2, <1>3 DEF Agreed, Places
<1>5. IsFiniteSet(Scheduled) /\ Cardinality(Scheduled) = Len(order)
  BY <1>2, Members
<1>6. PICK there : there = ToSet(batch) \ finished
  OBVIOUS
<1>7. Scheduled \ there = Scheduled \ ToSet(batch)
  BY <1>4, <1>6
<1>8. PICK these, those : these = Without(order, there \cup (Scheduled \ new)) /\ those = Without(order, there \cup new)
  OBVIOUS
<1>9. /\ these \in Seq(Requests) /\ IsInjective(these) /\ ToSet(these) = Scheduled \ (there \cup (Scheduled \ new))
      /\ those \in Seq(Requests) /\ IsInjective(those) /\ ToSet(those) = Scheduled \ (there \cup new)
  BY <1>2, <1>8, Filtered
<1>10. PICK added : added = these \o those
  OBVIOUS
<1>11. added \in Seq(Requests) /\ IsInjective(added) /\ ToSet(added) = Scheduled \ ToSet(batch)
  BY <1>7, <1>9, <1>10, Joined, JoinedApart
<1>12. PICK n, S : n = Len(order) /\ S = Scheduled \ finished
  OBVIOUS
<1>13. S = Scheduled
  BY <1>4, <1>12
<1>14. UpdatedBatch = Condensed(n, S, batch, added)
  BY <1>1, <1>6, <1>8, <1>10, <1>12 DEF UpdatedBatch, Condensed, BeyondOf, FilledBy, GapsTo, StaysAt
<1>15. n \in Nat /\ S \in SUBSET Requests /\ IsFiniteSet(S) /\ Cardinality(S) = n /\ ToSet(added) = S \ ToSet(batch)
  BY <1>3, <1>5, <1>11, <1>12, <1>13
<1>16. PICK b : b = Condensed(n, S, batch, added)
  OBVIOUS
<1>17. b \in Seq(Requests) /\ IsInjective(b) /\ ToSet(b) = S
  BY <1>2, <1>11, <1>15, <1>16, CondensedIs
<1> QED
  BY <1>13, <1>14, <1>16, <1>17

\* What the worker attends with in a step is what the scheduler allocated.
LEMMA AgreedTables == ASSUME Inv, Agreed PROVE TablesAgree
<1>1. ASSUME pc = "execute" PROVE \A r \in Scheduled : UpdatedHeld[r] = blocks[r] /\ UpdatedRows[r] = blocks[r]
  BY <1>1, SentAre
<1> QED
  BY <1>1, BatchIs DEF TablesAgree

\* At first nothing is allocated, and nothing known.
LEMMA AgreedFirst == ASSUME EngineInit PROVE Agreed
BY Empty DEF EngineInit, Agreed, Places, Told, Chosen, InTurn, Rowed

\* Every step of the engine keeps the tables in agreement.
LEMMA EngineAgrees == ASSUME Inv, Agreed, EngineStep PROVE Agreed'
<1>1. CASE Loops
  BY <1>1, LoopsAgree DEF Loops
<1>2. CASE Turned
  <2>1. PICK r \in ToSet(running) : \E slots, a :
             Sound(r, a) /\ Reports(r, slots, a) /\ ScheduleRunning(r, slots, a) /\ UNCHANGED preempt_req_output_tokens
    BY <1>2 DEF Turned
  <2>2. PICK slots, a : /\ Sound(r, a) /\ Reports(r, slots, a) /\ ScheduleRunning(r, slots, a)
                        /\ UNCHANGED preempt_req_output_tokens
    BY <2>1
  <2>3. CASE a.ok
    BY <2>2, <2>3, ServedAgree
  <2>4. CASE ~a.ok
    BY <2>2, <2>4, PreemptAgree
  <2> QED
    BY <2>3, <2>4
<1>3. CASE Admitted
  <2>1. PICK r \in ToSet(waiting) : \E from \in Int : \E slots, a :
             Sound(r, a) /\ (~a.ok => a.blocks = <<>>) /\ ScheduleWaiting(r, slots, from, a)
    BY <1>3 DEF Admitted
  <2>2. PICK from \in Int : \E slots, a : Sound(r, a) /\ (~a.ok => a.blocks = <<>>) /\ ScheduleWaiting(r, slots, from, a)
    BY <2>1
  <2>3. PICK slots, a : Sound(r, a) /\ (~a.ok => a.blocks = <<>>) /\ ScheduleWaiting(r, slots, from, a)
    BY <2>2
  <2>4. blocks[r] = <<>>
    BY SetOf DEF Inv, Queues, Pool
  <2> QED
    BY <2>3, <2>4, AdmittedAgree
<1>4. CASE Clients
  BY <1>4, ClientsAgree DEF Clients
<1>5. CASE Left
  BY <1>5, BatchIs, LeavesAgree DEF Left, Leaves
<1>6. CASE Beside
  BY <1>6, AgreedFrame DEF Beside, agreedVars, schedulerVars, scheduleVars
<1> QED
  BY <1>1, <1>2, <1>3, <1>4, <1>5, <1>6 DEF EngineStep

\* Both hold at first.
LEMMA StartAgreed == Init => Inv /\ Agreed
<1>1. ASSUME Init PROVE EngineInit
  BY <1>1 DEF Init, ESA!Init, ESA!EngineInit, EngineInit, ESA!Junk, Junk, ESA!NoOutput, NoOutput
<1> QED
  BY <1>1, InitInv, AgreedFirst

\* The block tables the worker attends with in a step are those the scheduler allocated, and its batch has each
\* scheduled request once: with any method, prompts and limits, whether a table grew, was replaced by a compressed
\* one, left the batch or came back (schedule, _update_states).
THEOREM WorkerTablesAgree == Spec => []TablesAgree
<1>1. Init => Inv /\ Agreed
  BY StartAgreed
<1>2. Inv /\ Agreed /\ [Next]_vars => (Inv /\ Agreed)'
  BY StepIs, EngineKeeps, EngineAgrees
<1>3. Inv /\ Agreed => TablesAgree
  BY AgreedTables
<1> QED
  BY <1>1, <1>2, <1>3, PTL DEF Spec

----------------------------------------------------------------------------
(* What a method keeps of a request.                                       *)

(* the requests a method has something of *)
Remembered == UNION {DOMAIN esa_states, DOMAIN star_states, DOMAIN is_prefill_flag, DOMAIN gsa_stats,
                     DOMAIN cache_map, DOMAIN is_gsa_req_id}

(* the requests that are not done, or whose end the worker is yet to be told *)
Alive == {r \in Requests : status[r] # "FINISHED" \/ r \in finished}

(* A method that is not the agent keeps nothing. *)
OnlyAgent ==
    /\ load.method # "ESA" => DOMAIN esa_states = {}
    /\ load.method # "KVStarMultiStep" => DOMAIN star_states = {}
    /\ load.method # "GSAOnDevice" => DOMAIN is_prefill_flag = {}
    /\ load.method # "GSA" => DOMAIN gsa_stats = {} /\ DOMAIN cache_map = {} /\ DOMAIN is_gsa_req_id = {}

Forgotten == OnlyAgent /\ Remembered \subseteq Alive

(* A step that ends forgets who was finished and adds who was scheduled; others leave what is kept as it is. *)
Ends == pc = "execute" /\ pc' = "idle"
Forgets(f) == IF Ends THEN DOMAIN f' \subseteq (DOMAIN f \ finished) \cup Scheduled ELSE DOMAIN f' = DOMAIN f

\* ESA has a state of the requests that may be compressed (request_finished_in_worker, build_sparse_meta).
LEMMA EsaForgets == ASSUME ESA!Next PROVE Forgets(esa_states)
<1>1. CASE (ESA!Schedule \/ ESA!RunningDone \/ ESA!WaitingDone) /\ UNCHANGED ESA!esaVars
  BY <1>1 DEF ESA!Schedule, ESA!RunningDone, ESA!WaitingDone, Forgets, Ends, ESA!esaVars
<1>2. CASE ESA!RunningTurn \/ ESA!WaitingTurn
  BY <1>2 DEF ESA!RunningTurn, ESA!WaitingTurn, ESA!CanAdmit, ESA!esaVars, Forgets, Ends
<1>3. CASE ESA!Execute
  <2>1. DOMAIN esa_states' = (DOMAIN esa_states \ finished) \cup ESA!InMeta
    BY <1>3, Zenon DEF ESA!Execute
  <2>2. ESA!InMeta \subseteq Scheduled
    BY DEF ESA!InMeta, ESA!Scheduled, Scheduled, ESA!ToSet, ToSet
  <2>3. Ends
    BY <1>3, Zenon DEF ESA!Execute, ESA!StepEnds, Ends
  <2> QED
    BY <2>1, <2>2, <2>3 DEF Forgets
<1>4. CASE ESA!LoadLands
  BY <1>4 DEF ESA!LoadLands, ESA!scheduleVars, Forgets, Ends
<1>5. CASE ESA!Clients
  BY <1>5 DEF ESA!Clients, ESA!Arrive, ESA!Abort, ESA!esaVars, Forgets, Ends
<1> QED
  BY <1>1, <1>2, <1>3, <1>4, <1>5 DEF ESA!Next, ESA!Steps

\* KVStar has a state of the requests of more than a block (request_finished_in_worker, build_sparse_meta).
LEMMA StarForgets == ASSUME KVStar!Next PROVE Forgets(star_states)
<1>1. CASE (KVStar!Schedule \/ KVStar!RunningDone \/ KVStar!WaitingDone) /\ UNCHANGED KVStar!starVars
  BY <1>1 DEF KVStar!Schedule, KVStar!RunningDone, KVStar!WaitingDone, Forgets, Ends, KVStar!starVars
<1>2. CASE KVStar!RunningTurn \/ KVStar!WaitingTurn
  BY <1>2 DEF KVStar!RunningTurn, KVStar!WaitingTurn, KVStar!CanAdmit, KVStar!starVars, Forgets, Ends
<1>3. CASE KVStar!Execute
  <2>1. DOMAIN star_states' = (DOMAIN star_states \ finished) \cup KVStar!InMeta
    BY <1>3, Zenon DEF KVStar!Execute
  <2>2. KVStar!InMeta \subseteq Scheduled
    BY DEF KVStar!InMeta, KVStar!Scheduled, Scheduled, KVStar!ToSet, ToSet
  <2>3. Ends
    BY <1>3, Zenon DEF KVStar!Execute, KVStar!StepEnds, Ends
  <2> QED
    BY <2>1, <2>2, <2>3 DEF Forgets
<1>4. CASE KVStar!LoadLands
  BY <1>4 DEF KVStar!LoadLands, KVStar!scheduleVars, Forgets, Ends
<1>5. CASE KVStar!Clients
  BY <1>5 DEF KVStar!Clients, KVStar!Arrive, KVStar!Abort, KVStar!starVars, Forgets, Ends
<1> QED
  BY <1>1, <1>2, <1>3, <1>4, <1>5 DEF KVStar!Next, KVStar!Steps

\* GSAOnDevice has a flag of the long requests (update_states, build_sparse_meta).
LEMMA HashForgets == ASSUME Hash!Next PROVE Forgets(is_prefill_flag)
<1>1. CASE (Hash!Schedule \/ Hash!RunningDone \/ Hash!WaitingDone) /\ UNCHANGED Hash!gsaVars
  BY <1>1 DEF Hash!Schedule, Hash!RunningDone, Hash!WaitingDone, Forgets, Ends, Hash!gsaVars
<1>2. CASE Hash!RunningTurn \/ Hash!WaitingTurn
  BY <1>2 DEF Hash!RunningTurn, Hash!WaitingTurn, Hash!CanAdmit, Hash!gsaVars, Forgets, Ends
<1>3. CASE Hash!Execute
  BY <1>3 DEF Hash!Flags, Hash!Restrict, Hash!Execute, Hash!UpdatedFlags, Hash!Scheduled, Scheduled, Hash!ToSet,
    ToSet, Hash!StepEnds, Ends, Forgets
<1>4. CASE Hash!Clients
  BY <1>4 DEF Hash!Clients, Hash!Arrive, Hash!Abort, Hash!gsaVars, Forgets, Ends
<1> QED
  BY <1>1, <1>2, <1>3, <1>4 DEF Hash!Next, Hash!Steps

(* g says what is free and taken after each of the first k requests of a step had its slot. *)
SlotsBy(g, k) ==
    /\ \A i \in 0..k : g[i] = IF i = 0 THEN GSA!Freed ELSE GSA!Alloc(g[i - 1], out.order[i])
    /\ g = [i \in 0..k |-> g[i]]

\* Slots can be given to any number of requests.
LEMMA SlotsExist == ASSUME NEW k \in Nat PROVE \E g : SlotsBy(g, k)
<1> DEFINE T == {i \in Nat : ~\E g : SlotsBy(g, i)}
<1>1. ASSUME T # {} PROVE FALSE
  <2>1. PICK x \in T : \A y \in T : x <= y
    BY <1>1, NatLeast
  <2>2. CASE x = 0
    <3>1. SlotsBy([i \in 0..0 |-> GSA!Freed], 0)
      BY DEF SlotsBy
    <3> QED
      BY <2>1, <2>2, <3>1
  <2>3. CASE x # 0
    <3>1. x - 1 \in Nat /\ x - 1 \notin T
      BY <2>1, <2>3
    <3>2. PICK g : SlotsBy(g, x - 1)
      BY <3>1
    <3> DEFINE h == [i \in 0..x |-> IF i < x THEN g[i] ELSE GSA!Alloc(g[x - 1], out.order[x])]
    <3>3. \A i \in 0..(x - 1) : h[i] = g[i]
      BY <3>1
    <3>4. h[x] = GSA!Alloc(h[x - 1], out.order[x])
      BY <3>1, <3>3
    <3>5. h = [i \in 0..x |-> h[i]]
      OBVIOUS
    <3> HIDE DEF h
    <3>6. ASSUME NEW i \in 0..x
          PROVE h[i] = IF i = 0 THEN GSA!Freed ELSE GSA!Alloc(h[i - 1], out.order[i])
      <4>1. CASE i = x
        BY <2>3, <3>4, <4>1
      <4>2. CASE i = 0
        <5>1. 0 \in 0..(x - 1) /\ h[0] = g[0]
          BY <3>1, <3>3
        <5>2. g[0] = GSA!Freed
          BY <3>2, <5>1 DEF SlotsBy
        <5> QED
          BY <4>2, <5>1, <5>2
      <4>3. CASE i \in 1..(x - 1)
        <5>1. h[i] = g[i] /\ h[i - 1] = g[i - 1] /\ i # 0 /\ i \in 0..(x - 1)
          BY <3>3, <4>3
        <5>2. g[i] = GSA!Alloc(g[i - 1], out.order[i])
          BY <3>2, <5>1 DEF SlotsBy
        <5> QED
          BY <5>1, <5>2
      <4> QED
        BY <4>1, <4>2, <4>3
    <3>7. SlotsBy(h, x)
      BY <3>5, <3>6 DEF SlotsBy
    <3> QED
      BY <2>1, <3>7
  <2> QED
    BY <2>2, <2>3
<1> QED
  BY <1>1

\* Slots are taken from the requests that are finished and given to those of the step (TopKAndKpreManger).
LEMMA SlotsOf ==
    ASSUME out.order \in Seq(Requests)
    PROVE  DOMAIN GSA!SlotsAllocated.map \subseteq (DOMAIN cache_map \ finished) \cup Scheduled
<1> DEFINE n == Len(out.order)
           F(g) == [i \in 0..n |-> IF i = 0 THEN GSA!Freed ELSE GSA!Alloc(g[i - 1], out.order[i])]
           allocated == CHOOSE g : g = F(g)
           D == (DOMAIN cache_map \ finished) \cup Scheduled
           Good(i) == DOMAIN allocated[i].map \subseteq D
<1>1. n \in Nat /\ DOMAIN out.order = 1..n /\ \A i \in 1..n : out.order[i] \in Scheduled
  BY SetOf DEF Scheduled
<1>2. PICK g : SlotsBy(g, n)
  BY <1>1, SlotsExist
<1>3. g = F(g)
  BY <1>1, <1>2 DEF SlotsBy
<1>4. allocated = F(allocated)
  <2> HIDE DEF F
  <2> QED
    BY <1>3
<1>5. GSA!SlotsAllocated = allocated[n]
  BY DEF GSA!SlotsAllocated
<1> HIDE DEF allocated
<1>6. \A i \in 0..n : allocated[i] = IF i = 0 THEN GSA!Freed ELSE GSA!Alloc(allocated[i - 1], out.order[i])
  BY <1>4
<1> HIDE DEF n
<1>7. Good(0)
  <2>1. DOMAIN GSA!Freed.map = DOMAIN cache_map \ (DOMAIN cache_map \cap finished)
    BY DEF GSA!Freed, GSA!Restrict
  <2>2. allocated[0] = GSA!Freed
    BY <1>1, <1>6
  <2> QED
    BY <2>1, <2>2
<1>8. ASSUME NEW i \in 1..n, Good(i - 1) PROVE Good(i)
  <2>1. allocated[i] = GSA!Alloc(allocated[i - 1], out.order[i]) /\ out.order[i] \in Scheduled
    BY <1>1, <1>6
  <2>2. PICK before, r : before = allocated[i - 1] /\ r = out.order[i]
    OBVIOUS
  <2>3. DOMAIN GSA!Alloc(before, r).map \subseteq DOMAIN before.map \cup {r}
    BY DEF GSA!Alloc, GSA!Put
  <2> QED
    BY <1>8, <2>1, <2>2, <2>3
<1>9. Good(n)
  <2> DEFINE B == {i \in 0..n : ~Good(i)}
  <2>1. B \in SUBSET Nat
    BY <1>1
  <2>2. ASSUME B # {} PROVE FALSE
    <3>1. PICK x \in B : \A y \in B : x <= y
      BY <2>1, <2>2, NatLeast
    <3>2. x # 0 /\ x \in 0..n /\ ~Good(x)
      BY <1>7, <3>1
    <3>3. x - 1 \in 0..n /\ x \in 1..n /\ x - 1 \notin B
      BY <1>1, <3>1, <3>2
    <3>4. Good(x - 1)
      BY <3>3
    <3> QED
      BY <1>8, <3>2, <3>3, <3>4
  <2> QED
    BY <1>1, <2>2
<1> QED
  BY <1>5, <1>9

\* GSA has a state, a slot and the way of its run of a request
\* (get_model_input, TopKAndKpreManger, GSAPrefetchBase).
LEMMA GsaForgets ==
    ASSUME GSA!Next, out.order \in Seq(Requests)
    PROVE  Forgets(gsa_stats) /\ Forgets(cache_map) /\ Forgets(is_gsa_req_id)
<1>1. CASE (GSA!Schedule \/ GSA!RunningDone \/ GSA!WaitingDone) /\ UNCHANGED GSA!gsaVars
  <2>1. pc # "execute"
    BY <1>1, Zenon DEF GSA!Schedule, GSA!RunningDone, GSA!WaitingDone
  <2> QED
    BY <1>1, <2>1 DEF Forgets, Ends, GSA!gsaVars
<1>2. CASE GSA!RunningTurn \/ GSA!WaitingTurn
  BY <1>2 DEF GSA!RunningTurn, GSA!WaitingTurn, GSA!CanAdmit, Forgets, Ends, GSA!gsaVars
<1>3. CASE GSA!Execute
  <2>1. gsa_stats' = GSA!StatsUsed /\ cache_map' = GSA!SlotsAllocated.map /\ is_gsa_req_id' = GSA!RunTypes
    BY <1>3, Zenon DEF GSA!Execute
  <2>2. GSA!Scheduled = Scheduled
    BY DEF GSA!Scheduled, Scheduled, GSA!ToSet, ToSet
  <2>3. Ends
    BY <1>3, Zenon DEF GSA!Execute, GSA!StepEnds, Ends
  <2>4. DOMAIN GSA!StatsUsed = (DOMAIN gsa_stats \ finished) \cup Scheduled
    BY <2>2 DEF GSA!StatsBuilt, GSA!Dealt, GSA!StatsUsed
  <2>5. DOMAIN GSA!RunTypes = (DOMAIN is_gsa_req_id \ (finished \cup out.resumed)) \cup GSA!Scheduled
    BY Zenon DEF GSA!RunTypes
  <2>6. DOMAIN GSA!SlotsAllocated.map \subseteq (DOMAIN cache_map \ finished) \cup Scheduled
    BY SlotsOf
  <2> QED
    BY <2>1, <2>2, <2>3, <2>4, <2>5, <2>6 DEF Forgets
<1>4. CASE GSA!CopyTakes \/ GSA!CopyDone \/ GSA!CalculateBegins \/ GSA!CalForOneLayer \/ GSA!CalculateEnds \/ GSA!CalculateAtOnce
  BY <1>4 DEF GSA!CopyTakes, GSA!CopyDone, GSA!CalculateBegins, GSA!CalForOneLayer, GSA!CalculateEnds,
    GSA!CalculateAtOnce, GSA!Threads, GSA!engineVars, GSA!scheduleVars, Forgets, Ends
<1>5. CASE GSA!Clients
  BY <1>5 DEF GSA!Clients, GSA!Arrive, GSA!Abort, Forgets, Ends, GSA!gsaVars
<1> QED
  BY <1>1, <1>2, <1>3, <1>4, <1>5 DEF GSA!Next, GSA!Steps

\* What is kept is of the agent only, and goes as the agent lets it go.
LEMMA AgentForgets ==
    ASSUME OnlyAgent, Next, load' = load, out.order \in Seq(Requests)
    PROVE  /\ OnlyAgent'
           /\ IF Ends THEN Remembered' \subseteq (Remembered \ finished) \cup Scheduled ELSE Remembered' = Remembered
<1>1. CASE EsaNext
  BY <1>1, EsaForgets DEF EsaNext, starVars, hashVars, gsaVars, OnlyAgent, Remembered, Forgets
<1>2. CASE KVStarNext
  BY <1>2, StarForgets DEF KVStarNext, esaVars, hashVars, gsaVars, OnlyAgent, Remembered, Forgets
<1>3. CASE HashNext
  BY <1>3, HashForgets DEF HashNext, esaVars, starVars, gsaVars, OnlyAgent, Remembered, Forgets
<1>4. CASE GsaNext
  BY <1>4, GsaForgets DEF GsaNext, esaVars, starVars, hashVars, OnlyAgent, Remembered, Forgets
<1>5. CASE ReropeNext
  BY <1>5 DEF ReropeNext, esaVars, starVars, hashVars, gsaVars, OnlyAgent, Remembered
<1> QED
  BY <1>1, <1>2, <1>3, <1>4, <1>5 DEF Next

\* While a step goes on, and between two, nobody is forgotten: who leaves is reported.
LEMMA AliveStays ==
    ASSUME Inv, EngineStep
    PROVE  /\ load' = load
           /\ IF Ends THEN \A r \in Requests : r \in Alive' <=> status[r] # "FINISHED" \/ r \in Stopped
              ELSE Alive \subseteq Alive'
<1>1. status \in [Requests -> Statuses]
  BY DEF Inv, Queues
<1>2. CASE Loops
  BY <1>2 DEF Loops, Schedule, RunningDone, WaitingDone, schedulerVars, Ends, Alive
<1>3. CASE Turned
  <2>1. PICK r, slots, a : ScheduleRunning(r, slots, a)
    BY <1>3 DEF Turned
  <2>2. pc = "running" /\ UNCHANGED <<load, finished>>
    BY <2>1, Zenon DEF ScheduleRunning, PreemptLast
  <2>3. status' = status \/ \E victim : status' = [status EXCEPT ![victim] = "PREEMPTED"]
    BY <2>1, Zenon DEF ScheduleRunning, PreemptLast
  <2>4. \A q \in Requests : status[q] # "FINISHED" => status'[q] # "FINISHED"
    BY <1>1, <2>3
  <2> QED
    BY <2>2, <2>4 DEF Alive, Ends
<1>4. CASE Admitted
  <2>1. PICK r, slots, from, a : ScheduleWaiting(r, slots, from, a)
    BY <1>4 DEF Admitted
  <2>2. pc = "waiting" /\ UNCHANGED <<load, finished>>
    BY <2>1, Zenon DEF ScheduleWaiting, CanAdmit
  <2>3. status' = status \/ status' = [status EXCEPT ![r] = "RUNNING"]
    BY <2>1, Zenon DEF ScheduleWaiting
  <2>4. \A q \in Requests : status[q] # "FINISHED" => status'[q] # "FINISHED"
    BY <1>1, <2>3
  <2> QED
    BY <2>2, <2>4 DEF Alive, Ends
<1>5. CASE Clients
  <2>1. PICK r \in Requests : Arrive(r) \/ Abort(r)
    BY <1>5 DEF Clients
  <2>2. pc = "idle" /\ load' = load
    BY <2>1 DEF Arrive, Abort
  <2>3. \/ status' = [status EXCEPT ![r] = "WAITING"] /\ finished' = finished
        \/ status' = [status EXCEPT ![r] = "FINISHED"] /\ finished' = finished \cup {r}
    BY <2>1 DEF Arrive, Abort
  <2>4. \A q \in Requests : status[q] # "FINISHED" => status'[q] # "FINISHED" \/ q \in finished'
    BY <1>1, <2>3
  <2>5. finished \subseteq finished'
    BY <2>3
  <2> QED
    BY <2>2, <2>4, <2>5 DEF Alive, Ends
<1>6. CASE Left
  BY <1>6 DEF Left, Leaves, Ends, Alive
<1>7. CASE Beside
  BY <1>7 DEF Beside, schedulerVars, scheduleVars, Ends, Alive
<1> QED
  BY <1>2, <1>3, <1>4, <1>5, <1>6, <1>7 DEF EngineStep

\* What is kept is of requests that are not done, at the end of a step as before it.
LEMMA ForgottenStays ==
    ASSUME Inv, Agreed, Forgotten, EngineStep, [Next]_vars
    PROVE  Forgotten'
<1>1. load' = load
  BY AliveStays
<1>2. CASE UNCHANGED vars
  BY <1>2 DEF vars, engineVars, schedulerVars, esaVars, starVars, hashVars, gsaVars, Forgotten, OnlyAgent,
    Remembered, Alive
<1>3. CASE Next
  <2>1. out.order \in Seq(Requests)
    BY DEF Inv, Numbers, Counted
  <2>2. /\ OnlyAgent'
        /\ IF Ends THEN Remembered' \subseteq (Remembered \ finished) \cup Scheduled ELSE Remembered' = Remembered
    BY <1>1, <1>3, <2>1, AgentForgets DEF Forgotten
  <2>3. CASE ~Ends
    BY <2>2, <2>3, AliveStays DEF Forgotten
  <2>4. CASE Ends
    BY <2>2, <2>4, AliveStays, SetOf DEF Forgotten, Alive, Inv, Queues, Agreed, Chosen, Ends, Places
  <2> QED
    BY <2>3, <2>4
<1> QED
  BY <1>2, <1>3

\* What a method keeps of a request goes when the request does, in whichever order requests come, are preempted and
\* resumed, finish or are given up (request_finished_in_worker, build_sparse_meta, get_model_input).
THEOREM FinishedForgotten == Spec => []NothingStays
<1>1. Init => Inv /\ Agreed /\ Forgotten
  <2>1. ASSUME Init PROVE Forgotten
    BY <2>1 DEF Init, ESA!Init, KVStar!Init, Hash!Init, GSA!Init, Forgotten, OnlyAgent, Remembered
  <2> QED
    BY <2>1, StartAgreed
<1>2. Inv /\ Agreed /\ Forgotten /\ [Next]_vars => (Inv /\ Agreed /\ Forgotten)'
  BY StepIs, EngineKeeps, EngineAgrees, ForgottenStays
<1>3. Forgotten => NothingStays
  BY DEF Forgotten, Remembered, Alive, NothingStays
<1> QED
  BY <1>1, <1>2, <1>3, PTL DEF Spec

----------------------------------------------------------------------------
(* GSAOnDevice: lengths, tables between layers, memory.                    *)

(* what the configuration of a method is to be (GsaOnDeviceAssumption has it) *)
Configured == /\ BlockSize \in Nat \ {0} /\ TopkTokens \in Nat \ {0}
              /\ TopkTokens % BlockSize = 0

----------------------------------------------------------------------------
\* The whole blocks that cover m tokens, and what is beyond them.
LEMMA CeilCovers ==
    ASSUME NEW m \in Nat, NEW b \in Nat \ {0}
    PROVE  Hash!Ceil(m, b) \in Nat /\ Hash!Ceil(m, b) * b >= m /\ Hash!Ceil(m, b) * b < m + b
<1> DEFINE q == (m + b - 1) \div b
           r == (m + b - 1) % b
<1>1. m + b - 1 \in Nat
  OBVIOUS
<1>2. q \in Nat /\ r \in 0..(b - 1) /\ m + b - 1 = b * q + r
  BY <1>1
<1>3. q * b = b * q /\ b * q \in Nat
  BY <1>2
<1> QED
  BY <1>2, <1>3 DEF Hash!Ceil

\* A long sequence is left with as many tokens as the best blocks may hold,
\* more than those but one block hold, and loses whole blocks only
\* (update_seq_lens).
THEOREM LengthsFit ==
    ASSUME Configured, NEW n \in Nat, n > TopkTokens
    PROVE  /\ Hash!update_seq_lens(n) \in 1..TopkTokens
           /\ Hash!update_seq_lens(n) > TopkTokens - BlockSize
           /\ \E d \in Nat : Hash!update_seq_lens(n) = n - d * BlockSize
<1> DEFINE d == Hash!Ceil(n - TopkTokens, BlockSize)
<1>1. n - TopkTokens \in Nat /\ BlockSize \in Nat \ {0} /\ TopkTokens \in Nat
  BY DEF Configured
<1>2. d \in Nat /\ d * BlockSize >= n - TopkTokens /\ d * BlockSize < n - TopkTokens + BlockSize
  BY <1>1, CeilCovers
<1>3. Hash!update_seq_lens(n) = n - d * BlockSize
  BY <1>1 DEF Hash!update_seq_lens
<1>4. d * BlockSize \in Nat
  BY <1>1, <1>2
<1>5. BlockSize <= TopkTokens
  <2>1. TopkTokens % BlockSize = 0 /\ TopkTokens > 0
    BY DEF Configured
  <2>2. CASE TopkTokens < BlockSize
    BY <1>1, <2>1, <2>2
  <2> QED
    BY <1>1, <2>2
<1> HIDE DEF d
<1> QED
  BY <1>1, <1>2, <1>3, <1>4, <1>5

\* A sequence that is short enough keeps all of its tokens.
THEOREM ShortLengthsStay ==
    ASSUME Configured, NEW n \in Nat, n <= TopkTokens
    PROVE  Hash!update_seq_lens(n) = n
<1>1. BlockSize \in Nat \ {0} /\ TopkTokens \in Nat
  BY DEF Configured
<1>2. (0 + BlockSize - 1) \div BlockSize = 0
  BY <1>1
<1> QED
  BY <1>1, <1>2 DEF Hash!update_seq_lens, Hash!Ceil

\* The best blocks are whole ones, more than two.
LEMMA BestFit == Hash!TopkBlocks \in Nat /\ Hash!TopkBlocks > 2 /\ Hash!TopkBlocks * BlockSize = TopkTokens
<1>1. BlockSize \in Nat \ {0} /\ TopkTokens \in Nat /\ TopkTokens % BlockSize = 0 /\ TopkTokens > 2 * BlockSize
  BY SparseEngineAssumption, GsaOnDeviceAssumption
<1>2. PICK q \in Nat : q = TopkTokens \div BlockSize /\ TopkTokens = BlockSize * q + (TopkTokens % BlockSize)
  BY <1>1
<1>3. TopkTokens = BlockSize * q
  BY <1>1, <1>2
<1>4. q > 2
  <2>1. SUFFICES ASSUME q <= 2 PROVE FALSE
    BY <1>2
  <2>2. q = 0 \/ q = 1 \/ q = 2
    BY <2>1
  <2> QED
    BY <1>1, <1>3, <2>2
<1>5. q * BlockSize = BlockSize * q
  BY <1>1
<1> QED
  BY <1>2, <1>3, <1>4, <1>5 DEF Hash!TopkBlocks

\* The remainders of numbers that follow one another, fewer than the divisor, differ.
LEMMA RemaindersDiffer ==
    ASSUME NEW a \in Int, NEW b \in Int, NEW m \in Nat \ {0}, a < b, b - a < m
    PROVE  a % m # b % m
<1>1. a % m \in 0..(m - 1) /\ a = m * (a \div m) + (a % m) /\ a \div m \in Int
  OBVIOUS
<1>2. b % m \in 0..(m - 1) /\ b = m * (b \div m) + (b % m) /\ b \div m \in Int
  OBVIOUS
<1>3. PICK p \in Int, q \in Int, r \in 0..(m - 1) : p = a \div m /\ q = b \div m /\ a % m = r
  BY <1>1, <1>2
<1>4. SUFFICES ASSUME b % m = r PROVE FALSE
  BY <1>3
<1>5. a = m * p + r /\ b = m * q + r
  BY <1>1, <1>2, <1>3, <1>4
<1>6. PICK d \in Int : d = q - p
  OBVIOUS
<1>7. q = p + d
  BY <1>6
<1>8. m * q = m * p + m * d
  BY <1>7
<1>9. m * d \in Int /\ m * p \in Int /\ m * q \in Int
  OBVIOUS
<1>10. m * d = b - a
  BY <1>5, <1>8, <1>9
<1>11. CASE d >= 1
  <2>1. PICK g \in Nat : d = 1 + g
    BY <1>11
  <2>2. m * d = m + m * g /\ m * g \in Nat
    BY <2>1
  <2> QED
    BY <1>10, <2>2
<1>12. CASE d <= 0
  <2>1. PICK g \in Nat : g = 0 - d
    BY <1>12
  <2>2. d = 0 - g
    BY <2>1
  <2>3. m * d = 0 - (m * g) /\ m * g \in Nat
    BY <2>2
  <2> QED
    BY <1>10, <2>3
<1> QED
  BY <1>11, <1>12

\* What is scored best: the first block and the last, and others between, as many as there is room for.
LEMMA BestAre ==
    ASSUME NEW n \in Nat \ {0}, NEW l \in Nat, NEW top \in Nat
    PROVE  LET last == Hash!Ceil(n, BlockSize)
               k    == IF last <= Hash!TopkBlocks THEN last ELSE Hash!TopkBlocks
           IN /\ Hash!Best(n, l, top) \subseteq 1..last /\ last \in Hash!Best(n, l, top)
              /\ IsFiniteSet(Hash!Best(n, l, top)) /\ Cardinality(Hash!Best(n, l, top)) = k
<1>1. PICK last \in Nat \ {0} : last = Hash!Ceil(n, BlockSize)
  BY SparseEngineAssumption, CeilCovers
<1>2. PICK t \in Nat : t = Hash!TopkBlocks /\ t > 2
  BY BestFit
<1>3. CASE last <= t
  BY <1>1, <1>2, <1>3, FirstPlaces DEF Hash!Best
<1>4. CASE last > t
  <2>1. PICK m \in Nat \ {0} : m = last - 2 /\ t - 2 < m
    BY <1>2, <1>4
  <2>2. PICK c \in Nat : c = top + l
    OBVIOUS
  <2> DEFINE f == [i \in 1..(t - 2) |-> 2 + ((c + i) % m)]
             mid == {2 + ((c + i) % m) : i \in 1..(t - 2)}
  <2>3. Hash!Best(n, l, top) = {1, last} \cup mid
    <3>1. last > t /\ t > 2 /\ last - 2 = m
      BY <1>1, <1>2, <1>4, <2>1
    <3>2. ~(Hash!Ceil(n, BlockSize) <= Hash!TopkBlocks)
      BY <1>1, <1>2, <3>1
    <3>3. Hash!Best(n, l, top) =
            {1, Hash!Ceil(n, BlockSize)}
              \cup {2 + ((top + l + i) % (Hash!Ceil(n, BlockSize) - 2)) : i \in 1..(Hash!TopkBlocks - 2)}
      BY <3>2, Zenon DEF Hash!Best
    <3>4. Hash!Best(n, l, top) = {1, last} \cup {2 + ((c + i) % m) : i \in 1..(t - 2)}
      BY <1>1, <1>2, <2>2, <3>1, <3>3
    <3> QED
      BY <3>4
  <2>4. \A i \in 1..(t - 2) : f[i] \in 2..(last - 1)
    <3>1. ASSUME NEW i \in 1..(t - 2) PROVE 2 + ((c + i) % m) \in 2..(last - 1)
      BY <1>1, <1>2, <2>1, <2>2
    <3> QED
      BY <3>1
  <2>5. \A i, j \in 1..(t - 2) : i # j => f[i] # f[j]
    <3>1. ASSUME NEW i \in 1..(t - 2), NEW j \in 1..(t - 2), i < j PROVE f[i] # f[j]
      BY <1>2, <2>1, <2>2, <3>1, RemaindersDiffer
    <3> HIDE DEF f
    <3>2. \A i, j \in 1..(t - 2) : i # j => i < j \/ j < i
      BY <1>2
    <3> QED
      BY <3>1, <3>2
  <2>6. mid = {f[i] : i \in 1..(t - 2)} /\ DOMAIN f = 1..(t - 2)
    OBVIOUS
  <2> HIDE DEF f, mid
  <2>7. IsFiniteSet(mid) /\ Cardinality(mid) = t - 2
    <3>1. t - 2 \in Nat
      BY <1>2
    <3>2. IsFiniteSet(1..(t - 2)) /\ Cardinality(1..(t - 2)) = t - 2
      BY <3>1, FirstPlaces
    <3>3. [i \in 1..(t - 2) |-> f[i]] \in Bijection(1..(t - 2), mid)
      BY <2>5, <2>6 DEF Bijection, Injection, Surjection, IsInjective
    <3>4. ExistsBijection(1..(t - 2), mid)
      BY <3>3 DEF ExistsBijection
    <3> QED
      BY <3>2, <3>4, FS_Bijection
  <2>8. mid \subseteq 2..(last - 1)
    BY <2>4, <2>6
  <2>9. 1 \notin mid /\ last \notin mid \cup {1}
    BY <1>2, <1>4, <2>8
  <2>10. IsFiniteSet(mid \cup {1}) /\ Cardinality(mid \cup {1}) = t - 2 + 1
    BY <2>7, <2>9, FS_AddElement
  <2>11. IsFiniteSet((mid \cup {1}) \cup {last}) /\ Cardinality((mid \cup {1}) \cup {last}) = t - 2 + 1 + 1
    BY <2>9, <2>10, FS_AddElement
  <2>12. Hash!Best(n, l, top) = (mid \cup {1}) \cup {last}
    BY <2>3
  <2>13. t - 2 + 1 + 1 = t
    BY <1>2
  <2>14. Hash!Best(n, l, top) \subseteq 1..last /\ last \in Hash!Best(n, l, top)
    <3>1. 2..(last - 1) \subseteq 1..last /\ 1 \in 1..last /\ last \in 1..last
      BY <1>1
    <3> QED
      BY <2>8, <2>12, <3>1
  <2>15. ~(last <= t)
    BY <1>2, <1>4
  <2> QED
    BY <1>1, <1>2, <2>11, <2>12, <2>13, <2>14, <2>15
<1> QED
  BY <1>1, <1>2, <1>3, <1>4

\* Where a position is, and which position a place in a block is.
LEMMA PositionOf ==
    ASSUME NEW p \in Nat \ {0}
    PROVE  /\ Hash!BlockOf(p) \in Nat \ {0} /\ Hash!PlaceOf(p) \in 1..BlockSize
           /\ p = (Hash!BlockOf(p) - 1) * BlockSize + Hash!PlaceOf(p)
<1>1. BlockSize \in Nat \ {0}
  BY SparseEngineAssumption
<1>2. PICK a \in Nat : a = p - 1
  OBVIOUS
<1>3. a \div BlockSize \in Nat /\ a % BlockSize \in 0..(BlockSize - 1) /\ a = BlockSize * (a \div BlockSize) + (a % BlockSize)
  BY <1>1, <1>2
<1>4. PICK q \in Nat, r \in 0..(BlockSize - 1) : q = a \div BlockSize /\ r = a % BlockSize /\ a = BlockSize * q + r
  BY <1>3
<1>5. Hash!BlockOf(p) = q + 1 /\ Hash!PlaceOf(p) = r + 1
  BY <1>2, <1>4 DEF Hash!BlockOf, Hash!PlaceOf
<1>6. q * BlockSize = BlockSize * q /\ q * BlockSize \in Nat /\ (q + 1) - 1 = q
  BY <1>1
<1>7. p = q * BlockSize + (r + 1)
  BY <1>1, <1>2, <1>4, <1>6
<1> QED
  BY <1>1, <1>4, <1>5, <1>6, <1>7

\* Two positions are the same when their blocks and places are.
LEMMA BlocksApart ==
    ASSUME NEW a \in Nat, NEW b \in Nat, NEW r \in 1..BlockSize, NEW s \in 1..BlockSize,
           a * BlockSize + r = b * BlockSize + s
    PROVE  a = b /\ r = s
BY SparseEngineAssumption, Times

LEMMA PositionAt ==
    ASSUME NEW b \in Nat \ {0}, NEW s \in 1..BlockSize
    PROVE  LET p == (b - 1) * BlockSize + s
           IN p \in Nat \ {0} /\ Hash!BlockOf(p) = b /\ Hash!PlaceOf(p) = s
<1>1. BlockSize \in Nat \ {0}
  BY SparseEngineAssumption
<1>2. PICK c \in Nat : c = b - 1
  OBVIOUS
<1>3. PICK p \in Nat \ {0} : p = c * BlockSize + s
  BY <1>1
<1>4. /\ Hash!BlockOf(p) \in Nat \ {0} /\ Hash!PlaceOf(p) \in 1..BlockSize
      /\ p = (Hash!BlockOf(p) - 1) * BlockSize + Hash!PlaceOf(p)
  BY PositionOf
<1>5. PICK d \in Nat : d = Hash!BlockOf(p) - 1
  BY <1>4
<1>6. d = c /\ Hash!PlaceOf(p) = s
  BY <1>3, <1>4, <1>5, BlocksApart
<1>7. Hash!BlockOf(p) = b
  BY <1>2, <1>4, <1>5, <1>6
<1> QED
  BY <1>2, <1>3, <1>6, <1>7

(* the blocks that are scored best, in their order *)
Order(n, l, top) ==
    LET all == [i \in 1..Hash!Ceil(n, BlockSize) |-> i]
    IN Hash!Without(all, DOMAIN all \ Hash!Best(n, l, top))

(* k of the blocks up to the last, in their order, the last of them too *)
Ordered(last, k, ind, best) ==
    /\ last \in Nat \ {0} /\ k \in Nat \ {0} /\ DOMAIN ind = 1..k /\ ind[k] = last
    /\ \A j \in 1..k : ind[j] \in 1..last /\ (j < k => ind[j] < last)
    /\ \A i, j \in 1..k : ind[i] = ind[j] => i = j
    /\ best = {ind[j] : j \in 1..k}

(* how many are chosen of a request with tokens in so many blocks *)
Taken(last) == IF last <= Hash!TopkBlocks THEN last ELSE Hash!TopkBlocks

\* The blocks that are scored best grow, and the last block of the request is the last of them.
LEMMA OrderIs ==
    ASSUME NEW n \in Nat \ {0}, NEW l \in Nat, NEW top \in Nat
    PROVE  Ordered(Hash!Ceil(n, BlockSize), Taken(Hash!Ceil(n, BlockSize)), Order(n, l, top), Hash!Best(n, l, top))
<1>1. PICK last, k, ind : /\ last = Hash!Ceil(n, BlockSize) /\ ind = Order(n, l, top)
                          /\ k = Taken(last)
  OBVIOUS
<1>2. last \in Nat \ {0}
  <2>1. n \in Nat /\ BlockSize \in Nat \ {0}
    BY SparseEngineAssumption
  <2>2. last \in Nat /\ last * BlockSize >= n
    BY <1>1, <2>1, CeilCovers
  <2>3. last # 0
    BY <2>1, <2>2
  <2> QED
    BY <2>2, <2>3
<1>3. PICK best : best = Hash!Best(n, l, top)
  OBVIOUS
<1>4. k \in Nat \ {0}
  BY <1>1, <1>2, BestFit DEF Taken
<1>5. best \subseteq 1..last /\ last \in best /\ IsFiniteSet(best) /\ Cardinality(best) = k
  BY <1>1, <1>3, BestAre DEF Taken
<1>6. PICK all : all = [i \in 1..last |-> i]
  OBVIOUS
<1>7. all \in Seq(Int) /\ Len(all) = last /\ DOMAIN all = 1..last /\ \A i \in 1..last : all[i] = i
  BY <1>2, <1>6
<1>8. ind = Kept(all, (1..last) \ best)
  <2>1. Order(n, l, top) = Hash!Without(all, DOMAIN all \ best)
    BY <1>1, <1>3, <1>6, Zenon DEF Order
  <2>2. PICK S : S = (1..last) \ best /\ S = DOMAIN all \ best
    BY <1>7
  <2>3. Hash!Without(all, S) = Kept(all, S)
    BY Zenon DEF Hash!Without, Kept
  <2> QED
    BY <1>1, <2>1, <2>2, <2>3
<1>9. IsInjective(all) /\ Rises(all) /\ ToSet(all) = 1..last
  <2>1. IsInjective(all)
    BY <1>7 DEF IsInjective
  <2>2. Rises(all)
    BY <1>7 DEF Rises
  <2>3. ToSet(all) = {all[i] : i \in 1..last}
    BY <1>7, SetOf
  <2>4. {all[i] : i \in 1..last} = 1..last
    BY <1>7
  <2> QED
    BY <2>1, <2>2, <2>3, <2>4
<1>10. ind \in Seq(Int) /\ ToSet(ind) = ToSet(all) \ ((1..last) \ best) /\ IsInjective(ind) /\ Rises(ind)
  BY <1>7, <1>8, <1>9, KeptOf, KeptInOrder
<1>11. ToSet(ind) = best
  BY <1>5, <1>9, <1>10
<1>12. Len(ind) = k
  BY <1>5, <1>10, <1>11, Members
<1>13. DOMAIN ind = 1..k /\ best = {ind[j] : j \in 1..k}
  BY <1>10, <1>11, <1>12, SetOf
<1>14. \A i, j \in 1..k : ind[i] = ind[j] => i = j
  BY <1>10, <1>13 DEF IsInjective
<1>15. PICK z \in 1..k : ind[z] = last
  BY <1>5, <1>13
<1>16. \A j \in 1..k : ind[j] \in 1..last
  BY <1>5, <1>13
<1>17. ind[k] = last
  <2>1. SUFFICES ASSUME z < k PROVE FALSE
    BY <1>4, <1>15
  <2>2. ind[z] < ind[k]
    BY <1>4, <1>10, <1>12, <2>1 DEF Rises
  <2>3. ind[k] \in 1..last
    BY <1>4, <1>16
  <2> QED
    BY <1>2, <1>15, <2>2, <2>3
<1>18. \A j \in 1..k : j < k => ind[j] < last
  BY <1>4, <1>10, <1>12, <1>17 DEF Rises
<1>19. Ordered(last, k, ind, best)
  BY <1>2, <1>4, <1>13, <1>14, <1>16, <1>17, <1>18 DEF Ordered
<1> QED
  BY <1>1, <1>3, <1>19

\* Of a sequence with tokens in `last` blocks, what is left fills all but the last of the k blocks that are chosen,
\* and the last as much as the sequence does.
LEMMA LeftOf ==
    ASSUME NEW n \in Nat \ {0}
    PROVE  LET last == Hash!Ceil(n, BlockSize)
               k    == IF last <= Hash!TopkBlocks THEN last ELSE Hash!TopkBlocks
           IN \E t \in 1..BlockSize : /\ n = (last - 1) * BlockSize + t
                                      /\ Hash!update_seq_lens(n) = (k - 1) * BlockSize + t
<1>1. BlockSize \in Nat \ {0} /\ TopkTokens \in Nat /\ Configured
  BY SparseEngineAssumption, GsaOnDeviceAssumption DEF Configured
<1>2. PICK last \in Nat : last = Hash!Ceil(n, BlockSize) /\ last * BlockSize >= n /\ last * BlockSize < n + BlockSize
  BY <1>1, CeilCovers
<1>3. last * BlockSize \in Nat /\ last # 0
  BY <1>1, <1>2
<1>4. PICK c \in Nat : c = last - 1 /\ last = c + 1
  BY <1>2, <1>3
<1>5. last * BlockSize = c * BlockSize + BlockSize /\ c * BlockSize \in Nat
  BY <1>1, <1>4
<1>6. PICK t \in 1..BlockSize : n = c * BlockSize + t
  BY <1>1, <1>2, <1>5
<1>7. PICK top \in Nat : top = Hash!TopkBlocks /\ top > 2 /\ top * BlockSize = TopkTokens
  BY BestFit
<1>8. CASE n <= TopkTokens
  <2>1. last <= top
    <3>1. SUFFICES ASSUME top < last PROVE FALSE
      BY <1>2, <1>7
    <3>2. top <= c
      BY <1>4, <1>7, <3>1
    <3>3. top * BlockSize <= c * BlockSize
      BY <1>1, <3>2, Times
    <3> QED
      BY <1>1, <1>5, <1>6, <1>7, <1>8, <3>3
  <2>2. Hash!update_seq_lens(n) = n
    BY <1>1, <1>8, ShortLengthsStay
  <2> QED
    BY <1>2, <1>4, <1>6, <1>7, <2>1, <2>2
<1>9. CASE n > TopkTokens
  <2>1. ~(last <= top)
    <3>1. SUFFICES ASSUME last <= top PROVE FALSE
      OBVIOUS
    <3>2. last * BlockSize <= top * BlockSize
      BY <1>1, <3>1, Times
    <3> QED
      BY <1>1, <1>2, <1>3, <1>7, <1>9, <3>2
  <2>2. PICK d \in Nat : Hash!update_seq_lens(n) = n - d * BlockSize
    BY <1>1, <1>9, LengthsFit
  <2>3. Hash!update_seq_lens(n) \in 1..TopkTokens /\ Hash!update_seq_lens(n) > TopkTokens - BlockSize
    BY <1>1, <1>9, LengthsFit
  <2>4. PICK b \in Nat : b = top - 1 /\ top = b + 1
    BY <1>7
  <2>5. TopkTokens = b * BlockSize + BlockSize /\ b * BlockSize \in Nat
    BY <1>1, <1>7, <2>4
  <2>6. PICK s \in 1..BlockSize : Hash!update_seq_lens(n) = b * BlockSize + s
    <3>1. PICK u \in 1..TopkTokens : u = Hash!update_seq_lens(n) /\ u > TopkTokens - BlockSize
      BY <2>3
    <3>2. u - b * BlockSize \in 1..BlockSize
      BY <1>1, <2>5, <3>1
    <3>3. u = b * BlockSize + (u - b * BlockSize)
      BY <2>5
    <3> QED
      BY <3>1, <3>2, <3>3
  <2>7. PICK bd \in Nat : bd = b + d /\ bd * BlockSize = b * BlockSize + d * BlockSize /\ d * BlockSize \in Nat
    BY <1>1
  <2>8. bd * BlockSize + s = c * BlockSize + t
    BY <1>5, <1>6, <2>2, <2>5, <2>6, <2>7
  <2>9. s = t
    BY <2>8, BlocksApart
  <2> QED
    BY <1>2, <1>4, <1>6, <1>7, <2>1, <2>4, <2>6, <2>9
<1> QED
  BY <1>1, <1>8, <1>9

\* What a request attends to in a layer that scored is whole blocks of its own, and its newest token comes last
\* (update_seq_lens, cuda_hamming_topk), when its table has blocks for all of its tokens.
THEOREM RowIs ==
    ASSUME NEW row, Len(row) \in Nat, NEW n \in Int, NEW l \in Nat, NEW top \in Nat, Hash!Ceil(n, BlockSize) <= Len(row)
    PROVE  Hash!RowIsRight(Hash!hamming_topk(row, n, l, top), Hash!update_seq_lens(n), row, n, Hash!Best(n, l, top))
<1>1. BlockSize \in Nat \ {0} /\ TopkTokens \in Nat /\ TopkTokens > 0
  BY SparseEngineAssumption, GsaOnDeviceAssumption
<1>2. CASE n \notin Nat \ {0}
  <2>1. PICK last \in Int : last = Hash!Ceil(n, BlockSize) /\ last <= 0
    <3>1. PICK m \in Int : m = n + BlockSize - 1 /\ m < BlockSize
      BY <1>1, <1>2
    <3>2. m \div BlockSize \in Int /\ m % BlockSize \in 0..(BlockSize - 1)
          /\ m = BlockSize * (m \div BlockSize) + (m % BlockSize)
      BY <1>1
    <3>3. PICK q \in Int : q = m \div BlockSize /\ BlockSize * q <= m
      BY <1>1, <3>2
    <3>4. ~(q >= 1)
      <4>1. SUFFICES ASSUME q >= 1 PROVE FALSE
        OBVIOUS
      <4>2. PICK g \in Nat : q = 1 + g
        BY <4>1
      <4>3. BlockSize * q = BlockSize + BlockSize * g /\ BlockSize * g \in Nat
        BY <1>1, <4>2
      <4> QED
        BY <1>1, <3>1, <3>3, <4>3
    <3>5. Hash!Ceil(n, BlockSize) = q
      BY <3>1, <3>3 DEF Hash!Ceil
    <3> QED
      BY <3>4, <3>5
  <2>2. Hash!Best(n, l, top) = {}
    BY <2>1, BestFit DEF Hash!Best
  <2>3. Hash!update_seq_lens(n) = n
    BY <1>1, <1>2 DEF Hash!update_seq_lens, Hash!Ceil
  <2>4. 1..n = {}
    BY <1>2
  <2> QED
    BY <2>2, <2>3, <2>4 DEF Hash!RowIsRight, Hash!Places
<1>3. CASE n \in Nat \ {0}
  <2>1. PICK last, k, ind : /\ last = Hash!Ceil(n, BlockSize) /\ k = Taken(last)
                            /\ ind = Order(n, l, top)
    OBVIOUS
  <2>2. PICK best, len, new : /\ best = Hash!Best(n, l, top) /\ len = Hash!update_seq_lens(n)
                              /\ new = Hash!hamming_topk(row, n, l, top)
    OBVIOUS
  <2>3. Ordered(last, k, ind, best)
    BY <1>3, <2>1, <2>2, OrderIs
  <2>4. last \in Nat \ {0} /\ k \in Nat \ {0} /\ last <= Len(row) /\ k <= Hash!TopkBlocks
    BY <2>1, <2>3, BestFit DEF Ordered, Taken
  <2>5. PICK t \in 1..BlockSize : n = (last - 1) * BlockSize + t /\ len = (k - 1) * BlockSize + t
    BY <1>3, <2>1, <2>2, LeftOf, Zenon DEF Taken
  <2>6. PICK c \in Nat, b \in Nat : c = last - 1 /\ b = k - 1 /\ n = c * BlockSize + t /\ len = b * BlockSize + t
    BY <2>3, <2>4, <2>5 DEF Ordered
  <2>7. PICK cs \in Nat, bs \in Nat : cs = c * BlockSize /\ bs = b * BlockSize /\ n = cs + t /\ len = bs + t
    <3>1. c * BlockSize \in Nat /\ b * BlockSize \in Nat
      BY <1>1
    <3> QED
      BY <2>6, <3>1
  <2>8. /\ n = cs + t /\ len = bs + t /\ len \in Nat \ {0}
        /\ BlockSize \in Nat /\ t \in Nat \ {0} /\ t <= BlockSize
    BY <1>1, <2>7
  <2>9. /\ DOMAIN new = 1..k /\ \A j \in 1..k : new[j] = row[ind[j]]
    BY <2>1, <2>2, <2>3 DEF Hash!hamming_topk, Order, Ordered
  <2>10. Len(new) = k
    BY <2>3, <2>9 DEF Ordered
  \* position p of the new table is position At(p) of the request
  <2> DEFINE Old(p) == (ind[Hash!BlockOf(p)] - 1) * BlockSize + Hash!PlaceOf(p)
             kept == {p \in 1..n : Hash!BlockOf(p) \in best}
             f == [p \in 1..len |-> Old(p)]
  <2> HIDE DEF Old, kept, f
  <2>11. ASSUME NEW p \in 1..len
         PROVE  /\ Hash!BlockOf(p) \in 1..k /\ Old(p) \in kept
                /\ Hash!BlockOf(Old(p)) = ind[Hash!BlockOf(p)] /\ Hash!PlaceOf(Old(p)) = Hash!PlaceOf(p)
    <3>1. PICK j \in Nat \ {0}, s \in 1..BlockSize : /\ j = Hash!BlockOf(p) /\ s = Hash!PlaceOf(p)
                                                     /\ p = (j - 1) * BlockSize + s
      <4>1. p \in Nat \ {0}
        BY <2>8
      <4> QED
        BY <4>1, PositionOf
    <3>2. PICK a \in Nat, js \in Nat : a = j - 1 /\ js = a * BlockSize /\ p = js + s
      <4>1. j - 1 \in Nat /\ (j - 1) * BlockSize \in Nat
        BY <1>1
      <4> QED
        BY <3>1, <4>1
    <3> s \in Nat \ {0} /\ s <= BlockSize /\ p = js + s
      BY <1>1, <3>2
    <3>3. j <= k
      <4>1. b < a => bs + BlockSize <= js
        BY <1>1, <2>7, <3>2, Times
      <4>2. js + s <= bs + t
        BY <2>7, <2>8, <3>2
      <4>3. ~(b < a)
        BY SMTT(30), <2>8, <4>1, <4>2, SparseEngineAssumption
      <4> QED
        BY <2>3, <2>6, <3>2, <4>3 DEF Ordered
    <3>4. j \in 1..k
      BY <2>3, <3>1, <3>3 DEF Ordered
    <3>5. PICK i \in 1..last : i = ind[j] /\ (j < k => i < last) /\ (j = k => i = last)
      BY <2>3, <3>4 DEF Ordered
    <3>6. PICK o \in Nat, os \in Nat : o = i - 1 /\ os = o * BlockSize
      BY <1>1, <2>4, <3>5
    <3>7. Old(p) = (i - 1) * BlockSize + s /\ Old(p) = os + s
      BY <3>1, <3>5, <3>6 DEF Old
    <3>8. Old(p) \in Nat \ {0} /\ Hash!BlockOf(Old(p)) = i /\ Hash!PlaceOf(Old(p)) = s
      <4>1. i \in Nat \ {0}
        BY <2>4, <3>5
      <4> QED
        BY <3>7, <4>1, PositionAt
    <3>9. os + s <= n
      <4>1. CASE j < k
        <5>1. o < c
          BY <2>4, <2>6, <3>5, <3>6, <4>1
        <5>2. os + BlockSize <= cs
          BY <1>1, <2>7, <3>6, <5>1, Times
        <5> QED
          BY <2>8, <5>2
      <4>2. CASE j = k
        <5>1. os = cs /\ js = bs
          BY <2>6, <2>7, <3>2, <3>5, <3>6, <4>2
        <5>2. s <= t
          BY <2>8, <5>1
        <5> QED
          BY <2>8, <5>1, <5>2
      <4> QED
        BY <2>3, <3>3, <3>1, <4>1, <4>2 DEF Ordered
    <3>10. i \in best
      BY <2>3, <3>4, <3>5 DEF Ordered
    <3>11. Old(p) \in kept
      BY <1>3, <3>7, <3>8, <3>9, <3>10 DEF kept
    <3> QED
      BY <3>1, <3>4, <3>5, <3>8, <3>11
  <2>12. ASSUME NEW q \in kept PROVE \E p \in 1..len : Old(p) = q
    <3>1. q \in Nat \ {0} /\ q <= n /\ Hash!BlockOf(q) \in best
      BY <1>3 DEF kept
    <3>2. PICK i \in Nat \ {0}, s \in 1..BlockSize : /\ i = Hash!BlockOf(q) /\ s = Hash!PlaceOf(q)
                                                     /\ q = (i - 1) * BlockSize + s
      BY <3>1, PositionOf
    <3>3. PICK j \in 1..k : ind[j] = i
      BY <2>3, <3>1, <3>2 DEF Ordered
    <3>4. PICK a \in Nat, js \in Nat : a = j - 1 /\ js = a * BlockSize /\ j \in Nat \ {0}
      BY <1>1, <2>3, <3>3 DEF Ordered
    <3>5. PICK p \in Nat \ {0} : p = (j - 1) * BlockSize + s /\ p = js + s
      BY <1>1, <3>4
    <3> s \in Nat \ {0} /\ s <= BlockSize /\ p = js + s
      BY <1>1, <3>5
    <3>6. Hash!BlockOf(p) = j /\ Hash!PlaceOf(p) = s
      BY <3>4, <3>5, PositionAt
    <3>7. p <= len
      <4>1. CASE j < k
        <5>1. a < b
          BY <2>3, <2>6, <3>4, <4>1 DEF Ordered
        <5>2. js + BlockSize <= bs
          BY <1>1, <2>7, <3>4, <5>1, Times
        <5> QED
          BY <2>8, <5>2
      <4>2. CASE j = k
        <5>1. i = last /\ js = bs
          BY <2>3, <2>6, <2>7, <3>3, <3>4, <4>2 DEF Ordered
        <5>2. q = cs + s
          BY <2>6, <2>7, <3>2, <5>1
        <5>3. s <= t
          BY <2>8, <3>1, <5>2
        <5> QED
          BY <2>8, <5>1, <5>3
      <4> QED
        BY <2>3, <3>3, <4>1, <4>2 DEF Ordered
    <3>8. Old(p) = q
      BY <3>2, <3>3, <3>6 DEF Old
    <3>9. p \in 1..len
      BY <2>8, <3>5, <3>7
    <3> QED
      BY <3>8, <3>9
  <2>13. ASSUME NEW p \in 1..len, NEW q \in 1..len, Old(p) = Old(q) PROVE p = q
    <3>1. Hash!BlockOf(p) \in 1..k /\ Hash!BlockOf(q) \in 1..k
      BY <2>11
    <3>2. ind[Hash!BlockOf(p)] = ind[Hash!BlockOf(q)] /\ Hash!PlaceOf(p) = Hash!PlaceOf(q)
      BY <2>11, <2>13
    <3>3. Hash!BlockOf(p) = Hash!BlockOf(q)
      BY <2>3, <3>1, <3>2 DEF Ordered
    <3>4. p = (Hash!BlockOf(p) - 1) * BlockSize + Hash!PlaceOf(p) /\ q = (Hash!BlockOf(q) - 1) * BlockSize + Hash!PlaceOf(q)
      <4>1. p \in Nat \ {0} /\ q \in Nat \ {0}
        BY <2>8
      <4> QED
        BY <4>1, PositionOf
    <3> QED
      BY <3>2, <3>3, <3>4
  <2>14. Cardinality(kept) = len
    <3>1. f \in Bijection(1..len, kept)
      BY <2>11, <2>12, <2>13 DEF f, Bijection, Injection, Surjection, IsInjective
    <3>2. ExistsBijection(1..len, kept)
      BY <3>1 DEF ExistsBijection
    <3>3. IsFiniteSet(1..len) /\ Cardinality(1..len) = len
      BY <2>8, FirstPlaces
    <3> QED
      BY <3>2, <3>3, FS_Bijection
  <2>15. len <= TopkTokens
    <3>1. k * BlockSize <= Hash!TopkBlocks * BlockSize
      BY <1>1, <2>3, <2>4, BestFit, Times DEF Ordered
    <3>2. k = b + 1 /\ k * BlockSize = bs + BlockSize
      BY <1>1, <2>3, <2>6, <2>7 DEF Ordered
    <3> QED
      BY <1>1, <2>7, <2>8, <3>1, <3>2, BestFit
  <2>16. ASSUME NEW p \in 1..len
         PROVE  Hash!BlockAt(new, p) = Hash!BlockAt(row, Old(p)) /\ Hash!PlaceOf(p) = Hash!PlaceOf(Old(p))
    <3>1. PICK j \in 1..k : j = Hash!BlockOf(p) /\ Hash!BlockOf(Old(p)) = ind[j] /\ Hash!PlaceOf(Old(p)) = Hash!PlaceOf(p)
      BY <2>11
    <3>2. ind[j] \in Nat /\ ind[j] <= Len(row) /\ j <= k
      BY <2>3, <2>4, <3>1 DEF Ordered
    <3>3. Hash!BlockAt(new, p) = new[j] /\ Hash!BlockAt(row, Old(p)) = row[ind[j]]
      BY <2>10, <3>1, <3>2 DEF Hash!BlockAt
    <3> QED
      BY <2>9, <3>1, <3>3
  <2>17. Hash!Places(new, len) = {<<Hash!BlockAt(row, p), Hash!PlaceOf(p)>> : p \in kept}
    BY <2>11, <2>12, <2>16 DEF Hash!Places
  <2>18. best # {}
    <3>1. k \in 1..k
      BY <2>4
    <3>2. ind[k] \in best
      BY <2>3, <3>1 DEF Ordered
    <3> QED
      BY <3>2
  <2>19. kept = {p \in 1..n : Hash!BlockOf(p) \in best}
    BY DEF kept
  <2>20. Hash!RowIsRight(new, len, row, n, best)
    BY <2>14, <2>15, <2>17, <2>18, <2>19, Zenon DEF Hash!RowIsRight, Hash!Cardinality, Cardinality
  <2> QED
    BY <2>2, <2>20
<1> QED
  BY <1>2, <1>3

----------------------------------------------------------------------------
(* GSAOnDevice: the tables of a step, layer by layer.                     *)

(* a step's tensors and metadata between two layers *)
Walk(h, m, o, t, d, s, n, sl, e) ==
    [heap |-> h, meta |-> m, ori |-> o, topk |-> t, has_decode |-> d, sparse |-> s,
     scored |-> n, slice |-> sl, seen |-> e]
Heap(t, c, x) == [table |-> t, clone |-> c, chosen |-> x]

(* a table with n rows *)
Rows(full, n) ==
    \E R, L : full = Hash!Table(R, L) /\ R = [i \in 1..n |-> R[i]] /\ L = [i \in 1..n |-> L[i]]

(* a table whose rows in s have what layer h chooses of the full one *)
Chose(full, s, h, top) == Hash!Scored(full, full, s, h, top)

\* What was scored before is scored anew from the full table.
LEMMA ScoredAgain ==
    ASSUME NEW n \in Nat, NEW full, Rows(full, n), NEW s, NEW g, NEW l, NEW top
    PROVE  /\ Hash!Scored(Chose(full, s, g, top), full, s, l, top) = Chose(full, s, l, top)
           /\ Hash!Scored(full, full, s, l, top) = Chose(full, s, l, top)
<1>1. PICK R, L : full = Hash!Table(R, L) /\ R = [i \in 1..n |-> R[i]] /\ L = [i \in 1..n |-> L[i]]
  BY DEF Rows
<1>2. full.rows = R /\ full.lens = L /\ DOMAIN R = 1..n /\ DOMAIN L = 1..n
  BY <1>1 DEF Hash!Table
<1> DEFINE A(h) == [i \in 1..n |-> IF i \in s THEN Hash!hamming_topk(R[i], L[i], h, top) ELSE R[i]]
           B == [i \in 1..n |-> IF i \in s THEN Hash!update_seq_lens(L[i]) ELSE L[i]]
<1>3. Chose(full, s, g, top) = Hash!Table(A(g), B) /\ Chose(full, s, l, top) = Hash!Table(A(l), B)
  BY <1>2 DEF Chose, Hash!Scored
<1>4. PICK t : t = Chose(full, s, g, top) /\ t.rows = A(g) /\ t.lens = B
  <2>1. Hash!Table(A(g), B).rows = A(g) /\ Hash!Table(A(g), B).lens = B
    BY DEF Hash!Table
  <2> QED
    BY <1>3, <2>1
<1> DEFINE A2 == [i \in DOMAIN t.rows |-> IF i \in s THEN Hash!hamming_topk(full.rows[i], full.lens[i], l, top) ELSE t.rows[i]]
           B2 == [i \in DOMAIN t.lens |-> IF i \in s THEN Hash!update_seq_lens(full.lens[i]) ELSE t.lens[i]]
<1>5. Hash!Scored(t, full, s, l, top) = Hash!Table(A2, B2)
  BY DEF Hash!Scored
<1>6. A2 = A(l)
  BY <1>2, <1>4
<1>7. B2 = B
  BY <1>2, <1>4
<1> HIDE DEF A, B, A2, B2
<1>8. Hash!Scored(t, full, s, l, top) = Chose(full, s, l, top)
  BY <1>3, <1>5, <1>6, <1>7
<1> QED
  BY <1>4, <1>8 DEF Chose

\* The first n rows of n are all of them.
LEMMA AllRows ==
    ASSUME NEW n \in Nat, NEW full, Rows(full, n), NEW s, NEW l, NEW top, NEW u, u = Chose(full, s, l, top)
    PROVE  Len(full.rows) = n /\ Hash!Table(SubSeq(u.rows, 1, n), u.lens) = u
<1>1. PICK R, L : full = Hash!Table(R, L) /\ R = [i \in 1..n |-> R[i]] /\ L = [i \in 1..n |-> L[i]]
  BY DEF Rows
<1>2. full.rows = R /\ full.lens = L /\ DOMAIN R = 1..n /\ DOMAIN L = 1..n
  BY <1>1 DEF Hash!Table
<1> DEFINE A == [i \in 1..n |-> IF i \in s THEN Hash!hamming_topk(R[i], L[i], l, top) ELSE R[i]]
           B == [i \in 1..n |-> IF i \in s THEN Hash!update_seq_lens(L[i]) ELSE L[i]]
<1>3. u = Hash!Table(A, B)
  BY <1>2 DEF Chose, Hash!Scored
<1>4. u.rows = A /\ u.lens = B
  BY <1>3 DEF Hash!Table
<1>5. PICK v : v = u.rows /\ DOMAIN v = 1..n /\ v = [i \in 1..n |-> v[i]]
  BY <1>4
<1>6. v \in Seq({v[i] : i \in 1..n}) /\ Len(v) = n
  BY <1>5
<1>7. SubSeq(v, 1, n) = v
  BY <1>5, <1>6
<1>8. Len(full.rows) = n
  BY <1>1, <1>2
<1> HIDE DEF A, B
<1> QED
  BY <1>3, <1>4, <1>5, <1>7, <1>8

\* A layer attends with what the metadata name, and puts back what is named as full.
LEMMA Sees ==
    ASSUME NEW h, NEW m, NEW o, NEW k, NEW d, NEW s, NEW n, NEW sl, NEW e
    PROVE  /\ Hash!attended(Walk(h, m, o, k, d, s, n, sl, e)) = Walk(h, m, o, k, d, s, n, sl, h[m])
           /\ [Walk(h, m, o, k, d, s, n, sl, e) EXCEPT !.meta = Walk(h, m, o, k, d, s, n, sl, e).ori]
                = Walk(h, o, o, k, d, s, n, sl, e)
           /\ [Walk(h, m, o, k, d, s, n, sl, e) EXCEPT !.meta = Walk(h, m, o, k, d, s, n, sl, e).topk]
                = Walk(h, k, o, k, d, s, n, sl, e)
           /\ Walk(h, m, o, k, d, s, n, sl, e).seen = e
           /\ Walk(h, m, o, k, d, s, n, sl, e).has_decode = d
BY DEF Hash!attended, Walk

LEMMA Names ==
    ASSUME NEW t, NEW c, NEW x
    PROVE  Heap(t, c, x)["table"] = t /\ Heap(t, c, x)["clone"] = c /\ Heap(t, c, x)["chosen"] = x
BY DEF Heap

\* With MLA the metadata are kept aside and what is scored takes their place
\* (update_decode_topk_mla).
LEMMA MlaBegins ==
    ASSUME NEW h, NEW m, NEW o, NEW k, NEW d, NEW s, NEW n, NEW sl, NEW e
    PROVE  Hash!update_decode_topk_mla(Walk(h, m, o, k, d, s, n, sl, e)) = Walk(h, k, m, k, d, s, n, sl, e)
<1> DEFINE w == Walk(h, m, o, k, d, s, n, sl, e)
           w1 == [w EXCEPT !.ori = m]
<1>1. w.meta = m /\ w.topk = k
  BY DEF Walk
<1>2. Hash!update_decode_topk_mla(w) = [w EXCEPT !.ori = m, !.meta = k]
  BY <1>1 DEF Hash!update_decode_topk_mla
<1>3. w1 = Walk(h, m, m, k, d, s, n, sl, e)
  BY DEF Walk
<1>4. [w EXCEPT !.ori = m, !.meta = k] = [w1 EXCEPT !.meta = k]
  OBVIOUS
<1> HIDE DEF w1
<1>5. [w1 EXCEPT !.meta = k] = Walk(h, k, m, k, d, s, n, sl, e)
  BY <1>3 DEF Walk
<1> QED
  BY <1>2, <1>4, <1>5, Zenon

\* A scored table of MLA is one of its own, scored from the one in the metadata (hash_topk_mla).
LEMMA MlaScores ==
    ASSUME NEW t, NEW c, NEW x, NEW o, NEW k, NEW d, NEW s, NEW n, NEW sl, NEW e, NEW l, NEW top
    PROVE  Hash!hash_topk_mla(Walk(Heap(t, c, x), "table", o, k, d, s, n, sl, e), l, top)
             = Walk(Heap(t, c, Chose(t, s, l, top)), "table", o, "chosen", d, s, n, sl, e)
<1> DEFINE w == Walk(Heap(t, c, x), "table", o, k, d, s, n, sl, e)
           y == Hash!Scored(w.heap[w.meta], w.heap[w.meta], w.sparse, l, top)
           w1 == [w EXCEPT !.heap.chosen = y]
<1>1. Hash!hash_topk_mla(w, l, top) = [w EXCEPT !.heap.chosen = y, !.topk = "chosen"]
  BY DEF Hash!hash_topk_mla
<1>2. y = Chose(t, s, l, top)
  BY Names DEF Walk, Chose
<1> HIDE DEF y
<1>3. w1 = Walk(Heap(t, c, y), "table", o, k, d, s, n, sl, e)
  BY DEF Walk, Heap
<1>4. [w EXCEPT !.heap.chosen = y, !.topk = "chosen"] = [w1 EXCEPT !.topk = "chosen"]
  OBVIOUS
<1> HIDE DEF w1
<1>5. [w1 EXCEPT !.topk = "chosen"] = Walk(Heap(t, c, y), "table", o, "chosen", d, s, n, sl, e)
  BY <1>3 DEF Walk
<1> QED
  BY <1>1, <1>2, <1>4, <1>5, Zenon

\* On CUDA with grouped queries the table is written in place, scored from its copy
\* (update_decode_topk_gqa_cuda).
LEMMA CudaScores ==
    ASSUME NEW t, NEW c, NEW x, NEW m, NEW k, NEW d, NEW s, NEW n, NEW sl, NEW e, NEW l, NEW top
    PROVE  Hash!update_decode_topk_gqa_cuda(Walk(Heap(t, c, x), m, "clone", k, d, s, n, sl, e), l, top)
             = Walk(Heap(Hash!Scored(t, c, s, l, top), c, x), "table", "clone", "table", d, s, n, sl, e)
<1> DEFINE w == Walk(Heap(t, c, x), m, "clone", k, d, s, n, sl, e)
           y == Hash!Scored(w.heap.table, w.heap[w.ori], w.sparse, l, top)
           w1 == [w EXCEPT !.heap.table = y]
           w2 == [w1 EXCEPT !.meta = "table"]
<1>1. Hash!update_decode_topk_gqa_cuda(w, l, top) = [w EXCEPT !.heap.table = y, !.meta = "table", !.topk = "table"]
  BY DEF Hash!update_decode_topk_gqa_cuda
<1>2. y = Hash!Scored(t, c, s, l, top)
  BY Names DEF Walk
<1> HIDE DEF y
<1>3. w1 = Walk(Heap(y, c, x), m, "clone", k, d, s, n, sl, e)
  BY DEF Walk, Heap
<1>4. [w EXCEPT !.heap.table = y, !.meta = "table", !.topk = "table"] = [w2 EXCEPT !.topk = "table"]
  OBVIOUS
<1> HIDE DEF w1
<1>5. w2 = Walk(Heap(y, c, x), "table", "clone", k, d, s, n, sl, e)
  BY <1>3 DEF Walk
<1> HIDE DEF w2
<1>6. [w2 EXCEPT !.topk = "table"] = Walk(Heap(y, c, x), "table", "clone", "table", d, s, n, sl, e)
  BY <1>5 DEF Walk
<1> QED
  BY <1>1, <1>2, <1>4, <1>6, Zenon

\* On NPU the table is one of its own, with all rows or those that were scored (update_decode_topk_gqa_npu).
LEMMA NpuScores ==
    ASSUME NEW t, NEW c, NEW x, NEW m, NEW k, NEW d, NEW s, NEW n, NEW sl, NEW e, NEW l, NEW top, NEW u,
           u = Chose(c, s, l, top)
    PROVE  Hash!update_decode_topk_gqa_npu(Walk(Heap(t, c, x), m, "clone", k, d, s, n, sl, e), l, top)
             = Walk(Heap(t, c, IF sl THEN u ELSE Hash!Table(SubSeq(u.rows, 1, n), u.lens)),
                    "chosen", "clone", "chosen", d, s, n, sl, e)
<1> DEFINE w == Walk(Heap(t, c, x), m, "clone", k, d, s, n, sl, e)
           v == Hash!Scored(w.heap[w.ori], w.heap[w.ori], w.sparse, l, top)
           y == IF w.slice THEN v ELSE Hash!Table(SubSeq(v.rows, 1, w.scored), v.lens)
           w1 == [w EXCEPT !.heap.chosen = y]
           w2 == [w1 EXCEPT !.meta = "chosen"]
<1>1. Hash!update_decode_topk_gqa_npu(w, l, top) = [w EXCEPT !.heap.chosen = y, !.meta = "chosen", !.topk = "chosen"]
  BY DEF Hash!update_decode_topk_gqa_npu
<1>2. y = IF sl THEN u ELSE Hash!Table(SubSeq(u.rows, 1, n), u.lens)
  BY Names DEF Walk, Chose
<1> HIDE DEF y
<1>3. w1 = Walk(Heap(t, c, y), m, "clone", k, d, s, n, sl, e)
  BY DEF Walk, Heap
<1>4. [w EXCEPT !.heap.chosen = y, !.meta = "chosen", !.topk = "chosen"] = [w2 EXCEPT !.topk = "chosen"]
  OBVIOUS
<1> HIDE DEF w1
<1>5. w2 = Walk(Heap(t, c, y), "chosen", "clone", k, d, s, n, sl, e)
  BY <1>3 DEF Walk
<1> HIDE DEF w2
<1>6. [w2 EXCEPT !.topk = "chosen"] = Walk(Heap(t, c, y), "chosen", "clone", "chosen", d, s, n, sl, e)
  BY <1>5 DEF Walk
<1> QED
  BY <1>1, <1>2, <1>4, <1>6, Zenon

(* The tensors between two layers, when layer h was the last that scored (0: none yet), in a step in which   *)
(* nothing is scored or with MLA or in which a request decodes (d): with MLA the metadata are the table,     *)
(* which nobody writes to; with grouped queries they are its copy, or the table nobody wrote to.             *)
PlainWalk(w, full, s) ==
    \E x, k, d, n, sl, e :
        d \in BOOLEAN /\ ~d /\ w = Walk(Heap(full, full, x), "table", "clone", k, d, s, n, sl, e)
MlaWalk(w, full, s, h, top) ==
    \E c, x, o, k, d, n, sl, e :
        /\ w = Walk(Heap(full, c, x), "table", o, k, d, s, n, sl, e)
        /\ h # 0 => k = "chosen" /\ x = Chose(full, s, h, top)
CudaWalk(w, full, s, h, top) ==
    \E t, x, m, k, d, n, sl, e :
        /\ d \in BOOLEAN /\ d
        /\ w = Walk(Heap(t, full, x), m, "clone", k, d, s, n, sl, e)
        /\ t = IF h = 0 THEN full ELSE Chose(full, s, h, top)
        /\ IF h = 0 THEN m \in {"table", "clone"} ELSE m = "clone" /\ k = "table"
NpuWalk(w, full, s, h, top) ==
    \E x, m, k, d, n, sl, e :
        /\ d \in BOOLEAN /\ d
        /\ w = Walk(Heap(full, full, x), m, "clone", k, d, s, n, sl, e)
        /\ m \in {"table", "clone"} /\ sl \in BOOLEAN /\ (sl \/ n = Len(full.rows))
        /\ h # 0 => k = "chosen" /\ x = Chose(full, s, h, top)

Walked(variant, w, full, s, d, h, top) ==
    IF variant = "mla_cuda" THEN MlaWalk(w, full, s, h, top)
    ELSE IF ~d THEN PlainWalk(w, full, s)
    ELSE IF variant = "gqa_cuda" THEN CudaWalk(w, full, s, h, top) ELSE NpuWalk(w, full, s, h, top)

\* A step in which nobody decodes leaves the tables alone.
LEMMA PlainGoesOn ==
    ASSUME NEW variant, variant # "mla_cuda", NEW b, b # <<>>, NEW w, NEW full, NEW s, NEW l, NEW top,
           PlainWalk(w, full, s)
    PROVE  LET v == Hash!forward(variant, b, w, l, top) IN PlainWalk(v, full, s) /\ v.seen = full
<1>1. PICK x, k, d, n, sl, e :
        d \in BOOLEAN /\ ~d /\ w = Walk(Heap(full, full, x), "table", "clone", k, d, s, n, sl, e)
  BY DEF PlainWalk
<1>2. PICK h : h = Heap(full, full, x) /\ h["table"] = full
  BY Names
<1>3. Hash!attention_begin(variant, w, l, top) = w
  BY <1>1, Sees DEF Hash!attention_begin
<1>4. PICK v : v = Hash!attended(w)
  OBVIOUS
<1>5. v = Walk(h, "table", "clone", k, d, s, n, sl, full)
  BY <1>1, <1>2, <1>4, Sees
<1>6. Hash!attention_finished(variant, v, l) = v
  BY <1>1, <1>5, Sees DEF Hash!attention_finished
<1>7. Hash!forward(variant, b, w, l, top) = v
  BY <1>3, <1>4, <1>6 DEF Hash!forward
<1>8. v.seen = full
  BY <1>5, Sees
<1> QED
  BY <1>1, <1>2, <1>5, <1>7, <1>8 DEF PlainWalk

\* With MLA a layer attends to what it or the last layer before it scored.
LEMMA MlaGoesOn ==
    ASSUME NEW b, b # <<>>, NEW w, NEW full, NEW s, NEW l, NEW top, l # 0, NEW g, NEW h,
           h = IF Hash!LayerKind(l) = "hash" THEN l ELSE g, Hash!LayerKind(l) = "skip" => g # 0,
           MlaWalk(w, full, s, g, top)
    PROVE  LET v == Hash!forward("mla_cuda", b, w, l, top)
           IN /\ MlaWalk(v, full, s, h, top)
              /\ v.seen = IF Hash!LayerKind(l) = "rollback" THEN full ELSE Chose(full, s, h, top)
<1>1. PICK c, x, o, k, d, n, sl, e :
        /\ w = Walk(Heap(full, c, x), "table", o, k, d, s, n, sl, e)
        /\ g # 0 => k = "chosen" /\ x = Chose(full, s, g, top)
  BY DEF MlaWalk
<1>2. Hash!LayerKind(l) \in {"rollback", "skip", "hash"}
  BY DEF Hash!LayerKind
<1>3. PICK begun : begun = Hash!attention_begin("mla_cuda", w, l, top)
  OBVIOUS
<1>4. PICK v : v = Hash!attended(begun)
  OBVIOUS
<1>5. Hash!forward("mla_cuda", b, w, l, top) = Hash!attention_finished("mla_cuda", v, l)
  BY <1>3, <1>4 DEF Hash!forward
<1>6. CASE Hash!LayerKind(l) = "rollback"
  BY <1>1, <1>3, <1>4, <1>5, <1>6, Sees, Names DEF Hash!attention_begin, Hash!attention_finished, MlaWalk
<1>7. CASE Hash!LayerKind(l) \in {"skip", "hash"}
  <2>1. PICK y : y = Chose(full, s, h, top)
    OBVIOUS
  <2>2. begun = Walk(Heap(full, c, y), "chosen", "table", "chosen", d, s, n, sl, e)
    <3>1. CASE Hash!LayerKind(l) = "hash"
      BY <1>1, <1>3, <2>1, <3>1, MlaScores, MlaBegins DEF Hash!attention_begin
    <3>2. CASE Hash!LayerKind(l) = "skip"
      BY <1>1, <1>3, <2>1, <3>2, MlaBegins DEF Hash!attention_begin
    <3> QED
      BY <1>7, <3>1, <3>2
  <2>3. v = Walk(Heap(full, c, y), "chosen", "table", "chosen", d, s, n, sl, y)
    BY <1>4, <2>2, Sees, Names
  <2>4. PICK z : z = Hash!attention_finished("mla_cuda", v, l)
    OBVIOUS
  <2>5. z = [v EXCEPT !.meta = v.ori]
    BY <1>7, <2>4 DEF Hash!attention_finished
  <2>6. z = Walk(Heap(full, c, y), "table", "table", "chosen", d, s, n, sl, y)
    BY <2>3, <2>5, Sees
  <2>7. z.seen = y
    BY <2>6, Sees
  <2>8. MlaWalk(z, full, s, h, top)
    BY <2>1, <2>6 DEF MlaWalk
  <2> QED
    BY <1>5, <1>7, <2>1, <2>4, <2>7, <2>8
<1> QED
  BY <1>2, <1>6, <1>7

\* On CUDA likewise, in a step in which a request decodes.
LEMMA CudaGoesOn ==
    ASSUME NEW b, b # <<>>, NEW w, NEW full, NEW r \in Nat, Rows(full, r), NEW s, NEW l, NEW top, l # 0, NEW g, NEW h,
           h = IF Hash!LayerKind(l) = "hash" THEN l ELSE g, Hash!LayerKind(l) = "skip" => g # 0,
           CudaWalk(w, full, s, g, top)
    PROVE  LET v == Hash!forward("gqa_cuda", b, w, l, top)
           IN /\ CudaWalk(v, full, s, h, top)
              /\ v.seen = IF Hash!LayerKind(l) = "rollback" THEN full ELSE Chose(full, s, h, top)
<1>1. PICK t, x, m, k, d, n, sl, e :
        /\ d \in BOOLEAN /\ d
        /\ w = Walk(Heap(t, full, x), m, "clone", k, d, s, n, sl, e)
        /\ t = IF g = 0 THEN full ELSE Chose(full, s, g, top)
        /\ IF g = 0 THEN m \in {"table", "clone"} ELSE m = "clone" /\ k = "table"
  BY DEF CudaWalk
<1>8. w = Walk(Heap(t, full, x), m, "clone", k, d, s, n, sl, e)
  BY <1>1
<1>2. Hash!LayerKind(l) \in {"rollback", "skip", "hash"} /\ w.has_decode = d
  BY <1>8, Sees DEF Hash!LayerKind
<1>3. PICK begun : begun = Hash!attention_begin("gqa_cuda", w, l, top)
  OBVIOUS
<1>4. PICK v : v = Hash!attended(begun)
  OBVIOUS
<1>5. Hash!forward("gqa_cuda", b, w, l, top) = Hash!attention_finished("gqa_cuda", v, l)
  BY <1>3, <1>4 DEF Hash!forward
<1>6. CASE Hash!LayerKind(l) = "rollback"
  <2>1. begun = w
    BY <1>3, <1>6 DEF Hash!attention_begin
  <2>2. Heap(t, full, x)[m] = full
    BY <1>1, Names
  <2>3. v = Walk(Heap(t, full, x), m, "clone", k, d, s, n, sl, full)
    BY <1>4, <1>8, <2>1, <2>2, Sees
  <2>4. v.has_decode = d
    BY <2>3, Sees
  <2>5. PICK z : z = Hash!attention_finished("gqa_cuda", v, l)
    OBVIOUS
  <2>6. z = [v EXCEPT !.meta = v.ori]
    BY <1>1, <2>4, <2>5 DEF Hash!attention_finished
  <2>7. z = Walk(Heap(t, full, x), "clone", "clone", k, d, s, n, sl, full)
    BY <2>3, <2>6, Sees
  <2>8. z.seen = full
    BY <2>7, Sees
  <2>9. h = g /\ t = (IF g = 0 THEN full ELSE Chose(full, s, g, top)) /\ (g # 0 => k = "table")
    BY <1>1, <1>6
  <2>10. CudaWalk(z, full, s, h, top)
    BY <1>1, <2>7, <2>9 DEF CudaWalk
  <2> QED
    BY <1>5, <1>6, <2>5, <2>8, <2>10
<1>7. CASE Hash!LayerKind(l) \in {"skip", "hash"}
  <2>1. PICK y : y = Chose(full, s, h, top)
    OBVIOUS
  <2>2. begun = Walk(Heap(y, full, x), "table", "clone", "table", d, s, n, sl, e)
    <3>1. CASE Hash!LayerKind(l) = "hash"
      <4>1. begun = Hash!update_decode_topk_gqa_cuda(w, l, top)
        BY <1>1, <1>2, <1>3, <3>1 DEF Hash!attention_begin
      <4>2. begun = Walk(Heap(Hash!Scored(t, full, s, l, top), full, x), "table", "clone", "table", d, s, n, sl, e)
        BY <1>8, <4>1, CudaScores
      <4>3. Hash!Scored(t, full, s, l, top) = y
        <5>1. y = Chose(full, s, l, top)
          BY <2>1, <3>1
        <5>2. CASE g = 0
          BY <1>1, <5>1, <5>2, ScoredAgain
        <5>3. CASE g # 0
          BY <1>1, <5>1, <5>3, ScoredAgain
        <5> QED
          BY <5>2, <5>3
      <4> QED
        BY <4>2, <4>3
    <3>2. CASE Hash!LayerKind(l) = "skip"
      <4>1. begun = [w EXCEPT !.meta = w.topk]
        BY <1>1, <1>2, <1>3, <3>2 DEF Hash!attention_begin
      <4>2. k = "table" /\ t = y
        BY <1>1, <2>1, <3>2
      <4>3. w = Walk(Heap(y, full, x), m, "clone", "table", d, s, n, sl, e)
        BY <1>1, <4>2
      <4> QED
        BY <4>1, <4>3, Sees
    <3> QED
      BY <1>7, <3>1, <3>2
  <2>3. v = Walk(Heap(y, full, x), "table", "clone", "table", d, s, n, sl, y)
    BY <1>4, <2>2, Sees, Names
  <2>4. v.has_decode = d
    BY <2>3, Sees
  <2>5. PICK z : z = Hash!attention_finished("gqa_cuda", v, l)
    OBVIOUS
  <2>6. z = [v EXCEPT !.meta = v.ori]
    BY <1>1, <2>4, <2>5 DEF Hash!attention_finished
  <2>7. z = Walk(Heap(y, full, x), "clone", "clone", "table", d, s, n, sl, y)
    BY <2>3, <2>6, Sees
  <2>8. z.seen = y
    BY <2>7, Sees
  <2>9. h # 0
    BY <1>7
  <2>10. CudaWalk(z, full, s, h, top)
    BY <1>1, <2>1, <2>7, <2>9 DEF CudaWalk
  <2> QED
    BY <1>5, <1>7, <2>1, <2>5, <2>8, <2>10
<1> QED
  BY <1>2, <1>6, <1>7

\* On NPU likewise, unless there are rows that were not scored.
LEMMA NpuGoesOn ==
    ASSUME NEW b, b # <<>>, NEW w, NEW full, NEW r \in Nat, Rows(full, r), NEW s, NEW l, NEW top, l # 0, NEW g, NEW h,
           h = IF Hash!LayerKind(l) = "hash" THEN l ELSE g, Hash!LayerKind(l) = "skip" => g # 0,
           NpuWalk(w, full, s, g, top)
    PROVE  LET v == Hash!forward("gqa_npu", b, w, l, top)
           IN /\ NpuWalk(v, full, s, h, top)
              /\ v.seen = IF Hash!LayerKind(l) = "rollback" THEN full ELSE Chose(full, s, h, top)
<1>1. PICK x, m, k, d, n, sl, e :
        /\ d \in BOOLEAN /\ d
        /\ w = Walk(Heap(full, full, x), m, "clone", k, d, s, n, sl, e)
        /\ m \in {"table", "clone"} /\ sl \in BOOLEAN /\ (sl \/ n = Len(full.rows))
        /\ g # 0 => k = "chosen" /\ x = Chose(full, s, g, top)
  BY DEF NpuWalk
<1>8. w = Walk(Heap(full, full, x), m, "clone", k, d, s, n, sl, e)
  BY <1>1
<1>2. Hash!LayerKind(l) \in {"rollback", "skip", "hash"} /\ w.has_decode = d
  BY <1>8, Sees DEF Hash!LayerKind
<1>3. PICK begun : begun = Hash!attention_begin("gqa_npu", w, l, top)
  OBVIOUS
<1>4. PICK v : v = Hash!attended(begun)
  OBVIOUS
<1>5. Hash!forward("gqa_npu", b, w, l, top) = Hash!attention_finished("gqa_npu", v, l)
  BY <1>3, <1>4 DEF Hash!forward
<1>6. CASE Hash!LayerKind(l) = "rollback"
  <2>1. begun = w
    BY <1>3, <1>6 DEF Hash!attention_begin
  <2>2. Heap(full, full, x)[m] = full
    BY <1>1, Names
  <2>3. v = Walk(Heap(full, full, x), m, "clone", k, d, s, n, sl, full)
    BY <1>4, <1>8, <2>1, <2>2, Sees
  <2>4. v.has_decode = d
    BY <2>3, Sees
  <2>5. PICK z : z = Hash!attention_finished("gqa_npu", v, l)
    OBVIOUS
  <2>6. z = [v EXCEPT !.meta = v.ori]
    BY <1>1, <2>4, <2>5 DEF Hash!attention_finished
  <2>7. z = Walk(Heap(full, full, x), "clone", "clone", k, d, s, n, sl, full)
    BY <2>3, <2>6, Sees
  <2>8. z.seen = full
    BY <2>7, Sees
  <2>9. h = g
    BY <1>6
  <2>10. NpuWalk(z, full, s, h, top)
    BY <1>1, <2>7, <2>9 DEF NpuWalk
  <2> QED
    BY <1>5, <1>6, <2>5, <2>8, <2>10
<1>7. CASE Hash!LayerKind(l) \in {"skip", "hash"}
  <2>1. PICK y : y = Chose(full, s, h, top)
    OBVIOUS
  <2>2. begun = Walk(Heap(full, full, y), "chosen", "clone", "chosen", d, s, n, sl, e)
    <3>1. CASE Hash!LayerKind(l) = "hash"
      <4>1. begun = Hash!update_decode_topk_gqa_npu(w, l, top)
        BY <1>1, <1>2, <1>3, <3>1 DEF Hash!attention_begin
      <4>2. y = Chose(full, s, l, top)
        BY <2>1, <3>1
      <4>3. PICK u : u = IF sl THEN y ELSE Hash!Table(SubSeq(y.rows, 1, n), y.lens)
        OBVIOUS
      <4>4. begun = Walk(Heap(full, full, u), "chosen", "clone", "chosen", d, s, n, sl, e)
        BY <1>8, <4>1, <4>2, <4>3, NpuScores
      <4>5. u = y
        <5>1. CASE sl
          BY <4>3, <5>1
        <5>2. CASE ~sl /\ n = Len(full.rows)
          BY <4>2, <4>3, <5>2, AllRows
        <5> QED
          BY <1>1, <5>1, <5>2
      <4> QED
        BY <4>4, <4>5
    <3>2. CASE Hash!LayerKind(l) = "skip"
      <4>1. begun = [w EXCEPT !.meta = w.topk]
        BY <1>1, <1>2, <1>3, <3>2 DEF Hash!attention_begin
      <4>2. k = "chosen" /\ x = y
        BY <1>1, <2>1, <3>2
      <4>3. w = Walk(Heap(full, full, y), m, "clone", "chosen", d, s, n, sl, e)
        BY <1>1, <4>2
      <4> QED
        BY <4>1, <4>3, Sees
    <3> QED
      BY <1>7, <3>1, <3>2
  <2>3. v = Walk(Heap(full, full, y), "chosen", "clone", "chosen", d, s, n, sl, y)
    BY <1>4, <2>2, Sees, Names
  <2>4. v.has_decode = d
    BY <2>3, Sees
  <2>5. PICK z : z = Hash!attention_finished("gqa_npu", v, l)
    OBVIOUS
  <2>6. z = [v EXCEPT !.meta = v.ori]
    BY <1>1, <2>4, <2>5 DEF Hash!attention_finished
  <2>7. z = Walk(Heap(full, full, y), "clone", "clone", "chosen", d, s, n, sl, y)
    BY <2>3, <2>6, Sees
  <2>8. z.seen = y
    BY <2>7, Sees
  <2>9. PICK m2, k2 : /\ z = Walk(Heap(full, full, y), m2, "clone", k2, d, s, n, sl, y)
                      /\ m2 \in {"table", "clone"} /\ k2 = "chosen"
    BY <2>7
  <2>10. d \in BOOLEAN /\ d /\ sl \in BOOLEAN /\ (sl \/ n = Len(full.rows))
    BY <1>1
  <2>11. NpuWalk(z, full, s, h, top)
    BY <2>1, <2>9, <2>10 DEF NpuWalk
  <2> QED
    BY <1>5, <1>7, <2>1, <2>5, <2>8, <2>11
<1> QED
  BY <1>2, <1>6, <1>7

\* A layer leaves such tensors too, and attends to what it or the last layer before it scored.
LEMMA LayerGoesOn ==
    ASSUME NEW variant \in Hash!Variants, NEW b, b # <<>>, NEW w, NEW full, NEW r \in Nat, Rows(full, r), NEW s,
           NEW d \in BOOLEAN, NEW l, NEW top, l # 0, NEW g, NEW h,
           h = IF Hash!LayerKind(l) = "hash" THEN l ELSE g, Hash!LayerKind(l) = "skip" => g # 0,
           Walked(variant, w, full, s, d, g, top), NEW v, v = Hash!forward(variant, b, w, l, top)
    PROVE  /\ Walked(variant, v, full, s, d, h, top)
           /\ v.seen = IF Hash!LayerKind(l) = "rollback" \/ ~(variant = "mla_cuda" \/ d) THEN full
                       ELSE Chose(full, s, h, top)
<1>1. CASE variant = "mla_cuda"
  BY <1>1, MlaGoesOn DEF Walked
<1>2. CASE variant # "mla_cuda" /\ ~d
  BY <1>2, PlainGoesOn DEF Walked
<1>3. CASE variant = "gqa_cuda" /\ d
  BY <1>3, CudaGoesOn DEF Walked
<1>4. CASE variant = "gqa_npu" /\ d
  BY <1>4, NpuGoesOn DEF Walked
<1> QED
  BY <1>1, <1>2, <1>3, <1>4 DEF Hash!Variants

\* Between layers the metadata are the full table.
LEMMA WalkedIs ==
    ASSUME NEW variant \in Hash!Variants, NEW w, NEW full, NEW s, NEW d \in BOOLEAN, NEW h, NEW top,
           Walked(variant, w, full, s, d, h, top)
    PROVE  w.heap[w.meta] = full /\ w.sparse = s
<1>1. CASE variant = "mla_cuda"
  <2>1. PICK c, x, o, k, d2, n, sl, e : w = Walk(Heap(full, c, x), "table", o, k, d2, s, n, sl, e)
    BY <1>1 DEF Walked, MlaWalk
  <2>2. w.heap = Heap(full, c, x) /\ w.meta = "table" /\ w.sparse = s
    BY <2>1 DEF Walk
  <2> QED
    BY <2>2, Names
<1>2. CASE variant # "mla_cuda" /\ ~d
  <2>1. PlainWalk(w, full, s)
    BY <1>2 DEF Walked
  <2>2. PICK x, k, n, sl, e, d2 : w = Walk(Heap(full, full, x), "table", "clone", k, d2, s, n, sl, e)
    BY <2>1 DEF PlainWalk
  <2>3. w.heap = Heap(full, full, x) /\ w.meta = "table" /\ w.sparse = s
    BY <2>2 DEF Walk
  <2> QED
    BY <2>3, Names
<1>3. CASE variant = "gqa_cuda" /\ d
  <2>1. CudaWalk(w, full, s, h, top)
    BY <1>3 DEF Walked
  <2>2. PICK t, x, m, k, d2, n, sl, e :
          /\ d2 \in BOOLEAN /\ d2
          /\ w = Walk(Heap(t, full, x), m, "clone", k, d2, s, n, sl, e)
          /\ t = IF h = 0 THEN full ELSE Chose(full, s, h, top)
          /\ IF h = 0 THEN m \in {"table", "clone"} ELSE m = "clone" /\ k = "table"
    BY <2>1 DEF CudaWalk
  <2>3. w.heap = Heap(t, full, x) /\ w.meta = m /\ w.sparse = s
    BY <2>2 DEF Walk
  <2>4. (m = "table" /\ t = full) \/ m = "clone"
    BY <2>2
  <2> QED
    BY <2>3, <2>4, Names
<1>4. CASE variant = "gqa_npu" /\ d
  <2>1. NpuWalk(w, full, s, h, top)
    BY <1>4 DEF Walked
  <2>2. PICK x, m, k, n, sl, e, d2 : /\ w = Walk(Heap(full, full, x), m, "clone", k, d2, s, n, sl, e)
                                     /\ m \in {"table", "clone"}
    BY <2>1 DEF NpuWalk
  <2>3. w.heap = Heap(full, full, x) /\ w.meta = m /\ w.sparse = s
    BY <2>2 DEF Walk
  <2> QED
    BY <2>2, <2>3, Names
<1> QED
  BY <1>1, <1>2, <1>3, <1>4 DEF Hash!Variants

\* The tensors a step begins with are such (patched_build, patched_build_decode, build_sparse_meta), when on NPU
\* all rows are scored if any.
LEMMA BuiltWalks ==
    ASSUME NEW variant \in Hash!Variants, NEW b, NEW full, NEW d \in BOOLEAN, d = (Hash!Decodes # {}),
           NEW s, s = Hash!SparseRows(variant, b, Hash!Decodes # {}), NEW top,
           variant = "gqa_npu" /\ d =>
               \/ Hash!slice_enabled(b) /\ ~Hash!AttnStateDecodeOnly
               \/ Hash!batch_size_for_hamming(b) = Len(full.rows)
    PROVE  Walked(variant, Hash!Built(variant, b, full), full, s, d, 0, top)
<1>1. PICK sl \in BOOLEAN : sl = (Hash!slice_enabled(b) /\ ~Hash!AttnStateDecodeOnly)
  OBVIOUS
<1>2. PICK n, e, x : n = Hash!batch_size_for_hamming(b) /\ e = Hash!Table(<<>>, <<>>) /\ x = e
  OBVIOUS
<1>3. PICK w, o : w = Hash!Built(variant, b, full) /\ o = Hash!ori_block_table_decode(variant)
  OBVIOUS
<1>4. w = Walk(Heap(full, full, x), "table", o, "none", d, s, n, sl, e)
  BY <1>1, <1>2, <1>3, Zenon DEF Hash!Built, Walk, Heap
<1>5. variant # "mla_cuda" => o = "clone"
  BY <1>3 DEF Hash!ori_block_table_decode
<1>6. CASE variant = "mla_cuda"
  BY <1>3, <1>4, <1>6 DEF MlaWalk, Walked
<1>7. CASE variant # "mla_cuda" /\ ~d
  <2>1. w = Walk(Heap(full, full, x), "table", "clone", "none", d, s, n, sl, e)
    BY <1>4, <1>5, <1>7
  <2>2. PlainWalk(w, full, s)
    BY <1>7, <2>1 DEF PlainWalk
  <2> QED
    BY <1>3, <1>7, <2>2 DEF Walked
<1>8. CASE variant = "gqa_cuda" /\ d
  <2>1. PICK m : m = "table" /\ w = Walk(Heap(full, full, x), m, "clone", "none", d, s, n, sl, e)
    BY <1>4, <1>5, <1>8
  <2>2. CudaWalk(w, full, s, 0, top)
    BY <1>8, <2>1 DEF CudaWalk
  <2> QED
    BY <1>3, <1>8, <2>2 DEF Walked
<1>9. CASE variant = "gqa_npu" /\ d
  <2>1. PICK m : m = "table" /\ w = Walk(Heap(full, full, x), m, "clone", "none", d, s, n, sl, e)
    BY <1>4, <1>5, <1>9
  <2>2. sl \/ n = Len(full.rows)
    BY <1>1, <1>2, <1>9
  <2>3. NpuWalk(w, full, s, 0, top)
    BY <1>9, <2>1, <2>2 DEF NpuWalk
  <2> QED
    BY <1>3, <1>9, <2>3 DEF Walked
<1> QED
  BY <1>6, <1>7, <1>8, <1>9 DEF Hash!Variants

----------------------------------------------------------------------------
(* h is the last layer up to l that scores, 0 if there is none *)
LastAt(l, h) ==
    /\ h \in 0..l /\ (h # 0 => Hash!LayerKind(h) = "hash")
    /\ \A k \in (h + 1)..l : Hash!LayerKind(k) # "hash"

\* A layer that skips has one before it that scores (GsaOnDeviceAssumption).
LEMMA LastGoesOn ==
    ASSUME NEW l \in 1..NumLayers, NEW g, LastAt(l - 1, g), NEW h, h = IF Hash!LayerKind(l) = "hash" THEN l ELSE g
    PROVE  LastAt(l, h) /\ (Hash!LayerKind(l) = "skip" => g # 0)
<1>1. NumLayers \in Nat /\ l \in Nat \ {0}
  BY GsaOnDeviceAssumption
<1>2. LastAt(l, h)
  <2>1. CASE Hash!LayerKind(l) = "hash"
    BY <1>1, <2>1 DEF LastAt
  <2>2. CASE Hash!LayerKind(l) # "hash"
    BY <1>1, <2>2 DEF LastAt
  <2> QED
    BY <2>1, <2>2
<1>3. ASSUME Hash!LayerKind(l) = "skip", g = 0 PROVE FALSE
  <2>1. l \in SkipLayers \ RollbackLayers
    BY <1>3 DEF Hash!LayerKind
  <2>2. PICK k \in 1..(l - 1) : k \notin SkipLayers \cup RollbackLayers
    BY <2>1, GsaOnDeviceAssumption
  <2>3. Hash!LayerKind(k) = "hash"
    BY <2>2 DEF Hash!LayerKind
  <2> QED
    BY <1>3, <2>2, <2>3 DEF LastAt
<1> QED
  BY <1>2, <1>3

\* It is the layer whose choice the property speaks of.
LEMMA LastIs ==
    ASSUME NEW l \in 1..NumLayers, NEW h, LastAt(l, h), h # 0
    PROVE  Hash!ScoredAt(l) = h
<1>1. NumLayers \in Nat /\ l \in Nat \ {0} /\ h \in 1..l
  BY GsaOnDeviceAssumption DEF LastAt
<1> DEFINE Q(x) == Hash!LayerKind(x) = "hash" /\ \A k \in (x + 1)..l : Hash!LayerKind(k) # "hash"
<1>2. Q(h)
  BY <1>1 DEF LastAt
<1>3. ASSUME NEW x \in 1..l, Q(x) PROVE x = h
  BY <1>1, <1>2, <1>3
<1>4. Hash!ScoredAt(l) = CHOOSE x \in 1..l : Q(x)
  BY DEF Hash!ScoredAt
<1> HIDE DEF Q
<1> QED
  BY <1>1, <1>2, <1>3, <1>4

(* g says what each of the first k layers leaves *)
LayersBy(g, variant, b, top, k) ==
    /\ \A i \in 0..k : g[i] = IF i = 0 THEN Hash!Built(variant, b, Hash!AttnMetadata(b))
                              ELSE Hash!forward(variant, b, g[i - 1], i, top)
    /\ g = [i \in 0..k |-> g[i]]

\* Any number of layers can be gone through.
LEMMA LayersExist == ASSUME NEW variant, NEW b, NEW top, NEW k \in Nat PROVE \E g : LayersBy(g, variant, b, top, k)
<1> DEFINE T == {i \in Nat : ~\E g : LayersBy(g, variant, b, top, i)}
           First == Hash!Built(variant, b, Hash!AttnMetadata(b))
           Then(v, i) == Hash!forward(variant, b, v, i, top)
<1>1. ASSUME T # {} PROVE FALSE
  <2>1. PICK x \in T : \A y \in T : x <= y
    BY <1>1, NatLeast
  <2>2. CASE x = 0
    <3>1. LayersBy([i \in 0..0 |-> First], variant, b, top, 0)
      BY DEF LayersBy
    <3> QED
      BY <2>1, <2>2, <3>1
  <2>3. CASE x # 0
    <3>1. x - 1 \in Nat /\ x - 1 \notin T
      BY <2>1, <2>3
    <3>2. PICK g : LayersBy(g, variant, b, top, x - 1)
      BY <3>1
    <3> DEFINE h == [i \in 0..x |-> IF i < x THEN g[i] ELSE Then(g[x - 1], x)]
    <3>3. \A i \in 0..(x - 1) : h[i] = g[i]
      BY <3>1
    <3>4. h[x] = Then(h[x - 1], x)
      BY <3>1, <3>3
    <3>5. h = [i \in 0..x |-> h[i]]
      OBVIOUS
    <3> HIDE DEF h
    <3>6. ASSUME NEW i \in 0..x
          PROVE h[i] = IF i = 0 THEN First ELSE Then(h[i - 1], i)
      <4>1. CASE i = x
        BY <2>3, <3>4, <4>1
      <4>2. CASE i = 0
        <5>1. 0 \in 0..(x - 1) /\ h[0] = g[0]
          BY <3>1, <3>3
        <5>2. g[0] = First
          BY <3>2, <5>1 DEF LayersBy
        <5> QED
          BY <4>2, <5>1, <5>2
      <4>3. CASE i \in 1..(x - 1)
        <5>1. h[i] = g[i] /\ h[i - 1] = g[i - 1] /\ i # 0 /\ i \in 0..(x - 1)
          BY <3>3, <4>3
        <5>2. g[i] = Then(g[i - 1], i)
          BY <3>2, <5>1 DEF LayersBy
        <5> QED
          BY <5>1, <5>2
      <4> QED
        BY <4>1, <4>2, <4>3
    <3>7. LayersBy(h, variant, b, top, x)
      BY <3>5, <3>6 DEF LayersBy
    <3> QED
      BY <2>1, <3>7
  <2> QED
    BY <2>2, <2>3
<1> QED
  BY <1>1

\* What the layers leave follows from layer to layer.
LEMMA LayersAre ==
    ASSUME NEW variant, NEW b, NEW top, NEW after, after = Hash!Layers(variant, b, top), NEW l \in 0..NumLayers
    PROVE  after[l] = IF l = 0 THEN Hash!Built(variant, b, Hash!AttnMetadata(b))
                      ELSE Hash!forward(variant, b, after[l - 1], l, top)
<1> DEFINE F(g) == [i \in 0..NumLayers |-> IF i = 0 THEN Hash!Built(variant, b, Hash!AttnMetadata(b))
                                            ELSE Hash!forward(variant, b, g[i - 1], i, top)]
           gone == CHOOSE g : g = F(g)
<1>1. PICK g : LayersBy(g, variant, b, top, NumLayers)
  BY LayersExist, GsaOnDeviceAssumption
<1>2. g = F(g)
  BY <1>1 DEF LayersBy
<1>3. gone = F(gone)
  <2> HIDE DEF F
  <2> QED
    BY <1>2
<1>4. after = gone
  BY DEF Hash!Layers
<1> HIDE DEF gone
<1> QED
  BY <1>3, <1>4

(* after layer l the tensors are as layer h, the last that scored, left them, and that is what l attended to *)
WalkedTo(variant, w, full, s, d, l, top) ==
    \E h : /\ LastAt(l, h) /\ Walked(variant, w, full, s, d, h, top)
           /\ l # 0 => /\ Hash!LayerKind(l) # "rollback" => h # 0
                       /\ w.seen = IF Hash!LayerKind(l) = "rollback" \/ ~(variant = "mla_cuda" \/ d) THEN full
                                   ELSE Chose(full, s, h, top)

\* So it is after every layer.
LEMMA AllWalked ==
    ASSUME NEW variant \in Hash!Variants, NEW b, b # <<>>, NEW full, full = Hash!AttnMetadata(b),
           NEW r \in Nat, Rows(full, r), NEW s, NEW d \in BOOLEAN, NEW top, NEW after, after = Hash!Layers(variant, b, top),
           Walked(variant, Hash!Built(variant, b, full), full, s, d, 0, top), NEW n \in 0..NumLayers
    PROVE  WalkedTo(variant, after[n], full, s, d, n, top)
<1> DEFINE Good(i) == WalkedTo(variant, after[i], full, s, d, i, top)
           B == {i \in 0..NumLayers : ~Good(i)}
<1>1. NumLayers \in Nat
  BY GsaOnDeviceAssumption
<1>2. Good(0)
  BY <1>1, LayersAre DEF LastAt, WalkedTo
<1>3. ASSUME NEW l \in 1..NumLayers, Good(l - 1) PROVE Good(l)
  <2>1. l \in 0..NumLayers /\ l # 0
    BY <1>1
  <2>2. PICK w, v : w = after[l - 1] /\ v = after[l]
    OBVIOUS
  <2>3. v = Hash!forward(variant, b, w, l, top)
    BY <2>1, <2>2, LayersAre
  <2>4. PICK g : LastAt(l - 1, g) /\ Walked(variant, w, full, s, d, g, top)
    BY <1>3, <2>2 DEF WalkedTo
  <2>5. PICK h : h = IF Hash!LayerKind(l) = "hash" THEN l ELSE g
    OBVIOUS
  <2>6. LastAt(l, h) /\ (Hash!LayerKind(l) = "skip" => g # 0)
    BY <2>4, <2>5, LastGoesOn
  <2>7. /\ Walked(variant, v, full, s, d, h, top)
        /\ v.seen = IF Hash!LayerKind(l) = "rollback" \/ ~(variant = "mla_cuda" \/ d) THEN full
                    ELSE Chose(full, s, h, top)
    BY <2>1, <2>3, <2>4, <2>5, <2>6, LayerGoesOn
  <2>8. Hash!LayerKind(l) # "rollback" => h # 0
    BY <2>1, <2>5, <2>6 DEF Hash!LayerKind
  <2> QED
    BY <2>2, <2>6, <2>7, <2>8 DEF WalkedTo
<1>4. B \in SUBSET Nat
  BY <1>1
<1>5. ASSUME B # {} PROVE FALSE
  <2>1. PICK x \in B : \A y \in B : x <= y
    BY <1>4, <1>5, NatLeast
  <2>2. x # 0 /\ x \in 0..NumLayers /\ ~Good(x)
    BY <1>2, <2>1
  <2>3. x - 1 \in 0..NumLayers /\ x \in 1..NumLayers /\ x - 1 \notin B
    BY <1>1, <2>1, <2>2
  <2>4. Good(x - 1)
    BY <2>3
  <2> QED
    BY <1>3, <2>2, <2>3, <2>4
<1> QED
  BY <1>5

\* Without rows nothing happens.
LEMMA NoRows ==
    ASSUME NEW variant, NEW b, b = <<>>, NEW top, NEW after, after = Hash!Layers(variant, b, top), NEW n \in 0..NumLayers
    PROVE  after[n] = Hash!Built(variant, b, Hash!AttnMetadata(b))
<1> DEFINE First == Hash!Built(variant, b, Hash!AttnMetadata(b))
           B == {i \in 0..NumLayers : after[i] # First}
<1>1. NumLayers \in Nat
  BY GsaOnDeviceAssumption
<1>2. after[0] = First
  BY <1>1, LayersAre
<1>3. ASSUME NEW l \in 1..NumLayers, after[l - 1] = First PROVE after[l] = First
  BY <1>1, <1>3, LayersAre DEF Hash!forward
<1>4. B \in SUBSET Nat
  BY <1>1
<1>5. ASSUME B # {} PROVE FALSE
  <2>1. PICK x \in B : \A y \in B : x <= y
    BY <1>4, <1>5, NatLeast
  <2>2. x # 0 /\ x \in 0..NumLayers /\ after[x] # First
    BY <1>2, <2>1
  <2>3. x - 1 \in 0..NumLayers /\ x \in 1..NumLayers /\ x - 1 \notin B
    BY <1>1, <2>1, <2>2
  <2> QED
    BY <1>3, <2>2, <2>3
<1> QED
  BY <1>5

\* The rows of a batch.
LEMMA BatchRows ==
    ASSUME NEW b, NEW r \in Nat, DOMAIN b = 1..r, NEW full, full = Hash!AttnMetadata(b)
    PROVE  /\ Rows(full, r) /\ DOMAIN full.rows = 1..r /\ Len(full.rows) = r
           /\ \A i \in 1..r : full.rows[i] = Hash!UpdatedRows[b[i]] /\ full.lens[i] = Hash!SeqLen(b[i])
<1> DEFINE R == [i \in DOMAIN b |-> Hash!UpdatedRows[b[i]]]
           L == [i \in DOMAIN b |-> Hash!SeqLen(b[i])]
<1>1. full = Hash!Table(R, L)
  BY DEF Hash!AttnMetadata
<1>2. R = [i \in 1..r |-> R[i]] /\ L = [i \in 1..r |-> L[i]] /\ DOMAIN R = 1..r
      /\ \A i \in 1..r : R[i] = Hash!UpdatedRows[b[i]] /\ L[i] = Hash!SeqLen(b[i])
  OBVIOUS
<1> HIDE DEF R, L
<1>3. Rows(full, r)
  BY <1>1, <1>2 DEF Rows
<1>4. full.rows = R /\ full.lens = L
  BY <1>1 DEF Hash!Table
<1>5. Len(full.rows) = r
  BY <1>3, AllRows
<1> QED
  BY <1>2, <1>3, <1>4, <1>5

\* Of a table in which a layer chose, the rows.
LEMMA ChosenRows ==
    ASSUME NEW full, NEW r \in Nat, Rows(full, r), NEW s, NEW h, NEW top, NEW u, u = Chose(full, s, h, top)
    PROVE  /\ DOMAIN u.rows = 1..r
           /\ \A i \in 1..r : i \in s => /\ u.rows[i] = Hash!hamming_topk(full.rows[i], full.lens[i], h, top)
                                        /\ u.lens[i] = Hash!update_seq_lens(full.lens[i])
           /\ \A i \in 1..r : i \notin s => u.rows[i] = full.rows[i] /\ u.lens[i] = full.lens[i]
<1>1. PICK R, L : full = Hash!Table(R, L) /\ R = [i \in 1..r |-> R[i]] /\ L = [i \in 1..r |-> L[i]]
  BY DEF Rows
<1>2. full.rows = R /\ full.lens = L /\ DOMAIN R = 1..r /\ DOMAIN L = 1..r
  <2>1. full.rows = R /\ full.lens = L
    BY <1>1 DEF Hash!Table
  <2> QED
    BY <1>1, <2>1
<1> DEFINE A == [i \in 1..r |-> IF i \in s THEN Hash!hamming_topk(R[i], L[i], h, top) ELSE R[i]]
           B == [i \in 1..r |-> IF i \in s THEN Hash!update_seq_lens(L[i]) ELSE L[i]]
<1>3. u = Hash!Table(A, B)
  BY <1>2 DEF Chose, Hash!Scored
<1>4. u.rows = A /\ u.lens = B
  BY <1>3 DEF Hash!Table
<1> QED
  BY <1>2, <1>4

\* When no request decodes, no row is to be replaced.
LEMMA NoSparseRows ==
    ASSUME NEW variant \in Hash!Variants, variant # "mla_cuda", Hash!Decodes = {}, NEW b,
           \A i \in DOMAIN b : b[i] \in Hash!Scheduled
    PROVE  Hash!SparseRows(variant, b, Hash!Decodes # {}) = {}
<1>1. \A i \in DOMAIN b : ~Hash!IsDecode(b[i])
  BY DEF Hash!Decodes
<1>2. CASE variant = "gqa_cuda"
  BY <1>1, <1>2 DEF Hash!SparseRows
<1>3. CASE variant = "gqa_npu"
  BY <1>3 DEF Hash!SparseRows
<1> QED
  BY <1>2, <1>3 DEF Hash!Variants

\* In every layer every row of a batch is whole blocks of its own, and the metadata are full again after the last.
THEOREM TablesRight ==
    ASSUME NEW variant \in Hash!Variants, NEW b, NEW r \in Nat, DOMAIN b = 1..r, NEW full, full = Hash!AttnMetadata(b),
           NEW top \in Nat, \A i \in 1..r : b[i] \in Hash!Scheduled,
           \A i \in 1..r : /\ full.lens[i] \in Int /\ Len(full.rows[i]) \in Nat
                           /\ Hash!Ceil(full.lens[i], BlockSize) <= Len(full.rows[i]),
           variant = "gqa_npu" /\ Hash!Decodes # {} =>
               (Hash!slice_enabled(b) /\ ~Hash!AttnStateDecodeOnly) \/ Hash!batch_size_for_hamming(b) = r
    PROVE  Hash!TablesAreRight(variant, b, top)
<1>1. PICK after : after = Hash!Layers(variant, b, top)
  OBVIOUS
<1>2. NumLayers \in Nat
  BY GsaOnDeviceAssumption
<1>3. SUFFICES Hash!LayersAreRight(full, b, after, top)
  BY <1>1, Zenon DEF Hash!TablesAreRight
<1>4. PICK d \in BOOLEAN : d = (Hash!Decodes # {})
  OBVIOUS
<1>5. PICK s : s = Hash!SparseRows(variant, b, Hash!Decodes # {})
  OBVIOUS
<1>6. /\ Rows(full, r) /\ DOMAIN full.rows = 1..r /\ Len(full.rows) = r
  BY BatchRows
<1>7. CASE b = <<>>
  <2>1. after[NumLayers] = Hash!Built(variant, b, full)
    BY <1>1, <1>2, <1>7, NoRows
  <2>2. after[NumLayers].heap["table"] = full /\ after[NumLayers].meta = "table"
    BY <2>1 DEF Hash!Built
  <2> QED
    BY <1>7, <2>2 DEF Hash!LayersAreRight
<1>8. CASE b # <<>>
  <2>1. Walked(variant, Hash!Built(variant, b, full), full, s, d, 0, top)
    BY <1>4, <1>5, <1>6, BuiltWalks
  <2>2. \A n \in 0..NumLayers : WalkedTo(variant, after[n], full, s, d, n, top)
    BY <1>1, <1>6, <1>8, <2>1, AllWalked
  <2>3. after[NumLayers].heap[after[NumLayers].meta] = full
    <3>1. PICK h : Walked(variant, after[NumLayers], full, s, d, h, top)
      BY <1>2, <2>2 DEF WalkedTo
    <3> QED
      BY <3>1, WalkedIs
  <2>4. ASSUME NEW l \in 1..NumLayers, NEW w, w = after[l]
        PROVE  /\ DOMAIN w.seen.rows = DOMAIN b
               /\ \A i \in DOMAIN b :
                    Hash!RowIsRight(w.seen.rows[i], w.seen.lens[i], full.rows[i], full.lens[i],
                        IF Hash!LayerKind(l) = "rollback" \/ i \notin w.sparse THEN {}
                        ELSE Hash!Best(full.lens[i], Hash!ScoredAt(l), top))
    <3>1. l \in 0..NumLayers /\ l # 0 /\ l \in Nat
      BY <1>2
    <3>2. PICK h : /\ LastAt(l, h) /\ Walked(variant, w, full, s, d, h, top)
                   /\ Hash!LayerKind(l) # "rollback" => h # 0
                   /\ w.seen = IF Hash!LayerKind(l) = "rollback" \/ ~(variant = "mla_cuda" \/ d) THEN full
                               ELSE Chose(full, s, h, top)
      BY <2>2, <2>4, <3>1 DEF WalkedTo
    <3>3. w.sparse = s
      BY <3>2, WalkedIs
    <3>4. \A i \in 1..r : Hash!RowIsRight(full.rows[i], full.lens[i], full.rows[i], full.lens[i], {})
      BY DEF Hash!RowIsRight
    <3>5. CASE Hash!LayerKind(l) = "rollback" \/ ~(variant = "mla_cuda" \/ d)
      <4>1. w.seen = full
        BY <3>2, <3>5
      <4>2. Hash!LayerKind(l) = "rollback" \/ s = {}
        BY <1>4, <1>5, <3>5, NoSparseRows
      <4> QED
        BY <1>6, <3>3, <3>4, <4>1, <4>2
    <3>6. CASE ~(Hash!LayerKind(l) = "rollback" \/ ~(variant = "mla_cuda" \/ d))
      <4>1. PICK u : u = w.seen /\ u = Chose(full, s, h, top)
        BY <3>2, <3>6
      <4>2. h # 0 /\ Hash!ScoredAt(l) = h /\ h \in Nat
        BY <3>1, <3>2, <3>6, LastIs DEF LastAt
      <4>3. /\ DOMAIN u.rows = 1..r
            /\ \A i \in 1..r : i \in s => /\ u.rows[i] = Hash!hamming_topk(full.rows[i], full.lens[i], h, top)
                                         /\ u.lens[i] = Hash!update_seq_lens(full.lens[i])
            /\ \A i \in 1..r : i \notin s => u.rows[i] = full.rows[i] /\ u.lens[i] = full.lens[i]
        BY <1>6, <4>1, ChosenRows
      <4>4. ASSUME NEW i \in 1..r, i \in s
            PROVE  Hash!RowIsRight(u.rows[i], u.lens[i], full.rows[i], full.lens[i], Hash!Best(full.lens[i], h, top))
        <5>1. PICK row, n : row = full.rows[i] /\ n = full.lens[i]
          OBVIOUS
        <5>2. n \in Int /\ Len(row) \in Nat /\ Hash!Ceil(n, BlockSize) <= Len(row)
          BY <5>1
        <5>3. Hash!RowIsRight(Hash!hamming_topk(row, n, h, top), Hash!update_seq_lens(n), row, n, Hash!Best(n, h, top))
          BY <4>2, <5>2, RowIs
        <5> QED
          BY <4>3, <4>4, <5>1, <5>3
      <4>5. ASSUME NEW i \in 1..r, i \notin s
            PROVE  Hash!RowIsRight(u.rows[i], u.lens[i], full.rows[i], full.lens[i], {})
        BY <3>4, <4>3, <4>5
      <4> QED
        BY <3>3, <3>6, <4>1, <4>2, <4>3, <4>4, <4>5
    <3> QED
      BY <3>5, <3>6
  <2> QED
    BY <2>3, <2>4, Zenon DEF Hash!LayersAreRight
<1> QED
  BY <1>7, <1>8

----------------------------------------------------------------------------
(* GSAOnDevice: there is room for what is scheduled, so the tables are right. *)

(* The request has room for its tokens of this step, in blocks of its own. *)
Roomy(r) == out.slots[r] = INVALID_SLOT /\ Ceil(computed[r] + out.n[r], BlockSize) <= Len(blocks[r])

\* GSAOnDevice allocates for every request it schedules, as many blocks as its tokens need.
Covered == load.method = "GSAOnDevice" /\ pc # "idle" => \A r \in Scheduled : Roomy(r)

\* Who is allocated for has blocks for all its tokens.
LEMMA OriginalCovers ==
    ASSUME Inv, NEW r \in Requests, NEW from \in Int, NEW n \in Int, NEW hits \in Seq(1..load.hbm), NEW a,
           a = original_allocate_slots(r, from, n, hits), a.ok
    PROVE  Ceil(from + n, BlockSize) <= Len(a.blocks)
<1>1. PICK known : known = blocks[r] \o hits
  OBVIOUS
<1>2. blocks[r] \in Seq(1..load.hbm) /\ free \in Seq(1..load.hbm)
  BY DEF Inv, Pool, Whole
<1>3. known \in Seq(1..load.hbm) /\ Len(known) \in Nat
  BY <1>1, <1>2, Joined
<1>4. PICK top \in Int : top = Ceil(from + n, BlockSize)
  BY FullBlocks
<1>5. PICK need \in Int : need = top - Len(known)
  BY <1>3
<1>6. PICK spare : spare = Without(free, ToSet(hits))
  OBVIOUS
<1>7. spare \in Seq(1..load.hbm) /\ IsInjective(spare) /\ Len(spare) \in Nat
  BY <1>2, <1>6, Filtered DEF Inv, Pool, Whole
<1>8. PICK fresh : fresh = SubSeq(spare, 1, need)
  OBVIOUS
<1>9. PICK all : all = known \o fresh
  OBVIOUS
<1>10. CASE need > Len(spare)
  BY <1>1, <1>4, <1>5, <1>6, <1>10 DEF original_allocate_slots, Allocation
<1>11. CASE ~(need > Len(spare))
  <2>1. PICK rest : rest = SubSeq(spare, Len(fresh) + 1, Len(spare))
    OBVIOUS
  <2> DEFINE full == 1..((from + n) \div BlockSize)
             ca == [v \in 1..HbmBlocks |->
                      IF \E i \in full : all[i] = v
                      THEN SubSeq(tokens[r], 1, BlockSize * CHOOSE i \in full : all[i] = v)
                      ELSE IF v \in ToSet(fresh) THEN Junk ELSE cached[v]]
  <2>2. a = [ok |-> TRUE, blocks |-> all, free |-> rest, cached |-> ca, new |-> fresh]
    BY <1>1, <1>4, <1>5, <1>6, <1>8, <1>9, <1>11, <2>1, Zenon DEF original_allocate_slots, Allocation
  <2> HIDE DEF ca
  <2>3. a.blocks = all
    BY <2>2
  <2>4. CASE need < 0
    BY <1>3, <1>4, <1>5, <1>8, <1>9, <2>3, <2>4
  <2>5. CASE need >= 0
    <3>1. need \in Nat /\ need <= Len(spare)
      BY <1>5, <1>7, <1>11, <2>5
    <3>2. fresh \in Seq(1..load.hbm) /\ Len(fresh) = need
      BY <1>7, <1>8, <3>1, Parts
    <3>3. Len(all) = Len(known) + Len(fresh)
      <4>1. ASSUME NEW S, NEW s \in Seq(S), NEW t \in Seq(S) PROVE Len(s \o t) = Len(s) + Len(t)
        OBVIOUS
      <4> QED
        BY <1>3, <1>9, <3>2, <4>1
    <3> QED
      BY <1>3, <1>4, <1>5, <2>3, <3>2, <3>3
  <2> QED
    BY <1>5, <2>4, <2>5
<1> QED
  BY <1>5, <1>7, <1>10, <1>11

\* The blocks and tokens of a request that keeps both.
LEMMA RoomyStays ==
    ASSUME NEW r, out'.slots[r] = out.slots[r], out'.n[r] = out.n[r], computed'[r] = computed[r], blocks'[r] = blocks[r],
           Roomy(r)
    PROVE  Roomy(r)'
BY DEF Roomy

\* A running request is served, or the last one gives up its blocks.
LEMMA TurnCovers ==
    ASSUME Inv, Agreed, Covered, load.method = "GSAOnDevice", NEW r \in ToSet(running), NEW a,
           a = original_allocate_slots(r, computed[r], NewTokens(r, computed[r]), <<>>),
           ScheduleRunning(r, INVALID_SLOT, a)
    PROVE  \A q \in Scheduled' : Roomy(q)'
<1>1. pc = "running" /\ at <= Len(running) /\ r = running[at] /\ \A q \in Scheduled : Roomy(q) /\ Sent(q)
  BY DEF ScheduleRunning, Covered, Agreed, Chosen
<1>2. running \in Seq(Requests) /\ IsInjective(running) /\ at \in Nat \ {0}
  BY DEF Inv, Queues, Numbers
<1>3. r \in Requests /\ DOMAIN running = 1..Len(running) /\ Len(running) \in Nat /\ at \in 1..Len(running)
  BY <1>1, <1>2, SetOf
<1>4. PICK from \in Int, n \in Int : from = computed[r] /\ n = NewTokens(r, from)
  BY <1>3, NewTokensInt DEF Inv, Numbers
<1>5. PICK none : none = <<>>
  OBVIOUS
<1>6. none \in Seq(1..load.hbm)
  BY <1>5, Empty
<1>7. a = original_allocate_slots(r, from, n, none)
  BY <1>4, <1>5
<1>8. Sound(r, a) /\ (~a.ok => a.blocks = blocks[r])
  BY OriginalRunning
<1>9. blocks \in [Requests -> Seq(1..load.hbm)] /\ computed \in [Requests -> Int]
  BY DEF Inv, Pool, Whole, Numbers
<1>10. PICK order, oslots, counts : order = out.order /\ oslots = out.slots /\ counts = out.n
  OBVIOUS
<1>11. /\ DOMAIN out = {"order", "new", "resumed", "n", "slots", "blocks"} /\ order \in Seq(Requests)
       /\ ToSet(order) \subseteq DOMAIN counts /\ Scheduled = ToSet(order)
  BY <1>10 DEF Inv, Numbers, Counted, Scheduled
<1>12. ToSet(order) = {running[i] : i \in 1..(at - 1)} /\ ToSet(order) \subseteq Requests
  BY <1>1, <1>11, SetOf DEF Agreed, InTurn
<1>13. \A q \in ToSet(order) : q # r
  <2>1. SUFFICES ASSUME NEW i \in 1..(at - 1), r = running[i] PROVE FALSE
    BY <1>12
  <2>2. i \in 1..Len(running) /\ i # at
    BY <1>3
  <2> QED
    BY <1>1, <1>2, <1>3, <2>1, <2>2 DEF IsInjective
<1>14. \A q \in ToSet(order) : q \in DOMAIN oslots /\ q \in DOMAIN counts
  BY <1>1, <1>10, <1>11 DEF Sent
<1>15. CASE a.ok
  <2>1. /\ blocks' = [blocks EXCEPT ![r] = a.blocks] /\ computed' = computed
        /\ out' = [out EXCEPT !.order = Append(@, r), !.n = Put(@, r, n),
                              !.slots = Put(@, r, INVALID_SLOT), !.blocks = Put(@, r, a.new)]
    BY <1>4, <1>15, Zenon DEF ScheduleRunning
  <2>2. out'.order = Append(order, r) /\ out'.n = Put(counts, r, n) /\ out'.slots = Put(oslots, r, INVALID_SLOT)
    BY <1>10, <1>11, <2>1
  <2>3. ToSet(out'.order) = ToSet(order) \cup {r}
    <3>1. PICK last : last = <<r>>
      OBVIOUS
    <3>2. last \in Seq(Requests) /\ ToSet(last) = {r}
      BY <1>3, <3>1, OneOf
    <3>3. out'.order = order \o last
      BY <1>11, <2>2, <3>1
    <3> QED
      BY <1>11, <3>2, <3>3, Joined
  <2>4. Scheduled' = ToSet(order) \cup {r}
    BY <2>3 DEF Scheduled, ToSet
  <2>5. Roomy(r)'
    BY <1>3, <1>4, <1>6, <1>7, <1>9, <1>15, <2>1, <2>2, OriginalCovers DEF Put, Roomy, INVALID_SLOT, Ceil
  <2>6. ASSUME NEW q \in ToSet(order) PROVE Roomy(q)'
    <3>1. q # r /\ q \in Requests /\ Roomy(q)
      BY <1>1, <1>11, <1>12, <1>13
    <3>2. out'.slots[q] = out.slots[q] /\ out'.n[q] = out.n[q]
      BY <1>10, <1>14, <2>2, <3>1 DEF Put
    <3>3. computed'[q] = computed[q] /\ blocks'[q] = blocks[q]
      BY <1>9, <2>1, <3>1
    <3> QED
      BY <3>1, <3>2, <3>3, RoomyStays
  <2> QED
    BY <2>4, <2>5, <2>6
<1>16. CASE ~a.ok
  <2>1. PICK victim : victim = Last(running)
    OBVIOUS
  <2>2. /\ computed' = [computed EXCEPT ![victim] = 0]
        /\ blocks' = [[blocks EXCEPT ![r] = a.blocks] EXCEPT ![victim] = <<>>]
        /\ out' = [out EXCEPT !.slots = Put(@, r, INVALID_SLOT)]
    <3>1. PreemptLast(r, INVALID_SLOT, a)
      BY <1>16 DEF ScheduleRunning
    <3> QED
      BY <2>1, <3>1, Zenon DEF PreemptLast
  <2>3. out'.order = order /\ out'.n = counts /\ out'.slots = Put(oslots, r, INVALID_SLOT)
    BY <1>10, <1>11, <2>2
  <2>4. Scheduled' = ToSet(order)
    BY <2>3 DEF Scheduled, ToSet
  <2>5. \A q \in ToSet(order) : q # victim
    <3>1. SUFFICES ASSUME NEW i \in 1..(at - 1), victim = running[i] PROVE FALSE
      BY <1>12
    <3>2. victim = running[Len(running)]
      BY <2>1 DEF Last
    <3>3. Len(running) \in 1..Len(running) /\ i \in 1..Len(running) /\ i # Len(running)
      <4>1. PICK l, k : l = Len(running) /\ k = at
        OBVIOUS
      <4>2. l \in Nat /\ k \in 1..l /\ i \in 1..(k - 1)
        BY <1>3, <4>1
      <4>3. l \in 1..l /\ i \in 1..l /\ i # l
        BY <4>2
      <4> QED
        BY <4>1, <4>3
    <3> QED
      BY <1>2, <1>3, <3>1, <3>2, <3>3 DEF IsInjective
  <2>6. ASSUME NEW q \in ToSet(order) PROVE Roomy(q)'
    <3>1. q # r /\ q # victim /\ q \in Requests /\ Roomy(q)
      BY <1>1, <1>11, <1>12, <1>13, <2>5
    <3>2. out'.slots[q] = out.slots[q] /\ out'.n[q] = out.n[q]
      BY <1>10, <1>14, <2>3, <3>1 DEF Put
    <3>3. computed'[q] = computed[q] /\ blocks'[q] = blocks[q]
      BY <1>9, <2>2, <3>1
    <3> QED
      BY <3>1, <3>2, <3>3, RoomyStays
  <2> QED
    BY <2>4, <2>6
<1>17. a.ok \in BOOLEAN
  BY <1>8 DEF Sound
<1> QED
  BY <1>15, <1>16, <1>17

\* A waiting request is admitted, with blocks for what is computed and for its tokens, or nobody is.
LEMMA AdmittedCovers ==
    ASSUME Inv, Agreed, Covered, load.method = "GSAOnDevice", NEW r \in ToSet(waiting), NEW from \in Int, NEW a,
           a = original_allocate_slots(r, from, NewTokens(r, from), CachedPrefix(r)),
           ScheduleWaiting(r, INVALID_SLOT, from, a)
    PROVE  \A q \in Scheduled' : Roomy(q)'
<1>1. pc = "waiting" /\ (\A q \in Scheduled : Roomy(q) /\ Sent(q)) /\ Scheduled \subseteq ToSet(running)
      /\ blocks' = [blocks EXCEPT ![r] = a.blocks]
  BY DEF ScheduleWaiting, CanAdmit, Covered, Agreed, Chosen
<1>2. /\ waiting \in Seq(Requests) /\ running \in Seq(Requests) /\ ToSet(waiting) \cap ToSet(running) = {}
      /\ blocks \in [Requests -> Seq(1..load.hbm)] /\ computed \in [Requests -> Int]
  BY DEF Inv, Queues, Numbers, Pool, Whole
<1>3. r \in Requests /\ r \notin ToSet(running) /\ ToSet(running) \subseteq Requests
  BY <1>2, SetOf
<1>4. PICK n \in Int : n = NewTokens(r, from)
  BY <1>3, NewTokensInt
<1>5. PICK hits \in Seq(1..load.hbm) : hits = CachedPrefix(r)
  BY <1>3, HitsOf DEF Inv, Pool, Numbers
<1>6. a = original_allocate_slots(r, from, n, hits)
  BY <1>4, <1>5
<1>7. a.ok \in BOOLEAN
  BY OriginalWaiting DEF Sound
<1>8. PICK order, oslots, counts : order = out.order /\ oslots = out.slots /\ counts = out.n
  OBVIOUS
<1>9. /\ DOMAIN out = {"order", "new", "resumed", "n", "slots", "blocks"} /\ order \in Seq(Requests)
      /\ ToSet(order) \subseteq DOMAIN counts /\ Scheduled = ToSet(order)
  BY <1>8 DEF Inv, Numbers, Counted, Scheduled
<1>10. \A q \in ToSet(order) : q # r /\ q \in Requests /\ q \in DOMAIN oslots /\ q \in DOMAIN counts
  BY <1>1, <1>3, <1>8, <1>9 DEF Sent
<1>11. CASE a.ok
  <2>1. /\ computed' = [computed EXCEPT ![r] = from]
        /\ out' = [out EXCEPT !.order = Append(@, r), !.n = Put(@, r, n),
                     !.slots = Put(@, r, INVALID_SLOT), !.blocks = Put(@, r, a.blocks),
                     !.new = IF status[r] = "WAITING" THEN @ \cup {r} ELSE @,
                     !.resumed = IF status[r] = "PREEMPTED" THEN @ \cup {r} ELSE @]
    BY <1>4, <1>11, Zenon DEF ScheduleWaiting
  <2>2. out'.order = Append(order, r) /\ out'.n = Put(counts, r, n) /\ out'.slots = Put(oslots, r, INVALID_SLOT)
    BY <1>8, <1>9, <2>1
  <2>3. ToSet(out'.order) = ToSet(order) \cup {r}
    <3>1. PICK last : last = <<r>>
      OBVIOUS
    <3>2. last \in Seq(Requests) /\ ToSet(last) = {r}
      BY <1>3, <3>1, OneOf
    <3>3. out'.order = order \o last
      <4>1. PICK o : o = out'.order
        OBVIOUS
      <4>2. order \in Seq(Requests) /\ o = Append(order, r)
        BY <1>9, <2>2, <4>1
      <4> QED
        BY <3>1, <4>1, <4>2
    <3> QED
      BY <1>9, <3>2, <3>3, Joined
  <2>4. Scheduled' = ToSet(order) \cup {r}
    BY <2>3 DEF Scheduled, ToSet
  <2>5. Roomy(r)'
    BY <1>1, <1>2, <1>3, <1>6, <1>11, <2>1, <2>2, OriginalCovers DEF Put, Roomy, INVALID_SLOT, Ceil
  <2>6. ASSUME NEW q \in ToSet(order) PROVE Roomy(q)'
    <3>1. q # r /\ q \in Requests /\ Roomy(q)
      BY <1>1, <1>9, <1>10
    <3>2. out'.slots[q] = out.slots[q] /\ out'.n[q] = out.n[q]
      BY <1>8, <1>10, <2>2, <3>1 DEF Put
    <3>3. computed'[q] = computed[q] /\ blocks'[q] = blocks[q]
      BY <1>1, <1>2, <2>1, <3>1
    <3> QED
      BY <3>1, <3>2, <3>3, RoomyStays
  <2> QED
    BY <2>4, <2>5, <2>6
<1>12. CASE ~a.ok
  <2>1. out' = [out EXCEPT !.slots = Put(@, r, INVALID_SLOT)] /\ computed' = computed
    BY <1>12 DEF ScheduleWaiting
  <2>2. out'.order = order /\ out'.n = counts /\ out'.slots = Put(oslots, r, INVALID_SLOT)
    BY <1>8, <1>9, <2>1
  <2>3. Scheduled' = ToSet(order)
    BY <2>2 DEF Scheduled, ToSet
  <2>4. ASSUME NEW q \in ToSet(order) PROVE Roomy(q)'
    <3>1. q # r /\ q \in Requests /\ Roomy(q)
      BY <1>1, <1>9, <1>10
    <3>2. out'.slots[q] = out.slots[q] /\ out'.n[q] = out.n[q]
      BY <1>8, <1>10, <2>2, <3>1 DEF Put
    <3>3. computed'[q] = computed[q] /\ blocks'[q] = blocks[q]
      BY <1>1, <1>2, <2>1, <3>1
    <3> QED
      BY <3>1, <3>2, <3>3, RoomyStays
  <2> QED
    BY <2>3, <2>4
<1> QED
  BY <1>7, <1>11, <1>12

\* Every step of GSAOnDevice leaves room for whom it schedules.
LEMMA HashCovers ==
    ASSUME Inv, Agreed, Covered, load.method = "GSAOnDevice", Hash!Next
    PROVE  pc' # "idle" => \A r \in Scheduled' : Roomy(r)'
<1>1. CASE Hash!Schedule
  <2>1. out' = NoOutput
    BY <1>1, Zenon DEF Hash!Schedule, Hash!NoOutput, NoOutput
  <2>2. PICK none : none = <<>>
    OBVIOUS
  <2>3. ToSet(none) = {} /\ out'.order = none
    BY <2>1, <2>2, Empty DEF NoOutput
  <2>4. Scheduled' = {}
    BY <2>3 DEF Scheduled, ToSet
  <2> QED
    BY <2>4
<1>2. CASE Hash!RunningDone \/ Hash!WaitingDone
  BY <1>2, RoomyStays DEF Hash!RunningDone, Hash!WaitingDone, Hash!schedulerVars, Covered, Scheduled
<1>3. CASE Hash!RunningTurn
  <2>1. PICK r : r = running[at]
    OBVIOUS
  <2>2. PICK a : a = Hash!original_allocate_slots(r, computed[r], Hash!NewTokens(r, computed[r]), <<>>)
    OBVIOUS
  <2>3. a = original_allocate_slots(r, computed[r], NewTokens(r, computed[r]), <<>>)
    BY <2>2, Zenon DEF Hash!original_allocate_slots, original_allocate_slots, Hash!NewTokens, NewTokens,
      Hash!Least, Least, Hash!Ceil, Ceil, Hash!Without, Without, Hash!ToSet, ToSet, Hash!Allocation,
      Allocation, Hash!Junk, Junk
  <2>4. pc = "running" /\ at <= Len(running) /\ Hash!ScheduleRunning(r, Hash!INVALID_SLOT, a)
    BY <1>3, <2>1, <2>2, Zenon DEF Hash!RunningTurn
  <2>5. ScheduleRunning(r, INVALID_SLOT, a)
    BY <2>4, Zenon DEF Hash!ScheduleRunning, ScheduleRunning, Hash!PreemptLast, PreemptLast, Hash!NewTokens,
      NewTokens, Hash!Least, Least, Hash!Put, Put, Hash!Last, Last, Hash!Front, Front, Hash!Reverse, Reverse,
      Hash!Without, Without, Hash!ToSet, ToSet, Hash!runnerVars, runnerVars, Hash!INVALID_SLOT, INVALID_SLOT
  <2>6. r \in ToSet(running)
    BY <2>1, <2>4, AtHand
  <2> QED
    BY <2>3, <2>5, <2>6, TurnCovers
<1>4. CASE Hash!WaitingTurn
  <2>1. PICK r : r = Head(waiting)
    OBVIOUS
  <2>2. PICK hits : hits = Hash!CachedPrefix(r)
    OBVIOUS
  <2>3. hits = CachedPrefix(r)
    BY <2>2, Zenon DEF Hash!CachedPrefix, CachedPrefix
  <2>4. waiting # <<>>
    BY <1>4 DEF Hash!WaitingTurn, Hash!CanAdmit
  <2>5. r \in ToSet(waiting)
    BY <2>1, <2>4, AtHand
  <2>6. PICK here \in Int : here = Len(hits) * BlockSize
    BY <2>3, <2>5, HitTokens
  <2>7. PICK from \in Int : from = here + (IF load.stored[r] > here THEN load.stored[r] - here ELSE 0)
    BY <2>5, SetOf, LoadOf DEF Inv, Queues
  <2>8. PICK a : a = Hash!original_allocate_slots(r, from, Hash!NewTokens(r, from), hits)
    OBVIOUS
  <2>9. a = original_allocate_slots(r, from, NewTokens(r, from), hits)
    BY <2>8, Zenon DEF Hash!original_allocate_slots, original_allocate_slots, Hash!NewTokens, NewTokens,
      Hash!Least, Least, Hash!Ceil, Ceil, Hash!Without, Without, Hash!ToSet, ToSet, Hash!Allocation,
      Allocation, Hash!Junk, Junk
  <2>10. Hash!ScheduleWaiting(r, Hash!INVALID_SLOT, from, a)
    BY <1>4, <2>1, <2>2, <2>6, <2>7, <2>8, Zenon DEF Hash!WaitingTurn
  <2>11. ScheduleWaiting(r, INVALID_SLOT, from, a)
    BY <2>10, Zenon DEF Hash!ScheduleWaiting, ScheduleWaiting, Hash!CanAdmit, CanAdmit, Hash!NewTokens,
      NewTokens, Hash!Least, Least, Hash!Put, Put, Hash!runnerVars, runnerVars, Hash!INVALID_SLOT, INVALID_SLOT
  <2> QED
    BY <2>3, <2>5, <2>9, <2>11, AdmittedCovers
<1>5. CASE Hash!Execute
  BY <1>5 DEF Hash!Execute, Hash!StepEnds
<1>6. CASE Hash!Clients
  <2>1. PICK r \in Requests : Hash!Arrive(r) \/ Hash!Abort(r)
    BY <1>6 DEF Hash!Clients
  <2>2. pc = "idle" /\ pc' = pc
    BY <2>1 DEF Hash!Arrive, Hash!Abort, Hash!scheduleVars
  <2> QED
    BY <2>2
<1> QED
  BY <1>1, <1>2, <1>3, <1>4, <1>5, <1>6 DEF Hash!Next, Hash!Steps

\* So does every step of the system.
LEMMA CoveredStays == ASSUME Inv, Agreed, Covered, [Next]_vars PROVE Covered'
<1>1. load' = load
  BY StepIs, AliveStays
<1>2. CASE load.method = "GSAOnDevice"
  <2>1. CASE HashNext
    BY <1>1, <1>2, <2>1, HashCovers DEF HashNext, Covered
  <2>2. CASE UNCHANGED vars
    BY <1>1, <2>2, RoomyStays DEF vars, engineVars, schedulerVars, scheduleVars, Covered, Scheduled
  <2> QED
    BY <1>2, <2>1, <2>2 DEF Next, EsaNext, KVStarNext, GsaNext, ReropeNext
<1>3. CASE load.method # "GSAOnDevice"
  BY <1>1, <1>3 DEF Covered
<1> QED
  BY <1>2, <1>3

\* The rows of a step: the batch, or with MLA the requests of it with one token.
LEMMA BatchHas ==
    ASSUME Inv, Agreed, pc = "execute", NEW variant \in Hash!Variants
    PROVE  /\ Hash!Batch(variant) \in Seq(Requests) /\ ToSet(Hash!Batch(variant)) \subseteq Scheduled
           /\ variant # "mla_cuda" => Hash!Batch(variant) = UpdatedBatch
<1>1. UpdatedBatch \in Seq(Requests) /\ ToSet(UpdatedBatch) = Scheduled
  BY BatchIs
<1>2. Hash!UpdatedBatch = UpdatedBatch /\ Hash!Scheduled = Scheduled
  BY Zenon DEF Hash!UpdatedBatch, UpdatedBatch, Hash!Scheduled, Scheduled, Hash!ToSet, ToSet, Hash!Without, Without,
    Hash!Reverse, Reverse, Hash!Cardinality, Cardinality
<1>3. CASE variant = "mla_cuda"
  <2>1. PICK S : S = {r \in Hash!Scheduled : out.n[r] # 1}
    OBVIOUS
  <2>2. Hash!Batch(variant) = Hash!Without(Hash!UpdatedBatch, S)
    BY <1>3, <2>1 DEF Hash!Batch
  <2>3. Hash!Without(Hash!UpdatedBatch, S) = Without(UpdatedBatch, S)
    BY <1>2, Zenon DEF Hash!Without, Without
  <2>4. Without(UpdatedBatch, S) \in Seq(Requests) /\ ToSet(Without(UpdatedBatch, S)) = ToSet(UpdatedBatch) \ S
    BY <1>1, Filtered
  <2> QED
    BY <1>1, <1>3, <2>2, <2>3, <2>4
<1>4. CASE variant # "mla_cuda"
  BY <1>1, <1>2, <1>4 DEF Hash!Batch
<1> QED
  BY <1>3, <1>4

\* The table of a step has the blocks of its requests, and room in them for the tokens these have.
LEMMA RowsCover ==
    ASSUME Inv, Agreed, Covered, load.method = "GSAOnDevice", pc = "execute", NEW r \in Scheduled
    PROVE  /\ Hash!SeqLen(r) \in Int /\ Len(Hash!UpdatedRows[r]) \in Nat
           /\ Hash!Ceil(Hash!SeqLen(r), BlockSize) <= Len(Hash!UpdatedRows[r])
<1>1. Roomy(r) /\ UpdatedRows[r] = blocks[r]
  BY SentAre DEF Covered
<1>2. Hash!Scheduled = Scheduled
  BY Zenon DEF Hash!Scheduled, Scheduled, Hash!ToSet, ToSet
<1>3. Hash!UpdatedRows = UpdatedRows
  BY <1>2, Zenon DEF Hash!UpdatedRows, UpdatedRows, Hash!BlockIds, BlockIds, Hash!Sparsed, Sparsed,
    Hash!INVALID_SLOT, INVALID_SLOT
<1>4. r \in Requests /\ r \in DOMAIN out.n
  BY SetOf DEF Inv, Queues, Agreed, Chosen, Numbers, Counted, Scheduled
<1>5. PICK n \in Int : n = computed[r] + out.n[r]
  BY <1>4 DEF Inv, Numbers, Counted
<1>6. Hash!SeqLen(r) = n
  BY <1>1, <1>5 DEF Hash!SeqLen, Hash!Sparsed, Roomy, INVALID_SLOT, Hash!INVALID_SLOT
<1>7. blocks[r] \in Seq(1..load.hbm)
  BY <1>4 DEF Inv, Pool, Whole
<1>8. Hash!Ceil(n, BlockSize) = Ceil(n, BlockSize)
  BY DEF Hash!Ceil, Ceil
<1> QED
  BY <1>1, <1>3, <1>5, <1>6, <1>7, <1>8 DEF Roomy

\* On NPU, when no row is left, what is scored is the whole batch or a part of it in a copy.
LEMMA ScoredRows ==
    ASSUME Inv, Agreed, pc = "execute", ~Hash!RowsAreLeft, Hash!Decodes # {}, NEW b, b = UpdatedBatch
    PROVE  (Hash!slice_enabled(b) /\ ~Hash!AttnStateDecodeOnly) \/ Hash!batch_size_for_hamming(b) = Len(b)
<1>1. b \in Seq(Requests) /\ IsInjective(b) /\ ToSet(b) = Scheduled
  BY BatchIs
<1>2. Hash!UpdatedBatch = b /\ Hash!Scheduled = Scheduled
  BY Zenon DEF Hash!UpdatedBatch, UpdatedBatch, Hash!Scheduled, Scheduled, Hash!ToSet, ToSet, Hash!Without, Without,
    Hash!Reverse, Reverse, Hash!Cardinality, Cardinality
<1>3. CASE ~Hash!slice_enabled(b)
  BY <1>3 DEF Hash!batch_size_for_hamming
<1>4. CASE Hash!slice_enabled(b) /\ Hash!AttnStateDecodeOnly
  <2>1. ~(Hash!num_decode_requests < Len(b))
    BY <1>2, <1>4 DEF Hash!RowsAreLeft
  <2>2. PICK S : S = {r \in Scheduled : Hash!decode_mask(r)}
    OBVIOUS
  <2>3. Hash!num_decode_requests = Cardinality(S)
    BY <1>2, <2>2, Zenon DEF Hash!num_decode_requests, Hash!Cardinality, Cardinality
  <2>4. IsFiniteSet(Scheduled) /\ Cardinality(Scheduled) = Len(b)
    BY <1>1, Members
  <2>5. S \in SUBSET Scheduled
    BY <2>2
  <2>6. Cardinality(S) \in Nat /\ Cardinality(S) <= Len(b) /\ Len(b) \in Nat
    BY <1>1, <2>4, <2>5, FS_Subset, FS_CardinalityType
  <2>7. Hash!num_decode_requests = Len(b)
    BY <2>1, <2>3, <2>6
  <2> QED
    BY <1>4, <2>7 DEF Hash!batch_size_for_hamming
<1> QED
  BY <1>3, <1>4

\* So the tables of a step are right.
LEMMA CoveredTables == ASSUME Inv, Agreed, Covered PROVE DecodeTablesAreRight
<1>1. SUFFICES ASSUME load.method = "GSAOnDevice", pc = "execute", NEW variant \in Hash!Variants, NEW top \in 1..3,
                      variant = "gqa_npu" => ~Hash!RowsAreLeft
               PROVE  Hash!TablesAreRight(variant, Hash!Batch(variant), top)
  BY DEF DecodeTablesAreRight
<1>2. PICK b : b = Hash!Batch(variant)
  OBVIOUS
<1>3. /\ b \in Seq(Requests) /\ ToSet(b) \subseteq Scheduled
      /\ variant # "mla_cuda" => b = UpdatedBatch
  BY <1>1, <1>2, BatchHas
<1>4. PICK r \in Nat : r = Len(b) /\ DOMAIN b = 1..r
  BY <1>3
<1>5. \A i \in 1..r : b[i] \in Scheduled
  BY <1>3, <1>4, SetOf
<1>6. Hash!Scheduled = Scheduled
  BY Zenon DEF Hash!Scheduled, Scheduled, Hash!ToSet, ToSet
<1>7. PICK full : full = Hash!AttnMetadata(b)
  OBVIOUS
<1>8. \A i \in 1..r : full.rows[i] = Hash!UpdatedRows[b[i]] /\ full.lens[i] = Hash!SeqLen(b[i])
  BY <1>4, <1>7, BatchRows
<1>9. \A i \in 1..r : /\ full.lens[i] \in Int /\ Len(full.rows[i]) \in Nat
                      /\ Hash!Ceil(full.lens[i], BlockSize) <= Len(full.rows[i])
  BY <1>1, <1>5, <1>8, RowsCover
<1>10. variant = "gqa_npu" /\ Hash!Decodes # {} =>
           (Hash!slice_enabled(b) /\ ~Hash!AttnStateDecodeOnly) \/ Hash!batch_size_for_hamming(b) = r
  BY <1>1, <1>3, <1>4, ScoredRows
<1>11. top \in Nat /\ \A i \in 1..r : b[i] \in Hash!Scheduled
  BY <1>5, <1>6
<1> QED
  BY <1>2, <1>4, <1>7, <1>9, <1>10, <1>11, TablesRight

\* In every layer of a step each decoding request attends to whole blocks of its own that the last scoring chose, its
\* newest token the last, the others to all they have, and the metadata are in full again after the last layer: with
\* grouped queries on CUDA and NPU and with MLA, for any configuration of layers, prompts, limits and memory, when no
\* row is left on NPU (attention_begin, attention_finished, update_seq_lens).
THEOREM GsaTablesRight == Spec => []DecodeTablesAreRight
<1>1. Init => Inv /\ Agreed /\ Covered
  BY StartAgreed DEF Init, ESA!Init, ESA!EngineInit, Covered
<1>2. Inv /\ Agreed /\ Covered /\ [Next]_vars => (Inv /\ Agreed /\ Covered)'
  BY StepIs, EngineKeeps, EngineAgrees, CoveredStays
<1>3. Inv /\ Agreed /\ Covered => DecodeTablesAreRight
  BY CoveredTables
<1> QED
  BY <1>1, <1>2, <1>3, PTL DEF Spec

----------------------------------------------------------------------------
\* Products grow with a factor.
LEMMA MulMono ==
    ASSUME NEW a \in Nat, NEW b \in Nat, NEW c \in Nat, a <= b
    PROVE  a * c <= b * c
<1>1. PICK d \in Nat : b = a + d
  OBVIOUS
<1>2. b * c = a * c + d * c
  BY <1>1
<1>3. d * c \in Nat /\ a * c \in Nat
  BY <1>1
<1> QED
  BY <1>2, <1>3

\* A factor that is not zero can be left out.
LEMMA MulCancel ==
    ASSUME NEW a \in Nat, NEW b \in Nat, NEW c \in Nat \ {0}, a * c <= b * c
    PROVE  a <= b
<1>1. SUFFICES ASSUME b + 1 <= a PROVE FALSE
  OBVIOUS
<1>2. (b + 1) * c <= a * c
  BY <1>1, MulMono
<1>3. (b + 1) * c = b * c + c
  OBVIOUS
<1>4. b * c \in Nat /\ a * c \in Nat
  OBVIOUS
<1> QED
  BY <1>2, <1>3, <1>4

\* What is whole in a division.
LEMMA DivBelow ==
    ASSUME NEW a \in Nat, NEW b \in Nat \ {0}
    PROVE  a \div b \in Nat /\ (a \div b) * b <= a
<1> DEFINE q == a \div b
           r == a % b
<1>1. q \in Nat /\ r \in 0..(b - 1) /\ a = b * q + r
  OBVIOUS
<1>2. q * b = b * q /\ b * q \in Nat
  BY <1>1
<1> QED
  BY <1>1, <1>2

\* If s parts of k are no more than P, the n blocks of P that there is memory
\* for hold n * s / (s + 1) blocks of P and k.
LEMMA PartFits ==
    ASSUME NEW n \in Nat, NEW s \in Nat \ {0}, NEW P \in Nat, NEW k \in Nat, k * s <= P
    PROVE  ((n * s) \div (s + 1)) * (P + k) <= n * P
<1> DEFINE m == (n * s) \div (s + 1)
<1>1. n * s \in Nat /\ s + 1 \in Nat \ {0} /\ k * s \in Nat /\ n * P \in Nat
  OBVIOUS
<1>2. m \in Nat /\ m * (s + 1) <= n * s
  BY <1>1, DivBelow
<1> HIDE DEF m
<1>3. m * (s + 1) \in Nat /\ P * m \in Nat /\ m * (P + k) \in Nat
  BY <1>2
<1>4. (m * (s + 1)) * P <= (n * s) * P
  BY <1>1, <1>2, <1>3, MulMono
<1>5. (k * s) * m <= P * m
  BY <1>1, <1>2, MulMono
<1>6. (m * (P + k)) * s = (m * P) * s + (k * s) * m
  BY <1>2
<1>7. (m * (s + 1)) * P = (m * P) * s + P * m
  BY <1>2
<1>8. (n * s) * P = (n * P) * s
  OBVIOUS
<1>9. (m * (P + k)) * s <= (n * P) * s
  BY <1>1, <1>2, <1>3, <1>4, <1>5, <1>6, <1>7, <1>8
<1>10. m * (P + k) <= n * P
  BY <1>1, <1>3, <1>9, MulCancel
<1> QED
  BY <1>10 DEF m

\* The blocks that are left after new_num_blocks, with the hashes of the
\* layers that score, take no more than the memory there was for KV alone
\* (_patch_get_kv_cache_config_uniform_type, initialize_kv_hash_cache_tensors),
\* whatever the head size and the size of an element.
THEOREM KHashFits ==
    ASSUME Configured, NEW mla \in BOOLEAN, NEW n \in Nat,
           NEW heads \in Nat, NEW dim \in Nat, NEW itemsize \in Nat \ {0}
    PROVE  Hash!new_num_blocks(n, itemsize)
             * (Hash!page_size(mla, heads, dim, itemsize) + Hash!khash_page_size(heads, dim))
           <= n * Hash!page_size(mla, heads, dim, itemsize)
<1> DEFINE s == Hash!khash_scale(itemsize)
           P == Hash!page_size(mla, heads, dim, itemsize)
           k == Hash!khash_page_size(heads, dim)
           K == BlockSize * heads * dim * itemsize
           e == (dim \div 16) * 16
           w == BlockSize * heads * itemsize
<1>1. BlockSize \in Nat
  BY DEF Configured
<1>2. s \in Nat \ {0} /\ s = itemsize * 8
  BY DEF Hash!khash_scale
<1>3. dim \div 16 \in Nat /\ e <= dim /\ e \in Nat
  BY DivBelow
<1>4. w \in Nat /\ K \in Nat
  BY <1>1
<1>5. k * s = e * w
  BY <1>1, <1>2, <1>3 DEF Hash!khash_page_size
<1>6. dim * w = K
  BY <1>1
<1>7. k * s <= K
  BY <1>3, <1>4, <1>5, <1>6, MulMono
<1>8. P \in Nat /\ K <= P
  BY <1>4 DEF Hash!page_size
<1>9. k \in Nat
  BY <1>1, <1>3 DEF Hash!khash_page_size
<1>10. k * s <= P
  BY <1>2, <1>4, <1>7, <1>8, <1>9
<1> HIDE DEF s, P, k
<1>11. ((n * s) \div (s + 1)) * (P + k) <= n * P
  BY <1>2, <1>8, <1>9, <1>10, PartFits
<1> QED
  BY <1>11 DEF s, P, k, Hash!new_num_blocks

=============================================================================
