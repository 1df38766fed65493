---------------------------- MODULE SparseEngine ----------------------------
(***************************************************************************)
(* The engine as UCM patches it for sparse attention (patch_funcs/v092/    *)
(* vllm_patch.py): Scheduler.schedule, GPUModelRunner._update_states,      *)
(* _prepare_inputs and execute_model.  A sparse method is a module that    *)
(* EXTENDS this one (ESA, KVStar, GsaOnDevice): it says how many slots of  *)
(* device memory a request needs (estimate_num_slots_sparsed), how they    *)
(* are allocated (allocate_slots), and what its hooks do around the        *)
(* attention of a step.                                                    *)
(*                                                                         *)
(* schedule is one action per turn of its two loops; the step of the       *)
(* worker that follows is one action of the method.  vLLM's own block pool *)
(* with prefix caching is external.  One group of KV cache and one layer   *)
(* are modelled (every layer is treated alike), without LoRA, encoder      *)
(* inputs, structured output, speculative decoding and pipeline parallel   *)
(* stages; the policy is first come first served.                          *)
(*                                                                         *)
(* A token is a number; the KV of a position is named by the tokens up to  *)
(* and including it, <<>> is KV of anything else.  Block 0 is vLLM's null  *)
(* block, which entries of a block table that were never set point to.     *)
(***************************************************************************)
EXTENDS Integers, FiniteSets, SequencesExt, TLC

CONSTANTS Requests,      \* request ids
          Loads,         \* the loads and configurations of the engine, records (see below)
          MaxOutput,     \* tokens a request generates
          Answer,        \* [Requests -> token]: what the model answers
          BlockSize,     \* tokens per block
          HbmBlocks,     \* the most blocks of device memory of any load
          MaxRunning     \* max_num_running_reqs

(* A load: the sparse method; the tokens of each prompt (of none, if the   *)
(* request does not come); the blocks of device memory;                    *)
(* max_num_scheduled_tokens and long_prefill_token_threshold (0 for none); *)
(* how many tokens of each prompt the store holds; whether transfers       *)
(* outlive the step that starts them; the statuses of a request in which   *)
(* its client may give up.                                                 *)
LoadShape(l) ==
    /\ DOMAIN l = {"method", "prompt", "hbm", "budget", "threshold", "stored", "slow", "aborts"}
    /\ l.prompt \in [Requests -> Seq(Nat)] /\ l.stored \in [Requests -> Nat]
    /\ l.hbm \in 1..HbmBlocks /\ l.budget \in Nat \ {0} /\ l.threshold \in Nat
    /\ l.aborts \subseteq {"WAITING", "RUNNING", "PREEMPTED"}

ASSUME SparseEngineAssumption ==
    /\ {MaxOutput, BlockSize, HbmBlocks, MaxRunning} \subseteq Nat \ {0}
    /\ Answer \in [Requests -> Nat]
    /\ \A l \in Loads : LoadShape(l)

VARIABLES load,          \* the load of this behaviour
          engine,        \* "up", or "down" once a hook raised
          \* the scheduler
          status, waiting, running, tokens, computed,
          blocks,        \* req_to_blocks
          free,          \* free blocks, least recently used first
          cached,        \* [blocks -> the prefix a block is cached under, or <<>>]
          finished,      \* finished_req_ids
          \* the call of schedule in progress
          pc, at, budget, preempted,
          out,           \* the SchedulerOutput
          \* the model runner
          held,          \* block_ids of the cached requests
          rows,          \* block tables of the requests in the persistent batch
          batch,         \* the requests of the persistent batch, by index
          hbm            \* [0..HbmBlocks -> KV of each of its positions]

schedulerVars == <<status, waiting, running, tokens, computed, blocks, free, cached, finished>>
scheduleVars == <<pc, at, budget, preempted, out>>
runnerVars == <<held, rows, batch, hbm>>
engineVars == <<load, engine, schedulerVars, scheduleVars, runnerVars>>

INVALID_SLOT == -1
Junk == <<>>

Least(a, b) == IF a < b THEN a ELSE b
Ceil(a, b) == (a + b - 1) \div b
Without(s, S) ==
    LET kept[i \in 0..Len(s)] ==
            IF i = 0 THEN <<>> ELSE IF s[i] \in S THEN kept[i - 1] ELSE Append(kept[i - 1], s[i])
    IN kept[Len(s)]
Put(f, r, v) == [q \in DOMAIN f \cup {r} |-> IF q = r THEN v ELSE f[q]]

Prompt(r) == load.prompt[r]
Outputs(r) == Len(tokens[r]) - Len(Prompt(r))

(* where position p, from 1, of a block table is, and the KV there in memory m *)
BlockOf(p) == ((p - 1) \div BlockSize) + 1
PlaceOf(p) == ((p - 1) % BlockSize) + 1
BlockAt(row, p) == IF BlockOf(p) <= Len(row) THEN row[BlockOf(p)] ELSE 0
KV(m, row, p) == m[BlockAt(row, p)][PlaceOf(p)]

(* the KV of the positions of block i of a request with these tokens *)
BlockKV(t, i) == [j \in 1..BlockSize |-> SubSeq(t, 1, (i - 1) * BlockSize + j)]

----------------------------------------------------------------------------
(* vLLM's block pool *)

(* get_computed_blocks: cached blocks of the longest prefix, never all tokens *)
CachedPrefix(r) ==
    LET ids == [i \in 1..((Len(tokens[r]) - 1) \div BlockSize) |-> SubSeq(tokens[r], 1, i * BlockSize)]
        hit(i) == \E v \in 1..HbmBlocks : cached[v] = ids[i]
        n   == CHOOSE k \in 0..Len(ids) : (\A i \in 1..k : hit(i)) /\ (k < Len(ids) => ~hit(k + 1))
    IN [i \in 1..n |-> CHOOSE v \in 1..HbmBlocks : cached[v] = ids[i]]

HeldByOthers(r) == UNION {ToSet(blocks[q]) : q \in Requests \ {r}}

(* the free list after r gave up the blocks of s, in this order *)
Released(r, s) == free \o Without(s, HeldByOthers(r))

(* The outcome of an allocation: req_to_blocks of the request, the free    *)
(* list and the cache after it, and the blocks that are reported.          *)
Allocation(ok, bs, fr, ca, new) == [ok |-> ok, blocks |-> bs, free |-> fr, cached |-> ca, new |-> new]

(* room for n tokens after the first `from`, of which hits hold some: full *)
(* blocks are cached at once under the request's tokens                    *)
original_allocate_slots(r, from, n, hits) ==
    LET known == blocks[r] \o hits
        need  == Ceil(from + n, BlockSize) - Len(known)
        spare == Without(free, ToSet(hits))
        fresh == SubSeq(spare, 1, need)
        all   == known \o fresh
    IN IF need > Len(spare)
       THEN Allocation(FALSE, blocks[r], free, cached, <<>>)
       ELSE Allocation(TRUE, all, SubSeq(spare, Len(fresh) + 1, Len(spare)),
              [v \in 1..HbmBlocks |->
                  IF \E i \in 1..((from + n) \div BlockSize) : all[i] = v
                  THEN SubSeq(tokens[r], 1, BlockSize * CHOOSE i \in 1..((from + n) \div BlockSize) : all[i] = v)
                  ELSE IF v \in ToSet(fresh) THEN Junk ELSE cached[v]],
              fresh)

(* Blocks for n tokens for a request that holds the blocks bs, from the    *)
(* free list fr and never cached, all of them reported: what the methods   *)
(* ask of the coordinator.                                                 *)
TakeBlocks(bs, fr, ca, n) ==
    LET need  == Ceil(n, BlockSize) - Len(bs)
        fresh == SubSeq(fr, 1, need)
        all   == bs \o fresh
    IN IF need > Len(fr)
       THEN Allocation(FALSE, bs, fr, ca, <<>>)
       ELSE Allocation(TRUE, all, SubSeq(fr, Len(fresh) + 1, Len(fr)),
              [v \in 1..HbmBlocks |-> IF v \in ToSet(fresh) THEN Junk ELSE ca[v]], all)

----------------------------------------------------------------------------
(* Scheduler.schedule *)

NoOutput == [order |-> <<>>, new |-> {}, resumed |-> {}, n |-> <<>>, slots |-> <<>>, blocks |-> <<>>]

\* Mutant: what is left of the step's budget is not looked at.
NewTokensUnbounded(r, done) ==
    LET left == Len(tokens[r]) - done
    IN IF load.threshold \in 1..(left - 1) THEN load.threshold ELSE left

(* how many tokens of r, that has `done` computed, this step takes *)
NewTokens(r, done) ==
    LET left == Len(tokens[r]) - done
    IN Least(IF load.threshold \in 1..(left - 1) THEN load.threshold ELSE left, budget)

(* a step begins as long as the engine has requests, or finished ones to report *)
Schedule ==
    /\ engine = "up" /\ pc = "idle"
    /\ waiting # <<>> \/ running # <<>> \/ finished # {}
    /\ pc' = "running" /\ at' = 1 /\ budget' = load.budget
    /\ preempted' = FALSE /\ out' = NoOutput
    /\ UNCHANGED <<load, engine, schedulerVars, runnerVars>>

\* Mutant: the preempted request does not go back to the waiting ones.
PreemptLastLost(r, slots, a) ==
    LET victim == Last(running)
        mine   == [blocks EXCEPT ![r] = a.blocks]
        shared == UNION {ToSet(mine[q]) : q \in Requests \ {victim}}
    IN /\ status' = [status EXCEPT ![victim] = "PREEMPTED"]
       /\ running' = Front(running)
       /\ computed' = [computed EXCEPT ![victim] = 0]
       /\ free' = a.free \o Reverse(Without(mine[victim], shared))
       /\ blocks' = [mine EXCEPT ![victim] = <<>>]
       /\ cached' = a.cached
       /\ preempted' = TRUE
       /\ out' = [out EXCEPT !.slots = Put(@, r, slots)]
       /\ pc' = IF victim = r THEN "execute" ELSE pc
       /\ UNCHANGED <<load, engine, waiting, tokens, finished, at, budget, runnerVars>>

(* no block for the request at hand: the last running one gives up its own *)
PreemptLast(r, slots, a) ==
    LET victim == Last(running)
        mine   == [blocks EXCEPT ![r] = a.blocks]
        shared == UNION {ToSet(mine[q]) : q \in Requests \ {victim}}
    IN /\ status' = [status EXCEPT ![victim] = "PREEMPTED"]
       /\ waiting' = <<victim>> \o waiting
       /\ running' = Front(running)
       /\ computed' = [computed EXCEPT ![victim] = 0]
       /\ free' = a.free \o Reverse(Without(mine[victim], shared))
       /\ blocks' = [mine EXCEPT ![victim] = <<>>]
       /\ cached' = a.cached
       /\ preempted' = TRUE
       /\ out' = [out EXCEPT !.slots = Put(@, r, slots)]
       /\ pc' = IF victim = r THEN "execute" ELSE pc
       /\ UNCHANGED <<load, engine, tokens, finished, at, budget, runnerVars>>

(* the next running request, for which allocate_slots answered a *)
ScheduleRunning(r, slots, a) ==
    /\ pc = "running" /\ at <= Len(running) /\ budget > 0 /\ r = running[at]
    /\ IF a.ok
       THEN LET n == NewTokens(r, computed[r])
            IN /\ blocks' = [blocks EXCEPT ![r] = a.blocks]
               /\ free' = a.free /\ cached' = a.cached
               /\ out' = [out EXCEPT !.order = Append(@, r), !.n = Put(@, r, n),
                                     !.slots = Put(@, r, slots), !.blocks = Put(@, r, a.new)]
               /\ budget' = budget - n
               /\ at' = at + 1
               /\ UNCHANGED <<load, engine, status, waiting, running, tokens, computed, finished,
                              pc, preempted, runnerVars>>
       ELSE PreemptLast(r, slots, a)

(* all running requests had their turn; nothing is admitted after a preemption *)
RunningDone ==
    /\ pc = "running" /\ (at > Len(running) \/ budget = 0)
    /\ pc' = IF preempted THEN "execute" ELSE "waiting"
    /\ UNCHANGED <<load, engine, schedulerVars, at, budget, preempted, out, runnerVars>>

CanAdmit ==
    /\ pc = "waiting" /\ waiting # <<>> /\ budget > 0
    /\ Len(running) < MaxRunning

(* the first waiting request, with `from` tokens that need not be computed; *)
(* when its blocks cannot be allocated the step goes on without it          *)
ScheduleWaiting(r, slots, from, a) ==
    /\ CanAdmit /\ r = Head(waiting)
    /\ IF a.ok
       THEN LET n == NewTokens(r, from)
            IN /\ status' = [status EXCEPT ![r] = "RUNNING"]
               /\ waiting' = Tail(waiting)
               /\ running' = Append(running, r)
               /\ computed' = [computed EXCEPT ![r] = from]
               /\ out' = [out EXCEPT !.order = Append(@, r), !.n = Put(@, r, n),
                            !.slots = Put(@, r, slots), !.blocks = Put(@, r, a.blocks),
                            !.new = IF status[r] = "WAITING" THEN @ \cup {r} ELSE @,
                            !.resumed = IF status[r] = "PREEMPTED" THEN @ \cup {r} ELSE @]
               /\ budget' = budget - n
               /\ UNCHANGED pc
       ELSE /\ pc' = "execute"
            /\ out' = [out EXCEPT !.slots = Put(@, r, slots)]
            /\ UNCHANGED <<status, waiting, running, computed, budget>>
    /\ blocks' = [blocks EXCEPT ![r] = a.blocks]
    /\ free' = a.free /\ cached' = a.cached
    /\ UNCHANGED <<load, engine, tokens, finished, at, preempted, runnerVars>>

WaitingDone ==
    /\ pc = "waiting" /\ ~CanAdmit
    /\ pc' = "execute"
    /\ UNCHANGED <<load, engine, schedulerVars, at, budget, preempted, out, runnerVars>>

(* add_request *)
Arrive(r) ==
    /\ engine = "up" /\ pc = "idle" /\ status[r] = "new" /\ Prompt(r) # <<>>
    /\ status' = [status EXCEPT ![r] = "WAITING"]
    /\ waiting' = Append(waiting, r)
    /\ UNCHANGED <<load, engine, running, tokens, computed, blocks, free, cached, finished,
                   scheduleVars, runnerVars>>

(* a client gives up: the request leaves between two steps *)
Abort(r) ==
    /\ engine = "up" /\ pc = "idle" /\ status[r] \in load.aborts
    /\ status' = [status EXCEPT ![r] = "FINISHED"]
    /\ waiting' = Without(waiting, {r})
    /\ running' = Without(running, {r})
    /\ finished' = finished \cup {r}
    /\ free' = Released(r, Reverse(blocks[r]))
    /\ blocks' = [blocks EXCEPT ![r] = <<>>]
    /\ UNCHANGED <<load, engine, tokens, computed, cached, scheduleVars, runnerVars>>

----------------------------------------------------------------------------
(* GPUModelRunner *)

Scheduled == ToSet(out.order)
Sparsed(r) == out.slots[r] # INVALID_SLOT

(* _update_states: the cached requests, then the persistent batch.  The    *)
(* blocks of a sparse request are sent whole in every step.                *)
BlockIds(r) ==
    IF r \in out.new \cup out.resumed \/ Sparsed(r) THEN out.blocks[r] ELSE held[r] \o out.blocks[r]

UpdatedHeld ==
    [r \in (DOMAIN held \ finished) \cup Scheduled |-> IF r \in Scheduled THEN BlockIds(r) ELSE held[r]]

\* Mutant: the row of a sparse request is not reset before its blocks are appended.
UpdatedRowsAppended ==
    [r \in Scheduled |-> IF r \in DOMAIN rows \ finished THEN rows[r] \o out.blocks[r] ELSE BlockIds(r)]

UpdatedRows ==
    [r \in Scheduled |->
        IF r \in DOMAIN rows \ finished
        THEN (IF Sparsed(r) THEN <<>> ELSE rows[r]) \o out.blocks[r]
        ELSE BlockIds(r)]

(* The persistent batch: who is not scheduled leaves a gap, the ones that  *)
(* come fill the first gaps, new requests before those that come back, and *)
(* the last ones move into the gaps left (condense).                       *)
UpdatedBatch ==
    LET there  == ToSet(batch) \ finished
        added  == Without(out.order, there \cup (Scheduled \ out.new)) \o Without(out.order, there \cup out.new)
        staying(i) == i <= Len(batch) /\ batch[i] \in Scheduled \ finished
        gaps(i) == Cardinality({j \in 1..i : ~staying(j)})
        size   == Len(out.order)
        filled == [i \in 1..Len(batch) \cup 1..size |->
                      IF staying(i) THEN <<batch[i]>>
                      ELSE IF gaps(i) <= Len(added) THEN <<added[gaps(i)]>> ELSE <<>>]
        beyond == Reverse(Without([i \in 1..Len(batch) |-> i], {i \in 1..Len(batch) : i <= size \/ filled[i] = <<>>}))
    IN [i \in 1..size |-> IF filled[i] # <<>> THEN filled[i][1]
                           ELSE filled[beyond[gaps(i) - Len(added)]][1]]

(* _prepare_inputs: the slot, from 0, of the i-th scheduled token of r, and *)
(* how much of its block table r attends to                                 *)
SlotOf(r, i) == IF Sparsed(r) /\ i = 1 THEN out.slots[r] - 1 ELSE computed[r] + i - 1
SeqLen(r) == IF Sparsed(r) THEN out.slots[r] ELSE computed[r] + out.n[r]

(* The attention of r in a memory m, with these block tables: the KV of its *)
(* new tokens is written, right when everything r attends to was (ok).      *)
Attend(m, table, r, ok) ==
    LET writes(v, j) == {i \in 1..out.n[r] : BlockAt(table[r], SlotOf(r, i) + 1) = v
                                              /\ PlaceOf(SlotOf(r, i) + 1) = j}
    IN [v \in 0..HbmBlocks |-> [j \in 1..BlockSize |->
          IF writes(v, j) = {} THEN m[v][j]
          ELSE IF ok THEN SubSeq(tokens[r], 1, computed[r] + CHOOSE i \in writes(v, j) : TRUE)
          ELSE Junk]]

(* everything computed so far is in its place *)
DenseContext(m, table, r) ==
    \A p \in 1..computed[r] : KV(m, table[r], p) = SubSeq(tokens[r], 1, p)

(* A compressed table holds the first `init` blocks of the prompt, then    *)
(* `top` of the `range` blocks in the middle, then the rest in its order.  *)
SparseContext(m, row, r, upTo, init, top, range) ==
    /\ \A p \in 1..Least(upTo, init * BlockSize) : KV(m, row, p) = SubSeq(tokens[r], 1, p)
    /\ \E pick \in Injection(1..top, (init + 1)..(init + range)) :
         \A i \in 1..top : m[BlockAt(row, (init + i) * BlockSize)] = BlockKV(tokens[r], pick[i])
    /\ \A p \in ((init + top) * BlockSize + 1)..upTo :
         KV(m, row, p) = SubSeq(tokens[r], 1, p + (range - top) * BlockSize)

(* update_from_output: requests that caught up get a token, or leave *)
Sampled == {r \in Scheduled : computed[r] + out.n[r] = Len(tokens[r])}
Stopped == {r \in Sampled : Outputs(r) + 1 = MaxOutput}

(* what execute_model and update_from_output leave, for any method; raised *)
(* says that a hook of the method raised                                   *)
StepEnds(raised) ==
    LET gone(i) == running[i] \in Stopped
        \* a block goes with the last request that holds it
        kept(i) == UNION {ToSet(blocks[running[j]]) : j \in {k \in DOMAIN running : ~gone(k) \/ k > i}}
    IN /\ engine' = IF raised THEN "down" ELSE engine
       /\ pc' = "idle"
       /\ finished' = Stopped
       /\ tokens' = [r \in Requests |-> IF r \in Sampled THEN Append(tokens[r], Answer[r]) ELSE tokens[r]]
       /\ computed' = [r \in Requests |-> IF r \in Scheduled THEN computed[r] + out.n[r] ELSE computed[r]]
       /\ status' = [r \in Requests |-> IF r \in Stopped THEN "FINISHED" ELSE status[r]]
       /\ running' = Without(running, Stopped)
       /\ blocks' = [r \in Requests |-> IF r \in Stopped THEN <<>> ELSE blocks[r]]
       /\ free' = free \o FlattenSeq([i \in DOMAIN running |->
                      IF gone(i) THEN Reverse(Without(blocks[running[i]], kept(i))) ELSE <<>>])
       /\ held' = UpdatedHeld
       /\ rows' = UpdatedRows /\ batch' = UpdatedBatch
       /\ UNCHANGED <<load, waiting, cached, at, budget, preempted, out>>

EngineInit ==
    /\ load \in Loads
    /\ engine = "up"
    /\ status = [r \in Requests |-> "new"]
    /\ waiting = <<>> /\ running = <<>> /\ finished = {}
    /\ tokens = load.prompt
    /\ computed = [r \in Requests |-> 0]
    /\ blocks = [r \in Requests |-> <<>>]
    /\ free = [v \in 1..load.hbm |-> v]
    /\ cached = [v \in 1..HbmBlocks |-> Junk]
    /\ pc = "idle" /\ at = 1 /\ budget = 0 /\ preempted = FALSE /\ out = NoOutput
    /\ held = <<>> /\ rows = <<>> /\ batch = <<>>
    /\ hbm = [v \in 0..HbmBlocks |-> [j \in 1..BlockSize |-> Junk]]

=============================================================================
