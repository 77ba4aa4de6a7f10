------------------------------ MODULE FleetRun ------------------------------
(***************************************************************************)
(* One call of the fleet tool (kernel/internal/runtime/delegation: fleet,  *)
(* fleet_graph, execution_record, task), the execution journal it writes   *)
(* (state/execjournal) and the picture a reader rebuilds from it           *)
(* (state/execgraph, session/control/execution.go).                        *)
(*                                                                         *)
(* The driver opens every item in the journal, hands an item to a worker   *)
(* once its dependencies are answered, collects the results and closes the *)
(* group.  A worker waits for a slot, records its start, runs the child,   *)
(* saves what became of it and publishes.  The journal and the sub-agent   *)
(* store are on disk and survive a crash; owned, the set of executions     *)
(* this process holds, does not.  After a crash worker and driver keep     *)
(* their last values, as a history of what the process was doing.          *)
(***************************************************************************)
EXTENDS WritePaths, FiniteSets, Functions

CONSTANTS
  Item,       \* the tasks of the call, by position
  Plans,      \* the calls the model may make
  MaxFaults   \* bound: spells in which journal or store refuse a write

Plan == [dependsOn : [Item -> Seq(Item)],   \* as the caller listed them
         adopted : SUBSET Item,             \* items that reuse an earlier answer
         claim : [Item -> WritePathSet],    \* empty for readers and adopted items
         failFast : BOOLEAN,
         slots : Nat \ {0}]                 \* what the session's other sub-agents leave

ASSUME ItemAssumption == Item \subseteq Nat /\ IsFiniteSet(Item) /\ Item # {}
ASSUME PlanAssumption ==
  Plans \subseteq Plan /\ \A p \in Plans : \A i \in p.adopted : Empty(p.claim[i])
ASSUME BoundAssumption == MaxFaults \in Nat

Outcome == {"completed", "failed", "cancelled"}
Status == Outcome \cup {"pending", "adopted", "skipped"}

------------------------------------------------------------------------------
(* The plan: newFleetPlan and the preflight. *)

(* addEdge keeps one edge per pair, however often the caller named it. *)
Deps(p, i) == Range(p.dependsOn[i])
Dependents(p, i) == {j \in Item : i \in Deps(p, j)}

(* Every item that transitively depends on i. *)
Reachable(p, i) ==
  {j \in Item : \A S \in SUBSET Item :
     (Dependents(p, i) \subseteq S /\ \A k \in S : Dependents(p, k) \subseteq S) => j \in S}

Ordered(p, i, j) == j \in Reachable(p, i) \/ i \in Reachable(p, j)

(* A plausible bug: each item is compared with the next one only. *)
ValidateNeighbours(p) ==
  \A i, j \in Item : j = i + 1 /\ ~Ordered(p, i, j) => ~Overlaps(p.claim[i], p.claim[j])

ValidateConcurrentWriteClaims(p) ==
  \A i, j \in Item : i < j /\ ~Ordered(p, i, j) => ~Overlaps(p.claim[i], p.claim[j])

(* rejectCycles, resolveAdoptions' "every task is adopted", the claims. *)
Preflight(p) ==
  /\ \A i \in Item : i \notin Reachable(p, i)
  /\ p.adopted # Item
  /\ ValidateConcurrentWriteClaims(p)

(* Plausible bugs: an item waits for its first dependency only; a task named
   twice is counted twice. *)
FirstDep(p, i) == IF p.dependsOn[i] = <<>> \/ p.dependsOn[i][1] \in p.adopted THEN 0 ELSE 1
CountedTwice(p, i) == Cardinality({k \in DOMAIN p.dependsOn[i] : p.dependsOn[i][k] \notin p.adopted})

UnresolvedDeps(p, i) == Cardinality(Deps(p, i) \ p.adopted)

------------------------------------------------------------------------------
VARIABLES
  plan,      \* the call
  results,   \* the driver's table
  waiting,   \* the driver's pending counters
  driver,    \* at, todo: the indices a loop still visits; stop: stopStarting
  doneCh,    \* published results, by item
  worker,    \* where the goroutine of an item stands
  outcome,   \* the result of an item's run
  cancelled, \* the call's context
  journal,   \* journal[i]: the records History folds for i
  owned,     \* execjournal's live set
  store,     \* the status in an item's sub-agent metadata
  up,        \* the process lives
  faults     \* such spells so far

vars == <<plan, results, waiting, driver, doneCh, worker, outcome, cancelled,
          journal, owned, store, up, faults>>

Init ==
  /\ plan \in {p \in Plans : Preflight(p)}
  /\ results = [i \in Item |-> IF i \in plan.adopted THEN "adopted" ELSE "pending"]
  /\ waiting = [i \in Item |-> UnresolvedDeps(plan, i)]
  /\ driver = [at |-> "open", todo |-> Item, stop |-> FALSE]
  /\ doneCh = <<>>
  /\ worker = [i \in Item |-> "idle"]
  /\ outcome = [i \in Item |-> "none"]
  /\ cancelled = FALSE
  /\ journal = [i \in Item |-> {}]
  /\ owned = {}
  /\ store = [i \in Item |-> "none"]
  /\ up = TRUE
  /\ faults = 0

------------------------------------------------------------------------------
(* The journal: what a record adds to the entry it belongs to. *)

Closed(i) == "open" \notin journal[i] \/ "settled" \in journal[i] \/ i \in plan.adopted

Entry(i, s) ==
  CASE s = "open" -> journal[i] \cup {"open"}
    [] s # "open" /\ Closed(i) -> journal[i]
    [] s = "queued" /\ "started" \in journal[i] -> journal[i]
    [] OTHER -> journal[i] \cup {s}

Recorded(i, s) == journal' = [journal EXCEPT ![i] = Entry(i, s)]

Fault == faults < MaxFaults /\ faults' = faults + 1

(* appendRecord fails before the line is written, or after it, in Sync. *)
NotRecorded(i, s) == Fault /\ (UNCHANGED journal \/ Recorded(i, s))

(* Interrupted: what a process finds open and does not hold. *)
Interrupted == {i \in Item : ~Closed(i) /\ i \notin owned}

(* The lifecycle alone: what the records and the live set say. *)
Lifecycle(i) ==
  IF i \in Interrupted THEN "interrupted"
  ELSE IF "settled" \in journal[i]
       THEN IF "queued" \in journal[i] THEN "cancelled" ELSE "skipped"
  ELSE IF "started" \in journal[i] THEN "running"
  ELSE IF "queued" \in journal[i] THEN "queued"
  ELSE "pending"

(* A plausible bug: what the lifecycle says is believed before the store. *)
LifecycleFirst(i) ==
  IF i \in plan.adopted THEN "adopted"
  ELSE IF Lifecycle(i) = "skipped" /\ store[i] \in Outcome THEN store[i]
  ELSE Lifecycle(i)

(* resolveState: an adoption, then the store, then the lifecycle. *)
ResolveState(i) ==
  IF i \in plan.adopted THEN "adopted"
  ELSE IF store[i] \in Outcome THEN store[i]
  ELSE Lifecycle(i)

------------------------------------------------------------------------------
(* The driver: openFanOut, driveFleet, closeFanOut. *)

First(S) == CHOOSE i \in S : \A j \in S : i <= j
Goto(at, todo) == driver' = [driver EXCEPT !.at = at, !.todo = todo]
Visited(at) == Goto(at, driver.todo \ {First(driver.todo)})
At(at) == up /\ driver.at = at

Started == {i \in Item : worker[i] # "idle"}
Published == {i \in Item : worker[i] \in {"published", "taken"}}
Taken == {i \in Item : worker[i] = "taken"}

untouchedByDriver == <<plan, outcome, cancelled, store, up>>
untouchedByOpening == <<results, waiting, doneCh, worker, untouchedByDriver>>

(* Open: the record first, then this process's claim on the execution. *)
OpenRecord ==
  /\ At("open") /\ driver.todo # {}
  /\ LET i == First(driver.todo) IN
       /\ Recorded(i, "open")
       /\ IF i \in plan.adopted THEN Visited("open") ELSE Goto("claim", driver.todo)
  /\ UNCHANGED <<owned, faults, untouchedByOpening>>

Claim ==
  /\ At("claim")
  /\ owned' = owned \cup {First(driver.todo)}
  /\ Visited("open")
  /\ UNCHANGED <<journal, faults, untouchedByOpening>>

(* An item the journal could not record stops the call before any starts. *)
OpenFails ==
  /\ At("open") /\ driver.todo # {}
  /\ NotRecorded(First(driver.todo), "open")
  /\ Goto("close", Item)
  /\ UNCHANGED <<owned, untouchedByOpening>>

Opened ==
  /\ At("open") /\ driver.todo = {}
  /\ Goto("loop", {i \in Item : waiting[i] = 0})
  /\ UNCHANGED <<journal, owned, faults, untouchedByOpening>>

(* launch *)
MayStart(i) == ~driver.stop /\ ~cancelled /\ results[i] = "pending"

Launch ==
  /\ At("loop") /\ driver.todo # {}
  /\ LET i == First(driver.todo) IN
       worker' = IF MayStart(i) THEN [worker EXCEPT ![i] = "handed"] ELSE worker
  /\ Visited("loop")
  /\ UNCHANGED <<results, waiting, doneCh, journal, owned, faults, untouchedByDriver>>

SkipDependents(r) ==
  [i \in Item |-> IF i = r THEN outcome[r]
                  ELSE IF i \in Reachable(plan, r) /\ results[i] = "pending" THEN "skipped"
                  ELSE results[i]]

Take(r) ==
  /\ At("loop") /\ driver.todo = {}
  /\ doneCh # <<>> /\ r = Head(doneCh)
  /\ doneCh' = Tail(doneCh)
  /\ worker' = [worker EXCEPT ![r] = "taken"]
  /\ UNCHANGED <<journal, owned, faults, untouchedByDriver>>

TakeCompleted(r) ==
  /\ Take(r)
  /\ outcome[r] = "completed"
  /\ results' = [results EXCEPT ![r] = "completed"]
  /\ waiting' = [i \in Item |-> IF i \in Dependents(plan, r) THEN waiting[i] - 1 ELSE waiting[i]]
  /\ Goto("loop", {i \in Dependents(plan, r) : waiting[i] = 1})

TakeFailed(r) ==
  /\ Take(r)
  /\ outcome[r] # "completed"
  /\ results' = SkipDependents(r)
  /\ driver' = [driver EXCEPT !.stop = @ \/ plan.failFast]
  /\ UNCHANGED waiting

(* Everything started has reported, or the call is cancelled. *)
LeaveLoop ==
  /\ At("loop") /\ driver.todo = {}
  /\ Started = Taken \/ cancelled
  /\ Goto("wait", {})
  /\ UNCHANGED <<journal, owned, faults, untouchedByOpening>>

(* A plausible bug: after a cancellation nobody waits for the workers. *)
DrainAtOnce ==
  /\ At("wait")
  /\ results' = [i \in Item |-> IF i \in Published THEN outcome[i]
                                ELSE IF results[i] = "pending" THEN "skipped" ELSE results[i]]
  /\ worker' = [i \in Item |-> IF i \in Published THEN "taken" ELSE worker[i]]
  /\ doneCh' = <<>>
  /\ Goto("close", Item)
  /\ UNCHANGED <<waiting, journal, owned, faults, untouchedByDriver>>

(* wait(), the outstanding results, and the branches that never started. *)
Drain ==
  /\ At("wait") /\ Started = Published
  /\ results' = [i \in Item |-> IF i \in Started THEN outcome[i]
                                ELSE IF results[i] = "pending" THEN "skipped" ELSE results[i]]
  /\ worker' = [i \in Item |-> IF i \in Started THEN "taken" ELSE "idle"]
  /\ doneCh' = <<>>
  /\ Goto("close", Item)
  /\ UNCHANGED <<waiting, journal, owned, faults, untouchedByDriver>>

(* Settle is best effort: the live set forgets the item either way. *)
SettleRecord(i) ==
  /\ \/ Recorded(i, "settled") /\ UNCHANGED faults
     \/ NotRecorded(i, "settled")
  /\ owned' = owned \ {i}

CloseItem ==
  /\ At("close") /\ driver.todo # {}
  /\ SettleRecord(First(driver.todo))
  /\ Visited("close")
  /\ UNCHANGED untouchedByOpening

Return ==
  /\ At("close") /\ driver.todo = {}
  /\ Goto("returned", {})
  /\ UNCHANGED <<journal, owned, faults, untouchedByOpening>>

Driver ==
  \/ OpenRecord \/ Claim \/ OpenFails \/ Opened
  \/ Launch \/ (\E r \in Item : TakeCompleted(r) \/ TakeFailed(r)) \/ LeaveLoop
  \/ Drain \/ CloseItem \/ Return

------------------------------------------------------------------------------
(* A worker: RunProfileSpec inside the goroutine of startOne. *)

Is(i, pc) == up /\ worker[i] = pc
Become(i, pc) == worker' = [worker EXCEPT ![i] = pc]
End(i, result) == Become(i, "ended") /\ outcome' = [outcome EXCEPT ![i] = result]

untouchedByWorker == <<plan, results, waiting, driver, cancelled, up>>

(* The scheduler's promise: a free slot, and no overlap with a holder. *)
Holding == {i \in Item : worker[i] \in {"granted", "started", "running"}}
CanStart(i) ==
  /\ Cardinality(Holding) < plan.slots
  /\ \A j \in Holding : ~Overlaps(plan.claim[i], plan.claim[j])

(* A prompt, tool or model that cannot be resolved; a nested call's refusal. *)
Refuse(i) ==
  /\ Is(i, "handed")
  /\ End(i, "failed")
  /\ UNCHANGED <<doneCh, journal, owned, store, faults, untouchedByWorker>>

Queue(i) ==
  /\ Is(i, "handed")
  /\ \/ /\ Recorded(i, "queued") /\ UNCHANGED <<faults, outcome>>
        /\ Become(i, "queued")
     \/ NotRecorded(i, "queued") /\ End(i, "failed")
  /\ UNCHANGED <<doneCh, owned, store, untouchedByWorker>>

CancelWait(i) ==
  /\ Is(i, "queued") /\ cancelled
  /\ End(i, "cancelled")
  /\ UNCHANGED <<doneCh, journal, owned, store, faults, untouchedByWorker>>

Admit(i) ==
  /\ Is(i, "handed") \/ Is(i, "queued")
  /\ CanStart(i)
  /\ Become(i, "granted")
  /\ UNCHANGED <<doneCh, outcome, journal, owned, store, faults, untouchedByWorker>>

(* OnStart; a refused start gives the slot straight back. *)
Start(i) ==
  /\ Is(i, "granted")
  /\ \/ /\ Recorded(i, "started") /\ UNCHANGED <<faults, outcome>>
        /\ Become(i, "started")
     \/ NotRecorded(i, "started") /\ End(i, "failed")
  /\ UNCHANGED <<doneCh, owned, store, untouchedByWorker>>

(* beginExecution: the store knows the run before the child acts. *)
Begin(i) ==
  /\ Is(i, "started")
  /\ store' = [store EXCEPT ![i] = "running"]
  /\ Become(i, "running")
  /\ UNCHANGED <<doneCh, outcome, journal, owned, faults, untouchedByWorker>>

(* No transcript could be prepared, or MarkRunning failed. *)
CannotBegin(i) ==
  /\ Is(i, "started")
  /\ End(i, "failed")
  /\ UNCHANGED <<doneCh, journal, owned, store, faults, untouchedByWorker>>

Save(i, status) == store' = [store EXCEPT ![i] = status]

(* SaveCompleted, and SaveFailed when that fails, which may fail as well. *)
ChildCompletes(i) ==
  /\ Is(i, "running")
  /\ \/ Save(i, "completed") /\ End(i, "completed") /\ UNCHANGED faults
     \/ Fault /\ End(i, "failed") /\ (Save(i, "failed") \/ UNCHANGED store)
  /\ UNCHANGED <<doneCh, journal, owned, untouchedByWorker>>

(* saveRunTerminal: the child failed, was cancelled or met a deadline. *)
ChildEnds(i) ==
  /\ Is(i, "running")
  /\ \E result \in {"failed", "cancelled"} :
       /\ End(i, result)
       /\ \/ Save(i, result) /\ UNCHANGED faults
          \/ Fault /\ UNCHANGED store
  /\ UNCHANGED <<doneCh, journal, owned, untouchedByWorker>>

(* A plausible bug: only an answer is sent to the driver. *)
PublishAnswer(i) ==
  /\ Is(i, "ended")
  /\ SettleRecord(i)
  /\ doneCh' = IF outcome[i] = "completed" THEN Append(doneCh, i) ELSE doneCh
  /\ Become(i, "published")
  /\ UNCHANGED <<outcome, store, untouchedByWorker>>

(* settleExecution, then the result. *)
Publish(i) ==
  /\ Is(i, "ended")
  /\ SettleRecord(i)
  /\ doneCh' = Append(doneCh, i)
  /\ Become(i, "published")
  /\ UNCHANGED <<outcome, store, untouchedByWorker>>

WorkerStep(i) ==
  \/ Refuse(i) \/ Queue(i) \/ CancelWait(i) \/ Admit(i) \/ Start(i) \/ Begin(i)
  \/ CannotBegin(i) \/ ChildCompletes(i) \/ ChildEnds(i) \/ Publish(i)

------------------------------------------------------------------------------
Cancel ==
  /\ up /\ ~cancelled /\ driver.at # "returned"
  /\ cancelled' = TRUE
  /\ UNCHANGED <<plan, results, waiting, driver, doneCh, worker, outcome, journal, owned,
                 store, up, faults>>

Crash ==
  /\ up
  /\ up' = FALSE /\ owned' = {}
  /\ UNCHANGED <<plan, results, waiting, driver, doneCh, worker, outcome, cancelled, journal,
                 store, faults>>

(* The next process, before it takes new work. *)
CleanupStaleRunning ==
  /\ ~up
  /\ \E i \in Item : store[i] = "running"
  /\ store' = [i \in Item |-> IF store[i] = "running" THEN "interrupted" ELSE store[i]]
  /\ UNCHANGED <<plan, results, waiting, driver, doneCh, worker, outcome, cancelled, journal,
                 owned, up, faults>>

Next == Driver \/ (\E i \in Item : WorkerStep(i)) \/ Cancel \/ Crash \/ CleanupStaleRunning

Spec == Init /\ [][Next]_vars

(* Every goroutine runs on, every child ends, and the scheduler, which is
   first come first served within a weight, does not pass an item over for
   ever. *)
FairSpec ==
  /\ Spec
  /\ WF_vars(Driver)
  /\ \A i \in Item : WF_vars(WorkerStep(i)) /\ SF_vars(Admit(i))

------------------------------------------------------------------------------
TypeOK ==
  /\ plan \in Plans
  /\ results \in [Item -> Status]
  /\ waiting \in [Item -> Nat]
  /\ driver \in [at : {"open", "claim", "loop", "wait", "close", "returned"},
                 todo : SUBSET Item, stop : BOOLEAN]
  /\ driver.at = "claim" => driver.todo # {}
  /\ doneCh \in Seq(Item)
  /\ worker \in [Item -> {"idle", "handed", "queued", "granted", "started", "running",
                          "ended", "published", "taken"}]
  /\ outcome \in [Item -> Outcome \cup {"none"}]
  /\ cancelled \in BOOLEAN
  /\ journal \in [Item -> SUBSET {"open", "queued", "started", "settled"}]
  /\ owned \subseteq Item
  /\ store \in [Item -> Outcome \cup {"none", "running", "interrupted"}]
  /\ up \in BOOLEAN
  /\ faults \in 0..MaxFaults

(* An item is handed over, queued or started only when every dependency was
   adopted or its child completed and the store says so: "a dependent never
   runs on a broken input" (fleet_graph.go, skipDependents; execjournal,
   Queued). *)
StartedBehindAnswers ==
  \A i \in Item :
    (worker[i] # "idle" \/ journal[i] \cap {"queued", "started"} # {}) =>
      \A d \in Deps(plan, i) : d \in plan.adopted \/ store[d] = "completed"

(* Two items under way at once have disjoint claims: the preflight refused
   the overlap or a dependency orders them.  A dependency that runs through
   an adopted item orders nothing, although the preflight counts it; those
   two are left to the scheduler (fleet_graph.go,
   validateConcurrentWriteClaims). *)
UnderWay == {i \in Item : worker[i] \notin {"idle", "published", "taken"}}
WithoutAdopted(p) ==
  [p EXCEPT !.dependsOn = [i \in Item |-> IF i \in p.adopted THEN <<>> ELSE p.dependsOn[i]]]

ClaimsUnderWayAreDisjoint ==
  \A i, j \in UnderWay :
    i # j /\ Overlaps(plan.claim[i], plan.claim[j]) =>
      Ordered(plan, i, j) /\ ~Ordered(WithoutAdopted(plan), i, j)

(* Why a branch may be cut. *)
CutForCause(i) ==
  \/ cancelled
  \/ driver.stop
  \/ \E f \in Item : i \in Reachable(plan, f) /\ results[f] \in {"failed", "cancelled"}

NothingStarted == \A i \in Item : worker[i] = "idle" /\ results[i] \in {"pending", "adopted"}

(* What the call reports of every item is what became of it: started items
   with the result the store has, the others as skipped, and only for a
   cancellation, a fail-fast stop or an upstream that did not complete
   (driveFleet, closeFanOut). *)
ReportIsTrue ==
  driver.at \in {"close", "returned"} =>
    NothingStarted \/
    \A i \in Item :
      /\ results[i] # "pending"
      /\ results[i] = "adopted" <=> i \in plan.adopted
      /\ results[i] = "completed" <=> store[i] = "completed"
      /\ results[i] \in Outcome <=> i \in Started
      /\ results[i] = "skipped" => CutForCause(i)

(* While the process lives no item under way is called interrupted; after a
   crash every child that was acting is, as one that had started, and one
   that is called interrupted before its start never acted
   (execjournal.Interrupted, Entry.Interruption). *)
InterruptionIsTrue ==
  /\ up => Interrupted \cap UnderWay = {}
  /\ ~up => \A i \in Item :
       /\ worker[i] = "running" => i \in Interrupted /\ "started" \in journal[i]
       /\ i \in Interrupted /\ "started" \notin journal[i] => store[i] = "none"

(* The picture rebuilt from journal and store agrees with the report: an
   acting child is drawn running; after the return an item stands as
   reported, unless it failed before its child acted, which the picture has
   no record of.  An item whose terminal or settling record was lost to a
   failed write is excepted. *)
Kept(i) == store[i] # "running" /\ "settled" \in journal[i]

RedrawIsTrue ==
  up =>
    /\ \A i \in Item : worker[i] = "running" => ResolveState(i) = "running"
    /\ driver.at = "returned" /\ ~NothingStarted =>
         /\ faults = 0 => \A i \in Item \ plan.adopted : Kept(i)
         /\ \A i \in Item : Kept(i) \/ i \in plan.adopted =>
              \/ ResolveState(i) = results[i]
              \/ results[i] = "failed" /\ store[i] = "none"

(* The call returns, whatever fails and whenever it is cancelled, unless the
   process dies. *)
FleetReturns == <>(driver.at = "returned" \/ ~up)
==============================================================================
