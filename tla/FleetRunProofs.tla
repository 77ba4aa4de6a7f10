--------------------------- MODULE FleetRunProofs ---------------------------
(***************************************************************************)
(* The fleet for every set of items, every call that passes the preflight, *)
(* any number of slots and of failed writes.                               *)
(*                                                                         *)
(* The driver's counters are never below the number of unanswered          *)
(* dependencies, so a zero means that all are answered; that orders the    *)
(* runs behind their dependencies and, with what the preflight refused,    *)
(* keeps the claims under way apart.  The second half of the invariant     *)
(* ties journal, live set and store to where driver and workers stand.     *)
(***************************************************************************)
EXTENDS FleetRun, WritePathsProofs, FiniteSetTheorems, WellFoundedInduction

Answered(d) == worker[d] = "taken" /\ outcome[d] = "completed"
Unanswered(i) == {d \in Deps(plan, i) \ plan.adopted : ~Answered(d)}

Planned == plan \in Plans /\ Preflight(plan)

Adopting ==
  /\ \A i \in Item : results[i] = "adopted" <=> i \in plan.adopted
  /\ \A i \in Item : worker[i] # "idle" => i \notin plan.adopted
  /\ \A i \in Item : worker[i] # "taken" => results[i] \in {"pending", "skipped", "adopted"}

(* The counters, and what follows once they are zero. *)
Counted ==
  /\ \A i \in Item : waiting[i] >= Cardinality(Unanswered(i))
  /\ driver.at = "loop" => \A i \in driver.todo : waiting[i] = 0 /\ worker[i] = "idle"
  /\ \A i \in Item : worker[i] # "idle" => Unanswered(i) = {}

(* The channel holds each published item once. *)
Channelled ==
  /\ \A k \in DOMAIN doneCh : worker[doneCh[k]] = "published"
  /\ \A k, l \in DOMAIN doneCh : doneCh[k] = doneCh[l] => k = l

Ended(i) == worker[i] \in {"ended", "published", "taken"}

(* What the store says of an item, by the outcome of its run. *)
StoredOf(i) ==
  /\ Ended(i) <=> outcome[i] # "none"
  /\ outcome[i] = "completed" <=> store[i] = "completed"
  /\ store[i] \in {"failed", "cancelled"} => outcome[i] = store[i]
  /\ outcome[i] = "cancelled" /\ store[i] = "none" => "queued" \in journal[i]
  /\ up => store[i] # "interrupted"
  /\ worker[i] = "running" => store[i] # "none"
  /\ ~Ended(i) /\ worker[i] # "running" => store[i] = "none"
  /\ store[i] # "none" \/ worker[i] \in {"started", "running"} => "started" \in journal[i]
  /\ worker[i] \in {"idle", "handed", "queued"} => "started" \notin journal[i]
  /\ worker[i] = "idle" => "queued" \notin journal[i]
  /\ worker[i] = "queued" => "queued" \in journal[i]

Stored == \A i \in Item : StoredOf(i)

(* This process has opened i, holds it and has not let go of it. *)
Held(i) == "open" \in journal[i] /\ "settled" \notin journal[i] /\ (up => i \in owned)

Opening ==
  /\ \A i \in Item : worker[i] = "idle" /\ "settled" \notin journal[i]
  /\ \A i \in (Item \ driver.todo) \ plan.adopted : Held(i)
  /\ \A i \in Item : results[i] \in {"pending", "adopted"}
  /\ driver.at = "claim" => "open" \in journal[First(driver.todo)]

Collecting ==
  \A i \in Item \ plan.adopted : worker[i] \notin {"published", "taken"} => Held(i)

Closing ==
  /\ \A i \in Item : worker[i] \in {"idle", "taken"}
  /\ \/ NothingStarted
     \/ \A i \in Item : /\ worker[i] = "taken" => results[i] = outcome[i]
                        /\ worker[i] = "idle" => results[i] \in {"skipped", "adopted"}

Journaled ==
  /\ driver.at \in {"open", "claim"} => Opening
  /\ driver.at \in {"loop", "wait"} => Collecting
  /\ driver.at \in {"close", "returned"} => Closing
  /\ driver.at = "returned" => driver.todo = {}
  /\ ~up => owned = {}

(* Without a failed write nothing is lost. *)
Complete ==
  faults = 0 =>
    /\ up => \A i \in Item : store[i] = "running" => worker[i] = "running"
    /\ driver.at \notin {"open", "claim"} =>
         \A i \in Item \ plan.adopted : "open" \in journal[i]
    /\ driver.at \in {"close", "returned"} =>
         \A i \in (Item \ driver.todo) \ plan.adopted : "settled" \in journal[i]

(* The counters are exact while the driver collects, so an item it could
   start is one it is about to visit. *)
Startable(i) ==
  ~cancelled /\ ~driver.stop /\ waiting[i] = 0 /\ worker[i] = "idle" /\ results[i] = "pending"

Exact ==
  /\ driver.at \in {"open", "claim", "loop"} =>
       \A i \in Item : waiting[i] = Cardinality(Unanswered(i))
  /\ driver.at = "loop" => \A i \in Item : Startable(i) => i \in driver.todo
  /\ driver.at = "wait" /\ ~cancelled =>
       /\ Started = Taken
       /\ \A i \in Item : ~Startable(i) /\ waiting[i] = Cardinality(Unanswered(i))

Caused ==
  /\ \A i \in Item : worker[i] = "taken" => results[i] = outcome[i]
  /\ \A i \in Item : results[i] = "skipped" => CutForCause(i)

IInv == /\ TypeOK /\ Planned /\ Adopting /\ Counted /\ Channelled
        /\ Stored /\ Journaled /\ Complete /\ Exact /\ Caused

------------------------------------------------------------------------------
(* Facts about plans. *)

LEMMA PlanTyped ==
  ASSUME Planned
  PROVE  /\ plan \in Plan
         /\ \A i \in Item : Deps(plan, i) \subseteq Item /\ IsFiniteSet(Deps(plan, i))
         /\ \A i \in plan.adopted : Empty(plan.claim[i])
<1>1. plan \in Plan /\ \A i \in plan.adopted : Empty(plan.claim[i])
  BY PlanAssumption DEF Planned
<1>2. ASSUME NEW i \in Item PROVE Deps(plan, i) \subseteq Item
  BY <1>1, <1>2 DEF Plan, Deps, Range
<1>3. ASSUME NEW i \in Item PROVE IsFiniteSet(Deps(plan, i))
  BY <1>2, <1>3, FS_Subset, ItemAssumption
<1> QED BY <1>1, <1>2, <1>3

LEMMA UnansweredFinite ==
  ASSUME Planned
  PROVE  \A i \in Item : /\ IsFiniteSet(Unanswered(i))
                         /\ Cardinality(Unanswered(i)) \in Nat
                         /\ Cardinality(Unanswered(i)) = 0 <=> Unanswered(i) = {}
<1> SUFFICES ASSUME NEW i \in Item
             PROVE  /\ IsFiniteSet(Unanswered(i))
                    /\ Cardinality(Unanswered(i)) \in Nat
                    /\ Cardinality(Unanswered(i)) = 0 <=> Unanswered(i) = {}
  OBVIOUS
<1>1. Unanswered(i) \in SUBSET Deps(plan, i)
  BY DEF Unanswered
<1>2. IsFiniteSet(Unanswered(i))
  BY <1>1, PlanTyped, FS_Subset
<1> QED BY <1>2, FS_CardinalityType, FS_EmptySet

(* A set of numbers has a least one; First finds it. *)
LEMMA LeastExists ==
  ASSUME NEW S, S \in SUBSET Nat, S # {}
  PROVE  \E i \in S : \A j \in S : i <= j
<1> DEFINE R == OpToRel(<, Nat)
<1>1. IsWellFoundedOn(R, Nat)
  BY NatLessThanWellFounded
<1> HIDE DEF R
<1>2. PICK i \in S : \A j \in S : <<j, i>> \notin R
  BY <1>1, WFMin
<1>3. \A j \in S : ~(j < i)
  BY <1>2 DEF R, OpToRel
<1> QED BY <1>3

LEMMA FirstIsMember ==
  ASSUME NEW S, S \in SUBSET Item, S # {}
  PROVE  First(S) \in S
<1>1. S \in SUBSET Nat
  BY ItemAssumption
<1> QED BY <1>1, LeastExists DEF First

(* Downstream is transitive along the edges. *)
LEMMA DependentsAreReachable ==
  ASSUME NEW f \in Item, NEW j \in Item, NEW k \in Dependents(plan, j)
  PROVE  /\ k \in Reachable(plan, j)
         /\ j \in Reachable(plan, f) => k \in Reachable(plan, f)
         /\ Reachable(plan, k) \subseteq Reachable(plan, j)
<1>1. k \in Item
  BY DEF Dependents
<1>2. k \in Reachable(plan, j)
  BY <1>1 DEF Reachable
<1>3. j \in Reachable(plan, f) => k \in Reachable(plan, f)
  BY <1>1 DEF Reachable
<1>4. Reachable(plan, k) \subseteq Reachable(plan, j)
  <2> SUFFICES ASSUME NEW m \in Reachable(plan, k), NEW S \in SUBSET Item,
                      Dependents(plan, j) \subseteq S, \A n \in S : Dependents(plan, n) \subseteq S
               PROVE  m \in S
    BY DEF Reachable
  <2>1. Dependents(plan, k) \subseteq S
    OBVIOUS
  <2> QED BY <2>1 DEF Reachable
<1> QED BY <1>2, <1>3, <1>4

(* In a plan the preflight accepts no set of items is closed upwards: the
   item with the most dependents in it would need one with more. *)
LEMMA SomeItemLeads ==
  ASSUME Planned, NEW C, C \in SUBSET Item,
         \A j \in C : \E d \in C : j \in Dependents(plan, d)
  PROVE  C = {}
<1> SUFFICES ASSUME C # {} PROVE FALSE
  OBVIOUS
<1> DEFINE Room(j) == Cardinality(Item) - Cardinality(Reachable(plan, j))
<1>1. ASSUME NEW j \in Item
      PROVE  /\ IsFiniteSet(Reachable(plan, j))
             /\ Cardinality(Reachable(plan, j)) \in Nat
             /\ Room(j) \in Nat
  <2>1. Reachable(plan, j) \in SUBSET Item
    BY DEF Reachable
  <2> QED BY <2>1, ItemAssumption, FS_Subset, FS_CardinalityType
<1>2. \A j \in Item : Room(j) \in Nat
  BY <1>1
<1>3. PICK m \in {Room(j) : j \in C} : \A n \in {Room(j) : j \in C} : m <= n
  <2> HIDE DEF Room
  <2>1. {Room(j) : j \in C} \in SUBSET Nat /\ {Room(j) : j \in C} # {}
    BY <1>2
  <2> QED BY <2>1, LeastExists
<1>4. PICK j \in C : m = Room(j)
  BY <1>3
<1>5. PICK d \in C : j \in Dependents(plan, d)
  OBVIOUS
<1>6. j \notin Reachable(plan, j)
  BY DEF Planned, Preflight
<1>7. Reachable(plan, j) \cup {j} \in SUBSET Reachable(plan, d)
  BY <1>5, DependentsAreReachable
<1>8. Cardinality(Reachable(plan, j) \cup {j}) = Cardinality(Reachable(plan, j)) + 1
  BY <1>1, <1>6, FS_AddElement
<1>9. Cardinality(Reachable(plan, j)) + 1 <= Cardinality(Reachable(plan, d))
  BY <1>1, <1>7, <1>8, FS_Subset
<1>10. Cardinality(Item) \in Nat
  BY ItemAssumption, FS_CardinalityType
<1>11. Room(d) < Room(j)
  BY <1>1, <1>9, <1>10
<1>12. Room(j) <= Room(d)
  <2> HIDE DEF Room
  <2> QED BY <1>3, <1>4
<1> QED BY <1>1, <1>11, <1>12

------------------------------------------------------------------------------
(* Facts about one state. *)

(* A worker between its start and its report: the driver is still collecting
   and this process holds the item open. *)
LEMMA UnderWayIsHeld ==
  ASSUME IInv, NEW i \in Item, worker[i] \notin {"idle", "published", "taken"}
  PROVE  /\ driver.at \in {"loop", "wait"}
         /\ i \notin plan.adopted
         /\ Held(i)
         /\ ~Closed(i)
<1>1. i \notin plan.adopted
  BY DEF IInv, Adopting
<1>2. driver.at \in {"loop", "wait"}
  BY DEF IInv, TypeOK, Journaled, Opening, Collecting, Closing
<1>3. Held(i)
  BY <1>1, <1>2 DEF IInv, Journaled, Opening, Collecting, Closing
<1> QED BY <1>1, <1>2, <1>3 DEF Held, Closed

(* The head of the channel is published, and nothing else in it is. *)
LEMMA HeadIsPublished ==
  ASSUME IInv, doneCh # <<>>
  PROVE  /\ Head(doneCh) \in Item
         /\ worker[Head(doneCh)] = "published"
         /\ Tail(doneCh) \in Seq(Item)
         /\ \A k \in DOMAIN Tail(doneCh) : Tail(doneCh)[k] # Head(doneCh)
<1>1. doneCh \in Seq(Item)
  BY DEF IInv, TypeOK
<1>2. 1 \in DOMAIN doneCh /\ Head(doneCh) = doneCh[1] /\ Head(doneCh) \in Item
  BY <1>1
<1>3. worker[Head(doneCh)] = "published"
  BY <1>2 DEF IInv, Channelled
<1>4. Tail(doneCh) \in Seq(Item)
  BY <1>1
<1>5. ASSUME NEW k \in DOMAIN Tail(doneCh) PROVE Tail(doneCh)[k] # Head(doneCh)
  <2>1. k + 1 \in DOMAIN doneCh /\ Tail(doneCh)[k] = doneCh[k + 1] /\ k + 1 # 1
    BY <1>1, <1>5
  <2> QED BY <1>2, <2>1 DEF IInv, Channelled
<1> QED BY <1>2, <1>3, <1>4, <1>5

(* An answer that arrives was outstanding for each of its dependents. *)
LEMMA AnswerWasAwaited ==
  ASSUME IInv, doneCh # <<>>, NEW i \in Dependents(plan, Head(doneCh))
  PROVE  /\ i \in Item
         /\ Head(doneCh) \in Unanswered(i)
         /\ waiting[i] \in Nat \ {0}
         /\ worker[i] = "idle"
<1> DEFINE r == Head(doneCh)
<1>1. i \in Item /\ r \in Deps(plan, i)
  BY DEF Dependents
<1>2. r \in Item /\ worker[r] = "published"
  BY HeadIsPublished
<1>3. r \in Unanswered(i)
  BY <1>1, <1>2 DEF Unanswered, Answered, IInv, Adopting
<1>4. Cardinality(Unanswered(i)) \in Nat \ {0}
  BY <1>1, <1>3, UnansweredFinite DEF IInv
<1>5. waiting[i] \in Nat /\ waiting[i] >= Cardinality(Unanswered(i))
  BY <1>1 DEF IInv, TypeOK, Counted
<1>6. waiting[i] \in Nat \ {0}
  BY <1>4, <1>5
<1>7. worker[i] = "idle"
  BY <1>1, <1>3 DEF IInv, Counted
<1> QED BY <1>1, <1>3, <1>6, <1>7
------------------------------------------------------------------------------
(* Types. *)

LEMMA EntryTyped ==
  ASSUME TypeOK, NEW i \in Item, NEW s \in {"open", "queued", "started", "settled"},
         Recorded(i, s)
  PROVE  journal' \in [Item -> SUBSET {"open", "queued", "started", "settled"}]
<1>1. Entry(i, s) \in SUBSET {"open", "queued", "started", "settled"}
  BY DEF TypeOK, Entry
<1> QED BY <1>1 DEF TypeOK, Recorded

LEMMA AttemptTyped ==
  ASSUME TypeOK, NEW i \in Item, NEW s \in {"open", "queued", "started", "settled"},
         NotRecorded(i, s)
  PROVE  /\ journal' \in [Item -> SUBSET {"open", "queued", "started", "settled"}]
         /\ faults' \in 0..MaxFaults
<1>1. journal' \in [Item -> SUBSET {"open", "queued", "started", "settled"}]
  BY EntryTyped DEF TypeOK, NotRecorded
<1>2. faults' \in 0..MaxFaults
  BY BoundAssumption DEF TypeOK, NotRecorded, Fault
<1> QED BY <1>1, <1>2

LEMMA FaultTyped == TypeOK /\ Fault => faults' \in 0..MaxFaults
  BY BoundAssumption DEF TypeOK, Fault

(* Goto sets where the driver stands and what its loop still visits. *)
LEMMA GotoSets ==
  ASSUME TypeOK, NEW at, NEW todo, Goto(at, todo)
  PROVE  driver' = [at |-> at, todo |-> todo, stop |-> driver.stop]
<1>1. driver \in [at : {"open", "claim", "loop", "wait", "close", "returned"},
                 todo : SUBSET Item, stop : BOOLEAN]
  BY DEF TypeOK
<1>2. driver' = [driver EXCEPT !.at = at, !.todo = todo]
  BY DEF Goto
<1> QED BY <1>1, <1>2

LEMMA InitTyped == Init => TypeOK
<1> SUFFICES ASSUME Init PROVE TypeOK
  OBVIOUS
<1>1. Planned
  BY DEF Init, Planned
<1>2. \A i \in Item : UnresolvedDeps(plan, i) \in Nat
  <2> TAKE i \in Item
  <2>1. Deps(plan, i) \ plan.adopted \in SUBSET Deps(plan, i)
    OBVIOUS
  <2>2. IsFiniteSet(Deps(plan, i) \ plan.adopted)
    BY <1>1, <2>1, PlanTyped, FS_Subset
  <2> QED BY <2>2, FS_CardinalityType DEF UnresolvedDeps
<1>3. waiting \in [Item -> Nat]
  BY <1>2 DEF Init
<1>4. results \in [Item -> Status]
  BY DEF Init, Status
<1>5. driver \in [at : {"open", "claim", "loop", "wait", "close", "returned"},
                 todo : SUBSET Item, stop : BOOLEAN] /\ driver.at = "open"
  BY DEF Init
<1>6. faults \in 0..MaxFaults
  BY BoundAssumption DEF Init
<1>7. doneCh \in Seq(Item)
  BY DEF Init
<1> QED BY <1>1, <1>3, <1>4, <1>5, <1>6, <1>7 DEF Init, TypeOK, Planned

LEMMA DriverTyped == IInv /\ Driver => TypeOK'
<1> SUFFICES ASSUME IInv, Driver PROVE TypeOK'
  OBVIOUS
<1>t. TypeOK
  BY DEF IInv
<1> USE DEF untouchedByDriver, untouchedByOpening, Goto, Visited, At
<1>f. driver.todo # {} => First(driver.todo) \in driver.todo /\ First(driver.todo) \in Item
  BY <1>t, FirstIsMember DEF TypeOK
<1>1. CASE OpenRecord
  <2>1. journal' \in [Item -> SUBSET {"open", "queued", "started", "settled"}]
    BY <1>1, <1>t, <1>f, EntryTyped DEF OpenRecord
  <2>2. driver' \in [at : {"open", "claim", "loop", "wait", "close", "returned"},
                     todo : SUBSET Item, stop : BOOLEAN]
        /\ (driver'.at = "claim" => driver'.todo # {})
    <3>1. \/ Goto("open", driver.todo \ {First(driver.todo)})
          \/ Goto("claim", driver.todo)
      BY <1>1 DEF OpenRecord
    <3>2. \/ driver' = [at |-> "open", todo |-> driver.todo \ {First(driver.todo)},
                        stop |-> driver.stop]
          \/ driver' = [at |-> "claim", todo |-> driver.todo, stop |-> driver.stop]
      BY <1>t, <3>1, GotoSets
    <3> QED BY <1>1, <1>t, <3>2 DEF OpenRecord, TypeOK
  <2> QED BY <1>1, <1>t, <2>1, <2>2 DEF OpenRecord, TypeOK
<1>2. CASE Claim
  BY <1>2, <1>t, <1>f DEF Claim, TypeOK
<1>3. CASE OpenFails
  BY <1>3, <1>t, <1>f, AttemptTyped DEF OpenFails, TypeOK
<1>4. CASE Opened
  BY <1>4, <1>t DEF Opened, TypeOK
<1>5. CASE Launch
  BY <1>5, <1>t, <1>f DEF Launch, TypeOK
<1>6. ASSUME NEW r \in Item, TakeCompleted(r) PROVE TypeOK'
  <2>1. doneCh # <<>> /\ r = Head(doneCh)
    BY <1>6 DEF TakeCompleted, Take
  <2>2. waiting' \in [Item -> Nat]
    BY <1>6, <1>t, <2>1, AnswerWasAwaited DEF TakeCompleted, TypeOK
  <2>3. doneCh' \in Seq(Item)
    BY <1>6, <2>1, HeadIsPublished DEF TakeCompleted, Take
  <2>4. results' \in [Item -> Status]
    BY <1>6, <1>t DEF TakeCompleted, TypeOK, Status, Outcome
  <2>5. driver' \in [at : {"open", "claim", "loop", "wait", "close", "returned"},
                     todo : SUBSET Item, stop : BOOLEAN] /\ driver'.at = "loop"
    BY <1>6, <1>t DEF TakeCompleted, TypeOK, Dependents
  <2> QED BY <1>6, <1>t, <2>2, <2>3, <2>4, <2>5 DEF TakeCompleted, Take, TypeOK
<1>7. ASSUME NEW r \in Item, TakeFailed(r) PROVE TypeOK'
  <2>1. doneCh # <<>> /\ r = Head(doneCh)
    BY <1>7 DEF TakeFailed, Take
  <2>2. outcome[r] \in Status
    BY <2>1, HeadIsPublished DEF IInv, Stored, StoredOf, Ended, TypeOK, Status
  <2>3. doneCh' \in Seq(Item)
    BY <1>7, <2>1, HeadIsPublished DEF TakeFailed, Take
  <2>4. results' \in [Item -> Status]
    BY <1>7, <1>t, <2>2 DEF TakeFailed, TypeOK, SkipDependents, Status
  <2>5. plan.failFast \in BOOLEAN
    BY PlanTyped DEF IInv, Plan
  <2>6. driver' \in [at : {"open", "claim", "loop", "wait", "close", "returned"},
                     todo : SUBSET Item, stop : BOOLEAN] /\ driver'.at = "loop"
    BY <1>7, <1>t, <2>5 DEF TakeFailed, Take, TypeOK
  <2> QED BY <1>7, <1>t, <2>3, <2>4, <2>6 DEF TakeFailed, Take, TypeOK
<1>8. CASE LeaveLoop
  BY <1>8, <1>t DEF LeaveLoop, TypeOK
<1>9. CASE Drain
  <2>1. \A i \in Started : outcome[i] \in Status
    BY <1>9 DEF Drain, Started, Published, IInv, Stored, StoredOf, Ended, TypeOK, Status
  <2>2. results' \in [Item -> Status]
    BY <1>9, <1>t, <2>1 DEF Drain, TypeOK, Status
  <2>3. worker' \in [Item -> {"idle", "handed", "queued", "granted", "started", "running",
                             "ended", "published", "taken"}]
    BY <1>9 DEF Drain
  <2>4. driver' \in [at : {"open", "claim", "loop", "wait", "close", "returned"},
                     todo : SUBSET Item, stop : BOOLEAN] /\ driver'.at = "close"
    BY <1>9, <1>t DEF Drain, TypeOK
  <2>5. doneCh' \in Seq(Item)
    BY <1>9 DEF Drain
  <2> QED BY <1>9, <1>t, <2>2, <2>3, <2>4, <2>5 DEF Drain, TypeOK
<1>10. CASE CloseItem
  <2>1. First(driver.todo) \in Item
    BY <1>10, <1>f DEF CloseItem
  <2>2. SettleRecord(First(driver.todo))
    BY <1>10 DEF CloseItem
  <2>3. /\ journal' \in [Item -> SUBSET {"open", "queued", "started", "settled"}]
        /\ faults' \in 0..MaxFaults /\ owned' \subseteq Item
    BY <1>t, <2>1, <2>2, EntryTyped, AttemptTyped DEF SettleRecord, TypeOK
  <2> QED BY <1>10, <1>t, <2>3 DEF CloseItem, TypeOK
<1>11. CASE Return
  BY <1>11, <1>t DEF Return, TypeOK
<1> QED BY <1>1, <1>2, <1>3, <1>4, <1>5, <1>6, <1>7, <1>8, <1>9, <1>10, <1>11 DEF Driver

LEMMA WorkerTyped == IInv /\ (\E i \in Item : WorkerStep(i)) => TypeOK'
<1> SUFFICES ASSUME IInv, NEW i \in Item, WorkerStep(i) PROVE TypeOK'
  OBVIOUS
<1>t. TypeOK
  BY DEF IInv
<1> USE DEF untouchedByWorker, Is, Become, End, Save, Outcome
<1>1. CASE Refuse(i)
  BY <1>1, <1>t DEF Refuse, TypeOK
<1>2. CASE Queue(i)
  <2>1. journal' \in [Item -> SUBSET {"open", "queued", "started", "settled"}]
        /\ faults' \in 0..MaxFaults
    BY <1>2, <1>t, EntryTyped, AttemptTyped DEF Queue, TypeOK
  <2> QED BY <1>2, <1>t, <2>1 DEF Queue, TypeOK
<1>3. CASE CancelWait(i)
  BY <1>3, <1>t DEF CancelWait, TypeOK
<1>4. CASE Admit(i)
  BY <1>4, <1>t DEF Admit, TypeOK
<1>5. CASE Start(i)
  <2>1. journal' \in [Item -> SUBSET {"open", "queued", "started", "settled"}]
        /\ faults' \in 0..MaxFaults
    BY <1>5, <1>t, EntryTyped, AttemptTyped DEF Start, TypeOK
  <2> QED BY <1>5, <1>t, <2>1 DEF Start, TypeOK
<1>6. CASE Begin(i)
  BY <1>6, <1>t DEF Begin, TypeOK
<1>7. CASE CannotBegin(i)
  BY <1>7, <1>t DEF CannotBegin, TypeOK
<1>8. CASE ChildCompletes(i)
  BY <1>8, <1>t, FaultTyped DEF ChildCompletes, TypeOK
<1>9. CASE ChildEnds(i)
  <2>1. PICK result \in {"failed", "cancelled"} :
          /\ End(i, result)
          /\ \/ Save(i, result) /\ UNCHANGED faults
             \/ Fault /\ UNCHANGED store
    BY <1>9, Zenon DEF ChildEnds
  <2>2. store' \in [Item -> Outcome \cup {"none", "running", "interrupted"}]
    <3>1. CASE Save(i, result)
      BY <1>t, <3>1 DEF TypeOK
    <3>2. CASE UNCHANGED store
      BY <1>t, <3>2 DEF TypeOK
    <3> QED BY <2>1, <3>1, <3>2
  <2>3. faults' \in 0..MaxFaults
    BY <1>t, <2>1, FaultTyped DEF TypeOK
  <2> QED BY <1>9, <1>t, <2>1, <2>2, <2>3 DEF ChildEnds, TypeOK
<1>10. CASE Publish(i)
  <2>1. /\ journal' \in [Item -> SUBSET {"open", "queued", "started", "settled"}]
        /\ faults' \in 0..MaxFaults /\ owned' \subseteq Item
    BY <1>10, <1>t, EntryTyped, AttemptTyped DEF Publish, SettleRecord, TypeOK
  <2>2. doneCh' \in Seq(Item)
    BY <1>10, <1>t DEF Publish, TypeOK
  <2> QED BY <1>10, <1>t, <2>1, <2>2 DEF Publish, TypeOK
<1> QED BY <1>1, <1>2, <1>3, <1>4, <1>5, <1>6, <1>7, <1>8, <1>9, <1>10 DEF WorkerStep

LEMMA TypeInductive == IInv /\ [Next]_vars => TypeOK'
<1> SUFFICES ASSUME IInv, [Next]_vars PROVE TypeOK'
  OBVIOUS
<1>t. TypeOK
  BY DEF IInv
<1>1. CASE Driver
  BY <1>1, DriverTyped
<1>2. CASE \E i \in Item : WorkerStep(i)
  BY <1>2, WorkerTyped
<1>3. CASE Cancel
  BY <1>3, <1>t DEF Cancel, TypeOK
<1>4. CASE Crash
  BY <1>4, <1>t DEF Crash, TypeOK
<1>5. CASE CleanupStaleRunning
  BY <1>5, <1>t DEF CleanupStaleRunning, TypeOK
<1>6. CASE UNCHANGED vars
  BY <1>6, <1>t DEF vars, TypeOK
<1> QED BY <1>1, <1>2, <1>3, <1>4, <1>5, <1>6 DEF Next
------------------------------------------------------------------------------
(* What a step touches. *)

(* A record adds itself to its own entry, or nothing. *)
LEMMA RecordAdds ==
  ASSUME TypeOK, NEW i \in Item, NEW s, Recorded(i, s) \/ UNCHANGED journal
  PROVE  /\ \A j \in Item \ {i} : journal'[j] = journal[j]
         /\ journal[i] \subseteq journal'[i]
         /\ journal'[i] \subseteq journal[i] \cup {s}
<1>1. CASE UNCHANGED journal
  BY <1>1
<1>2. CASE Recorded(i, s)
  <2>1. journal[i] \subseteq Entry(i, s) /\ Entry(i, s) \subseteq journal[i] \cup {s}
    BY DEF Entry
  <2> QED BY <1>2, <2>1 DEF Recorded, TypeOK
<1> QED BY <1>1, <1>2

LEMMA SettleAdds ==
  ASSUME TypeOK, NEW i \in Item, SettleRecord(i)
  PROVE  /\ \A j \in Item \ {i} : journal'[j] = journal[j]
         /\ journal[i] \subseteq journal'[i]
         /\ journal'[i] \subseteq journal[i] \cup {"settled"}
         /\ owned' = owned \ {i}
<1>1. (Recorded(i, "settled") \/ UNCHANGED journal) /\ owned' = owned \ {i}
  BY DEF SettleRecord, NotRecorded
<1> QED BY <1>1, RecordAdds

(* A worker's step is about its own item only. *)
Local(i) ==
  /\ UNCHANGED <<plan, results, waiting, driver, cancelled, up>>
  /\ \A j \in Item \ {i} : /\ worker'[j] = worker[j]
                           /\ outcome'[j] = outcome[j]
                           /\ journal'[j] = journal[j]
                           /\ store'[j] = store[j]

(* Before it publishes, a worker keeps its item open and held. *)
Continues(i) ==
  /\ worker'[i] \in {"queued", "granted", "started", "running", "ended"}
  /\ journal[i] \subseteq journal'[i]
  /\ journal'[i] \subseteq journal[i] \cup {"queued", "started"}
  /\ UNCHANGED <<doneCh, owned>>

Publishes(i) ==
  /\ worker[i] = "ended" /\ worker'[i] = "published"
  /\ outcome'[i] = outcome[i] /\ store'[i] = store[i]
  /\ journal[i] \subseteq journal'[i]
  /\ journal'[i] \subseteq journal[i] \cup {"settled"}
  /\ owned' = owned \ {i}
  /\ doneCh' = Append(doneCh, i)

LEMMA WorkerTouches ==
  ASSUME IInv, NEW i \in Item, WorkerStep(i)
  PROVE  /\ up
         /\ worker[i] \notin {"idle", "published", "taken"}
         /\ Local(i)
         /\ Continues(i) \/ Publishes(i)
<1>t. TypeOK
  BY DEF IInv
<1> USE DEF untouchedByWorker, Is, Become, End, Save
<1>1. CASE Refuse(i)
  BY <1>1, <1>t DEF Refuse, TypeOK, Local, Continues
<1>2. CASE Queue(i)
  <2>1. Recorded(i, "queued") \/ UNCHANGED journal
    BY <1>2 DEF Queue, NotRecorded
  <2> QED BY <1>2, <1>t, <2>1, RecordAdds DEF Queue, TypeOK, Local, Continues
<1>3. CASE CancelWait(i)
  BY <1>3, <1>t DEF CancelWait, TypeOK, Local, Continues
<1>4. CASE Admit(i)
  BY <1>4, <1>t DEF Admit, TypeOK, Local, Continues
<1>5. CASE Start(i)
  <2>1. Recorded(i, "started") \/ UNCHANGED journal
    BY <1>5 DEF Start, NotRecorded
  <2> QED BY <1>5, <1>t, <2>1, RecordAdds DEF Start, TypeOK, Local, Continues
<1>6. CASE Begin(i)
  BY <1>6, <1>t DEF Begin, TypeOK, Local, Continues
<1>7. CASE CannotBegin(i)
  BY <1>7, <1>t DEF CannotBegin, TypeOK, Local, Continues
<1>8. CASE ChildCompletes(i)
  BY <1>8, <1>t DEF ChildCompletes, TypeOK, Local, Continues
<1>9. CASE ChildEnds(i)
  <2>1. PICK result \in {"failed", "cancelled"} :
          /\ End(i, result)
          /\ \/ Save(i, result) /\ UNCHANGED faults
             \/ Fault /\ UNCHANGED store
    BY <1>9, Zenon DEF ChildEnds
  <2>2. \A j \in Item \ {i} : store'[j] = store[j]
    <3>1. CASE Save(i, result)
      BY <1>t, <3>1 DEF TypeOK
    <3> QED BY <2>1, <3>1
  <2>3. /\ worker'[i] = "ended"
        /\ \A j \in Item \ {i} : worker'[j] = worker[j] /\ outcome'[j] = outcome[j]
    BY <1>t, <2>1 DEF TypeOK
  <2> QED BY <1>9, <1>t, <2>2, <2>3 DEF ChildEnds, Local, Continues
<1>10. CASE Publish(i)
  <2>1. SettleRecord(i)
    BY <1>10 DEF Publish
  <2> QED BY <1>10, <1>t, <2>1, SettleAdds DEF Publish, TypeOK, Local, Publishes
<1> QED BY <1>1, <1>2, <1>3, <1>4, <1>5, <1>6, <1>7, <1>8, <1>9, <1>10 DEF WorkerStep
------------------------------------------------------------------------------
(* The driver's half: the plan is fixed, adopted items never run, the
   counters are safe, and a published item is in the channel once. *)

LEMMA PlanStays == IInv /\ [Next]_vars => plan' = plan
<1> SUFFICES ASSUME IInv, [Next]_vars PROVE plan' = plan
  OBVIOUS
<1>1. CASE Driver
  <2>1. CASE OpenRecord \/ Claim \/ OpenFails \/ Opened \/ Launch
    BY <2>1 DEF OpenRecord, Claim, OpenFails, Opened, Launch, untouchedByDriver, untouchedByOpening
  <2>2. CASE LeaveLoop \/ Drain \/ CloseItem \/ Return
    BY <2>2 DEF LeaveLoop, Drain, CloseItem, Return, untouchedByDriver, untouchedByOpening
  <2>3. ASSUME NEW r \in Item, TakeCompleted(r) \/ TakeFailed(r) PROVE plan' = plan
    BY <2>3 DEF TakeCompleted, TakeFailed, Take, untouchedByDriver
  <2> QED BY <1>1, <2>1, <2>2, <2>3 DEF Driver
<1>2. ASSUME NEW i \in Item, WorkerStep(i) PROVE plan' = plan
  BY <1>2, WorkerTouches DEF Local
<1>3. CASE Cancel \/ Crash \/ CleanupStaleRunning
  BY <1>3 DEF Cancel, Crash, CleanupStaleRunning
<1>4. CASE UNCHANGED vars
  BY <1>4 DEF vars
<1> QED BY <1>1, <1>2, <1>3, <1>4 DEF Next

LEMMA PlanInductive == IInv /\ [Next]_vars => Planned'
  BY PlanStays DEF IInv, Planned, Preflight, Reachable, Dependents, Deps, Ordered,
     ValidateConcurrentWriteClaims

(* What the driver's steps do to workers and outcomes. *)
LEMMA DriverTouches ==
  ASSUME IInv, Driver, NEW j \in Item
  PROVE  /\ up /\ up' = up
         /\ UNCHANGED <<outcome, store>>
         /\ \/ worker'[j] = worker[j]
            \/ /\ worker[j] = "idle" /\ worker'[j] = "handed" /\ results[j] = "pending"
               /\ driver.at = "loop" /\ driver'.at = "loop" /\ j \in driver.todo
            \/ worker[j] = "published" /\ worker'[j] = "taken"
<1>t. TypeOK
  BY DEF IInv
<1> USE DEF untouchedByDriver, untouchedByOpening, At
<1>1. CASE OpenRecord \/ Claim \/ OpenFails \/ Opened \/ LeaveLoop \/ CloseItem \/ Return
  BY <1>1 DEF OpenRecord, Claim, OpenFails, Opened, LeaveLoop, CloseItem, Return
<1>2. CASE Launch
  <2>1. /\ driver.todo # {} /\ First(driver.todo) \in driver.todo
        /\ driver' = [at |-> "loop", todo |-> driver.todo \ {First(driver.todo)},
                      stop |-> driver.stop]
    BY <1>2, <1>t, FirstIsMember, GotoSets DEF Launch, Visited, TypeOK
  <2>2. MayStart(First(driver.todo)) => results[First(driver.todo)] = "pending"
    BY DEF MayStart
  <2>3. worker[First(driver.todo)] = "idle"
    BY <1>2, <2>1 DEF Launch, IInv, Counted
  <2> QED BY <1>2, <1>t, <2>1, <2>2, <2>3 DEF Launch, TypeOK
<1>3. ASSUME NEW r \in Item, Take(r) PROVE worker[r] = "published"
  BY <1>3, HeadIsPublished DEF Take
<1>4. CASE \E r \in Item : TakeCompleted(r) \/ TakeFailed(r)
  BY <1>3, <1>4, <1>t DEF TakeCompleted, TakeFailed, Take, TypeOK
<1>5. CASE Drain
  BY <1>5, <1>t DEF Drain, Started, Published, TypeOK
<1> QED BY <1>1, <1>2, <1>4, <1>5 DEF Driver

(* Results change only for items that were taken, and for pending ones. *)
LEMMA ResultsStay ==
  ASSUME IInv, Driver, NEW j \in Item
  PROVE  \/ results'[j] = results[j]
         \/ worker'[j] = "taken" /\ results'[j] = outcome[j] /\ outcome[j] \in Outcome
         \/ worker'[j] = worker[j] /\ results[j] = "pending" /\ results'[j] = "skipped"
<1>t. TypeOK
  BY DEF IInv
<1>1. CASE OpenRecord \/ Claim \/ OpenFails \/ Opened \/ Launch
  BY <1>1 DEF OpenRecord, Claim, OpenFails, Opened, Launch, untouchedByOpening
<1>2. CASE LeaveLoop \/ CloseItem \/ Return
  BY <1>2 DEF LeaveLoop, CloseItem, Return, untouchedByOpening
<1>o. ASSUME NEW r \in Item, Take(r)
      PROVE  outcome[r] \in Outcome /\ worker[r] = "published" /\ worker'[r] = "taken"
             /\ (r # j => worker'[j] = worker[j])
  <2>1. worker[r] = "published"
    BY <1>o, HeadIsPublished DEF Take
  <2>2. outcome[r] \in Outcome
    BY <2>1 DEF IInv, Stored, StoredOf, Ended, TypeOK
  <2> QED BY <1>o, <1>t, <2>1, <2>2 DEF Take, TypeOK
<1>3. ASSUME NEW r \in Item, TakeCompleted(r)
      PROVE  \/ results'[j] = results[j]
             \/ worker'[j] = "taken" /\ results'[j] = outcome[j] /\ outcome[j] \in Outcome
  BY <1>o, <1>3, <1>t DEF TakeCompleted, TypeOK
<1>4. ASSUME NEW r \in Item, TakeFailed(r), results'[j] # results[j]
      PROVE  \/ worker'[j] = "taken" /\ results'[j] = outcome[j] /\ outcome[j] \in Outcome
             \/ worker[j] = worker'[j] /\ results[j] = "pending" /\ results'[j] = "skipped"
  BY <1>o, <1>4, <1>t DEF TakeFailed, SkipDependents, TypeOK
<1>5. CASE Drain
  <2>1. j \in Started => outcome[j] \in Outcome
    BY <1>5 DEF Drain, Started, Published, IInv, Stored, StoredOf, Ended, TypeOK
  <2> QED BY <1>5, <1>t, <2>1 DEF Drain, Started, TypeOK
<1> QED BY <1>1, <1>2, <1>3, <1>4, <1>5 DEF Driver

LEMMA AdoptingInductive == IInv /\ [Next]_vars => Adopting'
<1> SUFFICES ASSUME IInv, [Next]_vars PROVE Adopting'
  OBVIOUS
<1>p. plan' = plan
  BY PlanStays
<1>1. ASSUME Driver, NEW j \in Item
      PROVE  /\ results'[j] = "adopted" <=> j \in plan.adopted
             /\ worker'[j] # "idle" => j \notin plan.adopted
             /\ worker'[j] # "taken" => results'[j] \in {"pending", "skipped", "adopted"}
  BY <1>1, ResultsStay, DriverTouches DEF IInv, Adopting, Outcome
<1>2. ASSUME NEW i \in Item, WorkerStep(i) PROVE Adopting'
  BY <1>2, WorkerTouches DEF IInv, Adopting, Local, Continues, Publishes
<1>3. CASE Cancel \/ Crash \/ CleanupStaleRunning
  BY <1>3 DEF Cancel, Crash, CleanupStaleRunning, IInv, Adopting
<1>4. CASE UNCHANGED vars
  BY <1>4 DEF vars, IInv, Adopting
<1>5. CASE Driver
  BY <1>1, <1>5, <1>p DEF Adopting
<1> QED BY <1>2, <1>3, <1>4, <1>5 DEF Next

(* An answer is never taken back, so what is outstanding only shrinks. *)
LEMMA AnswersStay ==
  ASSUME IInv, [Next]_vars, NEW i \in Item
  PROVE  /\ Unanswered(i)' \subseteq Unanswered(i)
         /\ IsFiniteSet(Unanswered(i)')
         /\ Cardinality(Unanswered(i)') \in Nat
         /\ Cardinality(Unanswered(i)') <= Cardinality(Unanswered(i))
<1>1. ASSUME NEW d \in Item, Answered(d) PROVE Answered(d)'
  <2>1. CASE Driver
    BY <1>1, <2>1, DriverTouches DEF Answered
  <2>2. ASSUME NEW k \in Item, WorkerStep(k) PROVE Answered(d)'
    BY <1>1, <2>2, WorkerTouches DEF Answered, Local
  <2>3. CASE Cancel \/ Crash \/ CleanupStaleRunning
    BY <1>1, <2>3 DEF Cancel, Crash, CleanupStaleRunning, Answered
  <2>4. CASE UNCHANGED vars
    BY <1>1, <2>4 DEF vars, Answered
  <2> QED BY <2>1, <2>2, <2>3, <2>4 DEF Next
<1>2. Unanswered(i)' \in SUBSET Unanswered(i)
  <2>1. plan' = plan /\ Deps(plan, i) \subseteq Item
    BY PlanStays, PlanTyped DEF IInv
  <2> QED BY <1>1, <2>1 DEF Unanswered, Deps
<1>3. IsFiniteSet(Unanswered(i))
  BY UnansweredFinite DEF IInv
<1> QED BY <1>2, <1>3, FS_Subset, FS_CardinalityType

LEMMA CountedInductive == IInv /\ [Next]_vars => Counted'
<1> SUFFICES ASSUME IInv, [Next]_vars PROVE Counted'
  OBVIOUS
<1>t. TypeOK /\ Counted
  BY DEF IInv
<1>u. \A i \in Item : Cardinality(Unanswered(i)) \in Nat
  BY UnansweredFinite DEF IInv
<1>1. ASSUME UNCHANGED waiting
      PROVE  \A i \in Item : waiting'[i] >= Cardinality(Unanswered(i)')
  BY <1>1, <1>t, <1>u, AnswersStay DEF Counted, TypeOK
<1>2. ASSUME \A i \in Item : worker'[i] # "idle" => worker[i] # "idle" \/ waiting[i] = 0
      PROVE  \A i \in Item : worker'[i] # "idle" => Unanswered(i)' = {}
  <2> SUFFICES ASSUME NEW i \in Item, worker'[i] # "idle" PROVE Unanswered(i)' = {}
    OBVIOUS
  <2>1. CASE worker[i] # "idle"
    BY <1>t, <2>1, AnswersStay DEF Counted
  <2>2. CASE waiting[i] = 0
    <3>1. Cardinality(Unanswered(i)) = 0
      BY <1>t, <1>u, <2>2 DEF Counted
    <3>2. Unanswered(i) = {}
      BY <3>1, UnansweredFinite DEF IInv
    <3> QED BY <3>2, AnswersStay
  <2> QED BY <1>2, <2>1, <2>2
<1>3. CASE Driver
  <2>1. \A i \in Item : worker'[i] # "idle" => worker[i] # "idle" \/ waiting[i] = 0
    BY <1>3, <1>t, DriverTouches DEF Counted
  <2>2. ASSUME UNCHANGED waiting, driver'.at = "loop" => driver'.todo \subseteq Item /\
                 \A i \in driver'.todo : waiting[i] = 0 /\ worker'[i] = "idle"
        PROVE  Counted'
    BY <1>1, <1>2, <2>1, <2>2 DEF Counted
  <2>3. CASE OpenRecord \/ Claim \/ OpenFails
    <3>1. UNCHANGED waiting
      BY <2>3 DEF OpenRecord, Claim, OpenFails, untouchedByOpening
    <3>2. driver'.at # "loop"
      BY <2>3, <1>t, GotoSets DEF OpenRecord, Claim, OpenFails, Visited
    <3> QED BY <2>2, <3>1, <3>2
  <2>4. CASE Opened
    <3>1. UNCHANGED <<waiting, worker>> /\ \A i \in Item : worker[i] = "idle"
      BY <2>4 DEF Opened, At, untouchedByOpening, IInv, Journaled, Opening, Collecting, Closing
    <3>2. driver'.todo = {i \in Item : waiting[i] = 0}
      BY <2>4, <1>t, GotoSets DEF Opened
    <3> QED BY <2>2, <3>1, <3>2
  <2>5. CASE Launch
    <3>1. UNCHANGED waiting
      BY <2>5 DEF Launch
    <3>2. driver'.todo = driver.todo \ {First(driver.todo)} /\ driver.at = "loop"
      BY <2>5, <1>t, GotoSets DEF Launch, Visited, At
    <3>3. \A i \in driver'.todo : i \in Item /\ waiting[i] = 0 /\ worker[i] = "idle"
      BY <1>t, <3>2 DEF Counted, TypeOK
    <3>4. \A i \in driver'.todo : worker'[i] = worker[i]
      BY <2>5, <1>t, <3>2, <3>3 DEF Launch, TypeOK
    <3> QED BY <2>2, <3>1, <3>3, <3>4
  <2>6. ASSUME NEW r \in Item, TakeCompleted(r) PROVE Counted'
    <3>1. doneCh # <<>> /\ r = Head(doneCh) /\ outcome[r] = "completed" /\ UNCHANGED outcome
      BY <2>6 DEF TakeCompleted, Take, untouchedByDriver
    <3>2. worker' = [worker EXCEPT ![r] = "taken"] /\ worker[r] = "published"
      BY <2>6, <3>1, HeadIsPublished DEF TakeCompleted, Take
    <3>3. ASSUME NEW i \in Dependents(plan, r)
          PROVE  /\ i \in Item /\ waiting[i] \in Nat \ {0}
                 /\ waiting'[i] = waiting[i] - 1
                 /\ waiting'[i] >= Cardinality(Unanswered(i)')
      <4>1. /\ i \in Item /\ r \in Unanswered(i) /\ waiting[i] \in Nat \ {0}
        BY <3>1, AnswerWasAwaited
      <4>2. Answered(r)'
        BY <1>t, <3>1, <3>2 DEF Answered, TypeOK
      <4>3. Unanswered(i)' \in SUBSET (Unanswered(i) \ {r})
        BY <4>1, <4>2, AnswersStay DEF Unanswered
      <4>4. /\ IsFiniteSet(Unanswered(i) \ {r})
            /\ Cardinality(Unanswered(i) \ {r}) = Cardinality(Unanswered(i)) - 1
        BY <4>1, UnansweredFinite, FS_RemoveElement DEF IInv
      <4>5. Cardinality(Unanswered(i)') <= Cardinality(Unanswered(i)) - 1
        BY <4>3, <4>4, FS_Subset
      <4>6. waiting'[i] = waiting[i] - 1
        BY <2>6, <3>3, <4>1 DEF TakeCompleted
      <4>7. Cardinality(Unanswered(i)') \in Nat
        BY <4>1, AnswersStay
      <4> QED BY <1>t, <1>u, <4>1, <4>5, <4>6, <4>7 DEF Counted
    <3>4. ASSUME NEW i \in Item \ Dependents(plan, r)
          PROVE  waiting'[i] >= Cardinality(Unanswered(i)')
      <4>1. waiting'[i] = waiting[i]
        BY <2>6, <3>4 DEF TakeCompleted
      <4> QED BY <1>t, <1>u, <4>1, AnswersStay DEF Counted, TypeOK
    <3>5. driver'.todo = {i \in Dependents(plan, r) : waiting[i] = 1}
      BY <2>6, <1>t, GotoSets DEF TakeCompleted
    <3>6. ASSUME NEW i \in driver'.todo PROVE waiting'[i] = 0 /\ worker'[i] = "idle"
      <4>1. i \in Dependents(plan, r) /\ waiting[i] = 1
        BY <3>5, <3>6
      <4>2. worker[i] = "idle" /\ i \in Item
        BY <3>1, <4>1, AnswerWasAwaited
      <4>3. worker'[i] = "idle"
        BY <1>t, <3>2, <4>2 DEF TypeOK
      <4> QED BY <3>3, <4>1, <4>3
    <3> QED BY <1>2, <2>1, <3>3, <3>4, <3>6 DEF Counted
  <2>7. ASSUME NEW r \in Item, TakeFailed(r) PROVE Counted'
    <3>1. driver'.todo = {} /\ UNCHANGED waiting
      BY <2>7, <1>t DEF TakeFailed, Take, At, TypeOK
    <3> QED BY <2>2, <3>1
  <2>8. CASE LeaveLoop \/ Drain \/ CloseItem \/ Return
    <3>1. UNCHANGED waiting
      BY <2>8 DEF LeaveLoop, Drain, CloseItem, Return, untouchedByOpening
    <3>2. driver'.at # "loop"
      BY <2>8, <1>t, GotoSets DEF LeaveLoop, Drain, CloseItem, Return, Visited
    <3> QED BY <2>2, <3>1, <3>2
  <2> QED BY <1>3, <2>3, <2>4, <2>5, <2>6, <2>7, <2>8 DEF Driver
<1>4. ASSUME NEW k \in Item, WorkerStep(k) PROVE Counted'
  <2>1. UNCHANGED <<waiting, driver>>
        /\ \A i \in Item : worker'[i] = worker[i] \/ (worker[i] # "idle" /\ worker'[i] # "idle")
    BY <1>4, WorkerTouches DEF Local, Continues, Publishes
  <2>2. driver.todo \subseteq Item
    BY <1>t DEF TypeOK
  <2> QED BY <1>1, <1>2, <1>t, <2>1, <2>2 DEF Counted
<1>5. CASE Cancel \/ Crash \/ CleanupStaleRunning \/ UNCHANGED vars
  <2>1. UNCHANGED <<waiting, driver, worker>>
    BY <1>5 DEF Cancel, Crash, CleanupStaleRunning, vars
  <2> QED BY <1>1, <1>2, <1>t, <2>1 DEF Counted
<1> QED BY <1>3, <1>4, <1>5 DEF Next

LEMMA ChannelledInductive == IInv /\ [Next]_vars => Channelled'
<1> SUFFICES ASSUME IInv, [Next]_vars PROVE Channelled'
  OBVIOUS
<1>t. TypeOK /\ Channelled
  BY DEF IInv
<1>1. ASSUME NEW r \in Item, Take(r) PROVE Channelled'
  <2>1. /\ doneCh # <<>> /\ r = Head(doneCh) /\ doneCh' = Tail(doneCh)
        /\ worker' = [worker EXCEPT ![r] = "taken"]
    BY <1>1 DEF Take
  <2>2. doneCh \in Seq(Item)
    BY <1>t DEF TypeOK
  <2>3. ASSUME NEW k \in DOMAIN Tail(doneCh)
        PROVE  /\ k + 1 \in DOMAIN doneCh
               /\ Tail(doneCh)[k] = doneCh[k + 1]
               /\ doneCh[k + 1] \in Item \ {r}
    BY <2>1, <2>2, <2>3, HeadIsPublished
  <2>4. \A k \in DOMAIN Tail(doneCh) : worker'[Tail(doneCh)[k]] = "published"
    BY <1>t, <2>1, <2>3 DEF TypeOK, Channelled
  <2>5. ASSUME NEW k \in DOMAIN Tail(doneCh), NEW l \in DOMAIN Tail(doneCh),
               Tail(doneCh)[k] = Tail(doneCh)[l]
        PROVE  k = l
    <3>1. k + 1 = l + 1
      BY <1>t, <2>3, <2>5 DEF Channelled
    <3>2. k \in Int /\ l \in Int
      BY <2>1, <2>2
    <3> QED BY <3>1, <3>2
  <2> QED BY <2>1, <2>4, <2>5 DEF Channelled
<1>2. ASSUME NEW r \in Item, TakeCompleted(r) \/ TakeFailed(r) PROVE Channelled'
  BY <1>1, <1>2 DEF TakeCompleted, TakeFailed
<1>3. CASE OpenRecord \/ Claim \/ OpenFails \/ Opened \/ LeaveLoop \/ CloseItem \/ Return
  BY <1>3, <1>t DEF OpenRecord, Claim, OpenFails, Opened, LeaveLoop, CloseItem, Return,
     untouchedByOpening, Channelled
<1>4. CASE Launch
  <2>1. UNCHANGED doneCh
    BY <1>4 DEF Launch
  <2>2. \A k \in DOMAIN doneCh : doneCh[k] \in Item
    BY <1>t DEF TypeOK
  <2>3. \A j \in Item : worker[j] = "published" => worker'[j] = "published"
    BY <1>4, <1>t, FirstIsMember DEF Launch, IInv, Counted, TypeOK, At
  <2> QED BY <1>t, <2>1, <2>2, <2>3 DEF Channelled
<1>5. CASE Drain
  BY <1>5 DEF Drain, Channelled
<1>6. ASSUME NEW i \in Item, WorkerStep(i) PROVE Channelled'
  <2>1. doneCh \in Seq(Item)
    BY <1>t DEF TypeOK
  <2>2. \A k \in DOMAIN doneCh : doneCh[k] \in Item \ {i}
    BY <1>6, <1>t, <2>1, WorkerTouches DEF Channelled
  <2>3. CASE Continues(i)
    BY <1>6, <1>t, <2>2, <2>3, WorkerTouches DEF Local, Continues, Channelled
  <2>4. CASE Publishes(i)
    <3>1. doneCh' = Append(doneCh, i) /\ worker'[i] = "published"
      BY <2>4 DEF Publishes
    <3>2. \A k \in DOMAIN doneCh' :
            \/ k \in DOMAIN doneCh /\ doneCh'[k] = doneCh[k]
            \/ k = Len(doneCh) + 1 /\ doneCh'[k] = i
      BY <2>1, <3>1
    <3>3. \A j \in Item \ {i} : worker'[j] = worker[j]
      BY <1>6, WorkerTouches DEF Local
    <3> QED BY <1>t, <2>2, <3>1, <3>2, <3>3 DEF Channelled
  <2> QED BY <1>6, <2>3, <2>4, WorkerTouches
<1>7. CASE Cancel \/ Crash \/ CleanupStaleRunning \/ UNCHANGED vars
  <2>1. UNCHANGED <<doneCh, worker>>
    BY <1>7 DEF Cancel, Crash, CleanupStaleRunning, vars
  <2> QED BY <1>t, <2>1 DEF Channelled
<1> QED BY <1>2, <1>3, <1>4, <1>5, <1>6, <1>7 DEF Next, Driver
------------------------------------------------------------------------------
(* The store and the journal follow the workers. *)

LEMMA DriverRecords ==
  ASSUME IInv, Driver, NEW j \in Item
  PROVE  /\ journal[j] \subseteq journal'[j]
         /\ journal'[j] \subseteq journal[j] \cup {"open", "settled"}
<1>t. TypeOK
  BY DEF IInv
<1>f. driver.todo # {} => First(driver.todo) \in Item
  BY <1>t, FirstIsMember DEF TypeOK
<1>1. CASE OpenRecord
  BY <1>1, <1>t, <1>f, RecordAdds DEF OpenRecord
<1>2. CASE OpenFails
  <2>1. First(driver.todo) \in Item
    BY <1>2, <1>f DEF OpenFails
  <2>2. Recorded(First(driver.todo), "open") \/ UNCHANGED journal
    BY <1>2 DEF OpenFails, NotRecorded
  <2> QED BY <1>t, <2>1, <2>2, RecordAdds
<1>3. CASE CloseItem
  <2>1. First(driver.todo) \in Item /\ SettleRecord(First(driver.todo))
    BY <1>3, <1>f DEF CloseItem
  <2> QED BY <1>t, <2>1, SettleAdds
<1>4. CASE Claim \/ Opened \/ Launch \/ LeaveLoop \/ Drain \/ Return
  BY <1>4 DEF Claim, Opened, Launch, LeaveLoop, Drain, Return
<1>5. ASSUME NEW r \in Item, TakeCompleted(r) \/ TakeFailed(r) PROVE UNCHANGED journal
  BY <1>5 DEF TakeCompleted, TakeFailed, Take
<1> QED BY <1>1, <1>2, <1>3, <1>4, <1>5 DEF Driver

(* A record of an item under way is kept. *)
LEMMA RecordKept ==
  ASSUME IInv, NEW i \in Item, worker[i] \notin {"idle", "published", "taken"},
         NEW s \in {"queued", "started", "settled"}, Recorded(i, s), s = "queued" => "started" \notin journal[i]
  PROVE  s \in journal'[i]
<1>1. Entry(i, s) = journal[i] \cup {s}
  BY UnderWayIsHeld DEF Entry
<1> QED BY <1>1 DEF Recorded, IInv, TypeOK

LEMMA WorkerStored ==
  ASSUME IInv, NEW i \in Item, WorkerStep(i)
  PROVE  StoredOf(i)'
<1>t. TypeOK
  BY DEF IInv
<1>s. StoredOf(i)
  BY DEF IInv, Stored
<1>w. /\ up /\ up' /\ worker[i] \notin {"idle", "published", "taken"}
      /\ journal[i] \subseteq journal'[i]
  BY <1>t, WorkerTouches DEF Local, Continues, Publishes
<1> USE DEF Is, Become, End, Save, StoredOf, Ended
<1>1. CASE Refuse(i)
  BY <1>1, <1>s, <1>t, <1>w DEF Refuse, TypeOK
<1>2. CASE Queue(i)
  <2>1. CASE Recorded(i, "queued") /\ Become(i, "queued") /\ UNCHANGED outcome
    <3>1. "queued" \in journal'[i] /\ "started" \notin journal'[i]
      BY <1>2, <1>s, <1>t, <1>w, <2>1, RecordKept, RecordAdds DEF Queue
    <3> QED BY <1>2, <1>s, <1>t, <1>w, <2>1, <3>1 DEF Queue, TypeOK
  <2>2. CASE End(i, "failed")
    BY <1>2, <1>s, <1>t, <1>w, <2>2 DEF Queue, TypeOK
  <2> QED BY <1>2, <2>1, <2>2 DEF Queue
<1>3. CASE CancelWait(i)
  BY <1>3, <1>s, <1>t, <1>w DEF CancelWait, TypeOK
<1>4. CASE Admit(i)
  BY <1>4, <1>s, <1>t, <1>w DEF Admit, TypeOK
<1>5. CASE Start(i)
  <2>1. CASE Recorded(i, "started") /\ Become(i, "started") /\ UNCHANGED outcome
    <3>1. "started" \in journal'[i]
      BY <1>w, <2>1, RecordKept
    <3> QED BY <1>5, <1>s, <1>t, <1>w, <2>1, <3>1 DEF Start, TypeOK
  <2>2. CASE End(i, "failed")
    BY <1>5, <1>s, <1>t, <1>w, <2>2 DEF Start, TypeOK
  <2> QED BY <1>5, <2>1, <2>2 DEF Start
<1>6. CASE Begin(i)
  BY <1>6, <1>s, <1>t, <1>w DEF Begin, TypeOK
<1>7. CASE CannotBegin(i)
  BY <1>7, <1>s, <1>t, <1>w DEF CannotBegin, TypeOK
<1>8. CASE ChildCompletes(i)
  BY <1>8, <1>s, <1>t, <1>w DEF ChildCompletes, TypeOK
<1>9. CASE ChildEnds(i)
  <2>1. PICK result \in {"failed", "cancelled"} :
          /\ End(i, result)
          /\ \/ Save(i, result) /\ UNCHANGED faults
             \/ Fault /\ UNCHANGED store
    BY <1>9, Zenon DEF ChildEnds
  <2>2. worker'[i] = "ended" /\ outcome'[i] = result
    BY <1>t, <2>1 DEF TypeOK
  <2>3. store'[i] \in {result, store[i]}
    <3>1. CASE Save(i, result)
      BY <1>t, <3>1 DEF TypeOK
    <3> QED BY <2>1, <3>1
  <2>4. worker[i] = "running"
    BY <1>9 DEF ChildEnds
  <2> QED BY <1>s, <1>w, <2>2, <2>3, <2>4
<1>10. CASE Publish(i)
  BY <1>10, <1>s, <1>t, <1>w DEF Publish, TypeOK
<1> QED BY <1>1, <1>2, <1>3, <1>4, <1>5, <1>6, <1>7, <1>8, <1>9, <1>10 DEF WorkerStep

LEMMA StoredInductive == IInv /\ [Next]_vars => Stored'
<1> SUFFICES ASSUME IInv, [Next]_vars PROVE Stored'
  OBVIOUS
<1>t. TypeOK /\ Stored
  BY DEF IInv
<1>1. ASSUME Driver, NEW j \in Item PROVE StoredOf(j)'
  <2>1. StoredOf(j)
    BY <1>t DEF Stored
  <2> QED BY <1>1, <2>1, DriverTouches, DriverRecords DEF StoredOf, Ended
<1>2. ASSUME NEW i \in Item, WorkerStep(i), NEW j \in Item \ {i} PROVE StoredOf(j)'
  BY <1>2, <1>t, WorkerTouches DEF Local, Stored, StoredOf, Ended
<1>3. CASE \E i \in Item : WorkerStep(i)
  BY <1>2, <1>3, WorkerStored DEF Stored
<1>4. CASE Cancel \/ Crash
  BY <1>4, <1>t DEF Cancel, Crash, Stored, StoredOf, Ended
<1>5. CASE CleanupStaleRunning
  <2>1. \A j \in Item :
          store'[j] = store[j] \/ (store[j] = "running" /\ store'[j] = "interrupted")
    BY <1>5, <1>t DEF CleanupStaleRunning, TypeOK
  <2>2. UNCHANGED <<worker, outcome, journal, up>> /\ ~up
    BY <1>5 DEF CleanupStaleRunning
  <2> QED BY <1>t, <2>1, <2>2 DEF Stored, StoredOf, Ended
<1>6. CASE UNCHANGED vars
  BY <1>6, <1>t DEF vars, Stored, StoredOf, Ended
<1> QED BY <1>1, <1>3, <1>4, <1>5, <1>6 DEF Next, Stored

LEMMA DriverJournaled == IInv /\ Driver => Journaled'
<1> SUFFICES ASSUME IInv, Driver PROVE Journaled'
  OBVIOUS
<1>t. TypeOK /\ Journaled
  BY DEF IInv
<1>d. up /\ up'
  <2>1. PICK j \in Item : TRUE
    BY ItemAssumption
  <2> QED BY <2>1, DriverTouches
<1>p. plan' = plan
  BY PlanStays DEF Next
<1> USE DEF untouchedByDriver, untouchedByOpening, At
<1>f. driver.todo # {} => First(driver.todo) \in driver.todo /\ First(driver.todo) \in Item
  BY <1>t, FirstIsMember DEF TypeOK
<1>k. ASSUME NEW j \in Item, Held(j), j \in owned', "settled" \notin journal'[j] PROVE Held(j)'
  BY <1>d, <1>k, DriverRecords DEF Held
<1>1. CASE OpenRecord
  <2> DEFINE i == First(driver.todo)
  <2>1. i \in Item /\ i \in driver.todo /\ Recorded(i, "open") /\ UNCHANGED <<owned, worker, results>>
    BY <1>1, <1>f DEF OpenRecord
  <2>2. Opening
    BY <1>1, <1>t DEF OpenRecord, Journaled
  <2>3. \A j \in Item : "settled" \notin journal'[j]
    BY <1>t, <2>1, <2>2, RecordAdds DEF Opening
  <2>4. "open" \in journal'[i]
    BY <1>t, <2>1 DEF Recorded, Entry, TypeOK
  <2>5. \A j \in (Item \ driver.todo) \ plan.adopted : Held(j)'
    BY <1>d, <1>k, <2>1, <2>2, <2>3 DEF Opening, Held
  <2>6. CASE i \in plan.adopted
    <3>1. driver'.at = "open" /\ driver'.todo = driver.todo \ {i}
      BY <1>1, <1>t, <2>6, GotoSets DEF OpenRecord, Visited
    <3> QED BY <1>d, <1>p, <2>1, <2>2, <2>3, <2>5, <2>6, <3>1 DEF Journaled, Opening
  <2>7. CASE i \notin plan.adopted
    <3>1. driver'.at = "claim" /\ driver'.todo = driver.todo
      BY <1>1, <1>t, <2>7, GotoSets DEF OpenRecord
    <3>2. First(driver'.todo) = i
      BY <3>1
    <3> QED BY <1>d, <1>p, <2>1, <2>2, <2>3, <2>4, <2>5, <3>1, <3>2 DEF Journaled, Opening
  <2> QED BY <2>6, <2>7
<1>2. CASE Claim
  <2> DEFINE i == First(driver.todo)
  <2>1. Opening /\ i \in Item /\ "open" \in journal[i]
    BY <1>2, <1>f, <1>t DEF Claim, TypeOK, Journaled, Opening
  <2>2. /\ driver'.at = "open" /\ driver'.todo = driver.todo \ {i}
        /\ owned' = owned \cup {i} /\ UNCHANGED <<journal, worker, results>>
    BY <1>2, <1>t, GotoSets DEF Claim, Visited
  <2>3. \A j \in (Item \ driver'.todo) \ plan.adopted : Held(j)'
    BY <1>d, <2>1, <2>2 DEF Opening, Held
  <2> QED BY <1>d, <1>p, <2>1, <2>2, <2>3 DEF Journaled, Opening
<1>3. CASE OpenFails
  <2>1. driver'.at = "close" /\ UNCHANGED <<worker, results>> /\ Opening
    BY <1>3, <1>t, GotoSets DEF OpenFails, Journaled
  <2> QED BY <1>d, <2>1 DEF Journaled, Opening, Closing, NothingStarted
<1>4. CASE Opened
  <2>1. driver'.at = "loop" /\ UNCHANGED <<worker, journal, owned>> /\ Opening /\ driver.todo = {}
    BY <1>4, <1>t, GotoSets DEF Opened, Journaled
  <2> QED BY <1>d, <1>p, <2>1 DEF Journaled, Opening, Collecting, Held
<1>5. CASE Launch \/ LeaveLoop
  <2>1. /\ driver'.at \in {"loop", "wait"} /\ Collecting
        /\ UNCHANGED <<journal, owned>>
    BY <1>5, <1>t, GotoSets DEF Launch, Visited, LeaveLoop, Journaled
  <2>2. ASSUME NEW j \in Item, worker'[j] \notin {"published", "taken"}
        PROVE  worker[j] \notin {"published", "taken"}
    BY <2>2, DriverTouches
  <2> QED BY <1>d, <1>p, <2>1, <2>2 DEF Journaled, Collecting, Held
<1>6. ASSUME NEW r \in Item, TakeCompleted(r) \/ TakeFailed(r) PROVE Journaled'
  <2>1. driver.at = "loop" /\ Collecting /\ UNCHANGED <<journal, owned>>
    BY <1>6, <1>t DEF TakeCompleted, TakeFailed, Take, Journaled
  <2>2. driver'.at = "loop"
    BY <1>6, <1>t, <2>1, GotoSets DEF TakeCompleted, TakeFailed, TypeOK
  <2>3. ASSUME NEW j \in Item, worker'[j] \notin {"published", "taken"}
        PROVE  worker[j] \notin {"published", "taken"}
    BY <2>3, DriverTouches
  <2> QED BY <1>d, <1>p, <2>1, <2>2, <2>3 DEF Journaled, Collecting, Held
<1>7. CASE Drain
  <2>1. driver'.at = "close" /\ UNCHANGED outcome
    BY <1>7, <1>t, GotoSets DEF Drain
  <2>2. \A i \in Item : /\ worker'[i] = IF i \in Started THEN "taken" ELSE "idle"
                        /\ i \in Started => results'[i] = outcome[i]
                        /\ i \notin Started =>
                             results'[i] = IF results[i] = "pending" THEN "skipped" ELSE results[i]
    BY <1>7 DEF Drain
  <2>3. \A i \in Item \ Started : results[i] \in {"pending", "skipped", "adopted"}
    BY DEF Started, IInv, Adopting
  <2>4. ASSUME NEW i \in Item
        PROVE  \/ worker'[i] = "taken" /\ results'[i] = outcome'[i]
               \/ worker'[i] = "idle" /\ results'[i] \in {"skipped", "adopted"}
    <3>1. CASE i \in Started
      BY <2>1, <2>2, <3>1
    <3>2. CASE i \notin Started
      <4>1. worker'[i] = "idle" /\ results[i] \in {"pending", "skipped", "adopted"}
        BY <2>2, <2>3, <3>2
      <4>2. results'[i] = IF results[i] = "pending" THEN "skipped" ELSE results[i]
        BY <2>2, <3>2
      <4> QED BY <4>1, <4>2
    <3> QED BY <3>1, <3>2
  <2>5. Closing'
    BY <2>4 DEF Closing
  <2> QED BY <1>d, <2>1, <2>5 DEF Journaled
<1>8. CASE CloseItem \/ Return
  <2>1. /\ driver'.at \in {"close", "returned"} /\ UNCHANGED <<worker, results, outcome>>
        /\ driver'.at = "returned" => driver'.todo = {}
        /\ Closing
    BY <1>8, <1>t, GotoSets DEF CloseItem, Return, Visited, Journaled
  <2> QED BY <1>d, <1>p, <2>1 DEF Journaled, Closing, NothingStarted
<1> QED BY <1>1, <1>2, <1>3, <1>4, <1>5, <1>6, <1>7, <1>8 DEF Driver

LEMMA JournaledInductive == IInv /\ [Next]_vars => Journaled'
<1> SUFFICES ASSUME IInv, [Next]_vars PROVE Journaled'
  OBVIOUS
<1>t. TypeOK /\ Journaled
  BY DEF IInv
<1>p. plan' = plan
  BY PlanStays
<1>1. ASSUME NEW i \in Item, WorkerStep(i) PROVE Journaled'
  <2>1. /\ driver.at \in {"loop", "wait"} /\ Held(i) /\ up /\ up' /\ driver' = driver
        /\ Collecting
    BY <1>1, <1>t, UnderWayIsHeld, WorkerTouches DEF Local, Journaled
  <2>2. ASSUME NEW j \in Item \ {i}, Held(j) PROVE Held(j)'
    BY <1>1, <2>1, <2>2, WorkerTouches DEF Held, Local, Continues, Publishes
  <2>3. worker'[i] # "published" => Held(i)'
    BY <1>1, <2>1, WorkerTouches DEF Held, Local, Continues, Publishes
  <2>4. \A j \in Item \ {i} : worker'[j] = worker[j]
    BY <1>1, WorkerTouches DEF Local
  <2> QED BY <1>p, <2>1, <2>2, <2>3, <2>4 DEF Journaled, Collecting
<1>2. CASE Cancel
  BY <1>2, <1>t DEF Cancel, Journaled, Opening, Collecting, Closing, Held, NothingStarted
<1>3. CASE Crash
  BY <1>3, <1>t DEF Crash, Journaled, Opening, Collecting, Closing, Held, NothingStarted
<1>4. CASE CleanupStaleRunning \/ UNCHANGED vars
  BY <1>4, <1>t DEF CleanupStaleRunning, vars, Journaled, Opening, Collecting, Closing, Held,
     NothingStarted
<1> QED BY <1>1, <1>2, <1>3, <1>4, DriverJournaled DEF Next
------------------------------------------------------------------------------
(* Without a failed write nothing is lost. *)

LEMMA FaultsStay ==
  ASSUME IInv, [Next]_vars, faults' = 0
  PROVE  faults = 0 /\ Complete
<1>t. TypeOK /\ Complete
  BY DEF IInv
<1>1. faults \in Nat /\ (faults' = faults \/ faults' = faults + 1)
  <2>1. faults \in Nat
    BY <1>t, BoundAssumption DEF TypeOK
  <2>2. CASE Driver
    <3>1. CASE OpenRecord \/ Claim \/ Opened \/ Launch \/ LeaveLoop \/ Drain \/ Return
      BY <3>1 DEF OpenRecord, Claim, Opened, Launch, LeaveLoop, Drain, Return
    <3>2. CASE OpenFails \/ CloseItem
      BY <2>1, <3>2 DEF OpenFails, CloseItem, SettleRecord, NotRecorded, Fault
    <3>3. ASSUME NEW r \in Item, TakeCompleted(r) \/ TakeFailed(r) PROVE faults' = faults
      BY <3>3 DEF TakeCompleted, TakeFailed, Take
    <3> QED BY <2>1, <2>2, <3>1, <3>2, <3>3 DEF Driver
  <2>3. ASSUME NEW i \in Item, WorkerStep(i) PROVE faults' = faults \/ faults' = faults + 1
    <3>1. CASE Refuse(i) \/ CancelWait(i) \/ Admit(i) \/ Begin(i) \/ CannotBegin(i)
      BY <3>1 DEF Refuse, CancelWait, Admit, Begin, CannotBegin
    <3>2. CASE Queue(i) \/ Start(i) \/ Publish(i)
      <4>1. UNCHANGED faults \/ Fault
        BY <3>2, Zenon DEF Queue, Start, Publish, SettleRecord, NotRecorded
      <4> QED BY <4>1 DEF Fault
    <3>3. CASE ChildCompletes(i)
      <4>1. UNCHANGED faults \/ Fault
        BY <3>3, Zenon DEF ChildCompletes
      <4> QED BY <4>1 DEF Fault
    <3>4. CASE ChildEnds(i)
      <4>1. UNCHANGED faults \/ Fault
        BY <3>4, Zenon DEF ChildEnds
      <4> QED BY <4>1 DEF Fault
    <3> QED BY <2>3, <3>1, <3>2, <3>3, <3>4 DEF WorkerStep
  <2>4. CASE Cancel \/ Crash \/ CleanupStaleRunning \/ UNCHANGED vars
    BY <2>4 DEF Cancel, Crash, CleanupStaleRunning, vars
  <2> QED BY <2>1, <2>2, <2>3, <2>4 DEF Next
<1> QED BY <1>t, <1>1

LEMMA DriverComplete == IInv /\ Driver => Complete'
<1> SUFFICES ASSUME IInv, Driver, faults' = 0 PROVE Complete'
  BY DEF Complete
<1>t. TypeOK /\ Journaled /\ Complete /\ faults = 0
  BY FaultsStay DEF IInv, Next
<1>p. plan' = plan
  BY PlanStays DEF Next
<1>f. driver.todo # {} => First(driver.todo) \in driver.todo /\ First(driver.todo) \in Item
  BY <1>t, FirstIsMember DEF TypeOK
<1>1. up' => \A i \in Item : store'[i] = "running" => worker'[i] = "running"
  BY <1>t, DriverTouches DEF Complete
<1>2. ASSUME driver.at \notin {"open", "claim"}
      PROVE  \A i \in Item \ plan.adopted : "open" \in journal'[i]
  BY <1>2, <1>t, DriverRecords DEF Complete
<1>3. ASSUME driver'.at \notin {"open", "claim", "close", "returned"},
             driver.at \notin {"open", "claim"}
      PROVE  Complete'
  BY <1>1, <1>2, <1>3, <1>p DEF Complete
<1> USE DEF untouchedByDriver, untouchedByOpening, At
<1>4. CASE OpenRecord \/ Claim
  <2>1. driver'.at \in {"open", "claim"}
    BY <1>4, <1>t, GotoSets DEF OpenRecord, Claim, Visited
  <2> QED BY <1>1, <2>1 DEF Complete
<1>5. CASE OpenFails
  <2>1. faults' = faults + 1
    BY <1>5 DEF OpenFails, NotRecorded, Fault
  <2> QED BY <1>t, <2>1
<1>6. CASE Opened
  <2>1. driver'.at = "loop" /\ UNCHANGED journal
    BY <1>6, <1>t, GotoSets DEF Opened
  <2>2. \A i \in Item \ plan.adopted : "open" \in journal[i]
    BY <1>6, <1>t DEF Opened, Journaled, Opening, Held
  <2> QED BY <1>1, <1>p, <2>1, <2>2 DEF Complete
<1>7. CASE Launch \/ LeaveLoop
  <2>1. driver.at = "loop" /\ driver'.at \in {"loop", "wait"}
    BY <1>7, <1>t, GotoSets DEF Launch, LeaveLoop, Visited
  <2> QED BY <1>3, <2>1
<1>8. ASSUME NEW r \in Item, TakeCompleted(r) \/ TakeFailed(r) PROVE Complete'
  <2>1. driver.at = "loop" /\ driver'.at = "loop"
    BY <1>8, <1>t, GotoSets DEF TakeCompleted, TakeFailed, Take, TypeOK
  <2> QED BY <1>3, <2>1
<1>9. CASE Drain
  <2>1. driver.at = "wait" /\ driver'.at = "close" /\ driver'.todo = Item
    BY <1>9, <1>t, GotoSets DEF Drain
  <2> QED BY <1>1, <1>2, <1>p, <2>1 DEF Complete
<1>10. CASE CloseItem
  <2> DEFINE i == First(driver.todo)
  <2>1. /\ i \in Item /\ SettleRecord(i) /\ driver.at = "close"
        /\ driver'.at = "close" /\ driver'.todo = driver.todo \ {i}
    BY <1>10, <1>f, <1>t, GotoSets DEF CloseItem, Visited
  <2>2. Recorded(i, "settled")
    BY <1>t, <2>1 DEF SettleRecord, NotRecorded, Fault
  <2>3. i \notin plan.adopted => "settled" \in journal'[i]
    BY <1>t, <2>1, <2>2 DEF Complete, Recorded, Entry, Closed, TypeOK
  <2>4. \A j \in (Item \ driver.todo) \ plan.adopted : "settled" \in journal'[j]
    BY <1>t, <2>1, DriverRecords DEF Complete
  <2> QED BY <1>1, <1>2, <1>p, <2>1, <2>3, <2>4 DEF Complete
<1>11. CASE Return
  <2>1. /\ driver.at = "close" /\ driver'.at = "returned" /\ driver.todo = {}
        /\ UNCHANGED journal
    BY <1>11, <1>t, GotoSets DEF Return
  <2> QED BY <1>1, <1>2, <1>p, <1>t, <2>1 DEF Complete
<1> QED BY <1>4, <1>5, <1>6, <1>7, <1>8, <1>9, <1>10, <1>11 DEF Driver

LEMMA CompleteInductive == IInv /\ [Next]_vars => Complete'
<1> SUFFICES ASSUME IInv, [Next]_vars, faults' = 0 PROVE Complete'
  BY DEF Complete
<1>t. TypeOK /\ Complete /\ Stored /\ faults = 0
  BY FaultsStay DEF IInv
<1>1. ASSUME NEW i \in Item, WorkerStep(i) PROVE Complete'
  <2>1. \A j \in Item : journal[j] \subseteq journal'[j]
    BY <1>1, WorkerTouches DEF Local, Continues, Publishes
  <2>2. UNCHANGED <<plan, driver, up>>
    BY <1>1, WorkerTouches DEF Local
  <2>3. ASSUME up, NEW j \in Item \ {i}, store'[j] = "running" PROVE worker'[j] = "running"
    BY <1>1, <1>t, <2>3, WorkerTouches DEF Local, Complete
  <2>4. ASSUME up, store'[i] = "running" PROVE worker'[i] = "running"
    <3>1. store[i] = "running" => worker[i] = "running"
      BY <1>t, <2>4 DEF Complete
    <3>2. worker[i] # "running" => store'[i] # "running" \/ worker'[i] = "running"
      BY <1>1, <1>t, <3>1 DEF WorkerStep, Refuse, Queue, CancelWait, Admit, Start, Begin,
         CannotBegin, ChildCompletes, ChildEnds, Publish, Is, Become, End, TypeOK
    <3>3. CASE ChildCompletes(i)
      BY <1>t, <2>4, <3>3 DEF ChildCompletes, Fault, Save, TypeOK
    <3>4. CASE ChildEnds(i)
      <4>1. PICK result \in {"failed", "cancelled"} :
              /\ End(i, result)
              /\ \/ Save(i, result) /\ UNCHANGED faults
                 \/ Fault /\ UNCHANGED store
        BY <3>4, Zenon DEF ChildEnds
      <4>2. Save(i, result)
        BY <1>t, <4>1 DEF Fault
      <4> QED BY <1>t, <2>4, <4>2 DEF Save, TypeOK
    <3>5. CASE worker[i] = "running"
      BY <1>1, <3>3, <3>4, <3>5 DEF WorkerStep, Refuse, Queue, CancelWait, Admit, Start, Begin,
         CannotBegin, Publish, Is
    <3> QED BY <2>4, <3>2, <3>5
  <2> QED BY <1>t, <2>1, <2>2, <2>3, <2>4 DEF Complete
<1>2. CASE Cancel
  BY <1>2, <1>t DEF Cancel, Complete
<1>3. CASE Crash
  BY <1>3, <1>t DEF Crash, Complete
<1>4. CASE CleanupStaleRunning
  BY <1>4, <1>t DEF CleanupStaleRunning, Complete
<1>5. CASE UNCHANGED vars
  BY <1>5, <1>t DEF vars, Complete
<1> QED BY <1>1, <1>2, <1>3, <1>4, <1>5, DriverComplete DEF Next
------------------------------------------------------------------------------
(* The counters are exact, so nothing that could run is left behind. *)

LEMMA UnansweredSame ==
  ASSUME IInv, [Next]_vars, \A d \in Item : Answered(d)' <=> Answered(d)
  PROVE  \A i \in Item : Unanswered(i)' = Unanswered(i)
<1>1. plan' = plan /\ \A i \in Item : Deps(plan, i) \subseteq Item
  BY PlanStays, PlanTyped DEF IInv
<1> QED BY <1>1 DEF Unanswered, Deps

LEMMA ExactInductive == IInv /\ [Next]_vars => Exact'
<1> SUFFICES ASSUME IInv, [Next]_vars PROVE Exact'
  OBVIOUS
<1>t. TypeOK /\ Exact
  BY DEF IInv
<1>1. ASSUME UNCHANGED <<worker, outcome>>
      PROVE  \A i \in Item : Unanswered(i)' = Unanswered(i)
  BY <1>1, UnansweredSame DEF Answered
<1> USE DEF untouchedByDriver, untouchedByOpening, At
<1>2. CASE OpenRecord \/ Claim \/ OpenFails
  <2>1. UNCHANGED <<worker, outcome, waiting>>
    BY <1>2 DEF OpenRecord, Claim, OpenFails
  <2>2. /\ driver.at \in {"open", "claim"}
        /\ driver'.at \in {"open", "claim", "close"}
    BY <1>2, <1>t, GotoSets DEF OpenRecord, Claim, OpenFails, Visited
  <2> QED BY <1>1, <1>t, <2>1, <2>2 DEF Exact
<1>3. CASE Opened
  <2>1. UNCHANGED <<worker, outcome, waiting>> /\ driver.at = "open"
    BY <1>3 DEF Opened
  <2>2. driver'.at = "loop" /\ driver'.todo = {i \in Item : waiting[i] = 0}
    BY <1>3, <1>t, GotoSets DEF Opened
  <2> QED BY <1>1, <1>t, <2>1, <2>2 DEF Exact, Startable
<1>4. CASE Launch
  <2>0. PICK i \in Item : i \in driver.todo /\ i = First(driver.todo)
    BY <1>4, <1>t, FirstIsMember DEF Launch, TypeOK
  <2>1. /\ UNCHANGED <<outcome, waiting, results, cancelled>> /\ driver.at = "loop"
        /\ driver'.at = "loop" /\ driver'.todo = driver.todo \ {i}
        /\ driver'.stop = driver.stop
    BY <1>4, <1>t, <2>0, GotoSets DEF Launch, Visited
  <2>2. worker' = IF MayStart(i) THEN [worker EXCEPT ![i] = "handed"] ELSE worker
    BY <1>4, <2>0 DEF Launch
  <2>3. worker[i] = "idle"
    BY <2>0, <2>1 DEF IInv, Counted
  <2>4. \A d \in Item : Answered(d)' <=> Answered(d)
    BY <1>t, <2>1, <2>2, <2>3 DEF Answered, TypeOK
  <2>5. \A j \in Item : Unanswered(j)' = Unanswered(j)
    BY <2>4, UnansweredSame
  <2>6. ~Startable(i)'
    <3>1. CASE MayStart(i)
      BY <1>t, <2>1, <2>2, <3>1 DEF Startable, TypeOK
    <3>2. CASE ~MayStart(i)
      <4>1. (driver.stop \/ cancelled \/ results[i] # "pending") /\ UNCHANGED <<cancelled, results>>
        BY <2>1, <3>2 DEF MayStart
      <4> QED BY <2>1, <4>1 DEF Startable
    <3> QED BY <3>1, <3>2
  <2>7. ASSUME NEW j \in Item \ {i}, Startable(j)' PROVE Startable(j)
    BY <1>t, <2>1, <2>2, <2>7 DEF Startable, TypeOK
  <2>8. ASSUME NEW j \in Item, Startable(j)' PROVE j \in driver'.todo
    <3>1. j # i /\ Startable(j)
      BY <2>6, <2>7, <2>8
    <3> QED BY <1>t, <2>1, <3>1 DEF Exact
  <2>9. \A j \in Item : waiting'[j] = Cardinality(Unanswered(j)')
    BY <1>t, <2>1, <2>5 DEF Exact
  <2> QED BY <2>1, <2>8, <2>9 DEF Exact
<1>5. ASSUME NEW r \in Item, Take(r)
      PROVE  /\ worker[r] = "published" /\ worker' = [worker EXCEPT ![r] = "taken"]
             /\ UNCHANGED <<outcome, cancelled>> /\ driver.at = "loop" /\ driver.todo = {}
             /\ \A i \in Item : ~Startable(i)
  BY <1>5, <1>t, HeadIsPublished DEF Take, Exact
<1>6. ASSUME NEW r \in Item, TakeCompleted(r) PROVE Exact'
  <2>1. /\ Take(r) /\ outcome[r] = "completed" /\ doneCh # <<>> /\ r = Head(doneCh)
        /\ \A i \in Item : waiting'[i] = IF i \in Dependents(plan, r) THEN waiting[i] - 1
                                        ELSE waiting[i]
        /\ results' = [results EXCEPT ![r] = "completed"]
    BY <1>6 DEF TakeCompleted, Take
  <2>2. /\ driver'.at = "loop" /\ driver'.todo = {i \in Dependents(plan, r) : waiting[i] = 1}
        /\ driver'.stop = driver.stop
    BY <1>6, <1>t, GotoSets DEF TakeCompleted
  <2>3. \A d \in Item : Answered(d)' <=> Answered(d) \/ d = r
    BY <1>5, <1>t, <2>1 DEF Answered, TypeOK
  <2>4. \A i \in Item : Unanswered(i)' = Unanswered(i) \ {r}
    <3>1. plan' = plan /\ \A i \in Item : Deps(plan, i) \subseteq Item
      BY PlanStays, PlanTyped DEF IInv
    <3> QED BY <2>3, <3>1 DEF Unanswered, Deps
  <2>5. ASSUME NEW i \in Item PROVE waiting'[i] = Cardinality(Unanswered(i)')
    <3>1. IsFiniteSet(Unanswered(i)) /\ waiting[i] = Cardinality(Unanswered(i))
      BY <1>5, <1>t, <2>1, UnansweredFinite DEF IInv, Exact
    <3>2. r \in Unanswered(i) <=> i \in Dependents(plan, r)
      BY <2>1, AnswerWasAwaited DEF Unanswered, Dependents
    <3> QED BY <2>1, <2>4, <3>1, <3>2, FS_RemoveElement
  <2>6. ASSUME NEW i \in Item, Startable(i)' PROVE i \in driver'.todo
    <3>1. i # r /\ worker[i] = "idle" /\ results[i] = "pending"
      BY <1>5, <1>t, <2>1, <2>6 DEF Startable, TypeOK
    <3>2. waiting[i] # 0
      BY <1>5, <2>1, <2>2, <2>6, <3>1 DEF Startable
    <3>3. i \in Dependents(plan, r) /\ waiting[i] - 1 = 0
      BY <2>1, <2>6, <3>2 DEF Startable
    <3>4. waiting[i] = 1
      BY <1>t, <3>3 DEF TypeOK
    <3> QED BY <2>2, <3>3, <3>4
  <2> QED BY <2>2, <2>5, <2>6 DEF Exact
<1>7. ASSUME NEW r \in Item, TakeFailed(r) PROVE Exact'
  <2>1. /\ Take(r) /\ outcome[r] # "completed" /\ UNCHANGED waiting
        /\ driver'.at = "loop"
        /\ driver.stop => driver'.stop
        /\ results' = SkipDependents(r)
    BY <1>7, <1>t DEF TakeFailed, Take, TypeOK
  <2>2. \A d \in Item : Answered(d)' <=> Answered(d)
    BY <1>5, <1>t, <2>1 DEF Answered, TypeOK
  <2>3. \A i \in Item : Unanswered(i)' = Unanswered(i)
    BY <2>2, UnansweredSame
  <2>4. ASSUME NEW i \in Item, Startable(i)' PROVE FALSE
    <3>1. i # r /\ worker[i] = "idle" /\ ~driver.stop
      BY <1>5, <1>t, <2>1, <2>4 DEF Startable, TypeOK
    <3>2. results[i] = "pending"
      BY <2>1, <2>4, <3>1 DEF Startable, SkipDependents
    <3> QED BY <1>5, <2>1, <2>4, <3>1, <3>2 DEF Startable
  <2> QED BY <1>5, <1>t, <2>1, <2>3, <2>4 DEF Exact
<1>8. CASE LeaveLoop
  <2>1. /\ UNCHANGED <<worker, outcome, waiting, results, cancelled>> /\ driver.at = "loop"
        /\ driver.todo = {} /\ (Started = Taken \/ cancelled)
        /\ driver'.at = "wait" /\ driver'.stop = driver.stop
    BY <1>8, <1>t, GotoSets DEF LeaveLoop
  <2>2. Started' = Started /\ Taken' = Taken
    BY <2>1 DEF Started, Taken
  <2>3. \A i \in Item : Startable(i)' <=> Startable(i)
    BY <2>1 DEF Startable
  <2> QED BY <1>1, <1>t, <2>1, <2>2, <2>3 DEF Exact
<1>9. CASE Drain \/ CloseItem \/ Return
  <2>1. driver'.at \in {"close", "returned"}
    BY <1>9, <1>t, GotoSets DEF Drain, CloseItem, Return, Visited
  <2> QED BY <2>1 DEF Exact
<1>10. ASSUME NEW k \in Item, WorkerStep(k) PROVE Exact'
  <2>1. /\ UNCHANGED <<driver, waiting, results, cancelled>>
        /\ worker[k] \notin {"idle", "published", "taken"}
        /\ worker'[k] \notin {"idle", "taken"}
        /\ \A j \in Item \ {k} : worker'[j] = worker[j] /\ outcome'[j] = outcome[j]
    BY <1>10, WorkerTouches DEF Local, Continues, Publishes
  <2>2. \A d \in Item : Answered(d)' <=> Answered(d)
    BY <2>1 DEF Answered
  <2>3. \A i \in Item : Unanswered(i)' = Unanswered(i)
    BY <2>2, UnansweredSame
  <2>4. \A i \in Item : Startable(i)' <=> Startable(i)
    BY <2>1 DEF Startable
  <2>5. Started' = Started /\ Taken' = Taken
    BY <2>1 DEF Started, Taken
  <2> QED BY <1>t, <2>1, <2>3, <2>4, <2>5 DEF Exact
<1>11. CASE Cancel
  <2>1. UNCHANGED <<worker, outcome, waiting, driver>> /\ cancelled'
    BY <1>11 DEF Cancel
  <2> QED BY <1>1, <1>t, <2>1 DEF Exact, Startable
<1>12. CASE Crash \/ CleanupStaleRunning \/ UNCHANGED vars
  <2>1. UNCHANGED <<worker, outcome, waiting, driver, cancelled, results>>
    BY <1>12 DEF Crash, CleanupStaleRunning, vars
  <2> QED BY <1>1, <1>t, <2>1 DEF Exact, Startable, Started, Taken
<1> QED BY <1>2, <1>3, <1>4, <1>6, <1>7, <1>8, <1>9, <1>10, <1>11, <1>12 DEF Next, Driver
------------------------------------------------------------------------------
(* Every skipped item has a cause. *)

LEMMA TakenKeepsItsOutcome ==
  ASSUME IInv, [Next]_vars, NEW j \in Item, worker'[j] = "taken"
  PROVE  results'[j] = outcome'[j]
<1>t. TypeOK /\ Caused
  BY DEF IInv
<1>o. worker[j] = "taken" => results[j] = outcome[j] /\ outcome[j] \in Outcome
  BY <1>t DEF IInv, Stored, StoredOf, Ended, Caused, TypeOK
<1> USE DEF untouchedByDriver, untouchedByOpening, At
<1>1. CASE OpenRecord \/ Claim \/ OpenFails \/ Opened \/ LeaveLoop \/ CloseItem \/ Return
  BY <1>1, <1>o DEF OpenRecord, Claim, OpenFails, Opened, LeaveLoop, CloseItem, Return
<1>2. CASE Launch
  <2>1. worker[j] = "taken"
    BY <1>2, DriverTouches, HeadIsPublished, <1>t, FirstIsMember DEF Launch, Driver, TypeOK
  <2> QED BY <1>2, <1>o, <2>1 DEF Launch
<1>3. ASSUME NEW r \in Item, Take(r) PROVE j = r \/ worker[j] = "taken"
  BY <1>3, <1>t DEF Take, TypeOK
<1>4. ASSUME NEW r \in Item, TakeCompleted(r) PROVE results'[j] = outcome'[j]
  BY <1>3, <1>4, <1>o, <1>t DEF TakeCompleted, Take, TypeOK
<1>5. ASSUME NEW r \in Item, TakeFailed(r) PROVE results'[j] = outcome'[j]
  BY <1>3, <1>5, <1>o, <1>t DEF TakeFailed, Take, SkipDependents, Outcome
<1>6. CASE Drain
  BY <1>6 DEF Drain
<1>7. ASSUME NEW i \in Item, WorkerStep(i) PROVE results'[j] = outcome'[j]
  <2>1. i # j
    BY <1>7, WorkerTouches DEF Continues, Publishes
  <2> QED BY <1>7, <1>o, <2>1, WorkerTouches DEF Local
<1>8. CASE Cancel \/ Crash \/ CleanupStaleRunning \/ UNCHANGED vars
  BY <1>8, <1>o DEF Cancel, Crash, CleanupStaleRunning, vars
<1> QED BY <1>1, <1>2, <1>4, <1>5, <1>6, <1>7, <1>8 DEF Next, Driver

(* A cause stays one. *)
LEMMA FailuresStay ==
  ASSUME IInv, [Next]_vars, NEW f \in Item, results[f] \in {"failed", "cancelled"}
  PROVE  results'[f] = results[f]
<1>1. worker[f] = "taken"
  BY DEF IInv, Adopting
<1>2. worker'[f] = "taken" /\ outcome'[f] = outcome[f]
  <2>1. CASE Driver
    BY <1>1, <2>1, DriverTouches
  <2>2. ASSUME NEW i \in Item, WorkerStep(i) PROVE worker'[f] = "taken" /\ outcome'[f] = outcome[f]
    BY <1>1, <2>2, WorkerTouches DEF Local
  <2>3. CASE Cancel \/ Crash \/ CleanupStaleRunning \/ UNCHANGED vars
    BY <1>1, <2>3 DEF Cancel, Crash, CleanupStaleRunning, vars
  <2> QED BY <2>1, <2>2, <2>3 DEF Next
<1> QED BY <1>1, <1>2, TakenKeepsItsOutcome DEF IInv, Caused

LEMMA CausesStay ==
  ASSUME IInv, [Next]_vars, NEW i \in Item, CutForCause(i)
  PROVE  CutForCause(i)'
<1>t. TypeOK
  BY DEF IInv
<1>p. plan' = plan
  BY PlanStays
<1>1. CASE cancelled
  <2>1. cancelled' = cancelled \/ cancelled' = TRUE
    <3>1. CASE Driver
      <4>1. CASE OpenRecord \/ Claim \/ OpenFails \/ Opened \/ Launch
        BY <4>1 DEF OpenRecord, Claim, OpenFails, Opened, Launch, untouchedByDriver,
           untouchedByOpening
      <4>2. CASE LeaveLoop \/ Drain \/ CloseItem \/ Return
        BY <4>2 DEF LeaveLoop, Drain, CloseItem, Return, untouchedByDriver, untouchedByOpening
      <4>3. ASSUME NEW r \in Item, TakeCompleted(r) \/ TakeFailed(r) PROVE cancelled' = cancelled
        BY <4>3 DEF TakeCompleted, TakeFailed, Take, untouchedByDriver
      <4> QED BY <3>1, <4>1, <4>2, <4>3 DEF Driver
    <3>2. ASSUME NEW k \in Item, WorkerStep(k) PROVE cancelled' = cancelled
      BY <3>2, WorkerTouches DEF Local
    <3>3. CASE Cancel \/ Crash \/ CleanupStaleRunning \/ UNCHANGED vars
      BY <3>3 DEF Cancel, Crash, CleanupStaleRunning, vars
    <3> QED BY <3>1, <3>2, <3>3 DEF Next
  <2> QED BY <1>1, <2>1 DEF CutForCause
<1>2. CASE driver.stop
  <2>1. CASE Driver
    <3>1. CASE OpenRecord \/ Claim \/ OpenFails \/ Opened \/ Launch
      <4>1. driver'.stop = driver.stop
        BY <1>t, <3>1, GotoSets DEF OpenRecord, Claim, OpenFails, Opened, Launch, Visited
      <4> QED BY <1>2, <4>1 DEF CutForCause
    <3>2. CASE LeaveLoop \/ Drain \/ CloseItem \/ Return
      <4>1. driver'.stop = driver.stop
        BY <1>t, <3>2, GotoSets DEF LeaveLoop, Drain, CloseItem, Return, Visited
      <4> QED BY <1>2, <4>1 DEF CutForCause
    <3>3. ASSUME NEW r \in Item, TakeCompleted(r) PROVE CutForCause(i)'
      <4>1. driver'.stop = driver.stop
        BY <1>t, <3>3, GotoSets DEF TakeCompleted
      <4> QED BY <1>2, <4>1 DEF CutForCause
    <3>4. ASSUME NEW r \in Item, TakeFailed(r) PROVE CutForCause(i)'
      <4>1. driver'.stop = (driver.stop \/ plan.failFast)
        BY <1>t, <3>4 DEF TakeFailed, TypeOK
      <4> QED BY <1>2, <4>1 DEF CutForCause
    <3> QED BY <2>1, <3>1, <3>2, <3>3, <3>4 DEF Driver
  <2>2. CASE (\E k \in Item : WorkerStep(k)) \/ Cancel \/ Crash \/ CleanupStaleRunning
             \/ UNCHANGED vars
    <3>1. driver' = driver
      BY <2>2, WorkerTouches DEF Local, Cancel, Crash, CleanupStaleRunning, vars
    <3> QED BY <1>2, <3>1 DEF CutForCause
  <2> QED BY <2>1, <2>2 DEF Next
<1>3. CASE \E f \in Item : i \in Reachable(plan, f) /\ results[f] \in {"failed", "cancelled"}
  <2>1. PICK f \in Item : i \in Reachable(plan, f) /\ results[f] \in {"failed", "cancelled"}
    BY <1>3
  <2>2. results'[f] \in {"failed", "cancelled"}
    BY <2>1, FailuresStay
  <2>3. i \in Reachable(plan', f)
    BY <1>p, <2>1
  <2> QED BY <2>2, <2>3 DEF CutForCause
<1> QED BY <1>1, <1>2, <1>3 DEF CutForCause

(* When the loop is left without a cancellation, an item that is still
   pending is downstream of one that did not complete. *)
LEMMA BranchesAreCut ==
  ASSUME IInv, driver.at = "wait", NEW i \in Item, worker[i] = "idle", results[i] = "pending"
  PROVE  CutForCause(i)
<1> SUFFICES ASSUME ~cancelled, ~driver.stop PROVE CutForCause(i)
  BY DEF CutForCause
<1> DEFINE C == {j \in Item : worker[j] = "idle" /\ results[j] = "pending" /\ ~CutForCause(j)}
<1>1. /\ Started = Taken
      /\ \A j \in Item : ~Startable(j) /\ waiting[j] = Cardinality(Unanswered(j))
  BY DEF IInv, Exact
<1>2. ASSUME NEW j \in C PROVE \E d \in C : j \in Dependents(plan, d)
  <2>1. j \in Item /\ worker[j] = "idle" /\ results[j] = "pending" /\ ~CutForCause(j)
    OBVIOUS
  <2>2. Unanswered(j) # {}
    <3>1. Cardinality(Unanswered(j)) # 0
      BY <1>1, <2>1 DEF Startable
    <3> QED BY <2>1, <3>1, UnansweredFinite DEF IInv
  <2>3. PICK d \in Unanswered(j) : TRUE
    BY <2>2
  <2>4. d \in Item /\ d \notin plan.adopted /\ ~Answered(d) /\ j \in Dependents(plan, d)
    BY <2>1, <2>3, PlanTyped DEF IInv, Unanswered, Dependents
  <2>5. ~CutForCause(d)
    BY <2>1, <2>4, DependentsAreReachable DEF CutForCause
  <2>6. worker[d] # "taken"
    <3> SUFFICES ASSUME worker[d] = "taken" PROVE FALSE
      OBVIOUS
    <3>1. results[d] \in {"failed", "cancelled"}
      BY <2>4 DEF IInv, Caused, Stored, StoredOf, Ended, TypeOK, Outcome, Answered
    <3>2. j \in Reachable(plan, d)
      BY <2>1, <2>4, DependentsAreReachable
    <3> QED BY <2>1, <2>4, <3>1, <3>2 DEF CutForCause
  <2>7. worker[d] = "idle"
    BY <1>1, <2>4, <2>6 DEF Started, Taken
  <2>8. results[d] = "pending"
    BY <2>4, <2>5, <2>7 DEF IInv, Adopting, Caused
  <2> QED BY <2>4, <2>5, <2>7, <2>8
<1>3. C = {}
  <2>1. C \in SUBSET Item /\ \A j \in C : \E d \in C : j \in Dependents(plan, d)
    BY <1>2
  <2> HIDE DEF C
  <2> QED BY <2>1, SomeItemLeads DEF IInv
<1> QED BY <1>3

LEMMA CausedInductive == IInv /\ [Next]_vars => Caused'
<1> SUFFICES ASSUME IInv, [Next]_vars, NEW i \in Item, results'[i] = "skipped"
             PROVE  CutForCause(i)'
  BY TakenKeepsItsOutcome DEF Caused
<1>t. TypeOK /\ Caused
  BY DEF IInv
<1>1. CASE results[i] = "skipped"
  BY <1>1, <1>t, CausesStay DEF Caused
<1>2. CASE results[i] # "skipped"
  <2>1. Driver
    <3>1. ASSUME NEW k \in Item, WorkerStep(k) PROVE results' = results
      BY <3>1, WorkerTouches DEF Local
    <3>2. CASE Cancel \/ Crash \/ CleanupStaleRunning \/ UNCHANGED vars
      BY <1>2, <3>2 DEF Cancel, Crash, CleanupStaleRunning, vars
    <3> QED BY <1>2, <3>1, <3>2 DEF Next
  <2>2. CASE OpenRecord \/ Claim \/ OpenFails \/ Opened \/ Launch
    BY <1>2, <2>2 DEF OpenRecord, Claim, OpenFails, Opened, Launch, untouchedByOpening
  <2>3. CASE LeaveLoop \/ CloseItem \/ Return
    BY <1>2, <2>3 DEF LeaveLoop, CloseItem, Return, untouchedByOpening
  <2>4. ASSUME NEW r \in Item, TakeCompleted(r) PROVE FALSE
    BY <1>2, <1>t, <2>4 DEF TakeCompleted, TypeOK
  <2>5. ASSUME NEW r \in Item, TakeFailed(r) PROVE CutForCause(i)'
    <3>1. worker[r] = "published" /\ outcome[r] \in {"failed", "cancelled"}
      BY <2>5, HeadIsPublished DEF TakeFailed, Take, IInv, Stored, StoredOf, Ended, TypeOK, Outcome
    <3>2. i \in Reachable(plan, r) /\ results'[r] = outcome[r]
      BY <1>2, <2>5, <3>1 DEF TakeFailed, SkipDependents
    <3>3. i \in Reachable(plan', r)
      BY <3>2, PlanStays
    <3> QED BY <3>1, <3>2, <3>3 DEF CutForCause
  <2>6. CASE Drain
    <3>1. /\ driver.at = "wait" /\ UNCHANGED <<plan, cancelled>>
          /\ i \in Started => results'[i] = outcome[i]
          /\ i \notin Started => results[i] = "pending" /\ worker[i] = "idle"
      BY <1>2, <2>6 DEF Drain, At, Started, untouchedByDriver
    <3>2. outcome[i] # "skipped"
      BY <1>t DEF TypeOK, Outcome
    <3>3. CutForCause(i)
      BY <1>2, <3>1, <3>2, BranchesAreCut
    <3> QED BY <3>3, CausesStay
  <2> QED BY <2>1, <2>2, <2>3, <2>4, <2>5, <2>6 DEF Driver
<1> QED BY <1>1, <1>2

------------------------------------------------------------------------------
(* The invariant, and what follows from it. *)

LEMMA InitInvariant == Init => IInv
<1> SUFFICES ASSUME Init PROVE IInv
  OBVIOUS
<1>1. TypeOK
  BY InitTyped
<1>2. Planned
  BY DEF Init, Planned
<1>3. Adopting /\ Channelled /\ Journaled /\ Complete /\ Caused
  BY DEF Init, Adopting, Channelled, Journaled, Opening, Complete, Caused
<1>4. Stored
  BY DEF Init, Stored, StoredOf, Ended
<1>5. \A i \in Item : waiting[i] = Cardinality(Unanswered(i)) /\ Cardinality(Unanswered(i)) \in Nat
  <2> TAKE i \in Item
  <2>1. Unanswered(i) = Deps(plan, i) \ plan.adopted
    BY <1>2, PlanTyped DEF Init, Unanswered, Answered
  <2> QED BY <1>2, <2>1, UnansweredFinite DEF Init, UnresolvedDeps
<1>6. Counted /\ Exact
  BY <1>5 DEF Init, Counted, Exact
<1> QED BY <1>1, <1>2, <1>3, <1>4, <1>6 DEF IInv

LEMMA StepInvariant == IInv /\ [Next]_vars => IInv'
  BY TypeInductive, PlanInductive, AdoptingInductive, CountedInductive, ChannelledInductive,
     StoredInductive, JournaledInductive, CompleteInductive, ExactInductive, CausedInductive
     DEF IInv

LEMMA Invariance == Spec => []IInv
  BY InitInvariant, StepInvariant, PTL DEF Spec

(* The driver's table, counters, channel, journal and store stay within the
   types of the code (driveFleet). *)
THEOREM TypeCorrect == Spec => []TypeOK
<1>1. IInv => TypeOK
  BY DEF IInv
<1> QED BY <1>1, Invariance, PTL

(* No item is handed over, queued or started before every dependency was
   adopted or has its completed child in the store, in whatever order the
   results arrive (fleet_graph.go, driveFleet). *)
THEOREM RunsBehindAnswers == Spec => []StartedBehindAnswers
<1>1. ASSUME IInv PROVE StartedBehindAnswers
  <2> SUFFICES ASSUME NEW i \in Item,
                      worker[i] # "idle" \/ journal[i] \cap {"queued", "started"} # {},
                      NEW d \in Deps(plan, i), d \notin plan.adopted
               PROVE  store[d] = "completed"
    BY DEF StartedBehindAnswers
  <2>1. worker[i] # "idle"
    BY <1>1 DEF IInv, Stored, StoredOf
  <2>2. Unanswered(i) = {} /\ d \in Item
    BY <1>1, <2>1, PlanTyped DEF IInv, Counted
  <2>3. Answered(d)
    BY <2>2 DEF Unanswered
  <2> QED BY <1>1, <2>2, <2>3 DEF IInv, Stored, StoredOf, Answered
<1> QED BY <1>1, Invariance, PTL

(* Two items under way at once claim disjoint paths, or are ordered only
   through an adopted item: the preflight leaves the scheduler nothing else
   to keep apart (validateConcurrentWriteClaims). *)
THEOREM ClaimsStayApart == Spec => []ClaimsUnderWayAreDisjoint
<1>1. ASSUME IInv PROVE ClaimsUnderWayAreDisjoint
  <2>p. plan \in Plan /\ \A k \in Item : plan.claim[k] \in WritePathSet
    BY <1>1, PlanTyped DEF IInv, Plan
  <2>1. ASSUME NEW i \in UnderWay, NEW j \in UnderWay PROVE j \notin Reachable(WithoutAdopted(plan), i)
    <3> DEFINE w == WithoutAdopted(plan)
               S == {k \in Item : worker[k] = "idle" /\ k \notin plan.adopted}
    <3>1. \A k \in Item : Deps(w, k) = IF k \in plan.adopted THEN {} ELSE Deps(plan, k)
      BY <2>p DEF WithoutAdopted, Deps, Range, Plan
    <3>2. ASSUME NEW k \in Item, ~Answered(k), k \notin plan.adopted PROVE Dependents(w, k) \subseteq S
      <4> SUFFICES ASSUME NEW m \in Dependents(w, k) PROVE m \in S
        OBVIOUS
      <4>1. m \in Item /\ k \in Deps(w, m)
        BY DEF Dependents
      <4>2. m \notin plan.adopted /\ k \in Deps(plan, m)
        BY <3>1, <4>1
      <4>3. k \in Unanswered(m)
        BY <3>2, <4>2 DEF Unanswered
      <4>4. worker[m] = "idle"
        BY <1>1, <4>1, <4>3 DEF IInv, Counted
      <4> QED BY <4>1, <4>2, <4>4
    <3> HIDE DEF w
    <3>3. Dependents(w, i) \subseteq S
      BY <1>1, <3>2 DEF UnderWay, Answered, IInv, Adopting
    <3>4. \A k \in S : Dependents(w, k) \subseteq S
      BY <3>2 DEF Answered
    <3>5. j \notin S /\ S \in SUBSET Item
      BY DEF UnderWay
    <3>6. j \notin Reachable(w, i)
      BY <3>3, <3>4, <3>5 DEF Reachable
    <3> QED BY <3>6 DEF w
  <2> SUFFICES ASSUME NEW i \in UnderWay, NEW j \in UnderWay, i # j,
                      Overlaps(plan.claim[i], plan.claim[j])
               PROVE  Ordered(plan, i, j) /\ ~Ordered(WithoutAdopted(plan), i, j)
    BY DEF ClaimsUnderWayAreDisjoint
  <2>2. i \in Item /\ j \in Item /\ (i < j \/ j < i)
    BY ItemAssumption DEF UnderWay
  <2>3. Overlaps(plan.claim[j], plan.claim[i])
    BY <2>p, <2>2, OverlapsSymmetric
  <2>4. Ordered(plan, i, j)
    BY <1>1, <2>2, <2>3 DEF IInv, Planned, Preflight, ValidateConcurrentWriteClaims, Ordered
  <2> QED BY <2>1, <2>4 DEF Ordered
<1> QED BY <1>1, Invariance, PTL

(* What the call reports of every item is what became of it, and a branch is
   skipped only for a cancellation, a fail-fast stop or a failure upstream
   (driveFleet, closeFanOut). *)
THEOREM ReportsAreTrue == Spec => []ReportIsTrue
<1>1. ASSUME IInv PROVE ReportIsTrue
  <2> SUFFICES ASSUME driver.at \in {"close", "returned"}, ~NothingStarted, NEW i \in Item
               PROVE  /\ results[i] # "pending"
                      /\ results[i] = "adopted" <=> i \in plan.adopted
                      /\ results[i] = "completed" <=> store[i] = "completed"
                      /\ results[i] \in Outcome <=> i \in Started
                      /\ results[i] = "skipped" => CutForCause(i)
    BY DEF ReportIsTrue
  <2>1. /\ worker[i] \in {"idle", "taken"}
        /\ worker[i] = "taken" => results[i] = outcome[i]
        /\ worker[i] = "idle" => results[i] \in {"skipped", "adopted"}
    BY <1>1 DEF IInv, Journaled, Closing
  <2>2. StoredOf(i) /\ outcome[i] \in Outcome \cup {"none"}
    BY <1>1 DEF IInv, Stored, TypeOK
  <2>3. /\ results[i] = "adopted" <=> i \in plan.adopted
        /\ results[i] = "skipped" => CutForCause(i)
    BY <1>1 DEF IInv, Adopting, Caused
  <2>4. CASE worker[i] = "taken"
    BY <2>1, <2>2, <2>3, <2>4 DEF StoredOf, Ended, Outcome, Started
  <2>5. CASE worker[i] = "idle"
    BY <2>1, <2>2, <2>3, <2>5 DEF StoredOf, Ended, Outcome, Started
  <2> QED BY <2>1, <2>4, <2>5
<1> QED BY <1>1, Invariance, PTL

(* A live process never finds an item of its own under way interrupted; the
   next one finds every child that was acting, and none that did not act
   among those it may run again (execjournal.Interrupted). *)
THEOREM InterruptionsAreTrue == Spec => []InterruptionIsTrue
<1>1. ASSUME IInv PROVE InterruptionIsTrue
  <2>1. ASSUME up, NEW i \in UnderWay PROVE i \notin Interrupted
    <3>1. i \in Item /\ worker[i] \notin {"idle", "published", "taken"}
      BY DEF UnderWay
    <3>2. Held(i)
      BY <1>1, <3>1, UnderWayIsHeld
    <3> QED BY <2>1, <3>2 DEF Held, Interrupted
  <2>2. ASSUME ~up, NEW i \in Item, worker[i] = "running"
        PROVE  i \in Interrupted /\ "started" \in journal[i]
    <3>1. ~Closed(i)
      BY <1>1, <2>2, UnderWayIsHeld
    <3>2. owned = {}
      BY <1>1, <2>2 DEF IInv, Journaled
    <3> QED BY <1>1, <2>2, <3>1, <3>2 DEF Interrupted, IInv, Stored, StoredOf
  <2>3. \A i \in Item : "started" \notin journal[i] => store[i] = "none"
    BY <1>1 DEF IInv, Stored, StoredOf
  <2> QED BY <2>1, <2>2, <2>3 DEF InterruptionIsTrue
<1> QED BY <1>1, Invariance, PTL

(* The picture rebuilt from journal and store agrees with the report
   (execgraph, resolveState). *)
THEOREM RedrawsAreTrue == Spec => []RedrawIsTrue
<1>1. ASSUME IInv PROVE RedrawIsTrue
  <2> SUFFICES ASSUME up PROVE RedrawIsTrue
    BY DEF RedrawIsTrue
  <2>1. ASSUME NEW i \in Item, worker[i] = "running" PROVE ResolveState(i) = "running"
    <3>1. i \notin plan.adopted /\ Held(i)
      BY <1>1, <2>1, UnderWayIsHeld
    <3>2. StoredOf(i)
      BY <1>1 DEF IInv, Stored
    <3>3. store[i] \notin Outcome /\ "started" \in journal[i]
      BY <2>1, <3>2 DEF StoredOf, Ended, Outcome
    <3>4. i \notin Interrupted
      BY <3>1 DEF Held, Interrupted
    <3> QED BY <3>1, <3>3, <3>4 DEF Held, ResolveState, Lifecycle
  <2> SUFFICES ASSUME driver.at = "returned", ~NothingStarted
               PROVE  /\ faults = 0 => \A i \in Item \ plan.adopted : Kept(i)
                      /\ \A i \in Item : Kept(i) \/ i \in plan.adopted =>
                           \/ ResolveState(i) = results[i]
                           \/ results[i] = "failed" /\ store[i] = "none"
    BY <2>1 DEF RedrawIsTrue
  <2>2. /\ driver.todo = {} /\ Closing
        /\ \A i \in Item : StoredOf(i)
    BY <1>1 DEF IInv, Journaled, Stored
  <2>3. faults = 0 => \A i \in Item \ plan.adopted : Kept(i)
    <3> SUFFICES ASSUME faults = 0, NEW i \in Item \ plan.adopted PROVE Kept(i)
      OBVIOUS
    <3>1. "settled" \in journal[i]
      BY <1>1, <2>2 DEF IInv, Complete
    <3>2. store[i] # "running"
      BY <1>1, <2>2 DEF IInv, Complete, Closing
    <3> QED BY <3>1, <3>2 DEF Kept
  <2>4. ASSUME NEW i \in Item, Kept(i) \/ i \in plan.adopted
        PROVE  \/ ResolveState(i) = results[i]
               \/ results[i] = "failed" /\ store[i] = "none"
    <3>a. results[i] = "adopted" <=> i \in plan.adopted
      BY <1>1 DEF IInv, Adopting
    <3>1. CASE i \in plan.adopted
      BY <3>a, <3>1 DEF ResolveState
    <3>2. CASE i \notin plan.adopted
      <4>1. Kept(i) /\ i \notin Interrupted /\ "settled" \in journal[i] /\ store[i] # "running"
        BY <2>4, <3>2 DEF Kept, Interrupted, Closed
      <4>2. /\ StoredOf(i)
            /\ store[i] \in Outcome \cup {"none"}
            /\ outcome[i] \in Outcome \cup {"none"}
        BY <1>1, <2>2, <4>1 DEF IInv, TypeOK, StoredOf
      <4>3. CASE worker[i] = "taken"
        <5>1. results[i] = outcome[i] /\ outcome[i] \in Outcome
          BY <2>2, <4>2, <4>3 DEF Closing, StoredOf, Ended
        <5>2. CASE store[i] \in Outcome
          <6>1. ResolveState(i) = store[i]
            BY <3>2, <5>2 DEF ResolveState
          <6> QED BY <4>2, <5>1, <5>2, <6>1 DEF StoredOf, Outcome
        <5>3. CASE store[i] = "none"
          <6>1. outcome[i] \in {"failed", "cancelled"}
            BY <4>2, <5>1, <5>3 DEF StoredOf, Outcome
          <6>2. outcome[i] = "cancelled" => "queued" \in journal[i]
            BY <4>2, <5>3 DEF StoredOf
          <6>3. "queued" \in journal[i] => ResolveState(i) = "cancelled"
            BY <3>2, <4>1, <5>3 DEF ResolveState, Lifecycle, Outcome
          <6> QED BY <5>1, <5>3, <6>1, <6>2, <6>3
        <5> QED BY <4>2, <5>2, <5>3
      <4>4. CASE worker[i] = "idle"
        <5>1. results[i] = "skipped"
          BY <2>2, <3>2, <3>a, <4>4 DEF Closing
        <5>2. store[i] = "none" /\ "queued" \notin journal[i]
          BY <4>2, <4>4 DEF StoredOf, Ended
        <5> QED BY <3>2, <4>1, <5>1, <5>2 DEF ResolveState, Lifecycle, Outcome
      <4> QED BY <2>2, <4>3, <4>4 DEF Closing
    <3> QED BY <3>1, <3>2
  <2> QED BY <2>3, <2>4
<1> QED BY <1>1, Invariance, PTL
==============================================================================
