-------------------------- MODULE SubagentScheduler --------------------------
(***************************************************************************)
(* The session-scoped concurrency controller of sub-agent runs             *)
(* (kernel/internal/runtime/writeclaim/scheduler.go) with its callers      *)
(* (runtime/delegation/slot.go) and the parent's write reservations.       *)
(*                                                                         *)
(* A member of Run is one call of Acquire: its request is Req[r], and       *)
(* Parent[r] is the run inside which it was issued (NoRun at depth zero).  *)
(* A member of Write is one write-tool execution that calls ReserveWrite.  *)
(* Every action that takes s.mu is one step; the select, the OnQueued      *)
(* callback and the look at w.ready after an abandoned wait are steps of   *)
(* their own, because the scheduler may pump between them.                 *)
(***************************************************************************)
EXTENDS WritePaths, FiniteSets

CONSTANTS
  Run,          \* calls of Acquire
  Write,        \* calls of ReserveWrite
  Req,          \* Req[r]: the AcquireRequest of r
  WriteClaim,   \* WriteClaim[w]: the paths w reserves
  Parent,       \* Parent[r]: the run that issued r, or NoRun
  NoRun,
  ConfTotal, ConfWriters   \* the configured limits, before normalization

AcquireRequest == [writer : BOOLEAN, claim : WritePathSet, nested : BOOLEAN, priority : Int]

ASSUME RunAssumption == IsFiniteSet(Run) /\ NoRun \notin Run
ASSUME ReqAssumption ==
  /\ Req \in [Run -> AcquireRequest]
  /\ \A r \in Run : WellFormed(Req[r].claim)
ASSUME WriteAssumption ==
  /\ WriteClaim \in [Write -> WritePathSet]
  /\ \A w \in Write : WellFormed(WriteClaim[w])
ASSUME ParentAssumption == Parent \in [Run -> Run \cup {NoRun}]
(* Every caller sets Nested from SubagentDepth(ctx) > 0. *)
ASSUME NestedAssumption == \A r \in Run : Req[r].nested <=> Parent[r] # NoRun
ASSUME LimitAssumption == ConfTotal \in Int /\ ConfWriters \in Int

Limits == NormalizeConcurrencyLimits(ConfTotal, ConfWriters)

VARIABLES
  sched,    \* activeTotal, activeWriters, activeClaims, parentClaims
  waiters,  \* the queued runs
  behind,   \* behind[r]: the waiters that were queued before r
  ready,    \* the runs whose ready channel is closed
  pc,       \* where each Acquire call and its holder stand
  wpc       \* where each ReserveWrite call and its holder stand

vars == <<sched, waiters, behind, ready, pc, wpc>>

Writers(R) == {r \in R : Req[r].writer}

(* The claims that activating the runs of R appends to activeClaims. *)
Claims(R) == {Req[r].claim : r \in {q \in Writers(R) : ~Empty(Req[q].claim)}}

------------------------------------------------------------------------------
(* The scheduler's critical sections, on a value s of sched. *)

(* Two plausible bugs in CanStart: an off-by-one in the limits, and the
   parent's reservations forgotten. *)
CanStartAtLimit(s, r) ==
  /\ s.activeTotal <= Limits.total
  /\ Req[r].writer =>
       /\ s.activeWriters <= Limits.writers
       /\ \A c \in s.activeClaims \cup s.parentClaims : ~Overlaps(c, Req[r].claim)

CanStartBesideParent(s, r) ==
  /\ s.activeTotal < Limits.total
  /\ Req[r].writer =>
       /\ s.activeWriters < Limits.writers
       /\ \A c \in s.activeClaims : ~Overlaps(c, Req[r].claim)

CanStart(s, r) ==
  /\ s.activeTotal < Limits.total
  /\ Req[r].writer =>
       /\ s.activeWriters < Limits.writers
       /\ \A c \in s.activeClaims \cup s.parentClaims : ~Overlaps(c, Req[r].claim)

(* activateLocked, for each run of R in turn. *)
Activate(s, R) ==
  [activeTotal   |-> s.activeTotal + Cardinality(R),
   activeWriters |-> s.activeWriters + Cardinality(Writers(R)),
   activeClaims  |-> s.activeClaims \cup Claims(R),
   parentClaims  |-> s.parentClaims]

Decrement(n) == IF n > 0 THEN n - 1 ELSE n

Deactivate(s, r) ==
  [activeTotal   |-> Decrement(s.activeTotal),
   activeWriters |-> IF Req[r].writer THEN Decrement(s.activeWriters) ELSE s.activeWriters,
   activeClaims  |-> s.activeClaims \ Claims({r}),
   parentClaims  |-> s.parentClaims]

(* The order pumpWaitersLocked visits the waiters in: heaviest first, then
   arrival order, which the stable in-place sort never disturbs. *)
Precedes(a, b) ==
  \/ Req[a].priority > Req[b].priority
  \/ Req[a].priority = Req[b].priority /\ a \in behind[b]

Dequeue(R) ==
  /\ waiters' = waiters \ R
  /\ behind' = [r \in Run |-> IF r \in R THEN {} ELSE behind[r] \ R]

(* A plausible bug in PumpGrants: the waiters are visited in any order. *)
PumpAnyOrder(s, G) ==
  \A r \in waiters : r \in G <=> CanStart(Activate(s, G \ {r}), r)

(* One pass over the waiters grants exactly those that can start after the
   earlier grants of the same pass; nothing waits behind a blocked head. *)
PumpGrants(s, G) ==
  \A r \in waiters :
    r \in G <=> CanStart(Activate(s, {g \in G : Precedes(g, r)}), r)

PumpWaiters(s) ==
  \E G \in SUBSET waiters :
    /\ PumpGrants(s, G)
    /\ sched' = Activate(s, G)
    /\ ready' = ready \cup G
    /\ Dequeue(G)

------------------------------------------------------------------------------
TypeOK ==
  /\ sched \in [activeTotal : Nat, activeWriters : Nat,
                activeClaims : SUBSET WritePathSet, parentClaims : SUBSET WritePathSet]
  /\ waiters \subseteq Run
  /\ behind \in [Run -> SUBSET Run]
  /\ ready \subseteq Run
  /\ pc \in [Run -> {"idle", "reporting", "waiting", "withdrawing",
                     "starting", "running", "finished", "failed"}]
  /\ wpc \in [Write -> {"idle", "writing", "finished", "failed"}]

Init ==
  /\ sched = [activeTotal |-> 0, activeWriters |-> 0, activeClaims |-> {}, parentClaims |-> {}]
  /\ waiters = {}
  /\ behind = [r \in Run |-> {}]
  /\ ready = {}
  /\ pc = [r \in Run |-> "idle"]
  /\ wpc = [w \in Write |-> "idle"]

Goto(r, from, to) == pc[r] = from /\ pc' = [pc EXCEPT ![r] = to]

(* A call is issued by the session, or by a tool call of its running parent. *)
Issued(r) == Parent[r] = NoRun \/ (Parent[r] \in Run /\ pc[Parent[r]] = "running")

AcquireNow(r) ==
  /\ Issued(r) /\ CanStart(sched, r)
  /\ Goto(r, "idle", "starting")
  /\ sched' = Activate(sched, {r})
  /\ UNCHANGED <<waiters, behind, ready, wpc>>

AcquireFailFast(r) ==
  /\ Issued(r) /\ ~CanStart(sched, r) /\ Req[r].nested
  /\ Goto(r, "idle", "failed")
  /\ UNCHANGED <<sched, waiters, behind, ready, wpc>>

(* A plausible bug in AcquireQueue: a nested call queues, too. *)
QueueNested(r) ==
  /\ Issued(r) /\ ~CanStart(sched, r)
  /\ Goto(r, "idle", "reporting")
  /\ waiters' = waiters \cup {r}
  /\ behind' = [behind EXCEPT ![r] = waiters]
  /\ UNCHANGED <<sched, ready, wpc>>

AcquireQueue(r) ==
  /\ Issued(r) /\ ~CanStart(sched, r) /\ ~Req[r].nested
  /\ Goto(r, "idle", "reporting")
  /\ waiters' = waiters \cup {r}
  /\ behind' = [behind EXCEPT ![r] = waiters]
  /\ UNCHANGED <<sched, ready, wpc>>

(* OnQueued runs after the unlock, and may refuse the wait. *)
ReportQueued(r) ==
  /\ Goto(r, "reporting", "waiting")
  /\ UNCHANGED <<sched, waiters, behind, ready, wpc>>

(* removeWaiterLocked, from abandonWaiter or from the ctx.Done branch: the run
   leaves the queue, if a pump has not taken it out already. *)
Withdraw(r, from) ==
  /\ Goto(r, from, "withdrawing")
  /\ Dequeue({r})
  /\ UNCHANGED <<sched, ready, wpc>>

AbandonQueued(r) == Withdraw(r, "reporting")
CancelWait(r) == Withdraw(r, "waiting")

(* A granted slot that nobody will use is handed back; a failed wait ends. *)
ReturnGrant(r) ==
  /\ r \in ready
  /\ Goto(r, "withdrawing", "failed")
  /\ PumpWaiters(Deactivate(sched, r))
  /\ UNCHANGED wpc

(* A plausible bug in EndWithdrawal: the ready channel is not looked at again. *)
ForgetGrant(r) ==
  Goto(r, "withdrawing", "failed") /\ UNCHANGED <<sched, waiters, behind, ready, wpc>>

EndWithdrawal(r) ==
  /\ r \notin ready
  /\ Goto(r, "withdrawing", "failed")
  /\ UNCHANGED <<sched, waiters, behind, ready, wpc>>

TakeGrant(r) ==
  /\ r \in ready
  /\ Goto(r, "waiting", "starting")
  /\ UNCHANGED <<sched, waiters, behind, ready, wpc>>

(* acquireSlot: OnStart records the start, or refuses it and the slot goes
   straight back. *)
Start(r) ==
  /\ Goto(r, "starting", "running")
  /\ UNCHANGED <<sched, waiters, behind, ready, wpc>>

RefuseStart(r) ==
  /\ Goto(r, "starting", "failed")
  /\ PumpWaiters(Deactivate(sched, r))
  /\ UNCHANGED wpc

(* A run ends when the calls it issued have returned. *)
Release(r) ==
  /\ \A c \in Run : Parent[c] = r => pc[c] \in {"idle", "finished", "failed"}
  /\ Goto(r, "running", "finished")
  /\ PumpWaiters(Deactivate(sched, r))
  /\ UNCHANGED wpc

Conflict(claim) ==
  /\ ~Empty(claim)
  /\ \E c \in sched.activeClaims \cup sched.parentClaims : Overlaps(c, claim)

ReserveWrite(w) ==
  /\ wpc[w] = "idle"
  /\ IF Conflict(WriteClaim[w])
     THEN /\ wpc' = [wpc EXCEPT ![w] = "failed"]
          /\ UNCHANGED sched
     ELSE /\ wpc' = [wpc EXCEPT ![w] = "writing"]
          /\ sched' = IF Empty(WriteClaim[w]) THEN sched
                      ELSE [sched EXCEPT !.parentClaims = @ \cup {WriteClaim[w]}]
  /\ UNCHANGED <<waiters, behind, ready, pc>>

(* A plausible bug in ReleaseWrite: nobody pumps. *)
ReleaseWriteQuietly(w) ==
  /\ wpc[w] = "writing"
  /\ wpc' = [wpc EXCEPT ![w] = "finished"]
  /\ sched' = [sched EXCEPT !.parentClaims = @ \ {WriteClaim[w]}]
  /\ UNCHANGED <<waiters, behind, ready, pc>>

ReleaseWrite(w) ==
  /\ wpc[w] = "writing"
  /\ wpc' = [wpc EXCEPT ![w] = "finished"]
  /\ IF Empty(WriteClaim[w])
     THEN UNCHANGED <<sched, waiters, behind, ready>>
     ELSE PumpWaiters([sched EXCEPT !.parentClaims = @ \ {WriteClaim[w]}])
  /\ UNCHANGED pc

RunStep(r) ==
  \/ AcquireNow(r) \/ AcquireFailFast(r) \/ AcquireQueue(r)
  \/ ReportQueued(r) \/ AbandonQueued(r) \/ CancelWait(r)
  \/ ReturnGrant(r) \/ EndWithdrawal(r) \/ TakeGrant(r)
  \/ Start(r) \/ RefuseStart(r) \/ Release(r)

Next ==
  \/ \E r \in Run : RunStep(r)
  \/ \E w \in Write : ReserveWrite(w) \/ ReleaseWrite(w)

Spec == Init /\ [][Next]_vars

(* A call that has been issued keeps executing and a run or a write that
   started ends; nothing makes a session issue a call or cancel one. *)
Fairness ==
  /\ \A r \in Run :
       /\ WF_vars(ReportQueued(r) \/ AbandonQueued(r))
       /\ WF_vars(TakeGrant(r))
       /\ WF_vars(ReturnGrant(r) \/ EndWithdrawal(r))
       /\ WF_vars(Start(r) \/ RefuseStart(r))
       /\ WF_vars(Release(r))
  /\ \A w \in Write : WF_vars(ReleaseWrite(w))

FairSpec == Spec /\ Fairness

------------------------------------------------------------------------------
(* Who occupies a slot: the runs that were told so, and those whose ready
   channel was closed while they were still reporting, waiting or leaving. *)
Holders ==
  {r \in Run : \/ pc[r] \in {"starting", "running"}
               \/ r \in ready /\ pc[r] \in {"reporting", "waiting", "withdrawing"}}

Writing == {w \in Write : wpc[w] = "writing"}

(* The queue holds exactly the calls that still wait for a grant, in one
   arrival order (the waiter slice and the ready channels agree). *)
QueueMatchesCalls ==
  /\ waiters = {r \in Run : pc[r] \in {"reporting", "waiting"} /\ r \notin ready}
  /\ \A r \in Run : behind[r] \subseteq waiters \ {r}
  /\ \A r \in Run : behind[r] # {} => r \in waiters
  /\ \A a, b \in waiters : a # b => (a \in behind[b] <=> b \notin behind[a])
  /\ \A a, b \in waiters : a \in behind[b] => behind[a] \subseteq behind[b]

(* The counters and claim lists are those of the current holders: no slot is
   lost when a wait is cancelled while it is being granted, none is handed
   back twice, and no claim outlives its holder (makeRelease, abandonWaiter and
   the ctx.Done branch of Acquire). *)
SlotsMatchHolders ==
  /\ sched.activeTotal = Cardinality(Holders)
  /\ sched.activeWriters = Cardinality(Writers(Holders))
  /\ sched.activeClaims = Claims(Holders)
  /\ sched.parentClaims = {WriteClaim[w] : w \in {v \in Writing : ~Empty(WriteClaim[v])}}

(* Never more sub-agents than configured, nor than the process allows, and
   never more writers; a limit that is not positive stands for its default
   (NormalizeConcurrencyLimits, canStartLocked). *)
LimitsRespected ==
  /\ Cardinality(Holders) <= MaxSubagentConcurrencyLimit
  /\ Cardinality(Holders) <= IF ConfTotal > 0 THEN ConfTotal ELSE DefaultMaxSubagentConcurrency
  /\ Cardinality(Writers(Holders)) <= IF ConfWriters > 0 THEN ConfWriters ELSE DefaultMaxParallelWriters

(* "never lets two writers hold overlapping claims" (doc.go): sub-agent
   writers against each other, and both against the parent's write calls. *)
ExclusiveClaims ==
  /\ \A a, b \in Writers(Holders) : a # b => ~Overlaps(Req[a].claim, Req[b].claim)
  /\ \A v, w \in Writing : v # w => ~Overlaps(WriteClaim[v], WriteClaim[w])
  /\ \A r \in Writers(Holders), w \in Writing : ~Overlaps(Req[r].claim, WriteClaim[w])

(* No lost wakeup: whenever the lock is free, nobody queued could start. *)
NoLostWakeup == \A r \in waiters : ~CanStart(sched, r)

(* While a waits, a run asking for the same thing gets a slot only from the
   queue and only if it precedes a: neither a later arrival nor a call that
   never queued overtakes it. *)
SameDemand(a, b) == Req[a].writer = Req[b].writer /\ Req[a].claim = Req[b].claim

NoOvertaking ==
  [][\A a \in waiters \cap waiters', b \in Holders' \ Holders :
       SameDemand(a, b) => b \in waiters /\ Precedes(b, a)]_vars

(* Every call that was queued returns to its caller, and every slot handed
   out comes back: no wait of one run on another, the parent that runs a
   nested call included, is circular. *)
EveryCallSettles ==
  \A r \in Run : pc[r] # "idle" ~> pc[r] \in {"finished", "failed"}
==============================================================================
