------------------------ MODULE InboxDispatchProofs ------------------------
(***************************************************************************)
(* Proofs about InboxDispatch, for every set of items and every set of     *)
(* verbs.  TypeInv and Locks are inductive for all of them: TypeCorrect    *)
(* and TurnsExclude.  GParts, which accounts for every item in flight, is  *)
(* inductive for a guarded session, and the five other safety invariants   *)
(* follow from it.                                                         *)
(***************************************************************************)
EXTENDS InboxDispatch, TLAPS

USE ItemAssumption, BoundAssumption

\* The values of each component: TypeOK, split so that an action disturbs one part.
DispPC == {"off", "top", "look", "submit", "claim", "admit", "requeue", "start"}
DispSet == [pc : DispPC, item : Item \cup {NoItem}, pending : BOOLEAN,
            attempts : 0..MaxAttempts, timer : BOOLEAN]
SteerSet == [pc : {"idle", "wants", "accept", "admit", "reject", "convert"}, item : Item \cup {NoItem}]
CallerSet == [pc : {"idle", "enqueued", "pausing", "dropping", "withdrawing",
                    "stopping", "discarding", "resuming"},
              items : SUBSET Item, was : BOOLEAN]
TurnPC == {"none", "claiming", "run", "done", "acking", "spoiling", "close", "drain", "next"}
TurnSet == [pc : TurnPC, mine : Item \cup {NoItem}, ids : SUBSET Item,
            left : SUBSET Item, failed : BOOLEAN]
ExecSet == [intake : BOOLEAN, queue : SUBSET Item, taken : Item \cup {NoItem},
            flush : SUBSET Item, unread : Item \cup {NoItem}]

DurableOK == /\ item \in [Item -> Present \cup Gone \cup {"absent"}]
             /\ intent \in [Item -> {"followup", "steer"}]
             /\ paused \in BOOLEAN
             /\ told \in [Item -> Nat]
GatesOK == gate \in {"open", "running", "finishing", "rotating"} /\ parked \in 0..MaxParked
OwnedOK == active \subseteq Item /\ admitting \subseteq Item
DispOK == /\ disp \in DispSet
          /\ disp.pc \in {"submit", "claim", "admit", "requeue", "start"} => disp.item \in Item
SteerOK == steer \in SteerSet /\ (steer.pc # "idle" => steer.item \in Item)
CallerOK == caller \in CallerSet
TurnOK == /\ turn \in [Turn -> TurnSet]
          /\ turn["sync"].pc \in {"next", "claiming"} => turn["sync"].mine \in Item
ExecOK == exec \in ExecSet

TypeInv == DurableOK /\ GatesOK /\ OwnedOK /\ DispOK /\ SteerOK /\ CallerOK /\ TurnOK /\ ExecOK

\* The parts together are TypeOK.
LEMMA TypeInvOK == TypeInv => TypeOK
BY DEF TypeInv, TypeOK, DurableOK, GatesOK, OwnedOK, DispOK, SteerOK, CallerOK, TurnOK,
       ExecOK, DispSet, DispPC, SteerSet, CallerSet, TurnSet, TurnPC, ExecSet

\* A part whose variables do not change still holds.
LEMMA Unchanged ==
  /\ DurableOK /\ UNCHANGED <<item, intent, paused, told>> => DurableOK'
  /\ GatesOK /\ UNCHANGED <<gate, parked>> => GatesOK'
  /\ OwnedOK /\ UNCHANGED <<active, admitting>> => OwnedOK'
  /\ DispOK /\ disp' = disp => DispOK'
  /\ SteerOK /\ steer' = steer => SteerOK'
  /\ CallerOK /\ caller' = caller => CallerOK'
  /\ TurnOK /\ turn' = turn => TurnOK'
  /\ ExecOK /\ exec' = exec => ExecOK'
BY DEF DurableOK, GatesOK, OwnedOK, DispOK, SteerOK, CallerOK, TurnOK, ExecOK

\* The store writes a state or leaves it.
LEMMA SetStateType ==
  ASSUME DurableOK, NEW S, NEW state \in Present \cup Gone, SetState(S, state)
  PROVE  item' \in [Item -> Present \cup Gone \cup {"absent"}]
BY DEF DurableOK, SetState

\* What the dispatcher becomes by an assignment to its fields.
LEMMA DispFields ==
  ASSUME NEW d \in DispSet
  PROVE  /\ \A p \in DispPC, i \in Item \cup {NoItem} :
              /\ [d EXCEPT !.pc = p, !.item = i] \in DispSet
              /\ [d EXCEPT !.pc = p, !.item = i].pc = p
              /\ [d EXCEPT !.pc = p, !.item = i].item = i
         /\ \A n \in 0..MaxAttempts :
              [d EXCEPT !.attempts = n] \in DispSet /\ [d EXCEPT !.attempts = n].pc = d.pc
         /\ \A b \in BOOLEAN :
              [d EXCEPT !.timer = b] \in DispSet /\ [d EXCEPT !.timer = b].pc = d.pc
         /\ \A b \in BOOLEAN, p \in DispPC :
              /\ [d EXCEPT !.pending = b, !.pc = p] \in DispSet
              /\ [d EXCEPT !.pending = b, !.pc = p].pc = p
              /\ [d EXCEPT !.pending = b, !.pc = p].item = d.item
BY DEF DispSet

\* A settled pass is a dispatcher at the top of its loop.
LEMMA DispSettled == ASSUME disp \in DispSet PROVE Settled \in DispSet /\ Settled.pc = "top"
<1>1. [disp EXCEPT !.pc = "top", !.item = NoItem] \in DispSet
  BY DispFields DEF DispPC
<1>2. 0 \in 0..MaxAttempts
  BY DEF MaxAttempts
<1>3. [[disp EXCEPT !.pc = "top", !.item = NoItem] EXCEPT !.attempts = 0] \in DispSet
  BY <1>1, <1>2, DispFields
<1>4. Settled.pc = "top"
  BY DEF Settled, DispSet
<1> QED BY <1>3, <1>4 DEF Settled

\* So is one that failed: its attempts stay within the limit.
LEMMA DispRetried == ASSUME disp \in DispSet PROVE Retried \in DispSet /\ Retried.pc = "top"
<1> DEFINE d == [disp EXCEPT !.pc = "top", !.item = NoItem]
<1>b. d \in DispSet
  BY DispFields DEF DispPC
<1>a. d.attempts = disp.attempts /\ d.pc = "top"
  BY DEF DispSet
<1>1. d \in DispSet /\ d.pc = "top"
  BY <1>a, <1>b
<1>2. CASE disp.timer \/ disp.attempts >= MaxAttempts
  BY <1>1, <1>2 DEF Retried
<1>3. CASE ~(disp.timer \/ disp.attempts >= MaxAttempts)
  <2> DEFINE e == [d EXCEPT !.attempts = @ + 1]
  <2>1. d.attempts + 1 \in 0..MaxAttempts
    BY <1>1, <1>a, <1>3 DEF DispSet, MaxAttempts
  <2>2. e \in DispSet /\ e.pc = "top"
    BY <1>1, <2>1, DispFields
  <2>3. [e EXCEPT !.timer = TRUE] \in DispSet /\ [e EXCEPT !.timer = TRUE].pc = "top"
    BY <2>2, DispFields
  <2> QED BY <1>3, <2>3 DEF Retried
<1> QED BY <1>2, <1>3

\* A kick starts the loop or marks it pending, and its item stays.
LEMMA KickType ==
  ASSUME DispOK, Kick
  PROVE  DispOK' /\ disp'.item = disp.item /\ disp'.pc = IF disp.pc = "off" THEN "top" ELSE disp.pc
<1>1. disp' \in DispSet /\ disp'.item = disp.item /\ disp'.pc = IF disp.pc = "off" THEN "top" ELSE disp.pc
  <2>1. disp \in DispSet /\ disp.pc \in DispPC
    BY DEF DispOK, DispSet
  <2>2. (IF disp.pc = "off" THEN "top" ELSE disp.pc) \in DispPC
    BY <2>1 DEF DispPC
  <2> QED BY <2>1, <2>2, DispFields DEF Kick
<1> QED BY <1>1 DEF DispOK

\* The turns that the actions assign.
LEMMA TurnForms ==
  /\ IdleTurn \in TurnSet /\ IdleTurn.pc = "none" /\ IdleTurn.mine = NoItem
  /\ \A p \in TurnPC : /\ [IdleTurn EXCEPT !.pc = p] \in TurnSet
                       /\ [IdleTurn EXCEPT !.pc = p].pc = p
                       /\ [IdleTurn EXCEPT !.pc = p].mine = NoItem
  /\ \A i \in Item \cup {NoItem} : /\ Running(i) \in TurnSet
                                  /\ Running(i).pc = "run" /\ Running(i).mine = i
  /\ \A i \in Item : /\ [IdleTurn EXCEPT !.pc = "next", !.mine = i] \in TurnSet
                     /\ [IdleTurn EXCEPT !.pc = "next", !.mine = i].pc = "next"
                     /\ [IdleTurn EXCEPT !.pc = "next", !.mine = i].mine = i
BY DEF IdleTurn, TurnSet, TurnPC, Running

\* One turn at a time.
LEMMA TurnUpdate ==
  ASSUME TurnOK, NEW t \in Turn, NEW r \in TurnSet,
         r.pc \in {"next", "claiming"} => r.mine \in Item,
         turn' = [turn EXCEPT ![t] = r]
  PROVE  TurnOK'
BY DEF TurnOK, Turn

\* A prompt moves on.
LEMMA SyncGotoType ==
  ASSUME TurnOK, NEW p \in {"drain", "none"}, SyncGoto(p)
  PROVE  TurnOK'
<1>1. p \in TurnPC
  BY DEF TurnPC
<1>2. [IdleTurn EXCEPT !.pc = p] \in TurnSet /\ [IdleTurn EXCEPT !.pc = p].pc = p
  BY <1>1, TurnForms
<1> QED BY <1>2, TurnUpdate DEF SyncGoto, Turn

\* A turn starts.
LEMMA RunningType ==
  ASSUME TurnOK, NEW t \in Turn, NEW i \in Item \cup {NoItem}, turn' = [turn EXCEPT ![t] = Running(i)]
  PROVE  TurnOK'
<1>1. Running(i) \in TurnSet /\ Running(i).pc = "run"
  BY TurnForms
<1> QED BY <1>1, TurnUpdate

\* A turn ends.
LEMMA IdleType ==
  ASSUME TurnOK, NEW t \in Turn, turn' = [turn EXCEPT ![t] = IdleTurn]
  PROVE  TurnOK'
<1>1. IdleTurn \in TurnSet /\ IdleTurn.pc = "none"
  BY TurnForms
<1> QED BY <1>1, TurnUpdate
-----------------------------------------------------------------------------
\* Every action keeps the types.

LEMMA BeginPassType == ASSUME TypeInv, BeginPass PROVE TypeInv'
<1>1. UNCHANGED <<item, intent, paused, told, gate, parked, active, admitting, steer, caller, turn, exec>>
  BY DEF BeginPass, durable, gates, owned
<1> DEFINE p == IF disp.pending THEN "look" ELSE "off"
<1>a. disp \in DispSet /\ FALSE \in BOOLEAN /\ p \in DispPC /\ p \in {"look", "off"}
  BY DEF TypeInv, DispOK, DispPC
<1>b. disp' = [disp EXCEPT !.pending = FALSE, !.pc = p]
  BY DEF BeginPass
<1> HIDE DEF p
<1>2. DispOK'
  BY <1>a, <1>b, DispFields DEF DispOK
<1> QED BY <1>1, <1>2, Unchanged DEF TypeInv

LEMMA DispatchOnceType == ASSUME TypeInv, DispatchOnce PROVE TypeInv'
<1>1. UNCHANGED <<item, intent, paused, told, gate, parked, active, admitting, steer, caller, turn, exec>>
  BY DEF DispatchOnce, durable, gates, owned
<1>2. DispOK'
  <2>1. CASE disp' = Settled
    BY <2>1, DispSettled DEF TypeInv, DispOK
  <2>2. ASSUME NEW i \in Item, disp' = [disp EXCEPT !.pc = "submit", !.item = i] PROVE DispOK'
    <3>1. disp \in DispSet /\ "submit" \in DispPC
      BY DEF TypeInv, DispOK, DispPC
    <3>2. disp' \in DispSet
      BY <2>2, <3>1, DispFields
    <3>3. disp'.item = i
      BY <2>2, <3>1 DEF DispSet
    <3> QED BY <3>2, <3>3 DEF DispOK
  <2> QED BY <2>1, <2>2 DEF DispatchOnce, Candidates, QueuedItems
<1> QED BY <1>1, <1>2, Unchanged DEF TypeInv

LEMMA SubmitType == ASSUME TypeInv, Submit PROVE TypeInv'
<1>1. UNCHANGED <<item, intent, paused, told, gate, parked, active, admitting, steer, caller, turn, exec>>
  BY DEF Submit, durable, gates, owned
<1>2. DispOK'
  <2>1. CASE disp' = Retried
    BY <2>1, DispRetried DEF TypeInv, DispOK
  <2>2. CASE disp.pc = "submit" /\ disp' = [disp EXCEPT !.pc = "claim"]
    BY <2>2 DEF TypeInv, DispOK, DispSet, DispPC
  <2> QED BY <2>1, <2>2 DEF Submit
<1> QED BY <1>1, <1>2, Unchanged DEF TypeInv

LEMMA SubmitBlockedType == ASSUME TypeInv, SubmitBlocked PROVE TypeInv'
<1>1. UNCHANGED <<gate, parked, active, admitting, steer, caller, turn, exec>>
  BY DEF SubmitBlocked, durable, gates, owned
<1>2. DispOK'
  BY DispRetried DEF SubmitBlocked, TypeInv, DispOK
<1>3. DurableOK'
  BY SetStateType DEF SubmitBlocked, TypeInv, DurableOK, Present, Pending, InFlight, Gone
<1> QED BY <1>1, <1>2, <1>3, Unchanged DEF TypeInv

LEMMA SubmitUnwritableType == ASSUME TypeInv, SubmitUnwritable PROVE TypeInv'
<1>1. UNCHANGED <<gate, parked, active, admitting, steer, caller, turn, exec>>
  BY DEF SubmitUnwritable, durable, gates, owned
<1>2. DispOK'
  BY DispSettled DEF SubmitUnwritable, TypeInv, DispOK
<1>3. DurableOK'
  BY DEF SubmitUnwritable, TypeInv, DurableOK
<1> QED BY <1>1, <1>2, <1>3, Unchanged DEF TypeInv

LEMMA ClaimType == ASSUME TypeInv, Claim PROVE TypeInv'
<1>1. UNCHANGED <<gate, parked, steer, caller, turn, exec>>
  BY DEF Claim, durable, gates, owned
<1>2. DispOK'
  <2>1. CASE disp' = Retried
    BY <2>1, DispRetried DEF TypeInv, DispOK
  <2>2. CASE disp.pc = "claim" /\ disp' = [disp EXCEPT !.pc = "admit"]
    BY <2>2 DEF TypeInv, DispOK, DispSet, DispPC
  <2> QED BY <2>1, <2>2 DEF Claim
<1>3. DurableOK'
  <2>1. CASE UNCHANGED <<item, intent, paused, told>>
    BY <2>1, Unchanged DEF TypeInv
  <2>2. CASE SetState({disp.item}, "running") /\ UNCHANGED <<intent, paused, told>>
    BY <2>2, SetStateType DEF TypeInv, DurableOK, Present, InFlight
  <2> QED BY <2>1, <2>2 DEF Claim, durable
<1>4. OwnedOK'
  <2>1. disp.item \in Item
    BY DEF Claim, TypeInv, DispOK
  <2>2. active' = active /\ admitting' \in {admitting, admitting \cup {disp.item}}
    BY DEF Claim, owned
  <2> QED BY <2>1, <2>2 DEF TypeInv, OwnedOK
<1> QED BY <1>1, <1>2, <1>3, <1>4, Unchanged DEF TypeInv

LEMMA AdmitType == ASSUME TypeInv, Admit PROVE TypeInv'
<1>1. UNCHANGED <<item, intent, paused, told, active, admitting, steer, caller, turn, exec>>
  BY DEF Admit, durable, gates, owned
<1>2. DispOK'
  <2>1. disp.pc = "admit" /\ \E p \in {"start", "requeue"} : disp' = [disp EXCEPT !.pc = p]
    BY DEF Admit
  <2> QED BY <2>1 DEF TypeInv, DispOK, DispSet, DispPC
<1>3. GatesOK'
  BY DEF Admit, TypeInv, GatesOK
<1> QED BY <1>1, <1>2, <1>3, Unchanged DEF TypeInv

LEMMA RequeueType == ASSUME TypeInv, Requeue PROVE TypeInv'
<1>1. UNCHANGED <<gate, parked, steer, caller, turn, exec>>
  BY DEF Requeue, durable, gates, owned
<1>2. DispOK'
  BY DispSettled DEF Requeue, TypeInv, DispOK
<1>3. DurableOK'
  BY SetStateType DEF Requeue, TypeInv, DurableOK, Present, Pending, InFlight, Gone
<1>4. OwnedOK'
  BY DEF Requeue, TypeInv, OwnedOK
<1> QED BY <1>1, <1>2, <1>3, <1>4, Unchanged DEF TypeInv

LEMMA StartTurnType == ASSUME TypeInv, StartTurn PROVE TypeInv'
<1>1. UNCHANGED <<gate, parked, steer, caller, exec>>
  BY DEF StartTurn, durable, gates, owned
<1>2. DispOK'
  BY DispSettled DEF StartTurn, TypeInv, DispOK
<1>3. DurableOK'
  BY DEF StartTurn, TypeInv, DurableOK, DispOK
<1>4. OwnedOK'
  BY DEF StartTurn, TypeInv, OwnedOK, DispOK
<1>5. TurnOK'
  BY DEF StartTurn, TypeInv, TurnOK, Turn, TurnSet, TurnPC, Running, IdleTurn, DispOK
<1> QED BY <1>1, <1>2, <1>3, <1>4, <1>5, Unchanged DEF TypeInv

LEMMA RetryTimerType == ASSUME TypeInv, RetryTimer PROVE TypeInv'
<1>1. UNCHANGED <<item, intent, paused, told, gate, parked, active, admitting, steer, caller, turn, exec>>
  BY DEF RetryTimer, durable, gates, owned
<1>2. DispOK'
  BY DEF RetryTimer, TypeInv, DispOK, DispSet, DispPC
<1> QED BY <1>1, <1>2, Unchanged DEF TypeInv

LEMMA OpenIntakeType == ASSUME TypeInv, OpenIntake PROVE TypeInv'
<1>1. UNCHANGED <<item, intent, paused, told, gate, parked, active, admitting, disp, steer, caller, turn>>
  BY DEF OpenIntake, durable, gates, owned
<1>2. ExecOK'
  BY DEF OpenIntake, TypeInv, ExecOK, ExecSet
<1> QED BY <1>1, <1>2, Unchanged DEF TypeInv

LEMMA TakeSteerType == ASSUME TypeInv, NEW i \in Item, TakeSteer(i) PROVE TypeInv'
<1>1. UNCHANGED <<item, intent, paused, told, gate, parked, active, admitting, disp, steer, caller, turn>>
  BY DEF TakeSteer, durable, gates, owned
<1>2. ExecOK'
  BY DEF TakeSteer, TypeInv, ExecOK, ExecSet
<1> QED BY <1>1, <1>2, Unchanged DEF TypeInv

LEMMA ConsumeSteerType == ASSUME TypeInv, ConsumeSteer PROVE TypeInv'
<1>1. UNCHANGED <<gate, parked, active, admitting, disp, steer, caller, turn>>
  BY DEF ConsumeSteer, durable, gates, owned
<1>2. ExecOK'
  BY DEF ConsumeSteer, TypeInv, ExecOK, ExecSet
<1>3. DurableOK'
  BY SetStateType
  DEF ConsumeSteer, TypeInv, DurableOK, Present, Pending, InFlight, Gone, ExecOK, ExecSet
<1> QED BY <1>1, <1>2, <1>3, Unchanged DEF TypeInv

LEMMA LoadFailsType == ASSUME TypeInv, LoadFails PROVE TypeInv'
<1>1. UNCHANGED <<item, intent, paused, told, gate, parked, active, admitting, disp, steer, caller, turn>>
  BY DEF LoadFails, durable, gates, owned
<1>2. ExecOK'
  BY DEF LoadFails, TypeInv, ExecOK, ExecSet
<1> QED BY <1>1, <1>2, Unchanged DEF TypeInv

LEMMA CloseIntakeType == ASSUME TypeInv, CloseIntake PROVE TypeInv'
<1>1. UNCHANGED <<item, intent, paused, told, gate, parked, active, admitting, disp, steer, caller, turn>>
  BY DEF CloseIntake, durable, gates, owned
<1>2. ExecOK'
  BY DEF CloseIntake, TypeInv, ExecOK, ExecSet
<1> QED BY <1>1, <1>2, Unchanged DEF TypeInv

LEMMA MarkUnappliedType == ASSUME TypeInv, NEW i \in Item, MarkUnapplied(i) PROVE TypeInv'
<1>1. UNCHANGED <<gate, parked, active, admitting, disp, steer, caller, turn>>
  BY DEF MarkUnapplied, durable, gates, owned
<1>2. ExecOK'
  BY DEF MarkUnapplied, TypeInv, ExecOK, ExecSet
<1>3. DurableOK'
  BY SetStateType DEF MarkUnapplied, TypeInv, DurableOK, Present, Pending, InFlight, Gone
<1> QED BY <1>1, <1>2, <1>3, Unchanged DEF TypeInv

LEMMA PauseUnappliedType == ASSUME TypeInv, PauseUnapplied PROVE TypeInv'
<1>1. UNCHANGED <<gate, parked, disp, steer, caller, turn>>
  BY DEF PauseUnapplied, durable, gates, owned
<1>2. ExecOK'
  BY DEF PauseUnapplied, TypeInv, ExecOK, ExecSet
<1>3. DurableOK'
  BY DEF PauseUnapplied, TypeInv, DurableOK
<1>4. OwnedOK'
  BY DEF PauseUnapplied, TypeInv, OwnedOK
<1> QED BY <1>1, <1>2, <1>3, <1>4, Unchanged DEF TypeInv

LEMMA EndTurnType == ASSUME TypeInv, NEW t \in Turn, EndTurn(t) PROVE TypeInv'
<1>1. UNCHANGED <<item, intent, paused, told, active, admitting, disp, steer, caller, exec>>
  BY DEF EndTurn, durable, gates, owned
<1>2. GatesOK'
  BY DEF EndTurn, TypeInv, GatesOK
<1>3. TurnOK'
  BY DEF EndTurn, TypeInv, TurnOK, Turn, TurnSet, TurnPC, IdleTurn
<1> QED BY <1>1, <1>2, <1>3, Unchanged DEF TypeInv

LEMMA CollectActiveType == ASSUME TypeInv, NEW t \in Turn, CollectActive(t) PROVE TypeInv'
<1>1. UNCHANGED <<item, intent, paused, told, gate, parked, active, admitting, disp, steer, caller, exec>>
  BY DEF CollectActive, durable, gates, owned
<1>2. TurnOK'
  BY DEF CollectActive, TypeInv, TurnOK, Turn, TurnSet, TurnPC, OwnedOK
<1> QED BY <1>1, <1>2, Unchanged DEF TypeInv

LEMMA SpoilItemType == ASSUME TypeInv, NEW t \in Turn, NEW i \in Item, SpoilItem(t, i) PROVE TypeInv'
<1>1. UNCHANGED <<gate, parked, active, admitting, disp, steer, caller, exec>>
  BY DEF SpoilItem, durable, gates, owned
<1>2. TurnOK'
  BY DEF SpoilItem, TypeInv, TurnOK, Turn, TurnSet, TurnPC
<1>3. DurableOK'
  BY SetStateType DEF SpoilItem, TypeInv, DurableOK, Present, Pending, InFlight, Gone
<1> QED BY <1>1, <1>2, <1>3, Unchanged DEF TypeInv

LEMMA AckItemType == ASSUME TypeInv, NEW t \in Turn, NEW i \in Item, AckItem(t, i) PROVE TypeInv'
<1>1. UNCHANGED <<gate, parked, active, admitting, disp, steer, caller, exec>>
  BY DEF AckItem, durable, gates, owned
<1>2. TurnOK'
  BY DEF AckItem, TypeInv, TurnOK, Turn, TurnSet, TurnPC
<1>3. DurableOK'
  BY SetStateType DEF AckItem, TypeInv, DurableOK, Present, Pending, InFlight, Gone
<1> QED BY <1>1, <1>2, <1>3, Unchanged DEF TypeInv

LEMMA UntrackType == ASSUME TypeInv, NEW t \in Turn, Untrack(t) PROVE TypeInv'
<1>1. UNCHANGED <<gate, parked, disp, steer, caller, exec>>
  BY DEF Untrack, durable, gates, owned
<1>2. TurnOK'
  BY DEF Untrack, TypeInv, TurnOK, Turn, TurnSet, TurnPC, IdleTurn
<1>3. DurableOK'
  BY DEF Untrack, TypeInv, DurableOK, TurnOK, TurnSet
<1>4. OwnedOK'
  BY DEF Untrack, TypeInv, OwnedOK
<1> QED BY <1>1, <1>2, <1>3, <1>4, Unchanged DEF TypeInv

LEMMA CloseTurnType == ASSUME TypeInv, NEW t \in Turn, CloseTurn(t) PROVE TypeInv'
<1>1. UNCHANGED <<item, intent, paused, told, active, admitting, steer, caller, exec>>
  BY DEF CloseTurn, durable, gates, owned
<1>2. TurnOK'
  <2>1. CASE t = "sync"
    BY <2>1, SyncGotoType DEF CloseTurn, TypeInv
  <2>2. CASE t # "sync"
    <3>1. turn' = [turn EXCEPT ![t] = Running(NoItem)] \/ turn' = [turn EXCEPT ![t] = IdleTurn]
      BY <2>2 DEF CloseTurn, Turn
    <3> QED BY <3>1, RunningType, IdleType DEF TypeInv
  <2> QED BY <2>1, <2>2
<1>3. GatesOK'
  <2>1. CASE t = "sync"
    BY <2>1, Unchanged DEF CloseTurn, gates, TypeInv
  <2>2. CASE t # "sync"
    <3>1. \/ parked > 0 /\ parked' = parked - 1 /\ gate' = "running"
          \/ parked' = parked /\ gate' = "open"
      BY <2>2 DEF CloseTurn, Turn
    <3> QED BY <3>1 DEF TypeInv, GatesOK
  <2> QED BY <2>1, <2>2
<1>4. DispOK'
  BY KickType, Unchanged DEF CloseTurn, TypeInv
<1> QED BY <1>1, <1>2, <1>3, <1>4, Unchanged DEF TypeInv

LEMMA DrainType == ASSUME TypeInv, Drain PROVE TypeInv'
<1>1. UNCHANGED <<gate, parked, active, admitting, disp, steer, caller, exec>>
  BY DEF Drain, durable, gates, owned
<1>2. TurnOK'
  <2>1. CASE turn' = [turn EXCEPT !["sync"] = IdleTurn]
    BY <2>1, IdleType DEF TypeInv, Turn
  <2>2. ASSUME NEW i \in Item,
               turn' = [turn EXCEPT !["sync"] = [IdleTurn EXCEPT !.pc = "next", !.mine = i]]
        PROVE  TurnOK'
    <3>1. /\ [IdleTurn EXCEPT !.pc = "next", !.mine = i] \in TurnSet
          /\ [IdleTurn EXCEPT !.pc = "next", !.mine = i].mine = i
      BY TurnForms
    <3> QED BY <2>2, <3>1, TurnUpdate DEF TypeInv, Turn
  <2> QED BY <2>1, <2>2 DEF Drain, QueuedItems
<1>3. DurableOK'
  BY SetStateType DEF Drain, TypeInv, DurableOK, Present, Pending, InFlight, Gone, RecoverOrphaned
<1> QED BY <1>1, <1>2, <1>3, Unchanged DEF TypeInv

LEMMA RunInboxTurnType == ASSUME TypeInv, RunInboxTurn PROVE TypeInv'
<1>1. UNCHANGED <<active, admitting, disp, steer, caller, exec>>
  BY DEF RunInboxTurn, durable, gates, owned
<1>2. TurnOK'
  <2>1. turn["sync"] \in TurnSet /\ turn["sync"].mine \in Item /\ "sync" \in Turn
    BY DEF RunInboxTurn, TypeInv, TurnOK, Turn
  <2>2. CASE SyncGoto("drain") \/ SyncGoto("none")
    BY <2>2, SyncGotoType DEF TypeInv
  <2>3. CASE turn' = [turn EXCEPT !["sync"].pc = "claiming"]
    BY <2>1, <2>3 DEF TypeInv, TurnOK, TurnSet, TurnPC
  <2> QED BY <2>2, <2>3 DEF RunInboxTurn
<1>3. DurableOK'
  BY SetStateType DEF RunInboxTurn, TypeInv, DurableOK, Present, Pending, InFlight, Gone
<1>4. GatesOK'
  BY DEF RunInboxTurn, TypeInv, GatesOK
<1> QED BY <1>1, <1>2, <1>3, <1>4, Unchanged DEF TypeInv

LEMMA ClaimSyncType == ASSUME TypeInv, ClaimSync PROVE TypeInv'
<1>1. UNCHANGED <<disp, steer, caller, exec>>
  BY DEF ClaimSync, durable, gates, owned
<1>2. TurnOK'
  <2>1. turn["sync"] \in TurnSet /\ turn["sync"].mine \in Item /\ "sync" \in Turn
    BY DEF ClaimSync, TypeInv, TurnOK, Turn
  <2>2. CASE SyncGoto("drain") \/ SyncGoto("none")
    BY <2>2, SyncGotoType DEF TypeInv
  <2>3. CASE turn' = [turn EXCEPT !["sync"].pc = "run"]
    BY <2>1, <2>3 DEF TypeInv, TurnOK, TurnSet, TurnPC
  <2> QED BY <2>2, <2>3 DEF ClaimSync
<1>3. DurableOK'
  <2>1. turn["sync"].mine \in Item
    BY DEF ClaimSync, TypeInv, TurnOK
  <2>2. \/ UNCHANGED <<item, intent, paused, told>>
        \/ /\ SetState({turn["sync"].mine}, "running") /\ UNCHANGED <<intent, paused>>
           /\ told' = [told EXCEPT ![turn["sync"].mine] = @ + 1]
    BY DEF ClaimSync, durable
  <2>3. item' \in [Item -> Present \cup Gone \cup {"absent"}]
    BY <2>2, SetStateType DEF TypeInv, DurableOK, Present, InFlight
  <2> QED BY <2>1, <2>2, <2>3 DEF TypeInv, DurableOK
<1>4. GatesOK'
  BY DEF ClaimSync, TypeInv, GatesOK
<1>5. OwnedOK'
  BY DEF ClaimSync, TypeInv, OwnedOK, TurnOK
<1> QED BY <1>1, <1>2, <1>3, <1>4, <1>5, Unchanged DEF TypeInv

LEMMA SubmitPromptType == ASSUME TypeInv, SubmitPrompt PROVE TypeInv'
<1>1. UNCHANGED <<item, intent, paused, told, active, admitting, disp, steer, caller, exec>>
  BY DEF SubmitPrompt, durable, gates, owned
<1>2. TurnOK'
  <2>1. turn' = turn \/ turn' = [turn EXCEPT !["async"] = Running(NoItem)]
    BY DEF SubmitPrompt
  <2> QED BY <2>1, Unchanged, RunningType DEF TypeInv, Turn
<1>3. GatesOK'
  BY DEF SubmitPrompt, TypeInv, GatesOK
<1> QED BY <1>1, <1>2, <1>3, Unchanged DEF TypeInv

LEMMA PromptType == ASSUME TypeInv, Prompt PROVE TypeInv'
<1>1. UNCHANGED <<item, intent, paused, told, active, admitting, disp, steer, caller, exec>>
  BY DEF Prompt, durable, gates, owned
<1>2. TurnOK'
  BY DEF Prompt, TypeInv, TurnOK, Turn, TurnSet, TurnPC, IdleTurn, Running
<1>3. GatesOK'
  BY DEF Prompt, TypeInv, GatesOK
<1> QED BY <1>1, <1>2, <1>3, Unchanged DEF TypeInv

LEMMA BeginRotationType == ASSUME TypeInv, BeginRotation PROVE TypeInv'
<1>1. UNCHANGED <<item, intent, paused, told, active, admitting, disp, steer, caller, turn, exec>>
  BY DEF BeginRotation, durable, gates, owned
<1>2. GatesOK'
  BY DEF BeginRotation, TypeInv, GatesOK
<1> QED BY <1>1, <1>2, Unchanged DEF TypeInv

LEMMA EndRotationType == ASSUME TypeInv, EndRotation PROVE TypeInv'
<1>1. UNCHANGED <<item, intent, paused, told, active, admitting, steer, caller, turn, exec>>
  BY DEF EndRotation, durable, gates, owned
<1>2. GatesOK'
  BY DEF EndRotation, TypeInv, GatesOK
<1>3. DispOK'
  BY KickType DEF EndRotation, TypeInv
<1> QED BY <1>1, <1>2, <1>3, Unchanged DEF TypeInv

LEMMA EnqueueSteerType == ASSUME TypeInv, NEW i \in Item, EnqueueSteer(i) PROVE TypeInv'
<1>1. UNCHANGED <<gate, parked, active, admitting, disp, caller, turn, exec>>
  BY DEF EnqueueSteer, durable, gates, owned
<1>2. DurableOK'
  BY DEF EnqueueSteer, TypeInv, DurableOK, Present, Pending
<1>3. SteerOK'
  BY DEF EnqueueSteer, TypeInv, SteerOK, SteerSet
<1> QED BY <1>1, <1>2, <1>3, Unchanged DEF TypeInv

LEMMA SteerAgainType == ASSUME TypeInv, NEW i \in Item, SteerAgain(i) PROVE TypeInv'
<1>1. UNCHANGED <<item, intent, paused, told, gate, parked, active, admitting, disp, caller, turn, exec>>
  BY DEF SteerAgain, durable, gates, owned
<1>2. SteerOK'
  BY DEF SteerAgain, TypeInv, SteerOK, SteerSet
<1> QED BY <1>1, <1>2, Unchanged DEF TypeInv

LEMMA ReadCandidateType == ASSUME TypeInv, ReadCandidate PROVE TypeInv'
<1>1. UNCHANGED <<gate, parked, active, admitting, caller, turn, exec>>
  BY DEF ReadCandidate, durable, gates, owned
<1>2. DurableOK'
  <2>1. steer.item \in Item
    BY DEF ReadCandidate, TypeInv, SteerOK
  <2>2. intent' = intent /\ paused' \in BOOLEAN
    BY DEF ReadCandidate, RecoverOrphaned, TypeInv, DurableOK
  <2>3. item' \in [Item -> Present \cup Gone \cup {"absent"}]
    <3>1. \/ item' = item
          \/ SetState(Orphans, "uncertain")
          \/ SetState({steer.item}, "queued")
      BY DEF ReadCandidate, RecoverOrphaned
    <3> QED BY <3>1, SetStateType DEF TypeInv, DurableOK, Present, Pending
  <2>4. told' \in [Item -> Nat]
    BY <2>1 DEF ReadCandidate, TypeInv, DurableOK
  <2> QED BY <2>2, <2>3, <2>4 DEF TypeInv, DurableOK
<1>3. SteerOK'
  BY DEF ReadCandidate, TypeInv, ReturnSteer, IdleSteer, SteerOK, SteerSet
<1>4. DispOK'
  BY KickType, Unchanged DEF ReadCandidate, TypeInv
<1> QED BY <1>1, <1>2, <1>3, <1>4, Unchanged DEF TypeInv

LEMMA AcceptDurablyType == ASSUME TypeInv, AcceptDurably PROVE TypeInv'
<1>1. UNCHANGED <<gate, parked, disp, caller, turn, exec>>
  BY DEF AcceptDurably, durable, gates, owned
<1>2. DurableOK'
  BY SetStateType DEF AcceptDurably, TypeInv, DurableOK, Present, Pending, InFlight, Gone
<1>3. SteerOK'
  BY DEF AcceptDurably, TypeInv, ReturnSteer, IdleSteer, SteerOK, SteerSet
<1>4. OwnedOK'
  BY DEF AcceptDurably, TypeInv, OwnedOK, SteerOK
<1> QED BY <1>1, <1>2, <1>3, <1>4, Unchanged DEF TypeInv

LEMMA AdmitSteerType == ASSUME TypeInv, AdmitSteer PROVE TypeInv'
<1>1. UNCHANGED <<item, intent, paused, told, gate, parked, disp, caller, turn>>
  BY DEF AdmitSteer, durable, gates, owned
<1>2. SteerOK'
  BY DEF AdmitSteer, TypeInv, ReturnSteer, IdleSteer, SteerOK, SteerSet
<1>3. OwnedOK'
  BY DEF AdmitSteer, TypeInv, OwnedOK, SteerOK, owned
<1>4. ExecOK'
  BY DEF AdmitSteer, TypeInv, ExecOK, ExecSet, SteerOK
<1> QED BY <1>1, <1>2, <1>3, <1>4, Unchanged DEF TypeInv

LEMMA RejectSteerType == ASSUME TypeInv, RejectSteer PROVE TypeInv'
<1>1. UNCHANGED <<gate, parked, disp, caller, turn, exec>>
  BY DEF RejectSteer, durable, gates, owned
<1>2. DurableOK'
  BY SetStateType DEF RejectSteer, TypeInv, DurableOK, Present, Pending, InFlight, Gone
<1>3. SteerOK'
  BY DEF RejectSteer, TypeInv, ReturnSteer, IdleSteer, SteerOK, SteerSet
<1>4. OwnedOK'
  BY DEF RejectSteer, TypeInv, OwnedOK, SteerOK
<1> QED BY <1>1, <1>2, <1>3, <1>4, Unchanged DEF TypeInv

LEMMA ConvertSteerType == ASSUME TypeInv, ConvertSteer PROVE TypeInv'
<1>1. UNCHANGED <<gate, parked, caller, turn, exec>>
  BY DEF ConvertSteer, durable, gates, owned
<1>2. DurableOK'
  BY DEF ConvertSteer, TypeInv, DurableOK
<1>3. SteerOK'
  BY DEF ConvertSteer, TypeInv, ReturnSteer, IdleSteer, SteerOK, SteerSet
<1>4. OwnedOK'
  BY DEF ConvertSteer, TypeInv, OwnedOK, SteerOK
<1>5. DispOK'
  BY KickType, Unchanged DEF ConvertSteer, TypeInv
<1> QED BY <1>1, <1>2, <1>3, <1>4, <1>5, Unchanged DEF TypeInv

LEMMA EnqueueType == ASSUME TypeInv, NEW i \in Item, Enqueue(i) PROVE TypeInv'
<1>1. UNCHANGED <<gate, parked, active, admitting, disp, steer, turn, exec>>
  BY DEF Enqueue, durable, gates, owned
<1>2. DurableOK'
  BY DEF Enqueue, TypeInv, DurableOK, Present, Pending
<1>3. CallerOK'
  BY DEF Enqueue, TypeInv, CallerOK, CallerSet, IdleCall
<1> QED BY <1>1, <1>2, <1>3, Unchanged DEF TypeInv

LEMMA EnqueueBlockedType == ASSUME TypeInv, NEW i \in Item, EnqueueBlocked(i) PROVE TypeInv'
<1>1. UNCHANGED <<gate, parked, active, admitting, disp, steer, turn, exec>>
  BY DEF EnqueueBlocked, durable, gates, owned
<1>2. DurableOK'
  BY DEF EnqueueBlocked, TypeInv, DurableOK, Present, Pending
<1>3. CallerOK'
  BY DEF EnqueueBlocked, TypeInv, CallerOK, CallerSet, IdleCall
<1> QED BY <1>1, <1>2, <1>3, Unchanged DEF TypeInv

LEMMA PauseEnqueuedType == ASSUME TypeInv, PauseEnqueued PROVE TypeInv'
<1>1. UNCHANGED <<gate, parked, active, admitting, disp, steer, turn, exec>>
  BY DEF PauseEnqueued, durable, gates, owned
<1>2. DurableOK'
  BY DEF PauseEnqueued, TypeInv, DurableOK
<1>3. CallerOK'
  BY DEF PauseEnqueued, TypeInv, CallerOK, CallerSet
<1> QED BY <1>1, <1>2, <1>3, Unchanged DEF TypeInv

LEMMA KickIfIdleType == ASSUME TypeInv, KickIfIdle PROVE TypeInv'
<1>1. UNCHANGED <<item, intent, paused, told, gate, parked, active, admitting, steer, turn, exec>>
  BY DEF KickIfIdle, durable, gates, owned
<1>2. DispOK'
  BY KickType, Unchanged DEF KickIfIdle, TypeInv
<1>3. CallerOK'
  BY DEF KickIfIdle, TypeInv, Return, CallerOK, CallerSet, IdleCall
<1> QED BY <1>1, <1>2, <1>3, Unchanged DEF TypeInv

LEMMA DropSteerType == ASSUME TypeInv, NEW i \in Item, DropSteer(i) PROVE TypeInv'
<1>1. UNCHANGED <<item, intent, paused, told, gate, parked, active, admitting, disp, steer, turn>>
  BY DEF DropSteer, durable, gates, owned
<1>2. ExecOK'
  BY DEF DropSteer, TypeInv, ExecOK, ExecSet
<1>3. CallerOK'
  BY DEF DropSteer, TypeInv, CallerOK, CallerSet, IdleCall
<1> QED BY <1>1, <1>2, <1>3, Unchanged DEF TypeInv

LEMMA UntrackDroppedType == ASSUME TypeInv, UntrackDropped PROVE TypeInv'
<1>1. UNCHANGED <<item, intent, paused, told, gate, parked, disp, steer, turn, exec>>
  BY DEF UntrackDropped, durable, gates, owned
<1>2. OwnedOK'
  BY DEF UntrackDropped, TypeInv, OwnedOK
<1>3. CallerOK'
  BY DEF UntrackDropped, TypeInv, CallerOK, CallerSet
<1> QED BY <1>1, <1>2, <1>3, Unchanged DEF TypeInv

LEMMA CancelAcceptedSteerType == ASSUME TypeInv, CancelAcceptedSteer PROVE TypeInv'
<1>1. UNCHANGED <<gate, parked, active, admitting, disp, steer, turn, exec>>
  BY DEF CancelAcceptedSteer, durable, gates, owned
<1>2. DurableOK'
  BY DEF CancelAcceptedSteer, TypeInv, DurableOK, Gone
<1>3. CallerOK'
  BY DEF CancelAcceptedSteer, TypeInv, Return, CallerOK, CallerSet, IdleCall
<1> QED BY <1>1, <1>2, <1>3, Unchanged DEF TypeInv

LEMMA BeginCancelType == ASSUME TypeInv, NEW S \in SUBSET Item, BeginCancel(S) PROVE TypeInv'
<1>1. UNCHANGED <<item, intent, paused, told, gate, parked, active, admitting, disp, steer, turn, exec>>
  BY DEF BeginCancel, durable, gates, owned
<1>2. CallerOK'
  BY DEF BeginCancel, TypeInv, CallerOK, CallerSet, DurableOK
<1> QED BY <1>1, <1>2, Unchanged DEF TypeInv

LEMMA PauseForCancelType == ASSUME TypeInv, PauseForCancel PROVE TypeInv'
<1>1. UNCHANGED <<gate, parked, active, admitting, disp, steer, turn, exec>>
  BY DEF PauseForCancel, durable, gates, owned
<1>2. DurableOK'
  BY DEF PauseForCancel, TypeInv, DurableOK
<1>3. CallerOK'
  BY DEF PauseForCancel, TypeInv, CallerOK, CallerSet
<1> QED BY <1>1, <1>2, <1>3, Unchanged DEF TypeInv

LEMMA DiscardType == ASSUME TypeInv, Discard PROVE TypeInv'
<1>1. UNCHANGED <<gate, parked, active, admitting, disp, steer, turn, exec>>
  BY DEF Discard, durable, gates, owned
<1>2. DurableOK'
  BY SetStateType DEF Discard, TypeInv, DurableOK, Present, Pending, InFlight, Gone
<1>3. CallerOK'
  <2>1. caller' = IdleCall \/ caller' = [caller EXCEPT !.pc = "resuming"]
    BY DEF Discard, Return
  <2>2. IdleCall \in CallerSet
    BY DEF CallerSet, IdleCall
  <2>3. [caller EXCEPT !.pc = "resuming"] \in CallerSet
    BY DEF TypeInv, CallerOK, CallerSet
  <2> QED BY <2>1, <2>2, <2>3 DEF CallerOK
<1> QED BY <1>1, <1>2, <1>3, Unchanged DEF TypeInv

LEMMA ResumeAfterCancelType == ASSUME TypeInv, ResumeAfterCancel PROVE TypeInv'
<1>1. UNCHANGED <<gate, parked, active, admitting, disp, steer, turn, exec>>
  BY DEF ResumeAfterCancel, durable, gates, owned
<1>2. DurableOK'
  BY DEF ResumeAfterCancel, TypeInv, DurableOK, CallerOK, CallerSet
<1>3. CallerOK'
  BY DEF ResumeAfterCancel, TypeInv, Return, CallerOK, CallerSet, IdleCall
<1> QED BY <1>1, <1>2, <1>3, Unchanged DEF TypeInv

LEMMA DeleteItemType == ASSUME TypeInv, NEW i \in Item, DeleteItem(i) PROVE TypeInv'
<1>1. UNCHANGED <<gate, parked, active, admitting, disp, steer, caller, turn, exec>>
  BY DEF DeleteItem, durable, gates, owned
<1>2. DurableOK'
  BY DEF DeleteItem, TypeInv, DurableOK, Gone
<1> QED BY <1>1, <1>2, Unchanged DEF TypeInv

LEMMA RetryItemType == ASSUME TypeInv, NEW i \in Item, RetryItem(i) PROVE TypeInv'
<1>1. UNCHANGED <<gate, parked, active, admitting, steer, caller, turn, exec>>
  BY DEF RetryItem, durable, gates, owned
<1>2. DurableOK'
  BY SetStateType DEF RetryItem, TypeInv, DurableOK, Present, Pending, InFlight, Gone
<1>3. DispOK'
  BY KickType DEF RetryItem, TypeInv
<1> QED BY <1>1, <1>2, <1>3, Unchanged DEF TypeInv

LEMMA PauseType == ASSUME TypeInv, Pause PROVE TypeInv'
<1>1. UNCHANGED <<gate, parked, active, admitting, disp, steer, caller, turn, exec>>
  BY DEF Pause, durable, gates, owned
<1>2. DurableOK'
  BY DEF Pause, TypeInv, DurableOK
<1> QED BY <1>1, <1>2, Unchanged DEF TypeInv

LEMMA ResumeType == ASSUME TypeInv, Resume PROVE TypeInv'
<1>1. UNCHANGED <<gate, parked, active, admitting, steer, caller, turn, exec>>
  BY DEF Resume, durable, gates, owned
<1>2. DurableOK'
  BY DEF Resume, TypeInv, DurableOK
<1>3. DispOK'
  BY KickType DEF Resume, TypeInv
<1> QED BY <1>1, <1>2, <1>3, Unchanged DEF TypeInv

LEMMA SnapshotType == ASSUME TypeInv, Snapshot PROVE TypeInv'
<1>1. UNCHANGED <<gate, parked, active, admitting, disp, steer, caller, turn, exec>>
  BY DEF Snapshot, durable, gates, owned
<1>2. DurableOK'
  BY SetStateType
  DEF Snapshot, TypeInv, DurableOK, Present, Pending, InFlight, Gone, RecoverOrphaned
<1> QED BY <1>1, <1>2, Unchanged DEF TypeInv

LEMMA CrashType == ASSUME TypeInv, Crash PROVE TypeInv'
<1>2. DurableOK'
  BY DEF Crash, TypeInv, DurableOK, Present, Pending
<1>3. GatesOK'
  BY DEF Crash, TypeInv, Restarted, GatesOK
<1>4. OwnedOK'
  BY DEF Crash, TypeInv, Restarted, OwnedOK
<1>5. DispOK'
  BY DEF Crash, TypeInv, Restarted, IdleDisp, DispOK, DispSet, DispPC, MaxAttempts
<1>6. SteerOK'
  BY DEF Crash, TypeInv, Restarted, IdleSteer, SteerOK, SteerSet
<1>7. CallerOK'
  BY DEF Crash, TypeInv, Restarted, IdleCall, CallerOK, CallerSet
<1>8. TurnOK'
  BY DEF Crash, TypeInv, Restarted, IdleTurn, TurnOK, TurnSet, TurnPC, Turn
<1>9. ExecOK'
  BY DEF Crash, TypeInv, Restarted, IdleExec, ExecOK, ExecSet
<1> QED BY <1>2, <1>3, <1>4, <1>5, <1>6, <1>7, <1>8, <1>9, Unchanged DEF TypeInv

-----------------------------------------------------------------------------
\* What every action does to the fields that the invariants read: one lemma per
\* action, so that an invariant is proved from these and not from the action.

\* The two turns.
Async == turn["async"]
Sync == turn["sync"]

\* The items of S that are present go to the state; i is delivered once more;
\* a step of the turn t.
Sets(S, state) ==
  \A i \in Item : item'[i] = IF i \in S /\ item[i] \in Present THEN state ELSE item[i]
Tells(i) == told' = [told EXCEPT ![i] = told[i] + 1]
Moves(t) == \A u \in Turn : u # t => turn'[u] = turn[u]

LEMMA SyncGotoDoes ==
  ASSUME TurnOK, NEW p \in {"drain", "none"}, SyncGoto(p)
  PROVE  Moves("sync") /\ Sync'.pc = p
<1>1. p \in TurnPC
  BY DEF TurnPC
<1>2. [IdleTurn EXCEPT !.pc = p].pc = p
  BY <1>1, TurnForms
<1> QED BY <1>2 DEF SyncGoto, Moves, Sync, TurnOK, Turn

LEMMA BeginPassDoes ==
  ASSUME TypeInv, BeginPass
  PROVE  /\ UNCHANGED <<item, intent, paused, told, gate, parked, active, admitting, steer, caller, turn, exec>>
         /\ disp.pc = "top" /\ disp'.pc \in {"look", "off"}
<1>1. UNCHANGED <<item, intent, paused, told, gate, parked, active, admitting, steer, caller, turn, exec>>
  BY DEF BeginPass, durable, gates, owned
<1>2. /\ disp.pc = "top" /\ disp'.pc \in {"look", "off"}
  BY DEF BeginPass, DispSet, TypeInv, DispOK, SteerOK, CallerOK, TurnOK, ExecOK
<1> QED BY <1>1, <1>2

LEMMA DispatchOnceDoes ==
  ASSUME TypeInv, DispatchOnce
  PROVE  /\ UNCHANGED <<item, intent, paused, told, gate, parked, active, admitting, steer, caller, turn, exec>>
         /\ disp.pc = "look" /\ disp'.pc \in {"top", "submit"}
<1>1. UNCHANGED <<item, intent, paused, told, gate, parked, active, admitting, steer, caller, turn, exec>>
  BY DEF DispatchOnce, durable, gates, owned
<1>2. disp.pc = "look" /\ disp \in DispSet
  BY DEF DispatchOnce, TypeInv, DispOK
<1>3. CASE disp' = Settled
  BY <1>1, <1>2, <1>3, DispSettled
<1>4. ASSUME NEW i \in Item, disp' = [disp EXCEPT !.pc = "submit", !.item = i] PROVE disp'.pc = "submit"
  BY <1>2, <1>4 DEF DispSet
<1> QED BY <1>1, <1>2, <1>3, <1>4 DEF DispatchOnce, Candidates, QueuedItems

LEMMA SubmitDoes ==
  ASSUME TypeInv, Submit
  PROVE  /\ UNCHANGED <<item, intent, paused, told, gate, parked, active, admitting, steer, caller, turn, exec>>
         /\ disp.pc = "submit" /\ steer.pc \in {"idle", "wants"} /\ disp'.pc \in {"top", "claim"}
<1>1. UNCHANGED <<item, intent, paused, told, gate, parked, active, admitting, steer, caller, turn, exec>>
  BY DEF Submit, durable, gates, owned
<1>2. /\ disp.pc = "submit" /\ steer.pc \in {"idle", "wants"} /\ disp'.pc \in {"top", "claim"}
  BY DispRetried
  DEF Submit, AdmissionFree, DispSet, TypeInv, DispOK, SteerOK, CallerOK, TurnOK, ExecOK
<1> QED BY <1>1, <1>2

LEMMA SubmitBlockedDoes ==
  ASSUME TypeInv, SubmitBlocked
  PROVE  /\ UNCHANGED <<intent, told, gate, parked, active, admitting, steer, caller, turn, exec>>
         /\ disp.pc = "submit" /\ AdmissionFree /\ disp'.pc = "top"
         /\ item[disp.item] = "queued" /\ Sets({disp.item}, "blocked")
<1>1. UNCHANGED <<intent, told, gate, parked, active, admitting, steer, caller, turn, exec>>
  BY DEF SubmitBlocked, durable, gates, owned
<1>2. /\ disp.pc = "submit" /\ AdmissionFree /\ disp'.pc = "top"
      /\ item[disp.item] = "queued" /\ Sets({disp.item}, "blocked")
  BY DispRetried
  DEF SubmitBlocked, Sets, SetState, Present, Pending, TypeInv, DispOK, SteerOK, CallerOK,
      TurnOK, ExecOK
<1> QED BY <1>1, <1>2

LEMMA SubmitUnwritableDoes ==
  ASSUME TypeInv, SubmitUnwritable
  PROVE  /\ UNCHANGED <<item, intent, told, gate, parked, active, admitting, steer, caller, turn, exec>>
         /\ disp.pc = "submit" /\ disp'.pc = "top"
<1>1. UNCHANGED <<item, intent, told, gate, parked, active, admitting, steer, caller, turn, exec>>
  BY DEF SubmitUnwritable, durable, gates, owned
<1>2. /\ disp.pc = "submit" /\ disp'.pc = "top"
  BY DispSettled DEF SubmitUnwritable, TypeInv, DispOK, SteerOK, CallerOK, TurnOK, ExecOK
<1> QED BY <1>1, <1>2

LEMMA ClaimDoes ==
  ASSUME TypeInv, Claim
  PROVE  /\ UNCHANGED <<intent, paused, told, gate, parked, active, steer, caller, turn, exec>>
         /\ disp.pc = "claim"
         /\ \/ disp'.pc = "top" /\ UNCHANGED <<item, admitting>>
            \/ /\ disp'.pc = "admit" /\ disp'.item = disp.item
               /\ item[disp.item] = "queued" /\ Sets({disp.item}, "running")
               /\ admitting' = admitting \cup {disp.item}
<1>1. UNCHANGED <<intent, paused, told, gate, parked, active, steer, caller, turn, exec>>
  BY DEF Claim, durable, gates, owned
<1>2. disp.pc = "claim" /\ disp \in DispSet
  BY DEF Claim, TypeInv, DispOK
<1>3. CASE disp' = Retried /\ UNCHANGED <<item, admitting>>
  BY <1>1, <1>2, <1>3, DispRetried
<1>4. CASE /\ item[disp.item] = "queued" /\ SetState({disp.item}, "running")
           /\ admitting' = admitting \cup {disp.item} /\ disp' = [disp EXCEPT !.pc = "admit"]
  <2>1. disp'.pc = "admit" /\ disp'.item = disp.item
    BY <1>2, <1>4 DEF DispSet
  <2>2. Sets({disp.item}, "running")
    BY <1>4 DEF SetState, Sets
  <2> QED BY <1>1, <1>2, <1>4, <2>1, <2>2
<1> QED BY <1>3, <1>4 DEF Claim, durable, owned

LEMMA AdmitDoes ==
  ASSUME TypeInv, Admit
  PROVE  /\ UNCHANGED <<item, intent, paused, told, parked, active, admitting, steer, caller, turn, exec>>
         /\ disp.pc = "admit" /\ disp'.item = disp.item
         /\ \/ gate = "open" /\ gate' = "running" /\ disp'.pc = "start"
            \/ gate' = gate /\ disp'.pc = "requeue"
<1>1. UNCHANGED <<item, intent, paused, told, parked, active, admitting, steer, caller, turn, exec>>
  BY DEF Admit, durable, gates, owned
<1>2. disp.pc = "admit" /\ disp \in DispSet
  BY DEF Admit, TypeInv, DispOK
<1>3. CASE gate = "open" /\ gate' = "running" /\ disp' = [disp EXCEPT !.pc = "start"]
  BY <1>1, <1>2, <1>3 DEF DispSet
<1>4. CASE gate' = gate /\ disp' = [disp EXCEPT !.pc = "requeue"]
  BY <1>1, <1>2, <1>4 DEF DispSet
<1> QED BY <1>3, <1>4 DEF Admit

LEMMA RequeueDoes ==
  ASSUME TypeInv, Requeue
  PROVE  /\ UNCHANGED <<intent, paused, told, gate, parked, active, steer, caller, turn, exec>>
         /\ disp.pc = "requeue" /\ disp'.pc = "top"
         /\ Sets({disp.item}, "queued") /\ admitting' = admitting \ {disp.item}
<1>1. UNCHANGED <<intent, paused, told, gate, parked, active, steer, caller, turn, exec>>
  BY DEF Requeue, durable, gates, owned
<1>2. /\ disp.pc = "requeue" /\ disp'.pc = "top"
      /\ Sets({disp.item}, "queued") /\ admitting' = admitting \ {disp.item}
  BY DispSettled DEF Requeue, Sets, SetState, TypeInv, DispOK, SteerOK, CallerOK, TurnOK, ExecOK
<1> QED BY <1>1, <1>2

LEMMA StartTurnDoes ==
  ASSUME TypeInv, StartTurn
  PROVE  /\ UNCHANGED <<item, intent, paused, gate, parked, steer, caller, exec>>
         /\ disp.pc = "start" /\ disp'.pc = "top"
         /\ active' = active \cup {disp.item} /\ admitting' = admitting \ {disp.item}
         /\ Tells(disp.item)
         /\ Moves("async") /\ Async'.pc = "run" /\ Async'.mine = disp.item
<1>1. UNCHANGED <<item, intent, paused, gate, parked, steer, caller, exec>>
  BY DEF StartTurn, durable, gates, owned
<1>2. disp.pc = "start" /\ disp.item \in Item /\ disp'.pc = "top"
  BY DispSettled DEF StartTurn, TypeInv, DispOK
<1>3. /\ active' = active \cup {disp.item} /\ admitting' = admitting \ {disp.item}
      /\ Tells(disp.item)
  BY <1>2 DEF StartTurn, Tells, TypeInv, DurableOK
<1>4. /\ Running(disp.item).pc = "run" /\ Running(disp.item).mine = disp.item
      /\ turn' = [turn EXCEPT !["async"] = Running(disp.item)]
  BY <1>2, TurnForms DEF StartTurn
<1>5. Moves("async") /\ Async' = Running(disp.item)
  BY <1>4 DEF Moves, Async, TypeInv, TurnOK, Turn
<1> QED BY <1>1, <1>2, <1>3, <1>4, <1>5

LEMMA RetryTimerDoes ==
  ASSUME TypeInv, RetryTimer
  PROVE  /\ UNCHANGED <<item, intent, paused, told, gate, parked, active, admitting, steer, caller, turn, exec>>
         /\ disp'.item = disp.item /\ disp'.pc = IF disp.pc = "off" THEN "top" ELSE disp.pc
<1>1. UNCHANGED <<item, intent, paused, told, gate, parked, active, admitting, steer, caller, turn, exec>>
  BY DEF RetryTimer, durable, gates, owned
<1>2. /\ disp'.item = disp.item /\ disp'.pc = IF disp.pc = "off" THEN "top" ELSE disp.pc
  BY DEF RetryTimer, DispSet, TypeInv, DispOK, SteerOK, CallerOK, TurnOK, ExecOK
<1> QED BY <1>1, <1>2

LEMMA OpenIntakeDoes ==
  ASSUME TypeInv, OpenIntake
  PROVE  /\ UNCHANGED <<item, intent, paused, told, gate, parked, active, admitting, disp, steer, caller, turn>>
         /\ InRun /\ ~exec.intake /\ exec.flush = {} /\ exec.unread = NoItem
         /\ exec'.intake /\ exec'.queue = exec.queue /\ exec'.taken = exec.taken
         /\ exec'.flush = exec.flush /\ exec'.unread = exec.unread
<1>1. UNCHANGED <<item, intent, paused, told, gate, parked, active, admitting, disp, steer, caller, turn>>
  BY DEF OpenIntake, durable, gates, owned
<1>2. /\ InRun /\ ~exec.intake /\ exec.flush = {} /\ exec.unread = NoItem
      /\ exec'.intake /\ exec'.queue = exec.queue /\ exec'.taken = exec.taken
      /\ exec'.flush = exec.flush /\ exec'.unread = exec.unread
  BY DEF OpenIntake, ExecSet, TypeInv, DispOK, SteerOK, CallerOK, TurnOK, ExecOK
<1> QED BY <1>1, <1>2

LEMMA TakeSteerDoes ==
  ASSUME TypeInv, NEW i \in Item, TakeSteer(i)
  PROVE  /\ UNCHANGED <<item, intent, paused, told, gate, parked, active, admitting, disp, steer, caller, turn>>
         /\ exec.intake /\ exec.taken = NoItem /\ i \in exec.queue
         /\ exec.flush = {} /\ exec.unread = NoItem
         /\ exec'.intake /\ exec'.queue = exec.queue \ {i} /\ exec'.taken = i
         /\ exec'.flush = exec.flush /\ exec'.unread = exec.unread
<1>1. UNCHANGED <<item, intent, paused, told, gate, parked, active, admitting, disp, steer, caller, turn>>
  BY DEF TakeSteer, durable, gates, owned
<1>2. /\ exec.intake /\ exec.taken = NoItem /\ i \in exec.queue
      /\ exec.flush = {} /\ exec.unread = NoItem
      /\ exec'.intake /\ exec'.queue = exec.queue \ {i} /\ exec'.taken = i
      /\ exec'.flush = exec.flush /\ exec'.unread = exec.unread
  BY DEF TakeSteer, ExecSet, TypeInv, DispOK, SteerOK, CallerOK, TurnOK, ExecOK
<1> QED BY <1>1, <1>2

LEMMA ConsumeSteerDoes ==
  ASSUME TypeInv, ConsumeSteer
  PROVE  /\ UNCHANGED <<intent, paused, gate, parked, active, admitting, disp, steer, caller, turn>>
         /\ exec.taken \in Item /\ Sets({exec.taken}, "consumed") /\ Tells(exec.taken)
         /\ exec'.intake = exec.intake /\ exec'.queue = exec.queue /\ exec'.taken = NoItem
         /\ exec'.flush = exec.flush /\ exec'.unread = exec.unread
<1>1. UNCHANGED <<intent, paused, gate, parked, active, admitting, disp, steer, caller, turn>>
  BY DEF ConsumeSteer, durable, gates, owned
<1>2. /\ exec.taken \in Item /\ Sets({exec.taken}, "consumed") /\ Tells(exec.taken)
      /\ exec'.intake = exec.intake /\ exec'.queue = exec.queue /\ exec'.taken = NoItem
      /\ exec'.flush = exec.flush /\ exec'.unread = exec.unread
  BY DEF ConsumeSteer, ExecSet, Sets, SetState, Tells, DurableOK, TypeInv, DispOK, SteerOK,
         CallerOK, TurnOK, ExecOK
<1> QED BY <1>1, <1>2

LEMMA LoadFailsDoes ==
  ASSUME TypeInv, LoadFails
  PROVE  /\ UNCHANGED <<item, intent, paused, told, gate, parked, active, admitting, disp, steer, caller, turn>>
         /\ exec.taken \in Item
         /\ exec'.intake = exec.intake /\ exec'.queue = exec.queue /\ exec'.taken = NoItem
         /\ exec'.flush = {exec.taken} /\ exec'.unread = exec.unread
<1>1. UNCHANGED <<item, intent, paused, told, gate, parked, active, admitting, disp, steer, caller, turn>>
  BY DEF LoadFails, durable, gates, owned
<1>2. /\ exec.taken \in Item
      /\ exec'.intake = exec.intake /\ exec'.queue = exec.queue /\ exec'.taken = NoItem
      /\ exec'.flush = {exec.taken} /\ exec'.unread = exec.unread
  BY DEF LoadFails, ExecSet, TypeInv, DispOK, SteerOK, CallerOK, TurnOK, ExecOK
<1> QED BY <1>1, <1>2

LEMMA CloseIntakeDoes ==
  ASSUME TypeInv, CloseIntake
  PROVE  /\ UNCHANGED <<item, intent, paused, told, gate, parked, active, admitting, disp, steer, caller, turn>>
         /\ exec.intake /\ exec.taken = NoItem /\ exec.flush = {} /\ exec.unread = NoItem
         /\ ~exec'.intake /\ exec'.queue = {} /\ exec'.taken = NoItem
         /\ exec'.flush = exec.queue /\ exec'.unread = NoItem
<1>1. UNCHANGED <<item, intent, paused, told, gate, parked, active, admitting, disp, steer, caller, turn>>
  BY DEF CloseIntake, durable, gates, owned
<1>2. /\ exec.intake /\ exec.taken = NoItem /\ exec.flush = {} /\ exec.unread = NoItem
      /\ ~exec'.intake /\ exec'.queue = {} /\ exec'.taken = NoItem
      /\ exec'.flush = exec.queue /\ exec'.unread = NoItem
  BY DEF CloseIntake, ExecSet, TypeInv, DispOK, SteerOK, CallerOK, TurnOK, ExecOK
<1> QED BY <1>1, <1>2

LEMMA MarkUnappliedDoes ==
  ASSUME TypeInv, NEW i \in Item, MarkUnapplied(i)
  PROVE  /\ UNCHANGED <<intent, paused, told, gate, parked, active, admitting, disp, steer, caller, turn>>
         /\ i \in exec.flush /\ exec.unread = NoItem /\ Sets({i}, "uncertain")
         /\ exec'.intake = exec.intake /\ exec'.queue = exec.queue /\ exec'.taken = exec.taken
         /\ exec'.flush = exec.flush \ {i} /\ exec'.unread = i
<1>1. UNCHANGED <<intent, paused, told, gate, parked, active, admitting, disp, steer, caller, turn>>
  BY DEF MarkUnapplied, durable, gates, owned
<1>2. /\ i \in exec.flush /\ exec.unread = NoItem /\ Sets({i}, "uncertain")
      /\ exec'.intake = exec.intake /\ exec'.queue = exec.queue /\ exec'.taken = exec.taken
      /\ exec'.flush = exec.flush \ {i} /\ exec'.unread = i
  BY DEF MarkUnapplied, ExecSet, Sets, SetState, TypeInv, DispOK, SteerOK, CallerOK, TurnOK, ExecOK
<1> QED BY <1>1, <1>2

LEMMA PauseUnappliedDoes ==
  ASSUME TypeInv, PauseUnapplied
  PROVE  /\ UNCHANGED <<item, intent, told, gate, parked, admitting, disp, steer, caller, turn>>
         /\ exec.unread # NoItem /\ active' = active \ {exec.unread}
         /\ exec'.intake = exec.intake /\ exec'.queue = exec.queue /\ exec'.taken = exec.taken
         /\ exec'.flush = exec.flush /\ exec'.unread = NoItem
<1>1. UNCHANGED <<item, intent, told, gate, parked, admitting, disp, steer, caller, turn>>
  BY DEF PauseUnapplied, durable, gates, owned
<1>2. /\ exec.unread # NoItem /\ active' = active \ {exec.unread}
      /\ exec'.intake = exec.intake /\ exec'.queue = exec.queue /\ exec'.taken = exec.taken
      /\ exec'.flush = exec.flush /\ exec'.unread = NoItem
  BY DEF PauseUnapplied, ExecSet, TypeInv, DispOK, SteerOK, CallerOK, TurnOK, ExecOK
<1> QED BY <1>1, <1>2

LEMMA EndTurnDoes ==
  ASSUME TypeInv, NEW t \in Turn, EndTurn(t)
  PROVE  /\ UNCHANGED <<item, intent, paused, told, parked, active, admitting, disp, steer, caller, exec>>
         /\ turn[t].pc = "run" /\ ~exec.intake /\ exec.flush = {} /\ exec.unread = NoItem
         /\ gate' = IF t = "async" THEN "finishing" ELSE "open"
         /\ Moves(t) /\ turn'[t].pc = "done"
<1>1. UNCHANGED <<item, intent, paused, told, parked, active, admitting, disp, steer, caller, exec>>
  BY DEF EndTurn, durable, gates, owned
<1>2. /\ turn[t].pc = "run" /\ ~exec.intake /\ exec.flush = {} /\ exec.unread = NoItem
      /\ gate' = IF t = "async" THEN "finishing" ELSE "open"
      /\ turn' = [turn EXCEPT ![t] = [IdleTurn EXCEPT !.pc = "done"]]
  BY DEF EndTurn
<1>3. [IdleTurn EXCEPT !.pc = "done"].pc = "done"
  BY TurnForms DEF TurnPC
<1>4. Moves(t) /\ turn'[t].pc = "done"
  BY <1>2, <1>3 DEF Moves, TypeInv, TurnOK
<1> QED BY <1>1, <1>2, <1>4

LEMMA CollectActiveDoes ==
  ASSUME TypeInv, NEW t \in Turn, CollectActive(t)
  PROVE  /\ UNCHANGED <<item, intent, paused, told, gate, parked, active, admitting, disp, steer, caller, exec>>
         /\ turn[t].pc = "done" /\ Moves(t)
         /\ turn'[t].ids = active /\ turn'[t].left = active
         /\ turn'[t].pc \in IF active = {} THEN {"close"} ELSE {"acking", "spoiling"}
<1>1. UNCHANGED <<item, intent, paused, told, gate, parked, active, admitting, disp, steer, caller, exec>>
  BY DEF CollectActive, durable, gates, owned
<1>2. /\ turn[t].pc = "done" /\ Moves(t)
      /\ turn'[t].ids = active /\ turn'[t].left = active
      /\ turn'[t].pc \in IF active = {} THEN {"close"} ELSE {"acking", "spoiling"}
  BY DEF CollectActive, Moves, TurnSet, TypeInv, DispOK, SteerOK, CallerOK, TurnOK, ExecOK
<1> QED BY <1>1, <1>2

LEMMA SpoilItemDoes ==
  ASSUME TypeInv, NEW t \in Turn, NEW i \in Item, SpoilItem(t, i)
  PROVE  /\ UNCHANGED <<intent, paused, told, gate, parked, active, admitting, disp, steer, caller, exec>>
         /\ turn[t].pc = "spoiling" /\ i \in turn[t].left /\ Sets({i}, "uncertain")
         /\ Moves(t) /\ turn'[t].pc = "spoiling"
         /\ turn'[t].ids = turn[t].ids /\ turn'[t].left = turn[t].left \ {i}
<1>1. UNCHANGED <<intent, paused, told, gate, parked, active, admitting, disp, steer, caller, exec>>
  BY DEF SpoilItem, durable, gates, owned
<1>2. /\ turn[t].pc = "spoiling" /\ i \in turn[t].left /\ Sets({i}, "uncertain")
      /\ Moves(t) /\ turn'[t].pc = "spoiling"
      /\ turn'[t].ids = turn[t].ids /\ turn'[t].left = turn[t].left \ {i}
  BY DEF SpoilItem, Moves, TurnSet, Sets, SetState, TypeInv, DispOK, SteerOK, CallerOK,
         TurnOK, ExecOK
<1> QED BY <1>1, <1>2

LEMMA AckItemDoes ==
  ASSUME TypeInv, NEW t \in Turn, NEW i \in Item, AckItem(t, i)
  PROVE  /\ UNCHANGED <<intent, paused, told, gate, parked, active, admitting, disp, steer, caller, exec>>
         /\ turn[t].pc = "acking" /\ i \in turn[t].left
         /\ IF item[i] \in InFlight THEN item' = [item EXCEPT ![i] = "acked"] ELSE Sets({i}, "uncertain")
         /\ Moves(t) /\ turn'[t].pc = "acking"
         /\ turn'[t].ids = turn[t].ids /\ turn'[t].left = turn[t].left \ {i}
<1>1. UNCHANGED <<intent, paused, told, gate, parked, active, admitting, disp, steer, caller, exec>>
  BY DEF AckItem, durable, gates, owned
<1>2. turn[t].pc = "acking" /\ i \in turn[t].left
  BY DEF AckItem
<1>3. IF item[i] \in InFlight THEN item' = [item EXCEPT ![i] = "acked"] ELSE Sets({i}, "uncertain")
  BY DEF AckItem, SetState, Sets
<1>4. /\ Moves(t) /\ turn'[t].pc = "acking"
      /\ turn'[t].ids = turn[t].ids /\ turn'[t].left = turn[t].left \ {i}
  BY DEF AckItem, Moves, TypeInv, TurnOK, TurnSet
<1> QED BY <1>1, <1>2, <1>3, <1>4

LEMMA UntrackDoes ==
  ASSUME TypeInv, NEW t \in Turn, Untrack(t)
  PROVE  /\ UNCHANGED <<item, intent, told, gate, parked, admitting, disp, steer, caller, exec>>
         /\ turn[t].pc \in {"acking", "spoiling"} /\ turn[t].left = {}
         /\ active' = active \ turn[t].ids
         /\ Moves(t) /\ turn'[t].pc = "close"
<1>1. UNCHANGED <<item, intent, told, gate, parked, admitting, disp, steer, caller, exec>>
  BY DEF Untrack, durable, gates, owned
<1>2. /\ turn[t].pc \in {"acking", "spoiling"} /\ turn[t].left = {} /\ active' = active \ turn[t].ids
      /\ turn' = [turn EXCEPT ![t] = [IdleTurn EXCEPT !.pc = "close"]]
  BY DEF Untrack
<1>3. [IdleTurn EXCEPT !.pc = "close"].pc = "close"
  BY TurnForms DEF TurnPC
<1>4. Moves(t) /\ turn'[t].pc = "close"
  BY <1>2, <1>3 DEF Moves, TypeInv, TurnOK
<1> QED BY <1>1, <1>2, <1>4

LEMMA CloseTurnDoes ==
  ASSUME TypeInv, NEW t \in Turn, CloseTurn(t)
  PROVE  /\ UNCHANGED <<item, intent, paused, told, active, admitting, steer, caller, exec>>
         /\ turn[t].pc = "close" /\ Moves(t)
         /\ \/ /\ t = "sync" /\ turn'[t].pc \in {"drain", "none"}
               /\ UNCHANGED <<gate, disp>>
            \/ /\ t = "async" /\ gate' = "running" /\ turn'[t].pc = "run" /\ turn'[t].mine = NoItem
               /\ UNCHANGED disp
            \/ t = "async" /\ gate' = "open" /\ turn'[t].pc = "none" /\ Kick
<1>1. UNCHANGED <<item, intent, paused, told, active, admitting, steer, caller, exec>>
  BY DEF CloseTurn, durable, gates, owned
<1>2. turn[t].pc = "close"
  BY DEF CloseTurn
<1>3. CASE t = "sync"
  <2>1. (SyncGoto("drain") \/ SyncGoto("none")) /\ UNCHANGED <<gate, parked, disp>>
    BY <1>3 DEF CloseTurn, gates
  <2>2. Moves(t) /\ turn'[t].pc \in {"drain", "none"}
    BY <1>3, <2>1, SyncGotoDoes DEF TypeInv, Sync
  <2> QED BY <1>1, <1>2, <1>3, <2>1, <2>2
<1>4. CASE t = "async" /\ gate' = "running" /\ turn' = [turn EXCEPT ![t] = Running(NoItem)] /\ UNCHANGED disp
  <2>1. Running(NoItem).pc = "run" /\ Running(NoItem).mine = NoItem
    BY TurnForms
  <2>2. Moves(t) /\ turn'[t] = Running(NoItem)
    BY <1>4 DEF Moves, TypeInv, TurnOK
  <2> QED BY <1>1, <1>2, <1>4, <2>1, <2>2
<1>5. CASE t = "async" /\ gate' = "open" /\ turn' = [turn EXCEPT ![t] = IdleTurn] /\ Kick
  <2>1. Moves(t) /\ turn'[t].pc = "none"
    BY <1>5, TurnForms DEF Moves, TypeInv, TurnOK
  <2> QED BY <1>1, <1>2, <1>5, <2>1
<1> QED BY <1>3, <1>4, <1>5 DEF CloseTurn, Turn

LEMMA DrainDoes ==
  ASSUME TypeInv, Drain
  PROVE  /\ UNCHANGED <<intent, told, gate, parked, active, admitting, disp, steer, caller, exec>>
         /\ Sync.pc = "drain" /\ Moves("sync") /\ Sync'.pc \in {"none", "next"}
         /\ Sets(Orphans, "uncertain")
<1>1. UNCHANGED <<intent, told, gate, parked, active, admitting, disp, steer, caller, exec>>
  BY DEF Drain, durable, gates, owned
<1>2. Sync.pc = "drain" /\ Sets(Orphans, "uncertain")
  BY DEF Drain, Sync, RecoverOrphaned, SetState, Sets
<1>3. CASE turn' = [turn EXCEPT !["sync"] = IdleTurn]
  <2>1. Moves("sync") /\ Sync' = IdleTurn
    BY <1>3 DEF Moves, TypeInv, TurnOK, Turn, Sync
  <2> QED BY <1>1, <1>2, <2>1, TurnForms
<1>4. ASSUME NEW i \in Item, turn' = [turn EXCEPT !["sync"] = [IdleTurn EXCEPT !.pc = "next", !.mine = i]]
      PROVE  Moves("sync") /\ Sync'.pc = "next"
  <2>1. [IdleTurn EXCEPT !.pc = "next", !.mine = i].pc = "next"
    BY TurnForms
  <2> QED BY <1>4, <2>1 DEF Moves, TypeInv, TurnOK, Turn, Sync
<1> QED BY <1>1, <1>2, <1>3, <1>4 DEF Drain, QueuedItems

LEMMA RunInboxTurnDoes ==
  ASSUME TypeInv, RunInboxTurn
  PROVE  /\ UNCHANGED <<intent, told, parked, active, admitting, disp, steer, caller, exec>>
         /\ Sync.pc = "next" /\ Moves("sync")
         /\ \/ Sync'.pc \in {"drain", "none"} /\ UNCHANGED <<item, gate>>
            \/ /\ Sync'.pc = "drain" /\ UNCHANGED gate
               /\ item[Sync.mine] = "queued" /\ Sets({Sync.mine}, "blocked")
            \/ /\ Sync'.pc = "claiming" /\ Sync'.mine = Sync.mine
               /\ gate = "open" /\ gate' = "running" /\ UNCHANGED item
<1>1. UNCHANGED <<intent, told, parked, active, admitting, disp, steer, caller, exec>>
  BY DEF RunInboxTurn, durable, gates, owned
<1>2. Sync.pc = "next"
  BY DEF RunInboxTurn, Sync
<1>3. CASE (SyncGoto("drain") \/ SyncGoto("none")) /\ UNCHANGED <<item, gate>>
  BY <1>1, <1>2, <1>3, SyncGotoDoes DEF TypeInv
<1>4. CASE /\ item[Sync.mine] = "queued" /\ SetState({Sync.mine}, "blocked")
           /\ SyncGoto("drain") /\ UNCHANGED gate
  <2>1. Sets({Sync.mine}, "blocked")
    BY <1>4 DEF Sets, SetState
  <2> QED BY <1>1, <1>2, <1>4, <2>1, SyncGotoDoes DEF TypeInv
<1>5. CASE gate = "open" /\ gate' = "running" /\ turn' = [turn EXCEPT !["sync"].pc = "claiming"] /\ UNCHANGED item
  <2>1. Moves("sync") /\ Sync'.pc = "claiming" /\ Sync'.mine = Sync.mine
    BY <1>5 DEF Moves, Sync, TypeInv, TurnOK, TurnSet, Turn
  <2> QED BY <1>1, <1>2, <1>5, <2>1
<1> QED BY <1>3, <1>4, <1>5 DEF RunInboxTurn, Sync

LEMMA ClaimSyncDoes ==
  ASSUME TypeInv, ClaimSync
  PROVE  /\ UNCHANGED <<intent, paused, parked, admitting, disp, steer, caller, exec>>
         /\ Sync.pc = "claiming" /\ AdmissionFree /\ Moves("sync")
         /\ \/ /\ Sync'.pc = "run" /\ Sync'.mine = Sync.mine /\ UNCHANGED gate
               /\ item[Sync.mine] = "queued" /\ Sets({Sync.mine}, "running") /\ Tells(Sync.mine)
               /\ active' = active \cup {Sync.mine}
            \/ Sync'.pc \in {"drain", "none"} /\ gate' = "open" /\ UNCHANGED <<item, told, active>>
<1>1. UNCHANGED <<intent, paused, parked, admitting, disp, steer, caller, exec>>
  BY DEF ClaimSync, durable, gates, owned
<1>2. Sync.pc = "claiming" /\ AdmissionFree /\ Sync.mine \in Item
  BY DEF ClaimSync, Sync, TypeInv, TurnOK
<1>3. CASE (SyncGoto("drain") \/ SyncGoto("none")) /\ gate' = "open" /\ UNCHANGED <<item, told, active>>
  BY <1>1, <1>2, <1>3, SyncGotoDoes DEF TypeInv
<1>4. CASE /\ item[Sync.mine] = "queued" /\ SetState({Sync.mine}, "running") /\ active' = active \cup {Sync.mine}
           /\ told' = [told EXCEPT ![Sync.mine] = @ + 1]
           /\ turn' = [turn EXCEPT !["sync"].pc = "run"] /\ UNCHANGED gate
  <2>1. Sets({Sync.mine}, "running") /\ Tells(Sync.mine)
    BY <1>2, <1>4 DEF Sets, SetState, Tells, TypeInv, DurableOK
  <2>2. Moves("sync") /\ Sync'.pc = "run" /\ Sync'.mine = Sync.mine
    BY <1>4 DEF Moves, Sync, TypeInv, TurnOK, TurnSet, Turn
  <2> QED BY <1>1, <1>2, <1>4, <2>1, <2>2
<1> QED BY <1>3, <1>4 DEF ClaimSync, Sync, durable

LEMMA SubmitPromptDoes ==
  ASSUME TypeInv, SubmitPrompt
  PROVE  /\ UNCHANGED <<item, intent, paused, told, active, admitting, disp, steer, caller, exec>>
         /\ \/ gate = "open" /\ gate' = "running" /\ Moves("async") /\ Async'.pc = "run" /\ Async'.mine = NoItem
            \/ UNCHANGED <<gate, turn>>
<1>1. UNCHANGED <<item, intent, paused, told, active, admitting, disp, steer, caller, exec>>
  BY DEF SubmitPrompt, durable, gates, owned
<1>2. CASE gate = "open" /\ gate' = "running" /\ turn' = [turn EXCEPT !["async"] = Running(NoItem)]
  <2>1. Running(NoItem).pc = "run" /\ Running(NoItem).mine = NoItem
    BY TurnForms
  <2>2. Moves("async") /\ Async' = Running(NoItem)
    BY <1>2 DEF Moves, Async, TypeInv, TurnOK, Turn
  <2> QED BY <1>1, <1>2, <2>1, <2>2
<1>3. CASE UNCHANGED <<gate, turn>>
  BY <1>1, <1>3
<1> QED BY <1>2, <1>3 DEF SubmitPrompt

LEMMA PromptDoes ==
  ASSUME TypeInv, Prompt
  PROVE  /\ UNCHANGED <<item, intent, paused, told, parked, active, admitting, disp, steer, caller, exec>>
         /\ "sync" \in Verbs /\ Sync.pc = "none" /\ gate = "open" /\ gate' = "running"
         /\ Moves("sync") /\ Sync'.pc = "run" /\ Sync'.mine = NoItem
<1>1. UNCHANGED <<item, intent, paused, told, parked, active, admitting, disp, steer, caller, exec>>
  BY DEF Prompt, durable, gates, owned
<1>2. /\ "sync" \in Verbs /\ Sync.pc = "none" /\ gate = "open" /\ gate' = "running"
      /\ turn' = [turn EXCEPT !["sync"] = Running(NoItem)]
  BY DEF Prompt, MayDo, Sync
<1>3. Running(NoItem).pc = "run" /\ Running(NoItem).mine = NoItem
  BY TurnForms
<1>4. Moves("sync") /\ Sync' = Running(NoItem)
  BY <1>2 DEF Moves, Sync, TypeInv, TurnOK, Turn
<1> QED BY <1>1, <1>2, <1>3, <1>4

LEMMA BeginRotationDoes ==
  ASSUME TypeInv, BeginRotation
  PROVE  /\ UNCHANGED <<item, intent, paused, told, parked, active, admitting, disp, steer, caller, turn, exec>>
         /\ gate = "open" /\ gate' = "rotating"
<1>1. UNCHANGED <<item, intent, paused, told, parked, active, admitting, disp, steer, caller, turn, exec>>
  BY DEF BeginRotation, durable, gates, owned
<1>2. /\ gate = "open" /\ gate' = "rotating"
  BY DEF BeginRotation, TypeInv, DispOK, SteerOK, CallerOK, TurnOK, ExecOK
<1> QED BY <1>1, <1>2

LEMMA EndRotationDoes ==
  ASSUME TypeInv, EndRotation
  PROVE  /\ UNCHANGED <<item, intent, paused, told, parked, active, admitting, steer, caller, turn, exec>>
         /\ gate = "rotating" /\ gate' = "open" /\ Kick
<1>1. UNCHANGED <<item, intent, paused, told, parked, active, admitting, steer, caller, turn, exec>>
  BY DEF EndRotation, durable, gates, owned
<1>2. /\ gate = "rotating" /\ gate' = "open" /\ Kick
  BY DEF EndRotation, TypeInv, DispOK, SteerOK, CallerOK, TurnOK, ExecOK
<1> QED BY <1>1, <1>2

LEMMA EnqueueSteerDoes ==
  ASSUME TypeInv, NEW i \in Item, EnqueueSteer(i)
  PROVE  /\ UNCHANGED <<paused, told, gate, parked, active, admitting, disp, caller, turn, exec>>
         /\ steer.pc = "idle" /\ item[i] = "absent" /\ item' = [item EXCEPT ![i] = "queued"]
         /\ steer'.pc = "wants" /\ steer'.item = i
<1>1. UNCHANGED <<paused, told, gate, parked, active, admitting, disp, caller, turn, exec>>
  BY DEF EnqueueSteer, durable, gates, owned
<1>2. /\ steer.pc = "idle" /\ item[i] = "absent" /\ item' = [item EXCEPT ![i] = "queued"]
      /\ steer'.pc = "wants" /\ steer'.item = i
  BY DEF EnqueueSteer, TypeInv, DispOK, SteerOK, CallerOK, TurnOK, ExecOK
<1> QED BY <1>1, <1>2

LEMMA SteerAgainDoes ==
  ASSUME TypeInv, NEW i \in Item, SteerAgain(i)
  PROVE  /\ UNCHANGED <<item, intent, paused, told, gate, parked, active, admitting, disp, caller, turn, exec>>
         /\ "resteer" \in Verbs /\ steer.pc = "idle" /\ item[i] \in Present
         /\ steer'.pc = "wants" /\ steer'.item = i
<1>1. UNCHANGED <<item, intent, paused, told, gate, parked, active, admitting, disp, caller, turn, exec>>
  BY DEF SteerAgain, durable, gates, owned
<1>2. /\ "resteer" \in Verbs /\ steer.pc = "idle" /\ item[i] \in Present
      /\ steer'.pc = "wants" /\ steer'.item = i
  BY DEF SteerAgain, MayDo, TypeInv, DispOK, SteerOK, CallerOK, TurnOK, ExecOK
<1> QED BY <1>1, <1>2

LEMMA ReadCandidateDoes ==
  ASSUME TypeInv, ReadCandidate
  PROVE  /\ UNCHANGED <<intent, gate, parked, active, admitting, caller, turn, exec>>
         /\ steer.pc = "wants" /\ AdmissionFree
         /\ \/ steer'.pc = "idle" /\ UNCHANGED <<told, disp>> /\ (Sets(Orphans, "uncertain") \/ UNCHANGED item)
            \/ /\ item[steer.item] \in {"queued", "uncertain"} /\ Sets({steer.item}, "queued")
               /\ \A i \in Item : told'[i] = IF i = steer.item /\ item[i] = "uncertain" THEN 0 ELSE told[i]
               /\ \/ steer'.pc = "idle" /\ Kick
                  \/ steer'.pc = "accept" /\ steer'.item = steer.item /\ UNCHANGED disp
<1>1. UNCHANGED <<intent, gate, parked, active, admitting, caller, turn, exec>>
  BY DEF ReadCandidate, durable, gates, owned
<1>2. steer.pc = "wants" /\ AdmissionFree /\ steer.item \in Item
  BY DEF ReadCandidate, TypeInv, SteerOK
<1>3. CASE ReturnSteer /\ UNCHANGED <<told, disp>> /\ (SetState(Orphans, "uncertain") \/ UNCHANGED item)
  <2>1. steer'.pc = "idle"
    BY <1>3 DEF ReturnSteer, IdleSteer
  <2>2. Sets(Orphans, "uncertain") \/ UNCHANGED item
    BY <1>3 DEF SetState, Sets
  <2> QED BY <1>1, <1>2, <1>3, <2>1, <2>2
<1>4. CASE /\ item[steer.item] \in {"queued", "uncertain"} /\ SetState({steer.item}, "queued")
           /\ told' = [told EXCEPT ![steer.item] = IF item[steer.item] = "uncertain" THEN 0 ELSE @]
           /\ \/ ReturnSteer /\ Kick
              \/ steer' = [steer EXCEPT !.pc = "accept"] /\ UNCHANGED disp
  <2>1. \/ steer'.pc = "idle" /\ Kick
        \/ steer'.pc = "accept" /\ steer'.item = steer.item /\ UNCHANGED disp
    BY <1>4 DEF ReturnSteer, IdleSteer, TypeInv, SteerOK, SteerSet
  <2>2. Sets({steer.item}, "queued")
    BY <1>4 DEF SetState, Sets
  <2>3. \A i \in Item : told'[i] = IF i = steer.item /\ item[i] = "uncertain" THEN 0 ELSE told[i]
    BY <1>2, <1>4 DEF TypeInv, DurableOK
  <2> QED BY <1>1, <1>2, <1>4, <2>1, <2>2, <2>3
<1> QED BY <1>3, <1>4 DEF ReadCandidate, RecoverOrphaned

LEMMA AcceptDurablyDoes ==
  ASSUME TypeInv, AcceptDurably
  PROVE  /\ UNCHANGED <<intent, paused, told, gate, parked, active, disp, caller, turn, exec>>
         /\ steer.pc = "accept"
         /\ \/ /\ Sets({steer.item}, "accepted") /\ item[steer.item] \in Present
               /\ admitting' = admitting \cup {steer.item}
               /\ steer'.pc = "admit" /\ steer'.item = steer.item
            \/ steer'.pc = "idle" /\ UNCHANGED <<item, admitting>>
<1>1. UNCHANGED <<intent, paused, told, gate, parked, active, disp, caller, turn, exec>>
  BY DEF AcceptDurably, durable, gates, owned
<1>2. steer.pc = "accept"
  BY DEF AcceptDurably
<1>3. CASE /\ item[steer.item] \in Present /\ SetState({steer.item}, "accepted")
           /\ admitting' = admitting \cup {steer.item} /\ steer' = [steer EXCEPT !.pc = "admit"]
  <2>1. Sets({steer.item}, "accepted")
    BY <1>3 DEF Sets, SetState
  <2>2. steer'.pc = "admit" /\ steer'.item = steer.item
    BY <1>3 DEF TypeInv, SteerOK, SteerSet
  <2> QED BY <1>1, <1>2, <1>3, <2>1, <2>2
<1>4. CASE ReturnSteer /\ UNCHANGED <<item, admitting>>
  BY <1>1, <1>2, <1>4 DEF ReturnSteer, IdleSteer
<1> QED BY <1>3, <1>4 DEF AcceptDurably

LEMMA AdmitSteerDoes ==
  ASSUME TypeInv, AdmitSteer
  PROVE  /\ UNCHANGED <<item, intent, paused, told, gate, parked, disp, caller, turn>>
         /\ steer.pc = "admit"
         /\ \/ /\ gate = "running" /\ exec.intake /\ steer'.pc = "idle"
               /\ exec'.intake /\ exec'.queue = exec.queue \cup {steer.item} /\ exec'.taken = exec.taken
               /\ exec'.flush = exec.flush /\ exec'.unread = exec.unread
               /\ active' = active \cup {steer.item} /\ admitting' = admitting \ {steer.item}
            \/ steer'.pc = "reject" /\ steer'.item = steer.item /\ UNCHANGED <<exec, active, admitting>>
<1>1. UNCHANGED <<item, intent, paused, told, gate, parked, disp, caller, turn>>
  BY DEF AdmitSteer, durable, gates, owned
<1>2. steer.pc = "admit"
  BY DEF AdmitSteer
<1>3. CASE /\ gate = "running" /\ exec.intake /\ ReturnSteer
           /\ exec' = [exec EXCEPT !.queue = @ \cup {steer.item}]
           /\ active' = active \cup {steer.item} /\ admitting' = admitting \ {steer.item}
  <2>1. /\ exec'.intake /\ exec'.queue = exec.queue \cup {steer.item} /\ exec'.taken = exec.taken
        /\ exec'.flush = exec.flush /\ exec'.unread = exec.unread
    BY <1>3 DEF TypeInv, ExecOK, ExecSet
  <2>2. steer'.pc = "idle"
    BY <1>3 DEF ReturnSteer, IdleSteer
  <2> QED BY <1>1, <1>2, <1>3, <2>1, <2>2
<1>4. CASE steer' = [steer EXCEPT !.pc = "reject"] /\ UNCHANGED <<exec, active, admitting>>
  BY <1>1, <1>2, <1>4 DEF TypeInv, SteerOK, SteerSet
<1> QED BY <1>3, <1>4 DEF AdmitSteer, owned

LEMMA RejectSteerDoes ==
  ASSUME TypeInv, RejectSteer
  PROVE  /\ UNCHANGED <<intent, told, gate, parked, active, disp, caller, turn, exec>>
         /\ steer.pc = "reject" /\ Sets({steer.item}, "queued")
         /\ \/ steer'.pc = "convert" /\ steer'.item = steer.item /\ UNCHANGED admitting
            \/ /\ item[steer.item] \notin Present /\ steer'.pc = "idle"
               /\ admitting' = admitting \ {steer.item}
<1>1. UNCHANGED <<intent, told, gate, parked, active, disp, caller, turn, exec>>
  BY DEF RejectSteer, durable, gates, owned
<1>2. steer.pc = "reject" /\ Sets({steer.item}, "queued")
  BY DEF RejectSteer, SetState, Sets
<1>3. CASE steer' = [steer EXCEPT !.pc = "convert"] /\ UNCHANGED <<paused, admitting>>
  BY <1>1, <1>2, <1>3 DEF TypeInv, SteerOK, SteerSet
<1>4. CASE item[steer.item] \notin Present /\ admitting' = admitting \ {steer.item} /\ ReturnSteer
  BY <1>1, <1>2, <1>4 DEF ReturnSteer, IdleSteer
<1> QED BY <1>3, <1>4 DEF RejectSteer

LEMMA ConvertSteerDoes ==
  ASSUME TypeInv, ConvertSteer
  PROVE  /\ UNCHANGED <<item, paused, told, gate, parked, active, caller, turn, exec>>
         /\ steer.pc = "convert" /\ steer'.pc = "idle" /\ admitting' = admitting \ {steer.item}
         /\ Kick \/ UNCHANGED disp
<1>1. UNCHANGED <<item, paused, told, gate, parked, active, caller, turn, exec>>
  BY DEF ConvertSteer, durable, gates, owned
<1>2. /\ steer.pc = "convert" /\ steer'.pc = "idle" /\ admitting' = admitting \ {steer.item}
      /\ Kick \/ UNCHANGED disp
  BY DEF ConvertSteer, ReturnSteer, IdleSteer, TypeInv, DispOK, SteerOK, CallerOK, TurnOK, ExecOK
<1> QED BY <1>1, <1>2

LEMMA EnqueueDoes ==
  ASSUME TypeInv, NEW i \in Item, Enqueue(i)
  PROVE  /\ UNCHANGED <<intent, paused, told, gate, parked, active, admitting, disp, steer, turn, exec>>
         /\ caller.pc = "idle" /\ caller'.pc = "enqueued"
         /\ item[i] = "absent" /\ item' = [item EXCEPT ![i] = "queued"]
<1>1. UNCHANGED <<intent, paused, told, gate, parked, active, admitting, disp, steer, turn, exec>>
  BY DEF Enqueue, durable, gates, owned
<1>2. /\ caller.pc = "idle" /\ caller'.pc = "enqueued"
      /\ item[i] = "absent" /\ item' = [item EXCEPT ![i] = "queued"]
  BY DEF Enqueue, IdleCall, TypeInv, DispOK, SteerOK, CallerOK, TurnOK, ExecOK
<1> QED BY <1>1, <1>2

LEMMA EnqueueBlockedDoes ==
  ASSUME TypeInv, NEW i \in Item, EnqueueBlocked(i)
  PROVE  /\ UNCHANGED <<intent, paused, told, gate, parked, active, admitting, disp, steer, turn, exec>>
         /\ caller.pc = "idle" /\ caller'.pc = "pausing"
         /\ item[i] = "absent" /\ item' = [item EXCEPT ![i] = "blocked"]
<1>1. UNCHANGED <<intent, paused, told, gate, parked, active, admitting, disp, steer, turn, exec>>
  BY DEF EnqueueBlocked, durable, gates, owned
<1>2. /\ caller.pc = "idle" /\ caller'.pc = "pausing"
      /\ item[i] = "absent" /\ item' = [item EXCEPT ![i] = "blocked"]
  BY DEF EnqueueBlocked, IdleCall, TypeInv, DispOK, SteerOK, CallerOK, TurnOK, ExecOK
<1> QED BY <1>1, <1>2

LEMMA PauseEnqueuedDoes ==
  ASSUME TypeInv, PauseEnqueued
  PROVE  /\ UNCHANGED <<item, intent, told, gate, parked, active, admitting, disp, steer, turn, exec>>
         /\ caller.pc = "pausing" /\ caller'.pc = "enqueued"
<1>1. UNCHANGED <<item, intent, told, gate, parked, active, admitting, disp, steer, turn, exec>>
  BY DEF PauseEnqueued, durable, gates, owned
<1>2. /\ caller.pc = "pausing" /\ caller'.pc = "enqueued"
  BY DEF PauseEnqueued, CallerSet, TypeInv, DispOK, SteerOK, CallerOK, TurnOK, ExecOK
<1> QED BY <1>1, <1>2

LEMMA KickIfIdleDoes ==
  ASSUME TypeInv, KickIfIdle
  PROVE  /\ UNCHANGED <<item, intent, paused, told, gate, parked, active, admitting, steer, turn, exec>>
         /\ caller.pc = "enqueued" /\ caller'.pc = "idle"
         /\ Kick \/ UNCHANGED disp
<1>1. UNCHANGED <<item, intent, paused, told, gate, parked, active, admitting, steer, turn, exec>>
  BY DEF KickIfIdle, durable, gates, owned
<1>2. /\ caller.pc = "enqueued" /\ caller'.pc = "idle"
      /\ Kick \/ UNCHANGED disp
  BY DEF KickIfIdle, Return, IdleCall, TypeInv, DispOK, SteerOK, CallerOK, TurnOK, ExecOK
<1> QED BY <1>1, <1>2

LEMMA DropSteerDoes ==
  ASSUME TypeInv, NEW i \in Item, DropSteer(i)
  PROVE  /\ UNCHANGED <<item, intent, paused, told, gate, parked, active, admitting, disp, steer, turn>>
         /\ "drop" \in Verbs /\ caller.pc = "idle" /\ i \in exec.queue
         /\ exec'.intake = exec.intake /\ exec'.queue = exec.queue \ {i} /\ exec'.taken = exec.taken
         /\ exec'.flush = exec.flush /\ exec'.unread = exec.unread
         /\ caller'.pc = "dropping" /\ caller'.items = {i}
<1>1. UNCHANGED <<item, intent, paused, told, gate, parked, active, admitting, disp, steer, turn>>
  BY DEF DropSteer, durable, gates, owned
<1>2. /\ "drop" \in Verbs /\ caller.pc = "idle" /\ i \in exec.queue
      /\ exec'.intake = exec.intake /\ exec'.queue = exec.queue \ {i} /\ exec'.taken = exec.taken
      /\ exec'.flush = exec.flush /\ exec'.unread = exec.unread
      /\ caller'.pc = "dropping" /\ caller'.items = {i}
  BY DEF DropSteer, MayDo, ExecSet, IdleCall, TypeInv, DispOK, SteerOK, CallerOK, TurnOK, ExecOK
<1> QED BY <1>1, <1>2

LEMMA UntrackDroppedDoes ==
  ASSUME TypeInv, UntrackDropped
  PROVE  /\ UNCHANGED <<item, intent, paused, told, gate, parked, admitting, disp, steer, turn, exec>>
         /\ caller.pc = "dropping" /\ caller'.pc = "withdrawing" /\ caller'.items = caller.items
         /\ active' = active \ caller.items
<1>1. UNCHANGED <<item, intent, paused, told, gate, parked, admitting, disp, steer, turn, exec>>
  BY DEF UntrackDropped, durable, gates, owned
<1>2. /\ caller.pc = "dropping" /\ caller'.pc = "withdrawing" /\ caller'.items = caller.items
      /\ active' = active \ caller.items
  BY DEF UntrackDropped, CallerSet, TypeInv, DispOK, SteerOK, CallerOK, TurnOK, ExecOK
<1> QED BY <1>1, <1>2

LEMMA CancelAcceptedSteerDoes ==
  ASSUME TypeInv, CancelAcceptedSteer
  PROVE  /\ UNCHANGED <<intent, paused, told, gate, parked, active, admitting, disp, steer, turn, exec>>
         /\ caller.pc = "withdrawing" /\ caller'.pc = "idle"
         /\ \A i \in Item : item'[i] = IF i \in caller.items /\ item[i] = "accepted" THEN "deleted" ELSE item[i]
<1>1. UNCHANGED <<intent, paused, told, gate, parked, active, admitting, disp, steer, turn, exec>>
  BY DEF CancelAcceptedSteer, durable, gates, owned
<1>2. /\ caller.pc = "withdrawing" /\ caller'.pc = "idle"
      /\ \A i \in Item : item'[i] = IF i \in caller.items /\ item[i] = "accepted" THEN "deleted" ELSE item[i]
  BY DEF CancelAcceptedSteer, Return, IdleCall, TypeInv, DispOK, SteerOK, CallerOK, TurnOK, ExecOK
<1> QED BY <1>1, <1>2

LEMMA BeginCancelDoes ==
  ASSUME TypeInv, NEW S \in SUBSET Item, BeginCancel(S)
  PROVE  /\ UNCHANGED <<item, intent, paused, told, gate, parked, active, admitting, disp, steer, turn, exec>>
         /\ caller.pc = "idle" /\ caller'.pc = "stopping" /\ caller'.items = S
<1>1. UNCHANGED <<item, intent, paused, told, gate, parked, active, admitting, disp, steer, turn, exec>>
  BY DEF BeginCancel, durable, gates, owned
<1>2. /\ caller.pc = "idle" /\ caller'.pc = "stopping" /\ caller'.items = S
  BY DEF BeginCancel, TypeInv, DispOK, SteerOK, CallerOK, TurnOK, ExecOK
<1> QED BY <1>1, <1>2

LEMMA PauseForCancelDoes ==
  ASSUME TypeInv, PauseForCancel
  PROVE  /\ UNCHANGED <<item, intent, told, gate, parked, active, admitting, disp, steer, turn, exec>>
         /\ caller.pc = "stopping" /\ caller'.pc = "discarding" /\ caller'.items = caller.items
<1>1. UNCHANGED <<item, intent, told, gate, parked, active, admitting, disp, steer, turn, exec>>
  BY DEF PauseForCancel, durable, gates, owned
<1>2. /\ caller.pc = "stopping" /\ caller'.pc = "discarding" /\ caller'.items = caller.items
  BY DEF PauseForCancel, CallerSet, TypeInv, DispOK, SteerOK, CallerOK, TurnOK, ExecOK
<1> QED BY <1>1, <1>2

LEMMA DiscardDoes ==
  ASSUME TypeInv, Discard
  PROVE  /\ UNCHANGED <<intent, paused, told, gate, parked, active, admitting, disp, steer, turn, exec>>
         /\ caller.pc = "discarding"
         /\ \/ caller'.pc = "idle" /\ UNCHANGED item
            \/ /\ \A i \in caller.items : item[i] \notin InFlight
               /\ Sets(caller.items, "deleted") /\ caller'.pc = "resuming"
<1>1. UNCHANGED <<intent, paused, told, gate, parked, active, admitting, disp, steer, turn, exec>>
  BY DEF Discard, durable, gates, owned
<1>2. caller.pc = "discarding"
  BY DEF Discard
<1>3. CASE Return /\ UNCHANGED item
  BY <1>1, <1>2, <1>3 DEF Return, IdleCall
<1>4. CASE /\ ~\E i \in caller.items : item[i] \in InFlight
           /\ SetState(caller.items, "deleted") /\ caller' = [caller EXCEPT !.pc = "resuming"]
  <2>1. caller'.pc = "resuming"
    BY <1>4 DEF TypeInv, CallerOK, CallerSet
  <2>2. Sets(caller.items, "deleted")
    BY <1>4 DEF SetState, Sets
  <2> QED BY <1>1, <1>2, <1>4, <2>1, <2>2
<1> QED BY <1>3, <1>4 DEF Discard

LEMMA ResumeAfterCancelDoes ==
  ASSUME TypeInv, ResumeAfterCancel
  PROVE  /\ UNCHANGED <<item, intent, told, gate, parked, active, admitting, disp, steer, turn, exec>>
         /\ caller.pc = "resuming" /\ caller'.pc = "idle"
<1>1. UNCHANGED <<item, intent, told, gate, parked, active, admitting, disp, steer, turn, exec>>
  BY DEF ResumeAfterCancel, durable, gates, owned
<1>2. /\ caller.pc = "resuming" /\ caller'.pc = "idle"
  BY DEF ResumeAfterCancel, Return, IdleCall, TypeInv, DispOK, SteerOK, CallerOK, TurnOK, ExecOK
<1> QED BY <1>1, <1>2

LEMMA DeleteItemDoes ==
  ASSUME TypeInv, NEW i \in Item, DeleteItem(i)
  PROVE  /\ UNCHANGED <<intent, paused, told, gate, parked, active, admitting, disp, steer, caller, turn, exec>>
         /\ item[i] \in Pending /\ item' = [item EXCEPT ![i] = "deleted"]
<1>1. UNCHANGED <<intent, paused, told, gate, parked, active, admitting, disp, steer, caller, turn, exec>>
  BY DEF DeleteItem, durable, gates, owned
<1>2. /\ item[i] \in Pending /\ item' = [item EXCEPT ![i] = "deleted"]
  BY DEF DeleteItem, TypeInv, DispOK, SteerOK, CallerOK, TurnOK, ExecOK
<1> QED BY <1>1, <1>2

LEMMA RetryItemDoes ==
  ASSUME TypeInv, NEW i \in Item, RetryItem(i)
  PROVE  /\ UNCHANGED <<intent, paused, gate, parked, active, admitting, steer, caller, turn, exec>>
         /\ item[i] \in {"uncertain", "blocked"} /\ Sets({i}, "queued") /\ Kick
         /\ told' = [told EXCEPT ![i] = 0]
<1>1. UNCHANGED <<intent, paused, gate, parked, active, admitting, steer, caller, turn, exec>>
  BY DEF RetryItem, durable, gates, owned
<1>2. /\ item[i] \in {"uncertain", "blocked"} /\ Sets({i}, "queued") /\ Kick
      /\ told' = [told EXCEPT ![i] = 0]
  BY DEF RetryItem, Sets, SetState, TypeInv, DispOK, SteerOK, CallerOK, TurnOK, ExecOK
<1> QED BY <1>1, <1>2

LEMMA PauseDoes ==
  ASSUME TypeInv, Pause
  PROVE  /\ UNCHANGED <<item, intent, told, gate, parked, active, admitting, disp, steer, caller, turn, exec>>
<1>1. UNCHANGED <<item, intent, told, gate, parked, active, admitting, disp, steer, caller, turn, exec>>
  BY DEF Pause, durable, gates, owned
<1> QED BY <1>1

LEMMA ResumeDoes ==
  ASSUME TypeInv, Resume
  PROVE  /\ UNCHANGED <<item, intent, told, gate, parked, active, admitting, steer, caller, turn, exec>>
         /\ Kick
<1>1. UNCHANGED <<item, intent, told, gate, parked, active, admitting, steer, caller, turn, exec>>
  BY DEF Resume, durable, gates, owned
<1>2. /\ Kick
  BY DEF Resume, TypeInv, DispOK, SteerOK, CallerOK, TurnOK, ExecOK
<1> QED BY <1>1, <1>2

LEMMA SnapshotDoes ==
  ASSUME TypeInv, Snapshot
  PROVE  /\ UNCHANGED <<intent, told, gate, parked, active, admitting, disp, steer, caller, turn, exec>>
         /\ Sets(Orphans, "uncertain")
<1>1. UNCHANGED <<intent, told, gate, parked, active, admitting, disp, steer, caller, turn, exec>>
  BY DEF Snapshot, durable, gates, owned
<1>2. /\ Sets(Orphans, "uncertain")
  BY DEF Snapshot, RecoverOrphaned, Sets, SetState, TypeInv, DispOK, SteerOK, CallerOK,
         TurnOK, ExecOK
<1> QED BY <1>1, <1>2

LEMMA CrashDoes ==
  ASSUME TypeInv, Crash
  PROVE  /\ UNCHANGED <<intent, told>>
         /\ \A i \in Item : item'[i] = IF item[i] \in InFlight THEN "uncertain" ELSE item[i]
         /\ gate' = "open" /\ active' = {} /\ admitting' = {}
         /\ disp'.pc = "off" /\ steer'.pc = "idle" /\ caller'.pc = "idle"
         /\ \A t \in Turn : turn'[t].pc = "none" /\ turn'[t].mine = NoItem
         /\ ~exec'.intake /\ exec'.queue = {} /\ exec'.taken = NoItem
         /\ exec'.flush = {} /\ exec'.unread = NoItem
<1>1. UNCHANGED <<intent, told>>
  BY DEF Crash, durable, gates, owned
<1>2. /\ \A i \in Item : item'[i] = IF item[i] \in InFlight THEN "uncertain" ELSE item[i]
      /\ gate' = "open" /\ active' = {} /\ admitting' = {}
      /\ disp'.pc = "off" /\ steer'.pc = "idle" /\ caller'.pc = "idle"
      /\ \A t \in Turn : turn'[t].pc = "none" /\ turn'[t].mine = NoItem
      /\ ~exec'.intake /\ exec'.queue = {} /\ exec'.taken = NoItem
      /\ exec'.flush = {} /\ exec'.unread = NoItem
  BY DEF Crash, Restarted, IdleDisp, IdleSteer, IdleCall, IdleTurn, IdleExec, TypeInv,
         DispOK, SteerOK, CallerOK, TurnOK, ExecOK
<1> QED BY <1>1, <1>2

-----------------------------------------------------------------------------
\* The invariants.

\* The constants of a session whose turns are guarded: no editor prompt runs a
\* turn of its own (ACP session/prompt), no guidance is dropped, and none is
\* steered a second time.  Each of the three, added to all the other verbs, breaks
\* InFlightIsOwned, TurnIsDurable, UnfinishedIsDurable and AckedWasDelivered, and
\* the last two DeliveredOnce as well: TLC finds the behaviours with one item.
Guarded == {"sync", "drop", "resteer"} \cap Verbs = {}

\* The gate and the program counters agree: one party at most is between taking
\* the gate and giving it back.
GateAgrees ==
  /\ turn["async"].pc \in {"none", "run", "done", "acking", "spoiling", "close"}
  /\ disp.pc = "start" =>
       gate = "running" /\ turn["async"].pc = "none" /\ turn["sync"].pc \notin {"claiming", "run"}
  /\ turn["async"].pc = "run" => gate = "running" /\ turn["sync"].pc \notin {"claiming", "run"}
  /\ turn["sync"].pc \in {"claiming", "run"} => gate = "running"
  /\ turn["async"].pc \notin {"none", "run"} => gate = "finishing"

\* admissionMu has one holder.
OneAdmission ==
  disp.pc \in {"claim", "admit", "requeue", "start"} => steer.pc \in {"idle", "wants"}

\* Who has an item: the agent (queued, taken or being flushed), the dispatcher,
\* the steering call, or, once told, the turn that must answer for it.
Held == exec.queue \cup ({exec.taken} \ {NoItem}) \cup exec.flush
DispHas(i) == disp.pc \in {"admit", "requeue", "start"} /\ disp.item = i
SteerHas(i) == steer.pc \in {"admit", "reject"} /\ steer.item = i
Told(i) == item[i] \in {"running", "consumed"} /\ told[i] = 1
TurnHas(i) == i \in active /\ Told(i) /\ (Async.pc \in {"acking", "spoiling"} => i \in Async.left)

\* Without prompts and drops no second turn and no drop is under way.
NoSync == turn["sync"].pc = "none" /\ caller.pc \notin {"dropping", "withdrawing"}

\* The agent's queue lives inside a run, and what it has is in one place.
AgentInRun ==
  /\ Async.pc # "run" => ~exec.intake /\ exec.flush = {} /\ exec.unread = NoItem
  /\ ~exec.intake => exec.queue = {} /\ exec.taken = NoItem
  /\ exec.taken # NoItem => exec.flush = {} /\ exec.unread = NoItem /\ exec.taken \notin exec.queue
  /\ exec.queue \cap exec.flush = {}
  /\ exec.unread \notin exec.queue \cup exec.flush

\* What the dispatcher claimed waits, undelivered and marked as being admitted.
DispatchedWaits == \A i \in Item : DispHas(i) => item[i] = "running" /\ told[i] = 0 /\ i \in admitting

\* So does accepted guidance; it is not with the agent before it is handed over.
SteeredWaits ==
  /\ \A i \in Item : SteerHas(i) => item[i] = "accepted" /\ told[i] = 0 /\ i \in admitting
  /\ steer.pc = "accept" => item[steer.item] \in {"queued", "deleted"}
  /\ steer.pc # "idle" => /\ item[steer.item] # "absent"
                          /\ steer.item \notin Held \cup {exec.unread}

\* What the agent holds is accepted, undelivered and active.
HeldWaits ==
  /\ \A i \in Held : item[i] = "accepted" /\ told[i] = 0 /\ i \in active
  /\ exec.unread # NoItem => item[exec.unread] # "absent" /\ told[exec.unread] = 0

\* Nothing in flight is without an owner.
InFlightAccounted ==
  \A i \in Item : item[i] \in InFlight => DispHas(i) \/ SteerHas(i) \/ i \in Held \/ TurnHas(i)

\* A running turn's own item is running and delivered once.
TurnOwnsItsItem ==
  Async.pc = "run" /\ Async.mine # NoItem =>
    item[Async.mine] = "running" /\ told[Async.mine] = 1 /\ Async.mine \in active

\* The active items are the ones the turn answers for.
ActiveAccounted ==
  /\ Async.pc \in {"none", "close"} => active = {}
  /\ Async.pc \in {"run", "done"} => \A i \in active : i \in Held \cup {exec.unread} \/ Told(i)
  /\ Async.pc \in {"acking", "spoiling"} => /\ Async.ids = active /\ Async.left \subseteq active
                                            /\ \A i \in Async.left : Told(i)

\* Delivery and the recorded state agree.
ToldAgrees ==
  \A i \in Item : /\ told[i] <= 1
                  /\ item[i] \in {"absent", "queued"} => told[i] = 0
                  /\ item[i] = "acked" => told[i] = 1

\* The gate and the lock, whatever the environment does.
Locks == GateAgrees /\ OneAdmission

\* The guarded session.
GParts ==
  /\ NoSync /\ AgentInRun /\ DispatchedWaits /\ SteeredWaits
  /\ HeldWaits /\ InFlightAccounted /\ TurnOwnsItsItem /\ ActiveAccounted /\ ToldAgrees

\* A part whose variables do not change still holds.
LEMMA Frames ==
  /\ GateAgrees /\ UNCHANGED <<gate, disp, turn>> => GateAgrees'
  /\ OneAdmission /\ UNCHANGED <<disp, steer>> => OneAdmission'
  /\ NoSync /\ UNCHANGED <<turn, caller>> => NoSync'
  /\ AgentInRun /\ UNCHANGED <<turn, exec>> => AgentInRun'
  /\ DispatchedWaits /\ UNCHANGED <<disp, item, told, admitting>> => DispatchedWaits'
  /\ SteeredWaits /\ UNCHANGED <<steer, item, told, admitting, exec>> => SteeredWaits'
  /\ HeldWaits /\ UNCHANGED <<exec, item, told, active>> => HeldWaits'
  /\ InFlightAccounted /\ UNCHANGED <<item, told, active, turn, disp, steer, exec>> => InFlightAccounted'
  /\ TurnOwnsItsItem /\ UNCHANGED <<turn, item, told, active>> => TurnOwnsItsItem'
  /\ ActiveAccounted /\ UNCHANGED <<turn, active, exec, item, told>> => ActiveAccounted'
  /\ ToldAgrees /\ UNCHANGED <<item, told>> => ToldAgrees'
BY DEF GateAgrees, OneAdmission, NoSync, AgentInRun, DispatchedWaits, SteeredWaits,
       HeldWaits, InFlightAccounted, TurnOwnsItsItem, ActiveAccounted, ToldAgrees, DispHas,
       SteerHas, TurnHas, Held, Told, Async, Sync

-----------------------------------------------------------------------------
\* The inductive steps, one case per action.

\* No step, of any party, breaks the gate or the lock.
LEMMA LocksStep ==
  ASSUME TypeInv, Locks, [Next]_vars
  PROVE  Locks'
<1> USE DEF Locks, TypeInv
<1>1. CASE BeginPass
  <2>1. GateAgrees'
    BY <1>1, BeginPassDoes DEF GateAgrees, Async, Sync, Moves, Turn, TypeInv
  <2>2. OneAdmission'
    BY <1>1, BeginPassDoes DEF OneAdmission, AdmissionFree, TypeInv
  <2> QED BY <2>1, <2>2 DEF Locks
<1>2. CASE DispatchOnce
  <2>1. GateAgrees'
    BY <1>2, DispatchOnceDoes DEF GateAgrees, Async, Sync, Moves, Turn, TypeInv
  <2>2. OneAdmission'
    BY <1>2, DispatchOnceDoes DEF OneAdmission, AdmissionFree, TypeInv
  <2> QED BY <2>1, <2>2 DEF Locks
<1>3. CASE Submit
  <2>1. GateAgrees'
    BY <1>3, SubmitDoes DEF GateAgrees, Async, Sync, Moves, Turn, TypeInv
  <2>2. OneAdmission'
    BY <1>3, SubmitDoes DEF OneAdmission, AdmissionFree, TypeInv
  <2> QED BY <2>1, <2>2 DEF Locks
<1>4. CASE SubmitBlocked
  <2>1. GateAgrees'
    BY <1>4, SubmitBlockedDoes DEF GateAgrees, Async, Sync, Moves, Turn, TypeInv
  <2>2. OneAdmission'
    BY <1>4, SubmitBlockedDoes DEF OneAdmission, AdmissionFree, TypeInv
  <2> QED BY <2>1, <2>2 DEF Locks
<1>5. CASE SubmitUnwritable
  <2>1. GateAgrees'
    BY <1>5, SubmitUnwritableDoes DEF GateAgrees, Async, Sync, Moves, Turn, TypeInv
  <2>2. OneAdmission'
    BY <1>5, SubmitUnwritableDoes DEF OneAdmission, AdmissionFree, TypeInv
  <2> QED BY <2>1, <2>2 DEF Locks
<1>6. CASE Claim
  <2>1. GateAgrees'
    BY <1>6, ClaimDoes DEF GateAgrees, Async, Sync, Moves, Turn, TypeInv
  <2>2. OneAdmission'
    BY <1>6, ClaimDoes DEF OneAdmission, AdmissionFree, TypeInv
  <2> QED BY <2>1, <2>2 DEF Locks
<1>7. CASE Admit
  <2>1. GateAgrees'
    BY <1>7, AdmitDoes DEF GateAgrees, Async, Sync, Moves, Turn, TypeInv
  <2>2. OneAdmission'
    BY <1>7, AdmitDoes DEF OneAdmission, AdmissionFree, TypeInv
  <2> QED BY <2>1, <2>2 DEF Locks
<1>8. CASE Requeue
  <2>1. GateAgrees'
    BY <1>8, RequeueDoes DEF GateAgrees, Async, Sync, Moves, Turn, TypeInv
  <2>2. OneAdmission'
    BY <1>8, RequeueDoes DEF OneAdmission, AdmissionFree, TypeInv
  <2> QED BY <2>1, <2>2 DEF Locks
<1>9. CASE StartTurn
  <2>1. GateAgrees'
    BY <1>9, StartTurnDoes DEF GateAgrees, Async, Sync, Moves, Turn, TypeInv
  <2>2. OneAdmission'
    BY <1>9, StartTurnDoes DEF OneAdmission, AdmissionFree, TypeInv
  <2> QED BY <2>1, <2>2 DEF Locks
<1>10. CASE RetryTimer
  <2>1. GateAgrees'
    BY <1>10, RetryTimerDoes DEF GateAgrees, Async, Sync, Moves, Turn, TypeInv
  <2>2. OneAdmission'
    BY <1>10, RetryTimerDoes DEF OneAdmission, AdmissionFree, TypeInv
  <2> QED BY <2>1, <2>2 DEF Locks
<1>11. CASE OpenIntake
  BY <1>11, OpenIntakeDoes, Frames DEF Locks
<1>12. ASSUME NEW i \in Item, TakeSteer(i) PROVE Locks'
  BY <1>12, TakeSteerDoes, Frames DEF Locks
<1>13. CASE ConsumeSteer
  BY <1>13, ConsumeSteerDoes, Frames DEF Locks
<1>14. CASE LoadFails
  BY <1>14, LoadFailsDoes, Frames DEF Locks
<1>15. CASE CloseIntake
  BY <1>15, CloseIntakeDoes, Frames DEF Locks
<1>16. ASSUME NEW i \in Item, MarkUnapplied(i) PROVE Locks'
  BY <1>16, MarkUnappliedDoes, Frames DEF Locks
<1>17. CASE PauseUnapplied
  BY <1>17, PauseUnappliedDoes, Frames DEF Locks
<1>18. ASSUME NEW t \in Turn, EndTurn(t) PROVE Locks'
  <2>1. GateAgrees'
    BY <1>18, EndTurnDoes DEF GateAgrees, Async, Sync, Moves, Turn, TypeInv
  <2> QED BY <2>1, <1>18, EndTurnDoes, Frames DEF Locks
<1>19. ASSUME NEW t \in Turn, CollectActive(t) PROVE Locks'
  <2>1. GateAgrees'
    BY <1>19, CollectActiveDoes DEF GateAgrees, Async, Sync, Moves, Turn, TypeInv
  <2> QED BY <2>1, <1>19, CollectActiveDoes, Frames DEF Locks
<1>20. ASSUME NEW t \in Turn, NEW i \in Item, SpoilItem(t, i) PROVE Locks'
  <2>1. GateAgrees'
    BY <1>20, SpoilItemDoes DEF GateAgrees, Async, Sync, Moves, Turn, TypeInv
  <2> QED BY <2>1, <1>20, SpoilItemDoes, Frames DEF Locks
<1>21. ASSUME NEW t \in Turn, NEW i \in Item, AckItem(t, i) PROVE Locks'
  <2>1. GateAgrees'
    BY <1>21, AckItemDoes DEF GateAgrees, Async, Sync, Moves, Turn, TypeInv
  <2> QED BY <2>1, <1>21, AckItemDoes, Frames DEF Locks
<1>22. ASSUME NEW t \in Turn, Untrack(t) PROVE Locks'
  <2>1. GateAgrees'
    BY <1>22, UntrackDoes DEF GateAgrees, Async, Sync, Moves, Turn, TypeInv
  <2> QED BY <2>1, <1>22, UntrackDoes, Frames DEF Locks
<1>23. ASSUME NEW t \in Turn, CloseTurn(t) PROVE Locks'
  <2>1. GateAgrees'
    BY <1>23, CloseTurnDoes, KickType DEF GateAgrees, Async, Sync, Moves, Turn, TypeInv
  <2>2. OneAdmission'
    BY <1>23, CloseTurnDoes, KickType DEF OneAdmission, AdmissionFree, TypeInv
  <2> QED BY <2>1, <2>2 DEF Locks
<1>24. CASE Drain
  <2>1. GateAgrees'
    BY <1>24, DrainDoes DEF GateAgrees, Async, Sync, Moves, Turn, TypeInv
  <2> QED BY <2>1, <1>24, DrainDoes, Frames DEF Locks
<1>25. CASE RunInboxTurn
  <2>1. GateAgrees'
    BY <1>25, RunInboxTurnDoes DEF GateAgrees, Async, Sync, Moves, Turn, TypeInv
  <2> QED BY <2>1, <1>25, RunInboxTurnDoes, Frames DEF Locks
<1>26. CASE ClaimSync
  <2>1. GateAgrees'
    BY <1>26, ClaimSyncDoes DEF GateAgrees, Async, Sync, Moves, Turn, TypeInv
  <2> QED BY <2>1, <1>26, ClaimSyncDoes, Frames DEF Locks
<1>27. CASE SubmitPrompt
  <2>1. GateAgrees'
    BY <1>27, SubmitPromptDoes DEF GateAgrees, Async, Sync, Moves, Turn, TypeInv
  <2> QED BY <2>1, <1>27, SubmitPromptDoes, Frames DEF Locks
<1>28. CASE Prompt
  <2>1. GateAgrees'
    BY <1>28, PromptDoes DEF GateAgrees, Async, Sync, Moves, Turn, TypeInv
  <2> QED BY <2>1, <1>28, PromptDoes, Frames DEF Locks
<1>29. CASE BeginRotation
  <2>1. GateAgrees'
    BY <1>29, BeginRotationDoes DEF GateAgrees, Async, Sync, Moves, Turn, TypeInv
  <2> QED BY <2>1, <1>29, BeginRotationDoes, Frames DEF Locks
<1>30. CASE EndRotation
  <2>1. GateAgrees'
    BY <1>30, EndRotationDoes, KickType DEF GateAgrees, Async, Sync, Moves, Turn, TypeInv
  <2>2. OneAdmission'
    BY <1>30, EndRotationDoes, KickType DEF OneAdmission, AdmissionFree, TypeInv
  <2> QED BY <2>1, <2>2 DEF Locks
<1>31. ASSUME NEW i \in Item, EnqueueSteer(i) PROVE Locks'
  <2>1. OneAdmission'
    BY <1>31, EnqueueSteerDoes DEF OneAdmission, AdmissionFree, TypeInv
  <2> QED BY <2>1, <1>31, EnqueueSteerDoes, Frames DEF Locks
<1>32. ASSUME NEW i \in Item, SteerAgain(i) PROVE Locks'
  <2>1. OneAdmission'
    BY <1>32, SteerAgainDoes DEF OneAdmission, AdmissionFree, TypeInv
  <2> QED BY <2>1, <1>32, SteerAgainDoes, Frames DEF Locks
<1>33. CASE ReadCandidate
  <2>1. GateAgrees'
    BY <1>33, ReadCandidateDoes, KickType DEF GateAgrees, Async, Sync, Moves, Turn, TypeInv
  <2>2. OneAdmission'
    BY <1>33, ReadCandidateDoes, KickType DEF OneAdmission, AdmissionFree, TypeInv
  <2> QED BY <2>1, <2>2 DEF Locks
<1>34. CASE AcceptDurably
  <2>1. OneAdmission'
    BY <1>34, AcceptDurablyDoes DEF OneAdmission, AdmissionFree, TypeInv
  <2> QED BY <2>1, <1>34, AcceptDurablyDoes, Frames DEF Locks
<1>35. CASE AdmitSteer
  <2>1. OneAdmission'
    BY <1>35, AdmitSteerDoes DEF OneAdmission, AdmissionFree, TypeInv
  <2> QED BY <2>1, <1>35, AdmitSteerDoes, Frames DEF Locks
<1>36. CASE RejectSteer
  <2>1. OneAdmission'
    BY <1>36, RejectSteerDoes DEF OneAdmission, AdmissionFree, TypeInv
  <2> QED BY <2>1, <1>36, RejectSteerDoes, Frames DEF Locks
<1>37. CASE ConvertSteer
  <2>1. GateAgrees'
    BY <1>37, ConvertSteerDoes, KickType DEF GateAgrees, Async, Sync, Moves, Turn, TypeInv
  <2>2. OneAdmission'
    BY <1>37, ConvertSteerDoes, KickType DEF OneAdmission, AdmissionFree, TypeInv
  <2> QED BY <2>1, <2>2 DEF Locks
<1>38. ASSUME NEW i \in Item, Enqueue(i) PROVE Locks'
  BY <1>38, EnqueueDoes, Frames DEF Locks
<1>39. ASSUME NEW i \in Item, EnqueueBlocked(i) PROVE Locks'
  BY <1>39, EnqueueBlockedDoes, Frames DEF Locks
<1>40. CASE PauseEnqueued
  BY <1>40, PauseEnqueuedDoes, Frames DEF Locks
<1>41. CASE KickIfIdle
  <2>1. GateAgrees'
    BY <1>41, KickIfIdleDoes, KickType DEF GateAgrees, Async, Sync, Moves, Turn, TypeInv
  <2>2. OneAdmission'
    BY <1>41, KickIfIdleDoes, KickType DEF OneAdmission, AdmissionFree, TypeInv
  <2> QED BY <2>1, <2>2 DEF Locks
<1>42. ASSUME NEW i \in Item, DropSteer(i) PROVE Locks'
  BY <1>42, DropSteerDoes, Frames DEF Locks
<1>43. CASE UntrackDropped
  BY <1>43, UntrackDroppedDoes, Frames DEF Locks
<1>44. CASE CancelAcceptedSteer
  BY <1>44, CancelAcceptedSteerDoes, Frames DEF Locks
<1>45. ASSUME NEW S \in SUBSET Item, BeginCancel(S) PROVE Locks'
  BY <1>45, BeginCancelDoes, Frames DEF Locks
<1>46. CASE PauseForCancel
  BY <1>46, PauseForCancelDoes, Frames DEF Locks
<1>47. CASE Discard
  BY <1>47, DiscardDoes, Frames DEF Locks
<1>48. CASE ResumeAfterCancel
  BY <1>48, ResumeAfterCancelDoes, Frames DEF Locks
<1>49. ASSUME NEW i \in Item, DeleteItem(i) PROVE Locks'
  BY <1>49, DeleteItemDoes, Frames DEF Locks
<1>50. ASSUME NEW i \in Item, RetryItem(i) PROVE Locks'
  <2>1. GateAgrees'
    BY <1>50, RetryItemDoes, KickType DEF GateAgrees, Async, Sync, Moves, Turn, TypeInv
  <2>2. OneAdmission'
    BY <1>50, RetryItemDoes, KickType DEF OneAdmission, AdmissionFree, TypeInv
  <2> QED BY <2>1, <2>2 DEF Locks
<1>51. CASE Pause
  BY <1>51, PauseDoes, Frames DEF Locks
<1>52. CASE Resume
  <2>1. GateAgrees'
    BY <1>52, ResumeDoes, KickType DEF GateAgrees, Async, Sync, Moves, Turn, TypeInv
  <2>2. OneAdmission'
    BY <1>52, ResumeDoes, KickType DEF OneAdmission, AdmissionFree, TypeInv
  <2> QED BY <2>1, <2>2 DEF Locks
<1>53. CASE Snapshot
  BY <1>53, SnapshotDoes, Frames DEF Locks
<1>54. CASE Crash
  <2>1. GateAgrees'
    BY <1>54, CrashDoes DEF GateAgrees, Async, Sync, Moves, Turn, TypeInv
  <2>2. OneAdmission'
    BY <1>54, CrashDoes DEF OneAdmission, AdmissionFree, TypeInv
  <2> QED BY <2>1, <2>2 DEF Locks
<1>55. CASE UNCHANGED vars
  BY <1>55, Frames, Unchanged DEF Locks, vars, durable, gates, owned
<1> QED BY <1>1, <1>2, <1>3, <1>4, <1>5, <1>6, <1>7, <1>8, <1>9, <1>10, <1>11, <1>12, <1>13,
           <1>14, <1>15, <1>16, <1>17, <1>18, <1>19, <1>20, <1>21, <1>22, <1>23, <1>24,
           <1>25, <1>26, <1>27, <1>28, <1>29, <1>30, <1>31, <1>32, <1>33, <1>34, <1>35,
           <1>36, <1>37, <1>38, <1>39, <1>40, <1>41, <1>42, <1>43, <1>44, <1>45, <1>46,
           <1>47, <1>48, <1>49, <1>50, <1>51, <1>52, <1>53, <1>54, <1>55
       DEF Next, DispatcherStep, ExecStep, FinishStep, SyncStep, SteerStep, CallStep, UserStep

\* A guarded session has no orphan for a new steering call to mark uncertain.
LEMMA NoOrphans == ASSUME TypeInv, GParts PROVE Orphans = {}
BY DEF GParts, DispatchedWaits, SteeredWaits, HeldWaits, InFlightAccounted, DispHas,
       SteerHas, TurnHas, Orphans, Owned

\* A step of a guarded session keeps the accounting.
LEMMA GStep ==
  ASSUME Guarded, TypeInv, Locks, GParts, [Next]_vars
  PROVE  GParts'
<1> USE DEF GParts
<1>1. CASE BeginPass
  <2>1. DispatchedWaits'
    BY <1>1, BeginPassDoes DEF DispatchedWaits, DispHas
  <2>2. InFlightAccounted'
    BY <1>1, BeginPassDoes DEF InFlightAccounted, DispHas, SteerHas, TurnHas, Told, Held, Async
  <2> QED BY <2>1, <2>2, <1>1, BeginPassDoes, Frames DEF GParts
<1>2. CASE DispatchOnce
  <2>1. DispatchedWaits'
    BY <1>2, DispatchOnceDoes DEF DispatchedWaits, DispHas
  <2>2. InFlightAccounted'
    BY <1>2, DispatchOnceDoes DEF InFlightAccounted, DispHas, SteerHas, TurnHas, Told, Held, Async
  <2> QED BY <2>1, <2>2, <1>2, DispatchOnceDoes, Frames DEF GParts
<1>3. CASE Submit
  <2>1. DispatchedWaits'
    BY <1>3, SubmitDoes DEF DispatchedWaits, DispHas, AdmissionFree
  <2>2. InFlightAccounted'
    BY <1>3, SubmitDoes
    DEF InFlightAccounted, DispHas, SteerHas, TurnHas, Told, Held, Async, AdmissionFree
  <2> QED BY <2>1, <2>2, <1>3, SubmitDoes, Frames DEF GParts
<1>4. CASE SubmitBlocked
  <2>1. DispatchedWaits'
    BY <1>4, SubmitBlockedDoes
    DEF DispatchedWaits, DispHas, Sets, AdmissionFree, InFlight, Present, Pending
  <2>2. SteeredWaits'
    <3>1. steer.pc \in {"idle", "wants"} /\ steer' = steer /\ exec' = exec
      BY <1>4, SubmitBlockedDoes DEF AdmissionFree
    <3>2. steer.pc # "idle" => item'[steer.item] # "absent"
      BY <1>4, <3>1, SubmitBlockedDoes DEF Sets, TypeInv, DurableOK, SteerOK, SteeredWaits
    <3> QED BY <3>1, <3>2 DEF SteeredWaits, SteerHas, Held
  <2>3. HeldWaits'
    BY <1>4, SubmitBlockedDoes
    DEF HeldWaits, Held, Sets, AdmissionFree, InFlight, Present, Pending, TypeInv,
        DurableOK, ExecOK, ExecSet
  <2>4. InFlightAccounted'
    BY <1>4, SubmitBlockedDoes
    DEF InFlightAccounted, DispHas, SteerHas, TurnHas, Told, Held, Async, Sets,
        AdmissionFree, InFlight, Present, Pending
  <2>5. TurnOwnsItsItem'
    BY <1>4, SubmitBlockedDoes DEF TurnOwnsItsItem, Async, Sets, TypeInv, OwnedOK
  <2>6. ActiveAccounted'
    BY <1>4, SubmitBlockedDoes DEF ActiveAccounted, Async, Told, Held, Sets, TypeInv, OwnedOK
  <2>7. ToldAgrees'
    BY <1>4, SubmitBlockedDoes DEF ToldAgrees, Sets, AdmissionFree, InFlight, Present, Pending
  <2> QED BY <2>1, <2>2, <2>3, <2>4, <2>5, <2>6, <2>7, <1>4, SubmitBlockedDoes, Frames DEF GParts
<1>5. CASE SubmitUnwritable
  <2>1. DispatchedWaits'
    BY <1>5, SubmitUnwritableDoes DEF DispatchedWaits, DispHas
  <2>2. InFlightAccounted'
    BY <1>5, SubmitUnwritableDoes
    DEF InFlightAccounted, DispHas, SteerHas, TurnHas, Told, Held, Async
  <2> QED BY <2>1, <2>2, <1>5, SubmitUnwritableDoes, Frames DEF GParts
<1>6. CASE Claim
  <2>1. DispatchedWaits'
    BY <1>6, ClaimDoes DEF DispatchedWaits, DispHas, Sets, InFlight, Present, Pending, ToldAgrees
  <2>2. SteeredWaits'
    BY <1>6, ClaimDoes
    DEF SteeredWaits, SteerHas, Held, Sets, TypeInv, DispOK, SteerOK, Locks, GateAgrees,
        OneAdmission
  <2>3. HeldWaits'
    BY <1>6, ClaimDoes
    DEF HeldWaits, Held, Sets, InFlight, Present, Pending, TypeInv, DurableOK, ExecOK,
        ExecSet, OwnedOK
  <2>4. InFlightAccounted'
    BY <1>6, ClaimDoes
    DEF InFlightAccounted, DispHas, SteerHas, TurnHas, Told, Held, Async, Sets, InFlight,
        Present, Pending
  <2>5. TurnOwnsItsItem'
    BY <1>6, ClaimDoes
    DEF TurnOwnsItsItem, Async, Sets, InFlight, Present, Pending, TypeInv, DurableOK,
        OwnedOK
  <2>6. ActiveAccounted'
    BY <1>6, ClaimDoes
    DEF ActiveAccounted, Async, Told, Held, Sets, InFlight, Present, Pending, TypeInv,
        DurableOK, ExecOK, ExecSet, OwnedOK
  <2>7. ToldAgrees'
    BY <1>6, ClaimDoes DEF ToldAgrees, Sets, InFlight, Present, Pending
  <2> QED BY <2>1, <2>2, <2>3, <2>4, <2>5, <2>6, <2>7, <1>6, ClaimDoes, Frames DEF GParts
<1>7. CASE Admit
  <2>1. DispatchedWaits'
    BY <1>7, AdmitDoes DEF DispatchedWaits, DispHas
  <2>2. InFlightAccounted'
    BY <1>7, AdmitDoes DEF InFlightAccounted, DispHas, SteerHas, TurnHas, Told, Held, Async
  <2> QED BY <2>1, <2>2, <1>7, AdmitDoes, Frames DEF GParts
<1>8. CASE Requeue
  <2>1. DispatchedWaits'
    BY <1>8, RequeueDoes DEF DispatchedWaits, DispHas, Sets, InFlight, Present, Pending
  <2>2. SteeredWaits'
    BY <1>8, RequeueDoes
    DEF SteeredWaits, SteerHas, Held, Sets, DispatchedWaits, DispHas, TypeInv, DispOK,
        SteerOK
  <2>3. HeldWaits'
    BY <1>8, RequeueDoes
    DEF HeldWaits, Held, Sets, DispatchedWaits, DispHas, TypeInv, ExecOK, ExecSet
  <2>4. InFlightAccounted'
    BY <1>8, RequeueDoes
    DEF InFlightAccounted, DispHas, SteerHas, TurnHas, Told, Held, Async, Sets, InFlight,
        Present, Pending
  <2>5. TurnOwnsItsItem'
    BY <1>8, RequeueDoes
    DEF TurnOwnsItsItem, Async, Sets, DispatchedWaits, DispHas, TypeInv, OwnedOK
  <2>6. ActiveAccounted'
    BY <1>8, RequeueDoes
    DEF ActiveAccounted, Async, Told, Held, Sets, DispatchedWaits, DispHas, TypeInv, OwnedOK
  <2>7. ToldAgrees'
    BY <1>8, RequeueDoes DEF ToldAgrees, Sets, DispatchedWaits, DispHas
  <2> QED BY <2>1, <2>2, <2>3, <2>4, <2>5, <2>6, <2>7, <1>8, RequeueDoes, Frames DEF GParts
<1>9. CASE StartTurn
  <2>1. NoSync'
    BY <1>9, StartTurnDoes DEF NoSync, Sync, Tells, Moves, Async, Turn
  <2>2. AgentInRun'
    BY <1>9, StartTurnDoes DEF AgentInRun, Async, Tells, Moves, Turn
  <2>3. DispatchedWaits'
    BY <1>9, StartTurnDoes DEF DispatchedWaits, DispHas, Tells, Moves, Async, Turn
  <2>4. SteeredWaits'
    BY <1>9, StartTurnDoes
    DEF SteeredWaits, SteerHas, Held, Tells, Moves, Locks, GateAgrees, OneAdmission
  <2>5. HeldWaits'
    BY <1>9, StartTurnDoes
    DEF HeldWaits, Held, Tells, Moves, Async, AgentInRun, Locks, GateAgrees, OneAdmission
  <2>6. InFlightAccounted'
    BY <1>9, StartTurnDoes
    DEF InFlightAccounted, DispHas, SteerHas, TurnHas, Told, Held, Tells, Moves,
        DispatchedWaits, TypeInv, DurableOK
  <2>7. TurnOwnsItsItem'
    BY <1>9, StartTurnDoes
    DEF TurnOwnsItsItem, Tells, Moves, DispatchedWaits, DispHas, TypeInv, DurableOK, DispOK
  <2>8. ActiveAccounted'
    BY <1>9, StartTurnDoes
    DEF ActiveAccounted, Async, Told, Tells, Moves, DispatchedWaits, DispHas, TypeInv,
        DurableOK, DispOK, Locks, GateAgrees, OneAdmission
  <2>9. ToldAgrees'
    BY <1>9, StartTurnDoes
    DEF ToldAgrees, Tells, Moves, DispatchedWaits, DispHas, TypeInv, DurableOK
  <2> QED BY <2>1, <2>2, <2>3, <2>4, <2>5, <2>6, <2>7, <2>8, <2>9 DEF GParts
<1>10. CASE RetryTimer
  <2>1. DispatchedWaits'
    BY <1>10, RetryTimerDoes DEF DispatchedWaits, DispHas
  <2>2. InFlightAccounted'
    BY <1>10, RetryTimerDoes DEF InFlightAccounted, DispHas, SteerHas, TurnHas, Told, Held, Async
  <2> QED BY <2>1, <2>2, <1>10, RetryTimerDoes, Frames DEF GParts
<1>11. CASE OpenIntake
  <2>1. AgentInRun'
    BY <1>11, OpenIntakeDoes DEF AgentInRun, Async, InRun, NoSync, Gone, Turn
  <2>2. SteeredWaits'
    BY <1>11, OpenIntakeDoes DEF SteeredWaits, SteerHas, Held, InRun
  <2>3. HeldWaits'
    BY <1>11, OpenIntakeDoes DEF HeldWaits, Held, InRun
  <2>4. InFlightAccounted'
    BY <1>11, OpenIntakeDoes
    DEF InFlightAccounted, DispHas, SteerHas, TurnHas, Told, Held, Async, InRun
  <2>5. ActiveAccounted'
    BY <1>11, OpenIntakeDoes DEF ActiveAccounted, Async, Told, Held, InRun
  <2> QED BY <2>1, <2>2, <2>3, <2>4, <2>5, <1>11, OpenIntakeDoes, Frames DEF GParts
<1>12. ASSUME NEW i \in Item, TakeSteer(i) PROVE GParts'
  <2>1. AgentInRun'
    BY <1>12, TakeSteerDoes DEF AgentInRun, Async
  <2>2. SteeredWaits'
    BY <1>12, TakeSteerDoes DEF SteeredWaits, SteerHas, Held
  <2>3. HeldWaits'
    BY <1>12, TakeSteerDoes DEF HeldWaits, Held
  <2>4. InFlightAccounted'
    BY <1>12, TakeSteerDoes DEF InFlightAccounted, DispHas, SteerHas, TurnHas, Told, Held, Async
  <2>5. ActiveAccounted'
    BY <1>12, TakeSteerDoes DEF ActiveAccounted, Async, Told, Held
  <2> QED BY <2>1, <2>2, <2>3, <2>4, <2>5, <1>12, TakeSteerDoes, Frames DEF GParts
<1>13. CASE ConsumeSteer
  <2>1. AgentInRun'
    BY <1>13, ConsumeSteerDoes DEF AgentInRun, Async, Sets, Tells, InFlight, Present, Pending
  <2>2. DispatchedWaits'
    BY <1>13, ConsumeSteerDoes
    DEF DispatchedWaits, DispHas, Sets, Tells, HeldWaits, Held, TypeInv, DurableOK
  <2>3. SteeredWaits'
    BY <1>13, ConsumeSteerDoes
    DEF SteeredWaits, SteerHas, Held, Sets, Tells, TypeInv, DurableOK, DispOK, SteerOK
  <2>4. HeldWaits'
    BY <1>13, ConsumeSteerDoes
    DEF HeldWaits, Held, Sets, Tells, AgentInRun, TypeInv, DurableOK, OwnedOK
  <2>5. InFlightAccounted'
    BY <1>13, ConsumeSteerDoes
    DEF InFlightAccounted, DispHas, SteerHas, TurnHas, Told, Held, Async, Sets, Tells,
        InFlight, Present, Pending, AgentInRun, HeldWaits, TypeInv, DurableOK
  <2>6. TurnOwnsItsItem'
    BY <1>13, ConsumeSteerDoes
    DEF TurnOwnsItsItem, Async, Sets, Tells, HeldWaits, Held, TypeInv, DurableOK, OwnedOK
  <2>7. ActiveAccounted'
    BY <1>13, ConsumeSteerDoes
    DEF ActiveAccounted, Async, Told, Held, Sets, Tells, InFlight, Present, Pending,
        HeldWaits, TypeInv, DurableOK, OwnedOK
  <2>8. ToldAgrees'
    BY <1>13, ConsumeSteerDoes DEF ToldAgrees, Sets, Tells, HeldWaits, Held, TypeInv, DurableOK
  <2> QED BY <2>1, <2>2, <2>3, <2>4, <2>5, <2>6, <2>7, <2>8, <1>13, ConsumeSteerDoes, Frames
          DEF GParts
<1>14. CASE LoadFails
  <2>1. AgentInRun'
    BY <1>14, LoadFailsDoes DEF AgentInRun, Async
  <2>2. SteeredWaits'
    BY <1>14, LoadFailsDoes DEF SteeredWaits, SteerHas, Held
  <2>3. HeldWaits'
    BY <1>14, LoadFailsDoes DEF HeldWaits, Held
  <2>4. InFlightAccounted'
    BY <1>14, LoadFailsDoes
    DEF InFlightAccounted, DispHas, SteerHas, TurnHas, Told, Held, Async, AgentInRun
  <2>5. ActiveAccounted'
    BY <1>14, LoadFailsDoes DEF ActiveAccounted, Async, Told, Held, AgentInRun
  <2> QED BY <2>1, <2>2, <2>3, <2>4, <2>5, <1>14, LoadFailsDoes, Frames DEF GParts
<1>15. CASE CloseIntake
  <2>1. AgentInRun'
    BY <1>15, CloseIntakeDoes DEF AgentInRun, Async
  <2>2. SteeredWaits'
    BY <1>15, CloseIntakeDoes DEF SteeredWaits, SteerHas, Held
  <2>3. HeldWaits'
    BY <1>15, CloseIntakeDoes DEF HeldWaits, Held
  <2>4. InFlightAccounted'
    BY <1>15, CloseIntakeDoes DEF InFlightAccounted, DispHas, SteerHas, TurnHas, Told, Held, Async
  <2>5. ActiveAccounted'
    BY <1>15, CloseIntakeDoes DEF ActiveAccounted, Async, Told, Held
  <2> QED BY <2>1, <2>2, <2>3, <2>4, <2>5, <1>15, CloseIntakeDoes, Frames DEF GParts
<1>16. ASSUME NEW i \in Item, MarkUnapplied(i) PROVE GParts'
  <2>1. AgentInRun'
    BY <1>16, MarkUnappliedDoes DEF AgentInRun, Async, Sets, InFlight, Present, Pending
  <2>2. DispatchedWaits'
    BY <1>16, MarkUnappliedDoes DEF DispatchedWaits, DispHas, Sets, HeldWaits, Held
  <2>3. SteeredWaits'
    BY <1>16, MarkUnappliedDoes DEF SteeredWaits, SteerHas, Held, Sets, TypeInv, DispOK, SteerOK
  <2>4. HeldWaits'
    BY <1>16, MarkUnappliedDoes DEF HeldWaits, Held, Sets, AgentInRun, TypeInv, ExecOK, ExecSet
  <2>5. InFlightAccounted'
    BY <1>16, MarkUnappliedDoes
    DEF InFlightAccounted, DispHas, SteerHas, TurnHas, Told, Held, Async, Sets, InFlight,
        Present, Pending
  <2>6. TurnOwnsItsItem'
    BY <1>16, MarkUnappliedDoes DEF TurnOwnsItsItem, Async, Sets, HeldWaits, Held, TypeInv, OwnedOK
  <2>7. ActiveAccounted'
    BY <1>16, MarkUnappliedDoes
    DEF ActiveAccounted, Async, Told, Held, Sets, HeldWaits, TypeInv, OwnedOK
  <2>8. ToldAgrees'
    BY <1>16, MarkUnappliedDoes DEF ToldAgrees, Sets, InFlight, Present, Pending
  <2> QED BY <2>1, <2>2, <2>3, <2>4, <2>5, <2>6, <2>7, <2>8, <1>16, MarkUnappliedDoes,
             Frames
          DEF GParts
<1>17. CASE PauseUnapplied
  <2>1. AgentInRun'
    BY <1>17, PauseUnappliedDoes DEF AgentInRun, Async, TypeInv, ExecOK, ExecSet, OwnedOK
  <2>2. SteeredWaits'
    BY <1>17, PauseUnappliedDoes DEF SteeredWaits, SteerHas, Held, TypeInv, DispOK, SteerOK
  <2>3. HeldWaits'
    BY <1>17, PauseUnappliedDoes DEF HeldWaits, Held, AgentInRun
  <2>4. InFlightAccounted'
    BY <1>17, PauseUnappliedDoes
    DEF InFlightAccounted, DispHas, SteerHas, TurnHas, Told, Held, Async, HeldWaits
  <2>5. TurnOwnsItsItem'
    BY <1>17, PauseUnappliedDoes DEF TurnOwnsItsItem, Async, HeldWaits
  <2>6. ActiveAccounted'
    BY <1>17, PauseUnappliedDoes DEF ActiveAccounted, Async, Told, Held, AgentInRun
  <2> QED BY <2>1, <2>2, <2>3, <2>4, <2>5, <2>6, <1>17, PauseUnappliedDoes, Frames DEF GParts
<1>18. ASSUME NEW t \in Turn, EndTurn(t) PROVE GParts'
  <2>1. NoSync'
    BY <1>18, EndTurnDoes DEF NoSync, Sync, Moves, Turn
  <2>2. AgentInRun'
    BY <1>18, EndTurnDoes DEF AgentInRun, Async, Moves, Turn
  <2>3. InFlightAccounted'
    BY <1>18, EndTurnDoes
    DEF InFlightAccounted, DispHas, SteerHas, TurnHas, Told, Held, Async, Moves, Turn
  <2>4. TurnOwnsItsItem'
    BY <1>18, EndTurnDoes DEF TurnOwnsItsItem, Async, Moves, Turn
  <2>5. ActiveAccounted'
    BY <1>18, EndTurnDoes DEF ActiveAccounted, Async, Told, Held, Moves, Turn
  <2> QED BY <2>1, <2>2, <2>3, <2>4, <2>5, <1>18, EndTurnDoes, Frames DEF GParts
<1>19. ASSUME NEW t \in Turn, CollectActive(t) PROVE GParts'
  <2>1. NoSync'
    BY <1>19, CollectActiveDoes DEF NoSync, Sync, Moves, Turn
  <2>2. AgentInRun'
    BY <1>19, CollectActiveDoes DEF AgentInRun, Async, Moves, Turn
  <2>3. InFlightAccounted'
    BY <1>19, CollectActiveDoes
    DEF InFlightAccounted, DispHas, SteerHas, TurnHas, Told, Held, Async, Moves, Turn
  <2>4. TurnOwnsItsItem'
    BY <1>19, CollectActiveDoes DEF TurnOwnsItsItem, Async, Moves, Turn
  <2>5. ActiveAccounted'
    BY <1>19, CollectActiveDoes
    DEF ActiveAccounted, Async, Told, Held, Moves, Turn, AgentInRun, TypeInv, OwnedOK, Gone
  <2> QED BY <2>1, <2>2, <2>3, <2>4, <2>5, <1>19, CollectActiveDoes, Frames DEF GParts
<1>20. ASSUME NEW t \in Turn, NEW i \in Item, SpoilItem(t, i) PROVE GParts'
  <2>1. NoSync'
    BY <1>20, SpoilItemDoes DEF NoSync, Sync, Sets, Moves, Turn, InFlight, Present, Pending
  <2>2. AgentInRun'
    BY <1>20, SpoilItemDoes DEF AgentInRun, Async, Sets, Moves, Turn, InFlight, Present, Pending
  <2>3. DispatchedWaits'
    BY <1>20, SpoilItemDoes
    DEF DispatchedWaits, DispHas, Sets, Moves, Turn, NoSync, ActiveAccounted, Async, Told,
        Gone
  <2>4. SteeredWaits'
    BY <1>20, SpoilItemDoes
    DEF SteeredWaits, SteerHas, Held, Sets, Moves, Turn, NoSync, ActiveAccounted, Async,
        Told, TypeInv, DispOK, SteerOK, Gone
  <2>5. HeldWaits'
    BY <1>20, SpoilItemDoes DEF HeldWaits, Held, Sets, Moves, Turn, NoSync, AgentInRun, Async, Gone
  <2>6. InFlightAccounted'
    BY <1>20, SpoilItemDoes
    DEF InFlightAccounted, DispHas, SteerHas, TurnHas, Told, Held, Async, Sets, Moves, Turn,
        InFlight, Present, Pending
  <2>7. TurnOwnsItsItem'
    BY <1>20, SpoilItemDoes DEF TurnOwnsItsItem, Async, Sets, Moves, Turn, NoSync, Gone
  <2>8. ActiveAccounted'
    BY <1>20, SpoilItemDoes
    DEF ActiveAccounted, Async, Told, Sets, Moves, Turn, NoSync, TypeInv, TurnOK, TurnSet,
        Gone
  <2>9. ToldAgrees'
    BY <1>20, SpoilItemDoes DEF ToldAgrees, Sets, Moves, Turn, InFlight, Present, Pending
  <2> QED BY <2>1, <2>2, <2>3, <2>4, <2>5, <2>6, <2>7, <2>8, <2>9 DEF GParts
<1>21. ASSUME NEW t \in Turn, NEW i \in Item, AckItem(t, i) PROVE GParts'
  <2>1. NoSync'
    BY <1>21, AckItemDoes DEF NoSync, Sync, Sets, Moves, Turn, InFlight, Present, Pending
  <2>2. AgentInRun'
    BY <1>21, AckItemDoes DEF AgentInRun, Async, Sets, Moves, Turn, InFlight, Present, Pending
  <2>3. DispatchedWaits'
    BY <1>21, AckItemDoes
    DEF DispatchedWaits, DispHas, Sets, Moves, Turn, NoSync, ActiveAccounted, Async, Told,
        TypeInv, DurableOK, Gone
  <2>4. SteeredWaits'
    BY <1>21, AckItemDoes
    DEF SteeredWaits, SteerHas, Held, Sets, Moves, Turn, NoSync, ActiveAccounted, Async,
        Told, TypeInv, DurableOK, DispOK, SteerOK, Gone
  <2>5. HeldWaits'
    BY <1>21, AckItemDoes DEF HeldWaits, Held, Sets, Moves, Turn, NoSync, AgentInRun, Async, Gone
  <2>6. InFlightAccounted'
    BY <1>21, AckItemDoes
    DEF InFlightAccounted, DispHas, SteerHas, TurnHas, Told, Held, Async, Sets, Moves, Turn,
        InFlight, Present, Pending, TypeInv, DurableOK, ExecOK, ExecSet
  <2>7. TurnOwnsItsItem'
    BY <1>21, AckItemDoes DEF TurnOwnsItsItem, Async, Sets, Moves, Turn, NoSync, Gone
  <2>8. ActiveAccounted'
    BY <1>21, AckItemDoes
    DEF ActiveAccounted, Async, Told, Sets, Moves, Turn, NoSync, TypeInv, DurableOK,
        OwnedOK, Gone
  <2>9. ToldAgrees'
    BY <1>21, AckItemDoes
    DEF ToldAgrees, Sets, Moves, Turn, NoSync, ActiveAccounted, Async, Told, TypeInv,
        DurableOK, Gone
  <2> QED BY <2>1, <2>2, <2>3, <2>4, <2>5, <2>6, <2>7, <2>8, <2>9 DEF GParts
<1>22. ASSUME NEW t \in Turn, Untrack(t) PROVE GParts'
  <2>1. NoSync'
    BY <1>22, UntrackDoes DEF NoSync, Sync, Moves, Turn
  <2>2. AgentInRun'
    BY <1>22, UntrackDoes DEF AgentInRun, Async, Moves, Turn
  <2>3. HeldWaits'
    BY <1>22, UntrackDoes DEF HeldWaits, Held, Moves, Turn, NoSync, AgentInRun, Async, Gone
  <2>4. InFlightAccounted'
    BY <1>22, UntrackDoes
    DEF InFlightAccounted, DispHas, SteerHas, TurnHas, Held, Async, Moves, Turn, NoSync,
        Gone
  <2>5. TurnOwnsItsItem'
    BY <1>22, UntrackDoes DEF TurnOwnsItsItem, Async, Moves, Turn, NoSync, Gone
  <2>6. ActiveAccounted'
    BY <1>22, UntrackDoes DEF ActiveAccounted, Async, Moves, Turn, NoSync, Gone
  <2> QED BY <2>1, <2>2, <2>3, <2>4, <2>5, <2>6, <1>22, UntrackDoes, Frames DEF GParts
<1>23. ASSUME NEW t \in Turn, CloseTurn(t) PROVE GParts'
  <2>1. NoSync'
    BY <1>23, CloseTurnDoes, KickType DEF NoSync, Sync, Moves, Turn
  <2>2. AgentInRun'
    BY <1>23, CloseTurnDoes, KickType DEF AgentInRun, Async, Moves, Turn
  <2>3. DispatchedWaits'
    BY <1>23, CloseTurnDoes, KickType DEF DispatchedWaits, DispHas, Moves, TypeInv
  <2>4. InFlightAccounted'
    BY <1>23, CloseTurnDoes, KickType
    DEF InFlightAccounted, DispHas, SteerHas, TurnHas, Told, Held, Async, Moves, Turn,
        TypeInv, ExecOK, ExecSet
  <2>5. TurnOwnsItsItem'
    BY <1>23, CloseTurnDoes, KickType DEF TurnOwnsItsItem, Async, Moves, Turn
  <2>6. ActiveAccounted'
    BY <1>23, CloseTurnDoes, KickType DEF ActiveAccounted, Async, Told, Held, Moves, Turn
  <2> QED BY <2>1, <2>2, <2>3, <2>4, <2>5, <2>6, <1>23, CloseTurnDoes, Frames DEF GParts
<1>24. CASE Drain
  BY <1>24, DrainDoes DEF NoSync, Sync
<1>25. CASE RunInboxTurn
  BY <1>25, RunInboxTurnDoes DEF NoSync, Sync
<1>26. CASE ClaimSync
  BY <1>26, ClaimSyncDoes DEF NoSync, Sync
<1>27. CASE SubmitPrompt
  <2>1. NoSync'
    BY <1>27, SubmitPromptDoes DEF NoSync, Sync, Moves, Async, Turn
  <2>2. AgentInRun'
    BY <1>27, SubmitPromptDoes DEF AgentInRun, Async, Moves, Turn
  <2>3. InFlightAccounted'
    BY <1>27, SubmitPromptDoes
    DEF InFlightAccounted, DispHas, SteerHas, TurnHas, Told, Held, Async, Moves, Turn
  <2>4. TurnOwnsItsItem'
    BY <1>27, SubmitPromptDoes DEF TurnOwnsItsItem, Async, Moves, Turn
  <2>5. ActiveAccounted'
    BY <1>27, SubmitPromptDoes
    DEF ActiveAccounted, Async, Told, Held, Moves, Locks, GateAgrees, OneAdmission
  <2> QED BY <2>1, <2>2, <2>3, <2>4, <2>5, <1>27, SubmitPromptDoes, Frames DEF GParts
<1>28. CASE Prompt
  BY <1>28, PromptDoes DEF Guarded
<1>29. CASE BeginRotation
  BY <1>29, BeginRotationDoes, Frames DEF GParts
<1>30. CASE EndRotation
  <2>1. DispatchedWaits'
    BY <1>30, EndRotationDoes, KickType DEF DispatchedWaits, DispHas, TypeInv
  <2>2. InFlightAccounted'
    BY <1>30, EndRotationDoes, KickType
    DEF InFlightAccounted, DispHas, SteerHas, TurnHas, Told, Held, Async, TypeInv, ExecOK,
        ExecSet
  <2> QED BY <2>1, <2>2, <1>30, EndRotationDoes, Frames DEF GParts
<1>31. ASSUME NEW i \in Item, EnqueueSteer(i) PROVE GParts'
  <2>1. DispatchedWaits'
    BY <1>31, EnqueueSteerDoes DEF DispatchedWaits, DispHas, TypeInv, DurableOK
  <2>2. SteeredWaits'
    BY <1>31, EnqueueSteerDoes DEF SteeredWaits, SteerHas, Held, HeldWaits, TypeInv, DurableOK
  <2>3. HeldWaits'
    BY <1>31, EnqueueSteerDoes DEF HeldWaits, Held, TypeInv, DurableOK, ExecOK, ExecSet
  <2>4. InFlightAccounted'
    BY <1>31, EnqueueSteerDoes
    DEF InFlightAccounted, DispHas, SteerHas, TurnHas, Told, Held, Async, TypeInv,
        DurableOK, InFlight, Present, Pending
  <2>5. TurnOwnsItsItem'
    BY <1>31, EnqueueSteerDoes DEF TurnOwnsItsItem, Async, TypeInv, DurableOK, OwnedOK
  <2>6. ActiveAccounted'
    BY <1>31, EnqueueSteerDoes DEF ActiveAccounted, Async, Told, Held, TypeInv, DurableOK, OwnedOK
  <2>7. ToldAgrees'
    BY <1>31, EnqueueSteerDoes DEF ToldAgrees, TypeInv, DurableOK
  <2> QED BY <2>1, <2>2, <2>3, <2>4, <2>5, <2>6, <2>7, <1>31, EnqueueSteerDoes, Frames DEF GParts
<1>32. ASSUME NEW i \in Item, SteerAgain(i) PROVE GParts'
  BY <1>32, SteerAgainDoes DEF Guarded
<1>33. CASE ReadCandidate
  <2>0. Orphans = {}
    BY NoOrphans
  <2>1. DispatchedWaits'
    BY <1>33, <2>0, ReadCandidateDoes, KickType
    DEF DispatchedWaits, DispHas, Sets, AdmissionFree, Orphans, InFlight, Present, Pending,
        TypeInv, DurableOK
  <2>2. SteeredWaits'
    BY <1>33, <2>0, ReadCandidateDoes, KickType
    DEF SteeredWaits, SteerHas, Held, Sets, Orphans, InFlight, Present, Pending, TypeInv,
        DispOK, SteerOK
  <2>3. HeldWaits'
    BY <1>33, <2>0, ReadCandidateDoes, KickType
    DEF HeldWaits, Held, Sets, AdmissionFree, Orphans, InFlight, Present, Pending, TypeInv,
        DurableOK, ExecOK, ExecSet
  <2>4. InFlightAccounted'
    BY <1>33, <2>0, ReadCandidateDoes, KickType
    DEF InFlightAccounted, DispHas, SteerHas, TurnHas, Told, Held, Async, Sets,
        AdmissionFree, Orphans, InFlight, Present, Pending
  <2>5. TurnOwnsItsItem'
    BY <1>33, <2>0, ReadCandidateDoes, KickType
    DEF TurnOwnsItsItem, Async, Sets, Orphans, TypeInv, OwnedOK
  <2>6. ActiveAccounted'
    BY <1>33, <2>0, ReadCandidateDoes, KickType
    DEF ActiveAccounted, Async, Told, Held, Sets, Orphans, TypeInv, OwnedOK
  <2>7. ToldAgrees'
    BY <1>33, <2>0, ReadCandidateDoes, KickType
    DEF ToldAgrees, Sets, AdmissionFree, Orphans, InFlight, Present, Pending
  <2> QED BY <2>1, <2>2, <2>3, <2>4, <2>5, <2>6, <2>7, <1>33, ReadCandidateDoes, Frames DEF GParts
<1>34. CASE AcceptDurably
  <2>1. DispatchedWaits'
    BY <1>34, AcceptDurablyDoes DEF DispatchedWaits, DispHas, Sets, SteeredWaits
  <2>2. SteeredWaits'
    BY <1>34, AcceptDurablyDoes
    DEF SteeredWaits, SteerHas, Held, Sets, InFlight, Present, Pending, ToldAgrees, TypeInv,
        DispOK, SteerOK
  <2>3. HeldWaits'
    BY <1>34, AcceptDurablyDoes
    DEF HeldWaits, Held, Sets, InFlight, Present, Pending, TypeInv, DurableOK, ExecOK,
        ExecSet, OwnedOK
  <2>4. InFlightAccounted'
    BY <1>34, AcceptDurablyDoes
    DEF InFlightAccounted, DispHas, SteerHas, TurnHas, Told, Held, Async, Sets, InFlight,
        Present, Pending
  <2>5. TurnOwnsItsItem'
    BY <1>34, AcceptDurablyDoes DEF TurnOwnsItsItem, Async, Sets, SteeredWaits, TypeInv, OwnedOK
  <2>6. ActiveAccounted'
    BY <1>34, AcceptDurablyDoes
    DEF ActiveAccounted, Async, Told, Held, Sets, SteeredWaits, TypeInv, OwnedOK
  <2>7. ToldAgrees'
    BY <1>34, AcceptDurablyDoes DEF ToldAgrees, Sets, InFlight, Present, Pending
  <2> QED BY <2>1, <2>2, <2>3, <2>4, <2>5, <2>6, <2>7, <1>34, AcceptDurablyDoes, Frames DEF GParts
<1>35. CASE AdmitSteer
  <2>1. AgentInRun'
    BY <1>35, AdmitSteerDoes DEF AgentInRun, Async, SteeredWaits, Held
  <2>2. DispatchedWaits'
    BY <1>35, AdmitSteerDoes DEF DispatchedWaits, DispHas, SteeredWaits, SteerHas
  <2>3. SteeredWaits'
    BY <1>35, AdmitSteerDoes DEF SteeredWaits, SteerHas, Held
  <2>4. HeldWaits'
    BY <1>35, AdmitSteerDoes DEF HeldWaits, Held, SteeredWaits, SteerHas, TypeInv, DispOK, SteerOK
  <2>5. InFlightAccounted'
    BY <1>35, AdmitSteerDoes DEF InFlightAccounted, DispHas, SteerHas, TurnHas, Told, Held, Async
  <2>6. TurnOwnsItsItem'
    BY <1>35, AdmitSteerDoes DEF TurnOwnsItsItem, Async
  <2>7. ActiveAccounted'
    BY <1>35, AdmitSteerDoes DEF ActiveAccounted, Async, Told, Held, AgentInRun
  <2> QED BY <2>1, <2>2, <2>3, <2>4, <2>5, <2>6, <2>7, <1>35, AdmitSteerDoes, Frames DEF GParts
<1>36. CASE RejectSteer
  <2>1. DispatchedWaits'
    BY <1>36, RejectSteerDoes DEF DispatchedWaits, DispHas, Sets, SteeredWaits, SteerHas
  <2>2. SteeredWaits'
    BY <1>36, RejectSteerDoes DEF SteeredWaits, SteerHas, Held, Sets, TypeInv, DispOK, SteerOK
  <2>3. HeldWaits'
    BY <1>36, RejectSteerDoes DEF HeldWaits, Held, Sets, SteeredWaits, TypeInv, ExecOK, ExecSet
  <2>4. InFlightAccounted'
    BY <1>36, RejectSteerDoes
    DEF InFlightAccounted, DispHas, SteerHas, TurnHas, Told, Held, Async, Sets, InFlight,
        Present, Pending
  <2>5. TurnOwnsItsItem'
    BY <1>36, RejectSteerDoes
    DEF TurnOwnsItsItem, Async, Sets, SteeredWaits, SteerHas, TypeInv, OwnedOK
  <2>6. ActiveAccounted'
    BY <1>36, RejectSteerDoes
    DEF ActiveAccounted, Async, Told, Held, Sets, SteeredWaits, SteerHas, TypeInv, OwnedOK
  <2>7. ToldAgrees'
    BY <1>36, RejectSteerDoes DEF ToldAgrees, Sets, SteeredWaits, SteerHas
  <2> QED BY <2>1, <2>2, <2>3, <2>4, <2>5, <2>6, <2>7, <1>36, RejectSteerDoes, Frames DEF GParts
<1>37. CASE ConvertSteer
  <2>1. DispatchedWaits'
    BY <1>37, ConvertSteerDoes, KickType
    DEF DispatchedWaits, DispHas, TypeInv, Locks, GateAgrees, OneAdmission
  <2>2. SteeredWaits'
    BY <1>37, ConvertSteerDoes, KickType DEF SteeredWaits, SteerHas, Held
  <2>3. InFlightAccounted'
    BY <1>37, ConvertSteerDoes, KickType
    DEF InFlightAccounted, DispHas, SteerHas, TurnHas, Told, Held, Async, TypeInv, ExecOK,
        ExecSet, OwnedOK
  <2> QED BY <2>1, <2>2, <2>3, <1>37, ConvertSteerDoes, Frames DEF GParts
<1>38. ASSUME NEW i \in Item, Enqueue(i) PROVE GParts'
  <2>1. NoSync'
    BY <1>38, EnqueueDoes DEF NoSync, Sync
  <2>2. DispatchedWaits'
    BY <1>38, EnqueueDoes DEF DispatchedWaits, DispHas, TypeInv, DurableOK
  <2>3. SteeredWaits'
    BY <1>38, EnqueueDoes DEF SteeredWaits, SteerHas, Held, TypeInv, DurableOK, DispOK, SteerOK
  <2>4. HeldWaits'
    BY <1>38, EnqueueDoes DEF HeldWaits, Held, TypeInv, DurableOK, ExecOK, ExecSet
  <2>5. InFlightAccounted'
    BY <1>38, EnqueueDoes
    DEF InFlightAccounted, DispHas, SteerHas, TurnHas, Told, Held, Async, TypeInv,
        DurableOK, InFlight, Present, Pending
  <2>6. TurnOwnsItsItem'
    BY <1>38, EnqueueDoes DEF TurnOwnsItsItem, Async, TypeInv, DurableOK, OwnedOK
  <2>7. ActiveAccounted'
    BY <1>38, EnqueueDoes DEF ActiveAccounted, Async, Told, Held, TypeInv, DurableOK, OwnedOK
  <2>8. ToldAgrees'
    BY <1>38, EnqueueDoes DEF ToldAgrees, TypeInv, DurableOK
  <2> QED BY <2>1, <2>2, <2>3, <2>4, <2>5, <2>6, <2>7, <2>8, <1>38, EnqueueDoes, Frames DEF GParts
<1>39. ASSUME NEW i \in Item, EnqueueBlocked(i) PROVE GParts'
  <2>1. NoSync'
    BY <1>39, EnqueueBlockedDoes DEF NoSync, Sync
  <2>2. DispatchedWaits'
    BY <1>39, EnqueueBlockedDoes DEF DispatchedWaits, DispHas, TypeInv, DurableOK
  <2>3. SteeredWaits'
    BY <1>39, EnqueueBlockedDoes
    DEF SteeredWaits, SteerHas, Held, TypeInv, DurableOK, DispOK, SteerOK
  <2>4. HeldWaits'
    BY <1>39, EnqueueBlockedDoes DEF HeldWaits, Held, TypeInv, DurableOK, ExecOK, ExecSet
  <2>5. InFlightAccounted'
    BY <1>39, EnqueueBlockedDoes
    DEF InFlightAccounted, DispHas, SteerHas, TurnHas, Told, Held, Async, TypeInv,
        DurableOK, InFlight, Present, Pending
  <2>6. TurnOwnsItsItem'
    BY <1>39, EnqueueBlockedDoes DEF TurnOwnsItsItem, Async, TypeInv, DurableOK, OwnedOK
  <2>7. ActiveAccounted'
    BY <1>39, EnqueueBlockedDoes DEF ActiveAccounted, Async, Told, Held, TypeInv, DurableOK, OwnedOK
  <2>8. ToldAgrees'
    BY <1>39, EnqueueBlockedDoes DEF ToldAgrees, TypeInv, DurableOK
  <2> QED BY <2>1, <2>2, <2>3, <2>4, <2>5, <2>6, <2>7, <2>8, <1>39, EnqueueBlockedDoes,
             Frames
          DEF GParts
<1>40. CASE PauseEnqueued
  <2>1. NoSync'
    BY <1>40, PauseEnqueuedDoes DEF NoSync, Sync
  <2> QED BY <2>1, <1>40, PauseEnqueuedDoes, Frames DEF GParts
<1>41. CASE KickIfIdle
  <2>1. NoSync'
    BY <1>41, KickIfIdleDoes, KickType DEF NoSync, Sync
  <2>2. DispatchedWaits'
    BY <1>41, KickIfIdleDoes, KickType DEF DispatchedWaits, DispHas, TypeInv
  <2>3. InFlightAccounted'
    BY <1>41, KickIfIdleDoes, KickType
    DEF InFlightAccounted, DispHas, SteerHas, TurnHas, Told, Held, Async, TypeInv, ExecOK,
        ExecSet
  <2> QED BY <2>1, <2>2, <2>3, <1>41, KickIfIdleDoes, Frames DEF GParts
<1>42. ASSUME NEW i \in Item, DropSteer(i) PROVE GParts'
  BY <1>42, DropSteerDoes DEF Guarded
<1>43. CASE UntrackDropped
  BY <1>43, UntrackDroppedDoes DEF NoSync
<1>44. CASE CancelAcceptedSteer
  BY <1>44, CancelAcceptedSteerDoes DEF NoSync
<1>45. ASSUME NEW S \in SUBSET Item, BeginCancel(S) PROVE GParts'
  <2>1. NoSync'
    BY <1>45, BeginCancelDoes DEF NoSync, Sync
  <2> QED BY <2>1, <1>45, BeginCancelDoes, Frames DEF GParts
<1>46. CASE PauseForCancel
  <2>1. NoSync'
    BY <1>46, PauseForCancelDoes DEF NoSync, Sync
  <2> QED BY <2>1, <1>46, PauseForCancelDoes, Frames DEF GParts
<1>47. CASE Discard
  <2>1. NoSync'
    BY <1>47, DiscardDoes DEF NoSync, Sync, Sets, InFlight, Present, Pending
  <2>2. DispatchedWaits'
    BY <1>47, DiscardDoes DEF DispatchedWaits, DispHas, Sets, InFlight, Present, Pending
  <2>3. SteeredWaits'
    BY <1>47, DiscardDoes
    DEF SteeredWaits, SteerHas, Held, Sets, InFlight, Present, Pending, TypeInv, DispOK,
        SteerOK
  <2>4. HeldWaits'
    BY <1>47, DiscardDoes
    DEF HeldWaits, Held, Sets, InFlight, Present, Pending, TypeInv, DurableOK, ExecOK,
        ExecSet
  <2>5. InFlightAccounted'
    BY <1>47, DiscardDoes
    DEF InFlightAccounted, DispHas, SteerHas, TurnHas, Told, Held, Async, Sets, InFlight,
        Present, Pending
  <2>6. TurnOwnsItsItem'
    BY <1>47, DiscardDoes
    DEF TurnOwnsItsItem, Async, Sets, InFlight, Present, Pending, TypeInv, OwnedOK
  <2>7. ActiveAccounted'
    BY <1>47, DiscardDoes
    DEF ActiveAccounted, Async, Told, Held, Sets, InFlight, Present, Pending, TypeInv,
        OwnedOK
  <2>8. ToldAgrees'
    BY <1>47, DiscardDoes DEF ToldAgrees, Sets, InFlight, Present, Pending
  <2> QED BY <2>1, <2>2, <2>3, <2>4, <2>5, <2>6, <2>7, <2>8, <1>47, DiscardDoes, Frames DEF GParts
<1>48. CASE ResumeAfterCancel
  <2>1. NoSync'
    BY <1>48, ResumeAfterCancelDoes DEF NoSync, Sync
  <2> QED BY <2>1, <1>48, ResumeAfterCancelDoes, Frames DEF GParts
<1>49. ASSUME NEW i \in Item, DeleteItem(i) PROVE GParts'
  <2>1. DispatchedWaits'
    BY <1>49, DeleteItemDoes
    DEF DispatchedWaits, DispHas, InFlight, Present, Pending, TypeInv, DurableOK
  <2>2. SteeredWaits'
    BY <1>49, DeleteItemDoes
    DEF SteeredWaits, SteerHas, Held, InFlight, Present, Pending, TypeInv, DurableOK,
        DispOK, SteerOK
  <2>3. HeldWaits'
    BY <1>49, DeleteItemDoes
    DEF HeldWaits, Held, InFlight, Present, Pending, TypeInv, DurableOK, ExecOK, ExecSet
  <2>4. InFlightAccounted'
    BY <1>49, DeleteItemDoes
    DEF InFlightAccounted, DispHas, SteerHas, TurnHas, Told, Held, Async, InFlight, Present,
        Pending, TypeInv, DurableOK, ExecOK, ExecSet
  <2>5. TurnOwnsItsItem'
    BY <1>49, DeleteItemDoes
    DEF TurnOwnsItsItem, Async, InFlight, Present, Pending, TypeInv, DurableOK, OwnedOK
  <2>6. ActiveAccounted'
    BY <1>49, DeleteItemDoes
    DEF ActiveAccounted, Async, Told, Held, InFlight, Present, Pending, TypeInv, DurableOK,
        OwnedOK
  <2>7. ToldAgrees'
    BY <1>49, DeleteItemDoes DEF ToldAgrees, InFlight, Present, Pending, TypeInv, DurableOK
  <2> QED BY <2>1, <2>2, <2>3, <2>4, <2>5, <2>6, <2>7, <1>49, DeleteItemDoes, Frames DEF GParts
<1>50. ASSUME NEW i \in Item, RetryItem(i) PROVE GParts'
  <2>1. DispatchedWaits'
    BY <1>50, RetryItemDoes, KickType
    DEF DispatchedWaits, DispHas, Sets, InFlight, Present, Pending, TypeInv, DurableOK
  <2>2. SteeredWaits'
    BY <1>50, RetryItemDoes, KickType
    DEF SteeredWaits, SteerHas, Held, Sets, TypeInv, DurableOK, DispOK, SteerOK
  <2>3. HeldWaits'
    BY <1>50, RetryItemDoes, KickType
    DEF HeldWaits, Held, Sets, InFlight, Present, Pending, TypeInv, DurableOK, ExecOK,
        ExecSet
  <2>4. InFlightAccounted'
    BY <1>50, RetryItemDoes, KickType
    DEF InFlightAccounted, DispHas, SteerHas, TurnHas, Told, Held, Async, Sets, InFlight,
        Present, Pending, TypeInv, DurableOK, ExecOK, ExecSet
  <2>5. TurnOwnsItsItem'
    BY <1>50, RetryItemDoes, KickType DEF TurnOwnsItsItem, Async, Sets, TypeInv, DurableOK, OwnedOK
  <2>6. ActiveAccounted'
    BY <1>50, RetryItemDoes, KickType
    DEF ActiveAccounted, Async, Told, Held, Sets, TypeInv, DurableOK, OwnedOK
  <2>7. ToldAgrees'
    BY <1>50, RetryItemDoes, KickType
    DEF ToldAgrees, Sets, InFlight, Present, Pending, TypeInv, DurableOK
  <2> QED BY <2>1, <2>2, <2>3, <2>4, <2>5, <2>6, <2>7, <1>50, RetryItemDoes, Frames DEF GParts
<1>51. CASE Pause
  BY <1>51, PauseDoes, Frames DEF GParts
<1>52. CASE Resume
  <2>1. DispatchedWaits'
    BY <1>52, ResumeDoes, KickType DEF DispatchedWaits, DispHas, TypeInv
  <2>2. InFlightAccounted'
    BY <1>52, ResumeDoes, KickType
    DEF InFlightAccounted, DispHas, SteerHas, TurnHas, Told, Held, Async, TypeInv, ExecOK,
        ExecSet
  <2> QED BY <2>1, <2>2, <1>52, ResumeDoes, Frames DEF GParts
<1>53. CASE Snapshot
  BY <1>53, NoOrphans DEF Snapshot
<1>54. CASE Crash
  <2>1. NoSync'
    BY <1>54, CrashDoes DEF NoSync, Gone, Turn
  <2>2. AgentInRun'
    BY <1>54, CrashDoes DEF AgentInRun, Async, InFlight, Present, Pending
  <2>3. DispatchedWaits'
    BY <1>54, CrashDoes DEF DispatchedWaits, DispHas, InFlight, Present, Pending
  <2>4. SteeredWaits'
    BY <1>54, CrashDoes DEF SteeredWaits, SteerHas, Held, InFlight, Present, Pending
  <2>5. HeldWaits'
    BY <1>54, CrashDoes DEF HeldWaits, Held, InFlight, Present, Pending
  <2>6. InFlightAccounted'
    BY <1>54, CrashDoes
    DEF InFlightAccounted, DispHas, SteerHas, TurnHas, Told, Held, Async, InFlight, Present,
        Pending
  <2>7. TurnOwnsItsItem'
    BY <1>54, CrashDoes DEF TurnOwnsItsItem, Async, Gone, Turn
  <2>8. ActiveAccounted'
    BY <1>54, CrashDoes DEF ActiveAccounted, Async, Gone, Turn
  <2>9. ToldAgrees'
    BY <1>54, CrashDoes DEF ToldAgrees, InFlight, Present, Pending
  <2> QED BY <2>1, <2>2, <2>3, <2>4, <2>5, <2>6, <2>7, <2>8, <2>9 DEF GParts
<1>55. CASE UNCHANGED vars
  BY <1>55, Frames, Unchanged DEF GParts, vars, durable, gates, owned
<1> QED BY <1>1, <1>2, <1>3, <1>4, <1>5, <1>6, <1>7, <1>8, <1>9, <1>10, <1>11, <1>12, <1>13,
           <1>14, <1>15, <1>16, <1>17, <1>18, <1>19, <1>20, <1>21, <1>22, <1>23, <1>24,
           <1>25, <1>26, <1>27, <1>28, <1>29, <1>30, <1>31, <1>32, <1>33, <1>34, <1>35,
           <1>36, <1>37, <1>38, <1>39, <1>40, <1>41, <1>42, <1>43, <1>44, <1>45, <1>46,
           <1>47, <1>48, <1>49, <1>50, <1>51, <1>52, <1>53, <1>54, <1>55
       DEF Next, DispatcherStep, ExecStep, FinishStep, SyncStep, SteerStep, CallStep, UserStep

\* Every step keeps the types.
LEMMA TypeStep == ASSUME TypeInv, [Next]_vars PROVE TypeInv'
<1>1. CASE BeginPass
  BY <1>1, BeginPassType
<1>2. CASE DispatchOnce
  BY <1>2, DispatchOnceType
<1>3. CASE Submit
  BY <1>3, SubmitType
<1>4. CASE SubmitBlocked
  BY <1>4, SubmitBlockedType
<1>5. CASE SubmitUnwritable
  BY <1>5, SubmitUnwritableType
<1>6. CASE Claim
  BY <1>6, ClaimType
<1>7. CASE Admit
  BY <1>7, AdmitType
<1>8. CASE Requeue
  BY <1>8, RequeueType
<1>9. CASE StartTurn
  BY <1>9, StartTurnType
<1>10. CASE RetryTimer
  BY <1>10, RetryTimerType
<1>11. CASE OpenIntake
  BY <1>11, OpenIntakeType
<1>12. ASSUME NEW i \in Item, TakeSteer(i) PROVE TypeInv'
  BY <1>12, TakeSteerType
<1>13. CASE ConsumeSteer
  BY <1>13, ConsumeSteerType
<1>14. CASE LoadFails
  BY <1>14, LoadFailsType
<1>15. CASE CloseIntake
  BY <1>15, CloseIntakeType
<1>16. ASSUME NEW i \in Item, MarkUnapplied(i) PROVE TypeInv'
  BY <1>16, MarkUnappliedType
<1>17. CASE PauseUnapplied
  BY <1>17, PauseUnappliedType
<1>18. ASSUME NEW t \in Turn, EndTurn(t) PROVE TypeInv'
  BY <1>18, EndTurnType
<1>19. ASSUME NEW t \in Turn, CollectActive(t) PROVE TypeInv'
  BY <1>19, CollectActiveType
<1>20. ASSUME NEW t \in Turn, NEW i \in Item, SpoilItem(t, i) PROVE TypeInv'
  BY <1>20, SpoilItemType
<1>21. ASSUME NEW t \in Turn, NEW i \in Item, AckItem(t, i) PROVE TypeInv'
  BY <1>21, AckItemType
<1>22. ASSUME NEW t \in Turn, Untrack(t) PROVE TypeInv'
  BY <1>22, UntrackType
<1>23. ASSUME NEW t \in Turn, CloseTurn(t) PROVE TypeInv'
  BY <1>23, CloseTurnType
<1>24. CASE Drain
  BY <1>24, DrainType
<1>25. CASE RunInboxTurn
  BY <1>25, RunInboxTurnType
<1>26. CASE ClaimSync
  BY <1>26, ClaimSyncType
<1>27. CASE SubmitPrompt
  BY <1>27, SubmitPromptType
<1>28. CASE Prompt
  BY <1>28, PromptType
<1>29. CASE BeginRotation
  BY <1>29, BeginRotationType
<1>30. CASE EndRotation
  BY <1>30, EndRotationType
<1>31. ASSUME NEW i \in Item, EnqueueSteer(i) PROVE TypeInv'
  BY <1>31, EnqueueSteerType
<1>32. ASSUME NEW i \in Item, SteerAgain(i) PROVE TypeInv'
  BY <1>32, SteerAgainType
<1>33. CASE ReadCandidate
  BY <1>33, ReadCandidateType
<1>34. CASE AcceptDurably
  BY <1>34, AcceptDurablyType
<1>35. CASE AdmitSteer
  BY <1>35, AdmitSteerType
<1>36. CASE RejectSteer
  BY <1>36, RejectSteerType
<1>37. CASE ConvertSteer
  BY <1>37, ConvertSteerType
<1>38. ASSUME NEW i \in Item, Enqueue(i) PROVE TypeInv'
  BY <1>38, EnqueueType
<1>39. ASSUME NEW i \in Item, EnqueueBlocked(i) PROVE TypeInv'
  BY <1>39, EnqueueBlockedType
<1>40. CASE PauseEnqueued
  BY <1>40, PauseEnqueuedType
<1>41. CASE KickIfIdle
  BY <1>41, KickIfIdleType
<1>42. ASSUME NEW i \in Item, DropSteer(i) PROVE TypeInv'
  BY <1>42, DropSteerType
<1>43. CASE UntrackDropped
  BY <1>43, UntrackDroppedType
<1>44. CASE CancelAcceptedSteer
  BY <1>44, CancelAcceptedSteerType
<1>45. ASSUME NEW S \in SUBSET Item, BeginCancel(S) PROVE TypeInv'
  BY <1>45, BeginCancelType
<1>46. CASE PauseForCancel
  BY <1>46, PauseForCancelType
<1>47. CASE Discard
  BY <1>47, DiscardType
<1>48. CASE ResumeAfterCancel
  BY <1>48, ResumeAfterCancelType
<1>49. ASSUME NEW i \in Item, DeleteItem(i) PROVE TypeInv'
  BY <1>49, DeleteItemType
<1>50. ASSUME NEW i \in Item, RetryItem(i) PROVE TypeInv'
  BY <1>50, RetryItemType
<1>51. CASE Pause
  BY <1>51, PauseType
<1>52. CASE Resume
  BY <1>52, ResumeType
<1>53. CASE Snapshot
  BY <1>53, SnapshotType
<1>54. CASE Crash
  BY <1>54, CrashType
<1>55. CASE UNCHANGED vars
  BY <1>55, Unchanged DEF TypeInv, vars, durable, gates, owned
<1> QED BY <1>1, <1>2, <1>3, <1>4, <1>5, <1>6, <1>7, <1>8, <1>9, <1>10, <1>11, <1>12, <1>13,
           <1>14, <1>15, <1>16, <1>17, <1>18, <1>19, <1>20, <1>21, <1>22, <1>23, <1>24,
           <1>25, <1>26, <1>27, <1>28, <1>29, <1>30, <1>31, <1>32, <1>33, <1>34, <1>35,
           <1>36, <1>37, <1>38, <1>39, <1>40, <1>41, <1>42, <1>43, <1>44, <1>45, <1>46,
           <1>47, <1>48, <1>49, <1>50, <1>51, <1>52, <1>53, <1>54, <1>55
       DEF Next, DispatcherStep, ExecStep, FinishStep, SyncStep, SteerStep, CallStep, UserStep

-----------------------------------------------------------------------------
\* The initial state, and the theorems.

\* The initial state satisfies the three invariants.
LEMMA TypeInit == ASSUME Init PROVE TypeInv
<1>1. DurableOK
  BY DEF Init, DurableOK, Present, Pending
<1>a. GatesOK /\ OwnedOK
  BY DEF Init, GatesOK, OwnedOK
<1>2. DispOK
  <2>1. 0 \in 0..MaxAttempts
    BY DEF MaxAttempts
  <2>2. disp \in DispSet /\ disp.pc = "off"
    BY <2>1 DEF Init, IdleDisp, DispSet, DispPC
  <2> QED BY <2>2 DEF DispOK
<1>3. SteerOK /\ CallerOK
  BY DEF Init, IdleSteer, SteerOK, SteerSet, IdleCall, CallerOK, CallerSet
<1>4. TurnOK
  BY TurnForms DEF Init, TurnOK, Turn
<1>5. ExecOK
  BY DEF Init, IdleExec, ExecOK, ExecSet
<1> QED BY <1>1, <1>a, <1>2, <1>3, <1>4, <1>5 DEF TypeInv

LEMMA LocksInit == ASSUME Init PROVE Locks
BY TurnForms DEF Init, Locks, GateAgrees, OneAdmission, Async, Sync, Turn, IdleDisp, IdleSteer

LEMMA GPartsInit == ASSUME Init PROVE GParts
<1>1. turn["async"].pc = "none" /\ turn["sync"].pc = "none"
  BY TurnForms DEF Init, Turn
<1>2. exec.queue = {} /\ exec.taken = NoItem /\ exec.flush = {} /\ exec.unread = NoItem /\ exec.intake = FALSE
  BY DEF Init, IdleExec
<1>3. disp.pc = "off" /\ steer.pc = "idle" /\ caller.pc = "idle"
  BY DEF Init, IdleDisp, IdleSteer, IdleCall
<1>4. active = {} /\ item = [i \in Item |-> "absent"] /\ told = [i \in Item |-> 0]
  BY DEF Init
<1> QED BY <1>1, <1>2, <1>3, <1>4 DEF GParts, NoSync, AgentInRun, DispatchedWaits, SteeredWaits,
  HeldWaits, InFlightAccounted, TurnOwnsItsItem, ActiveAccounted, ToldAgrees, DispHas, SteerHas, TurnHas, Held, Told, InFlight, Async, Sync

\* Every variable keeps its type: attempts, parked turns and deliveries included.
THEOREM TypeCorrect == Spec => []TypeOK
<1>1. Init => TypeInv
  BY TypeInit
<1>2. TypeInv /\ [Next]_vars => TypeInv'
  BY TypeStep
<1> QED BY <1>1, <1>2, TypeInvOK, PTL DEF Spec

\* The lock parts are an invariant of the specification.
LEMMA LocksInvariant == Spec => [](TypeInv /\ Locks)
<1>1. Init => TypeInv /\ Locks
  BY TypeInit, LocksInit
<1>2. TypeInv /\ Locks /\ [Next]_vars => (TypeInv /\ Locks)'
  BY TypeStep, LocksStep
<1> QED BY <1>1, <1>2, PTL DEF Spec

\* Two turns never run at once, whatever is enabled: the gate that
\* beginTurn and tryBeginRotation take excludes a second one until it is given back.
THEOREM TurnsExclude == Spec => []TurnsExclusive
<1>1. TypeInv /\ Locks => TurnsExclusive
  BY DEF TypeInv, Locks, GateAgrees, TurnsExclusive, InRun, Turn, Async, Sync, TurnOK,
         TurnSet, TurnPC
<1> QED BY <1>1, LocksInvariant, PTL

\* The accounting is an invariant of a guarded session.
LEMMA GuardedInvariant == ASSUME Guarded PROVE Spec => [](TypeInv /\ GParts)
<1>1. Init => TypeInv /\ Locks /\ GParts
  BY TypeInit, LocksInit, GPartsInit
<1>2. TypeInv /\ Locks /\ GParts /\ [Next]_vars => (TypeInv /\ Locks /\ GParts)'
  BY TypeStep, LocksStep, GStep
<1> QED BY <1>1, <1>2, PTL DEF Spec

\* An item recorded as in flight has an owner in memory: the dispatcher, a
\* steering call, the agent or an active turn.
THEOREM FlightIsOwned == ASSUME Guarded PROVE Spec => []InFlightIsOwned
<1>1. TypeInv /\ GParts => InFlightIsOwned
  BY NoOrphans DEF InFlightIsOwned
<1> QED BY <1>1, GuardedInvariant, PTL

\* The item that a turn is answering stays recorded as running until it ends.
THEOREM TurnKeepsItsRecord == ASSUME Guarded PROVE Spec => []TurnIsDurable
<1>1. TypeInv /\ GParts => TurnIsDurable
  BY DEF GParts, NoSync, TurnOwnsItsItem, TurnIsDurable, Turn, Async, Sync
<1> QED BY <1>1, GuardedInvariant, PTL

\* Guidance and items that a turn has yet to answer stay in the durable record.
THEOREM UnfinishedKeepsItsRecord == ASSUME Guarded PROVE Spec => []UnfinishedIsDurable
<1>1. TypeInv /\ GParts => UnfinishedIsDurable
  BY DEF GParts, NoSync, TurnOwnsItsItem, HeldWaits, Held, UnfinishedIsDurable,
         TurnIsDurable, Turn, Async, Sync
<1> QED BY <1>1, GuardedInvariant, PTL

\* An item recorded as done was delivered.
THEOREM AckIsHonest == ASSUME Guarded PROVE Spec => []AckedWasDelivered
<1>1. TypeInv /\ GParts => AckedWasDelivered
  BY DEF GParts, ToldAgrees, AckedWasDelivered, TypeInv, DurableOK
<1> QED BY <1>1, GuardedInvariant, PTL

\* No item is delivered to the model twice.
THEOREM DeliveryOnce == ASSUME Guarded PROVE Spec => []DeliveredOnce
<1>1. TypeInv /\ GParts => DeliveredOnce
  BY DEF GParts, ToldAgrees, DeliveredOnce
<1> QED BY <1>1, GuardedInvariant, PTL
============================================================
