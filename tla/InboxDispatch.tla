---------------------------- MODULE InboxDispatch ----------------------------
(***************************************************************************)
(* The durable inbox of a session and the controller that feeds its turns  *)
(* (kernel/internal/session/control: inbox*.go, turn_gate.go,              *)
(* admission_guard.go, turn_cancel.go, synchronous_turn.go; package        *)
(* sessioninbox; runtime/agent/steer_inbox.go).                            *)
(*                                                                         *)
(* An item of the inbox is a follow-up, to run as a turn of its own, or     *)
(* guidance (a steer) for the turn under way.  Its durable state and the    *)
(* pause flag survive a crash; the admission gate, the ownership sets, the  *)
(* dispatcher, the agent's steer queue and the turns do not.                *)
(*                                                                         *)
(* Each store transaction, each section under c.mu, inbox.mu or the steer   *)
(* lock is one step, but that the pause which a call sets after another of  *)
(* its transactions shares the step beside it.  The order of the manifest   *)
(* is left open: MoveItem lets a user give it any order at any time.  A     *)
(* kick happens in the step of the change it announces; a later one would   *)
(* only help.                                                               *)
(***************************************************************************)
EXTENDS Naturals, FiniteSets

CONSTANTS
  Item,
  NoItem,
  Verbs,      \* what the environment of this instance does, see MayDo
  MaxParked   \* bound: submits parked behind a finishing turn

ASSUME ItemAssumption == NoItem \notin Item
ASSUME BoundAssumption == MaxParked \in Nat

MaxAttempts == 3
Turn == {"async", "sync"}
MayDo(verb) == verb \in Verbs

VARIABLES
  item,      \* item[i]: the durable state of i
  intent,    \* intent[i]: how i is to be delivered
  paused,    \* the manifest's pause flag
  told,      \* told[i]: deliveries to the model since the user last asked for i
  gate,      \* the admission gate of the controller
  parked,    \* submits that wait for the finishing window to close
  active,    \* activeItemIDs with activeOwnership
  admitting, \* admittingOwnership
  disp,      \* the dispatcher, its pending kick and its retry timer
  steer,     \* a TrySteerInboxItem call
  caller,    \* an enqueue, drop or cancel call
  turn,      \* turn[t]: a guarded and a synchronous turn
  exec       \* the agent's steer queue and what it took from it

durable == <<item, intent, paused, told>>
gates == <<gate, parked>>
owned == <<active, admitting>>
vars == <<durable, gates, owned, disp, steer, caller, turn, exec>>

InFlight == {"running", "accepted", "consumed"}
Pending == {"queued", "blocked", "uncertain"}
Present == InFlight \cup Pending
Gone == {"acked", "deleted"}

Owned == active \cup admitting
QueuedItems == {i \in Item : item[i] = "queued"}

IdleTurn == [pc |-> "none", mine |-> NoItem, ids |-> {}, left |-> {}, failed |-> FALSE]
IdleExec == [intake |-> FALSE, queue |-> {}, taken |-> NoItem, flush |-> {}, unread |-> NoItem]
IdleDisp == [pc |-> "off", item |-> NoItem, pending |-> FALSE, attempts |-> 0, timer |-> FALSE]
IdleCall == [pc |-> "idle", items |-> {}, was |-> FALSE]
IdleSteer == [pc |-> "idle", item |-> NoItem]

TypeOK ==
  /\ item \in [Item -> Present \cup Gone \cup {"absent"}]
  /\ intent \in [Item -> {"followup", "steer"}]
  /\ paused \in BOOLEAN
  /\ told \in [Item -> Nat]
  /\ gate \in {"open", "running", "finishing", "rotating"}
  /\ parked \in 0..MaxParked
  /\ active \subseteq Item /\ admitting \subseteq Item
  /\ disp \in [pc : {"off", "top", "look", "submit", "claim", "admit", "requeue", "start"},
               item : Item \cup {NoItem}, pending : BOOLEAN,
               attempts : 0..MaxAttempts, timer : BOOLEAN]
  /\ steer \in [pc : {"idle", "wants", "accept", "admit", "reject", "convert"},
                item : Item \cup {NoItem}]
  /\ caller \in [pc : {"idle", "enqueued", "pausing", "dropping", "withdrawing",
                       "stopping", "discarding", "resuming"},
                 items : SUBSET Item, was : BOOLEAN]
  /\ turn \in [Turn -> [pc : {"none", "claiming", "run", "done", "acking", "spoiling", "close",
                              "drain", "next"},
                        mine : Item \cup {NoItem}, ids : SUBSET Item, left : SUBSET Item,
                        failed : BOOLEAN]]
  /\ exec \in [intake : BOOLEAN, queue : SUBSET Item, taken : Item \cup {NoItem},
               flush : SUBSET Item, unread : Item \cup {NoItem}]

Init ==
  /\ item = [i \in Item |-> "absent"]
  /\ intent = [i \in Item |-> "followup"]
  /\ paused = FALSE
  /\ told = [i \in Item |-> 0]
  /\ gate = "open" /\ parked = 0
  /\ active = {} /\ admitting = {}
  /\ disp = IdleDisp /\ steer = IdleSteer /\ caller = IdleCall
  /\ turn = [t \in Turn |-> IdleTurn]
  /\ exec = IdleExec

(* SetState of the items of S, which fails for one that is gone. *)
SetState(S, state) ==
  item' = [i \in Item |-> IF i \in S /\ item[i] \in Present THEN state ELSE item[i]]

(* maybeDispatchInbox: publish the kick, then become the dispatcher if none is. *)
Kick == disp' = [disp EXCEPT !.pending = TRUE, !.pc = IF @ = "off" THEN "top" ELSE @]

(* Who holds admissionMu. *)
AdmissionFree ==
  /\ disp.pc \notin {"claim", "admit", "requeue", "start"}
  /\ steer.pc \in {"idle", "wants"}

(* RecoverOrphanedInFlightOwnedBy. *)
Orphans == {i \in Item : item[i] \in InFlight /\ i \notin Owned}
RecoverOrphaned ==
  /\ SetState(Orphans, "uncertain")
  /\ paused' = (paused \/ Orphans # {})

-----------------------------------------------------------------------------
(* The dispatcher. *)

BeginPass ==
  /\ disp.pc = "top"
  /\ disp' = [disp EXCEPT !.pending = FALSE, !.pc = IF disp.pending THEN "look" ELSE "off"]
  /\ UNCHANGED <<durable, gates, owned, steer, caller, turn, exec>>

(* A pass that started a turn or found nothing to do resets the retries. *)
Settled == [disp EXCEPT !.pc = "top", !.item = NoItem, !.attempts = 0]

(* Two plausible bugs: retries without end, and none at all. *)
RetriedForever ==
  [disp EXCEPT !.pc = "top", !.item = NoItem, !.attempts = @ + 1, !.timer = TRUE]

(* scheduleInboxDispatchRetry *)
Retried ==
  IF disp.timer \/ disp.attempts >= MaxAttempts
  THEN [disp EXCEPT !.pc = "top", !.item = NoItem]
  ELSE [disp EXCEPT !.pc = "top", !.item = NoItem, !.attempts = @ + 1, !.timer = TRUE]

(* NextQueued: a follow-up, or else any item that is queued. *)
Candidates ==
  IF paused THEN {}
  ELSE LET F == {i \in QueuedItems : intent[i] = "followup"}
       IN IF F # {} THEN F ELSE QueuedItems

(* The gate and the scan are both looked at again when the item is admitted, so
   one step stands for the two reads. *)
DispatchOnce ==
  /\ disp.pc = "look"
  /\ IF gate # "open" \/ Candidates = {}
     THEN disp' = Settled
     ELSE \E i \in Candidates : disp' = [disp EXCEPT !.pc = "submit", !.item = i]
  /\ UNCHANGED <<durable, gates, owned, steer, caller, turn, exec>>

(* TrySubmitInboxItem up to the claim. *)
Submit ==
  /\ disp.pc = "submit" /\ AdmissionFree
  /\ LET i == disp.item IN
     IF item[i] # "queued" \/ paused
     THEN disp' = Retried /\ UNCHANGED durable
     ELSE disp' = [disp EXCEPT !.pc = "claim"] /\ UNCHANGED durable
  /\ UNCHANGED <<gates, owned, steer, caller, turn, exec>>

(* The item's references cannot be materialized any more. *)
SubmitBlocked ==
  /\ MayDo("block")
  /\ disp.pc = "submit" /\ AdmissionFree
  /\ item[disp.item] = "queued" /\ ~paused
  /\ SetState({disp.item}, "blocked") /\ paused' = TRUE
  /\ disp' = Retried
  /\ UNCHANGED <<intent, told, gates, owned, steer, caller, turn, exec>>

(* The session lost the authority to write: hold the queue. *)
SubmitUnwritable ==
  /\ MayDo("unwritable")
  /\ disp.pc = "submit" /\ AdmissionFree
  /\ item[disp.item] = "queued" /\ ~paused
  /\ paused' = TRUE
  /\ disp' = Settled
  /\ UNCHANGED <<item, intent, told, gates, owned, steer, caller, turn, exec>>

(* A plausible bug in Claim: nothing says that the item is being admitted. *)
ClaimUnowned ==
  /\ disp.pc = "claim"
  /\ IF item[disp.item] # "queued" \/ paused
     THEN disp' = Retried /\ UNCHANGED <<durable, owned>>
     ELSE /\ SetState({disp.item}, "running")
          /\ disp' = [disp EXCEPT !.pc = "admit"]
          /\ UNCHANGED <<intent, paused, told, owned>>
  /\ UNCHANGED <<gates, steer, caller, turn, exec>>

(* trackAdmission, then ClaimItem. *)
Claim ==
  /\ disp.pc = "claim"
  /\ IF item[disp.item] # "queued" \/ paused
     THEN disp' = Retried /\ UNCHANGED <<durable, owned>>
     ELSE /\ SetState({disp.item}, "running")
          /\ admitting' = admitting \cup {disp.item}
          /\ disp' = [disp EXCEPT !.pc = "admit"]
          /\ UNCHANGED <<intent, paused, told, active>>
  /\ UNCHANGED <<gates, steer, caller, turn, exec>>

(* admitGuardedTurn with neither kind of parking; the authority to write is
   looked at once more. *)
Admit ==
  /\ disp.pc = "admit"
  /\ \/ gate = "open" /\ gate' = "running" /\ disp' = [disp EXCEPT !.pc = "start"]
     \/ gate # "open" /\ gate' = gate /\ disp' = [disp EXCEPT !.pc = "requeue"]
     \/ MayDo("unwritable") /\ gate' = gate /\ disp' = [disp EXCEPT !.pc = "requeue"]
  /\ UNCHANGED <<durable, parked, owned, steer, caller, turn, exec>>

(* The gate closed meanwhile: the item goes back, and whoever holds the gate
   owns the next kick. *)
Requeue ==
  /\ disp.pc = "requeue"
  /\ SetState({disp.item}, "queued")
  /\ admitting' = admitting \ {disp.item}
  /\ disp' = Settled
  /\ UNCHANGED <<intent, paused, told, gates, active, steer, caller, turn, exec>>

Running(i) == [IdleTurn EXCEPT !.pc = "run", !.mine = i]

(* onStart, spawnGuardedTurn, and the deferred untrackAdmission and unlock. *)
StartTurn ==
  /\ disp.pc = "start"
  /\ active' = active \cup {disp.item}
  /\ admitting' = admitting \ {disp.item}
  /\ turn' = [turn EXCEPT !["async"] = Running(disp.item)]
  /\ told' = [told EXCEPT ![disp.item] = @ + 1]
  /\ disp' = Settled
  /\ UNCHANGED <<item, intent, paused, gates, steer, caller, exec>>

RetryTimer ==
  /\ disp.timer
  /\ disp' = [disp EXCEPT !.timer = FALSE, !.pending = TRUE,
                          !.pc = IF @ = "off" THEN "top" ELSE @]
  /\ UNCHANGED <<durable, gates, owned, steer, caller, turn, exec>>

DispatcherStep ==
  \/ BeginPass \/ DispatchOnce \/ Submit \/ SubmitBlocked \/ SubmitUnwritable
  \/ Claim \/ Admit \/ Requeue \/ StartTurn

-----------------------------------------------------------------------------
(* The agent inside the turn that runs: its steer queue is open while a Run is
   under way, and a turn may hold several Runs. *)

InRun == \E t \in Turn : turn[t].pc = "run"

OpenIntake ==
  /\ InRun /\ ~exec.intake /\ exec.flush = {} /\ exec.unread = NoItem
  /\ exec' = [exec EXCEPT !.intake = TRUE]
  /\ UNCHANGED <<durable, gates, owned, disp, steer, caller, turn>>

(* A plausible bug in TakeSteer: what is taken stays in the queue. *)
TakeSteerKeeps(i) ==
  /\ exec.intake /\ exec.taken = NoItem /\ i \in exec.queue
  /\ exec.flush = {} /\ exec.unread = NoItem
  /\ exec' = [exec EXCEPT !.taken = i]
  /\ UNCHANGED <<durable, gates, owned, disp, steer, caller, turn>>

TakeSteer(i) ==
  /\ exec.intake /\ exec.taken = NoItem /\ i \in exec.queue
  /\ exec.flush = {} /\ exec.unread = NoItem
  /\ exec' = [exec EXCEPT !.queue = @ \ {i}, !.taken = i]
  /\ UNCHANGED <<durable, gates, owned, disp, steer, caller, turn>>

(* The body is loaded and reaches the conversation; the event marks it. *)
ConsumeSteer ==
  /\ exec.taken # NoItem
  /\ SetState({exec.taken}, "consumed")
  /\ told' = [told EXCEPT ![exec.taken] = @ + 1]
  /\ exec' = [exec EXCEPT !.taken = NoItem]
  /\ UNCHANGED <<intent, paused, gates, owned, disp, steer, caller, turn>>

LoadFails ==
  /\ MayDo("loadfail")
  /\ exec.taken # NoItem
  /\ exec' = [exec EXCEPT !.taken = NoItem, !.flush = {exec.taken}]
  /\ UNCHANGED <<durable, gates, owned, disp, steer, caller, turn>>

(* A plausible bug in CloseIntake: what nobody read is forgotten. *)
CloseIntakeForgets ==
  /\ exec.intake /\ exec.taken = NoItem /\ exec.flush = {} /\ exec.unread = NoItem
  /\ exec' = [exec EXCEPT !.intake = FALSE, !.queue = {}]
  /\ UNCHANGED <<durable, gates, owned, disp, steer, caller, turn>>

(* closeIfIdle at a normal end, with nothing queued; close at any other. *)
CloseIntake ==
  /\ exec.intake /\ exec.taken = NoItem /\ exec.flush = {} /\ exec.unread = NoItem
  /\ exec' = [exec EXCEPT !.intake = FALSE, !.queue = {}, !.flush = exec.queue]
  /\ UNCHANGED <<durable, gates, owned, disp, steer, caller, turn>>

(* onInboxUnappliedSteer, in two steps. *)
MarkUnapplied(i) ==
  /\ i \in exec.flush /\ exec.unread = NoItem
  /\ SetState({i}, "uncertain")
  /\ exec' = [exec EXCEPT !.flush = @ \ {i}, !.unread = i]
  /\ UNCHANGED <<intent, paused, told, gates, owned, disp, steer, caller, turn>>

PauseUnapplied ==
  /\ exec.unread # NoItem
  /\ paused' = TRUE
  /\ active' = active \ {exec.unread}
  /\ exec' = [exec EXCEPT !.unread = NoItem]
  /\ UNCHANGED <<item, intent, told, gates, admitting, disp, steer, caller, turn>>

ExecStep ==
  \/ OpenIntake \/ ConsumeSteer \/ LoadFails \/ CloseIntake \/ PauseUnapplied
  \/ \E i \in Item : TakeSteer(i) \/ MarkUnapplied(i)

-----------------------------------------------------------------------------
(* The end of a turn. *)

(* A guarded turn keeps the gate shut while it finishes; a synchronous one
   opens it at once. *)
EndTurn(t) ==
  /\ turn[t].pc = "run"
  /\ ~exec.intake /\ exec.flush = {} /\ exec.unread = NoItem
  /\ gate' = IF t = "async" THEN "finishing" ELSE "open"
  /\ turn' = [turn EXCEPT ![t] = [IdleTurn EXCEPT !.pc = "done"]]
  /\ UNCHANGED <<durable, parked, owned, disp, steer, caller, exec>>

(* onInboxTurnDone: the turn's items, and SnapshotActivity. *)
CollectActive(t) ==
  /\ turn[t].pc = "done"
  /\ \E saved \in {TRUE} \cup {~MayDo("fail")} :
       turn' = [turn EXCEPT ![t].ids = active, ![t].left = active, ![t].failed = ~saved,
                            ![t].pc = IF active = {} THEN "close"
                                      ELSE IF saved THEN "acking" ELSE "spoiling"]
  /\ UNCHANGED <<durable, gates, owned, disp, steer, caller, exec>>

SpoilItem(t, i) ==
  /\ turn[t].pc = "spoiling" /\ i \in turn[t].left
  /\ SetState({i}, "uncertain")
  /\ turn' = [turn EXCEPT ![t].left = @ \ {i}]
  /\ UNCHANGED <<intent, paused, told, gates, owned, disp, steer, caller, exec>>

AckItem(t, i) ==
  /\ turn[t].pc = "acking" /\ i \in turn[t].left
  /\ IF item[i] \in InFlight
     THEN item' = [item EXCEPT ![i] = "acked"]
     ELSE SetState({i}, "uncertain")
  /\ turn' = [turn EXCEPT ![t].left = @ \ {i},
                          ![t].failed = @ \/ item[i] \in Pending]
  /\ UNCHANGED <<intent, paused, told, gates, owned, disp, steer, caller, exec>>

Untrack(t) ==
  /\ turn[t].pc \in {"acking", "spoiling"} /\ turn[t].left = {}
  /\ paused' = (paused \/ turn[t].failed)
  /\ active' = active \ turn[t].ids
  /\ turn' = [turn EXCEPT ![t] = [IdleTurn EXCEPT !.pc = "close"]]
  /\ UNCHANGED <<item, intent, told, gates, admitting, disp, steer, caller, exec>>

SyncGoto(pc) == turn' = [turn EXCEPT !["sync"] = [IdleTurn EXCEPT !.pc = pc]]

(* TurnDone was delivered: a guarded turn lets the oldest parked submit in
   under the same lock, or kicks; a synchronous one
   returns to its prompt, which drains the inbox unless the turn failed. *)
CloseTurn(t) ==
  /\ turn[t].pc = "close"
  /\ CASE t = "sync" ->
            /\ SyncGoto("drain") \/ SyncGoto("none")
            /\ UNCHANGED <<gates, disp>>
       [] t = "async" /\ parked > 0 ->
            /\ parked' = parked - 1 /\ gate' = "running"
            /\ turn' = [turn EXCEPT ![t] = Running(NoItem)]
            /\ UNCHANGED disp
       [] OTHER ->
            /\ gate' = "open" /\ Kick
            /\ turn' = [turn EXCEPT ![t] = IdleTurn]
            /\ UNCHANGED parked
  /\ UNCHANGED <<durable, owned, steer, caller, exec>>

FinishStep(t) ==
  \/ CollectActive(t) \/ Untrack(t) \/ CloseTurn(t)
  \/ \E i \in Item : SpoilItem(t, i) \/ AckItem(t, i)

(* A plausible bug in Prompt: a turn that is finishing counts as over. *)
PromptWhileFinishing ==
  /\ MayDo("sync")
  /\ turn["sync"].pc = "none" /\ gate \in {"open", "finishing"}
  /\ gate' = "running"
  /\ turn' = [turn EXCEPT !["sync"] = Running(NoItem)]
  /\ UNCHANGED <<durable, parked, owned, disp, steer, caller, exec>>

(* A prompt of the editor protocol runs as a synchronous turn. *)
Prompt ==
  /\ MayDo("sync")
  /\ turn["sync"].pc = "none" /\ gate = "open"
  /\ gate' = "running"
  /\ turn' = [turn EXCEPT !["sync"] = Running(NoItem)]
  /\ UNCHANGED <<durable, parked, owned, disp, steer, caller, exec>>

(* drainACPInbox: after a turn without error, look for the next queued item. *)
Drain ==
  /\ turn["sync"].pc = "drain"
  /\ RecoverOrphaned
  /\ IF paused' \/ QueuedItems = {}
     THEN turn' = [turn EXCEPT !["sync"] = IdleTurn]
     ELSE \E i \in QueuedItems :
            turn' = [turn EXCEPT !["sync"] = [IdleTurn EXCEPT !.pc = "next", !.mine = i]]
  /\ UNCHANGED <<intent, told, gates, owned, disp, steer, caller, exec>>

(* RunInboxTurn: an item that is no longer queued, or that cannot be
   materialized, sends the drain back for another; a busy gate ends it. *)
RunInboxTurn ==
  /\ turn["sync"].pc = "next"
  /\ LET i == turn["sync"].mine IN
     \/ /\ item[i] # "queued"
        /\ SyncGoto("drain") /\ UNCHANGED <<item, paused, gate>>
     \/ /\ item[i] = "queued"
        /\ SetState({i}, "blocked") /\ paused' = TRUE
        /\ SyncGoto("drain") /\ UNCHANGED gate
     \/ /\ item[i] = "queued" /\ gate # "open"
        /\ SyncGoto("none") /\ UNCHANGED <<item, paused, gate>>
     \/ /\ item[i] = "queued" /\ gate = "open"
        /\ gate' = "running"
        /\ turn' = [turn EXCEPT !["sync"].pc = "claiming"]
        /\ UNCHANGED <<item, paused>>
  /\ UNCHANGED <<intent, told, parked, owned, disp, steer, caller, exec>>

(* onAdmitted, under admissionMu, with the gate already taken. *)
ClaimSync ==
  /\ turn["sync"].pc = "claiming" /\ AdmissionFree
  /\ LET i == turn["sync"].mine IN
     IF item[i] = "queued" /\ ~paused
     THEN /\ SetState({i}, "running") /\ active' = active \cup {i}
          /\ told' = [told EXCEPT ![i] = @ + 1]
          /\ turn' = [turn EXCEPT !["sync"].pc = "run"]
          /\ UNCHANGED <<intent, paused, gate>>
     ELSE /\ gate' = "open" /\ SyncGoto(IF paused THEN "none" ELSE "drain")
          /\ UNCHANGED <<durable, active>>
  /\ UNCHANGED <<parked, admitting, disp, steer, caller, exec>>

SyncStep == Drain \/ RunInboxTurn \/ ClaimSync

(* A prompt typed by the user: starts, is dropped, or parks, the text of a
   rejected steer while the turn runs, any other while it finishes. *)
SubmitPrompt ==
  /\ MayDo("submit")
  /\ \/ /\ gate = "open" /\ gate' = "running"
        /\ turn' = [turn EXCEPT !["async"] = Running(NoItem)]
        /\ UNCHANGED parked
     \/ /\ gate \in {"running", "finishing"} /\ parked < MaxParked
        /\ parked' = parked + 1
        /\ UNCHANGED <<gate, turn>>
  /\ UNCHANGED <<durable, owned, disp, steer, caller, exec>>

(* A rotation that keeps the session's path: rewind, checkpoint, model switch. *)
BeginRotation ==
  /\ MayDo("rotate")
  /\ gate = "open" /\ gate' = "rotating"
  /\ UNCHANGED <<durable, parked, owned, disp, steer, caller, turn, exec>>

(* A plausible bug in EndRotation: the work queued meanwhile is not announced. *)
EndRotationQuietly ==
  /\ gate = "rotating" /\ gate' = "open"
  /\ UNCHANGED <<durable, parked, owned, disp, steer, caller, turn, exec>>

EndRotation ==
  /\ gate = "rotating" /\ gate' = "open"
  /\ Kick
  /\ UNCHANGED <<durable, parked, owned, steer, caller, turn, exec>>

-----------------------------------------------------------------------------
(* TrySteerInboxItem, under admissionMu from AdmitSteer's first step on. *)

(* TryEnqueueAndSteer enqueues its guidance first.  Under an idempotency key
   that was used before it steers the item it finds. *)
EnqueueSteer(i) ==
  /\ MayDo("steer")
  /\ steer.pc = "idle" /\ item[i] = "absent"
  /\ item' = [item EXCEPT ![i] = "queued"]
  /\ intent' = [intent EXCEPT ![i] = "steer"]
  /\ steer' = [pc |-> "wants", item |-> i]
  /\ UNCHANGED <<paused, told, gates, owned, disp, caller, turn, exec>>

SteerAgain(i) ==
  /\ MayDo("resteer")
  /\ steer.pc = "idle" /\ item[i] \in Present
  /\ steer' = [pc |-> "wants", item |-> i]
  /\ UNCHANGED <<durable, gates, owned, disp, caller, turn, exec>>

ReturnSteer == steer' = IdleSteer

(* Read the candidate, after a recovery if it looks in flight.  Guidance in
   flight already is accepted once more; a pause and a rotation refuse. *)
ReadCandidate ==
  /\ steer.pc = "wants" /\ AdmissionFree
  /\ LET i == steer.item IN
     \/ /\ item[i] \in InFlight
        /\ RecoverOrphaned /\ ReturnSteer /\ UNCHANGED <<told, disp>>
     \/ /\ item[i] \notin InFlight /\ (item[i] \notin {"queued", "uncertain"} \/ paused)
        /\ ReturnSteer /\ UNCHANGED <<item, paused, told, disp>>
     \/ /\ item[i] \in {"queued", "uncertain"} /\ ~paused
        /\ SetState({i}, "queued")
        /\ told' = [told EXCEPT ![i] = IF item[i] = "uncertain" THEN 0 ELSE @]
        /\ IF gate = "rotating" THEN ReturnSteer /\ Kick
           ELSE steer' = [steer EXCEPT !.pc = "accept"] /\ UNCHANGED disp
        /\ UNCHANGED paused
  /\ UNCHANGED <<intent, gates, owned, caller, turn, exec>>

AcceptDurably ==
  /\ steer.pc = "accept"
  /\ IF item[steer.item] \in Present
     THEN /\ SetState({steer.item}, "accepted")
          /\ admitting' = admitting \cup {steer.item}
          /\ steer' = [steer EXCEPT !.pc = "admit"]
     ELSE ReturnSteer /\ UNCHANGED <<item, admitting>>
  /\ UNCHANGED <<intent, paused, told, gates, active, disp, caller, turn, exec>>

(* Under c.mu: the gate, the agent's intake and the ownership agree. *)
AdmitSteer ==
  /\ steer.pc = "admit"
  /\ IF gate = "running" /\ exec.intake
     THEN /\ exec' = [exec EXCEPT !.queue = @ \cup {steer.item}]
          /\ active' = active \cup {steer.item}
          /\ admitting' = admitting \ {steer.item}
          /\ ReturnSteer
     ELSE /\ steer' = [steer EXCEPT !.pc = "reject"]
          /\ UNCHANGED <<exec, owned>>
  /\ UNCHANGED <<durable, gates, disp, caller, turn>>

RejectSteer ==
  /\ steer.pc = "reject"
  /\ SetState({steer.item}, "queued")
  /\ IF item[steer.item] \in Present
     THEN steer' = [steer EXCEPT !.pc = "convert"] /\ UNCHANGED <<paused, admitting>>
     ELSE paused' = TRUE /\ admitting' = admitting \ {steer.item} /\ ReturnSteer
  /\ UNCHANGED <<intent, told, gates, active, disp, caller, turn, exec>>

(* Rejected guidance becomes a follow-up, and the dispatcher hears of it. *)
ConvertSteer ==
  /\ steer.pc = "convert"
  /\ IF item[steer.item] \in Pending
     THEN intent' = [intent EXCEPT ![steer.item] = "followup"] /\ Kick
     ELSE UNCHANGED <<intent, disp>>
  /\ admitting' = admitting \ {steer.item}
  /\ ReturnSteer
  /\ UNCHANGED <<item, paused, told, gates, active, caller, turn, exec>>

SteerStep ==
  \/ ReadCandidate \/ AcceptDurably
  \/ AdmitSteer \/ RejectSteer \/ ConvertSteer

-----------------------------------------------------------------------------
(* The frontends' other verbs. *)

Return == caller' = IdleCall

(* TryEnqueueFollowup. *)
Enqueue(i) ==
  /\ caller.pc = "idle" /\ item[i] = "absent"
  /\ item' = [item EXCEPT ![i] = "queued"]
  /\ caller' = [IdleCall EXCEPT !.pc = "enqueued"]
  /\ UNCHANGED <<intent, paused, told, gates, owned, disp, steer, turn, exec>>

(* An item with reference errors is blocked by a second transaction; in between
   its own envelope blocks every admission. *)
EnqueueBlocked(i) ==
  /\ MayDo("block")
  /\ caller.pc = "idle" /\ item[i] = "absent"
  /\ item' = [item EXCEPT ![i] = "blocked"]
  /\ caller' = [IdleCall EXCEPT !.pc = "pausing"]
  /\ UNCHANGED <<intent, paused, told, gates, owned, disp, steer, turn, exec>>

PauseEnqueued ==
  /\ caller.pc = "pausing"
  /\ paused' = TRUE
  /\ caller' = [caller EXCEPT !.pc = "enqueued"]
  /\ UNCHANGED <<item, intent, told, gates, owned, disp, steer, turn, exec>>

(* The editor protocol leaves a follow-up to the prompt that drains it. *)
KickIfIdle ==
  /\ caller.pc = "enqueued"
  /\ IF gate \in {"running", "finishing"} \/ MayDo("sync") THEN UNCHANGED disp ELSE Kick
  /\ Return
  /\ UNCHANGED <<durable, gates, owned, steer, turn, exec>>

(* DropQueuedSteer: out of the agent's queue, out of the active set, out of the
   manifest. *)
DropSteer(i) ==
  /\ MayDo("drop")
  /\ caller.pc = "idle" /\ i \in exec.queue
  /\ exec' = [exec EXCEPT !.queue = @ \ {i}]
  /\ caller' = [IdleCall EXCEPT !.pc = "dropping", !.items = {i}]
  /\ UNCHANGED <<durable, gates, owned, disp, steer, turn>>

UntrackDropped ==
  /\ caller.pc = "dropping"
  /\ active' = active \ caller.items
  /\ caller' = [caller EXCEPT !.pc = "withdrawing"]
  /\ UNCHANGED <<durable, gates, admitting, disp, steer, turn, exec>>

CancelAcceptedSteer ==
  /\ caller.pc = "withdrawing"
  /\ item' = [i \in Item |-> IF i \in caller.items /\ item[i] = "accepted"
                             THEN "deleted" ELSE item[i]]
  /\ Return
  /\ UNCHANGED <<intent, paused, told, gates, owned, disp, steer, turn, exec>>

(* CancelWithInboxItems; Cancel itself only hurries the turn to its end. *)
BeginCancel(S) ==
  /\ MayDo("cancel")
  /\ caller.pc = "idle"
  /\ caller' = [pc |-> "stopping", items |-> S, was |-> paused]
  /\ UNCHANGED <<durable, gates, owned, disp, steer, turn, exec>>

PauseForCancel ==
  /\ caller.pc = "stopping"
  /\ paused' = TRUE
  /\ caller' = [caller EXCEPT !.pc = "discarding"]
  /\ UNCHANGED <<item, intent, told, gates, owned, disp, steer, turn, exec>>

(* A plausible bug in Discard: work that was admitted is discarded as well. *)
DiscardInFlight ==
  /\ caller.pc = "discarding"
  /\ SetState(caller.items, "deleted") /\ caller' = [caller EXCEPT !.pc = "resuming"]
  /\ UNCHANGED <<intent, paused, told, gates, owned, disp, steer, turn, exec>>

(* DiscardPendingItemsOwned: all or, when one was admitted, nothing. *)
Discard ==
  /\ caller.pc = "discarding"
  /\ IF \E i \in caller.items : item[i] \in InFlight
     THEN Return /\ UNCHANGED item
     ELSE SetState(caller.items, "deleted") /\ caller' = [caller EXCEPT !.pc = "resuming"]
  /\ UNCHANGED <<intent, paused, told, gates, owned, disp, steer, turn, exec>>

ResumeAfterCancel ==
  /\ caller.pc = "resuming"
  /\ paused' = (paused /\ caller.was)
  /\ Return
  /\ UNCHANGED <<item, intent, told, gates, owned, disp, steer, turn, exec>>

CallStep ==
  \/ PauseEnqueued \/ KickIfIdle \/ UntrackDropped \/ CancelAcceptedSteer
  \/ PauseForCancel \/ Discard \/ ResumeAfterCancel

DeleteItem(i) ==
  /\ MayDo("delete")
  /\ item[i] \in Pending
  /\ item' = [item EXCEPT ![i] = "deleted"]
  /\ UNCHANGED <<intent, paused, told, gates, owned, disp, steer, caller, turn, exec>>

RetryItem(i) ==
  /\ item[i] \in {"uncertain", "blocked"}
  /\ SetState({i}, "queued")
  /\ told' = [told EXCEPT ![i] = 0]
  /\ Kick
  /\ UNCHANGED <<intent, paused, gates, owned, steer, caller, turn, exec>>

Pause ==
  /\ MayDo("pause")
  /\ ~paused /\ paused' = TRUE
  /\ UNCHANGED <<item, intent, told, gates, owned, disp, steer, caller, turn, exec>>

Resume ==
  /\ paused /\ paused' = FALSE
  /\ Kick
  /\ UNCHANGED <<item, intent, told, gates, owned, steer, caller, turn, exec>>

(* InboxSnapshot, when it finds something to recover. *)
Snapshot ==
  /\ Orphans # {}
  /\ RecoverOrphaned
  /\ UNCHANGED <<intent, told, gates, owned, disp, steer, caller, turn, exec>>

Restarted ==
  /\ gate' = "open" /\ parked' = 0
  /\ active' = {} /\ admitting' = {}
  /\ disp' = IdleDisp /\ steer' = IdleSteer /\ caller' = IdleCall
  /\ turn' = [t \in Turn |-> IdleTurn]
  /\ exec' = IdleExec

(* A plausible bug in Crash: what was in flight is queued again. *)
CrashRequeues ==
  /\ MayDo("crash")
  /\ item' = [i \in Item |-> IF item[i] \in InFlight THEN "queued" ELSE item[i]]
  /\ paused' = (paused \/ \E i \in Item : item[i] \in Present)
  /\ Restarted
  /\ UNCHANGED <<intent, told>>

(* The process dies; the next one opens the manifest of another run. *)
Crash ==
  /\ MayDo("crash")
  /\ item' = [i \in Item |-> IF item[i] \in InFlight THEN "uncertain" ELSE item[i]]
  /\ paused' = (paused \/ \E i \in Item : item[i] \in Present)
  /\ Restarted
  /\ UNCHANGED <<intent, told>>

UserStep ==
  \/ SubmitPrompt \/ Prompt \/ BeginRotation \/ Pause \/ Resume \/ Snapshot \/ Crash
  \/ \E i \in Item :
       Enqueue(i) \/ EnqueueBlocked(i) \/ EnqueueSteer(i) \/ SteerAgain(i) \/ DropSteer(i) \/ DeleteItem(i) \/ RetryItem(i)
  \/ \E S \in SUBSET Item : BeginCancel(S)

Next ==
  \/ DispatcherStep \/ RetryTimer \/ ExecStep
  \/ \E t \in Turn : EndTurn(t) \/ FinishStep(t)
  \/ SyncStep \/ EndRotation \/ SteerStep \/ CallStep \/ UserStep

Spec == Init /\ [][Next]_vars

(* Code that was entered keeps running, a timer fires, a rotation and a turn
   end; a turn may open and close its intake any number of times first.  A Go
   mutex does not starve its waiters: SF for the steps that lock admissionMu. *)
FairSpec ==
  /\ Spec
  /\ WF_vars(DispatcherStep) /\ SF_vars(Submit) /\ WF_vars(RetryTimer)
  /\ WF_vars(CallStep) /\ WF_vars(SteerStep) /\ SF_vars(ReadCandidate)
  /\ WF_vars(EndRotation) /\ WF_vars(SyncStep) /\ SF_vars(ClaimSync)
  /\ WF_vars(CloseIntake) /\ WF_vars(ConsumeSteer \/ LoadFails)
  /\ WF_vars(PauseUnapplied) /\ \A i \in Item : WF_vars(MarkUnapplied(i))
  /\ \A t \in Turn : SF_vars(EndTurn(t)) /\ WF_vars(FinishStep(t))

-----------------------------------------------------------------------------
(* Properties. *)

(* What is durably in flight belongs to something alive in this process, so the
   recovery inside InboxSnapshot never takes work from a live turn. *)
InFlightIsOwned == Orphans = {}

(* Turns exclude each other, and a rotation excludes the guarded turn until its
   completion was delivered. *)
TurnsExclusive ==
  /\ \A t, u \in Turn : turn[t].pc = "run" /\ turn[u].pc = "run" => t = u
  /\ InRun => gate = "running"
  /\ gate = "rotating" => turn["async"].pc = "none"

(* One request by the user is delivered to the model at most once: crashes,
   lost races and failed saves end in "uncertain", which only the user leaves. *)
DeliveredOnce == \A i \in Item : told[i] <= 1

(* The item a turn runs keeps its durable record until that turn is over: no
   other call discards it, and no earlier turn acknowledges it
   (inbox.go:665-668), or a crash would lose it. *)
TurnIsDurable ==
  \A t \in Turn : turn[t].pc = "run" /\ turn[t].mine # NoItem => item[turn[t].mine] = "running"

(* So does guidance until the agent has read it (inbox_steer.go:150-152). *)
UnfinishedIsDurable ==
  /\ TurnIsDurable
  /\ \A i \in exec.queue \cup ({exec.taken} \ {NoItem}) : item[i] = "accepted"

(* Only what reached the model is acknowledged: guidance the turn accepted and
   never read is not dequeued with the rest of the turn's items. *)
AckedWasDelivered == \A i \in Item : item[i] = "acked" => told[i] > 0

(* Level-triggered dispatch (inbox_dispatch.go:28-32) of a session whose turns
   are guarded: work that is queued while nothing is paused and the gate is open
   does not stay so, as long as the bounded retries are not used up and no
   CancelWithInboxItems lifts its pause, which kicks nobody. *)
Ready == ~paused /\ gate = "open" /\ QueuedItems # {}
QueuedWorkIsDispatched ==
  [](disp.attempts < MaxAttempts /\ caller.pc # "resuming") => (Ready ~> ~Ready)
==============================================================================
