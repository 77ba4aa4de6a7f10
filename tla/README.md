# Tempora: TLA+ models and proofs

Tempora is a coding agent: a Go kernel (`src/kernel`) that runs sessions of a
model with tools, sub-agents and a durable queue of instructions, a React and
Tauri desktop application over it, and servers, SDKs and workers around it.
This directory models the parts of the kernel in which several actors share
state or a crash can come between two writes: who may write which file, how many
sub-agents run at once, what a fleet of them did, which session owns a
workspace, which queued instruction becomes the next turn, what the durable
queue survives, and how a session is rewound.

Run everything inside this directory: `tlc -workers 2 -config X.cfg MCModule`
for a run of `PROJECT.json`, `tlapm Module.tla` for the proofs.

## 1. Inventory

All paths are below `src/kernel/internal` unless they start with `src/`.

| Component | State | Operations | What is hard | What makes it correct |
|---|---|---|---|---|
| **write claims** `runtime/writeclaim/write_claims.go` | none: pure functions | normalize, overlap, containment, limits | prefixes, case folding, whole-workspace claims, limits out of range | two claims that admit one file overlap; overlap is symmetric; limits are usable |
| **sub-agent scheduler** `runtime/writeclaim/scheduler.go`, `runtime/delegation/slot.go` | counters, active claims, parent reservations, waiters | Acquire, release, ReserveWrite, cancellation | grant racing cancel, callback after unlock, nested requests, priorities | slots never leak, limits and claims respected, no lost wakeup, no overtaking, nobody waits in a circle |
| **path-bound tools and write grants** `runtime/agent/path_bound_tools.go`, `runtime/writeclaim/write_grant.go` | a run's declared and granted paths, reservations of the call | check, ask to widen, reserve, write, release | the user answers late; a call of several paths fails half way; symlinks; case folding | one writer per file, writes inside the scope, no reservation left behind |
| **workspace lease** `state/workspacelease` | per session: runs, acquired, acquiring; per process: a token and a name; a lock file and a note | BeginRun, EndRun, AcquireWrite | joiners, cancellation between two locks, crash of the holder | one session writes, held as long as its runs, the token is never lost, requests are answered |
| **file locks** `base/filelock` | a process-local holder table and flocks | Acquire, TryAcquire, release | the same two-level scheme as the lease | mutual exclusion |
| **turn gate** `session/control/turn_gate.go`, `admission_guard.go`, `turn_cancel.go`, `synchronous_turn.go` | running, finishing, rotating, closed, parked turns | admit, park, end, cancel, rotate | a turn that ends while another is admitted | one turn at a time |
| **inbox dispatch** `session/control/inbox*.go` | active and admitting items, dispatching, dispatchPending, retry timer | enqueue, dispatch, steer, drop, cancel, pause, resume, retry, recover | every step above interleaves with the others and with the end of a turn | a queued instruction is started, once, and acknowledged only after it ran |
| **inbox store** `state/sessioninbox` | manifest (items, states, pause flag, idempotency keys and receipts), body blobs | every operation a disk transaction | crash between blob and manifest, a second process, corrupt manifest | no accepted instruction is lost, none is delivered twice unasked |
| **steer queue** `runtime/agent/steer_inbox.go` | queue, intake open | open, admit, take, remove, close | the end of a run against a late admission | accepted guidance is read, dropped or reported |
| **session store** `state/sessionstore` | transcripts, session leases, write authority | save, load, branch, lease | two processes on one session, torn logs | a reader sees a committed prefix |
| **checkpoints** `state/checkpoint`, `session/control/rewind.go` | per turn: what the files were before and after; per rewind: a manifest, backups, temporaries | begin a turn, rewind, revert, undo, recover | two renames per file, then the conversation, then the checkpoints: a crash or a failure between any two; the user edits meanwhile | files and conversation go back together or not at all; an edit is overwritten only while its file is exchanged; every start finishes what was open |
| **recovery gate** `runtime/recovery` | per-episode attempts and fingerprints | decide, restore, persist | counters across restarts | bounded attempts |
| **task monitor** `runtime/taskmonitor` | task records, control requests | claim, heartbeat, control | owner dies, stale control | one owner per task |
| **background work** `base/backgroundwork` | idle-time queue | submit, run, close | shutdown against submit | every accepted job runs or is refused |
| **guardian, usecap, plugin, extension, hook** | clients of external processes | calls | I/O | per-server concurrency |
| **delegation** `runtime/delegation` | a call's plan, its results and counters, one goroutine per item | fleet, task, parallel tasks | cancellation while workers run, results in any order, a start that cannot be recorded, an answer that cannot be saved | dependents run behind answers, unordered writers are disjoint, the report is what happened |
| **execution journal and graph** `state/execjournal`, `state/execgraph` | an append-only log, the set of executions this process owns | open, queue, start, settle, interrupted, rebuild | a crash between two records, a failed append | the next process knows what may have acted; the rebuilt picture agrees with the report |
| **sub-agent store** `runtime/delegation/subagent_store.go` | metadata and transcript per child | prepare, mark running, save, clean up | failed saves, stale "running" after a crash | one terminal status per child |
| **catalogs** `state/historycatalog`, `usagecatalog`, `memory`, `stats`, `migration` | derived projections | rebuild, query, move | rebuild against writes | equal to a rebuild |
| **safety** `safety/*` | rules | classify a command, a host, a path | string analysis | out of scope here |
| **providers** `model/*` | connections | stream | wire formats | out of scope here |
| **frontends** `frontend/*`, `src/app`, `src/shell` | views, HTTP and editor sessions | requests | mostly calls into `session/control` | follow the kernel's state |

Interactions. `agent.Run` calls `BeginRun`/`EndRun` of its session's lease and
`AcquireWrite` before the first mutating tool. A delegation tool acquires a slot
of the scheduler with the claim of the sub-agent it starts; the sub-agent's
built-in writers are re-bound to that claim and reserve in the scheduler
whatever the user grants beyond it; the parent's own write tools reserve there
as well. A fleet call drives its items through the scheduler and writes each
item's passage to the execution journal, from which, with the sub-agent store, a
later process redraws it. `session/control` admits one turn at a time and, at
its end, hands the next queued instruction of the inbox to a new turn; guidance
sent during a turn goes through the same inbox into the running agent's steer
queue. A rewind runs under the gate and changes files, conversation and
checkpoints.

## 2. Modules

| Module | Models | Built on |
|---|---|---|
| `WritePaths` | claims as pure operators; a path is a sequence of names, case folding is a function on names | |
| `SubagentScheduler` | every critical section and wait of the scheduler | `WritePaths` |
| `WriteFence` | the writes of bound runs and of the parent against the scheduler's claim lists | `WritePaths` |
| `FleetRun` | one fleet call: preflight, driver, workers, journal, sub-agent store, redraw | `WritePaths` |
| `ExclusiveLease` | abstract: a lease held by one client at a time, handed over through nobody | |
| `WorkspaceLease` | token, flock, note and the sessions' state machines | refines `ExclusiveLease` |
| `InboxDispatch` | the turn gate, the inbox's dispatcher, steering, the store's item states, the agent's steer queue | |
| `SessionInbox` | the inbox on disk: transactions of several processes with their writes, crashes and damage | |
| `RewindTransaction` | rewind, file revert, undo and recovery, write by write | |
| `WritePathsProofs`, `SubagentSchedulerProofs`, `WriteFenceProofs`, `FleetRunProofs`, `WorkspaceLeaseProofs`, `SessionInboxProofs`, `InboxDispatchProofs`, `RewindTransactionProofs` | theorems | the modules they name |
| `MC*` | instances for TLC | |

How they meet. `FleetRun` uses of the scheduler what `SubagentScheduler` proves
and checks of it: `Admit` is its admission condition on the items that hold a
slot (`LimitsRespected`, `ExclusiveClaims`), and the strong fairness on `Admit`
stands for `NoLostWakeup`, `NoOvertaking` and `EveryCallSettles`. `WriteFence`
keeps the scheduler's claim lists and drops slots and queue. `InboxDispatch`
treats a store operation as one step, as `SessionInbox` shows each to be:
`BodiesBehindManifest` and `AcceptedIsKept` say that a committed manifest is
whole; the item states and transitions of both modules are those of `ops.go`.

### SubagentScheduler

`sched` is the struct's counters and lists, `waiters` with `behind` is the
waiter slice (`behind[r]` are the waiters that arrived before `r`; the stable
sort by priority reorders the slice but never two waiters of one priority, so
arrival order and priority determine it), `ready` the closed channels, `pc` and
`wpc` the program counters of the calls. Claim lists are sets: two claims held
at once never overlap and a non-empty claim overlaps itself
(`OverlapsReflexive`), so a list never holds two equal claims. The steps outside
the mutex are `ReportQueued`/`AbandonQueued` (the `OnQueued` callback),
`TakeGrant`, `CancelWait`, and `ReturnGrant`/`EndWithdrawal` (the second look at
`ready`); a pump can come between any two. One pump is one step that picks the
set `G` of granted waiters; `PumpGrants` is the loop's condition on each waiter
given the grants before it.

### WriteFence

One tool call is `BeginCall`, then `CheckPath` per path with `Widen`/`Refuse`
when the user is asked and `Reserve` outside the declared claim, then the write
and `ReleaseHeld` once per deferred release. A parent's call reserves
its paths whether they are read from its arguments or declared by the tool
(`ParentReservation`). `Real` is symlink resolution.
Admission is reduced to the claim check, because slots and the queue do not
matter here.

### FleetRun

`plan` is the validated call: dependencies as the caller listed them (a task may
be named twice), adopted items, claims, `fail_fast`, and the slots the session
leaves. `driver` walks `openFanOut` (`OpenRecord`, then `Claim`, per item),
`driveFleet` (`Launch` over the ready items, `TakeCompleted`/`TakeFailed`,
`LeaveLoop`, `Drain`) and `closeFanOut` (`CloseItem`, `Return`); `results`,
`waiting` and `doneCh` are its table, counters and channel. A `worker` goes
through `RunProfileSpec`: refused, queued or admitted, started, begun, ended,
published. `journal[i]` holds the records `History` folds for an item: `Entry`
is the fold, one record at a time. `store[i]` is the status in the sub-agent's
metadata, `owned` the process's live set. `ResolveState` is what
`execgraph.Rebuild` draws.

An item can fail at every step, the call can be cancelled at any time, and the
process can die between any two steps. A failed append is the error with the
record absent or, for a failed `Sync`, present; at most `MaxFaults` times.

### WorkspaceLease

A run's `pc` follows `AcquireWrite`, `acquire` and the release closure, one step
per critical section of `Owner.mu`, channel operation or system call. `Settle`
publishes the outcome and wakes the joiners; the idle check it ends with never
fires, because the acquiring run is itself active (`BeginRun`..`EndRun`
surrounds every call, `agent.go:831`). `Crash` frees the flock and the process's
memory and leaves the note.

### InboxDispatch

One module, because the parts share their locks and none of the hard behaviours
stays inside one of them: the turn gate and its finishing window, the
dispatcher, `TrySteerInboxItem`, the end of a turn, the agent's steer queue, and
the states of the store's items.

`item`, `intent` and `paused` are the durable manifest, the only state besides
the bookkeeping `told` (deliveries to the model since the user last asked for
the item) that `Crash` keeps. `gate` is `turnGate`; `active` and `admitting` are
the two ownership sets of `inboxState`, which recovery reads without a lock.
`disp` is the dispatcher with its pending kick and retry timer, its `pc` walking
`maybeDispatchInbox`, `dispatchInboxOnce` and `TrySubmitInboxItem`; `steer` is a
`TrySteerInboxItem` call; both hold `admissionMu` where `AdmissionFree` says so.
`caller` is an enqueue, a withdrawal or a cancellation under way, `turn` a
guarded ("async") and a synchronous turn with the items `onInboxTurnDone` works
on, `exec` the agent's queue, what it took, and what it hands back unread.

`Verbs` names what the environment of an instance does (`MayDo`): steering,
repeated steering, rotation, failed saves, failed loads, lost write authority,
blocked references, crashes, withdrawal, deletion, pauses, `CancelWithInboxItems`,
and `"sync"` for a session of the editor protocol, whose prompts run
synchronously, whose follow-ups are enqueued without a kick, and which drains
the inbox after every prompt. Everything the code does by itself is always on.

The manifest's order is open, because a user may move items at any time; so
nothing is claimed about first in, first out.

### SessionInbox

`file` and `man` are the manifest file and what it holds, `blobs` the body
files; both survive a crash. `tx` is the transaction that holds the store's
mutex and file lock: it loads (adopting what another process left in flight, or
salvaging a corrupt manifest), decides (one definition per operation of
`ops.go`, from `Enqueue` to `Rearrange`), then `WriteBlob`, `Commit`, `Clean`,
each of which can fail or be cut by `Crash`. A refused operation leaves the disk
as the load left it. The four history variables are what a caller may rely on:
`owed` bodies, `spent` items, the `taker` of an item in flight, and the
`effects` of a keyed request; a decision carries its `Effect`, which counts only
when the commit does. `Faults` of an instance: `"corrupt"` damages the manifest,
`"midsalvage"` lets a salvage be cut between its two renames.

### RewindTransaction

`disk`, `aside` (backups) and `ready` (prepared temporaries) are files, `talk`
and `marks` the conversation and the checkpoints, `man` the manifests, `pre` and
`post` the captures of each turn. `proc` walks a commit: prepare, stage and
publish each target, truncate the conversation and the checkpoints one by one,
commit; or compensate in the reverse order, for each file first the look
(`KeepFile`, `LookAtFile`) and then, as steps of their own, `GiveBack`, or
`ClearFile` and `FinishPutBack`; or, after `Crash`, recover every open
transaction. A conversation that is shorter than the boundary was compacted past
it: nothing is cut (`Lost`), and an undo that would have to cut it again cannot
be mended (`MendsLost`). Each write is a step that may fail, and in `"edit"` instances the
user may write a file between any two steps: also after a compensation has looked
at it, and between the two renames that publish it. `Faults` also knows `"carryon"` and
`"stale"`, two behaviours of the code the run leaves out, see section 3.

## 3. Runs

| Run | Question | Bounds | Result |
|---|---|---|---|
| `scheduler` | safety, order of the queue, and does every call settle | five runs (two on one claim, of different weight, a reader, and two nested in them), a parent write on a path below that claim in another case and an empty one; limits 2/5, so that clamping matters and two parents fill the slots | passes |
| `fence` | one writer per file | two runs with disjoint claims, moves across the border, one parent call in and out of the workspace, two calls each: enough for a grant of one call to meet a reservation of another | passes |
| `fence_links` | the same with a symlink into another claim | | violated |
| `fleet` | is the report, the journal and the redrawn picture what happened | three items, the fewest for a chain, a join and an adopted item between two; a dependency named twice, shared claims along a chain, one slot or two, fail-fast; a cycle and an unordered overlap the preflight refuses; one spell of failed writes, one crash, one cancellation | passes |
| `lease` | safety, refinement, and is every request answered | two processes, three sessions, four runs (two of one session, so joins happen), one crash; no session names itself, since a note delays nobody | passes |
| `inbox` | safety of the queue under everything that fails | two items, so that one is claimed, steered or recovered while the other runs; one parked prompt, enough for it to race the dispatcher at the end of a turn | passes |
| `inbox_live` | is queued work dispatched | one item against prompts and rotations that take the gate, repeated steers and cancellations; a lost wakeup needs one item and one competitor | passes |
| `inbox_editor` | the same session driven by the editor protocol | two items, synchronous prompts, withdrawal of guidance | passes |
| `inbox_ack` | does a turn acknowledge only what it finished | two items, synchronous prompts | violated |
| `sessioninbox` | what the durable queue promises its callers | two processes, two keys, two items, one receipt (so that the cap forgets one), two names, a manifest that is damaged at any time | passes |
| `sessioninbox_salvage` | is a store that lost its manifest ever opened empty and unrecovered | the same, with a salvage cut short | violated |
| `rewind` | do files and conversation go back together | two files (one that exists, one that does not), two turns of three kinds, two transactions (a rewind and its undo), two crashes, failures or user edits in all | passes |

The type invariants of the modules that have proofs are theorems (`TypeCorrect`)
and not repeated in the runs.

`CHECK_DEADLOCK FALSE` is used only where every call, run or transaction ends for
good, so that the system stops.

### Fairness

Straight-line code of a goroutine gets weak fairness; users, cancellations,
crashes and failures get none.

* `scheduler`: a holder eventually releases (a sub-agent's run ends); no fairness
  on issuing or cancelling calls.
* `fleet`: weak fairness on the driver and on each worker, whose child ends
  (step and time limits), and strong fairness on `Admit`, which the scheduler
  justifies as said above.
* `lease`: Go serves parked channel receivers in order, hence strong fairness on
  `TakeToken`; a run makes finitely many calls, hence strong fairness on
  `EndRun`. The property is conditional on finitely many new runs, because the
  flock is polled: a stream of new turns in another process can win it at every
  poll.
* `inbox_live`: weak fairness on every started call, the dispatcher, the retry
  timer, the end of a rotation and of a turn; strong fairness on the three steps
  that lock `admissionMu` (a Go mutex does not starve a waiter) and on the end of
  a turn, which may open and close its steer intake any finite number of times.
  The premise names the gaps of the code: the dispatcher gives up after three
  failed passes, and `CancelWithInboxItems` lifts its pause without a kick.
  Without the second half of the premise TLC finds work asleep behind an open
  gate.
* `rewind`: weak fairness on the process's own steps; its premise is that the
  session is bound again and again.

Not every verb is on in every run of `InboxDispatch`. Synchronous prompts
(`"sync"`), withdrawal (`"drop"`) and a repeated steer (`"resteer"`) each open a
window in which an item is in flight and untracked; the ownership invariants do
not hold through those, and `inbox`, which states them, leaves the verbs out. `PROJECT.json` lists the windows as
hazards.

### Findings

Each has a run, and `PROJECT.json` quotes the comment it disagrees with.

* `fence_links`: a reservation is made under a symlink's own name, so two runs
  can write one file.
* `inbox_ack`: guidance arrives just too late for a prompt of the editor protocol,
  becomes a follow-up, wakes the dispatcher, and its turn starts between
  `gate.end` and `onInboxTurnDone`, which then dequeues it while it runs.
* `sessioninbox_salvage`: a salvage that fails or dies between its two renames
  leaves no manifest; the next load makes an empty one, not marked as recovered.

### Exceptions the properties name or the instances leave out

* `WriteFence`: a move between two spellings of one granted file, or between a
  granted directory and a path in it, conflicts with the reservation the same call
  has just made and is reported busy, though no other run writes there; nothing is
  written and nothing stays reserved.
* `RewindTransaction`, `"carryon"` (`transaction.go:1140`): when the manifest of an
  aborted rewind could not be written, the user works on, and the next start takes
  the rewind back over that work. `"stale"` (`transaction.go:1277`,
  `checkpoint.go:327`): a new turn takes an undo back in memory only, and a
  reopened session offers it again. With either added to `Faults` TLC violates
  `CheckpointsMatchTalk` or `AllOrNothing`. `Stranded` (`transaction.go:1040`): a
  process that dies after it removed a published file and before its backup is
  renamed back leaves a state no later start recognizes; `RecoveryConverges`
  excepts it, and files a user edited. `EditsSurvive` excepts a file that is being
  exchanged (`Exchanging`): between the two renames that publish it (`"place"`),
  and from the look of a compensation to the last rename (`"giveback"`, `"clear"`,
  `"putback"`). The code looks once (`transaction.go:979`) and then removes the
  file (1040, 1053, 1073) or renames over it (1005, 1043, 1061), so an edit written
  there is lost without the recovery copy that the comment at line 976 promises for
  any unrelated state; without the exception TLC finds `EditsSurvive` violated.
* `FleetRun`: a dependency that leads through an adopted item orders nothing,
  though the preflight counts it (`fleet_graph.go:213`): two writers of one path
  may be under way at once, and only the scheduler keeps them apart.
  `ClaimsUnderWayAreDisjoint` excepts them. An item that failed before its child
  acted is redrawn as skipped or cancelled (`rebuild.go:111`), as is one whose
  terminal status could not be saved although its child acted; `RedrawIsTrue`
  excepts both. An item downstream of a failed one through an adopted one may be
  marked skipped while it runs, until its own result overwrites that.
  `Open` appends before it claims, so a reader in between calls the new item
  interrupted; `InterruptionIsTrue` is about items under way, which come later.

## 4. Proofs

For every value of the constants that satisfies the modules' named assumptions:

* `WritePathsProofs`: overlap is symmetric and reflexive on non-empty claims, two
  prefixes of one path are nested, and hence `SharedPathOverlaps`: if two
  well-formed claims admit one path, they overlap. `LimitsUsable`: normalized
  limits are at least one and writers at most the total.
* `SubagentSchedulerProofs`: `IInv` joins typing, the agreement of queue and
  program counters (`QueueMatchesCalls`), the agreement of counters and lists
  with `Holders`, and the scheduler's own conditions on any set of holders
  (`Sound`). `LimitsRespected`, `ExclusiveClaims` and `NoLostWakeup` are not
  inductive alone: a release moves the counters, and only their equality with
  `Holders` says what the next check compares. `LimitsRespected` speaks of the
  configured numbers, their defaults and the cap; `LimitsAsConfigured` ties them to
  the normalized limits the scheduler uses. The proof has one lemma per
  action, and one for the pump that all releasing actions cite. `NobodyIsOvertaken`
  (`NoOvertaking`) is an action property of the same invariant: a call that does
  not queue starts only if nobody of the same demand could have (`NoLostWakeup`),
  and a pump that passes a waiter over had less room for everyone of its demand
  behind it (`CanStartIsMonotone`, on the order `PrecedesIsStrictOrder`).
  `WritersShareNoPath` combines exclusion with `SharedPathOverlaps`.
* `WriteFenceProofs`: `IInv` says that a call that is past a path holds a claim
  that covers it (`Passed`), that claims held at once are pairwise disjoint
  (`HeldApart`, `DeclaredApart`) and that the scheduler lists exactly these
  (`Listed`). `OneWriterAlways` follows with `SharedPathOverlaps` under the
  premise `NoLinks`, which `fence_links` shows to be needed.
* `FleetRunProofs`: the invariants are not inductive because nothing in them says
  what the driver's counters mean. `IInv` adds that a counter is never below the
  unanswered dependencies (`Counted`), that it is exact while the driver collects
  and that nothing startable is outside `driver.todo` (`Exact`), what the channel
  and the store hold at each point of a worker (`Channelled`, `Stored`), which
  records exist while the driver opens, collects and closes (`Journaled`), that
  without a failed write none is missing (`Complete`), and that every cut branch
  has a cause (`Caused`). That nothing waits for ever by a wrong counter needs a
  fact about graphs, `SomeItemLeads`: in a finite plan without cycles no
  non-empty set of items is closed upwards; it is proved by counting dependents.
* `WorkspaceLeaseProofs`: the inductive invariant adds to the checked properties
  who holds the flock at each program counter (`FileOwned`) and that a session
  acquires at most once at a time. `NoteIsTheHolders` says that before any crash
  the note names the holder or nobody. `LeaseRefinesExclusiveLease` follows step
  by step: `Settle` takes, `EndRun` and `Crash` drop, everything else stutters.
* `SessionInboxProofs`: `IInv` says what a loaded manifest (`Good`, `Loaded`) and a
  decided transaction (`Promised`) must satisfy, so that each operation is one
  lemma about its decision (`DecideKeeps`) and each disk step one about `Good`.
  `AcceptedWorkIsKept` has the premise that no salvage is cut short
  (`"midsalvage" \notin Faults`), which `sessioninbox_salvage` shows to be needed.

* `InboxDispatchProofs`: `TypeInv` and `Locks` are inductive whatever the
  environment does. `Locks` says at which program counters of the dispatcher and
  of the two turns the gate is taken or finishing (`GateAgrees`) and that the
  dispatcher and a steer call never both hold `admissionMu` (`OneAdmission`);
  `TurnsExclude` follows. The other invariants of `inbox` are not inductive,
  because an item changes hands between steps that say nothing of it: `GParts`
  says who has each item in flight (`InFlightAccounted`: the dispatcher, the
  steer call, the agent or the turn that answers for it), in which state and
  how often delivered each of them has it (`DispatchedWaits`, `SteeredWaits`,
  `HeldWaits`, `TurnOwnsItsItem`, `ToldAgrees`), and what a finishing turn still
  has to acknowledge (`ActiveAccounted`). It is inductive under the premise
  `Guarded`: no synchronous prompt, no withdrawal, no repeated steer. The premise
  is needed: with any of the three added to all the other verbs TLC finds
  `InFlightIsOwned`, `TurnIsDurable`, `UnfinishedIsDurable` and
  `AckedWasDelivered` violated with one item, and `DeliveredOnce` with either of
  the last two. `inbox` satisfies it.
* `RewindTransactionProofs`: `Types` and `Placed` type the manifests and say at
  which steps the process has one; `Records` says what state a manifest has at
  each step (`StateFits`), that transactions are numbered in the order they were
  opened and only the one being recorded is in memory alone (`Numbered`), what
  `lastUndo` and an undo may name (`UndoFits`) and when a backup exists
  (`AsideFits`). These are inductive for all
  `Faults`, and give `UndoesOnce` and, as an action property, `EditsAreKept`: an exchange
  starts from no edit but the one the transaction restored, only an exchange
  destroys an edit, and a backup leaves only for its file.
  `CheckpointsMatchTalk` and `AllOrNothing` speak of the end of a transaction only
  and say nothing of the steps that lead there. `Ledger` says for each point of
  `proc` which targets are out, moved aside or restored, whether the conversation
  is the old one, the new one or on its way, and how many checkpoints have
  followed it. It is inductive under the premise `Calm`, that neither `"carryon"`
  nor `"stale"` is in `Faults`, and gives `CheckpointsFollowTalk` and
  `WholeOrNothing`. The premise is needed: TLC violates the first with
  `"carryon"` and the second with `"stale"`. Before it was proved, TLC checked the
  whole invariant on the constants of `rewind`, and `Records` and the properties
  with a third turn.

Only model-checked: the liveness properties (`EveryCallSettles`,
`EveryRequestSettles`, `QueuedWorkIsDispatched`, `RecoveryConverges`,
`FleetReturns`: liveness under fairness is out of the prover's reach), and two
safety properties in sessions outside their theorem's premise: `TurnIsDurable`
with a repeated steer but without failed saves and crashes (`inbox_live`), and
`DeliveredOnce` with synchronous prompts and withdrawal (`inbox_editor`).

## 5. Not modelled, and the plan

In order of importance:

1. `DeliveredOnce` for sessions of the editor protocol, from an invariant that
   follows an item which a synchronous turn acknowledged too early, so that the
   premise of `DeliveryOnce` shrinks to what TLC shows to be needed.
2. An abstract at-most-once queue that `SessionInbox` and `InboxDispatch` refine.
3. `FileLock`: `base/filelock`, and the session lease of `sessionstore`.
4. `MutationBarrier`, `RecoveryGate`, `BackgroundWork`, `TaskMonitor`.

Most of the kernel's lines are outside these components: parsers, wire formats,
string classification in `safety`, presentation, drivers of external programs.
They stay out. Inside the modelled components:

* statistics, notices' timing and texts, Windows locking, the rebinding of tool
  registries;
* of the inbox: editing, appending and refreshing an item's content, guidance with
  images (always rejected), the check for a pending prompt, the closed gate and
  draining generations, the rebinding of the inbox when a rotation changes the
  session; of the store: byte limits, the order of the items, intents, schema
  migration, `Rebind`, `Close`, `RemoveDir`;
* of checkpoints: the captures of a turn as separate steps, the staleness of a
  plan, the mutation barrier, coverage gaps, legacy checkpoints, the expiry of
  payloads;
* of delegation: the task and parallel_tasks tools, background handoff,
  continuation and forks of transcripts, the contents of answers, destroyed
  parents; of the journal: an append that fails part-way and glues the next line
  to its own (`journal.go:382`), labels, edges, and `SkipCause`, which only a
  benchmark calls.
