---------------------------- MODULE WorkspaceLease ----------------------------
(***************************************************************************)
(* The workspace write lease of package workspacelease                     *)
(* (kernel/internal/state/workspacelease/lease.go, lock_unix.go): sessions *)
(* (Owner) of several processes serialize their writers on one workspace.  *)
(* A session takes the lease at the first write of any of its runs and     *)
(* keeps it until the last run of the session ends.                        *)
(*                                                                         *)
(* Two locks stand behind it: the token of a process (a one-slot channel)  *)
(* and a flock on a file shared by the processes, beside which the holder  *)
(* leaves a note with its name.  Each critical section of Owner.mu, each   *)
(* channel operation and each system call is one step.                     *)
(***************************************************************************)
EXTENDS Integers, FiniteSets

CONSTANTS
  Process, Owner, Run,
  ProcessOf,   \* ProcessOf[o]: the process that session o lives in
  OwnerOf,     \* OwnerOf[r]: the session that agent run r belongs to
  Named,       \* the sessions whose holder function returns a name
  Nobody,
  MaxCrashes   \* bound: process crashes

ASSUME ProcessOfAssumption == ProcessOf \in [Owner -> Process]
ASSUME OwnerOfAssumption == OwnerOf \in [Run -> Owner]
ASSUME OwnerAssumption == Nobody \notin Owner /\ Named \subseteq Owner
ASSUME RunAssumption == IsFiniteSet(Run)

VARIABLES
  token,     \* token[p]: the channel of process p holds its token
  file,      \* the session whose descriptor holds the flock
  note,      \* the name in the note beside the lock file
  acquired,  \* acquired[o]
  acquiring, \* acquiring[o]
  pc,        \* where each run stands
  named,     \* named[p]: the name of the holder as process p remembers it
  told,      \* told[r]: whom a waiting run was told is writing
  crashes

vars == <<token, file, note, acquired, acquiring, pc, named, told, crashes>>

Proc(r) == ProcessOf[OwnerOf[r]]

RunState ==
  {"out",       \* not begun, or ended
   "in",        \* between BeginRun and EndRun, not writing
   "writing",   \* AcquireWrite returned nil in this run
   "joining",   \* waits for the acquisition another run of the session makes
   "awaiting",  \* acquires: about to try the process token
  "parked",    \* acquires: waits for the process token
   "locking",   \* acquires: has the token, retries the flock
   "reading",   \* acquires: was refused the flock, reads the note
  "noting",    \* acquires: has the flock, leaves its name
   "settling",  \* acquires: about to publish the success
   "failing",   \* acquires: about to publish the failure
   "clearing",  \* ends the last run: removes the note
   "unlocking", \* ends the last run: gives the flock up
   "returning"} \* ends the last run: puts the token back

Began == RunState \ {"out", "clearing", "unlocking", "returning"}
ActiveRuns(o) == {r \in Run : OwnerOf[r] = o /\ pc[r] \in Began}

TypeOK ==
  /\ token \in [Process -> BOOLEAN]
  /\ file \in Owner \cup {Nobody}
  /\ note \in Named \cup {Nobody}
  /\ acquired \in [Owner -> BOOLEAN]
  /\ acquiring \in [Owner -> BOOLEAN]
  /\ pc \in [Run -> RunState]
  /\ named \in [Process -> Named \cup {Nobody}]
  /\ told \in [Run -> Named \cup {Nobody}]
  /\ crashes \in Nat

Init ==
  /\ token = [p \in Process |-> TRUE]
  /\ file = Nobody
  /\ note = Nobody
  /\ acquired = [o \in Owner |-> FALSE]
  /\ acquiring = [o \in Owner |-> FALSE]
  /\ pc = [r \in Run |-> "out"]
  /\ named = [p \in Process |-> Nobody]
  /\ told = [r \in Run |-> Nobody]
  /\ crashes = 0

Goto(r, from, to) == pc[r] = from /\ pc' = [pc EXCEPT ![r] = to]

BeginRun(r) ==
  /\ Goto(r, "out", "in")
  /\ UNCHANGED <<token, file, note, acquired, acquiring, told, named, crashes>>

(* A plausible bug in Idle: any run that ends takes the lease with it. *)
IdleForgetsRuns(r) == acquired[OwnerOf[r]] /\ ~acquiring[OwnerOf[r]]

(* releaseIfIdleLocked, when r is about to leave the active runs. *)
Idle(r) ==
  acquired[OwnerOf[r]] /\ ~acquiring[OwnerOf[r]] /\ ActiveRuns(OwnerOf[r]) = {r}

(* The last run of a session that holds the lease gives it back, in three
   steps after the unlock. *)
EndRun(r) ==
  /\ pc[r] \in {"in", "writing"}
  /\ IF Idle(r)
     THEN /\ acquired' = [acquired EXCEPT ![OwnerOf[r]] = FALSE]
          /\ pc' = [pc EXCEPT ![r] = "clearing"]
     ELSE /\ pc' = [pc EXCEPT ![r] = "out"]
          /\ UNCHANGED acquired
  /\ UNCHANGED <<token, file, note, acquiring, told, named, crashes>>

(* AcquireWrite: re-entrant, then join, then acquire. *)
AcquireWrite(r) ==
  LET o == OwnerOf[r] IN
  /\ pc[r] \in {"in", "writing"}
  /\ IF acquired[o]
     THEN pc' = [pc EXCEPT ![r] = "writing"] /\ UNCHANGED acquiring
     ELSE IF acquiring[o]
     THEN pc' = [pc EXCEPT ![r] = "joining"] /\ UNCHANGED acquiring
     ELSE /\ pc' = [pc EXCEPT ![r] = "awaiting"]
          /\ acquiring' = [acquiring EXCEPT ![o] = TRUE]
  /\ told' = [told EXCEPT ![r] = Nobody]
  /\ UNCHANGED <<token, file, note, acquired, named, crashes>>

(* A joiner's context ends.  A joiner also returns to AcquireWrite's loop when
   the acquisition it joined is settled, see Settle. *)
CancelJoin(r) ==
  /\ Goto(r, "joining", "in")
  /\ UNCHANGED <<token, file, note, acquired, acquiring, told, named, crashes>>

(* The token is out: the waiter reads who has it and parks. *)
AwaitToken(r) ==
  /\ ~token[Proc(r)]
  /\ Goto(r, "awaiting", "parked")
  /\ told' = [told EXCEPT ![r] = named[Proc(r)]]
  /\ UNCHANGED <<token, file, note, acquired, acquiring, named, crashes>>

TakeToken(r) ==
  /\ token[Proc(r)]
  /\ \E from \in {"awaiting", "parked"} : Goto(r, from, "locking")
  /\ token' = [token EXCEPT ![Proc(r)] = FALSE]
  /\ UNCHANGED <<file, note, acquired, acquiring, told, named, crashes>>

CancelToken(r) ==
  /\ \E from \in {"awaiting", "parked"} : Goto(r, from, "failing")
  /\ UNCHANGED <<token, file, note, acquired, acquiring, told, named, crashes>>

(* A plausible bug in LockFile: one lock file per process. *)
LockFileOfProcess(r) ==
  /\ ~(file \in Owner /\ ProcessOf[file] = Proc(r))
  /\ Goto(r, "locking", "noting")
  /\ file' = OwnerOf[r]
  /\ UNCHANGED <<token, note, acquired, acquiring, told, named, crashes>>

LockFile(r) ==
  /\ file = Nobody
  /\ Goto(r, "locking", "noting")
  /\ file' = OwnerOf[r]
  /\ UNCHANGED <<token, note, acquired, acquiring, told, named, crashes>>

(* The flock is held; a waiter that knows nobody's name yet then reads the
   note, which may have changed since. *)
ContendFile(r) ==
  /\ file # Nobody /\ told[r] = Nobody
  /\ Goto(r, "locking", "reading")
  /\ UNCHANGED <<token, file, note, acquired, acquiring, told, named, crashes>>

ReadHolder(r) ==
  /\ Goto(r, "reading", "locking")
  /\ told' = [told EXCEPT ![r] = note]
  /\ UNCHANGED <<token, file, note, acquired, acquiring, named, crashes>>

(* A plausible bug in AbandonFile: the token stays out. *)
AbandonFileKeepsToken(r) ==
  /\ Goto(r, "locking", "failing")
  /\ UNCHANGED <<token, file, note, acquired, acquiring, told, named, crashes>>

(* The context ends, or the lock file cannot be opened. *)
AbandonFile(r) ==
  /\ Goto(r, "locking", "failing")
  /\ token' = [token EXCEPT ![Proc(r)] = TRUE]
  /\ UNCHANGED <<file, note, acquired, acquiring, told, named, crashes>>

(* setHolder and the note.  Nobody sees one without the other: the process's
   own waiters read the name while the token is out and the note only after
   they have it. *)
WriteNote(r) ==
  LET o == OwnerOf[r] IN
  /\ Goto(r, "noting", "settling")
  /\ named' = [named EXCEPT ![Proc(r)] = IF o \in Named THEN o ELSE Nobody]
  /\ note' = IF o \in Named THEN o ELSE note
  /\ UNCHANGED <<token, file, acquired, acquiring, told, crashes>>

(* A plausible bug in Wake: the done channel is never closed. *)
WakeNobody(o, r, to) == [pc EXCEPT ![r] = to]

(* The acquisition is published and the joiners wake, back at the top of the
   loop.  The run that acquired is still active, so nothing is idle. *)
Wake(o, r, to) ==
  [q \in Run |-> IF q = r THEN to
                 ELSE IF OwnerOf[q] = o /\ pc[q] = "joining" THEN "in"
                 ELSE pc[q]]

Settle(r) ==
  LET o == OwnerOf[r] IN
  /\ pc[r] \in {"settling", "failing"}
  /\ acquiring' = [acquiring EXCEPT ![o] = FALSE]
  /\ acquired' = IF pc[r] = "settling" THEN [acquired EXCEPT ![o] = TRUE] ELSE acquired
  /\ pc' = Wake(o, r, IF pc[r] = "settling" THEN "writing" ELSE "in")
  /\ UNCHANGED <<token, file, note, told, named, crashes>>

RemoveNote(r) ==
  /\ Goto(r, "clearing", "unlocking")
  /\ note' = Nobody
  /\ named' = [named EXCEPT ![Proc(r)] = Nobody]
  /\ UNCHANGED <<token, file, acquired, acquiring, told, crashes>>

UnlockFile(r) ==
  /\ Goto(r, "unlocking", "returning")
  /\ file' = Nobody
  /\ UNCHANGED <<token, note, acquired, acquiring, told, named, crashes>>

ReturnToken(r) ==
  /\ Goto(r, "returning", "out")
  /\ token' = [token EXCEPT ![Proc(r)] = TRUE]
  /\ UNCHANGED <<file, note, acquired, acquiring, told, named, crashes>>

(* A process dies and comes back: the kernel drops its flock, the note stays. *)
Crash(p) ==
  LET gone == {o \in Owner : ProcessOf[o] = p} IN
  /\ crashes < MaxCrashes
  /\ crashes' = crashes + 1
  /\ token' = [token EXCEPT ![p] = TRUE]
  /\ named' = [named EXCEPT ![p] = Nobody]
  /\ file' = IF file \in gone THEN Nobody ELSE file
  /\ acquired' = [o \in Owner |-> o \notin gone /\ acquired[o]]
  /\ acquiring' = [o \in Owner |-> o \notin gone /\ acquiring[o]]
  /\ pc' = [r \in Run |-> IF OwnerOf[r] \in gone THEN "out" ELSE pc[r]]
  /\ told' = [r \in Run |-> IF OwnerOf[r] \in gone THEN Nobody ELSE told[r]]
  /\ UNCHANGED note

RunStep(r) ==
  \/ BeginRun(r) \/ EndRun(r) \/ AcquireWrite(r) \/ CancelJoin(r)
  \/ AwaitToken(r) \/ TakeToken(r) \/ CancelToken(r) \/ LockFile(r) \/ ContendFile(r) \/ ReadHolder(r)
  \/ AbandonFile(r)
  \/ WriteNote(r) \/ Settle(r) \/ RemoveNote(r) \/ UnlockFile(r) \/ ReturnToken(r)

Next == (\E r \in Run : RunStep(r)) \/ (\E p \in Process : Crash(p))

Spec == Init /\ [][Next]_vars

(* The steps a run takes by itself once it asked: straight-line code, so WF.
   A channel serves its parked receivers first come first served, so a run that
   waits for the token is not passed over forever; a run makes finitely many
   calls and then ends, whatever its calls return: SF for both. *)
FairSpec ==
  /\ Spec
  /\ \A r \in Run :
       /\ WF_vars(AwaitToken(r) \/ LockFile(r) \/ ReadHolder(r) \/ WriteNote(r) \/ Settle(r))
       /\ WF_vars(RemoveNote(r) \/ UnlockFile(r) \/ ReturnToken(r))
       /\ SF_vars(TakeToken(r))
       /\ SF_vars(EndRun(r))

-----------------------------------------------------------------------------
(* Properties. *)

(* Two runs that write at the same time belong to one session, whatever
   process they live in and whatever process died meanwhile (lease.go:1-9). *)
OneSessionWrites ==
  \A r, q \in Run : pc[r] = "writing" /\ pc[q] = "writing" => OwnerOf[r] = OwnerOf[q]

(* "A writer holds from its first mutation until every participating run ends,
   and never past them": no run of a session loses the lease under another's
   EndRun, and no session without a run keeps it. *)
HeldForItsRuns ==
  /\ \A r \in Run : pc[r] = "writing" => acquired[OwnerOf[r]]
  /\ \A o \in Owner : acquired[o] => ActiveRuns(o) # {}

(* The one token of a process is in the channel, or with exactly one of: a run
   that acquires or releases, a session that holds the lease.  A cancelled wait
   or an unreadable lock file never loses it nor puts back a second one. *)
TokenStates == {"locking", "reading", "noting", "settling", "clearing", "unlocking", "returning"}
TokenRuns(p) == {r \in Run : Proc(r) = p /\ pc[r] \in TokenStates}
TokenSessions(p) == {o \in Owner : ProcessOf[o] = p /\ acquired[o]}
TokenKept ==
  \A p \in Process :
    /\ token[p] <=> TokenRuns(p) \cup TokenSessions(p) = {}
    /\ \A r, q \in TokenRuns(p) : r = q
    /\ \A o, l \in TokenSessions(p) : o = l
    /\ TokenRuns(p) = {} \/ TokenSessions(p) = {}

(* The lease as its clients see it: acquired is set for one session at a time
   and handed over only through a free lease. *)
LeaseHolder ==
  IF \E o \in Owner : acquired[o] THEN CHOOSE o \in Owner : acquired[o] ELSE Nobody
Lease == INSTANCE ExclusiveLease WITH Client <- Owner, holder <- LeaseHolder
LeaseSpec == Lease!Spec

(* A run that asks for the lease gets an answer, provided only finitely many
   runs begin: flock is polled, so a stream of new turns elsewhere can win it
   every time. *)
Waiting(r) == pc[r] \in {"joining", "awaiting", "parked", "locking", "reading"}
EveryRequestSettles ==
  <>[][\A r \in Run : ~BeginRun(r)]_vars => \A r \in Run : Waiting(r) ~> ~Waiting(r)

(* As long as nobody crashes, the note names the holder of the flock or nobody:
   it is written after the lock and removed before the unlock. *)
NoteNamesHolder == crashes = 0 => note \in {Nobody, file}
==============================================================================
