------------------------------ MODULE WriteFence ------------------------------
(***************************************************************************)
(* Writes of path-bound sub-agents and of the parent agent                 *)
(* (runtime/agent/path_bound_tools.go, runtime/writeclaim/write_grant.go,  *)
(* agent.reserveParentWrite).  A run writes freely inside the claim it was *)
(* admitted with; outside it the user is asked to widen the run's grant,   *)
(* and every such write reserves its path for the duration of the call.    *)
(*                                                                         *)
(* Admission is the scheduler's claim check alone: SubagentScheduler holds *)
(* the slots and the queue.  Real is symlink resolution on the paths the    *)
(* tools name (EvalSymlinks of the deepest existing ancestor).             *)
(***************************************************************************)
EXTENDS WritePaths, FiniteSets

CONSTANTS
  Run,        \* path-bound runs
  Parent,     \* write-tool executions of the parent agent
  Declared,   \* Declared[r]: the claim a run is admitted with
  Calls,      \* Calls[a]: the path lists a tool call of a may name
  Real,       \* Real[p]: where a named path really leads
  Workspace,  \* the workspace root
  MaxCalls    \* bound: tool calls per run

Actor == Run \cup Parent
Named == UNION {{c[i] : i \in DOMAIN c} : c \in UNION {Calls[a] : a \in Actor}}

(* The claims the delegation tools hand out and the parent's reservations are
   normalized against one workspace. *)
LocalClaim == {s \in WritePathSet : s.root \in {NoRoot, Workspace}}

ASSUME RealAssumption == \A p \in Named : Real[p] \in Path
ASSUME WorkspaceAssumption == Workspace \in Path
ASSUME ActorAssumption == Run \cap Parent = {}
(* subRegistryFor binds the tools of runs with explicit paths only. *)
ASSUME DeclaredAssumption ==
  \A r \in Run : Declared[r] \in LocalClaim /\ ~Declared[r].whole
(* extractWritePathsFromArgs fails when a path is missing. *)
ASSUME CallsAssumption == \A a \in Actor : \A c \in Calls[a] : c \in Seq(Path) /\ c # <<>>
ASSUME MaxCallsAssumption == MaxCalls \in Nat

VARIABLES
  active,       \* the admitted runs, holding their declared claims
  parentClaims, \* the reservations in the scheduler
  granted,      \* granted[r]: resolved paths the user added to r's grant
  pc,
  call,         \* call[a]: the paths of the call under way
  at,           \* at[a]: which of them is being checked
  held,         \* held[a]: the claims reserved for this call, in order
  made          \* made[a]: calls begun, up to MaxCalls

vars == <<active, parentClaims, granted, pc, call, at, held, made>>

Init ==
  /\ active = {}
  /\ parentClaims = {}
  /\ granted = [r \in Run |-> {}]
  /\ pc = [a \in Actor |-> "idle"]
  /\ call = [a \in Actor |-> <<>>]
  /\ at = [a \in Actor |-> 1]
  /\ held = [a \in Actor |-> <<>>]
  /\ made = [a \in Actor |-> 0]

ActiveClaims == {Declared[r] : r \in active}

(* A plausible bug in Conflict: only the declared claims count. *)
ConflictWithRuns(claim) == \E c \in ActiveClaims : Overlaps(c, claim)

Conflict(claim) == \E c \in ActiveClaims \cup parentClaims : Overlaps(c, claim)

Scope(r) ==
  [paths |-> Declared[r].paths \cup granted[r], whole |-> Declared[r].whole, root |-> Declared[r].root]

Goto(a, to) == pc' = [pc EXCEPT ![a] = to]

(* The scheduler admits a run whose claim overlaps nothing that is held. *)
Admit(r) ==
  /\ r \notin active /\ made[r] = 0
  /\ ~Conflict(Declared[r])
  /\ active' = active \cup {r}
  /\ UNCHANGED <<parentClaims, granted, pc, call, at, held, made>>

Retire(r) ==
  /\ r \in active /\ pc[r] = "idle" /\ made[r] > 0
  /\ active' = active \ {r}
  /\ UNCHANGED <<parentClaims, granted, pc, call, at, held, made>>

BeginCall(a, c) ==
  /\ a \in Run => a \in active
  /\ pc[a] = "idle" /\ made[a] < MaxCalls
  /\ made' = [made EXCEPT ![a] = @ + 1]
  /\ call' = [call EXCEPT ![a] = c]
  /\ at' = [at EXCEPT ![a] = 1]
  /\ Goto(a, IF a \in Run THEN "checking" ELSE "claiming")
  /\ UNCHANGED <<active, parentClaims, granted, held>>

CurrentPath(a) == call[a][at[a]]

(* A plausible bug in CheckPath: outside the scope nobody is asked. *)
CheckWithoutAsking(r) ==
  /\ pc[r] = "checking"
  /\ IF at[r] > Len(call[r])
     THEN Goto(r, "writing") /\ UNCHANGED at
     ELSE IF AllowsPath(Declared[r], Real[CurrentPath(r)])
     THEN at' = [at EXCEPT ![r] = @ + 1] /\ UNCHANGED pc
     ELSE Goto(r, "reserving") /\ UNCHANGED at
  /\ UNCHANGED <<active, parentClaims, granted, call, held, made>>

(* The next path of the call; past the last one the inner tool writes. *)
CheckPath(r) ==
  /\ pc[r] = "checking"
  /\ IF at[r] > Len(call[r])
     THEN Goto(r, "writing") /\ UNCHANGED at
     ELSE IF AllowsPath(Declared[r], Real[CurrentPath(r)])
     THEN at' = [at EXCEPT ![r] = @ + 1] /\ UNCHANGED pc
     ELSE /\ Goto(r, IF AllowsPath(Scope(r), Real[CurrentPath(r)]) THEN "reserving" ELSE "asking")
          /\ UNCHANGED at
  /\ UNCHANGED <<active, parentClaims, granted, call, held, made>>

(* askToWiden: the gate may take its time, and the user may refuse. *)
Widen(r) ==
  /\ pc[r] = "asking"
  /\ granted' = [granted EXCEPT ![r] = @ \cup {Real[CurrentPath(r)]}]
  /\ Goto(r, "reserving")
  /\ UNCHANGED <<active, parentClaims, call, at, held, made>>

(* A plausible bug in Refuse: it returns before the releases are deferred. *)
RefuseWithoutRelease(r) ==
  /\ pc[r] = "asking"
  /\ Goto(r, "idle")
  /\ UNCHANGED <<active, parentClaims, granted, call, at, held, made>>

Refuse(r) ==
  /\ pc[r] = "asking"
  /\ Goto(r, "releasing")
  /\ UNCHANGED <<active, parentClaims, granted, call, at, held, made>>

(* ReserveWrite of the path as the tool named it. *)
Reserve(r) ==
  LET claim == SinglePath(CurrentPath(r)) IN
  /\ pc[r] = "reserving"
  /\ IF Conflict(claim)
     THEN Goto(r, "busy") /\ UNCHANGED <<parentClaims, held, at>>
     ELSE /\ parentClaims' = parentClaims \cup {claim}
          /\ held' = [held EXCEPT ![r] = Append(@, claim)]
          /\ at' = [at EXCEPT ![r] = @ + 1]
          /\ Goto(r, "checking")
  /\ UNCHANGED <<active, granted, call, made>>

ReportBusy(r) ==
  /\ pc[r] = "busy"
  /\ Goto(r, "releasing")
  /\ UNCHANGED <<active, parentClaims, granted, call, at, held, made>>

(* parentWriteReservation, and reserveDeclaredWrite for a writer that names its
   paths itself: the resolved paths of the call, or the whole workspace when one
   of them leaves it. *)
ParentReservation(c) ==
  LET paths == {Real[c[i]] : i \in DOMAIN c} IN
  IF \A p \in paths : PathWithin(Workspace, p)
  THEN NormalizeWritePaths(Workspace, paths)
  ELSE WholeWorkspaceWriteClaim(Workspace)

ReserveParent(a) ==
  LET claim == ParentReservation(call[a]) IN
  /\ pc[a] = "claiming"
  /\ IF Conflict(claim)
     THEN Goto(a, "idle") /\ UNCHANGED <<parentClaims, held>>
     ELSE /\ parentClaims' = parentClaims \cup {claim}
          /\ held' = [held EXCEPT ![a] = Append(@, claim)]
          /\ Goto(a, "writing")
  /\ UNCHANGED <<active, granted, call, at, made>>

EndWrite(a) ==
  /\ pc[a] = "writing"
  /\ Goto(a, "releasing")
  /\ UNCHANGED <<active, parentClaims, granted, call, at, held, made>>

(* The deferred releases run one after the other, first reserved first. *)
ReleaseHeld(a) ==
  /\ pc[a] = "releasing"
  /\ IF held[a] = <<>>
     THEN Goto(a, "idle") /\ UNCHANGED <<parentClaims, held>>
     ELSE /\ parentClaims' = parentClaims \ {Head(held[a])}
          /\ held' = [held EXCEPT ![a] = Tail(@)]
          /\ UNCHANGED pc
  /\ UNCHANGED <<active, granted, call, at, made>>

Next ==
  \/ \E r \in Run :
       \/ Admit(r) \/ Retire(r) \/ CheckPath(r) \/ Widen(r) \/ Refuse(r)
       \/ Reserve(r) \/ ReportBusy(r)
  \/ \E a \in Parent : ReserveParent(a)
  \/ \E a \in Actor : EndWrite(a) \/ ReleaseHeld(a)
  \/ \E a \in Actor : \E c \in Calls[a] : BeginCall(a, c)

Spec == Init /\ [][Next]_vars

------------------------------------------------------------------------------
TypeOK ==
  /\ active \subseteq Run
  /\ parentClaims \subseteq WritePathSet
  /\ granted \in [Run -> SUBSET Path]
  /\ pc \in [Actor -> {"idle", "claiming", "checking", "asking", "reserving",
                       "busy", "writing", "releasing"}]
  /\ \A a \in Actor : call[a] \in Calls[a] \cup {<<>>}
  /\ \A a \in Actor : at[a] \in 1..(Len(call[a]) + 1)
  /\ \A a \in Actor : held[a] \in Seq(WritePathSet)
  /\ made \in [Actor -> 0..MaxCalls]

Files(a) == {Real[call[a][i]] : i \in DOMAIN call[a]}

(* Two calls that write at the same time never touch the same file, be it
   inside a declared claim, granted by the user, or reserved by the parent
   (Execute, ReserveWrite, reserveParentWrite). *)
OneWriterPerFile ==
  \A a, b \in Actor :
    a # b /\ pc[a] = "writing" /\ pc[b] = "writing" =>
      \A p \in Files(a), q \in Files(b) : ~Nested(p, q)

(* Whatever a bound run writes is inside the scope the audit compares its
   mutations with (claimViolations reports none). *)
WritesInsideScope ==
  \A r \in Run : pc[r] = "writing" => \A p \in Files(r) : AllowsPath(Scope(r), p)

(* A reservation is listed exactly while the call that made it holds it: a
   refused or busy call leaves nothing reserved behind. *)
ReservationsAreHeld ==
  /\ parentClaims = UNION {{held[a][i] : i \in DOMAIN held[a]} : a \in Actor}
  /\ \A a \in Actor : pc[a] = "idle" => held[a] = <<>>
==============================================================================
