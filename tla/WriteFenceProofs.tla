--------------------------- MODULE WriteFenceProofs ---------------------------
(***************************************************************************)
(* The write fence for any number of runs, parent calls, claims, grants and *)
(* symlinks.  Whoever writes holds, for every path of the call, a claim     *)
(* that covers it, and no two claims that are held at once overlap; so two  *)
(* calls that write at once touch different files, as long as no path is a  *)
(* symlink.                                                                 *)
(***************************************************************************)
EXTENDS WriteFence, WritePathsProofs

(* What a reservation is: a claim on this workspace that claims something. *)
Reservation == {s \in LocalClaim : ~Empty(s)}

HeldBy(a) == {held[a][i] : i \in DOMAIN held[a]}

Typed ==
  /\ active \subseteq Run
  /\ parentClaims \subseteq Reservation
  /\ granted \in [Run -> SUBSET Path]
  /\ pc \in [Actor -> {"idle", "claiming", "checking", "asking", "reserving",
                       "busy", "writing", "releasing"}]
  /\ call \in [Actor -> Seq(Path)]
  /\ at \in [Actor -> Nat]
  /\ held \in [Actor -> Seq(Reservation)]
  /\ made \in [Actor -> 0..MaxCalls]
  /\ \A a \in Actor : call[a] \in Calls[a] \cup {<<>>}
  /\ \A a \in Actor : at[a] \in 1..(Len(call[a]) + 1)

(* Where a call is, and what it holds there. *)
Placed ==
  /\ \A a \in Actor : pc[a] = "idle" => held[a] = <<>>
  /\ \A a \in Actor : pc[a] # "idle" => call[a] \in Calls[a]
  /\ \A r \in Run : /\ pc[r] # "claiming"
                    /\ pc[r] # "idle" => r \in active
                    /\ pc[r] \in {"asking", "reserving", "busy"} => at[r] <= Len(call[r])
                    /\ pc[r] = "writing" => at[r] = Len(call[r]) + 1
  /\ \A a \in Parent : /\ pc[a] \in {"idle", "claiming", "writing", "releasing"}
                       /\ pc[a] = "claiming" => held[a] = <<>>
                       /\ pc[a] = "writing" => held[a] = <<ParentReservation(call[a])>>

InScope(r, i) == AllowsPath(Scope(r), Real[call[r][i]])

(* Path i of r's call may be written: r declared it or reserved it. *)
Secured(r, i) ==
  \/ AllowsPath(Declared[r], Real[call[r][i]])
  \/ SinglePath(call[r][i]) \in HeldBy(r)

(* Every path the call has passed is in the scope and secured. *)
Passed ==
  \A r \in Run :
    pc[r] \in {"checking", "asking", "reserving", "writing"} =>
      /\ \A i \in 1..(at[r] - 1) : InScope(r, i) /\ Secured(r, i)
      /\ pc[r] = "reserving" => InScope(r, at[r])

(* The claims held at once are pairwise disjoint. *)
HeldApart ==
  \A a, b \in Actor : \A i \in DOMAIN held[a], j \in DOMAIN held[b] :
    (a # b \/ i # j) => ~Overlaps(held[a][i], held[b][j])

DeclaredApart ==
  /\ \A r \in active : \A c \in parentClaims : ~Overlaps(Declared[r], c)
  /\ \A r, q \in active : r # q => ~Overlaps(Declared[r], Declared[q])

Listed == parentClaims = UNION {HeldBy(a) : a \in Actor}

IInv == Typed /\ Placed /\ Passed /\ HeldApart /\ DeclaredApart /\ Listed

------------------------------------------------------------------------------
LEMMA RunsAreActors == \A r \in Run : r \in Actor /\ r \notin Parent
  BY ActorAssumption DEF Actor

LEMMA ParentsAreActors == \A a \in Parent : a \in Actor /\ a \notin Run
  BY ActorAssumption DEF Actor

(* A path a call names leads somewhere. *)
LEMMA NamedPaths ==
  ASSUME NEW a \in Actor, NEW c \in Calls[a], NEW i \in 1..Len(c)
  PROVE  c[i] \in Path /\ Real[c[i]] \in Path
<1>1. c \in Seq(Path)
  BY CallsAssumption
<1>2. i \in DOMAIN c
  BY <1>1
<1>3. c[i] \in Named
  BY <1>2 DEF Named
<1> QED BY <1>1, <1>3, RealAssumption

LEMMA SinglePathReserves ==
  ASSUME NEW p \in Path
  PROVE  SinglePath(p) \in Reservation /\ ~SinglePath(p).whole /\ SinglePath(p).paths = {p}
  BY DEF SinglePath, Reservation, LocalClaim, WritePathSet, Empty

(* The parent always reserves something, and never on another workspace. *)
LEMMA ParentReserves ==
  ASSUME NEW a \in Actor, NEW c \in Calls[a]
  PROVE  ParentReservation(c) \in Reservation
<1>1. c \in Seq(Path) /\ c # <<>>
  BY CallsAssumption
<1> DEFINE paths == {Real[c[i]] : i \in DOMAIN c}
<1>2. paths \subseteq Path
  BY <1>1, NamedPaths
<1>3. paths # {}
  <2>1. 1 \in DOMAIN c
    BY <1>1
  <2> QED BY <2>1
<1>4. NormalizeWritePaths(Workspace, paths) \in Reservation
  BY <1>2, <1>3, WorkspaceAssumption
     DEF NormalizeWritePaths, Reservation, LocalClaim, WritePathSet, Empty
<1>5. WholeWorkspaceWriteClaim(Workspace) \in Reservation
  BY WorkspaceAssumption DEF WholeWorkspaceWriteClaim, Reservation, LocalClaim, WritePathSet, Empty
<1> QED BY <1>4, <1>5 DEF ParentReservation

(* A claim covers a path if it takes everything or lists one of its roots. *)
Covers(s, p) == s.whole \/ \E q \in s.paths : PathWithin(q, p)

(* Two claims of one workspace that cover nested paths overlap. *)
LEMMA CoversOverlap ==
  ASSUME NEW s \in LocalClaim, NEW t \in LocalClaim, NEW p \in Path, NEW q \in Path,
         Covers(s, p), Covers(t, q), Nested(p, q)
  PROVE  Overlaps(s, t)
<1>1. ~Empty(s) /\ ~Empty(t)
  BY DEF Covers, Empty
<1>2. CASE s.whole \/ t.whole
  <2>1. s.root \in {NoRoot, Workspace} /\ t.root \in {NoRoot, Workspace}
    BY DEF LocalClaim
  <2>2. Nested(Workspace, Workspace)
    BY WorkspaceAssumption, WithinReflexive DEF Nested
  <2> QED BY <1>1, <1>2, <2>1, <2>2 DEF Overlaps
<1>3. CASE ~s.whole /\ ~t.whole
  <2>1. PICK x \in s.paths, y \in t.paths : PathWithin(x, p) /\ PathWithin(y, q)
    BY <1>3 DEF Covers
  <2>2. x \in Path /\ y \in Path
    BY DEF LocalClaim, WritePathSet
  <2>3. Nested(x, y)
    <3>1. CASE PathWithin(p, q)
      BY <3>1, <2>1, <2>2, WithinTransitive, RootsOfOnePathNest
    <3>2. CASE PathWithin(q, p)
      BY <3>2, <2>1, <2>2, WithinTransitive, RootsOfOnePathNest
    <3> QED BY <3>1, <3>2 DEF Nested
  <2> QED BY <1>1, <1>3, <2>1, <2>3 DEF Overlaps
<1> QED BY <1>2, <1>3

LEMMA ClaimsSymmetric ==
  \A s, t \in LocalClaim : Overlaps(s, t) <=> Overlaps(t, s)
  BY OverlapsSymmetric DEF LocalClaim

LEMMA ReservationsDiffer ==
  \A s, t \in Reservation : ~Overlaps(s, t) => s # t
  BY OverlapsReflexive DEF Reservation, LocalClaim

------------------------------------------------------------------------------
LEMMA InitIInv == Init => IInv
<1> SUFFICES ASSUME Init PROVE IInv
  OBVIOUS
<1>1. Typed
  BY MaxCallsAssumption DEF Init, Typed
<1>2. Placed /\ Passed
  BY RunsAreActors, ParentsAreActors DEF Init, Placed, Passed
<1>3. HeldApart /\ DeclaredApart
  BY DEF Init, HeldApart, DeclaredApart
<1>4. Listed
  BY DEF Init, Listed, HeldBy
<1> QED BY <1>1, <1>2, <1>3, <1>4 DEF IInv

(* A step that touches neither claims nor holders keeps them apart. *)
LEMMA SameHolders ==
  ASSUME IInv, UNCHANGED <<active, parentClaims, held>>
  PROVE  HeldApart' /\ DeclaredApart' /\ Listed'
  BY DEF IInv, HeldApart, DeclaredApart, Listed, HeldBy

LEMMA AdmitPreserves == ASSUME NEW r \in Run, IInv, Admit(r) PROVE IInv'
<1> USE DEF IInv
<1>1. Typed'
  BY DEF Admit, Typed
<1>2. Placed' /\ Passed'
  BY DEF Admit, Placed, Passed, InScope, Secured, HeldBy, Scope
<1>3. HeldApart' /\ Listed'
  BY DEF Admit, HeldApart, Listed, HeldBy
<1>4. DeclaredApart'
  <2>1. \A q \in active : q \in Run /\ ~Overlaps(Declared[q], Declared[r])
    BY DEF Admit, Conflict, ActiveClaims, Typed
  <2>2. \A c \in parentClaims : c \in LocalClaim /\ ~Overlaps(c, Declared[r])
    BY DEF Admit, Conflict, Typed, Reservation
  <2> QED BY <2>1, <2>2, ClaimsSymmetric, DeclaredAssumption DEF Admit, DeclaredApart
<1> QED BY <1>1, <1>2, <1>3, <1>4

LEMMA RetirePreserves == ASSUME NEW r \in Run, IInv, Retire(r) PROVE IInv'
<1> USE DEF IInv
<1>1. Typed'
  BY DEF Retire, Typed
<1>2. Placed' /\ Passed'
  BY DEF Retire, Placed, Passed, InScope, Secured, HeldBy, Scope
<1>3. HeldApart' /\ Listed'
  BY DEF Retire, HeldApart, Listed, HeldBy
<1>4. DeclaredApart'
  BY DEF Retire, DeclaredApart
<1> QED BY <1>1, <1>2, <1>3, <1>4

LEMMA BeginCallPreserves ==
  ASSUME NEW a \in Actor, NEW c \in Calls[a], IInv, BeginCall(a, c) PROVE IInv'
<1> USE DEF IInv
<1>1. c \in Seq(Path) /\ Len(c) \in Nat
  BY CallsAssumption
<1>2. Typed'
  <2>1. made[a] + 1 \in 0..MaxCalls
    BY MaxCallsAssumption DEF Typed, BeginCall
  <2>2. \A b \in Actor : call'[b] \in Calls[b] \cup {<<>>} /\ at'[b] \in 1..(Len(call'[b]) + 1)
    BY <1>1 DEF Typed, BeginCall
  <2> QED BY <1>1, <2>1, <2>2 DEF BeginCall, Typed, Goto
<1>3. Placed'
  <2>1. \A b \in Actor : b # a => pc'[b] = pc[b] /\ at'[b] = at[b] /\ call'[b] = call[b]
    BY DEF BeginCall, Goto, Typed
  <2>2. /\ pc'[a] = IF a \in Run THEN "checking" ELSE "claiming"
        /\ call'[a] = c
        /\ held' = held /\ active' = active
        /\ held[a] = <<>>
        /\ a \in Run => a \in active
    BY DEF BeginCall, Goto, Typed, Placed
  <2>3. \A b \in Actor : (pc'[b] = "idle" => held'[b] = <<>>) /\ (pc'[b] # "idle" => call'[b] \in Calls[b])
    BY <2>1, <2>2 DEF Placed
  <2>4. \A q \in Run :
          /\ pc'[q] # "claiming"
          /\ pc'[q] # "idle" => q \in active'
          /\ pc'[q] \in {"asking", "reserving", "busy"} => at'[q] <= Len(call'[q])
          /\ pc'[q] = "writing" => at'[q] = Len(call'[q]) + 1
    BY <2>1, <2>2, RunsAreActors DEF Placed
  <2>5. \A b \in Parent :
          /\ pc'[b] \in {"idle", "claiming", "writing", "releasing"}
          /\ pc'[b] = "claiming" => held'[b] = <<>>
          /\ pc'[b] = "writing" => held'[b] = <<ParentReservation(call'[b])>>
    BY <2>1, <2>2, ParentsAreActors DEF Placed
  <2> QED BY <2>3, <2>4, <2>5 DEF Placed, ParentReservation
<1>4. Passed'
  <2> SUFFICES ASSUME NEW r \in Run, pc'[r] \in {"checking", "asking", "reserving", "writing"}
               PROVE  /\ \A i \in 1..(at'[r] - 1) : InScope(r, i)' /\ Secured(r, i)'
                      /\ pc'[r] = "reserving" => InScope(r, at[r])'
    BY DEF Passed
  <2>1. CASE r = a
    BY <2>1, RunsAreActors DEF BeginCall, Goto, Typed
  <2>2. CASE r # a
    BY <2>2, RunsAreActors DEF BeginCall, Goto, Typed, Passed, InScope, Secured, HeldBy, Scope
  <2> QED BY <2>1, <2>2
<1>5. HeldApart' /\ DeclaredApart' /\ Listed'
  BY SameHolders DEF BeginCall
<1> QED BY <1>2, <1>3, <1>4, <1>5

(* The current path of a call that has one. *)
LEMMA CurrentIsNamed ==
  ASSUME NEW r \in Run, IInv, at[r] <= Len(call[r]), pc[r] # "idle"
  PROVE  /\ at[r] \in 1..Len(call[r])
         /\ CurrentPath(r) \in Path
         /\ Real[CurrentPath(r)] \in Path
<1>1. at[r] \in 1..Len(call[r]) /\ call[r] \in Calls[r]
  BY RunsAreActors DEF IInv, Typed, Placed
<1> QED BY <1>1, NamedPaths, RunsAreActors DEF CurrentPath

(* What is declared stays in scope, whatever is granted. *)
LEMMA DeclaredInScope ==
  ASSUME NEW r \in Run, NEW p, AllowsPath(Declared[r], p)
  PROVE  AllowsPath(Scope(r), p)
<1>1. ~Declared[r].whole /\ Declared[r] \in WritePathSet
  BY DeclaredAssumption DEF LocalClaim
<1>2. /\ Scope(r).paths = Declared[r].paths \cup granted[r]
      /\ Scope(r).whole = Declared[r].whole
  BY <1>1 DEF Scope, WritePathSet
<1> QED BY <1>1, <1>2 DEF AllowsPath

(* A grant only ever widens the scope. *)
LEMMA ScopeWidens ==
  ASSUME NEW q \in Run, NEW i, granted[q] \subseteq granted'[q], UNCHANGED call, InScope(q, i)
  PROVE  InScope(q, i)'
<1>1. ~Declared[q].whole
  BY DeclaredAssumption
<1> QED BY <1>1 DEF InScope, Scope, AllowsPath

(* A step of r's call that reserves and releases nothing: it goes to x and
   path y of the call, and the grant may widen meanwhile. *)
Move(r, x, y) ==
  /\ pc[r] # "idle"
  /\ pc' = [pc EXCEPT ![r] = x]
  /\ at' = [at EXCEPT ![r] = y]
  /\ granted' \in [Run -> SUBSET Path]
  /\ \A q \in Run : granted[q] \subseteq granted'[q]
  /\ UNCHANGED <<active, parentClaims, call, held, made>>

(* What r must have earned to be at x and path y. *)
Earned(r, x, y) ==
  /\ x \in {"checking", "asking", "reserving", "busy", "writing", "releasing"}
  /\ y \in 1..(Len(call[r]) + 1)
  /\ x \in {"asking", "reserving", "busy"} => y <= Len(call[r])
  /\ x = "writing" => y = Len(call[r]) + 1
  /\ x \in {"checking", "asking", "reserving", "writing"} =>
       \A i \in 1..(y - 1) : InScope(r, i) /\ Secured(r, i)
  /\ x = "reserving" => AllowsPath(Scope(r)', Real[call[r][y]])

LEMMA MovePreserves ==
  ASSUME NEW r \in Run, NEW x, NEW y, IInv, Move(r, x, y), Earned(r, x, y)
  PROVE  IInv'
<1> USE DEF IInv
<1>1. r \in Actor /\ r \notin Parent
  BY RunsAreActors
<1>2. Typed'
  BY <1>1 DEF Typed, Move, Earned
<1>3. Placed'
  <2>1. \A a \in Actor : a # r => pc'[a] = pc[a] /\ at'[a] = at[a]
    BY DEF Typed, Move
  <2>2. pc'[r] = x /\ at'[r] = y
    BY <1>1 DEF Typed, Move
  <2>3. /\ call[r] \in Calls[r] /\ r \in active
        /\ UNCHANGED <<active, parentClaims, call, held, made>>
    BY <1>1 DEF Placed, Move
  <2>4. \A a \in Parent : a \in Actor /\ a # r
    BY ParentsAreActors
  <2>5. \A a \in Actor : (pc'[a] = "idle" => held'[a] = <<>>) /\ (pc'[a] # "idle" => call'[a] \in Calls[a])
    BY <2>1, <2>2, <2>3 DEF Placed, Earned
  <2>6. \A q \in Run :
          /\ pc'[q] # "claiming"
          /\ pc'[q] # "idle" => q \in active'
          /\ pc'[q] \in {"asking", "reserving", "busy"} => at'[q] <= Len(call'[q])
          /\ pc'[q] = "writing" => at'[q] = Len(call'[q]) + 1
    BY <2>1, <2>2, <2>3, RunsAreActors DEF Placed, Earned
  <2>7. \A a \in Parent :
          /\ pc'[a] \in {"idle", "claiming", "writing", "releasing"}
          /\ pc'[a] = "claiming" => held'[a] = <<>>
          /\ pc'[a] = "writing" => held'[a] = <<ParentReservation(call'[a])>>
    BY <2>1, <2>3, <2>4 DEF Placed
  <2> QED BY <2>5, <2>6, <2>7 DEF Placed, ParentReservation
<1>4. Passed'
  <2> SUFFICES ASSUME NEW q \in Run, pc'[q] \in {"checking", "asking", "reserving", "writing"}
               PROVE  /\ \A i \in 1..(at'[q] - 1) : InScope(q, i)' /\ Secured(q, i)'
                      /\ pc'[q] = "reserving" => InScope(q, at[q])'
    BY DEF Passed
  <2>1. \A i : InScope(q, i) => InScope(q, i)'
    BY ScopeWidens DEF Move
  <2>2. \A i : Secured(q, i) => Secured(q, i)'
    BY DEF Secured, HeldBy, Move
  <2>3. CASE q # r
    <3>1. pc'[q] = pc[q] /\ at'[q] = at[q]
      BY <2>3, RunsAreActors DEF Typed, Move
    <3>2. /\ \A i \in 1..(at[q] - 1) : InScope(q, i) /\ Secured(q, i)
          /\ pc[q] = "reserving" => InScope(q, at[q])
      BY <3>1 DEF Passed
    <3>3. pc'[q] = "reserving" => InScope(q, at[q])'
      <4>1. InScope(q, at[q]) => AllowsPath(Scope(q)', Real[call'[q][at[q]]])
        BY <2>1 DEF InScope, Move
      <4> QED BY <3>1, <3>2, <4>1 DEF InScope
    <3> QED BY <2>1, <2>2, <3>1, <3>2, <3>3
  <2>4. CASE q = r
    <3>1. pc'[q] = x /\ at'[q] = y
      BY <1>1, <2>4 DEF Typed, Move
    <3>2. call' = call
      BY DEF Move
    <3> QED BY <2>1, <2>2, <2>4, <3>1, <3>2 DEF Earned, InScope
  <2> QED BY <2>3, <2>4
<1>5. HeldApart' /\ DeclaredApart' /\ Listed'
  BY SameHolders DEF Move
<1> QED BY <1>2, <1>3, <1>4, <1>5

LEMMA CheckPathPreserves == ASSUME NEW r \in Run, IInv, CheckPath(r) PROVE IInv'
<1>1. /\ pc[r] = "checking"
      /\ \A i \in 1..(at[r] - 1) : InScope(r, i) /\ Secured(r, i)
      /\ at[r] \in 1..(Len(call[r]) + 1) /\ Len(call[r]) \in Nat
      /\ UNCHANGED <<active, parentClaims, granted, call, held, made>>
      /\ granted \in [Run -> SUBSET Path]
      /\ pc = [pc EXCEPT ![r] = pc[r]] /\ at = [at EXCEPT ![r] = at[r]]
  <2>1. pc[r] = "checking" /\ UNCHANGED <<active, parentClaims, granted, call, held, made>>
    BY DEF CheckPath
  <2>2. \A i \in 1..(at[r] - 1) : InScope(r, i) /\ Secured(r, i)
    BY <2>1 DEF IInv, Passed
  <2>3. at[r] \in 1..(Len(call[r]) + 1) /\ Len(call[r]) \in Nat
    BY RunsAreActors DEF IInv, Typed
  <2>4. /\ granted \in [Run -> SUBSET Path]
        /\ pc = [pc EXCEPT ![r] = pc[r]] /\ at = [at EXCEPT ![r] = at[r]]
    BY DEF IInv, Typed
  <2> QED BY <2>1, <2>2, <2>3, <2>4
<1>2. CASE at[r] > Len(call[r])
  <2>1. Move(r, "writing", at[r])
    BY <1>1, <1>2 DEF CheckPath, Goto, Move
  <2>2. Earned(r, "writing", at[r])
    BY <1>1, <1>2 DEF Earned
  <2> QED BY <2>1, <2>2, MovePreserves
<1>3. CASE at[r] <= Len(call[r]) /\ AllowsPath(Declared[r], Real[CurrentPath(r)])
  <2>1. Move(r, "checking", at[r] + 1)
    BY <1>1, <1>3 DEF CheckPath, Move
  <2>2. InScope(r, at[r]) /\ Secured(r, at[r])
    BY <1>3, DeclaredInScope DEF InScope, Secured, CurrentPath
  <2>3. Earned(r, "checking", at[r] + 1)
    BY <1>1, <1>3, <2>2 DEF Earned
  <2> QED BY <2>1, <2>3, MovePreserves
<1>4. CASE at[r] <= Len(call[r]) /\ ~AllowsPath(Declared[r], Real[CurrentPath(r)])
  <2>1. CASE AllowsPath(Scope(r), Real[CurrentPath(r)])
    <3>1. Move(r, "reserving", at[r])
      BY <1>1, <1>4, <2>1 DEF CheckPath, Goto, Move
    <3>2. AllowsPath(Scope(r)', Real[call[r][at[r]]])
      BY <1>1, <2>1 DEF Scope, CurrentPath
    <3>3. Earned(r, "reserving", at[r])
      BY <1>1, <1>4, <3>2 DEF Earned
    <3> QED BY <3>1, <3>3, MovePreserves
  <2>2. CASE ~AllowsPath(Scope(r), Real[CurrentPath(r)])
    <3>1. Move(r, "asking", at[r])
      BY <1>1, <1>4, <2>2 DEF CheckPath, Goto, Move
    <3>2. Earned(r, "asking", at[r])
      BY <1>1, <1>4 DEF Earned
    <3> QED BY <3>1, <3>2, MovePreserves
  <2> QED BY <2>1, <2>2
<1> QED BY <1>1, <1>2, <1>3, <1>4

LEMMA WidenPreserves == ASSUME NEW r \in Run, IInv, Widen(r) PROVE IInv'
<1>1. /\ pc[r] = "asking" /\ at[r] <= Len(call[r])
      /\ at[r] \in 1..(Len(call[r]) + 1)
      /\ \A i \in 1..(at[r] - 1) : InScope(r, i) /\ Secured(r, i)
      /\ granted \in [Run -> SUBSET Path]
      /\ at = [at EXCEPT ![r] = at[r]]
  BY RunsAreActors DEF IInv, Widen, Placed, Passed, Typed
<1>2. Real[CurrentPath(r)] \in Path
  BY <1>1, CurrentIsNamed
<1>3. granted'[r] = granted[r] \cup {Real[CurrentPath(r)]} /\ granted' \in [Run -> SUBSET Path]
  BY <1>1, <1>2 DEF Widen
<1>4. Move(r, "reserving", at[r])
  BY <1>1, <1>3 DEF Widen, Goto, Move
<1>5. AllowsPath(Scope(r)', Real[call[r][at[r]]])
  <2>1. ~Declared[r].whole
    BY DeclaredAssumption
  <2> QED BY <1>2, <1>3, <2>1, WithinReflexive DEF Scope, AllowsPath, CurrentPath
<1>6. Earned(r, "reserving", at[r])
  BY <1>1, <1>5 DEF Earned
<1> QED BY <1>4, <1>6, MovePreserves

LEMMA GiveUpPreserves ==
  ASSUME NEW r \in Run, IInv, Refuse(r) \/ ReportBusy(r) \/ EndWrite(r) PROVE IInv'
<1>1. /\ at[r] \in 1..(Len(call[r]) + 1)
      /\ granted \in [Run -> SUBSET Path]
      /\ at = [at EXCEPT ![r] = at[r]]
  BY RunsAreActors DEF IInv, Typed
<1>2. Move(r, "releasing", at[r])
  BY <1>1 DEF Refuse, ReportBusy, EndWrite, Goto, Move
<1>3. Earned(r, "releasing", at[r])
  BY <1>1 DEF Earned
<1> QED BY <1>2, <1>3, MovePreserves

------------------------------------------------------------------------------
(* Reserving what conflicts with nothing keeps the claims apart. *)
LEMMA ReserveApart ==
  ASSUME NEW a \in Actor, NEW s \in Reservation, IInv, ~Conflict(s),
         parentClaims' = parentClaims \cup {s},
         held' = [held EXCEPT ![a] = Append(@, s)],
         active' = active
  PROVE  HeldApart' /\ DeclaredApart' /\ Listed'
<1>1. /\ active \subseteq Run
      /\ parentClaims \subseteq Reservation
      /\ held \in [Actor -> Seq(Reservation)]
      /\ HeldApart /\ DeclaredApart /\ Listed
  BY DEF IInv, Typed
<1>2. s \in LocalClaim /\ \A c \in parentClaims : c \in LocalClaim
  BY <1>1 DEF Reservation
<1>3. \A c \in parentClaims : ~Overlaps(c, s) /\ ~Overlaps(s, c)
  BY <1>2, ClaimsSymmetric DEF Conflict
<1>4. \A b \in Actor : \A i \in DOMAIN held[b] : held[b][i] \in parentClaims
  BY <1>1 DEF Listed, HeldBy
<1>5. /\ \A b \in Actor : b # a => held'[b] = held[b]
      /\ held'[a] = Append(held[a], s)
  BY <1>1
<1>6. /\ held[a] \in Seq(Reservation)
      /\ DOMAIN held[a] = 1..Len(held[a]) /\ Len(held[a]) \in Nat
      /\ DOMAIN held'[a] = 1..(Len(held[a]) + 1)
      /\ \A i \in DOMAIN held[a] : held'[a][i] = held[a][i]
      /\ held'[a][Len(held[a]) + 1] = s
  BY <1>1, <1>5
<1>7. HeldApart'
  <2> SUFFICES ASSUME NEW b \in Actor, NEW c \in Actor,
                      NEW i \in DOMAIN held'[b], NEW j \in DOMAIN held'[c], b # c \/ i # j
               PROVE  ~Overlaps(held'[b][i], held'[c][j])
    BY DEF HeldApart
  <2>1. \A d \in Actor : \A k : k \in DOMAIN held'[d] =>
          \/ k \in DOMAIN held[d] /\ held'[d][k] = held[d][k]
          \/ d = a /\ k = Len(held[a]) + 1 /\ held'[d][k] = s
    BY <1>5, <1>6
  <2>2. CASE i \in DOMAIN held[b] /\ held'[b][i] = held[b][i] /\ j \in DOMAIN held[c] /\ held'[c][j] = held[c][j]
    BY <1>1, <2>2 DEF HeldApart
  <2>3. CASE b = a /\ i = Len(held[a]) + 1 /\ held'[b][i] = s
    <3>1. j \in DOMAIN held[c] /\ held'[c][j] = held[c][j]
      BY <2>1, <2>3
    <3> QED BY <1>3, <1>4, <2>3, <3>1
  <2>4. CASE c = a /\ j = Len(held[a]) + 1 /\ held'[c][j] = s
    <3>1. i \in DOMAIN held[b] /\ held'[b][i] = held[b][i]
      BY <2>1, <2>4
    <3> QED BY <1>3, <1>4, <2>4, <3>1
  <2> QED BY <2>1, <2>2, <2>3, <2>4
<1>8. DeclaredApart'
  BY <1>1 DEF DeclaredApart, Conflict, ActiveClaims
<1>9. Listed'
  <2>1. HeldBy(a)' = HeldBy(a) \cup {s}
    BY <1>6 DEF HeldBy
  <2>2. \A b \in Actor : b # a => HeldBy(b)' = HeldBy(b)
    BY <1>5 DEF HeldBy
  <2> QED BY <1>1, <2>1, <2>2 DEF Listed
<1> QED BY <1>7, <1>8, <1>9

(* Releasing the first reservation takes nobody else's off the list. *)
LEMMA ReleaseApart ==
  ASSUME NEW a \in Actor, IInv, held[a] # <<>>,
         parentClaims' = parentClaims \ {Head(held[a])},
         held' = [held EXCEPT ![a] = Tail(@)],
         active' = active
  PROVE  HeldApart' /\ DeclaredApart' /\ Listed'
<1>1. /\ parentClaims \subseteq Reservation
      /\ held \in [Actor -> Seq(Reservation)]
      /\ HeldApart /\ DeclaredApart /\ Listed
  BY DEF IInv, Typed
<1>2. /\ \A b \in Actor : b # a => held'[b] = held[b]
      /\ held'[a] = Tail(held[a])
  BY <1>1
<1>3. /\ held[a] \in Seq(Reservation)
      /\ DOMAIN held[a] = 1..Len(held[a]) /\ Len(held[a]) \in Nat \ {0}
      /\ Head(held[a]) = held[a][1]
      /\ DOMAIN held'[a] = 1..(Len(held[a]) - 1)
      /\ \A i \in DOMAIN held'[a] : held'[a][i] = held[a][i + 1]
  BY <1>1, <1>2
<1>4. HeldApart'
  <2> SUFFICES ASSUME NEW b \in Actor, NEW c \in Actor,
                      NEW i \in DOMAIN held'[b], NEW j \in DOMAIN held'[c], b # c \/ i # j
               PROVE  ~Overlaps(held'[b][i], held'[c][j])
    BY DEF HeldApart
  <2>1. CASE b # a /\ c # a
    BY <1>1, <1>2, <2>1 DEF HeldApart
  <2>2. CASE b = a /\ c # a
    BY <1>1, <1>2, <1>3, <2>2 DEF HeldApart
  <2>3. CASE b # a /\ c = a
    BY <1>1, <1>2, <1>3, <2>3 DEF HeldApart
  <2>4. CASE b = a /\ c = a
    <3>1. i + 1 # j + 1 /\ i + 1 \in DOMAIN held[a] /\ j + 1 \in DOMAIN held[a]
      BY <1>3, <2>4
    <3> QED BY <1>1, <1>3, <2>4, <3>1 DEF HeldApart
  <2> QED BY <2>1, <2>2, <2>3, <2>4
<1>5. DeclaredApart'
  BY <1>1 DEF DeclaredApart
<1>6. Listed'
  <2>1. \A b \in Actor : \A i \in DOMAIN held[b] : held[b][i] \in Reservation
    BY <1>1
  <2>2. \A i \in DOMAIN held[a] : i # 1 => held[a][i] # held[a][1]
    BY <1>1, <1>3, <2>1, ReservationsDiffer DEF HeldApart
  <2>3. \A b \in Actor : b # a => \A i \in DOMAIN held[b] : held[b][i] # held[a][1]
    BY <1>1, <1>3, <2>1, ReservationsDiffer DEF HeldApart
  <2>4. HeldBy(a)' = HeldBy(a) \ {held[a][1]}
    <3>1. HeldBy(a)' \subseteq HeldBy(a) \ {held[a][1]}
      BY <1>3, <2>2 DEF HeldBy
    <3>2. HeldBy(a) \ {held[a][1]} \subseteq HeldBy(a)'
      <4> SUFFICES ASSUME NEW i \in DOMAIN held[a], held[a][i] # held[a][1]
                   PROVE  held[a][i] \in HeldBy(a)'
        BY DEF HeldBy
      <4>1. i - 1 \in DOMAIN held'[a] /\ held'[a][i - 1] = held[a][i]
        BY <1>3
      <4> QED BY <4>1 DEF HeldBy
    <3> QED BY <3>1, <3>2
  <2>5. \A b \in Actor : b # a => HeldBy(b)' = HeldBy(b) /\ held[a][1] \notin HeldBy(b)
    BY <1>2, <2>3 DEF HeldBy
  <2>6. \A c : c \in parentClaims' <=> c # held[a][1] /\ \E b \in Actor : c \in HeldBy(b)
    BY <1>1, <1>3 DEF Listed
  <2>7. \A b \in Actor : \A c : c \in HeldBy(b)' <=> c # held[a][1] /\ c \in HeldBy(b)
    BY <2>4, <2>5
  <2>8. \A c : c \in parentClaims' <=> \E b \in Actor : c \in HeldBy(b)'
    BY <2>6, <2>7
  <2> QED BY <2>8 DEF Listed
<1> QED BY <1>4, <1>5, <1>6

LEMMA ReservePreserves == ASSUME NEW r \in Run, IInv, Reserve(r) PROVE IInv'
<1> DEFINE s == SinglePath(CurrentPath(r))
<1>1. /\ pc[r] = "reserving" /\ r \in Actor /\ r \notin Parent
      /\ UNCHANGED <<active, granted, call, made>>
  BY RunsAreActors DEF Reserve
<1>2. /\ at[r] \in 1..(Len(call[r]) + 1) /\ at[r] <= Len(call[r]) /\ Len(call[r]) \in Nat
      /\ granted \in [Run -> SUBSET Path]
      /\ at = [at EXCEPT ![r] = at[r]]
  BY <1>1 DEF IInv, Typed, Placed
<1>3. CASE Conflict(s)
  <2>1. Move(r, "busy", at[r])
    BY <1>1, <1>2, <1>3 DEF Reserve, Goto, Move
  <2>2. Earned(r, "busy", at[r])
    BY <1>2 DEF Earned
  <2> QED BY <2>1, <2>2, MovePreserves
<1>4. CASE ~Conflict(s)
  <2>1. /\ parentClaims' = parentClaims \cup {s}
        /\ held' = [held EXCEPT ![r] = Append(@, s)]
        /\ at' = [at EXCEPT ![r] = at[r] + 1]
        /\ pc' = [pc EXCEPT ![r] = "checking"]
    BY <1>4 DEF Reserve, Goto
  <2>2. s \in Reservation
    BY <1>1, <1>2, CurrentIsNamed, SinglePathReserves
  <2>3. HeldApart' /\ DeclaredApart' /\ Listed'
    BY <1>1, <1>4, <2>1, <2>2, ReserveApart
  <2>4. /\ held \in [Actor -> Seq(Reservation)]
        /\ pc \in [Actor -> {"idle", "claiming", "checking", "asking", "reserving",
                             "busy", "writing", "releasing"}]
        /\ at \in [Actor -> Nat]
    BY DEF IInv, Typed
  <2>5. /\ pc'[r] = "checking" /\ at'[r] = at[r] + 1 /\ held'[r] = Append(held[r], s)
        /\ \A a \in Actor : a # r => pc'[a] = pc[a] /\ at'[a] = at[a] /\ held'[a] = held[a]
    BY <1>1, <2>1, <2>4
  <2>6. Typed'
    <3>1. held' \in [Actor -> Seq(Reservation)]
      BY <1>1, <2>1, <2>2, <2>4
    <3>2. \A a \in Actor : at'[a] \in 1..(Len(call'[a]) + 1)
      BY <1>1, <1>2, <2>5 DEF IInv, Typed
    <3>3. pc' \in [Actor -> {"idle", "claiming", "checking", "asking", "reserving",
                             "busy", "writing", "releasing"}]
      BY <2>1, <2>4
    <3>6. at' \in [Actor -> Nat]
      BY <1>1, <2>1, <2>4
    <3>4. /\ active' \subseteq Run /\ made' \in [Actor -> 0..MaxCalls]
          /\ call' \in [Actor -> Seq(Path)]
          /\ \A a \in Actor : call'[a] \in Calls[a] \cup {<<>>}
          /\ granted' \in [Run -> SUBSET Path]
      BY <1>1 DEF IInv, Typed
    <3>5. parentClaims' \subseteq Reservation
      BY <2>1, <2>2 DEF IInv, Typed
    <3> QED BY <3>1, <3>2, <3>3, <3>4, <3>5, <3>6 DEF Typed
  <2>7. Placed'
    <3>1. call[r] \in Calls[r] /\ r \in active
      BY <1>1 DEF IInv, Placed
    <3>2. \A a \in Actor : (pc'[a] = "idle" => held'[a] = <<>>) /\ (pc'[a] # "idle" => call'[a] \in Calls[a])
      BY <1>1, <2>5, <3>1 DEF IInv, Placed
    <3>3. \A q \in Run :
            /\ pc'[q] # "claiming"
            /\ pc'[q] # "idle" => q \in active'
            /\ pc'[q] \in {"asking", "reserving", "busy"} => at'[q] <= Len(call'[q])
            /\ pc'[q] = "writing" => at'[q] = Len(call'[q]) + 1
      BY <1>1, <2>5, <3>1, RunsAreActors DEF IInv, Placed
    <3>4. \A a \in Parent :
            /\ pc'[a] \in {"idle", "claiming", "writing", "releasing"}
            /\ pc'[a] = "claiming" => held'[a] = <<>>
            /\ pc'[a] = "writing" => held'[a] = <<ParentReservation(call'[a])>>
      BY <1>1, <2>5, ParentsAreActors DEF IInv, Placed
    <3> QED BY <3>2, <3>3, <3>4 DEF Placed, ParentReservation
  <2>8. Passed'
    <3> SUFFICES ASSUME NEW q \in Run, pc'[q] \in {"checking", "asking", "reserving", "writing"}
                 PROVE  /\ \A i \in 1..(at'[q] - 1) : InScope(q, i)' /\ Secured(q, i)'
                        /\ pc'[q] = "reserving" => InScope(q, at[q])'
      BY DEF Passed
    <3>1. \A i : InScope(q, i)' <=> InScope(q, i)
      BY <1>1 DEF InScope, Scope
    <3>2. \A a \in Actor : HeldBy(a) \subseteq HeldBy(a)'
      <4>1. HeldBy(r) \subseteq HeldBy(r)'
        <5>1. \A i \in DOMAIN held[r] : i \in DOMAIN held'[r] /\ held'[r][i] = held[r][i]
          BY <1>1, <2>2, <2>4, <2>5
        <5> QED BY <5>1 DEF HeldBy
      <4> QED BY <2>5, <4>1 DEF HeldBy
    <3>3. \A i : Secured(q, i) => Secured(q, i)'
      BY <1>1, <3>2, RunsAreActors DEF Secured
    <3>4. CASE q # r
      <4>1. pc'[q] = pc[q] /\ at'[q] = at[q]
        BY <2>5, <3>4, RunsAreActors
      <4>2. /\ \A i \in 1..(at[q] - 1) : InScope(q, i) /\ Secured(q, i)
            /\ pc[q] = "reserving" => InScope(q, at[q])
        BY <4>1 DEF IInv, Passed
      <4>3. pc'[q] = "reserving" => InScope(q, at[q])'
        <5>1. InScope(q, at[q]) => AllowsPath(Scope(q)', Real[call'[q][at[q]]])
          BY <3>1 DEF InScope
        <5> QED BY <4>1, <4>2, <5>1 DEF InScope
      <4> QED BY <3>1, <3>3, <4>1, <4>2, <4>3
    <3>5. CASE q = r
      <4>1. /\ \A i \in 1..(at[r] - 1) : InScope(r, i) /\ Secured(r, i)
            /\ InScope(r, at[r])
        BY <1>1 DEF IInv, Passed
      <4>2. s \in HeldBy(r)'
        <5>1. Len(held[r]) + 1 \in DOMAIN held'[r] /\ held'[r][Len(held[r]) + 1] = s
          BY <1>1, <2>2, <2>4, <2>5
        <5> QED BY <5>1 DEF HeldBy
      <4>3. SinglePath(call'[r][at[r]]) \in HeldBy(r)'
        BY <1>1, <4>2 DEF CurrentPath
      <4>4. at[r] \in Nat /\ at'[r] = at[r] + 1
        BY <1>2, <2>5
      <4>5. \A i \in 1..(at'[r] - 1) : InScope(r, i)' /\ Secured(r, i)'
        <5> TAKE i \in 1..(at'[r] - 1)
        <5>1. CASE i \in 1..(at[r] - 1)
          BY <3>1, <3>3, <3>5, <4>1, <5>1
        <5>2. CASE i = at[r]
          <6>1. InScope(r, i)'
            BY <3>1, <3>5, <4>1, <5>2
          <6> QED BY <4>3, <5>2, <6>1 DEF Secured
        <5> QED BY <4>4, <5>1, <5>2
      <4> QED BY <2>5, <3>5, <4>5
    <3> QED BY <3>4, <3>5
  <2> QED BY <2>3, <2>6, <2>7, <2>8 DEF IInv
<1> QED BY <1>3, <1>4

(* A parent's call neither checks nor asks: only its own place changes. *)
LEMMA ParentKeepsPassed ==
  ASSUME NEW a \in Parent, IInv, NEW x,
         pc' = [pc EXCEPT ![a] = x],
         \A b \in Actor : b # a => held'[b] = held[b],
         UNCHANGED <<granted, call, at>>
  PROVE  Passed'
<1> SUFFICES ASSUME NEW q \in Run, pc'[q] \in {"checking", "asking", "reserving", "writing"}
             PROVE  /\ \A i \in 1..(at'[q] - 1) : InScope(q, i)' /\ Secured(q, i)'
                    /\ pc'[q] = "reserving" => InScope(q, at[q])'
  BY DEF Passed
<1>1. q # a /\ q \in Actor
  BY RunsAreActors
<1>2. pc'[q] = pc[q] /\ HeldBy(q)' = HeldBy(q)
  BY <1>1 DEF IInv, Typed, HeldBy
<1>3. /\ \A i \in 1..(at[q] - 1) : InScope(q, i) /\ Secured(q, i)
      /\ pc[q] = "reserving" => InScope(q, at[q])
  BY <1>2 DEF IInv, Passed
<1> QED BY <1>2, <1>3 DEF InScope, Scope, Secured

(* Only a's place and holdings change, and only as its new place allows. *)
LEMMA ParentKeepsPlaced ==
  ASSUME NEW a \in Parent, IInv,
         NEW x \in {"idle", "claiming", "writing", "releasing"}, NEW h,
         pc' = [pc EXCEPT ![a] = x],
         held' = [held EXCEPT ![a] = h],
         UNCHANGED <<active, call, at>>,
         x = "idle" => h = <<>>,
         x # "idle" => call[a] \in Calls[a],
         x = "claiming" => h = <<>>,
         x = "writing" => h = <<ParentReservation(call[a])>>
  PROVE  Placed'
<1>1. /\ a \in Actor /\ pc'[a] = x /\ held'[a] = h
      /\ \A b \in Actor : b # a => pc'[b] = pc[b] /\ held'[b] = held[b]
  BY ParentsAreActors DEF IInv, Typed
<1>2. \A b \in Actor : (pc'[b] = "idle" => held'[b] = <<>>) /\ (pc'[b] # "idle" => call'[b] \in Calls[b])
  BY <1>1 DEF IInv, Placed
<1>3. \A q \in Run :
        /\ pc'[q] # "claiming"
        /\ pc'[q] # "idle" => q \in active'
        /\ pc'[q] \in {"asking", "reserving", "busy"} => at'[q] <= Len(call'[q])
        /\ pc'[q] = "writing" => at'[q] = Len(call'[q]) + 1
  BY <1>1, RunsAreActors DEF IInv, Placed
<1>4. \A b \in Parent :
        /\ pc'[b] \in {"idle", "claiming", "writing", "releasing"}
        /\ pc'[b] = "claiming" => held'[b] = <<>>
        /\ pc'[b] = "writing" => held'[b] = <<ParentReservation(call'[b])>>
  BY <1>1, ParentsAreActors DEF IInv, Placed
<1> QED BY <1>2, <1>3, <1>4 DEF Placed, ParentReservation

LEMMA ParentEndWritePreserves == ASSUME NEW a \in Parent, IInv, EndWrite(a) PROVE IInv'
<1>1. /\ a \in Actor /\ call[a] \in Calls[a]
      /\ pc' = [pc EXCEPT ![a] = "releasing"]
      /\ held' = [held EXCEPT ![a] = held[a]]
      /\ UNCHANGED <<active, parentClaims, granted, call, at, held, made>>
  BY ParentsAreActors DEF EndWrite, Goto, IInv, Typed, Placed
<1>2. Typed'
  BY <1>1 DEF IInv, Typed
<1>3. Placed'
  BY <1>1, ParentKeepsPlaced
<1>4. Passed'
  BY <1>1, ParentKeepsPassed
<1>5. HeldApart' /\ DeclaredApart' /\ Listed'
  BY <1>1, SameHolders
<1> QED BY <1>2, <1>3, <1>4, <1>5 DEF IInv

LEMMA ReserveParentPreserves == ASSUME NEW a \in Parent, IInv, ReserveParent(a) PROVE IInv'
<1> DEFINE s == ParentReservation(call[a])
<1>1. /\ a \in Actor /\ pc[a] = "claiming" /\ call[a] \in Calls[a] /\ held[a] = <<>>
      /\ UNCHANGED <<active, granted, call, at, made>>
  BY ParentsAreActors DEF ReserveParent, IInv, Placed
<1>2. s \in Reservation
  BY <1>1, ParentReserves
<1>3. CASE Conflict(s)
  <2>1. /\ pc' = [pc EXCEPT ![a] = "idle"]
        /\ UNCHANGED <<parentClaims, held>>
    BY <1>3 DEF ReserveParent, Goto
  <2>2. held' = [held EXCEPT ![a] = <<>>]
    BY <1>1, <2>1 DEF IInv, Typed
  <2>3. Typed'
    BY <1>1, <2>1 DEF IInv, Typed
  <2>4. Placed'
    BY <1>1, <2>1, <2>2, ParentKeepsPlaced
  <2>5. Passed'
    BY <1>1, <2>1, ParentKeepsPassed
  <2>6. HeldApart' /\ DeclaredApart' /\ Listed'
    BY <1>1, <2>1, SameHolders
  <2> QED BY <2>3, <2>4, <2>5, <2>6 DEF IInv
<1>4. CASE ~Conflict(s)
  <2>1. /\ pc' = [pc EXCEPT ![a] = "writing"]
        /\ parentClaims' = parentClaims \cup {s}
        /\ held' = [held EXCEPT ![a] = Append(@, s)]
    BY <1>4 DEF ReserveParent, Goto
  <2>2. held' = [held EXCEPT ![a] = <<s>>]
    <3>1. Append(held[a], s) = <<s>>
      BY <1>1
    <3> QED BY <2>1, <3>1
  <2>3. Typed'
    <3>1. <<s>> \in Seq(Reservation)
      BY <1>2
    <3>2. held' \in [Actor -> Seq(Reservation)]
      BY <1>1, <2>2, <3>1 DEF IInv, Typed
    <3>3. parentClaims' \subseteq Reservation
      BY <1>2, <2>1 DEF IInv, Typed
    <3>4. pc' \in [Actor -> {"idle", "claiming", "checking", "asking", "reserving",
                             "busy", "writing", "releasing"}]
      BY <1>1, <2>1 DEF IInv, Typed
    <3> QED BY <1>1, <3>2, <3>3, <3>4 DEF IInv, Typed
  <2>4. Placed'
    BY <1>1, <2>1, <2>2, ParentKeepsPlaced
  <2>5. Passed'
    <3>1. \A b \in Actor : b # a => held'[b] = held[b]
      BY <2>1 DEF IInv, Typed
    <3> QED BY <1>1, <2>1, <3>1, ParentKeepsPassed DEF IInv, Passed
  <2>6. HeldApart' /\ DeclaredApart' /\ Listed'
    BY <1>1, <1>2, <1>4, <2>1, ReserveApart
  <2> QED BY <2>3, <2>4, <2>5, <2>6 DEF IInv
<1> QED BY <1>3, <1>4

LEMMA ReleaseHeldPreserves == ASSUME NEW a \in Actor, IInv, ReleaseHeld(a) PROVE IInv'
<1>1. /\ pc[a] = "releasing"
      /\ UNCHANGED <<active, granted, call, at, made>>
  BY DEF ReleaseHeld
<1>2. /\ pc \in [Actor -> {"idle", "claiming", "checking", "asking", "reserving",
                           "busy", "writing", "releasing"}]
      /\ held \in [Actor -> Seq(Reservation)]
  BY DEF IInv, Typed
<1>3. \A b \in Actor : b # a => pc'[b] = pc[b] /\ held'[b] = held[b]
  BY <1>2 DEF ReleaseHeld, Goto
<1>4. \/ held[a] = <<>> /\ pc' = [pc EXCEPT ![a] = "idle"] /\ UNCHANGED <<parentClaims, held>>
      \/ /\ held[a] # <<>> /\ UNCHANGED pc
         /\ parentClaims' = parentClaims \ {Head(held[a])}
         /\ held' = [held EXCEPT ![a] = Tail(@)]
  BY DEF ReleaseHeld, Goto
<1>5. /\ pc'[a] \in {"idle", "releasing"} /\ (pc'[a] = "idle" => held'[a] = <<>>)
  BY <1>1, <1>2, <1>4
<1>6. Typed'
  <2>1. held' \in [Actor -> Seq(Reservation)]
    <3>1. held[a] # <<>> => Tail(held[a]) \in Seq(Reservation)
      BY <1>2
    <3> QED BY <1>2, <1>4, <3>1
  <2>2. parentClaims' \subseteq Reservation
    BY <1>4 DEF IInv, Typed
  <2>3. pc' \in [Actor -> {"idle", "claiming", "checking", "asking", "reserving",
                           "busy", "writing", "releasing"}]
    BY <1>2, <1>4
  <2> QED BY <1>1, <2>1, <2>2, <2>3 DEF IInv, Typed
<1>7. Placed'
  <2>1. \A b \in Actor : (pc'[b] = "idle" => held'[b] = <<>>) /\ (pc'[b] # "idle" => call'[b] \in Calls[b])
    BY <1>1, <1>3, <1>5 DEF IInv, Placed
  <2>2. \A q \in Run :
          /\ pc'[q] # "claiming"
          /\ pc'[q] # "idle" => q \in active'
          /\ pc'[q] \in {"asking", "reserving", "busy"} => at'[q] <= Len(call'[q])
          /\ pc'[q] = "writing" => at'[q] = Len(call'[q]) + 1
    BY <1>1, <1>3, <1>5, RunsAreActors DEF IInv, Placed
  <2>3. \A b \in Parent :
          /\ pc'[b] \in {"idle", "claiming", "writing", "releasing"}
          /\ pc'[b] = "claiming" => held'[b] = <<>>
          /\ pc'[b] = "writing" => held'[b] = <<ParentReservation(call'[b])>>
    BY <1>1, <1>3, <1>5, ParentsAreActors DEF IInv, Placed
  <2> QED BY <2>1, <2>2, <2>3 DEF Placed, ParentReservation
<1>8. Passed'
  <2> SUFFICES ASSUME NEW q \in Run, pc'[q] \in {"checking", "asking", "reserving", "writing"}
               PROVE  /\ \A i \in 1..(at'[q] - 1) : InScope(q, i)' /\ Secured(q, i)'
                      /\ pc'[q] = "reserving" => InScope(q, at[q])'
    BY DEF Passed
  <2>1. q # a /\ q \in Actor
    BY <1>5, RunsAreActors
  <2>2. pc'[q] = pc[q] /\ HeldBy(q)' = HeldBy(q)
    BY <1>3, <2>1 DEF HeldBy
  <2>3. /\ \A i \in 1..(at[q] - 1) : InScope(q, i) /\ Secured(q, i)
        /\ pc[q] = "reserving" => InScope(q, at[q])
    BY <2>2 DEF IInv, Passed
  <2> QED BY <1>1, <2>2, <2>3 DEF InScope, Scope, Secured
<1>9. HeldApart' /\ DeclaredApart' /\ Listed'
  BY <1>1, <1>4, SameHolders, ReleaseApart
<1> QED BY <1>6, <1>7, <1>8, <1>9 DEF IInv

LEMMA NextIInv == IInv /\ [Next]_vars => IInv'
<1> SUFFICES ASSUME IInv, [Next]_vars PROVE IInv'
  OBVIOUS
<1>1. CASE UNCHANGED vars
  <2>0. UNCHANGED <<active, parentClaims, granted, pc, call, at, held, made>>
    BY <1>1 DEF vars
  <2>1. Typed'
    BY <2>0, Zenon DEF IInv, Typed
  <2>2. Placed'
    BY <2>0 DEF IInv, Placed
  <2>3. Passed'
    BY <2>0 DEF IInv, Passed, InScope, Secured, Scope, HeldBy
  <2>4. HeldApart' /\ DeclaredApart' /\ Listed'
    BY <1>1, SameHolders DEF vars
  <2> QED BY <2>1, <2>2, <2>3, <2>4 DEF IInv
<1>2. ASSUME NEW r \in Run,
             \/ Admit(r) \/ Retire(r) \/ CheckPath(r) \/ Widen(r) \/ Refuse(r)
             \/ Reserve(r) \/ ReportBusy(r)
      PROVE  IInv'
  BY <1>2, AdmitPreserves, RetirePreserves, CheckPathPreserves, WidenPreserves,
     GiveUpPreserves, ReservePreserves
<1>3. ASSUME NEW a \in Parent, ReserveParent(a) PROVE IInv'
  BY <1>3, ReserveParentPreserves
<1>4. ASSUME NEW a \in Actor, EndWrite(a) \/ ReleaseHeld(a) PROVE IInv'
  BY <1>4, GiveUpPreserves, ParentEndWritePreserves, ReleaseHeldPreserves DEF Actor
<1>5. ASSUME NEW a \in Actor, NEW c \in Calls[a], BeginCall(a, c) PROVE IInv'
  BY <1>5, BeginCallPreserves
<1> QED BY <1>1, <1>2, <1>3, <1>4, <1>5 DEF Next

LEMMA Invariance == Spec => []IInv
  BY InitIInv, NextIInv, PTL DEF Spec

(* The fence's state keeps its types, whatever the runs, their claims and
   their calls are. *)
THEOREM TypeCorrect == Spec => []TypeOK
<1>1. IInv => TypeOK
  <2> SUFFICES ASSUME IInv PROVE TypeOK
    OBVIOUS
  <2>1. Reservation \subseteq WritePathSet
    BY DEF Reservation, LocalClaim
  <2>2. \A a \in Actor : held[a] \in Seq(WritePathSet)
    BY <2>1 DEF IInv, Typed
  <2> QED BY <2>1, <2>2 DEF IInv, Typed, TypeOK
<1> QED BY <1>1, Invariance, PTL

(* Nothing stays reserved after the call that reserved it, however it ended
   (Execute's deferred releases, removeClaim). *)
THEOREM NoReservationLeaks == Spec => []ReservationsAreHeld
<1>1. IInv => ReservationsAreHeld
  BY DEF IInv, Listed, HeldBy, Placed, ReservationsAreHeld
<1> QED BY <1>1, Invariance, PTL

(* A call with all its paths behind it has every file in its scope, so the
   audit (claimViolations) agrees with the fence, even through symlinks. *)
THEOREM WritesStayInScope == Spec => []WritesInsideScope
<1>1. IInv => WritesInsideScope
  <2> SUFFICES ASSUME IInv, NEW r \in Run, pc[r] = "writing", NEW i \in DOMAIN call[r]
               PROVE  AllowsPath(Scope(r), Real[call[r][i]])
    BY DEF WritesInsideScope, Files
  <2>1. i \in 1..(at[r] - 1)
    BY RunsAreActors DEF IInv, Typed, Placed
  <2> QED BY <2>1 DEF IInv, Passed, InScope
<1> QED BY <1>1, Invariance, PTL

(* No path that a call names is, or lies behind, a symlink. *)
NoLinks == \A p \in Named : Real[p] = p

(* Whoever writes a file holds a claim that covers it. *)
LEMMA WriterHoldsClaim ==
  ASSUME IInv, NoLinks, NEW a \in Actor, pc[a] = "writing", NEW p \in Files(a)
  PROVE  /\ p \in Path
         /\ \E s \in LocalClaim : /\ Covers(s, p)
                                  /\ s \in HeldBy(a) \/ (a \in active /\ s = Declared[a])
<1>1. PICK i \in DOMAIN call[a] : p = Real[call[a][i]]
  BY DEF Files
<1>2. call[a] \in Calls[a] /\ i \in 1..Len(call[a]) /\ call[a] \in Seq(Path)
  BY <1>1 DEF IInv, Typed, Placed
<1>3. p \in Path /\ call[a][i] \in Path /\ p = call[a][i]
  <2>1. call[a][i] \in Named
    BY <1>2 DEF Named
  <2> QED BY <1>1, <1>2, <2>1, NamedPaths DEF NoLinks
<1>4. CASE a \in Run
  <2>1. a \in active /\ i \in 1..(at[a] - 1)
    BY <1>2, <1>4 DEF IInv, Typed, Placed
  <2>2. Secured(a, i)
    BY <1>4, <2>1 DEF IInv, Passed
  <2>3. CASE AllowsPath(Declared[a], p)
    BY <1>3, <1>4, <2>1, <2>3, DeclaredAssumption DEF AllowsPath, Covers
  <2>4. CASE SinglePath(p) \in HeldBy(a)
    <3>1. SinglePath(p) \in LocalClaim /\ Covers(SinglePath(p), p)
      BY <1>3, SinglePathReserves, WithinReflexive DEF Reservation, Covers
    <3> QED BY <1>3, <2>4, <3>1
  <2> QED BY <1>1, <1>3, <2>2, <2>3, <2>4 DEF Secured
<1>5. CASE a \in Parent
  <2> DEFINE s == ParentReservation(call[a])
  <2>1. held[a] = <<s>>
    BY <1>5 DEF IInv, Placed
  <2>2. s \in HeldBy(a)
    BY <2>1 DEF HeldBy
  <2>3. s \in LocalClaim
    BY <1>2, ParentReserves DEF Reservation
  <2>4. s.whole \/ p \in s.paths
    BY <1>1 DEF ParentReservation, NormalizeWritePaths, WholeWorkspaceWriteClaim
  <2>5. Covers(s, p)
    BY <1>3, <2>4, WithinReflexive DEF Covers
  <2> QED BY <1>3, <2>2, <2>3, <2>5
<1> QED BY <1>4, <1>5 DEF Actor

(* Without symlinks two calls never write the same file, or a file below
   another's, at the same time, whoever makes them (Execute, ReserveWrite,
   reserveParentWrite); the run with a symlink shows that the assumption is
   needed. *)
THEOREM OneWriterAlways ==
  ASSUME NoLinks
  PROVE  Spec => []OneWriterPerFile
<1>1. IInv => OneWriterPerFile
  <2> SUFFICES ASSUME IInv, NEW a \in Actor, NEW b \in Actor, a # b,
                      pc[a] = "writing", pc[b] = "writing",
                      NEW p \in Files(a), NEW q \in Files(b), Nested(p, q)
               PROVE  FALSE
    BY DEF OneWriterPerFile
  <2>1. PICK s \in LocalClaim : /\ Covers(s, p)
                                /\ s \in HeldBy(a) \/ (a \in active /\ s = Declared[a])
    BY WriterHoldsClaim
  <2>2. PICK t \in LocalClaim : /\ Covers(t, q)
                                /\ t \in HeldBy(b) \/ (b \in active /\ t = Declared[b])
    BY WriterHoldsClaim
  <2>3. Overlaps(s, t) /\ Overlaps(t, s)
    BY <2>1, <2>2, WriterHoldsClaim, CoversOverlap, ClaimsSymmetric
  <2>4. CASE s \in HeldBy(a) /\ t \in HeldBy(b)
    BY <2>3, <2>4 DEF IInv, HeldApart, HeldBy
  <2>5. CASE a \in active /\ s = Declared[a] /\ t \in HeldBy(b)
    BY <2>3, <2>5 DEF IInv, DeclaredApart, Listed
  <2>6. CASE s \in HeldBy(a) /\ b \in active /\ t = Declared[b]
    BY <2>3, <2>6 DEF IInv, DeclaredApart, Listed
  <2>7. CASE a \in active /\ s = Declared[a] /\ b \in active /\ t = Declared[b]
    BY <2>3, <2>7 DEF IInv, DeclaredApart
  <2> QED BY <2>1, <2>2, <2>4, <2>5, <2>6, <2>7
<1> QED BY <1>1, Invariance, PTL
==============================================================================
