------------------------ MODULE WorkspaceLeaseProofs ------------------------
(***************************************************************************)
(* The write lease excludes for every number of processes, sessions, runs  *)
(* and crashes.  Mutual exclusion of the sessions rests on the flock, that *)
(* of the runs which acquire and release within a process on its token,    *)
(* and that of the runs of one session on acquiring: the inductive         *)
(* invariant has one part for each, and one for the note.                  *)
(***************************************************************************)
EXTENDS WorkspaceLease, TLAPS

AcquireStates == {"awaiting", "parked", "locking", "reading", "noting", "settling", "failing"}
FileStates == {"noting", "settling", "clearing", "unlocking"}

(* One run of a session acquires at a time, and not what it already has. *)
OneAcquires ==
  /\ \A r \in Run : pc[r] \in AcquireStates => acquiring[OwnerOf[r]]
  /\ \A r, q \in Run :
       pc[r] \in AcquireStates /\ pc[q] \in AcquireStates /\ OwnerOf[r] = OwnerOf[q] => r = q
  /\ \A o \in Owner : acquiring[o] => ~acquired[o]

(* The token is in one place. *)
OneToken ==
  /\ \A r \in Run : pc[r] \in TokenStates => ~token[Proc(r)]
  /\ \A o \in Owner : acquired[o] => ~token[ProcessOf[o]]
  /\ \A r, q \in Run :
       pc[r] \in TokenStates /\ pc[q] \in TokenStates /\ Proc(r) = Proc(q) => r = q
  /\ \A o, l \in Owner : acquired[o] /\ acquired[l] /\ ProcessOf[o] = ProcessOf[l] => o = l
  /\ \A r \in Run, o \in Owner : pc[r] \in TokenStates /\ acquired[o] => ProcessOf[o] # Proc(r)

TokenSomewhere ==
  \A p \in Process :
    ~token[p] => \/ \E r \in Run : Proc(r) = p /\ pc[r] \in TokenStates
                 \/ \E o \in Owner : ProcessOf[o] = p /\ acquired[o]

FileOwned ==
  /\ \A r \in Run : pc[r] \in FileStates => file = OwnerOf[r]
  /\ \A o \in Owner : acquired[o] => file = o

NoteInv ==
  crashes = 0 => /\ note \in {Nobody, file}
                 /\ \A r \in Run : pc[r] = "unlocking" => note = Nobody

Inv ==
  TypeOK /\ OneAcquires /\ OneToken /\ TokenSomewhere /\ FileOwned /\ HeldForItsRuns /\ NoteInv

USE ProcessOfAssumption, OwnerOfAssumption, OwnerAssumption

LEMMA InitInv == Init => Inv
BY DEF Init, Inv, TypeOK, RunState, OneAcquires, AcquireStates, OneToken, TokenStates,
       TokenSomewhere, FileOwned, FileStates, HeldForItsRuns, ActiveRuns, Began, NoteInv

(* The session that gives the lease up has it, so nobody else is at the token
   or the file of its process; its last run carries both away. *)
LEMMA EndRunPreserves == ASSUME NEW r \in Run, Inv, EndRun(r) PROVE Inv'
<1> DEFINE o == OwnerOf[r]
<1> USE DEF Inv, TypeOK, RunState, Goto
<1>0. o \in Owner
  OBVIOUS
<1>1. CASE Idle(r)
  <2>1. /\ acquired[o] /\ ActiveRuns(o) = {r}
        /\ acquired' = [acquired EXCEPT ![o] = FALSE]
        /\ pc' = [pc EXCEPT ![r] = "clearing"]
        /\ UNCHANGED <<token, file, note, acquiring, told, named, crashes>>
    BY <1>1 DEF EndRun, Idle
  <2>2. TypeOK' /\ OneAcquires' /\ OneToken' /\ FileOwned' /\ NoteInv'
    BY <1>0, <2>1 DEF OneAcquires, AcquireStates, OneToken, TokenStates, Proc, FileOwned, FileStates, NoteInv
  <2>3. TokenSomewhere'
    BY <1>0, <2>1 DEF TokenSomewhere, TokenStates, Proc
  <2>4. \A q \in Run : q # r /\ pc[q] = "writing" => OwnerOf[q] # o
    BY <2>1 DEF ActiveRuns, Began
  <2>5. HeldForItsRuns'
    <3>1. \A q \in Run : pc'[q] = "writing" => acquired'[OwnerOf[q]]
      BY <1>0, <2>1, <2>4 DEF HeldForItsRuns
    <3>2. \A l \in Owner : acquired'[l] => ActiveRuns(l)' # {}
      BY <1>0, <2>1 DEF HeldForItsRuns, ActiveRuns, Began
    <3> QED BY <3>1, <3>2 DEF HeldForItsRuns
  <2> QED BY <2>2, <2>3, <2>5
<1>2. CASE ~Idle(r)
  <2>1. /\ pc[r] \in {"in", "writing"} /\ pc' = [pc EXCEPT ![r] = "out"]
        /\ UNCHANGED <<token, file, note, acquired, acquiring, told, named, crashes>>
    BY <1>2 DEF EndRun
  <2>2. TypeOK' /\ OneAcquires' /\ OneToken' /\ TokenSomewhere' /\ FileOwned' /\ NoteInv'
    BY <2>1 DEF OneAcquires, AcquireStates, OneToken, TokenStates, TokenSomewhere, Proc,
                FileOwned, FileStates, NoteInv
  <2>3. acquired[o] => ActiveRuns(o) # {r}
    BY <1>0, <1>2 DEF Idle, OneAcquires
  <2>4. r \in ActiveRuns(o)
    BY <2>1 DEF ActiveRuns, Began
  <2>5. \A l \in Owner : ActiveRuns(l)' = ActiveRuns(l) \ {r}
    BY <2>1 DEF ActiveRuns, Began
  <2>6. \A l \in Owner : acquired[l] => ActiveRuns(l) \ {r} # {}
    <3> SUFFICES ASSUME NEW l \in Owner, acquired[l] PROVE ActiveRuns(l) \ {r} # {}
      OBVIOUS
    <3>1. CASE l = o
      BY <2>3, <2>4, <3>1
    <3>2. CASE l # o
      <4>1. r \notin ActiveRuns(l)
        BY <3>2 DEF ActiveRuns
      <4> QED BY <4>1 DEF HeldForItsRuns
    <3> QED BY <3>1, <3>2
  <2>7. HeldForItsRuns'
    BY <2>1, <2>5, <2>6 DEF HeldForItsRuns
  <2> QED BY <2>2, <2>7
<1> QED BY <1>1, <1>2

LEMMA AcquireWritePreserves == ASSUME NEW r \in Run, Inv, AcquireWrite(r) PROVE Inv'
<1> USE DEF Inv, TypeOK, RunState, AcquireWrite
<1>1. TypeOK'
  OBVIOUS
<1>2. OneAcquires'
  <2>1. CASE acquired[OwnerOf[r]] \/ acquiring[OwnerOf[r]]
    BY <2>1 DEF OneAcquires, AcquireStates
  <2>2. CASE ~acquired[OwnerOf[r]] /\ ~acquiring[OwnerOf[r]]
    <3>1. /\ pc' = [pc EXCEPT ![r] = "awaiting"]
          /\ acquiring' = [acquiring EXCEPT ![OwnerOf[r]] = TRUE]
          /\ acquired' = acquired
      BY <2>2
    <3>2. \A q \in Run : OwnerOf[q] = OwnerOf[r] => pc[q] \notin AcquireStates
      BY <2>2 DEF OneAcquires
    <3> QED BY <2>2, <3>1, <3>2 DEF OneAcquires, AcquireStates
  <2> QED BY <2>1, <2>2
<1>3. OneToken' /\ TokenSomewhere' /\ FileOwned' /\ NoteInv'
  BY DEF OneToken, TokenStates, TokenSomewhere, Proc, FileOwned, FileStates, NoteInv
<1>4. HeldForItsRuns'
  BY DEF HeldForItsRuns, ActiveRuns, Began
<1> QED BY <1>1, <1>2, <1>3, <1>4

(* A crash takes all that stands in one process and touches no other. *)
LEMMA CrashPreserves == ASSUME NEW p \in Process, Inv, Crash(p) PROVE Inv'
<1> DEFINE gone == {o \in Owner : ProcessOf[o] = p}
<1> USE DEF Inv, TypeOK, RunState
<1>1. /\ token' = [token EXCEPT ![p] = TRUE]
      /\ named' = [named EXCEPT ![p] = Nobody]
      /\ file' = IF file \in gone THEN Nobody ELSE file
      /\ acquired' = [o \in Owner |-> o \notin gone /\ acquired[o]]
      /\ acquiring' = [o \in Owner |-> o \notin gone /\ acquiring[o]]
      /\ pc' = [r \in Run |-> IF OwnerOf[r] \in gone THEN "out" ELSE pc[r]]
      /\ told' = [r \in Run |-> IF OwnerOf[r] \in gone THEN Nobody ELSE told[r]]
      /\ note' = note /\ crashes' = crashes + 1
  BY DEF Crash
<1>2. TypeOK'
  <2>1. /\ acquired' \in [Owner -> BOOLEAN]
        /\ acquiring' \in [Owner -> BOOLEAN]
    BY <1>1, Zenon
  <2> QED BY <1>1, <2>1
<1>3. /\ \A r \in Run : pc'[r] # "out" => pc'[r] = pc[r] /\ Proc(r) # p
      /\ \A o \in Owner : acquired'[o] <=> acquired[o] /\ ProcessOf[o] # p
      /\ \A o \in Owner : acquiring'[o] <=> acquiring[o] /\ ProcessOf[o] # p
      /\ \A r \in Run : Proc(r) # p => pc'[r] = pc[r]
  <2>1. \A o \in Owner : o \in gone <=> ProcessOf[o] = p
    OBVIOUS
  <2>2. \A r \in Run : OwnerOf[r] \in gone <=> Proc(r) = p
    BY <2>1 DEF Proc
  <2>3. \A o \in Owner : acquired'[o] <=> acquired[o] /\ ProcessOf[o] # p
    BY <1>1, <2>1, Zenon
  <2>4. \A o \in Owner : acquiring'[o] <=> acquiring[o] /\ ProcessOf[o] # p
    BY <1>1, <2>1, Zenon
  <2> QED BY <1>1, <2>2, <2>3, <2>4
<1>4. OneAcquires'
  BY <1>3 DEF OneAcquires, AcquireStates, Proc
<1>5. OneToken' /\ TokenSomewhere'
  BY <1>1, <1>3 DEF OneToken, TokenSomewhere, TokenStates, Proc
<1>6. FileOwned'
  BY <1>1, <1>3 DEF FileOwned, FileStates, Proc
<1>7. HeldForItsRuns'
  <2>1. \A o \in Owner : ProcessOf[o] # p => ActiveRuns(o)' = ActiveRuns(o)
    BY <1>3 DEF ActiveRuns, Proc
  <2> QED BY <1>3, <2>1 DEF HeldForItsRuns, Proc
<1>8. NoteInv'
  BY <1>1 DEF NoteInv
<1> QED BY <1>2, <1>4, <1>5, <1>6, <1>7, <1>8

LEMMA StepInv == Inv /\ [Next]_vars => Inv'
<1> SUFFICES ASSUME Inv, [Next]_vars PROVE Inv'
  OBVIOUS
<1> USE DEF Inv, Goto, TypeOK, RunState, OneAcquires, AcquireStates, OneToken, TokenStates, Proc,
            TokenSomewhere, FileOwned, FileStates, HeldForItsRuns, ActiveRuns, Began, NoteInv
<1>1. ASSUME NEW r \in Run, RunStep(r) PROVE Inv'
  <2>1. CASE BeginRun(r)
    BY <2>1, SMTT(20) DEF BeginRun
  <2>2. CASE CancelJoin(r)
    BY <2>2, SMTT(20) DEF CancelJoin
  <2>3. CASE AwaitToken(r)
    BY <2>3, SMTT(20) DEF AwaitToken
  <2>4. CASE TakeToken(r)
    BY <2>4, SMTT(20) DEF TakeToken
  <2>5. CASE CancelToken(r)
    BY <2>5, SMTT(20) DEF CancelToken
  <2>6. CASE LockFile(r)
    BY <2>6, SMTT(20) DEF LockFile
  <2>7. CASE ContendFile(r)
    BY <2>7, SMTT(20) DEF ContendFile
  <2>8. CASE ReadHolder(r)
    BY <2>8, SMTT(20) DEF ReadHolder
  <2>9. CASE AbandonFile(r)
    BY <2>9, SMTT(20) DEF AbandonFile
  <2>10. CASE WriteNote(r)
    BY <2>10, SMTT(20) DEF WriteNote
  <2>11. CASE Settle(r)
    BY <2>11, SMTT(20) DEF Settle, Wake
  <2>12. CASE RemoveNote(r)
    BY <2>12, SMTT(20) DEF RemoveNote
  <2>13. CASE UnlockFile(r)
    BY <2>13, SMTT(20) DEF UnlockFile
  <2>14. CASE ReturnToken(r)
    BY <2>14, SMTT(20) DEF ReturnToken
  <2>15. CASE EndRun(r)
    BY <2>15, EndRunPreserves
  <2>16. CASE AcquireWrite(r)
    BY <2>16, AcquireWritePreserves
  <2> QED
    BY <1>1, <2>1, <2>2, <2>3, <2>4, <2>5, <2>6, <2>7, <2>8, <2>9, <2>10, <2>11, <2>12, <2>13, <2>14, <2>15, <2>16 DEF RunStep
<1>2. ASSUME NEW p \in Process, Crash(p) PROVE Inv'
  BY <1>2, CrashPreserves
<1>3. CASE UNCHANGED vars
  BY <1>3 DEF vars
<1> QED BY <1>1, <1>2, <1>3 DEF Next

THEOREM Invariance == Spec => []Inv
BY InitInv, StepInv, PTL DEF Spec

(* The state stays within its types. *)
THEOREM TypeCorrect == Spec => []TypeOK
BY Invariance, PTL DEF Inv

(* Runs of two sessions never write the workspace at the same time: both
   sessions would hold the one flock. *)
THEOREM OneSessionWritesAlways == Spec => []OneSessionWrites
<1>1. Inv => OneSessionWrites
  BY DEF Inv, HeldForItsRuns, FileOwned, OneSessionWrites
<1> QED BY <1>1, Invariance, PTL

(* A session holds the lease for all of its writing runs, and for none. *)
THEOREM LeaseLastsAsLongAsItsRuns == Spec => []HeldForItsRuns
BY Invariance, PTL DEF Inv

(* No cancelled, failed or finished acquisition loses or doubles a token. *)
THEOREM TokenNeverLost == Spec => []TokenKept
<1>1. Inv => TokenKept
  <2> SUFFICES ASSUME Inv, NEW p \in Process
               PROVE  /\ token[p] <=> TokenRuns(p) \cup TokenSessions(p) = {}
                      /\ \A r, q \in TokenRuns(p) : r = q
                      /\ \A o, l \in TokenSessions(p) : o = l
                      /\ TokenRuns(p) = {} \/ TokenSessions(p) = {}
    BY DEF TokenKept
  <2> USE DEF Inv, OneToken, TokenRuns, TokenSessions
  <2>1. token[p] => TokenRuns(p) = {} /\ TokenSessions(p) = {}
    OBVIOUS
  <2>2. ~token[p] => TokenRuns(p) # {} \/ TokenSessions(p) # {}
    BY DEF TokenSomewhere
  <2>3. \A r, q \in TokenRuns(p) : r = q
    OBVIOUS
  <2>4. \A o, l \in TokenSessions(p) : o = l
    OBVIOUS
  <2>5. TokenRuns(p) = {} \/ TokenSessions(p) = {}
    OBVIOUS
  <2> QED BY <2>1, <2>2, <2>3, <2>4, <2>5
<1> QED BY <1>1, Invariance, PTL

(* Without a crash the note names the holder of the flock or nobody. *)
THEOREM NoteIsTheHolders == Spec => []NoteNamesHolder
BY Invariance, PTL DEF Inv, NoteInv, NoteNamesHolder

(* At most one session has acquired set, so LeaseHolder is that session. *)
LEMMA HolderIs ==
  ASSUME Inv
  PROVE  /\ \A o \in Owner : acquired[o] => LeaseHolder = o
         /\ (\A o \in Owner : ~acquired[o]) => LeaseHolder = Nobody
<1>1. \A o, l \in Owner : acquired[o] /\ acquired[l] => o = l
  BY DEF Inv, FileOwned
<1> QED BY <1>1 DEF LeaseHolder

(* The protocol is an exclusive lease: every step takes it when it is free,
   drops it, or leaves it alone. *)
THEOREM LeaseRefinesExclusiveLease == Spec => LeaseSpec
<1>1. Init => Lease!Init
  BY DEF Init, Lease!Init, LeaseHolder
<1>2. Inv /\ Inv' /\ [Next]_vars => [Lease!Next]_LeaseHolder
  <2> SUFFICES ASSUME Inv, Inv', [Next]_vars
               PROVE  Lease!Next \/ LeaseHolder' = LeaseHolder
    OBVIOUS
  <2> USE DEF Lease!Next, Lease!Take, Lease!Drop
  <2>1. CASE acquired' = acquired
    BY <2>1 DEF LeaseHolder
  <2>2. ASSUME NEW r \in Run, EndRun(r), Idle(r) PROVE Lease!Next
    <3>1. OwnerOf[r] \in Owner /\ acquired[OwnerOf[r]]
      BY <2>2 DEF Idle
    <3>2. LeaseHolder = OwnerOf[r]
      BY <3>1, HolderIs
    <3>3. \A o \in Owner : ~acquired'[o]
      <4>1. \A o \in Owner : acquired[o] => o = OwnerOf[r]
        BY <3>1 DEF Inv, FileOwned
      <4> QED BY <2>2, <4>1 DEF EndRun, Inv, TypeOK
    <3>4. LeaseHolder' = Nobody
      BY <3>3 DEF LeaseHolder
    <3> QED BY <3>1, <3>2, <3>4
  <2>3. ASSUME NEW r \in Run, Settle(r), pc[r] = "settling" PROVE Lease!Next
    <3>1. OwnerOf[r] \in Owner /\ file = OwnerOf[r] /\ ~acquired[OwnerOf[r]]
      BY <2>3 DEF Inv, FileOwned, FileStates, OneAcquires, AcquireStates
    <3>2. \A o \in Owner : ~acquired[o]
      BY <3>1 DEF Inv, FileOwned
    <3>3. LeaseHolder = Nobody
      BY <3>2, HolderIs
    <3>4. acquired'[OwnerOf[r]]
      BY <2>3, <3>1 DEF Settle, Inv, TypeOK
    <3>5. LeaseHolder' = OwnerOf[r]
      <4>1. \A o \in Owner : acquired'[o] => o = OwnerOf[r]
        BY <2>3, <3>2 DEF Settle, Inv, TypeOK
      <4> QED BY <3>1, <3>4, <4>1 DEF LeaseHolder
    <3> QED BY <3>1, <3>3, <3>5
  <2>4. ASSUME NEW p \in Process, Crash(p) PROVE Lease!Next \/ LeaseHolder' = LeaseHolder
    <3>1. \A o \in Owner : acquired'[o] => acquired[o]
      BY <2>4, Zenon DEF Crash
    <3>2. CASE \E o \in Owner : acquired'[o]
      <4>1. PICK o \in Owner : acquired'[o]
        BY <3>2
      <4>2. \A l \in Owner : acquired'[l] => l = o
        BY <3>1, <4>1 DEF Inv, FileOwned
      <4>3. LeaseHolder' = o
        BY <4>1, <4>2 DEF LeaseHolder
      <4> QED BY <3>1, <4>1, <4>3, HolderIs
    <3>3. CASE \A o \in Owner : ~acquired'[o]
      <4>1. LeaseHolder' = Nobody
        BY <3>3 DEF LeaseHolder
      <4>2. LeaseHolder \in Owner \cup {Nobody}
        BY DEF LeaseHolder
      <4> QED BY <4>1, <4>2
    <3> QED BY <3>2, <3>3
  <2>5. ASSUME NEW r \in Run, RunStep(r), acquired' # acquired
        PROVE  \/ EndRun(r) /\ Idle(r)
               \/ Settle(r) /\ pc[r] = "settling"
    BY <2>5 DEF RunStep, BeginRun, EndRun, AcquireWrite, CancelJoin, AwaitToken, TakeToken, CancelToken,
                LockFile, ContendFile, ReadHolder, AbandonFile, WriteNote, Settle, RemoveNote,
                UnlockFile, ReturnToken
  <2> QED BY <2>1, <2>2, <2>3, <2>4, <2>5 DEF Next, vars
<1> QED BY <1>1, <1>2, Invariance, PTL DEF Spec, LeaseSpec, Lease!Spec
=============================================================================
