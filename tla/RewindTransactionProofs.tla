---------------------- MODULE RewindTransactionProofs ----------------------
(***************************************************************************)
(* Proofs about RewindTransaction, for every set of paths, any number of   *)
(* turns, transactions and faults.  Types, Placed and Records are          *)
(* inductive whatever else happens: TypeCorrect, UndoesOnce, EditsAreKept. *)
(* Ledger, which says what the files and the conversation of a transaction *)
(* are at each of its steps, is inductive in a calm session:               *)
(* CheckpointsFollowTalk and WholeOrNothing.                               *)
(***************************************************************************)
EXTENDS RewindTransaction, WellFoundedInduction, FiniteSetTheorems, SequenceTheorems, TLAPS

USE PathAssumption, ContentAssumption, BoundAssumption, WorkAssumption

-----------------------------------------------------------------------------
\* Least and greatest elements.

LEMMA LeastExists ==
  ASSUME NEW S, S \in SUBSET Nat, S # {}
  PROVE  \E i \in S : \A j \in S : i <= j
<1> DEFINE R == OpToRel(<, Nat)
<1>1. IsWellFoundedOn(R, Nat)
  BY NatLessThanWellFounded
<1> HIDE DEF R
<1>2. PICK i \in S : \A j \in S : <<j, i>> \notin R
  BY <1>1, WFMin
<1>3. \A j \in S : ~(j < i)
  BY <1>2 DEF R, OpToRel
<1> QED BY <1>3

LEMMA MinIsLeast ==
  ASSUME NEW S, S \in SUBSET Nat, S # {}
  PROVE  Min(S) \in S /\ \A j \in S : Min(S) <= j
BY LeastExists DEF Min

\* The elements above one of a finite set get fewer, up to the greatest.
LEMMA MaxIsGreatest ==
  ASSUME NEW S, S \in SUBSET Nat, S # {}, IsFiniteSet(S)
  PROVE  Max(S) \in S /\ \A j \in S : j <= Max(S)
<1> DEFINE Above(x) == {y \in S : y > x}
           T == {Above(x) : x \in S}
<1>1. T \subseteq FiniteSubsetsOf(S) /\ T # {}
  <2>1. \A x \in S : Above(x) \in SUBSET S /\ IsFiniteSet(Above(x))
    BY FS_Subset
  <2>2. ASSUME NEW b \in T PROVE b \in FiniteSubsetsOf(S)
    <3>1. PICK x \in S : b = Above(x)
      OBVIOUS
    <3> QED BY <2>1, <3>1 DEF FiniteSubsetsOf
  <2>3. PICK x \in S : TRUE
    OBVIOUS
  <2>4. Above(x) \in T
    OBVIOUS
  <2> QED BY <2>2, <2>4
<1>2. PICK a \in T : \A b \in T : ~(<<b, a>> \in StrictSubsetOrdering(S))
  <2>1. IsWellFoundedOn(StrictSubsetOrdering(S), FiniteSubsetsOf(S))
    BY FS_StrictSubsetOrderingWellFounded
  <2> HIDE DEF T
  <2> QED BY <1>1, <2>1, WFMin
<1>3. PICK x \in S : a = Above(x)
  BY <1>2
<1>4. ASSUME NEW y \in Above(x) PROVE FALSE
  <2>1. y \in S /\ y > x /\ x \in Nat /\ y \in Nat
    BY <1>4
  <2>4. y \notin Above(y) /\ Above(y) \subseteq Above(x)
    <3>1. y \notin Above(y)
      BY <2>1
    <3>2. ASSUME NEW z \in Above(y) PROVE z \in Above(x)
      <4>1. z \in S /\ z \in Nat /\ z > y
        BY <3>2
      <4>2. z > x
        BY <2>1, <4>1
      <4> QED BY <4>1, <4>2
    <3> QED BY <3>1, <3>2
  <2>2. Above(y) # Above(x) /\ Above(y) \in T
    BY <1>4, <2>1, <2>4
  <2>3. <<Above(y), a>> \in StrictSubsetOrdering(S)
    BY <1>3, <2>4, <2>2, <1>4 DEF StrictSubsetOrdering
  <2> QED BY <1>2, <2>2, <2>3
<1>5. \A y \in S : x >= y
  BY <1>4
<1> QED BY <1>5 DEF Max

\* Turns, transactions and paths are such numbers.
LEMMA Extremes ==
  ASSUME NEW S, S \in SUBSET Turn \/ S \in SUBSET Tx \/ S \in SUBSET Path, S # {}
  PROVE  Min(S) \in S /\ Max(S) \in S
<1>1. S \in SUBSET Nat
  <2>1. Turn \subseteq Nat /\ Tx \subseteq Nat /\ Path \subseteq Nat
    BY DEF Turn, Tx
  <2> QED BY <2>1
<1>2. IsFiniteSet(S)
  <2>1. IsFiniteSet(Turn) /\ IsFiniteSet(Tx)
    BY FS_Interval DEF Turn, Tx
  <2> QED BY <2>1, FS_Subset
<1> QED BY <1>1, <1>2, MinIsLeast, MaxIsGreatest

-----------------------------------------------------------------------------
\* The types, one part for each variable.

\* Where the process is.
Positions == {"idle", "record", "stage", "start", "next", "move", "place", "talk", "marks", "seal",
        "retire", "mend", "compensate", "giveback", "clear", "putback", "recover", "down"}
ProcSet == [at: Positions, tx: Tx \cup {None}, path: Path \cup {None}, todo: SUBSET Path, err: BOOLEAN,
            binding: BOOLEAN, visit: SUBSET Tx]
Kind == {"rewind", "undo", "revert"}
State == {"none", "prepared", "committing", "committed", "aborted", "undone"}

DiskOK == disk \in [Path -> Content]
AsideOK == aside \in [Tx -> [Path -> Content]]
ReadyOK == ready \in [Tx -> SUBSET Path]
TalkOK == talk \in Talk
MarksOK == marks \in Marks
PastOK == /\ pre \in [Turn -> [Path -> Content]] /\ post \in [Turn -> [Path -> Content]]
          /\ turns \in 0..MaxTurns
ManOK == man \in [Tx -> Manifest] /\ undo \in Tx \cup {None}
ProcOK == proc \in ProcSet
FaultsOK == faults \in 0..MaxFaults
Types == DiskOK /\ AsideOK /\ ReadyOK /\ TalkOK /\ MarksOK /\ PastOK /\ ManOK /\ ProcOK /\ FaultsOK

\* The parts together are TypeOK.
LEMMA TypesOK == Types <=> TypeOK
BY DEF Types, TypeOK, DiskOK, AsideOK, ReadyOK, TalkOK, MarksOK, PastOK, ManOK, ProcOK,
       FaultsOK, ProcSet, Positions

\* The process, one field at a time.
LEMMA ProcFields ==
  ASSUME NEW d \in ProcSet
  PROVE  /\ \A v \in Positions : LET e == [d EXCEPT !.at = v] IN
              /\ e \in ProcSet /\ e.at = v /\ e.tx = d.tx /\ e.path = d.path /\ e.todo = d.todo
              /\ e.err = d.err /\ e.binding = d.binding /\ e.visit = d.visit
         /\ \A v \in Tx \cup {None} : LET e == [d EXCEPT !.tx = v] IN
              /\ e \in ProcSet /\ e.at = d.at /\ e.tx = v /\ e.path = d.path /\ e.todo = d.todo
              /\ e.err = d.err /\ e.binding = d.binding /\ e.visit = d.visit
         /\ \A v \in Path \cup {None} : LET e == [d EXCEPT !.path = v] IN
              /\ e \in ProcSet /\ e.at = d.at /\ e.tx = d.tx /\ e.path = v /\ e.todo = d.todo
              /\ e.err = d.err /\ e.binding = d.binding /\ e.visit = d.visit
         /\ \A v \in SUBSET Path : LET e == [d EXCEPT !.todo = v] IN
              /\ e \in ProcSet /\ e.at = d.at /\ e.tx = d.tx /\ e.path = d.path /\ e.todo = v
              /\ e.err = d.err /\ e.binding = d.binding /\ e.visit = d.visit
         /\ \A v \in SUBSET Tx : LET e == [d EXCEPT !.visit = v] IN
              /\ e \in ProcSet /\ e.at = d.at /\ e.tx = d.tx /\ e.path = d.path /\ e.todo = d.todo
              /\ e.err = d.err /\ e.binding = d.binding /\ e.visit = v
BY DEF ProcSet

LEMMA ProcErr ==
  ASSUME NEW d \in ProcSet, NEW v \in BOOLEAN
  PROVE  LET e == [d EXCEPT !.err = v] IN
         /\ e \in ProcSet /\ e.at = d.at /\ e.tx = d.tx /\ e.path = d.path /\ e.todo = d.todo
         /\ e.err = v /\ e.binding = d.binding /\ e.visit = d.visit
BY DEF ProcSet

LEMMA ProcBinding ==
  ASSUME NEW d \in ProcSet, NEW v \in BOOLEAN
  PROVE  LET e == [d EXCEPT !.binding = v] IN
         /\ e \in ProcSet /\ e.at = d.at /\ e.tx = d.tx /\ e.path = d.path /\ e.todo = d.todo
         /\ e.err = d.err /\ e.binding = v /\ e.visit = d.visit
BY DEF ProcSet

LEMMA RestFields ==
  /\ Rest \in ProcSet /\ Rest.at = "idle" /\ Rest.tx = None /\ Rest.todo = {} /\ ~Rest.err
  /\ ~Rest.binding
  /\ Rest.visit = {}
BY DEF Rest, ProcSet, Positions
\* A manifest, one field at a time.
LEMMA Manifest_state ==
  ASSUME NEW d \in Manifest, NEW v \in State
  PROVE  LET e == [d EXCEPT !.state = v] IN
         /\ e \in Manifest /\ e.state = v /\ e.kind = d.kind /\ e.parent = d.parent
         /\ e.chat = d.chat /\ e.cut = d.cut
         /\ e.targets = d.targets /\ e.out = d.out /\ e.res = d.res /\ e.fwd = d.fwd
         /\ e.talk = d.talk /\ e.marks = d.marks
BY DEF Manifest, State, Kind

LEMMA Manifest_kind ==
  ASSUME NEW d \in Manifest, NEW v \in Kind
  PROVE  LET e == [d EXCEPT !.kind = v] IN
         /\ e \in Manifest /\ e.state = d.state /\ e.kind = v /\ e.parent = d.parent
         /\ e.chat = d.chat /\ e.cut = d.cut
         /\ e.targets = d.targets /\ e.out = d.out /\ e.res = d.res /\ e.fwd = d.fwd
         /\ e.talk = d.talk /\ e.marks = d.marks
BY DEF Manifest, State, Kind

LEMMA Manifest_parent ==
  ASSUME NEW d \in Manifest, NEW v \in Tx \cup {None}
  PROVE  LET e == [d EXCEPT !.parent = v] IN
         /\ e \in Manifest /\ e.state = d.state /\ e.kind = d.kind /\ e.parent = v
         /\ e.chat = d.chat /\ e.cut = d.cut
         /\ e.targets = d.targets /\ e.out = d.out /\ e.res = d.res /\ e.fwd = d.fwd
         /\ e.talk = d.talk /\ e.marks = d.marks
BY DEF Manifest, State, Kind

LEMMA Manifest_chat ==
  ASSUME NEW d \in Manifest, NEW v \in BOOLEAN
  PROVE  LET e == [d EXCEPT !.chat = v] IN
         /\ e \in Manifest /\ e.state = d.state /\ e.kind = d.kind /\ e.parent = d.parent
         /\ e.chat = v /\ e.cut = d.cut
         /\ e.targets = d.targets /\ e.out = d.out /\ e.res = d.res /\ e.fwd = d.fwd
         /\ e.talk = d.talk /\ e.marks = d.marks
BY DEF Manifest, State, Kind

LEMMA Manifest_cut ==
  ASSUME NEW d \in Manifest, NEW v \in Turn
  PROVE  LET e == [d EXCEPT !.cut = v] IN
         /\ e \in Manifest /\ e.state = d.state /\ e.kind = d.kind /\ e.parent = d.parent
         /\ e.chat = d.chat /\ e.cut = v
         /\ e.targets = d.targets /\ e.out = d.out /\ e.res = d.res /\ e.fwd = d.fwd
         /\ e.talk = d.talk /\ e.marks = d.marks
BY DEF Manifest, State, Kind

LEMMA Manifest_targets ==
  ASSUME NEW d \in Manifest, NEW v \in SUBSET Path
  PROVE  LET e == [d EXCEPT !.targets = v] IN
         /\ e \in Manifest /\ e.state = d.state /\ e.kind = d.kind /\ e.parent = d.parent
         /\ e.chat = d.chat /\ e.cut = d.cut
         /\ e.targets = v /\ e.out = d.out /\ e.res = d.res /\ e.fwd = d.fwd /\ e.talk = d.talk
         /\ e.marks = d.marks
BY DEF Manifest, State, Kind

LEMMA Manifest_out ==
  ASSUME NEW d \in Manifest, NEW v \in SUBSET Path
  PROVE  LET e == [d EXCEPT !.out = v] IN
         /\ e \in Manifest /\ e.state = d.state /\ e.kind = d.kind /\ e.parent = d.parent
         /\ e.chat = d.chat /\ e.cut = d.cut
         /\ e.targets = d.targets /\ e.out = v /\ e.res = d.res /\ e.fwd = d.fwd
         /\ e.talk = d.talk /\ e.marks = d.marks
BY DEF Manifest, State, Kind

LEMMA Manifest_res ==
  ASSUME NEW d \in Manifest, NEW v \in [Path -> Content]
  PROVE  LET e == [d EXCEPT !.res = v] IN
         /\ e \in Manifest /\ e.state = d.state /\ e.kind = d.kind /\ e.parent = d.parent
         /\ e.chat = d.chat /\ e.cut = d.cut
         /\ e.targets = d.targets /\ e.out = d.out /\ e.res = v /\ e.fwd = d.fwd
         /\ e.talk = d.talk /\ e.marks = d.marks
BY DEF Manifest, State, Kind

LEMMA Manifest_fwd ==
  ASSUME NEW d \in Manifest, NEW v \in [Path -> Content]
  PROVE  LET e == [d EXCEPT !.fwd = v] IN
         /\ e \in Manifest /\ e.state = d.state /\ e.kind = d.kind /\ e.parent = d.parent
         /\ e.chat = d.chat /\ e.cut = d.cut
         /\ e.targets = d.targets /\ e.out = d.out /\ e.res = d.res /\ e.fwd = v
         /\ e.talk = d.talk /\ e.marks = d.marks
BY DEF Manifest, State, Kind

LEMMA Manifest_talk ==
  ASSUME NEW d \in Manifest, NEW v \in Talk
  PROVE  LET e == [d EXCEPT !.talk = v] IN
         /\ e \in Manifest /\ e.state = d.state /\ e.kind = d.kind /\ e.parent = d.parent
         /\ e.chat = d.chat /\ e.cut = d.cut
         /\ e.targets = d.targets /\ e.out = d.out /\ e.res = d.res /\ e.fwd = d.fwd
         /\ e.talk = v /\ e.marks = d.marks
BY DEF Manifest, State, Kind

LEMMA Manifest_marks ==
  ASSUME NEW d \in Manifest, NEW v \in Marks
  PROVE  LET e == [d EXCEPT !.marks = v] IN
         /\ e \in Manifest /\ e.state = d.state /\ e.kind = d.kind /\ e.parent = d.parent
         /\ e.chat = d.chat /\ e.cut = d.cut
         /\ e.targets = d.targets /\ e.out = d.out /\ e.res = d.res /\ e.fwd = d.fwd
         /\ e.talk = d.talk /\ e.marks = v
BY DEF Manifest, State, Kind

\* The manifest of a transaction that was never written.
LEMMA NoManifestFields ==
  /\ NoManifest \in Manifest /\ NoManifest.state = "none" /\ NoManifest.kind = "rewind"
  /\ NoManifest.parent = None
  /\ NoManifest.targets = {} /\ NoManifest.out = {} /\ NoManifest.chat = FALSE
<1>1. <<>> \in Talk
  <2>1. <<>> \in [1..0 -> Turn] /\ 0 \in 0..MaxTurns
    BY DEF Turn
  <2> QED BY <2>1 DEF Talk
<1>2. 1 \in Turn /\ [i \in Turn |-> None] \in Marks
  BY DEF Turn, Marks
<1>3. [p \in Path |-> Absent] \in [Path -> Content]
  BY DEF Content
<1> HIDE DEF Talk, Marks, Turn
<1> QED BY <1>1, <1>2, <1>3 DEF NoManifest, Manifest

\* The manifest of an undo, from the rewind that it undoes.
UndoOf(last, t) ==
  [last EXCEPT !.state = "none", !.kind = "undo", !.parent = t,
               !.out = {}, !.res = last.fwd, !.fwd = last.res]

LEMMA UndoManifest ==
  ASSUME NEW last \in Manifest, NEW t \in Tx, NEW e, e = UndoOf(last, t)
  PROVE  /\ e \in Manifest /\ e.state = "none" /\ e.kind = "undo" /\ e.parent = t
         /\ e.chat = last.chat
         /\ e.cut = last.cut /\ e.targets = last.targets /\ e.out = {} /\ e.res = last.fwd
         /\ e.fwd = last.res
         /\ e.talk = last.talk /\ e.marks = last.marks
<1> DEFINE d1 == [last EXCEPT !.state = "none"]
           d2 == [d1 EXCEPT !.kind = "undo"]
           d3 == [d2 EXCEPT !.parent = t]
           d4 == [d3 EXCEPT !.out = {}]
           d5 == [d4 EXCEPT !.res = last.fwd]
           d6 == [d5 EXCEPT !.fwd = last.res]
           Kept(d) == /\ d.chat = last.chat /\ d.cut = last.cut /\ d.targets = last.targets
                      /\ d.talk = last.talk /\ d.marks = last.marks
<1>0. last.fwd \in [Path -> Content] /\ last.res \in [Path -> Content]
  BY DEF Manifest
<1>1. d1 \in Manifest /\ d1.state = "none" /\ Kept(d1)
  BY Manifest_state DEF State
<1> HIDE DEF d1
<1>2. d2 \in Manifest /\ d2.state = "none" /\ d2.kind = "undo" /\ Kept(d2)
  BY <1>1, Manifest_kind DEF Kind
<1> HIDE DEF d2
<1>3. d3 \in Manifest /\ d3.state = "none" /\ d3.kind = "undo" /\ d3.parent = t /\ Kept(d3)
  BY <1>2, Manifest_parent
<1> HIDE DEF d3
<1>4. d4 \in Manifest /\ d4.state = "none" /\ d4.kind = "undo" /\ d4.parent = t /\ d4.out = {} /\ Kept(d4)
  BY <1>3, Manifest_out
<1> HIDE DEF d4
<1>5. /\ d5 \in Manifest /\ d5.state = "none" /\ d5.kind = "undo" /\ d5.parent = t
      /\ d5.out = {} /\ Kept(d5)
      /\ d5.res = last.fwd
  BY <1>0, <1>4, Manifest_res
<1> HIDE DEF d5
<1>6. /\ d6 \in Manifest /\ d6.state = "none" /\ d6.kind = "undo" /\ d6.parent = t
      /\ d6.out = {} /\ Kept(d6)
      /\ d6.res = last.fwd /\ d6.fwd = last.res
  BY <1>0, <1>5, Manifest_fwd
<1>7. e = d6
  BY DEF d1, d2, d3, d4, d5, UndoOf
<1> HIDE DEF d6
<1> QED BY <1>6, <1>7

-----------------------------------------------------------------------------
\* The parts of a step.

\* What a step does to one manifest, one file, one backup and the process.
Same(t) ==
  /\ man'[t].kind = man[t].kind /\ man'[t].parent = man[t].parent /\ man'[t].chat = man[t].chat
  /\ man'[t].cut = man[t].cut /\ man'[t].targets = man[t].targets /\ man'[t].res = man[t].res
  /\ man'[t].fwd = man[t].fwd /\ man'[t].talk = man[t].talk /\ man'[t].marks = man[t].marks
Others(t) == \A u \in Tx : u # t => man'[u] = man[u]
SetsState(t, s) == man'[t].state = s /\ man'[t].out = man[t].out /\ Same(t) /\ Others(t)
Drops(t) == man'[t] = NoManifest /\ Others(t)
AddsOut(t, p) == man'[t].out = man[t].out \cup {p} /\ man'[t].state = man[t].state /\ Same(t) /\ Others(t)
File(p, c) == \A q \in Path : disk'[q] = IF q = p THEN c ELSE disk[q]
Aside(t, p, c) == \A u \in Tx, q \in Path : aside'[u][q] = IF u = t /\ q = p THEN c ELSE aside[u][q]
Becomes(v) ==
  /\ proc'.at = v /\ proc'.tx = proc.tx /\ proc'.path = proc.path /\ proc'.todo = proc.todo
  /\ proc'.err = proc.err /\ proc'.binding = proc.binding /\ proc'.visit = proc.visit
Idles == proc'.at = "idle" /\ proc'.tx = None /\ ~proc'.err
Compensates(e) == proc'.at = "compensate" /\ proc'.tx = proc.tx /\ proc'.todo = m.targets /\ proc'.err = e
Passes(p, e) ==
  proc'.at = "compensate" /\ proc'.tx = proc.tx /\ proc'.todo = proc.todo \ {p} /\ proc'.err = (proc.err \/ e)

\* A part whose variable does not change still holds.
LEMMA Unchanged ==
  /\ DiskOK /\ disk' = disk => DiskOK'
  /\ AsideOK /\ aside' = aside => AsideOK'
  /\ ReadyOK /\ ready' = ready => ReadyOK'
  /\ TalkOK /\ talk' = talk => TalkOK'
  /\ MarksOK /\ marks' = marks => MarksOK'
  /\ PastOK /\ UNCHANGED <<pre, post, turns>> => PastOK'
  /\ ManOK /\ UNCHANGED <<man, undo>> => ManOK'
  /\ ProcOK /\ proc' = proc => ProcOK'
  /\ FaultsOK /\ faults' = faults => FaultsOK'
BY DEF DiskOK, AsideOK, ReadyOK, TalkOK, MarksOK, PastOK, ManOK, ProcOK, FaultsOK

LEMMA ManifestTypes ==
  ASSUME ManOK, NEW t \in Tx
  PROVE  /\ man[t] \in Manifest /\ man[t].state \in State /\ man[t].kind \in Kind
         /\ man[t].parent \in Tx \cup {None}
         /\ man[t].chat \in BOOLEAN /\ man[t].cut \in Turn /\ man[t].targets \in SUBSET Path
         /\ man[t].out \in SUBSET Path /\ man[t].res \in [Path -> Content]
         /\ man[t].fwd \in [Path -> Content]
         /\ man[t].talk \in Talk /\ man[t].marks \in Marks
BY DEF ManOK, Manifest, State, Kind

LEMMA StateUpdate ==
  ASSUME ManOK, NEW t \in Tx, NEW s \in State, man' = [man EXCEPT ![t].state = s]
  PROVE  man' \in [Tx -> Manifest] /\ SetsState(t, s)
<1>1. man[t] \in Manifest
  BY ManifestTypes
<1>2. man'[t] = [man[t] EXCEPT !.state = s] /\ Others(t)
  BY DEF ManOK, Others
<1> DEFINE e == [man[t] EXCEPT !.state = s]
<1>a. /\ e \in Manifest /\ e.state = s /\ e.out = man[t].out
      /\ e.kind = man[t].kind /\ e.parent = man[t].parent /\ e.chat = man[t].chat
      /\ e.cut = man[t].cut
      /\ e.targets = man[t].targets /\ e.res = man[t].res /\ e.fwd = man[t].fwd
      /\ e.talk = man[t].talk
      /\ e.marks = man[t].marks
  BY <1>1, Manifest_state
<1>b. man'[t] = e
  BY <1>2
<1> HIDE DEF e
<1>3. man'[t] \in Manifest /\ man'[t].state = s /\ man'[t].out = man[t].out /\ Same(t)
  BY <1>a, <1>b DEF Same
<1> QED BY <1>2, <1>3 DEF ManOK, Others, SetsState

LEMMA OutUpdate ==
  ASSUME ManOK, NEW t \in Tx, NEW p \in Path, man' = [man EXCEPT ![t].out = @ \cup {p}]
  PROVE  man' \in [Tx -> Manifest] /\ AddsOut(t, p)
<1>1. man[t] \in Manifest /\ man[t].out \cup {p} \in SUBSET Path
  BY ManifestTypes
<1>2. man'[t] = [man[t] EXCEPT !.out = man[t].out \cup {p}] /\ Others(t)
  BY DEF ManOK, Others
<1> DEFINE e == [man[t] EXCEPT !.out = man[t].out \cup {p}]
<1>a. /\ e \in Manifest /\ e.out = man[t].out \cup {p} /\ e.state = man[t].state
      /\ e.kind = man[t].kind /\ e.parent = man[t].parent /\ e.chat = man[t].chat
      /\ e.cut = man[t].cut
      /\ e.targets = man[t].targets /\ e.res = man[t].res /\ e.fwd = man[t].fwd
      /\ e.talk = man[t].talk
      /\ e.marks = man[t].marks
  BY <1>1, Manifest_out
<1>b. man'[t] = e
  BY <1>2
<1> HIDE DEF e
<1>3. man'[t] \in Manifest /\ man'[t].out = man[t].out \cup {p} /\ man'[t].state = man[t].state /\ Same(t)
  BY <1>a, <1>b DEF Same
<1> QED BY <1>2, <1>3 DEF ManOK, Others, AddsOut

LEMMA EntryUpdate ==
  ASSUME ManOK, NEW t \in Tx, NEW e \in Manifest, man' = [man EXCEPT ![t] = e]
  PROVE  man' \in [Tx -> Manifest] /\ man'[t] = e /\ Others(t)
BY DEF ManOK, Others

LEMMA GotoDoes ==
  ASSUME ProcOK, NEW v \in Positions, Goto(v)
  PROVE  ProcOK' /\ Becomes(v)
BY ProcFields DEF ProcOK, Goto, Becomes

LEMMA IdleDoes ==
  ASSUME proc' = Rest
  PROVE  ProcOK' /\ Idles
BY RestFields DEF ProcOK, Idles

LEMMA CompensatingDoes ==
  ASSUME ProcOK, ManOK, proc.tx \in Tx, NEW e \in BOOLEAN, Compensating(e)
  PROVE  ProcOK' /\ Compensates(e)
<1> DEFINE d1 == [proc EXCEPT !.at = "compensate"]
           d2 == [d1 EXCEPT !.todo = m.targets]
           d3 == [d2 EXCEPT !.err = e]
<1>0. "compensate" \in Positions /\ m.targets \in SUBSET Path
  BY ManifestTypes DEF Positions, m
<1>1. d1 \in ProcSet /\ d1.at = "compensate" /\ d1.tx = proc.tx
  BY <1>0, ProcFields DEF ProcOK
<1> HIDE DEF d1
<1>2. d2 \in ProcSet /\ d2.at = "compensate" /\ d2.tx = proc.tx /\ d2.todo = m.targets
  BY <1>0, <1>1, ProcFields
<1> HIDE DEF d2
<1>3. d3 \in ProcSet /\ d3.at = "compensate" /\ d3.tx = proc.tx /\ d3.todo = m.targets /\ d3.err = e
  BY <1>2, ProcErr
<1> QED BY <1>3 DEF d1, d2, Compensating, Compensates, ProcOK

LEMMA CompensatedDoes ==
  ASSUME ProcOK, NEW p, NEW e \in BOOLEAN, Compensated(p, e)
  PROVE  ProcOK' /\ Passes(p, e)
<1> DEFINE d1 == [proc EXCEPT !.at = "compensate"]
           d2 == [d1 EXCEPT !.todo = proc.todo \ {p}]
           b == proc.err \/ e
           d3 == [d2 EXCEPT !.err = b]
<1>0. "compensate" \in Positions /\ proc.todo \ {p} \in SUBSET Path /\ (proc.err \/ e) \in BOOLEAN
  BY DEF Positions, ProcOK, ProcSet
<1>1. d1 \in ProcSet /\ d1.at = "compensate" /\ d1.tx = proc.tx
  BY <1>0, ProcFields DEF ProcOK
<1>a. d1.todo = proc.todo /\ d1.err = proc.err
  BY <1>0, ProcFields DEF ProcOK
<1> HIDE DEF d1
<1>2. d2 \in ProcSet /\ d2.at = "compensate" /\ d2.tx = proc.tx /\ d2.todo = proc.todo \ {p}
  BY <1>0, <1>1, ProcFields
<1> HIDE DEF d2
<1>b. b \in BOOLEAN
  BY <1>0
<1> HIDE DEF b
<1>3. d3 \in ProcSet /\ d3.at = "compensate" /\ d3.tx = proc.tx /\ d3.todo = proc.todo \ {p} /\ d3.err = b
  BY <1>b, <1>2, ProcErr
<1>4. proc' = d3
  BY DEF d1, d2, b, Compensated
<1> QED BY <1>3, <1>4 DEF Passes, ProcOK, b

LEMMA BackDoes ==
  ASSUME ProcOK, Back
  PROVE  ProcOK' /\ proc'.at \in {"idle", "recover"} /\ proc'.tx = None /\ ~proc'.err
<1>1. CASE ~proc.binding
  BY <1>1, IdleDoes DEF Back, Idles
<1>2. CASE proc.binding
  <2> DEFINE d1 == [Rest EXCEPT !.at = "recover"]
             d2 == [d1 EXCEPT !.binding = TRUE]
             d3 == [d2 EXCEPT !.visit = proc.visit]
  <2>0. "recover" \in Positions /\ proc.visit \in SUBSET Tx /\ Rest \in ProcSet /\ Rest.tx = None /\ ~Rest.err
    BY RestFields DEF Positions, ProcOK, ProcSet
  <2>1. d1 \in ProcSet /\ d1.at = "recover" /\ d1.tx = None /\ ~d1.err
    BY <2>0, ProcFields
  <2> HIDE DEF d1
  <2>2. d2 \in ProcSet /\ d2.at = "recover" /\ d2.tx = None /\ ~d2.err
    BY <2>1, ProcBinding
  <2> HIDE DEF d2
  <2>3. d3 \in ProcSet /\ d3.at = "recover" /\ d3.tx = None /\ ~d3.err
    BY <2>0, <2>2, ProcFields
  <2> QED BY <1>2, <2>3 DEF d1, d2, Back, ProcOK
<1> QED BY <1>1, <1>2

LEMMA FileUpdate ==
  ASSUME DiskOK, NEW p \in Path, NEW c \in Content, disk' = [disk EXCEPT ![p] = c]
  PROVE  DiskOK' /\ File(p, c)
BY DEF DiskOK, File

LEMMA AsideUpdate ==
  ASSUME AsideOK, NEW t \in Tx, NEW p \in Path, NEW c \in Content, aside' = [aside EXCEPT ![t][p] = c]
  PROVE  AsideOK' /\ Aside(t, p, c)
<1>1. aside' = [aside EXCEPT ![t] = [aside[t] EXCEPT ![p] = c]]
  BY DEF AsideOK
<1>2. aside[t] \in [Path -> Content] /\ [aside[t] EXCEPT ![p] = c] \in [Path -> Content]
  BY DEF AsideOK
<1>3. AsideOK'
  BY <1>1, <1>2 DEF AsideOK
<1>4. ASSUME NEW u \in Tx, NEW q \in Path PROVE aside'[u][q] = IF u = t /\ q = p THEN c ELSE aside[u][q]
  BY <1>1, <1>2 DEF AsideOK
<1> QED BY <1>3, <1>4 DEF Aside

LEMMA ReadyUpdate ==
  ASSUME ReadyOK, NEW t \in Tx, NEW S \in SUBSET Path, ready' = [ready EXCEPT ![t] = S]
  PROVE  ReadyOK'
BY DEF ReadyOK

LEMMA UnreadyDoes ==
  ASSUME ReadyOK, proc.tx \in Tx, NEW p, Unready(p)
  PROVE  ReadyOK'
BY DEF ReadyOK, Unready

LEMMA Contents == Absent \in Content /\ Edited \in Content /\ None \in Content /\ Turn \subseteq Content
BY DEF Content

LEMMA PutBackDoes ==
  ASSUME DiskOK, AsideOK, ManOK, proc.tx \in Tx, NEW p \in Path, PutBack(p)
  PROVE  /\ DiskOK' /\ AsideOK' /\ Aside(proc.tx, p, Absent)
         /\ File(p, IF aside[proc.tx][p] # Absent THEN aside[proc.tx][p] ELSE m.fwd[p])
<1>1. aside[proc.tx][p] \in Content /\ m.fwd[p] \in Content
  BY ManifestTypes DEF AsideOK, m
<1> QED BY <1>1, Contents, FileUpdate, AsideUpdate DEF PutBack

LEMMA FaultDoes == ASSUME FaultsOK, Fault PROVE FaultsOK'
BY DEF FaultsOK, Fault

-----------------------------------------------------------------------------
\* Conversations are short sequences of turns.

LEMMA TalkForm ==
  ASSUME NEW s
  PROVE  s \in Talk <=> s \in Seq(Turn) /\ Len(s) <= MaxTurns
<1>1. ASSUME s \in Talk PROVE s \in Seq(Turn) /\ Len(s) <= MaxTurns
  <2>1. PICK n \in 0..MaxTurns : s \in [1..n -> Turn]
    BY <1>1 DEF Talk
  <2> QED BY <2>1
<1>2. ASSUME s \in Seq(Turn), Len(s) <= MaxTurns PROVE s \in Talk
  <2>1. Len(s) \in 0..MaxTurns /\ s \in [1..Len(s) -> Turn]
    BY <1>2
  <2> QED BY <2>1 DEF Talk
<1> QED BY <1>1, <1>2

LEMMA CutInTalk ==
  ASSUME NEW s \in Talk, NEW k \in Turn, k <= Len(s) + 1
  PROVE  LET c == SubSeq(s, 1, k - 1) IN
         c \in Talk /\ Len(c) = k - 1 /\ \A i \in 1..(k - 1) : c[i] = s[i]
<1>1. s \in Seq(Turn) /\ Len(s) <= MaxTurns /\ k \in Nat /\ k >= 1
  BY TalkForm DEF Turn
<1>2. SubSeq(s, 1, k - 1) \in Seq(Turn) /\ Len(SubSeq(s, 1, k - 1)) = k - 1
  BY <1>1
<1>3. \A i \in 1..(k - 1) : SubSeq(s, 1, k - 1)[i] = s[i]
  BY <1>1
<1>4. k - 1 <= MaxTurns
  BY <1>1
<1>5. SubSeq(s, 1, k - 1) \in Talk
  BY <1>2, <1>4, TalkForm
<1> QED BY <1>2, <1>3, <1>5

LEMMA MoreTalk ==
  ASSUME NEW s \in Talk, NEW n \in Turn, Len(s) < MaxTurns
  PROVE  /\ Append(s, n) \in Talk /\ Len(Append(s, n)) = Len(s) + 1
         /\ \A i \in 1..Len(s) : Append(s, n)[i] = s[i]
         /\ Append(s, n)[Len(s) + 1] = n
<1>1. s \in Seq(Turn) /\ Len(s) \in Nat
  BY TalkForm
<1>2. Append(s, n) \in Seq(Turn) /\ Len(Append(s, n)) = Len(s) + 1
  BY <1>1, AppendProperties
<1>3. Append(s, n) \in Talk
  <2>1. Len(Append(s, n)) <= MaxTurns
    BY <1>1, <1>2
  <2> QED BY <1>2, <2>1, TalkForm
<1> QED BY <1>1, <1>2, <1>3, AppendProperties

\* Two conversations with the same turns are the same.
LEMMA SameTalk ==
  ASSUME NEW s \in Talk, NEW r \in Talk, Len(s) = Len(r), \A i \in 1..Len(s) : s[i] = r[i]
  PROVE  s = r
BY TalkForm, SeqEqual

-----------------------------------------------------------------------------
\* Where the process is, and what every action does to the fields that the
\* invariants read: one lemma per action.

\* The process is at a transaction, and at one of its files, when it works on one.
Opening == {"record", "stage", "start"}
Moving == {"next", "move", "place"}
Chatting == {"talk", "marks", "seal"}
Returning == {"compensate", "giveback", "clear", "putback"}
Live == proc.at \in Opening \cup Moving \cup Chatting \cup Returning \cup {"mend", "retire"}

Placed ==
  /\ Live => proc.tx \in Tx
  /\ proc.at \in {"move", "place", "giveback", "clear", "putback"} => proc.path \in m.out
  /\ \A t \in Tx : man[t].out \subseteq man[t].targets
  /\ proc.at \in Returning => proc.todo \subseteq m.targets
  /\ proc.at \in {"giveback", "clear", "putback"} => proc.path \in proc.todo

LEMMA CutTyped ==
  ASSUME Types, proc.tx \in Tx
  PROVE  CutTalk \in Talk
<1>1. talk \in Talk /\ m.cut \in Turn
  BY ManifestTypes DEF Types, TalkOK, m
<1>2. Len(talk) \in Nat /\ m.cut \in Nat
  BY <1>1, TalkForm DEF Turn
<1>3. ~Lost => m.cut <= Len(talk) + 1
  BY <1>2 DEF Lost
<1> QED BY <1>1, <1>3, CutInTalk DEF CutTalk

LEMMA MarksTyped ==
  ASSUME Types, proc.tx \in Tx
  PROVE  NewMarks \in Marks /\ CutMarks \in Marks /\ OldMarks \in Marks
<1>1. marks \in Marks /\ m.marks \in Marks
  BY ManifestTypes DEF Types, MarksOK, m
<1> QED BY <1>1 DEF NewMarks, CutMarks, OldMarks, Marks

LEMMA MendTyped ==
  ASSUME Types, proc.tx \in Tx
  PROVE  MendedTalk \in Talk /\ MendedMarks \in Marks
BY CutTyped, MarksTyped, ManifestTypes DEF MendedTalk, MendedMarks, Types, TalkOK, MarksOK, m

LEMMA TakesDoes ==
  ASSUME ProcOK, NEW p \in Path, NEW v \in Positions, Takes(p, v)
  PROVE  /\ proc'.at = v /\ proc'.path = p /\ proc'.tx = proc.tx
         /\ proc'.todo = proc.todo /\ proc'.err = proc.err /\ ProcOK'
<1> DEFINE d1 == [proc EXCEPT !.at = v]
<1>1. p \in Path \cup {None}
  OBVIOUS
<1>2. d1 \in ProcSet /\ d1.at = v /\ d1.tx = proc.tx /\ d1.todo = proc.todo /\ d1.err = proc.err
  BY ProcFields DEF ProcOK
<1>3. proc' = [d1 EXCEPT !.path = p]
  BY DEF Takes
<1> HIDE DEF d1
<1>4. /\ [d1 EXCEPT !.path = p] \in ProcSet /\ [d1 EXCEPT !.path = p].at = d1.at
      /\ [d1 EXCEPT !.path = p].path = p /\ [d1 EXCEPT !.path = p].tx = d1.tx
      /\ [d1 EXCEPT !.path = p].todo = d1.todo /\ [d1 EXCEPT !.path = p].err = d1.err
  BY <1>1, <1>2, ProcFields
<1> QED BY <1>2, <1>3, <1>4 DEF ProcOK

LEMMA RecoverProc ==
  ASSUME ProcOK, ManOK, NEW t \in Tx, RecoverCommitting(t)
  PROVE  /\ proc'.tx = t /\ ~proc'.err /\ proc'.todo = man[t].targets
         /\ proc'.at = IF man[t].chat THEN "mend" ELSE "compensate"
         /\ ProcOK'
<1> DEFINE v == proc.visit \ {t}
           a == IF man[t].chat THEN "mend" ELSE "compensate"
           d1 == [proc EXCEPT !.visit = v]
           d2 == [d1 EXCEPT !.tx = t]
           d3 == [d2 EXCEPT !.err = FALSE]
           d4 == [d3 EXCEPT !.todo = man[t].targets]
           d5 == [d4 EXCEPT !.at = a]
<1>0. v \in SUBSET Tx /\ a \in Positions /\ man[t].targets \in SUBSET Path
  BY ManifestTypes DEF ProcOK, ProcSet, Positions
<1>a. proc' = d5
  BY DEF RecoverCommitting
<1> HIDE DEF v, a
<1>1. d1 \in ProcSet
  BY <1>0, ProcFields DEF ProcOK
<1> HIDE DEF d1
<1>2. d2 \in ProcSet /\ d2.tx = t
  BY <1>1, ProcFields
<1> HIDE DEF d2
<1>3. d3 \in ProcSet /\ d3.tx = t /\ ~d3.err
  BY <1>2, ProcErr
<1> HIDE DEF d3
<1>4. d4 \in ProcSet /\ d4.tx = t /\ ~d4.err /\ d4.todo = man[t].targets
  BY <1>0, <1>3, ProcFields
<1> HIDE DEF d4
<1>5. d5 \in ProcSet /\ d5.tx = t /\ ~d5.err /\ d5.todo = man[t].targets /\ d5.at = a
  BY <1>0, <1>4, ProcFields
<1> QED BY <1>a, <1>5 DEF a, ProcOK

LEMMA BindProc ==
  ASSUME proc' = [Rest EXCEPT !.at = "recover", !.binding = TRUE,
                              !.visit = {t \in Tx : man[t].state \in {"prepared", "committing"}}]
  PROVE  proc'.at = "recover" /\ proc'.tx = None /\ ~proc'.err /\ ProcOK'
<1> DEFINE v == {t \in Tx : man[t].state \in {"prepared", "committing"}}
           d1 == [Rest EXCEPT !.at = "recover"]
           d2 == [d1 EXCEPT !.binding = TRUE]
           d3 == [d2 EXCEPT !.visit = v]
<1>0. v \in SUBSET Tx /\ "recover" \in Positions /\ Rest \in ProcSet /\ Rest.tx = None /\ ~Rest.err
  BY RestFields DEF Positions
<1>a. proc' = d3
  OBVIOUS
<1> HIDE DEF v
<1>1. d1 \in ProcSet /\ d1.at = "recover" /\ d1.tx = None /\ ~d1.err
  BY <1>0, ProcFields
<1> HIDE DEF d1
<1>2. d2 \in ProcSet /\ d2.at = "recover" /\ d2.tx = None /\ ~d2.err
  BY <1>1, ProcBinding
<1> HIDE DEF d2
<1>3. d3 \in ProcSet /\ d3.at = "recover" /\ d3.tx = None /\ ~d3.err
  BY <1>0, <1>2, ProcFields
<1> QED BY <1>a, <1>3 DEF ProcOK

\* The newest rewind on disk is one that can be undone.
LEMMA OfferedIsUndoable ==
  /\ Offered \in Undoable \cup {None}
  /\ \A t \in Undoable : t <= Offered
<1>1. {None} \cup Undoable \in SUBSET Nat /\ {None} \cup Undoable # {}
  BY DEF Undoable, Tx, None
<1>2. IsFiniteSet({None} \cup Undoable)
  <2>1. IsFiniteSet(0..MaxTx) /\ {None} \cup Undoable \in SUBSET (0..MaxTx)
    BY FS_Interval DEF Undoable, Tx, None
  <2> QED BY <2>1, FS_Subset
<1> HIDE DEF Undoable
<1> QED BY <1>1, <1>2, MaxIsGreatest DEF Offered

LEMMA OfferedTyped == Offered \in Tx \cup {None}
BY OfferedIsUndoable DEF Undoable

LEMMA OpenDoes ==
  ASSUME ProcOK, ManOK, ReadyOK, NEW e \in Manifest, NEW temps \in SUBSET Path, Open(e, temps)
  PROVE  /\ NewTx \in Tx /\ man' \in [Tx -> Manifest] /\ man'[NewTx] = e /\ Others(NewTx)
         /\ ReadyOK'
         /\ proc'.at = "record" /\ proc'.tx = NewTx /\ proc'.err = proc.err /\ ProcOK'
<1>1. NewTx \in Tx
  BY DEF Open
<1>2. man' \in [Tx -> Manifest] /\ man'[NewTx] = e /\ Others(NewTx)
  BY <1>1, EntryUpdate DEF Open
<1>3. ReadyOK'
  BY <1>1, ReadyUpdate DEF Open
<1>4. proc'.at = "record" /\ proc'.tx = NewTx /\ proc'.err = proc.err /\ ProcOK'
  <2> DEFINE d1 == [proc EXCEPT !.at = "record"]
  <2>1. "record" \in Positions /\ NewTx \in Tx \cup {None}
    BY <1>1 DEF Positions
  <2>2. d1 \in ProcSet /\ d1.at = "record" /\ d1.err = proc.err
    BY <2>1, ProcFields DEF ProcOK
  <2>3. proc' = [d1 EXCEPT !.tx = NewTx]
    BY DEF Open
  <2> HIDE DEF d1
  <2> QED BY <2>1, <2>2, <2>3, ProcFields DEF ProcOK
<1> QED BY <1>1, <1>2, <1>3, <1>4

\* A transaction is opened.
Opened(kind, chat, k, targets) ==
  /\ NewTx \in Tx /\ man' \in [Tx -> Manifest] /\ Others(NewTx) /\ ReadyOK'
  /\ man'[NewTx].state = "none" /\ man'[NewTx].kind = kind /\ man'[NewTx].parent = None
  /\ man'[NewTx].chat = chat /\ man'[NewTx].cut = k /\ man'[NewTx].targets = targets
  /\ man'[NewTx].out = {} /\ man'[NewTx].fwd = disk /\ man'[NewTx].talk = talk
  /\ man'[NewTx].marks = marks
  /\ proc'.at = "record" /\ proc'.tx = NewTx /\ proc'.err = proc.err /\ ProcOK'

LEMMA OpenRewindDoes ==
  ASSUME Types, NEW kind \in Kind, NEW chat, chat \in BOOLEAN, NEW k \in Turn, NEW targets \in SUBSET Path,
         \A p \in targets : Touched(k, p) # {}, OpenRewind(kind, chat, k, targets)
  PROVE  Opened(kind, chat, k, targets)
<1> DEFINE res == [p \in Path |-> IF p \in targets THEN Earliest(k, p) ELSE Absent]
           e == [NoManifest EXCEPT !.kind = kind, !.chat = chat, !.cut = k, !.targets = targets,
                                   !.res = res, !.fwd = disk, !.talk = talk, !.marks = marks]
<1>1. ASSUME NEW p \in targets PROVE Earliest(k, p) \in Content
  <2>1. Touched(k, p) # {} /\ Touched(k, p) \in SUBSET Turn
    BY <1>1 DEF Touched
  <2>2. Min(Touched(k, p)) \in Touched(k, p)
    BY <2>1, Extremes
  <2>3. Min(Touched(k, p)) \in Turn /\ marks[Min(Touched(k, p))] # None
    BY <2>2 DEF Touched
  <2>4. marks[Min(Touched(k, p))] \in Turn
    BY <2>3 DEF Types, MarksOK, Marks
  <2> QED BY <2>4 DEF Earliest, Types, PastOK
<1>2. res \in [Path -> Content]
  BY <1>1, Contents
<1>3. Open(e, Writes(targets, res)) /\ Writes(targets, res) \in SUBSET Path
  BY DEF OpenRewind, Writes
<1> HIDE DEF res
<1>4. disk \in [Path -> Content] /\ talk \in Talk /\ marks \in Marks
  BY DEF Types, DiskOK, TalkOK, MarksOK
<1>5. /\ e \in Manifest /\ e.state = "none" /\ e.kind = kind /\ e.parent = None /\ e.chat = chat
      /\ e.cut = k
      /\ e.targets = targets /\ e.out = {} /\ e.fwd = disk /\ e.talk = talk /\ e.marks = marks
  <2> DEFINE d1 == [NoManifest EXCEPT !.kind = kind]
             d2 == [d1 EXCEPT !.chat = chat]
             d3 == [d2 EXCEPT !.cut = k]
             d4 == [d3 EXCEPT !.targets = targets]
             d5 == [d4 EXCEPT !.res = res]
             d6 == [d5 EXCEPT !.fwd = disk]
             d7 == [d6 EXCEPT !.talk = talk]
             d8 == [d7 EXCEPT !.marks = marks]
  <2>1. d1 \in Manifest /\ d1.state = "none" /\ d1.kind = kind /\ d1.parent = None /\ d1.out = {}
    BY NoManifestFields, Manifest_kind
  <2> HIDE DEF d1
  <2>2. d2 \in Manifest /\ d2.state = "none" /\ d2.kind = kind /\ d2.parent = None /\ d2.out = {} /\ d2.chat = chat
    BY <2>1, Manifest_chat
  <2> HIDE DEF d2
  <2>3. /\ d3 \in Manifest /\ d3.state = "none" /\ d3.kind = kind /\ d3.parent = None
        /\ d3.out = {} /\ d3.chat = chat
        /\ d3.cut = k
    BY <2>2, Manifest_cut
  <2> HIDE DEF d3
  <2>4. /\ d4 \in Manifest /\ d4.state = "none" /\ d4.kind = kind /\ d4.parent = None
        /\ d4.out = {} /\ d4.chat = chat
        /\ d4.cut = k /\ d4.targets = targets
    BY <2>3, Manifest_targets
  <2> HIDE DEF d4
  <2>5. /\ d5 \in Manifest /\ d5.state = "none" /\ d5.kind = kind /\ d5.parent = None
        /\ d5.out = {} /\ d5.chat = chat
        /\ d5.cut = k /\ d5.targets = targets /\ d5.res = res
    BY <1>2, <1>4, <2>4, Manifest_res
  <2> HIDE DEF d5
  <2>6. /\ d6 \in Manifest /\ d6.state = "none" /\ d6.kind = kind /\ d6.parent = None
        /\ d6.out = {} /\ d6.chat = chat
        /\ d6.cut = k /\ d6.targets = targets /\ d6.res = res /\ d6.fwd = disk
    BY <1>2, <1>4, <2>5, Manifest_fwd
  <2> HIDE DEF d6
  <2>7. /\ d7 \in Manifest /\ d7.state = "none" /\ d7.kind = kind /\ d7.parent = None
        /\ d7.out = {} /\ d7.chat = chat
        /\ d7.cut = k /\ d7.targets = targets /\ d7.res = res /\ d7.fwd = disk /\ d7.talk = talk
    BY <1>2, <1>4, <2>6, Manifest_talk
  <2> HIDE DEF d7
  <2>8. /\ d8 \in Manifest /\ d8.state = "none" /\ d8.kind = kind /\ d8.parent = None
        /\ d8.out = {} /\ d8.chat = chat
        /\ d8.cut = k /\ d8.targets = targets /\ d8.res = res /\ d8.fwd = disk /\ d8.talk = talk
        /\ d8.marks = marks
    BY <1>2, <1>4, <2>7, Manifest_marks
  <2> QED BY <2>8 DEF e, d1, d2, d3, d4, d5, d6, d7
<1> HIDE DEF e
<1> QED BY <1>3, <1>5, OpenDoes DEF Types, Opened

LEMMA RecordDoes ==
  ASSUME Types, Placed, Record
  PROVE  /\ Types'
         /\ UNCHANGED <<disk, aside, ready, talk, marks, pre, post, turns, undo, faults>>
         /\ proc.at = "record"
         /\ SetsState(proc.tx, "prepared") /\ ManOK'
         /\ Becomes(IF m.kind = "undo" THEN "stage" ELSE "start") /\ ProcOK'
<1>1. UNCHANGED <<disk, aside, ready, talk, marks, pre, post, turns, undo, faults>>
  BY DEF Record, files, chats, past
<1>2. proc.tx \in Tx
  BY DEF Placed, Live, Opening, Moving, Chatting, Returning, Record, At
<1>3. proc.at = "record"
  BY DEF Record, At
<1>4. SetsState(proc.tx, "prepared") /\ ManOK'
  BY <1>1, <1>2, StateUpdate DEF Record, Persist, State, Types, ManOK
<1>5. Becomes(IF m.kind = "undo" THEN "stage" ELSE "start") /\ ProcOK'
  BY GotoDoes DEF Record, Positions, Types
<1> QED BY <1>1, <1>2, <1>3, <1>4, <1>5, Unchanged DEF Types

LEMMA RecordFailsDoes ==
  ASSUME Types, Placed, RecordFails
  PROVE  /\ Types'
         /\ UNCHANGED <<disk, aside, talk, marks, pre, post, turns, undo>>
         /\ proc.at = "record"
         /\ Drops(proc.tx) /\ ManOK'
         /\ Idles /\ ProcOK'
<1>1. UNCHANGED <<disk, aside, talk, marks, pre, post, turns, undo>>
  BY DEF RecordFails, files, chats, past
<1>2. proc.tx \in Tx
  BY DEF Placed, Live, Opening, Moving, Chatting, Returning, RecordFails, At
<1>3. proc.at = "record"
  BY DEF RecordFails, At
<1>4. Drops(proc.tx) /\ ManOK'
  BY <1>1, <1>2, EntryUpdate, NoManifestFields DEF RecordFails, Types, ManOK, Drops
<1>5. ReadyOK' /\ FaultsOK'
  BY <1>2, ReadyUpdate, FaultDoes DEF RecordFails, Types
<1>6. Idles /\ ProcOK'
  BY IdleDoes DEF RecordFails
<1> QED BY <1>1, <1>2, <1>3, <1>4, <1>5, <1>6, Unchanged DEF Types

LEMMA StageDoes ==
  ASSUME Types, Placed, Stage
  PROVE  /\ Types'
         /\ UNCHANGED <<disk, aside, talk, marks, pre, post, turns, man, undo, faults>>
         /\ proc.at = "stage"
         /\ Becomes("start") /\ ProcOK'
<1>1. UNCHANGED <<disk, aside, talk, marks, pre, post, turns, man, undo, faults>>
  BY DEF Stage, files, chats, past
<1>2. proc.tx \in Tx
  BY DEF Placed, Live, Opening, Moving, Chatting, Returning, Stage, At
<1>3. proc.at = "stage"
  BY DEF Stage, At
<1>4. Writes(m.targets, m.res) \in SUBSET Path
  BY <1>2, ManifestTypes DEF Types, Writes, m
<1>5. ReadyOK'
  BY <1>2, <1>4, ReadyUpdate DEF Stage, Types
<1>6. Becomes("start") /\ ProcOK'
  BY GotoDoes DEF Stage, Positions, Types
<1> QED BY <1>1, <1>2, <1>3, <1>4, <1>5, <1>6, Unchanged DEF Types

LEMMA ForwardFailsDoes ==
  ASSUME Types, Placed, ForwardFails
  PROVE  /\ Types'
         /\ UNCHANGED <<disk, aside, ready, talk, marks, pre, post, turns, man, undo>>
         /\ proc.at = "start"
         /\ Idles /\ ProcOK'
<1>1. UNCHANGED <<disk, aside, ready, talk, marks, pre, post, turns, man, undo>>
  BY DEF ForwardFails, files, chats, past
<1>2. proc.at = "start"
  BY DEF ForwardFails, At
<1>3. FaultsOK'
  BY FaultDoes DEF ForwardFails, Types
<1>4. Idles /\ ProcOK'
  BY IdleDoes DEF ForwardFails
<1> QED BY <1>1, <1>2, <1>3, <1>4, Unchanged DEF Types

LEMMA StartDoes ==
  ASSUME Types, Placed, Start
  PROVE  /\ Types'
         /\ UNCHANGED <<disk, aside, ready, talk, marks, pre, post, turns, undo, faults>>
         /\ proc.at = "start"
         /\ SetsState(proc.tx, "committing") /\ ManOK'
         /\ Becomes("next") /\ ProcOK'
<1>1. UNCHANGED <<disk, aside, ready, talk, marks, pre, post, turns, undo, faults>>
  BY DEF Start, files, chats, past
<1>2. proc.tx \in Tx
  BY DEF Placed, Live, Opening, Moving, Chatting, Returning, Start, At
<1>3. proc.at = "start"
  BY DEF Start, At
<1>4. SetsState(proc.tx, "committing") /\ ManOK'
  BY <1>1, <1>2, StateUpdate DEF Start, Persist, State, Types, ManOK
<1>5. Becomes("next") /\ ProcOK'
  BY GotoDoes DEF Start, Positions, Types
<1> QED BY <1>1, <1>2, <1>3, <1>4, <1>5, Unchanged DEF Types

LEMMA IntendDoes ==
  ASSUME Types, Placed, Intend
  PROVE  /\ Types'
         /\ UNCHANGED <<disk, aside, ready, talk, marks, pre, post, turns, undo, faults>>
         /\ proc.at = "next"
         /\ /\ proc'.at = "move" /\ proc'.tx = proc.tx /\ proc'.path \in m.targets \ m.out
            /\ proc'.err = proc.err
            /\ ProcOK'
         /\ AddsOut(proc.tx, proc'.path) /\ ManOK'
<1>1. UNCHANGED <<disk, aside, ready, talk, marks, pre, post, turns, undo, faults>>
  BY DEF Intend, files, chats, past
<1>2. proc.tx \in Tx
  BY DEF Placed, Live, Opening, Moving, Chatting, Returning, Intend, At
<1>3. proc.at = "next"
  BY DEF Intend, At
<1>4. m.targets \in SUBSET Path /\ m.out \subseteq m.targets
  BY <1>2, ManifestTypes DEF Types, Placed, m
<1>5. Min(m.targets \ m.out) \in m.targets \ m.out
  BY <1>4, Extremes DEF Intend
<1>6. proc' = [proc EXCEPT !.at = "move", !.path = Min(m.targets \ m.out)]
  BY DEF Intend
<1>7. /\ proc'.at = "move" /\ proc'.tx = proc.tx /\ proc'.path \in m.targets \ m.out
      /\ proc'.err = proc.err
      /\ ProcOK'
  <2> DEFINE d1 == [proc EXCEPT !.at = "move"]
  <2>0. "move" \in Positions /\ Min(m.targets \ m.out) \in Path \cup {None}
    BY <1>4, <1>5 DEF Positions
  <2>1. d1 \in ProcSet /\ d1.at = "move" /\ d1.tx = proc.tx /\ d1.err = proc.err
    BY <2>0, ProcFields DEF Types, ProcOK
  <2>2. proc' = [d1 EXCEPT !.path = Min(m.targets \ m.out)]
    BY <1>6
  <2> HIDE DEF d1
  <2>3. /\ proc' \in ProcSet /\ proc'.at = "move" /\ proc'.tx = proc.tx
        /\ proc'.path = Min(m.targets \ m.out)
        /\ proc'.err = proc.err
    BY <2>0, <2>1, <2>2, ProcFields
  <2> QED BY <1>5, <2>3 DEF ProcOK
<1>8. proc'.path = Min(m.targets \ m.out)
  <2> DEFINE d1 == [proc EXCEPT !.at = "move"]
  <2>0. "move" \in Positions /\ Min(m.targets \ m.out) \in Path \cup {None}
    BY <1>4, <1>5 DEF Positions
  <2>1. d1 \in ProcSet
    BY <2>0, ProcFields DEF Types, ProcOK
  <2>2. proc' = [d1 EXCEPT !.path = Min(m.targets \ m.out)]
    BY <1>6
  <2> HIDE DEF d1
  <2> QED BY <2>0, <2>1, <2>2, ProcFields
<1>9. AddsOut(proc.tx, proc'.path) /\ ManOK'
  <2>1. man' = [man EXCEPT ![proc.tx].out = @ \cup {proc'.path}] /\ proc'.path \in Path
    BY <1>4, <1>5, <1>8 DEF Intend
  <2> QED BY <1>1, <1>2, <2>1, OutUpdate DEF Types, ManOK
<1> QED BY <1>1, <1>2, <1>3, <1>4, <1>5, <1>6, <1>7, <1>8, <1>9, Unchanged DEF Types

LEMMA SetAsideDoes ==
  ASSUME Types, Placed, SetAside
  PROVE  /\ Types'
         /\ UNCHANGED <<ready, talk, marks, pre, post, turns, man, undo, faults>>
         /\ proc.at = "move"
         /\ Aside(proc.tx, proc.path, disk[proc.path]) /\ AsideOK'
         /\ File(proc.path, Absent) /\ DiskOK'
         /\ Becomes(IF m.res[proc.path] = Absent THEN "next" ELSE "place") /\ ProcOK'
<1>1. UNCHANGED <<ready, talk, marks, pre, post, turns, man, undo, faults>>
  BY DEF SetAside, files, chats, past
<1>2. proc.tx \in Tx
  BY DEF Placed, Live, Opening, Moving, Chatting, Returning, SetAside, At
<1>3. proc.at = "move"
  BY DEF SetAside, At
<1>4. proc.path \in Path /\ disk[proc.path] \in Content
  BY <1>2, <1>3, ManifestTypes DEF Placed, m, Types, DiskOK
<1>5. Aside(proc.tx, proc.path, disk[proc.path]) /\ AsideOK'
  BY <1>2, <1>4, AsideUpdate DEF SetAside, Types
<1>6. File(proc.path, Absent) /\ DiskOK'
  BY <1>4, Contents, FileUpdate DEF SetAside, Types
<1>7. Becomes(IF m.res[proc.path] = Absent THEN "next" ELSE "place") /\ ProcOK'
  BY GotoDoes DEF SetAside, Positions, Types
<1> QED BY <1>1, <1>2, <1>3, <1>4, <1>5, <1>6, <1>7, Unchanged DEF Types

LEMMA PlaceDoes ==
  ASSUME Types, Placed, Place
  PROVE  /\ Types'
         /\ UNCHANGED <<aside, talk, marks, pre, post, turns, man, undo, faults>>
         /\ proc.at = "place"
         /\ File(proc.path, m.res[proc.path]) /\ DiskOK'
         /\ Becomes("next") /\ ProcOK'
<1>1. UNCHANGED <<aside, talk, marks, pre, post, turns, man, undo, faults>>
  BY DEF Place, files, chats, past
<1>2. proc.tx \in Tx
  BY DEF Placed, Live, Opening, Moving, Chatting, Returning, Place, At
<1>3. proc.at = "place"
  BY DEF Place, At
<1>4. proc.path \in Path /\ m.res[proc.path] \in Content
  <2>1. m.out \in SUBSET Path /\ proc.path \in m.out
    BY <1>2, <1>3, ManifestTypes DEF Placed, m, Types
  <2>2. m.res \in [Path -> Content]
    BY <1>2, ManifestTypes DEF m, Types
  <2> QED BY <2>1, <2>2
<1>5. File(proc.path, m.res[proc.path]) /\ DiskOK'
  BY <1>4, FileUpdate DEF Place, Types
<1>6. ReadyOK'
  BY <1>2 DEF Place, Types, ReadyOK
<1>7. Becomes("next") /\ ProcOK'
  BY GotoDoes DEF Place, Positions, Types
<1> QED BY <1>1, <1>2, <1>3, <1>4, <1>5, <1>6, <1>7, Unchanged DEF Types

LEMMA FilesDoneDoes ==
  ASSUME Types, Placed, FilesDone
  PROVE  /\ Types'
         /\ UNCHANGED <<disk, aside, ready, talk, marks, pre, post, turns, man, undo, faults>>
         /\ proc.at = "next" /\ m.out = m.targets
         /\ Becomes(IF MovesTalk THEN "talk" ELSE "seal") /\ ProcOK'
<1>1. UNCHANGED <<disk, aside, ready, talk, marks, pre, post, turns, man, undo, faults>>
  BY DEF FilesDone, files, chats, past
<1>2. proc.at = "next" /\ m.out = m.targets
  BY DEF FilesDone, At
<1>3. Becomes(IF MovesTalk THEN "talk" ELSE "seal") /\ ProcOK'
  BY GotoDoes DEF FilesDone, Positions, Types
<1> QED BY <1>1, <1>2, <1>3, Unchanged DEF Types

LEMMA MoveTalkDoes ==
  ASSUME Types, Placed, MoveTalk
  PROVE  /\ Types'
         /\ UNCHANGED <<disk, aside, ready, marks, pre, post, turns, man, undo, faults>>
         /\ proc.at = "talk"
         /\ talk' = IF m.kind = "undo" THEN m.talk ELSE CutTalk
         /\ Becomes(IF m.chat THEN "marks" ELSE "seal") /\ ProcOK'
<1>1. UNCHANGED <<disk, aside, ready, marks, pre, post, turns, man, undo, faults>>
  BY DEF MoveTalk, files, chats, past
<1>2. proc.tx \in Tx
  BY DEF Placed, Live, Opening, Moving, Chatting, Returning, MoveTalk, At
<1>3. proc.at = "talk"
  BY DEF MoveTalk, At
<1>4. talk' = IF m.kind = "undo" THEN m.talk ELSE CutTalk
  BY DEF MoveTalk
<1>5. TalkOK'
  BY <1>2, <1>4, ManifestTypes, CutTyped DEF TalkOK, Types, m
<1>6. Becomes(IF m.chat THEN "marks" ELSE "seal") /\ ProcOK'
  BY GotoDoes DEF MoveTalk, Positions, Types
<1> QED BY <1>1, <1>2, <1>3, <1>4, <1>5, <1>6, Unchanged DEF Types

LEMMA MoveMarksDoes ==
  ASSUME Types, Placed, MoveMarks
  PROVE  /\ Types'
         /\ UNCHANGED <<disk, aside, ready, talk, pre, post, turns, man, undo, faults>>
         /\ proc.at = "marks"
         /\ marks' = NewMarks
         /\ Becomes("seal") /\ ProcOK'
<1>1. UNCHANGED <<disk, aside, ready, talk, pre, post, turns, man, undo, faults>>
  BY DEF MoveMarks, files, chats, past
<1>2. proc.tx \in Tx
  BY DEF Placed, Live, Opening, Moving, Chatting, Returning, MoveMarks, At
<1>3. proc.at = "marks"
  BY DEF MoveMarks, At
<1>4. marks' = NewMarks
  BY DEF MoveMarks
<1>5. MarksOK'
  BY <1>2, <1>4, MarksTyped DEF MarksOK, Types
<1>6. Becomes("seal") /\ ProcOK'
  BY GotoDoes DEF MoveMarks, Positions, Types
<1> QED BY <1>1, <1>2, <1>3, <1>4, <1>5, <1>6, Unchanged DEF Types

LEMMA SealDoes ==
  ASSUME Types, Placed, Seal
  PROVE  /\ Types'
         /\ UNCHANGED <<disk, aside, ready, talk, marks, pre, post, turns, faults>>
         /\ proc.at = "seal"
         /\ SetsState(proc.tx, "committed") /\ man' \in [Tx -> Manifest]
         /\ \/ m.kind = "undo" /\ Becomes("retire") /\ undo' = undo
            \/ m.kind # "undo" /\ Idles /\ undo' = proc.tx
<1>1. UNCHANGED <<disk, aside, ready, talk, marks, pre, post, turns, faults>>
  BY DEF Seal, files, chats, past
<1>2. proc.tx \in Tx
  BY DEF Placed, Live, Opening, Moving, Chatting, Returning, Seal, At
<1>3. proc.at = "seal"
  BY DEF Seal, At
<1>4. SetsState(proc.tx, "committed") /\ man' \in [Tx -> Manifest]
  BY <1>2, StateUpdate DEF Seal, Persist, State, Types
<1>5. \/ m.kind = "undo" /\ Becomes("retire") /\ undo' = undo
      \/ m.kind # "undo" /\ Idles /\ undo' = proc.tx
  BY GotoDoes, IdleDoes DEF Seal, Positions, Types
<1>6. ProcOK' /\ ManOK'
  BY <1>2, <1>4, GotoDoes, IdleDoes DEF Seal, Positions, Types, ManOK
<1> QED BY <1>1, <1>2, <1>3, <1>4, <1>5, <1>6, Unchanged DEF Types

LEMMA RetireDoes ==
  ASSUME Types, Placed, Retire
  PROVE  /\ Types'
         /\ UNCHANGED <<disk, aside, ready, talk, marks, pre, post, turns>>
         /\ proc.at = "retire"
         /\ undo' = None
         /\ Idles /\ ProcOK'
         /\ \/ m.parent \in Tx /\ SetsState(m.parent, "undone") /\ man' \in [Tx -> Manifest]
            \/ man' = man
<1>1. UNCHANGED <<disk, aside, ready, talk, marks, pre, post, turns>>
  BY DEF Retire, files, chats, past
<1>2. proc.tx \in Tx
  BY DEF Placed, Live, Opening, Moving, Chatting, Returning, Retire, At
<1>3. proc.at = "retire"
  BY DEF Retire, At
<1>4. undo' = None
  BY DEF Retire
<1>5. Idles /\ ProcOK'
  BY IdleDoes DEF Retire
<1>6. \/ m.parent \in Tx /\ SetsState(m.parent, "undone") /\ man' \in [Tx -> Manifest]
      \/ man' = man
  <2>1. CASE man' = [man EXCEPT ![m.parent].state = "undone"] /\ m.parent \in Tx
    BY <2>1, StateUpdate DEF State, Types
  <2>2. CASE man' = [man EXCEPT ![m.parent].state = "undone"] /\ m.parent \notin Tx
    BY <2>2 DEF Types, ManOK
  <2> QED BY <2>1, <2>2 DEF Retire
<1>7. ManOK' /\ FaultsOK'
  BY <1>4, <1>6, FaultDoes DEF Retire, Types, ManOK, FaultsOK
<1> QED BY <1>1, <1>2, <1>3, <1>4, <1>5, <1>6, <1>7, Unchanged DEF Types

LEMMA FailDoes ==
  ASSUME Types, Placed, Fail
  PROVE  /\ Types'
         /\ UNCHANGED <<disk, aside, ready, talk, marks, pre, post, turns, man, undo>>
         /\ proc.at \in {"stage", "start", "next", "move"}
         /\ Compensates(FALSE) /\ ProcOK'
<1>1. UNCHANGED <<disk, aside, ready, talk, marks, pre, post, turns, man, undo>>
  BY DEF Fail, files, chats, past
<1>2. proc.tx \in Tx
  BY DEF Placed, Live, Opening, Moving, Chatting, Returning, Fail, At
<1>3. proc.at \in {"stage", "start", "next", "move"}
  BY DEF Fail
<1>4. FaultsOK'
  BY FaultDoes DEF Fail, Types
<1>5. Compensates(FALSE) /\ ProcOK'
  BY <1>2, CompensatingDoes DEF Fail, Types
<1> QED BY <1>1, <1>2, <1>3, <1>4, <1>5, Unchanged DEF Types

LEMMA PlaceFailsDoes ==
  ASSUME Types, Placed, PlaceFails
  PROVE  /\ Types'
         /\ UNCHANGED <<ready, talk, marks, pre, post, turns, man, undo>>
         /\ proc.at = "place"
         /\ Compensates(FALSE) /\ ProcOK'
         /\ \/ File(proc.path, aside[proc.tx][proc.path]) /\ Aside(proc.tx, proc.path, Absent)
            \/ disk' = disk /\ aside' = aside
<1>1. UNCHANGED <<ready, talk, marks, pre, post, turns, man, undo>>
  BY DEF PlaceFails, files, chats, past
<1>2. proc.tx \in Tx
  BY DEF Placed, Live, Opening, Moving, Chatting, Returning, PlaceFails, At
<1>3. proc.at = "place"
  BY DEF PlaceFails, At
<1>4. FaultsOK'
  BY FaultDoes DEF PlaceFails, Types
<1>5. Compensates(FALSE) /\ ProcOK'
  BY <1>2, CompensatingDoes DEF PlaceFails, Types
<1>6. proc.path \in Path /\ aside[proc.tx][proc.path] \in Content
  <2>1. m.out \in SUBSET Path /\ proc.path \in m.out
    BY <1>2, <1>3, ManifestTypes DEF Placed, m, Types
  <2>2. aside[proc.tx] \in [Path -> Content]
    BY <1>2, ManifestTypes DEF m, Types, AsideOK
  <2> QED BY <2>1, <2>2
<1>7. \/ File(proc.path, aside[proc.tx][proc.path]) /\ Aside(proc.tx, proc.path, Absent)
      \/ disk' = disk /\ aside' = aside
  BY <1>2, <1>6, Contents, FileUpdate, AsideUpdate DEF PlaceFails, Types
<1>8. DiskOK' /\ AsideOK'
  BY <1>2, <1>6, Contents, FileUpdate, AsideUpdate, Unchanged DEF PlaceFails, Types
<1> QED BY <1>1, <1>2, <1>3, <1>4, <1>5, <1>6, <1>7, <1>8, Unchanged DEF Types

LEMMA FailLateDoes ==
  ASSUME Types, Placed, FailLate
  PROVE  /\ Types'
         /\ UNCHANGED <<disk, aside, ready, talk, pre, post, turns, man, undo>>
         /\ proc.at \in {"talk", "marks", "seal"}
         /\ marks' \in IF proc.at = "marks" THEN Between(marks, NewMarks) ELSE {marks}
         /\ Becomes("mend") /\ ProcOK'
<1>1. UNCHANGED <<disk, aside, ready, talk, pre, post, turns, man, undo>>
  BY DEF FailLate, files, chats, past
<1>2. proc.tx \in Tx
  BY DEF Placed, Live, Opening, Moving, Chatting, Returning, FailLate, At
<1>3. proc.at \in {"talk", "marks", "seal"}
  BY DEF FailLate
<1>4. marks' \in IF proc.at = "marks" THEN Between(marks, NewMarks) ELSE {marks}
  BY DEF FailLate, At
<1>5. MarksOK' /\ FaultsOK'
  BY <1>4, FaultDoes DEF FailLate, Types, MarksOK, Between
<1>6. Becomes("mend") /\ ProcOK'
  BY GotoDoes DEF FailLate, Positions, Types
<1> QED BY <1>1, <1>2, <1>3, <1>4, <1>5, <1>6, Unchanged DEF Types

LEMMA MendDoes ==
  ASSUME Types, Placed, Mend
  PROVE  /\ Types'
         /\ UNCHANGED <<disk, aside, ready, pre, post, turns, man, undo, faults>>
         /\ proc.at = "mend" /\ ~MendsLost
         /\ talk' = MendedTalk /\ marks' = MendedMarks
         /\ Compensates(proc.err) /\ ProcOK'
<1>1. UNCHANGED <<disk, aside, ready, pre, post, turns, man, undo, faults>>
  BY DEF Mend, files, chats, past
<1>2. proc.tx \in Tx
  BY DEF Placed, Live, Opening, Moving, Chatting, Returning, Mend, At
<1>3. proc.at = "mend" /\ ~MendsLost
  BY DEF Mend, At
<1>4. talk' = MendedTalk /\ marks' = MendedMarks
  BY DEF Mend
<1>5. TalkOK' /\ MarksOK'
  BY <1>2, <1>4, MendTyped DEF Types, TalkOK, MarksOK
<1>6. Compensates(proc.err) /\ ProcOK'
  <2>1. proc.err \in BOOLEAN
    BY DEF Types, ProcOK, ProcSet
  <2> QED BY <1>2, <2>1, CompensatingDoes DEF Mend, Types
<1> QED BY <1>1, <1>2, <1>3, <1>4, <1>5, <1>6, Unchanged DEF Types

LEMMA MendFailsDoes ==
  ASSUME Types, Placed, MendFails
  PROVE  /\ Types'
         /\ UNCHANGED <<disk, aside, ready, pre, post, turns, man, undo>>
         /\ proc.at = "mend" /\ (m.chat \/ m.kind = "rewind")
         /\ talk' \in {talk, MendedTalk} /\ marks' \in Between(marks, MendedMarks)
         /\ Becomes("recover") \/ Compensates(TRUE)
<1>1. UNCHANGED <<disk, aside, ready, pre, post, turns, man, undo>>
  BY DEF MendFails, files, chats, past
<1>2. proc.tx \in Tx
  BY DEF Placed, Live, Opening, Moving, Chatting, Returning, MendFails, At
<1>3. proc.at = "mend" /\ (m.chat \/ m.kind = "rewind")
  BY DEF MendFails, At
<1>4. talk' \in {talk, MendedTalk} /\ marks' \in Between(marks, MendedMarks)
  BY DEF MendFails
<1>5. TalkOK' /\ MarksOK' /\ FaultsOK'
  BY <1>2, <1>4, MendTyped, FaultDoes DEF MendFails, Types, TalkOK, MarksOK, Between, FaultsOK
<1>6. Becomes("recover") \/ Compensates(TRUE)
  BY <1>2, GotoDoes, CompensatingDoes DEF MendFails, Positions, Types
<1>7. ProcOK'
  BY <1>2, GotoDoes, CompensatingDoes DEF MendFails, Positions, Types
<1> QED BY <1>1, <1>2, <1>3, <1>4, <1>5, <1>6, <1>7, Unchanged DEF Types

LEMMA KeepFileDoes ==
  ASSUME Types, Placed, KeepFile
  PROVE  /\ Types'
         /\ UNCHANGED <<disk, aside, talk, marks, pre, post, turns, man, undo, faults>>
         /\ proc.at = "compensate"
         /\ \E p \in proc.todo :
              \/ (p \notin m.out \/ disk[p] = m.fwd[p]) /\ Passes(p, FALSE)
              \/ p \in m.out /\ disk[p] # m.fwd[p] /\ disk[p] # m.res[p] /\ Passes(p, TRUE)
<1>1. UNCHANGED <<disk, aside, talk, marks, pre, post, turns, man, undo, faults>>
  BY DEF KeepFile, files, chats, past
<1>2. proc.tx \in Tx
  BY DEF Placed, Live, Opening, Moving, Chatting, Returning, KeepFile, At
<1>3. proc.at = "compensate"
  BY DEF KeepFile, At
<1>4. proc.todo # {} => Max(proc.todo) \in proc.todo
  <2>1. proc.todo \in SUBSET Path
    BY DEF Types, ProcOK, ProcSet
  <2> QED BY <2>1, Extremes
<1>5. \E p \in proc.todo :
        \/ (p \notin m.out \/ disk[p] = m.fwd[p]) /\ Passes(p, FALSE)
        \/ p \in m.out /\ disk[p] # m.fwd[p] /\ disk[p] # m.res[p] /\ Passes(p, TRUE)
  BY <1>4, CompensatedDoes DEF KeepFile, Untouched, Types
<1>6. ProcOK' /\ ReadyOK'
  BY <1>2, <1>4, CompensatedDoes, UnreadyDoes, Unchanged DEF KeepFile, Types
<1> QED BY <1>1, <1>2, <1>3, <1>4, <1>5, <1>6, Unchanged DEF Types

LEMMA LookAtFileDoes ==
  ASSUME Types, Placed, LookAtFile
  PROVE  /\ Types'
         /\ UNCHANGED <<disk, aside, ready, talk, marks, pre, post, turns, man, undo, faults>>
         /\ proc.at = "compensate"
         /\ \E p \in proc.todo :
              /\ p \in m.out /\ disk[p] # m.fwd[p]
              /\ \/ disk[p] = Absent /\ proc'.at = "giveback"
                 \/ /\ disk[p] = m.res[p]
                    /\ proc'.at = IF m.res[p] # Absent THEN "clear" ELSE "putback"
              /\ proc'.path = p /\ proc'.tx = proc.tx
              /\ proc'.todo = proc.todo /\ proc'.err = proc.err
<1> DEFINE p == Max(proc.todo)
<1>1. UNCHANGED <<disk, aside, ready, talk, marks, pre, post, turns, man, undo, faults>>
  BY DEF LookAtFile, files, chats, past
<1>2. proc.at = "compensate"
  BY DEF LookAtFile, At
<1>3. p \in proc.todo /\ p \in Path
  <2>1. proc.todo \in SUBSET Path /\ proc.todo # {}
    BY DEF Types, ProcOK, ProcSet, LookAtFile
  <2> QED BY <2>1, Extremes
<1>4. p \in m.out /\ disk[p] # m.fwd[p]
  BY DEF LookAtFile, Untouched
<1>5. \A v \in Positions : Takes(p, v) =>
        /\ proc'.at = v /\ proc'.path = p /\ proc'.tx = proc.tx
        /\ proc'.todo = proc.todo /\ proc'.err = proc.err /\ ProcOK'
  BY <1>3, TakesDoes DEF Types
<1>6. PICK v \in Positions :
        /\ Takes(p, v)
        /\ \/ disk[p] = Absent /\ v = "giveback"
           \/ disk[p] = m.res[p] /\ v = IF m.res[p] # Absent THEN "clear" ELSE "putback"
  BY DEF LookAtFile, HalfPublished, Positions
<1> HIDE DEF p
<1>7. Types'
  BY <1>1, <1>5, <1>6, Unchanged DEF Types
<1> QED BY <1>1, <1>2, <1>3, <1>4, <1>5, <1>6, <1>7

LEMMA GiveBackDoes ==
  ASSUME Types, Placed, GiveBack
  PROVE  /\ Types'
         /\ UNCHANGED <<talk, marks, pre, post, turns, man, undo>>
         /\ proc.at = "giveback"
         /\ File(proc.path, IF aside[proc.tx][proc.path] # Absent THEN aside[proc.tx][proc.path] ELSE m.fwd[proc.path])
         /\ Aside(proc.tx, proc.path, Absent)
         /\ Passes(proc.path, FALSE) \/ Passes(proc.path, TRUE)
<1>1. UNCHANGED <<talk, marks, pre, post, turns, man, undo>>
  BY DEF GiveBack, chats, past
<1>2. proc.tx \in Tx
  BY DEF Placed, Live, Opening, Moving, Chatting, Returning, GiveBack, At
<1>3. proc.at = "giveback"
  BY DEF GiveBack, At
<1>4. proc.path \in Path
  BY <1>2, <1>3, ManifestTypes DEF Placed, m, Types
<1>5. /\ File(proc.path, IF aside[proc.tx][proc.path] # Absent THEN aside[proc.tx][proc.path] ELSE m.fwd[proc.path])
      /\ Aside(proc.tx, proc.path, Absent) /\ DiskOK' /\ AsideOK'
  BY <1>2, <1>4, PutBackDoes DEF GiveBack, Types
<1>6. (Passes(proc.path, FALSE) \/ Passes(proc.path, TRUE)) /\ ProcOK'
  BY CompensatedDoes DEF GiveBack, Types
<1>7. ReadyOK' /\ FaultsOK'
  BY <1>2, UnreadyDoes, FaultDoes, Unchanged DEF GiveBack, Types
<1> QED BY <1>1, <1>3, <1>5, <1>6, <1>7, Unchanged DEF Types

LEMMA ClearFileDoes ==
  ASSUME Types, Placed, ClearFile
  PROVE  /\ Types'
         /\ UNCHANGED <<aside, ready, talk, marks, pre, post, turns, man, undo, faults>>
         /\ proc.at = "clear"
         /\ File(proc.path, Absent)
         /\ \/ m.fwd[proc.path] = Absent /\ Passes(proc.path, FALSE)
            \/ m.fwd[proc.path] # Absent /\ Becomes("putback")
<1>1. UNCHANGED <<aside, ready, talk, marks, pre, post, turns, man, undo, faults>>
  BY DEF ClearFile, chats, past
<1>2. proc.tx \in Tx
  BY DEF Placed, Live, Opening, Moving, Chatting, Returning, ClearFile, At
<1>3. proc.at = "clear"
  BY DEF ClearFile, At
<1>4. proc.path \in Path
  BY <1>2, <1>3, ManifestTypes DEF Placed, m, Types
<1>5. File(proc.path, Absent) /\ DiskOK'
  BY <1>4, Contents, FileUpdate DEF ClearFile, Types
<1>6. /\ \/ m.fwd[proc.path] = Absent /\ Passes(proc.path, FALSE)
         \/ m.fwd[proc.path] # Absent /\ Becomes("putback")
      /\ ProcOK'
  BY CompensatedDoes, GotoDoes DEF ClearFile, Positions, Types
<1> QED BY <1>1, <1>3, <1>5, <1>6, Unchanged DEF Types

LEMMA FinishPutBackDoes ==
  ASSUME Types, Placed, FinishPutBack
  PROVE  /\ Types'
         /\ UNCHANGED <<ready, talk, marks, pre, post, turns, man, undo, faults>>
         /\ proc.at = "putback"
         /\ /\ File(proc.path, IF aside[proc.tx][proc.path] # Absent THEN aside[proc.tx][proc.path] ELSE m.fwd[proc.path])
            /\ Aside(proc.tx, proc.path, Absent) /\ DiskOK' /\ AsideOK'
         /\ Passes(proc.path, FALSE) /\ ProcOK'
<1>1. UNCHANGED <<ready, talk, marks, pre, post, turns, man, undo, faults>>
  BY DEF FinishPutBack, files, chats, past
<1>2. proc.tx \in Tx
  BY DEF Placed, Live, Opening, Moving, Chatting, Returning, FinishPutBack, At
<1>3. proc.at = "putback"
  BY DEF FinishPutBack, At
<1>4. proc.path \in Path
  BY <1>2, <1>3, ManifestTypes DEF Placed, m, Types
<1>5. /\ File(proc.path, IF aside[proc.tx][proc.path] # Absent THEN aside[proc.tx][proc.path] ELSE m.fwd[proc.path])
      /\ Aside(proc.tx, proc.path, Absent) /\ DiskOK' /\ AsideOK'
  BY <1>2, <1>4, PutBackDoes DEF FinishPutBack, Types
<1>6. Passes(proc.path, FALSE) /\ ProcOK'
  BY CompensatedDoes DEF FinishPutBack, Types
<1> QED BY <1>1, <1>2, <1>3, <1>4, <1>5, <1>6, Unchanged DEF Types

LEMMA CompensateFailsDoes ==
  ASSUME Types, Placed, CompensateFails
  PROVE  /\ Types'
         /\ UNCHANGED <<disk, aside, ready, talk, marks, pre, post, turns, man, undo>>
         /\ proc.at \in Returning
         /\ \E p \in proc.todo : Passes(p, TRUE)
<1>1. UNCHANGED <<disk, aside, ready, talk, marks, pre, post, turns, man, undo>>
  BY DEF CompensateFails, files, chats, past
<1>2. proc.tx \in Tx
  BY DEF Placed, Live, Opening, Moving, Chatting, Returning, CompensateFails, At
<1>3. proc.at \in Returning
  BY DEF CompensateFails, At, Returning
<1>4. proc.todo # {} => Max(proc.todo) \in proc.todo
  <2>1. proc.todo \in SUBSET Path
    BY DEF Types, ProcOK, ProcSet
  <2> QED BY <2>1, Extremes
<1>5. \E p \in proc.todo : Passes(p, TRUE)
  <2>1. CASE At("compensate") /\ proc.todo # {} /\ Compensated(Max(proc.todo), TRUE)
    BY <1>4, <2>1, CompensatedDoes DEF Types
  <2>2. CASE proc.at \in {"giveback", "clear", "putback"} /\ Compensated(proc.path, TRUE)
    BY <2>2, CompensatedDoes DEF Types, Placed
  <2> QED BY <2>1, <2>2 DEF CompensateFails
<1>6. ProcOK' /\ FaultsOK'
  BY CompensatedDoes, FaultDoes DEF CompensateFails, Types
<1> QED BY <1>1, <1>2, <1>3, <1>4, <1>5, <1>6, Unchanged DEF Types

LEMMA FinishDoes ==
  ASSUME Types, Placed, Finish
  PROVE  /\ Types'
         /\ UNCHANGED <<disk, aside, ready, talk, marks, pre, post, turns, undo>>
         /\ proc.at = "compensate" /\ proc.todo = {}
         /\ proc'.at \in {"idle", "recover"} /\ proc'.tx = None /\ ~proc'.err /\ ProcOK'
         /\ \/ ~proc.err /\ SetsState(proc.tx, "aborted") /\ man' \in [Tx -> Manifest]
            \/ man' = man
<1>1. UNCHANGED <<disk, aside, ready, talk, marks, pre, post, turns, undo>>
  BY DEF Finish, files, chats, past
<1>2. proc.tx \in Tx
  BY DEF Placed, Live, Opening, Moving, Chatting, Returning, Finish, At
<1>3. proc.at = "compensate" /\ proc.todo = {}
  BY DEF Finish, At
<1>4. proc'.at \in {"idle", "recover"} /\ proc'.tx = None /\ ~proc'.err /\ ProcOK'
  BY BackDoes DEF Finish, Types
<1>5. \/ ~proc.err /\ SetsState(proc.tx, "aborted") /\ man' \in [Tx -> Manifest]
      \/ man' = man
  BY <1>2, StateUpdate DEF Finish, Persist, State, Types
<1>6. ManOK' /\ FaultsOK'
  BY <1>1, <1>5, FaultDoes, Unchanged DEF Finish, Types, ManOK
<1> QED BY <1>1, <1>2, <1>3, <1>4, <1>5, <1>6, Unchanged DEF Types

LEMMA RecoverDoes ==
  ASSUME Types, Placed, Recover
  PROVE  /\ Types'
         /\ UNCHANGED <<disk, aside, talk, marks, pre, post, turns, undo>>
         /\ proc.at = "recover"
         /\ \E t \in Tx :
              \/ /\ man[t].state = "prepared" /\ proc'.at = "recover" /\ proc'.tx = proc.tx
                 /\ proc'.err = proc.err
                 /\ (SetsState(t, "aborted") /\ man' \in [Tx -> Manifest]) \/ man' = man
              \/ /\ man[t].state = "committing" /\ man' = man
                 /\ proc'.tx = t /\ ~proc'.err /\ proc'.todo = man[t].targets
                 /\ proc'.at = IF man[t].chat THEN "mend" ELSE "compensate"
<1>1. UNCHANGED <<disk, aside, talk, marks, pre, post, turns, undo>>
  BY DEF Recover, files, chats, past
<1>2. proc.at = "recover"
  BY DEF Recover, At
<1>3. proc.visit \in SUBSET Tx /\ proc.visit # {}
  BY DEF Types, ProcOK, ProcSet, Recover
<1>4. Min(proc.visit) \in Tx
  BY <1>3, Extremes
<1>5. \E t \in Tx :
        \/ /\ man[t].state = "prepared" /\ proc'.at = "recover" /\ proc'.tx = proc.tx
           /\ proc'.err = proc.err
           /\ (SetsState(t, "aborted") /\ man' \in [Tx -> Manifest]) \/ man' = man
        \/ /\ man[t].state = "committing" /\ man' = man
           /\ proc'.tx = t /\ ~proc'.err /\ proc'.todo = man[t].targets
           /\ proc'.at = IF man[t].chat THEN "mend" ELSE "compensate"
  <2> DEFINE t == Min(proc.visit)
  <2>1. CASE RecoverPrepared(t)
    <3>1. proc'.at = "recover" /\ proc'.tx = proc.tx /\ proc'.err = proc.err
      BY <1>2, <1>3, <2>1, ProcFields DEF RecoverPrepared, Types, ProcOK
    <3>2. (SetsState(t, "aborted") /\ man' \in [Tx -> Manifest]) \/ man' = man
      BY <1>4, <2>1, StateUpdate DEF RecoverPrepared, Types, State
    <3> QED BY <1>4, <2>1, <3>1, <3>2 DEF RecoverPrepared
  <2>2. CASE RecoverCommitting(t)
    BY <1>4, <2>2, RecoverProc DEF RecoverCommitting, Types
  <2> QED BY <2>1, <2>2 DEF Recover
<1>6. ProcOK' /\ ReadyOK' /\ FaultsOK' /\ ManOK'
  <2> DEFINE t == Min(proc.visit)
  <2>1. CASE RecoverPrepared(t)
    <3>1. ProcOK'
      <4>1. proc.visit \ {t} \in SUBSET Tx
        BY <1>3
      <4> QED BY <4>1, <2>1, ProcFields DEF RecoverPrepared, Types, ProcOK
    <3>2. ReadyOK'
      BY <1>4, <2>1, ReadyUpdate DEF RecoverPrepared, Types
    <3>3. FaultsOK'
      BY <2>1, FaultDoes DEF RecoverPrepared, Types, FaultsOK
    <3>4. ManOK'
      BY <1>1, <1>4, <2>1, StateUpdate DEF RecoverPrepared, Types, State, ManOK
    <3> QED BY <3>1, <3>2, <3>3, <3>4
  <2>2. CASE RecoverCommitting(t)
    BY <1>1, <1>4, <2>2, RecoverProc, Unchanged DEF RecoverCommitting, Types
  <2> QED BY <2>1, <2>2 DEF Recover
<1> QED BY <1>1, <1>2, <1>3, <1>4, <1>5, <1>6, Unchanged DEF Types

LEMMA RecoveredDoes ==
  ASSUME Types, Placed, Recovered
  PROVE  /\ Types'
         /\ UNCHANGED <<disk, aside, ready, talk, marks, pre, post, turns, man, faults>>
         /\ proc.at = "recover"
         /\ undo' = Offered
         /\ Idles /\ ProcOK'
<1>1. UNCHANGED <<disk, aside, ready, talk, marks, pre, post, turns, man, faults>>
  BY DEF Recovered, files, chats, past
<1>2. proc.at = "recover"
  BY DEF Recovered, At
<1>3. undo' = Offered
  BY DEF Recovered
<1>4. Offered \in Tx \cup {None}
  BY OfferedTyped
<1>5. ManOK'
  BY <1>1, <1>3, <1>4 DEF ManOK, Types
<1>6. Idles /\ ProcOK'
  BY IdleDoes DEF Recovered
<1> QED BY <1>1, <1>2, <1>3, <1>4, <1>5, <1>6, Unchanged DEF Types

LEMMA CrashDoes ==
  ASSUME Types, Placed, Crash
  PROVE  /\ Types'
         /\ UNCHANGED <<disk, aside, ready, talk, marks, pre, post, turns>>
         /\ \A t \in Tx : man'[t] = IF man[t].state = "none" THEN NoManifest ELSE man[t]
         /\ undo' = None
         /\ proc'.at = "down" /\ proc'.tx = None /\ ~proc'.err /\ ProcOK'
<1>1. UNCHANGED <<disk, aside, ready, talk, marks, pre, post, turns>>
  BY DEF Crash, files, chats, past
<1>2. \A t \in Tx : man'[t] = IF man[t].state = "none" THEN NoManifest ELSE man[t]
  BY DEF Crash
<1>3. undo' = None
  BY DEF Crash
<1>4. ManOK'
  BY <1>3, NoManifestFields DEF Crash, Types, ManOK
<1>5. FaultsOK'
  BY FaultDoes DEF Crash, Types
<1>6. proc'.at = "down" /\ proc'.tx = None /\ ~proc'.err /\ ProcOK'
  <2>1. "down" \in Positions /\ Rest \in ProcSet /\ Rest.tx = None /\ ~Rest.err
    BY RestFields DEF Positions
  <2> DEFINE d1 == [Rest EXCEPT !.at = "down"]
  <2>2. d1 \in ProcSet /\ d1.at = "down" /\ d1.tx = None /\ ~d1.err
    BY <2>1, ProcFields
  <2> QED BY <2>2 DEF Crash, ProcOK
<1> QED BY <1>1, <1>2, <1>3, <1>4, <1>5, <1>6, Unchanged DEF Types

LEMMA BindDoes ==
  ASSUME Types, Placed, Bind
  PROVE  /\ Types'
         /\ UNCHANGED <<disk, aside, ready, talk, marks, pre, post, turns, man, faults>>
         /\ proc.at \in {"down", "idle"}
         /\ undo' = None
         /\ proc'.at = "recover" /\ proc'.tx = None /\ ~proc'.err /\ ProcOK'
<1>1. UNCHANGED <<disk, aside, ready, talk, marks, pre, post, turns, man, faults>>
  BY DEF Bind, files, chats, past
<1>2. proc.at \in {"down", "idle"}
  BY DEF Bind, At
<1>3. undo' = None
  BY DEF Bind
<1>4. ManOK'
  BY <1>1, <1>3 DEF ManOK, Types
<1>5. proc'.at = "recover" /\ proc'.tx = None /\ ~proc'.err /\ ProcOK'
  BY BindProc DEF Bind
<1> QED BY <1>1, <1>2, <1>3, <1>4, <1>5, Unchanged DEF Types

LEMMA EditDoes ==
  ASSUME Types, Placed, NEW p \in Path, Edit(p)
  PROVE  /\ Types'
         /\ UNCHANGED <<aside, ready, talk, marks, pre, post, turns, man, undo, proc>>
         /\ File(p, Edited) /\ DiskOK'
<1>1. UNCHANGED <<aside, ready, talk, marks, pre, post, turns, man, undo, proc>>
  BY DEF Edit, files, chats, past
<1>2. File(p, Edited) /\ DiskOK'
  BY Contents, FileUpdate DEF Edit, Types
<1>3. FaultsOK'
  BY DEF Edit, Types, FaultsOK
<1> QED BY <1>1, <1>2, <1>3, Unchanged DEF Types

LEMMA TakeTurnDoes ==
  ASSUME Types, Placed, NEW w \in Works, TakeTurn(w)
  PROVE  /\ Types'
         /\ UNCHANGED <<aside, ready, man, proc, faults>>
         /\ /\ proc.at = "idle" /\ (Unfinished = {} \/ "carryon" \in Faults)
            /\ turns' = turns + 1 /\ turns + 1 \in Turn
         /\ /\ talk' = Append(talk, turns + 1) /\ Len(talk) < MaxTurns /\ TalkOK'
         /\ /\ NextTurn \in Turn /\ marks' = [marks EXCEPT ![NextTurn] = turns + 1] /\ MarksOK'
         /\ undo' = None
<1>1. UNCHANGED <<aside, ready, man, proc, faults>>
  BY DEF TakeTurn, files, chats, past
<1>2. /\ proc.at = "idle" /\ (Unfinished = {} \/ "carryon" \in Faults)
      /\ turns' = turns + 1 /\ turns + 1 \in Turn
  BY DEF TakeTurn, Free, At, Types, PastOK, Turn
<1>3. /\ talk' = Append(talk, turns + 1) /\ Len(talk) < MaxTurns /\ TalkOK'
  BY <1>2, MoreTalk DEF TakeTurn, Types, TalkOK
<1>4. /\ NextTurn \in Turn /\ marks' = [marks EXCEPT ![NextTurn] = turns + 1] /\ MarksOK'
  BY <1>2 DEF TakeTurn, Types, MarksOK, Marks
<1>5. DiskOK'
  <2>1. w \in Work /\ disk \in [Path -> Content] /\ turns + 1 \in Content
    BY <1>2, Contents DEF Types, DiskOK
  <2>2. \A p \in Path : w[p] \in {"keep", "write", "remove"}
    BY <2>1 DEF Work
  <2>3. disk' = [p \in Path |-> CASE w[p] = "keep" -> disk[p] [] w[p] = "write" -> turns + 1 [] w[p] = "remove" -> Absent]
    BY DEF TakeTurn
  <2>4. \A p \in Path : (CASE w[p] = "keep" -> disk[p] [] w[p] = "write" -> turns + 1 [] w[p] = "remove" -> Absent) \in Content
    BY <2>1, <2>2, Contents
  <2> QED BY <2>3, <2>4 DEF DiskOK
<1>6. pre' \in [Turn -> [Path -> Content]]
  BY <1>2 DEF TakeTurn, Types, PastOK, DiskOK
<1>7. [p \in Path |-> IF w[p] = "keep" THEN None ELSE disk'[p]] \in [Path -> Content]
  BY <1>5, Contents DEF DiskOK
<1>8. post' \in [Turn -> [Path -> Content]]
  BY <1>2, <1>7 DEF TakeTurn, Types, PastOK
<1>9. PastOK'
  BY <1>2, <1>6, <1>8 DEF PastOK, Turn
<1>10. undo' = None
  BY DEF TakeTurn
<1>11. ManOK'
  BY <1>1, <1>10 DEF ManOK, Types
<1> QED BY <1>1, <1>2, <1>3, <1>4, <1>5, <1>6, <1>7, <1>8, <1>9, <1>10, <1>11, Unchanged DEF Types

LEMMA RewindDoes ==
  ASSUME Types, Placed, NEW k \in Turn, NEW code \in BOOLEAN, NEW chat \in BOOLEAN, Rewind(k, code, chat)
  PROVE  /\ Types'
         /\ UNCHANGED <<disk, aside, talk, marks, pre, post, turns, undo, faults>>
         /\ proc.at = "idle" /\ (Unfinished = {} \/ "carryon" \in Faults)
         /\ marks[k] # None /\ (chat => k <= Len(talk) + 1)
         /\ /\ NewTx \in Tx /\ Others(NewTx) /\ man'[NewTx].state = "none"
            /\ man'[NewTx].kind = "rewind"
            /\ man'[NewTx].parent = None /\ man'[NewTx].cut = k
            /\ man'[NewTx].targets \in SUBSET Path /\ man'[NewTx].out = {} /\ man'[NewTx].fwd = disk
            /\ man'[NewTx].talk = talk /\ man'[NewTx].marks = marks /\ man'[NewTx].chat = chat
            /\ proc'.at = "record" /\ proc'.tx = NewTx /\ proc'.err = proc.err /\ ProcOK'
            /\ ReadyOK' /\ man' \in [Tx -> Manifest]
<1>1. UNCHANGED <<disk, aside, talk, marks, pre, post, turns, undo, faults>>
  BY DEF Rewind, OpenRewind, Open, files, chats, past
<1>2. proc.at = "idle" /\ (Unfinished = {} \/ "carryon" \in Faults)
  BY DEF Rewind, Free, At
<1>3. marks[k] # None /\ (chat => k <= Len(talk) + 1)
  BY DEF Rewind
<1>4. /\ NewTx \in Tx /\ Others(NewTx) /\ man'[NewTx].state = "none" /\ man'[NewTx].kind = "rewind"
      /\ man'[NewTx].parent = None /\ man'[NewTx].cut = k
      /\ man'[NewTx].targets \in SUBSET Path /\ man'[NewTx].out = {} /\ man'[NewTx].fwd = disk
      /\ man'[NewTx].talk = talk /\ man'[NewTx].marks = marks /\ man'[NewTx].chat = chat
      /\ proc'.at = "record" /\ proc'.tx = NewTx /\ proc'.err = proc.err /\ ProcOK' /\ ReadyOK'
      /\ man' \in [Tx -> Manifest]
  <2> DEFINE T == IF code THEN Targets(k) ELSE {}
  <2>1. T \in SUBSET Path /\ \A p \in T : Touched(k, p) # {}
    BY DEF Targets
  <2>2. OpenRewind("rewind", chat, k, T) /\ "rewind" \in Kind
    BY DEF Rewind, Kind
  <2> HIDE DEF T
  <2>3. Opened("rewind", chat, k, T)
    BY <2>1, <2>2, OpenRewindDoes
  <2> QED BY <2>1, <2>3 DEF Opened
<1>5. ManOK'
  BY <1>1, <1>4 DEF ManOK, Types
<1> QED BY <1>1, <1>2, <1>3, <1>4, <1>5, Unchanged DEF Types

LEMMA RevertFileDoes ==
  ASSUME Types, Placed, NEW p \in Path, RevertFile(p)
  PROVE  /\ Types'
         /\ UNCHANGED <<disk, aside, talk, marks, pre, post, turns, undo, faults>>
         /\ proc.at = "idle" /\ (Unfinished = {} \/ "carryon" \in Faults)
         /\ /\ NewTx \in Tx /\ Others(NewTx) /\ man'[NewTx].state = "none"
            /\ man'[NewTx].kind = "revert"
            /\ man'[NewTx].parent = None /\ man'[NewTx].cut = 1
            /\ man'[NewTx].targets \in SUBSET Path /\ man'[NewTx].out = {} /\ man'[NewTx].fwd = disk
            /\ man'[NewTx].talk = talk /\ man'[NewTx].marks = marks /\ man'[NewTx].chat = FALSE
            /\ proc'.at = "record" /\ proc'.tx = NewTx /\ proc'.err = proc.err /\ ProcOK'
            /\ ReadyOK' /\ man' \in [Tx -> Manifest]
<1>1. UNCHANGED <<disk, aside, talk, marks, pre, post, turns, undo, faults>>
  BY DEF RevertFile, OpenRewind, Open, files, chats, past
<1>2. proc.at = "idle" /\ (Unfinished = {} \/ "carryon" \in Faults)
  BY DEF RevertFile, Free, At
<1>3. /\ NewTx \in Tx /\ Others(NewTx) /\ man'[NewTx].state = "none" /\ man'[NewTx].kind = "revert"
      /\ man'[NewTx].parent = None /\ man'[NewTx].cut = 1
      /\ man'[NewTx].targets \in SUBSET Path /\ man'[NewTx].out = {} /\ man'[NewTx].fwd = disk
      /\ man'[NewTx].talk = talk /\ man'[NewTx].marks = marks /\ man'[NewTx].chat = FALSE
      /\ proc'.at = "record" /\ proc'.tx = NewTx /\ proc'.err = proc.err /\ ProcOK' /\ ReadyOK'
      /\ man' \in [Tx -> Manifest]
  <2>1. {p} \in SUBSET Path /\ 1 \in Turn /\ \A q \in {p} : Touched(1, q) # {}
    BY DEF RevertFile, Targets, Turn
  <2>2. OpenRewind("revert", FALSE, 1, {p}) /\ "revert" \in Kind /\ FALSE \in BOOLEAN
    BY DEF RevertFile, Kind
  <2>3. Opened("revert", FALSE, 1, {p})
    BY <2>1, <2>2, OpenRewindDoes
  <2> QED BY <2>1, <2>3 DEF Opened
<1>4. ManOK'
  BY <1>1, <1>3 DEF ManOK, Types
<1> QED BY <1>1, <1>2, <1>3, <1>4, Unchanged DEF Types

LEMMA UndoRewindDoes ==
  ASSUME Types, Placed, UndoRewind
  PROVE  /\ Types'
         /\ UNCHANGED <<disk, aside, talk, marks, pre, post, turns, undo, faults>>
         /\ proc.at = "idle" /\ (Unfinished = {} \/ "carryon" \in Faults)
         /\ undo \in Tx /\ (talk = NewTalk(undo) \/ "stale" \in Faults)
         /\ \A p \in man[undo].targets : disk[p] = man[undo].res[p]
         /\ /\ NewTx \in Tx /\ Others(NewTx) /\ man'[NewTx].state = "none"
            /\ man'[NewTx].kind = "undo"
            /\ man'[NewTx].parent = undo /\ man'[NewTx].cut = man[undo].cut
            /\ man'[NewTx].targets = man[undo].targets /\ man'[NewTx].out = {}
            /\ man'[NewTx].fwd = man[undo].res
            /\ man'[NewTx].talk = man[undo].talk /\ man'[NewTx].marks = man[undo].marks
            /\ man'[NewTx].chat = man[undo].chat
            /\ man'[NewTx].res = man[undo].fwd
            /\ proc'.at = "record" /\ proc'.tx = NewTx /\ proc'.err = proc.err /\ ProcOK'
            /\ ReadyOK' /\ man' \in [Tx -> Manifest]
<1>1. UNCHANGED <<disk, aside, talk, marks, pre, post, turns, undo, faults>>
  BY DEF UndoRewind, Open, files, chats, past
<1>2. proc.at = "idle" /\ (Unfinished = {} \/ "carryon" \in Faults)
  BY DEF UndoRewind, Free, At
<1>3. undo \in Tx /\ (talk = NewTalk(undo) \/ "stale" \in Faults)
  BY DEF UndoRewind, Types, ManOK
<1>4. \A p \in man[undo].targets : disk[p] = man[undo].res[p]
  BY DEF UndoRewind
<1>5. /\ NewTx \in Tx /\ Others(NewTx) /\ man'[NewTx].state = "none" /\ man'[NewTx].kind = "undo"
      /\ man'[NewTx].parent = undo /\ man'[NewTx].cut = man[undo].cut
      /\ man'[NewTx].targets = man[undo].targets /\ man'[NewTx].out = {}
      /\ man'[NewTx].fwd = man[undo].res
      /\ man'[NewTx].talk = man[undo].talk /\ man'[NewTx].marks = man[undo].marks
      /\ man'[NewTx].chat = man[undo].chat
      /\ man'[NewTx].res = man[undo].fwd
      /\ proc'.at = "record" /\ proc'.tx = NewTx /\ proc'.err = proc.err /\ ProcOK' /\ ReadyOK'
      /\ man' \in [Tx -> Manifest]
  <2> DEFINE last == man[undo]
             new == UndoOf(last, undo)
  <2>1. last \in Manifest
    BY <1>3, ManifestTypes DEF Types
  <2>2. Open(new, {})
    BY DEF UndoRewind, UndoOf
  <2>a. undo \in Tx
    BY <1>3
  <2> HIDE DEF last
  <2>b. new = UndoOf(last, undo)
    OBVIOUS
  <2> HIDE DEF new
  <2>3. /\ new \in Manifest /\ new.state = "none" /\ new.kind = "undo" /\ new.parent = undo
        /\ new.chat = last.chat
        /\ new.cut = last.cut /\ new.targets = last.targets /\ new.out = {}
        /\ new.res = last.fwd /\ new.fwd = last.res
        /\ new.talk = last.talk /\ new.marks = last.marks
    BY <2>a, <2>1, <2>b, UndoManifest
  <2> QED BY <2>2, <2>3, OpenDoes DEF Types, last
<1>6. ManOK'
  BY <1>1, <1>5 DEF ManOK, Types
<1> QED BY <1>1, <1>2, <1>3, <1>4, <1>5, <1>6, Unchanged DEF Types

-----------------------------------------------------------------------------
\* What the manifests, the backups and lastUndo say, whatever else happens.

\* The manifest agrees with the step that the process is at.
StateFits ==
  /\ proc.at = "record" => m.state = "none"
  /\ proc.at \in {"stage", "start"} => m.state = "prepared"
  /\ proc.at \in Moving \cup Chatting \cup {"mend"} => m.state = "committing"
  /\ proc.at \in Returning => m.state \in {"prepared", "committing"}
  /\ proc.at = "retire" => m.state = "committed" /\ m.kind = "undo"
  /\ proc.at \in Opening => m.out = {}

\* Transactions are numbered in the order in which they were opened; only the one
\* being recorded exists in memory alone.
Numbered ==
  /\ \E k \in 0..MaxTx : /\ \A t \in Tx : man[t] # NoManifest <=> t <= k
                         /\ At("record") => proc.tx = k
  /\ \A t \in Tx : man[t].state = "none" /\ man[t] # NoManifest => At("record") /\ t = proc.tx

\* lastUndo is a committed rewind that no undo has committed against, and an undo
\* has such a rewind for its parent.
UndoFits ==
  /\ undo # None => man[undo].state = "committed" /\ man[undo].kind # "undo"
  /\ \A t \in Tx : man[t].kind = "undo" =>
       man[t].parent \in Tx /\ man[man[t].parent].state \in {"committed", "undone"} /\ man[man[t].parent].kind # "undo"
  /\ \A t \in Tx : man[t].kind = "undo" /\ man[t].state = "committed" /\ undo = man[t].parent =>
       At("retire") /\ proc.tx = t

\* A backup exists only for a file that the transaction published, and not yet when
\* that file is about to be set aside.
AsideFits ==
  /\ \A t \in Tx, p \in Path : aside[t][p] # Absent => p \in man[t].out
  /\ proc.at = "move" => aside[proc.tx][proc.path] = Absent

Records == StateFits /\ Numbered /\ UndoFits /\ AsideFits

\* A part whose variables do not change still holds.
LEMMA Frames ==
  /\ Placed /\ UNCHANGED <<proc, man>> => Placed'
  /\ StateFits /\ UNCHANGED <<proc, man>> => StateFits'
  /\ Numbered /\ UNCHANGED <<man, proc>> => Numbered'
  /\ UndoFits /\ UNCHANGED <<undo, man, proc>> => UndoFits'
  /\ AsideFits /\ UNCHANGED <<aside, man, proc>> => AsideFits'
BY DEF Placed, StateFits, Numbered, UndoFits, AsideFits, m, Opening, Moving, Chatting,
       Returning, Live, At

LEMMA NoneIsNoTx == None \notin Tx
BY DEF None, Tx

LEMMA NoMarks == \A i \in Turn : NoManifest.marks[i] = None
BY DEF NoManifest

LEMMA AtPath ==
  ASSUME Types, Placed
  PROVE  /\ Live => proc.tx \in Tx /\ m \in Manifest /\ m.targets \in SUBSET Path /\ m.out \in SUBSET Path
         /\ proc.at \in {"move", "place", "giveback", "clear", "putback"} => proc.path \in Path /\ Live
<1>1. Live => proc.tx \in Tx /\ m \in Manifest /\ m.targets \in SUBSET Path /\ m.out \in SUBSET Path
  BY ManifestTypes DEF Types, Placed, m
<1>2. proc.at \in {"move", "place", "giveback", "clear", "putback"} => Live
  BY DEF Live, Moving, Returning
<1> QED BY <1>1, <1>2 DEF Placed

\* The next transaction has no manifest.
LEMMA NewIsFresh ==
  ASSUME Types, Numbered, proc.at # "record", NewTx \in Tx
  PROVE  man[NewTx] = NoManifest /\ \A t \in Tx : man[t] # NoManifest <=> t < NewTx
<1>1. PICK k \in 0..MaxTx : \A t \in Tx : man[t] # NoManifest <=> t <= k
  BY DEF Numbered
<1> DEFINE S == {t \in Tx : man[t] # NoManifest}
<1>2. S = 1..k
  BY <1>1 DEF Tx
<1>3. Cardinality(1..k) = k
  BY <1>1, FS_Interval
<1>a. NewTx = 1 + Cardinality(S)
  BY DEF NewTx
<1> HIDE DEF S
<1>4. NewTx = k + 1
  BY <1>1, <1>2, <1>3, <1>a
<1> QED BY <1>1, <1>4 DEF Tx

\* An open transaction leaves the records in order.
LEMMA OpenFitsUndo ==
  ASSUME Types, Numbered, UndoFits, proc.at = "idle", NewTx \in Tx, Others(NewTx), man'[NewTx].state = "none",
         man'[NewTx].kind = "undo" => undo \in Tx /\ man'[NewTx].parent = undo, undo' = undo
  PROVE  UndoFits'
<1> DEFINE n == NewTx
<1>1. man[n].state = "none" /\ n \in Tx
  BY NewIsFresh, NoManifestFields
<1>2. /\ man'[n].state = "none" /\ \A t \in Tx : t # n => man'[t] = man[t]
      /\ man'[n].kind = "undo" => undo \in Tx /\ man'[n].parent = undo
  BY DEF Others
<1> HIDE DEF n
<1>3. undo # None => undo \in Tx /\ undo # n
  BY <1>1 DEF UndoFits, Types, ManOK
<1>4. undo' # None => man'[undo'].state = "committed" /\ man'[undo'].kind # "undo"
  BY <1>2, <1>3 DEF UndoFits
<1>5. ASSUME NEW t \in Tx, man'[t].kind = "undo"
      PROVE  /\ man'[t].parent \in Tx /\ man'[man'[t].parent].state \in {"committed", "undone"}
             /\ man'[man'[t].parent].kind # "undo"
  <2>1. CASE t = n
    BY <1>2, <1>3, <1>5, <2>1, NoneIsNoTx DEF UndoFits
  <2>2. CASE t # n
    <3>1. man'[t] = man[t] /\ man[t].parent # n
      BY <1>1, <1>2, <1>5, <2>2 DEF UndoFits
    <3> QED BY <1>2, <1>5, <3>1 DEF UndoFits
  <2> QED BY <2>1, <2>2
<1>6. ASSUME NEW t \in Tx, man'[t].kind = "undo", man'[t].state = "committed", undo' = man'[t].parent PROVE FALSE
  <2>1. man'[t] = man[t]
    BY <1>2, <1>6
  <2> QED BY <1>6, <2>1 DEF UndoFits, At
<1> QED BY <1>4, <1>5, <1>6 DEF UndoFits

LEMMA OpenNumbers ==
  ASSUME Types, Numbered, proc.at = "idle", NewTx \in Tx, Others(NewTx), man'[NewTx] # NoManifest,
         proc'.at = "record", proc'.tx = NewTx
  PROVE  Numbered'
<1>1. man[NewTx] = NoManifest /\ \A t \in Tx : man[t] # NoManifest <=> t < NewTx
  BY NewIsFresh
<1> DEFINE n == NewTx
<1>2. n \in Tx /\ proc'.tx = n /\ \A t \in Tx : t # n => man'[t] = man[t]
  BY DEF Others
<1>3. man'[n] # NoManifest /\ \A t \in Tx : man[t] # NoManifest <=> t < n
  BY <1>1
<1> HIDE DEF n
<1>4. n \in 0..MaxTx /\ \A t \in Tx : man'[t] # NoManifest <=> t <= n
  BY <1>2, <1>3 DEF Tx
<1>5. \A t \in Tx : man'[t].state = "none" /\ man'[t] # NoManifest => t = n
  BY <1>2 DEF Numbered, At
<1> QED BY <1>2, <1>4, <1>5 DEF Numbered, At

-----------------------------------------------------------------------------
\* The inductive steps, one case per action.

\* Every step keeps the types.
LEMMA TypesStep ==
  ASSUME Types, Placed, [Next]_vars
  PROVE  Types'
<1>1. CASE Record
  BY <1>1, RecordDoes
<1>2. CASE RecordFails
  BY <1>2, RecordFailsDoes
<1>3. CASE Stage
  BY <1>3, StageDoes
<1>4. CASE ForwardFails
  BY <1>4, ForwardFailsDoes
<1>5. CASE Start
  BY <1>5, StartDoes
<1>6. CASE Intend
  BY <1>6, IntendDoes
<1>7. CASE SetAside
  BY <1>7, SetAsideDoes
<1>8. CASE Place
  BY <1>8, PlaceDoes
<1>9. CASE FilesDone
  BY <1>9, FilesDoneDoes
<1>10. CASE MoveTalk
  BY <1>10, MoveTalkDoes
<1>11. CASE MoveMarks
  BY <1>11, MoveMarksDoes
<1>12. CASE Seal
  BY <1>12, SealDoes
<1>13. CASE Retire
  BY <1>13, RetireDoes
<1>14. CASE Fail
  BY <1>14, FailDoes
<1>15. CASE PlaceFails
  BY <1>15, PlaceFailsDoes
<1>16. CASE FailLate
  BY <1>16, FailLateDoes
<1>17. CASE Mend
  BY <1>17, MendDoes
<1>18. CASE MendFails
  BY <1>18, MendFailsDoes
<1>19. CASE KeepFile
  BY <1>19, KeepFileDoes
<1>20. CASE LookAtFile
  BY <1>20, LookAtFileDoes
<1>21. CASE GiveBack
  BY <1>21, GiveBackDoes
<1>22. CASE ClearFile
  BY <1>22, ClearFileDoes
<1>23. CASE FinishPutBack
  BY <1>23, FinishPutBackDoes
<1>24. CASE CompensateFails
  BY <1>24, CompensateFailsDoes
<1>25. CASE Finish
  BY <1>25, FinishDoes
<1>26. CASE Recover
  BY <1>26, RecoverDoes
<1>27. CASE Recovered
  BY <1>27, RecoveredDoes
<1>28. ASSUME NEW w \in Works, TakeTurn(w) PROVE Types'
  BY <1>28, TakeTurnDoes
<1>29. ASSUME NEW p \in Path, Edit(p) PROVE Types'
  BY <1>29, EditDoes
<1>30. ASSUME NEW p \in Path, RevertFile(p) PROVE Types'
  BY <1>30, RevertFileDoes
<1>31. ASSUME NEW k \in Turn, NEW code \in BOOLEAN, NEW chat \in BOOLEAN, Rewind(k, code, chat) PROVE Types'
  BY <1>31, RewindDoes
<1>32. CASE UndoRewind
  BY <1>32, UndoRewindDoes
<1>33. CASE Crash
  BY <1>33, CrashDoes
<1>34. CASE Bind
  BY <1>34, BindDoes
<1>35. CASE UNCHANGED vars
  BY <1>35, Unchanged DEF vars, files, chats, past, Types
<1> QED BY <1>1, <1>2, <1>3, <1>4, <1>5, <1>6, <1>7, <1>8, <1>9, <1>10, <1>11, <1>12, <1>13,
           <1>14, <1>15, <1>16, <1>17, <1>18, <1>19, <1>20, <1>21, <1>22, <1>23, <1>24,
           <1>25, <1>26, <1>27, <1>28, <1>29, <1>30, <1>31, <1>32, <1>33, <1>34, <1>35
       DEF Next, Step

\* Every step keeps the process in its place.
LEMMA PlacedStep ==
  ASSUME Types, Placed, [Next]_vars
  PROVE  Placed'
<1>1. CASE Record
  BY <1>1, RecordDoes, NoManifestFields
  DEF Placed, m, Opening, Moving, Chatting, Returning, Live, SetsState, Becomes, Same,
      Others
<1>2. CASE RecordFails
  BY <1>2, RecordFailsDoes, NoManifestFields
  DEF Placed, m, Opening, Moving, Chatting, Returning, Live, Drops, Idles, Others
<1>3. CASE Stage
  BY <1>3, StageDoes, NoManifestFields
  DEF Placed, m, Opening, Moving, Chatting, Returning, Live, Becomes
<1>4. CASE ForwardFails
  BY <1>4, ForwardFailsDoes, NoManifestFields
  DEF Placed, m, Opening, Moving, Chatting, Returning, Live, Idles
<1>5. CASE Start
  BY <1>5, StartDoes, NoManifestFields
  DEF Placed, m, Opening, Moving, Chatting, Returning, Live, SetsState, Becomes, Same,
      Others
<1>6. CASE Intend
  BY <1>6, IntendDoes, NoManifestFields
  DEF Placed, m, Opening, Moving, Chatting, Returning, Live, AddsOut, Same, Others
<1>7. CASE SetAside
  BY <1>7, SetAsideDoes, NoManifestFields
  DEF Placed, m, Opening, Moving, Chatting, Returning, Live, File, Aside, Becomes
<1>8. CASE Place
  BY <1>8, PlaceDoes, NoManifestFields
  DEF Placed, m, Opening, Moving, Chatting, Returning, Live, File, Becomes
<1>9. CASE FilesDone
  BY <1>9, FilesDoneDoes, NoManifestFields
  DEF Placed, m, Opening, Moving, Chatting, Returning, Live, Becomes, MovesTalk
<1>10. CASE MoveTalk
  BY <1>10, MoveTalkDoes, NoManifestFields
  DEF Placed, m, Opening, Moving, Chatting, Returning, Live, Becomes
<1>11. CASE MoveMarks
  BY <1>11, MoveMarksDoes, NoManifestFields
  DEF Placed, m, Opening, Moving, Chatting, Returning, Live, Becomes
<1>12. CASE Seal
  BY <1>12, SealDoes, NoManifestFields
  DEF Placed, m, Opening, Moving, Chatting, Returning, Live, SetsState, Becomes, Idles,
      Same, Others
<1>13. CASE Retire
  BY <1>13, RetireDoes, NoManifestFields
  DEF Placed, m, Opening, Moving, Chatting, Returning, Live, SetsState, Idles, Same, Others
<1>14. CASE Fail
  BY <1>14, FailDoes, NoManifestFields
  DEF Placed, m, Opening, Moving, Chatting, Returning, Live, Compensates
<1>15. CASE PlaceFails
  BY <1>15, PlaceFailsDoes, NoManifestFields
  DEF Placed, m, Opening, Moving, Chatting, Returning, Live, File, Aside, Compensates
<1>16. CASE FailLate
  BY <1>16, FailLateDoes, NoManifestFields
  DEF Placed, m, Opening, Moving, Chatting, Returning, Live, Becomes
<1>17. CASE Mend
  BY <1>17, MendDoes, NoManifestFields
  DEF Placed, m, Opening, Moving, Chatting, Returning, Live, Compensates
<1>18. CASE MendFails
  BY <1>18, MendFailsDoes, NoManifestFields
  DEF Placed, m, Opening, Moving, Chatting, Returning, Live, Becomes, Compensates
<1>19. CASE KeepFile
  BY <1>19, KeepFileDoes, NoManifestFields
  DEF Placed, m, Opening, Moving, Chatting, Returning, Live, Passes
<1>20. CASE LookAtFile
  BY <1>20, LookAtFileDoes DEF Placed, m, Opening, Moving, Chatting, Returning, Live
<1>21. CASE GiveBack
  BY <1>21, GiveBackDoes DEF Placed, m, Opening, Moving, Chatting, Returning, Live, Passes
<1>22. CASE ClearFile
  BY <1>22, ClearFileDoes DEF Placed, m, Opening, Moving, Chatting, Returning, Live, Becomes, Passes
<1>23. CASE FinishPutBack
  BY <1>23, FinishPutBackDoes, NoManifestFields
  DEF Placed, m, Opening, Moving, Chatting, Returning, Live, File, Aside, Passes
<1>24. CASE CompensateFails
  BY <1>24, CompensateFailsDoes, NoManifestFields
  DEF Placed, m, Opening, Moving, Chatting, Returning, Live, Passes
<1>25. CASE Finish
  BY <1>25, FinishDoes, NoManifestFields
  DEF Placed, m, Opening, Moving, Chatting, Returning, Live, SetsState, Same, Others
<1>26. CASE Recover
  BY <1>26, RecoverDoes, NoManifestFields
  DEF Placed, m, Opening, Moving, Chatting, Returning, Live, SetsState, Same, Others
<1>27. CASE Recovered
  BY <1>27, RecoveredDoes, NoManifestFields
  DEF Placed, m, Opening, Moving, Chatting, Returning, Live, Idles
<1>28. ASSUME NEW w \in Works, TakeTurn(w) PROVE Placed'
  BY <1>28, TakeTurnDoes, Frames
<1>29. ASSUME NEW p \in Path, Edit(p) PROVE Placed'
  BY <1>29, EditDoes, Frames
<1>30. ASSUME NEW p \in Path, RevertFile(p) PROVE Placed'
  BY <1>30, RevertFileDoes, NoManifestFields
  DEF Placed, m, Opening, Moving, Chatting, Returning, Live, Others
<1>31. ASSUME NEW k \in Turn, NEW code \in BOOLEAN, NEW chat \in BOOLEAN, Rewind(k, code, chat) PROVE Placed'
  BY <1>31, RewindDoes, NoManifestFields
  DEF Placed, m, Opening, Moving, Chatting, Returning, Live, Others
<1>32. CASE UndoRewind
  BY <1>32, UndoRewindDoes, NoManifestFields
  DEF Placed, m, Opening, Moving, Chatting, Returning, Live, Others
<1>33. CASE Crash
  BY <1>33, CrashDoes, NoManifestFields DEF Placed, m, Opening, Moving, Chatting, Returning, Live
<1>34. CASE Bind
  BY <1>34, BindDoes, NoManifestFields DEF Placed, m, Opening, Moving, Chatting, Returning, Live
<1>35. CASE UNCHANGED vars
  BY <1>35, Frames DEF vars, files, chats, past
<1> QED BY <1>1, <1>2, <1>3, <1>4, <1>5, <1>6, <1>7, <1>8, <1>9, <1>10, <1>11, <1>12, <1>13,
           <1>14, <1>15, <1>16, <1>17, <1>18, <1>19, <1>20, <1>21, <1>22, <1>23, <1>24,
           <1>25, <1>26, <1>27, <1>28, <1>29, <1>30, <1>31, <1>32, <1>33, <1>34, <1>35
       DEF Next, Step

\* Every step keeps the records in order.
LEMMA RecordsStep ==
  ASSUME Types, Placed, Records, [Next]_vars
  PROVE  Records'
<1> USE DEF Records
<1>1. CASE Record
  <2>1. StateFits'
    BY <1>1, RecordDoes, NoManifestFields
    DEF StateFits, m, Opening, Moving, Chatting, Returning, Live, SetsState, Becomes, Same,
        Others
  <2>2. Numbered'
    BY <1>1, RecordDoes, NoManifestFields DEF Numbered, At, SetsState, Becomes, Same, Others
  <2>3. UndoFits'
    BY <1>1, RecordDoes, NoManifestFields, NoneIsNoTx
    DEF UndoFits, At, m, SetsState, Becomes, Same, Others, Placed, StateFits, Opening,
        Moving, Chatting, Returning, Live, Types, ManOK
  <2>4. AsideFits'
    BY <1>1, RecordDoes, NoManifestFields DEF AsideFits, m, SetsState, Becomes, Same, Others
  <2> QED BY <2>1, <2>2, <2>3, <2>4 DEF Records
<1>2. CASE RecordFails
  <2>1. StateFits'
    BY <1>2, RecordFailsDoes, NoManifestFields
    DEF StateFits, m, Opening, Moving, Chatting, Returning, Live, Drops, Idles, Others
  <2>2. Numbered'
    <3>1. PICK k \in 0..MaxTx : /\ \A t \in Tx : man[t] # NoManifest <=> t <= k
                                /\ proc.tx = k
      BY <1>2, RecordFailsDoes DEF Numbered, At
    <3>2. proc.tx \in Tx /\ k - 1 \in 0..MaxTx
      BY <1>2, <3>1, RecordFailsDoes DEF Placed, Live, Opening, Tx
    <3>3. \A t \in Tx : man'[t] # NoManifest <=> t <= k - 1
      BY <1>2, <3>1, <3>2, RecordFailsDoes DEF Drops, Others, Tx
    <3>4. \A t \in Tx : man'[t].state # "none" \/ man'[t] = NoManifest
      BY <1>2, <3>2, RecordFailsDoes DEF Drops, Others, Numbered
    <3> QED BY <1>2, <3>2, <3>3, <3>4, RecordFailsDoes DEF Numbered, Idles, At
  <2>3. UndoFits'
    BY <1>2, RecordFailsDoes, NoManifestFields, NoneIsNoTx
    DEF UndoFits, At, m, Drops, Idles, Others, Placed, StateFits, Opening, Moving, Chatting,
        Returning, Live, Types, ManOK
  <2>4. AsideFits'
    BY <1>2, RecordFailsDoes, NoManifestFields
    DEF AsideFits, m, Drops, Idles, Others, Placed, StateFits, Opening, Moving, Chatting,
        Returning, Live, Types, ManOK
  <2> QED BY <2>1, <2>2, <2>3, <2>4 DEF Records
<1>3. CASE Stage
  <2>1. StateFits'
    BY <1>3, StageDoes, NoManifestFields
    DEF StateFits, m, Opening, Moving, Chatting, Returning, Live, Becomes
  <2>2. Numbered'
    BY <1>3, StageDoes, NoManifestFields DEF Numbered, At, Becomes
  <2>3. UndoFits'
    BY <1>3, StageDoes, NoManifestFields, NoneIsNoTx DEF UndoFits, At, m, Becomes
  <2>4. AsideFits'
    BY <1>3, StageDoes, NoManifestFields DEF AsideFits, m, Becomes
  <2> QED BY <2>1, <2>2, <2>3, <2>4 DEF Records
<1>4. CASE ForwardFails
  <2>1. StateFits'
    BY <1>4, ForwardFailsDoes, NoManifestFields
    DEF StateFits, m, Opening, Moving, Chatting, Returning, Live, Idles
  <2>2. Numbered'
    BY <1>4, ForwardFailsDoes, NoManifestFields DEF Numbered, At, Idles
  <2>3. UndoFits'
    BY <1>4, ForwardFailsDoes, NoManifestFields, NoneIsNoTx DEF UndoFits, At, m, Idles
  <2>4. AsideFits'
    BY <1>4, ForwardFailsDoes, NoManifestFields DEF AsideFits, m, Idles
  <2> QED BY <2>1, <2>2, <2>3, <2>4 DEF Records
<1>5. CASE Start
  <2>1. StateFits'
    BY <1>5, StartDoes, NoManifestFields
    DEF StateFits, m, Opening, Moving, Chatting, Returning, Live, SetsState, Becomes, Same,
        Others
  <2>2. Numbered'
    BY <1>5, StartDoes, NoManifestFields
    DEF Numbered, At, SetsState, Becomes, Same, Others, Placed, StateFits, Opening, Moving,
        Chatting, Returning, Live, m, Types, ManOK
  <2>3. UndoFits'
    BY <1>5, StartDoes, NoManifestFields, NoneIsNoTx
    DEF UndoFits, At, m, SetsState, Becomes, Same, Others, Placed, StateFits, Opening,
        Moving, Chatting, Returning, Live, Types, ManOK
  <2>4. AsideFits'
    BY <1>5, StartDoes, NoManifestFields DEF AsideFits, m, SetsState, Becomes, Same, Others
  <2> QED BY <2>1, <2>2, <2>3, <2>4 DEF Records
<1>6. CASE Intend
  <2>1. StateFits'
    BY <1>6, IntendDoes, NoManifestFields
    DEF StateFits, m, Opening, Moving, Chatting, Returning, Live, AddsOut, Same, Others
  <2>2. Numbered'
    BY <1>6, IntendDoes, NoManifestFields
    DEF Numbered, At, AddsOut, Same, Others, Placed, Opening, Moving, Chatting, Returning,
        Live, m
  <2>3. UndoFits'
    BY <1>6, IntendDoes, NoManifestFields, NoneIsNoTx
    DEF UndoFits, At, m, AddsOut, Same, Others, Placed, StateFits, Opening, Moving,
        Chatting, Returning, Live, Types, ManOK
  <2>4. AsideFits'
    <3>1. proc.tx \in Tx /\ proc'.path \in Path /\ proc'.path \notin man[proc.tx].out
      BY <1>6, IntendDoes, AtPath DEF Live, Moving, m
    <3>2. aside[proc.tx][proc'.path] = Absent
      BY <3>1 DEF AsideFits
    <3>3. \A t \in Tx : man[t].out \subseteq man'[t].out
      BY <1>6, <3>1, IntendDoes DEF AddsOut, Others
    <3> QED BY <1>6, <3>2, <3>3, IntendDoes DEF AsideFits
  <2> QED BY <2>1, <2>2, <2>3, <2>4 DEF Records
<1>7. CASE SetAside
  <2>1. StateFits'
    BY <1>7, SetAsideDoes, NoManifestFields
    DEF StateFits, m, Opening, Moving, Chatting, Returning, Live, File, Aside, Becomes
  <2>2. Numbered'
    BY <1>7, SetAsideDoes, NoManifestFields DEF Numbered, At, File, Aside, Becomes
  <2>3. UndoFits'
    BY <1>7, SetAsideDoes, NoManifestFields, NoneIsNoTx DEF UndoFits, At, m, File, Aside, Becomes
  <2>4. AsideFits'
    <3>1. proc.tx \in Tx /\ proc.path \in Path /\ proc.path \in man[proc.tx].out
      BY <1>7, SetAsideDoes, AtPath DEF Placed, m
    <3>2. /\ proc'.path = proc.path /\ proc'.at \in {"next", "place"} /\ disk'[proc.path] = Absent
          /\ \A t \in Tx, p \in Path :
               aside'[t][p] # Absent => aside[t][p] # Absent \/ (t = proc.tx /\ p = proc.path)
      BY <1>7, <3>1, SetAsideDoes DEF File, Aside, Becomes
    <3> QED BY <1>7, <3>1, <3>2, SetAsideDoes DEF AsideFits
  <2> QED BY <2>1, <2>2, <2>3, <2>4 DEF Records
<1>8. CASE Place
  <2>1. StateFits'
    BY <1>8, PlaceDoes, NoManifestFields
    DEF StateFits, m, Opening, Moving, Chatting, Returning, Live, File, Becomes
  <2>2. Numbered'
    BY <1>8, PlaceDoes, NoManifestFields DEF Numbered, At, File, Becomes
  <2>3. UndoFits'
    BY <1>8, PlaceDoes, NoManifestFields, NoneIsNoTx DEF UndoFits, At, m, File, Becomes
  <2>4. AsideFits'
    BY <1>8, PlaceDoes, NoManifestFields DEF AsideFits, m, File, Becomes
  <2> QED BY <2>1, <2>2, <2>3, <2>4 DEF Records
<1>9. CASE FilesDone
  <2>1. StateFits'
    BY <1>9, FilesDoneDoes, NoManifestFields
    DEF StateFits, m, Opening, Moving, Chatting, Returning, Live, Becomes, MovesTalk
  <2>2. Numbered'
    BY <1>9, FilesDoneDoes, NoManifestFields DEF Numbered, At, Becomes, MovesTalk
  <2>3. UndoFits'
    BY <1>9, FilesDoneDoes, NoManifestFields, NoneIsNoTx DEF UndoFits, At, m, Becomes, MovesTalk
  <2>4. AsideFits'
    BY <1>9, FilesDoneDoes, NoManifestFields DEF AsideFits, m, Becomes, MovesTalk
  <2> QED BY <2>1, <2>2, <2>3, <2>4 DEF Records
<1>10. CASE MoveTalk
  <2>1. StateFits'
    BY <1>10, MoveTalkDoes, NoManifestFields
    DEF StateFits, m, Opening, Moving, Chatting, Returning, Live, Becomes
  <2>2. Numbered'
    BY <1>10, MoveTalkDoes, NoManifestFields DEF Numbered, At, Becomes
  <2>3. UndoFits'
    BY <1>10, MoveTalkDoes, NoManifestFields, NoneIsNoTx DEF UndoFits, At, m, Becomes
  <2>4. AsideFits'
    BY <1>10, MoveTalkDoes, NoManifestFields DEF AsideFits, m, Becomes
  <2> QED BY <2>1, <2>2, <2>3, <2>4 DEF Records
<1>11. CASE MoveMarks
  <2>1. StateFits'
    BY <1>11, MoveMarksDoes, NoManifestFields
    DEF StateFits, m, Opening, Moving, Chatting, Returning, Live, Becomes
  <2>2. Numbered'
    BY <1>11, MoveMarksDoes, NoManifestFields DEF Numbered, At, Becomes
  <2>3. UndoFits'
    BY <1>11, MoveMarksDoes, NoManifestFields, NoneIsNoTx DEF UndoFits, At, m, Becomes
  <2>4. AsideFits'
    BY <1>11, MoveMarksDoes, NoManifestFields DEF AsideFits, m, Becomes
  <2> QED BY <2>1, <2>2, <2>3, <2>4 DEF Records
<1>12. CASE Seal
  <2>1. StateFits'
    BY <1>12, SealDoes, NoManifestFields
    DEF StateFits, m, Opening, Moving, Chatting, Returning, Live, SetsState, Becomes, Idles,
        Same, Others
  <2>2. Numbered'
    BY <1>12, SealDoes, NoManifestFields
    DEF Numbered, At, SetsState, Becomes, Idles, Same, Others, Placed, StateFits, Opening,
        Moving, Chatting, Returning, Live, m, Types, ManOK
  <2>3. UndoFits'
    BY <1>12, SealDoes, NoManifestFields, NoneIsNoTx
    DEF UndoFits, At, m, SetsState, Becomes, Idles, Same, Others, Placed, StateFits,
        Opening, Moving, Chatting, Returning, Live, Types, ManOK
  <2>4. AsideFits'
    BY <1>12, SealDoes, NoManifestFields DEF AsideFits, m, SetsState, Becomes, Idles, Same, Others
  <2> QED BY <2>1, <2>2, <2>3, <2>4 DEF Records
<1>13. CASE Retire
  <2>1. StateFits'
    BY <1>13, RetireDoes, NoManifestFields
    DEF StateFits, m, Opening, Moving, Chatting, Returning, Live, SetsState, Idles, Same,
        Others
  <2>2. Numbered'
    BY <1>13, RetireDoes, NoManifestFields
    DEF Numbered, At, SetsState, Idles, Same, Others, StateFits, UndoFits, AsideFits,
        Placed, m, Opening, Moving, Chatting, Returning, Live, Types, ManOK, DiskOK,
        AsideOK, ProcOK, ProcSet
  <2>3. UndoFits'
    BY <1>13, RetireDoes, NoManifestFields, NoneIsNoTx
    DEF UndoFits, At, m, SetsState, Idles, Same, Others, Placed, Opening, Moving, Chatting,
        Returning, Live
  <2>4. AsideFits'
    BY <1>13, RetireDoes, NoManifestFields DEF AsideFits, m, SetsState, Idles, Same, Others
  <2> QED BY <2>1, <2>2, <2>3, <2>4 DEF Records
<1>14. CASE Fail
  <2>1. StateFits'
    BY <1>14, FailDoes, NoManifestFields
    DEF StateFits, m, Opening, Moving, Chatting, Returning, Live, Compensates
  <2>2. Numbered'
    BY <1>14, FailDoes, NoManifestFields DEF Numbered, At, Compensates
  <2>3. UndoFits'
    BY <1>14, FailDoes, NoManifestFields, NoneIsNoTx DEF UndoFits, At, m, Compensates
  <2>4. AsideFits'
    BY <1>14, FailDoes, NoManifestFields DEF AsideFits, m, Compensates
  <2> QED BY <2>1, <2>2, <2>3, <2>4 DEF Records
<1>15. CASE PlaceFails
  <2>1. StateFits'
    BY <1>15, PlaceFailsDoes, NoManifestFields
    DEF StateFits, m, Opening, Moving, Chatting, Returning, Live, File, Aside, Compensates
  <2>2. Numbered'
    BY <1>15, PlaceFailsDoes, NoManifestFields DEF Numbered, At, File, Aside, Compensates
  <2>3. UndoFits'
    BY <1>15, PlaceFailsDoes, NoManifestFields, NoneIsNoTx
    DEF UndoFits, At, m, File, Aside, Compensates
  <2>4. AsideFits'
    BY <1>15, PlaceFailsDoes, NoManifestFields DEF AsideFits, m, File, Aside, Compensates
  <2> QED BY <2>1, <2>2, <2>3, <2>4 DEF Records
<1>16. CASE FailLate
  <2>1. StateFits'
    BY <1>16, FailLateDoes, NoManifestFields
    DEF StateFits, m, Opening, Moving, Chatting, Returning, Live, Becomes
  <2>2. Numbered'
    BY <1>16, FailLateDoes, NoManifestFields DEF Numbered, At, Becomes
  <2>3. UndoFits'
    BY <1>16, FailLateDoes, NoManifestFields, NoneIsNoTx DEF UndoFits, At, m, Becomes
  <2>4. AsideFits'
    BY <1>16, FailLateDoes, NoManifestFields DEF AsideFits, m, Becomes
  <2> QED BY <2>1, <2>2, <2>3, <2>4 DEF Records
<1>17. CASE Mend
  <2>1. StateFits'
    BY <1>17, MendDoes, NoManifestFields
    DEF StateFits, m, Opening, Moving, Chatting, Returning, Live, Compensates
  <2>2. Numbered'
    BY <1>17, MendDoes, NoManifestFields DEF Numbered, At, Compensates
  <2>3. UndoFits'
    BY <1>17, MendDoes, NoManifestFields, NoneIsNoTx DEF UndoFits, At, m, Compensates
  <2>4. AsideFits'
    BY <1>17, MendDoes, NoManifestFields DEF AsideFits, m, Compensates
  <2> QED BY <2>1, <2>2, <2>3, <2>4 DEF Records
<1>18. CASE MendFails
  <2>1. StateFits'
    BY <1>18, MendFailsDoes, NoManifestFields
    DEF StateFits, m, Opening, Moving, Chatting, Returning, Live, Becomes, Compensates
  <2>2. Numbered'
    BY <1>18, MendFailsDoes, NoManifestFields DEF Numbered, At, Becomes, Compensates
  <2>3. UndoFits'
    BY <1>18, MendFailsDoes, NoManifestFields, NoneIsNoTx DEF UndoFits, At, m, Becomes, Compensates
  <2>4. AsideFits'
    BY <1>18, MendFailsDoes, NoManifestFields DEF AsideFits, m, Becomes, Compensates
  <2> QED BY <2>1, <2>2, <2>3, <2>4 DEF Records
<1>19. CASE KeepFile
  <2>1. StateFits'
    BY <1>19, KeepFileDoes, NoManifestFields
    DEF StateFits, m, Opening, Moving, Chatting, Returning, Live, Passes
  <2>2. Numbered'
    BY <1>19, KeepFileDoes, NoManifestFields DEF Numbered, At, Passes
  <2>3. UndoFits'
    BY <1>19, KeepFileDoes, NoManifestFields, NoneIsNoTx DEF UndoFits, At, m, Passes
  <2>4. AsideFits'
    BY <1>19, KeepFileDoes, NoManifestFields DEF AsideFits, m, Passes
  <2> QED BY <2>1, <2>2, <2>3, <2>4 DEF Records
<1>20. CASE LookAtFile
  <2>1. StateFits'
    BY <1>20, LookAtFileDoes
    DEF StateFits, m, Opening, Moving, Chatting, Returning, Live
  <2>2. Numbered'
    BY <1>20, LookAtFileDoes DEF Numbered, At
  <2>3. UndoFits'
    BY <1>20, LookAtFileDoes, NoneIsNoTx DEF UndoFits, At, m
  <2>4. AsideFits'
    BY <1>20, LookAtFileDoes DEF AsideFits, m
  <2> QED BY <2>1, <2>2, <2>3, <2>4 DEF Records
<1>21. CASE GiveBack
  <2>1. StateFits'
    BY <1>21, GiveBackDoes
    DEF StateFits, m, Opening, Moving, Chatting, Returning, Live, Aside, Passes
  <2>2. Numbered'
    BY <1>21, GiveBackDoes DEF Numbered, At, Aside, Passes
  <2>3. UndoFits'
    BY <1>21, GiveBackDoes, NoneIsNoTx DEF UndoFits, At, m, Aside, Passes
  <2>4. AsideFits'
    BY <1>21, GiveBackDoes DEF AsideFits, m, Aside, Passes
  <2> QED BY <2>1, <2>2, <2>3, <2>4 DEF Records
<1>22. CASE ClearFile
  <2>1. StateFits'
    BY <1>22, ClearFileDoes
    DEF StateFits, m, Opening, Moving, Chatting, Returning, Live, Becomes, Passes
  <2>2. Numbered'
    BY <1>22, ClearFileDoes DEF Numbered, At, Becomes, Passes
  <2>3. UndoFits'
    BY <1>22, ClearFileDoes, NoneIsNoTx DEF UndoFits, At, m, Becomes, Passes
  <2>4. AsideFits'
    BY <1>22, ClearFileDoes DEF AsideFits, m, Becomes, Passes
  <2> QED BY <2>1, <2>2, <2>3, <2>4 DEF Records
<1>23. CASE FinishPutBack
  <2>1. StateFits'
    BY <1>23, FinishPutBackDoes, NoManifestFields
    DEF StateFits, m, Opening, Moving, Chatting, Returning, Live, File, Aside, Passes
  <2>2. Numbered'
    BY <1>23, FinishPutBackDoes, NoManifestFields DEF Numbered, At, File, Aside, Passes
  <2>3. UndoFits'
    BY <1>23, FinishPutBackDoes, NoManifestFields, NoneIsNoTx
    DEF UndoFits, At, m, File, Aside, Passes
  <2>4. AsideFits'
    BY <1>23, FinishPutBackDoes, NoManifestFields DEF AsideFits, m, File, Aside, Passes
  <2> QED BY <2>1, <2>2, <2>3, <2>4 DEF Records
<1>24. CASE CompensateFails
  <2>1. StateFits'
    BY <1>24, CompensateFailsDoes, NoManifestFields
    DEF StateFits, m, Opening, Moving, Chatting, Returning, Live, Passes
  <2>2. Numbered'
    BY <1>24, CompensateFailsDoes, NoManifestFields DEF Numbered, At, Passes, Returning
  <2>3. UndoFits'
    BY <1>24, CompensateFailsDoes, NoManifestFields, NoneIsNoTx
    DEF UndoFits, At, m, Passes, Returning
  <2>4. AsideFits'
    BY <1>24, CompensateFailsDoes, NoManifestFields DEF AsideFits, m, Passes
  <2> QED BY <2>1, <2>2, <2>3, <2>4 DEF Records
<1>25. CASE Finish
  <2>1. StateFits'
    BY <1>25, FinishDoes, NoManifestFields
    DEF StateFits, m, Opening, Moving, Chatting, Returning, Live, SetsState, Same, Others
  <2>2. Numbered'
    BY <1>25, FinishDoes, NoManifestFields
    DEF Numbered, At, SetsState, Same, Others, Placed, StateFits, Opening, Moving, Chatting,
        Returning, Live, m, Types, ManOK
  <2>3. UndoFits'
    BY <1>25, FinishDoes, NoManifestFields, NoneIsNoTx
    DEF UndoFits, At, m, SetsState, Same, Others, Placed, StateFits, Opening, Moving,
        Chatting, Returning, Live, Types, ManOK
  <2>4. AsideFits'
    BY <1>25, FinishDoes, NoManifestFields DEF AsideFits, m, SetsState, Same, Others
  <2> QED BY <2>1, <2>2, <2>3, <2>4 DEF Records
<1>26. CASE Recover
  <2>1. StateFits'
    BY <1>26, RecoverDoes, NoManifestFields
    DEF StateFits, m, Opening, Moving, Chatting, Returning, Live, SetsState, Same, Others
  <2>2. Numbered'
    BY <1>26, RecoverDoes, NoManifestFields DEF Numbered, At, SetsState, Same, Others
  <2>3. UndoFits'
    BY <1>26, RecoverDoes, NoManifestFields, NoneIsNoTx
    DEF UndoFits, At, m, SetsState, Same, Others, Placed, StateFits, Opening, Moving,
        Chatting, Returning, Live, Types, ManOK
  <2>4. AsideFits'
    BY <1>26, RecoverDoes, NoManifestFields DEF AsideFits, m, SetsState, Same, Others
  <2> QED BY <2>1, <2>2, <2>3, <2>4 DEF Records
<1>27. CASE Recovered
  <2>1. StateFits'
    BY <1>27, RecoveredDoes, NoManifestFields
    DEF StateFits, m, Opening, Moving, Chatting, Returning, Live, Idles
  <2>2. Numbered'
    BY <1>27, RecoveredDoes, NoManifestFields DEF Numbered, At, Idles
  <2>3. UndoFits'
    <3>1. Offered = None \/ Offered \in Undoable
      BY OfferedIsUndoable
    <3> QED BY <1>27, <3>1, RecoveredDoes DEF UndoFits, Undoable, Idles, At, Tx, None
  <2>4. AsideFits'
    BY <1>27, RecoveredDoes, NoManifestFields DEF AsideFits, m, Idles
  <2> QED BY <2>1, <2>2, <2>3, <2>4 DEF Records
<1>28. ASSUME NEW w \in Works, TakeTurn(w) PROVE Records'
  <2>1. UndoFits'
    BY <1>28, TakeTurnDoes, NoManifestFields, NoneIsNoTx DEF UndoFits, At, m
  <2>2. AsideFits'
    BY <1>28, TakeTurnDoes, NoManifestFields DEF AsideFits, m
  <2> QED BY <2>1, <2>2, <1>28, TakeTurnDoes, Frames DEF Records
<1>29. ASSUME NEW p \in Path, Edit(p) PROVE Records'
  <2>1. AsideFits'
    BY <1>29, EditDoes, AtPath DEF AsideFits, File
  <2> QED BY <2>1, <1>29, EditDoes, Frames DEF Records
<1>30. ASSUME NEW p \in Path, RevertFile(p) PROVE Records'
  <2>1. StateFits'
    BY <1>30, RevertFileDoes, NoManifestFields
    DEF StateFits, m, Opening, Moving, Chatting, Returning, Live, Others
  <2>2. Numbered'
    <3>1. man'[NewTx] # NoManifest
      BY <1>30, RevertFileDoes, NoManifestFields, NoMarks
    <3> QED BY <1>30, <3>1, RevertFileDoes, OpenNumbers DEF Types
  <2>3. UndoFits'
    BY <1>30, RevertFileDoes, OpenFitsUndo DEF Types
  <2>4. AsideFits'
    <3>1. man[NewTx].out = {} /\ NewTx \in Tx
      BY <1>30, RevertFileDoes, NewIsFresh, NoManifestFields
    <3> QED BY <1>30, <3>1, RevertFileDoes DEF AsideFits, Others
  <2> QED BY <2>1, <2>2, <2>3, <2>4 DEF Records
<1>31. ASSUME NEW k \in Turn, NEW code \in BOOLEAN, NEW chat \in BOOLEAN, Rewind(k, code, chat) PROVE Records'
  <2>1. StateFits'
    BY <1>31, RewindDoes, NoManifestFields
    DEF StateFits, m, Opening, Moving, Chatting, Returning, Live, Others
  <2>2. Numbered'
    <3>1. man'[NewTx] # NoManifest
      BY <1>31, RewindDoes, NoManifestFields, NoMarks
    <3> QED BY <1>31, <3>1, RewindDoes, OpenNumbers DEF Types
  <2>3. UndoFits'
    BY <1>31, RewindDoes, OpenFitsUndo DEF Types
  <2>4. AsideFits'
    <3>1. man[NewTx].out = {} /\ NewTx \in Tx
      BY <1>31, RewindDoes, NewIsFresh, NoManifestFields
    <3> QED BY <1>31, <3>1, RewindDoes DEF AsideFits, Others
  <2> QED BY <2>1, <2>2, <2>3, <2>4 DEF Records
<1>32. CASE UndoRewind
  <2>1. StateFits'
    BY <1>32, UndoRewindDoes, NoManifestFields
    DEF StateFits, m, Opening, Moving, Chatting, Returning, Live, Others
  <2>2. Numbered'
    <3>1. man'[NewTx] # NoManifest
      BY <1>32, UndoRewindDoes, NoManifestFields, NoMarks
    <3> QED BY <1>32, <3>1, UndoRewindDoes, OpenNumbers DEF Types
  <2>3. UndoFits'
    BY <1>32, UndoRewindDoes, OpenFitsUndo DEF Types
  <2>4. AsideFits'
    <3>1. man[NewTx].out = {} /\ NewTx \in Tx
      BY <1>32, UndoRewindDoes, NewIsFresh, NoManifestFields
    <3> QED BY <1>32, <3>1, UndoRewindDoes DEF AsideFits, Others
  <2> QED BY <2>1, <2>2, <2>3, <2>4 DEF Records
<1>33. CASE Crash
  <2>1. StateFits'
    BY <1>33, CrashDoes, NoManifestFields
    DEF StateFits, m, Opening, Moving, Chatting, Returning, Live
  <2>2. Numbered'
    <3>1. PICK k \in 0..MaxTx : /\ \A t \in Tx : man[t] # NoManifest <=> t <= k
                                /\ At("record") => proc.tx = k
      BY DEF Numbered
    <3>2. proc'.at = "down" /\ \A t \in Tx : man'[t] = IF man[t].state = "none" THEN NoManifest ELSE man[t]
      BY <1>33, CrashDoes
    <3>3. CASE At("record")
      <4>a. proc.tx \in Tx /\ man[proc.tx].state = "none"
        BY <3>3 DEF Placed, Live, Opening, At, StateFits, m
      <4>1. proc.tx \in Tx /\ k - 1 \in 0..MaxTx /\ man[proc.tx].state = "none"
        BY <3>1, <3>3, <4>a DEF Tx
      <4>2. \A t \in Tx : man'[t] # NoManifest <=> t <= k - 1
        BY <3>1, <3>2, <3>3, <4>1, NoManifestFields DEF Numbered, Tx
      <4> QED BY <3>2, <4>1, <4>2 DEF Numbered, At
    <3>4. CASE ~At("record")
      <4>1. \A t \in Tx : man'[t] # NoManifest <=> t <= k
        BY <3>1, <3>2, <3>4, NoManifestFields DEF Numbered
      <4> QED BY <3>2, <4>1 DEF Numbered, At
    <3> QED BY <3>3, <3>4
  <2>3. UndoFits'
    BY <1>33, CrashDoes, NoManifestFields, NoneIsNoTx DEF UndoFits, At, m
  <2>4. AsideFits'
    BY <1>33, CrashDoes, NoManifestFields
    DEF AsideFits, m, StateFits, Numbered, UndoFits, Placed, Opening, Moving, Chatting,
        Returning, Live, At
  <2> QED BY <2>1, <2>2, <2>3, <2>4 DEF Records
<1>34. CASE Bind
  <2>1. StateFits'
    BY <1>34, BindDoes, NoManifestFields
    DEF StateFits, m, Opening, Moving, Chatting, Returning, Live
  <2>2. Numbered'
    BY <1>34, BindDoes, NoManifestFields DEF Numbered, At
  <2>3. UndoFits'
    BY <1>34, BindDoes, NoManifestFields, NoneIsNoTx DEF UndoFits, At, m
  <2>4. AsideFits'
    BY <1>34, BindDoes, NoManifestFields DEF AsideFits, m
  <2> QED BY <2>1, <2>2, <2>3, <2>4 DEF Records
<1>35. CASE UNCHANGED vars
  BY <1>35, Frames DEF vars, files, chats, past, Records
<1> QED BY <1>1, <1>2, <1>3, <1>4, <1>5, <1>6, <1>7, <1>8, <1>9, <1>10, <1>11, <1>12, <1>13,
           <1>14, <1>15, <1>16, <1>17, <1>18, <1>19, <1>20, <1>21, <1>22, <1>23, <1>24,
           <1>25, <1>26, <1>27, <1>28, <1>29, <1>30, <1>31, <1>32, <1>33, <1>34, <1>35
       DEF Next, Step

\* One step keeps what a user wrote by hand: the body of EditsSurvive.
EditsKept ==
  \A p \in Path :
    /\ ~Exchanging(p) /\ Exchanging(p)' /\ disk'[p] = Edited => m.res[p] = Edited
    /\ disk[p] = Edited /\ disk'[p] # Edited /\ turns' = turns =>
         Exchanging(p) \/ \E t \in Tx : aside[t][p] # Edited /\ aside'[t][p] = Edited
    /\ \A t \in Tx : aside[t][p] = Edited /\ aside'[t][p] # Edited => disk'[p] = Edited

\* A step outside of an exchange that moves no file loses no edit.
LEMMA EditsStay ==
  ASSUME disk' = disk, aside' = aside,
         proc' = proc \/ proc'.at \notin {"place", "giveback", "clear", "putback"}
  PROVE  EditsKept
BY DEF EditsKept, Exchanging

\* The exchange of one file goes on, or ends: what it replaces is lost, and a backup
\* goes only where it came from.
LEMMA EditsExchange ==
  ASSUME Types, Placed, proc.at \in {"place", "giveback", "clear", "putback"}, NEW c, File(proc.path, c),
         \/ aside' = aside
         \/ /\ Aside(proc.tx, proc.path, Absent)
            /\ aside[proc.tx][proc.path] = Edited => c = Edited,
         proc'.at \notin {"place", "giveback", "clear", "putback"} \/ proc'.path = proc.path
  PROVE  EditsKept
<1>1. proc.path \in Path /\ proc.tx \in Tx /\ Exchanging(proc.path)
  BY AtPath DEF Placed, Exchanging
<1>2. \A p \in Path : Exchanging(p)' => Exchanging(p)
  BY DEF Exchanging
<1>3. disk'[proc.path] = c /\ \A p \in Path : p # proc.path => disk'[p] = disk[p]
  BY <1>1 DEF File
<1>4. \A p \in Path, t \in Tx : aside'[t][p] = aside[t][p] \/ (t = proc.tx /\ p = proc.path)
  BY DEF Aside
<1>5. \A p \in Path, t \in Tx : aside[t][p] = Edited /\ aside'[t][p] # Edited => disk'[p] = Edited
  BY <1>1, <1>3, <1>4 DEF Aside
<1> QED BY <1>1, <1>2, <1>3, <1>5 DEF EditsKept

\* An edit is lost only in the exchange of its file.
LEMMA EditsStep ==
  ASSUME Types, Placed, AsideFits, [Next]_vars
  PROVE  EditsKept
<1>1. CASE Record
  BY <1>1, RecordDoes, EditsStay DEF Becomes
<1>2. CASE RecordFails
  BY <1>2, RecordFailsDoes, EditsStay DEF Idles
<1>3. CASE Stage
  BY <1>3, StageDoes, EditsStay DEF Becomes
<1>4. CASE ForwardFails
  BY <1>4, ForwardFailsDoes, EditsStay DEF Idles
<1>5. CASE Start
  BY <1>5, StartDoes, EditsStay DEF Becomes
<1>6. CASE Intend
  BY <1>6, IntendDoes, EditsStay
<1>7. CASE SetAside
  <2>1. proc.at = "move" /\ proc.tx \in Tx /\ proc.path \in Path /\ aside[proc.tx][proc.path] = Absent
    BY <1>7, SetAsideDoes, AtPath DEF AsideFits, Placed
  <2>2. \A p \in Path : Exchanging(p)' /\ disk'[p] = Edited => FALSE
    BY <1>7, <2>1, SetAsideDoes DEF Exchanging, Becomes, File
  <2>3. \A p \in Path : disk[p] = Edited /\ disk'[p] # Edited =>
          aside[proc.tx][p] # Edited /\ aside'[proc.tx][p] = Edited
    BY <1>7, <2>1, SetAsideDoes DEF File, Aside
  <2>4. \A p \in Path, t \in Tx : aside[t][p] = Edited => aside'[t][p] = Edited
    BY <1>7, <2>1, SetAsideDoes DEF Aside
  <2> QED BY <2>1, <2>2, <2>3, <2>4 DEF EditsKept
<1>8. CASE Place
  BY <1>8, PlaceDoes, EditsExchange DEF Becomes
<1>9. CASE FilesDone
  BY <1>9, FilesDoneDoes, EditsStay DEF Becomes
<1>10. CASE MoveTalk
  BY <1>10, MoveTalkDoes, EditsStay DEF Becomes
<1>11. CASE MoveMarks
  BY <1>11, MoveMarksDoes, EditsStay DEF Becomes
<1>12. CASE Seal
  BY <1>12, SealDoes, EditsStay DEF Becomes, Idles
<1>13. CASE Retire
  BY <1>13, RetireDoes, EditsStay DEF Idles
<1>14. CASE Fail
  BY <1>14, FailDoes, EditsStay DEF Compensates
<1>15. CASE PlaceFails
  <2>1. CASE File(proc.path, aside[proc.tx][proc.path]) /\ Aside(proc.tx, proc.path, Absent)
    BY <1>15, <2>1, PlaceFailsDoes, EditsExchange DEF Compensates
  <2>2. CASE disk' = disk /\ aside' = aside
    BY <1>15, <2>2, PlaceFailsDoes, EditsStay DEF Compensates
  <2> QED BY <1>15, <2>1, <2>2, PlaceFailsDoes
<1>16. CASE FailLate
  BY <1>16, FailLateDoes, EditsStay DEF Becomes
<1>17. CASE Mend
  BY <1>17, MendDoes, EditsStay DEF Compensates
<1>18. CASE MendFails
  BY <1>18, MendFailsDoes, EditsStay DEF Becomes, Compensates
<1>19. CASE KeepFile
  BY <1>19, KeepFileDoes, EditsStay DEF Passes
<1>20. CASE LookAtFile
  <2>1. PICK q \in proc.todo :
          /\ disk[q] = Absent \/ disk[q] = m.res[q]
          /\ proc'.path = q
    BY <1>20, LookAtFileDoes
  <2>2. \A p \in Path : Exchanging(p)' /\ disk'[p] = Edited => m.res[p] = Edited
    BY <1>20, <2>1, LookAtFileDoes DEF Exchanging
  <2> QED BY <1>20, <2>2, LookAtFileDoes DEF EditsKept
<1>21. CASE GiveBack
  BY <1>21, GiveBackDoes, EditsExchange DEF Passes
<1>22. CASE ClearFile
  BY <1>22, ClearFileDoes, EditsExchange DEF Becomes, Passes
<1>23. CASE FinishPutBack
  BY <1>23, FinishPutBackDoes, EditsExchange DEF Passes
<1>24. CASE CompensateFails
  BY <1>24, CompensateFailsDoes, EditsStay DEF Passes
<1>25. CASE Finish
  BY <1>25, FinishDoes, EditsStay
<1>26. CASE Recover
  BY <1>26, RecoverDoes, EditsStay
<1>27. CASE Recovered
  BY <1>27, RecoveredDoes, EditsStay DEF Idles
<1>28. ASSUME NEW w \in Works, TakeTurn(w) PROVE EditsKept
  BY <1>28, TakeTurnDoes DEF EditsKept, Exchanging, Types, PastOK
<1>29. ASSUME NEW p \in Path, Edit(p) PROVE EditsKept
  BY <1>29, EditDoes DEF EditsKept, Exchanging, File
<1>30. ASSUME NEW p \in Path, RevertFile(p) PROVE EditsKept
  BY <1>30, RevertFileDoes, EditsStay
<1>31. ASSUME NEW k \in Turn, NEW code \in BOOLEAN, NEW chat \in BOOLEAN, Rewind(k, code, chat) PROVE EditsKept
  BY <1>31, RewindDoes, EditsStay
<1>32. CASE UndoRewind
  BY <1>32, UndoRewindDoes, EditsStay
<1>33. CASE Crash
  BY <1>33, CrashDoes, EditsStay
<1>34. CASE Bind
  BY <1>34, BindDoes, EditsStay
<1>35. CASE UNCHANGED vars
  BY <1>35, EditsStay DEF vars, files
<1> QED BY <1>1, <1>2, <1>3, <1>4, <1>5, <1>6, <1>7, <1>8, <1>9, <1>10, <1>11, <1>12, <1>13,
           <1>14, <1>15, <1>16, <1>17, <1>18, <1>19, <1>20, <1>21, <1>22, <1>23, <1>24,
           <1>25, <1>26, <1>27, <1>28, <1>29, <1>30, <1>31, <1>32, <1>33, <1>34, <1>35
       DEF Next, Step

-----------------------------------------------------------------------------
\* The files and the conversation of a transaction.

\* A session in which nobody works on while a transaction waits for the next bind,
\* and no frontend undoes a rewind after a later turn.  Both break the properties
\* below.
Calm == {"carryon", "stale"} \cap Faults = {}

\* The checkpoints are those of the conversation s.
Match(s, marked) == \A i \in Turn : marked[i] = IF i <= Len(s) THEN s[i] ELSE None

\* A transaction that may have published.
Pending(t) == man[t].state = "committing"

Quiet == \A t \in Tx : ~Pending(t)

\* A transaction whose manifest still describes the files.
Active(t) == Pending(t) \/ (proc.at \in Opening /\ t = proc.tx)

\* One transaction at most is pending: the one the process works on.
OnePending ==
  \A t \in Tx : Pending(t) => /\ \A u \in Tx : Pending(u) => u = t
                              /\ Live => t = proc.tx

\* What was not published is what it was, and a backup holds what was there.
FilesFit(t) ==
  /\ \A p \in man[t].targets \ man[t].out : disk[p] \in {man[t].fwd[p], Edited}
  /\ \A p \in Path : aside[t][p] \in {Absent, man[t].fwd[p], Edited}

FilesKnown == \A t \in Tx : Active(t) => FilesFit(t)

\* The files of S are what the transaction makes them, or were what it found; a
\* user may have written them since.
Published(S) == \A p \in S : disk[p] \in {m.res[p], Edited}

Returned(S) == \A p \in S : disk[p] \in {m.fwd[p], Edited}

\* How far the files have come.
FilesAt ==
  /\ proc.at = "next" => Published(m.out)
  /\ proc.at = "move" => Published(m.out \ {proc.path}) /\ disk[proc.path] \in {m.fwd[proc.path], Edited}
  /\ proc.at = "place" => Published(m.out \ {proc.path})
  /\ proc.at \in Chatting => Published(m.targets)
  /\ proc.at \in Returning /\ m.state = "committing" /\ ~proc.err => Returned(m.targets \ proc.todo)

\* The conversation of a transaction before the cut.
CutOff(t) == SubSeq(man[t].talk, 1, man[t].cut - 1)

\* The checkpoints before the cut are kept, those after it are there or not.
MarksFit(t, f) ==
  \A i \in Turn : IF i < man[t].cut THEN f[i] = man[t].marks[i] ELSE f[i] \in {None, man[t].marks[i]}

\* A recorded conversation has its checkpoints, and a place to cut it.
ChatKept ==
  \A t \in Tx : man[t].chat => Match(man[t].talk, man[t].marks) /\ man[t].cut <= Len(man[t].talk)

\* The conversation is one of the two ends, or was left alone.
ChatFits(t) ==
  IF man[t].chat THEN talk \in {man[t].talk, CutOff(t)} /\ MarksFit(t, marks)
                 ELSE Match(talk, marks) /\ (man[t].kind = "undo" => man[t].talk = talk)

ChatKnown == \A t \in Tx : Active(t) => ChatFits(t)

\* The conversation and the checkpoints are as before, or as after the transaction.
AtOld == Match(talk, marks) /\ (m.chat => talk = OldTalk(proc.tx))
AtNew == Match(talk, marks) /\ (m.chat => talk = NewTalk(proc.tx))

\* How far the conversation has come.
ChatAt ==
  /\ proc.at \in Opening \cup Moving \cup {"talk"} => AtOld
  /\ proc.at = "talk" => m.chat \/ m.kind = "undo"
  /\ proc.at = "marks" => m.chat /\ talk = NewTalk(proc.tx) /\ Match(OldTalk(proc.tx), marks)
  /\ proc.at = "seal" => AtNew
  /\ proc.at \in Returning => IF m.state = "prepared" THEN Match(talk, marks) ELSE ~proc.err => AtOld
  /\ proc.at = "retire" => Match(talk, marks)
  /\ proc.at \in {"idle", "down", "recover"} /\ Quiet => Match(talk, marks)

\* The files and the conversation together.
Ledger == OnePending /\ FilesKnown /\ FilesAt /\ ChatKept /\ ChatKnown /\ ChatAt

\* A part whose variables do not change still holds.
LEMMA LedgerFrames ==
  /\ OnePending /\ UNCHANGED <<man, proc>> => OnePending'
  /\ FilesKnown /\ UNCHANGED <<man, proc, disk, aside>> => FilesKnown'
  /\ FilesAt /\ UNCHANGED <<proc, disk, man>> => FilesAt'
  /\ ChatKept /\ UNCHANGED <<man>> => ChatKept'
  /\ ChatKnown /\ UNCHANGED <<proc, man, talk, marks>> => ChatKnown'
  /\ ChatAt /\ UNCHANGED <<proc, man, talk, marks>> => ChatAt'
BY DEF OnePending, FilesKnown, FilesAt, ChatKept, ChatKnown, ChatAt, Pending, Opening,
       Moving, Chatting, Returning, Live, Active, FilesFit, Published, Returned, m,
       ChatFits, MarksFit, CutOff, AtOld, AtNew, OldTalk, NewTalk, Quiet

\* The conversation up to the cut.
LEMMA CutFacts ==
  ASSUME Types, NEW t \in Tx, man[t].cut <= Len(man[t].talk)
  PROVE  /\ CutOff(t) \in Talk /\ Len(CutOff(t)) = man[t].cut - 1
         /\ \A i \in 1..(man[t].cut - 1) : CutOff(t)[i] = man[t].talk[i]
<1>1. man[t].talk \in Talk /\ man[t].cut \in Turn
  BY ManifestTypes DEF Types
<1>2. Len(man[t].talk) \in Nat /\ man[t].cut \in Nat
  BY <1>1, TalkForm DEF Turn
<1> QED BY <1>1, <1>2, CutInTalk DEF CutOff

\* Checkpoints that match the whole conversation, or the part before the cut, fit.
LEMMA MatchesFit ==
  ASSUME Types, NEW t \in Tx, Match(man[t].talk, man[t].marks), man[t].cut <= Len(man[t].talk), NEW f
  PROVE  /\ Match(man[t].talk, f) => MarksFit(t, f)
         /\ Match(CutOff(t), f) => MarksFit(t, f)
<1>1. /\ man[t].talk \in Talk /\ man[t].cut \in Turn
      /\ Len(CutOff(t)) = man[t].cut - 1
      /\ \A i \in 1..(man[t].cut - 1) : CutOff(t)[i] = man[t].talk[i]
  BY CutFacts, ManifestTypes DEF Types
<1>2. Len(man[t].talk) \in Nat /\ man[t].cut \in Nat /\ Turn \subseteq Nat \ {0}
  BY <1>1, TalkForm DEF Turn
<1>3. ASSUME Match(man[t].talk, f), NEW i \in Turn PROVE f[i] = man[t].marks[i]
  BY <1>3 DEF Match
<1>4. ASSUME Match(CutOff(t), f), NEW i \in Turn
      PROVE  IF i < man[t].cut THEN f[i] = man[t].marks[i] ELSE f[i] = None
  <2>1. CASE i < man[t].cut
    <3>1. i <= Len(CutOff(t)) /\ i <= Len(man[t].talk) /\ i \in 1..(man[t].cut - 1)
      BY <1>1, <1>2, <2>1
    <3>2. f[i] = CutOff(t)[i] /\ man[t].marks[i] = man[t].talk[i]
      BY <1>4, <3>1 DEF Match
    <3> QED BY <1>1, <2>1, <3>1, <3>2
  <2>2. CASE ~(i < man[t].cut)
    <3>1. ~(i <= Len(CutOff(t)))
      BY <1>1, <1>2, <2>2
    <3> QED BY <1>4, <2>2, <3>1 DEF Match
  <2> QED BY <2>1, <2>2
<1> QED BY <1>3, <1>4 DEF MarksFit

\* Checkpoints that fit a transaction, cut or put back, match again.
LEMMA MarksEnd ==
  ASSUME Types, proc.tx \in Tx, Match(m.talk, m.marks), m.cut <= Len(m.talk), MarksFit(proc.tx, marks)
  PROVE  Match(CutOff(proc.tx), CutMarks) /\ Match(m.talk, OldMarks)
<1>1. /\ m.talk \in Talk /\ m.cut \in Turn
      /\ Len(CutOff(proc.tx)) = m.cut - 1
      /\ \A i \in 1..(m.cut - 1) : CutOff(proc.tx)[i] = m.talk[i]
  BY CutFacts, ManifestTypes DEF Types, m
<1>2. Len(m.talk) \in Nat /\ m.cut \in Nat /\ Turn \subseteq Nat \ {0}
  BY <1>1, TalkForm DEF Turn
<1>3. ASSUME NEW i \in Turn PROVE OldMarks[i] = m.marks[i]
  BY <1>2, <1>3 DEF OldMarks, MarksFit, m
<1>4. ASSUME NEW i \in Turn
      PROVE  CutMarks[i] = IF i <= Len(CutOff(proc.tx)) THEN CutOff(proc.tx)[i] ELSE None
  <2>1. CASE i < m.cut
    <3>1. i <= Len(CutOff(proc.tx)) /\ i <= Len(m.talk) /\ i \in 1..(m.cut - 1) /\ ~(i >= m.cut)
      BY <1>1, <1>2, <2>1
    <3>2. marks[i] = m.marks[i] /\ m.marks[i] = m.talk[i]
      BY <2>1, <3>1 DEF MarksFit, Match, m
    <3>3. CutMarks[i] = marks[i]
      BY <3>1 DEF CutMarks
    <3> QED BY <1>1, <3>1, <3>2, <3>3
  <2>2. CASE ~(i < m.cut)
    <3>1. ~(i <= Len(CutOff(proc.tx))) /\ i >= m.cut
      BY <1>1, <1>2, <2>2
    <3> QED BY <3>1 DEF CutMarks
  <2> QED BY <2>1, <2>2
<1> QED BY <1>3, <1>4 DEF Match

\* The conversation of a transaction can be cut, whichever end of it is there.
LEMMA TalkEnds ==
  ASSUME Types, proc.tx \in Tx, m.cut <= Len(m.talk), talk \in {m.talk, CutOff(proc.tx)}
  PROVE  ~Lost /\ CutTalk = CutOff(proc.tx)
<1>1. /\ m.talk \in Talk /\ m.cut \in Turn /\ talk \in Talk /\ CutOff(proc.tx) \in Talk
      /\ Len(CutOff(proc.tx)) = m.cut - 1
  BY CutFacts, ManifestTypes DEF Types, TalkOK, m
<1>2. Len(m.talk) \in Nat /\ m.cut \in Nat /\ Len(talk) \in Nat
  BY <1>1, TalkForm DEF Turn
<1>3. m.cut <= Len(talk) + 1
  BY <1>1, <1>2
<1>4. ~Lost
  BY <1>2, <1>3 DEF Lost
<1>5. CASE talk = m.talk
  BY <1>4, <1>5 DEF CutTalk, CutOff, m
<1>6. CASE talk = CutOff(proc.tx)
  <2> DEFINE c == CutOff(proc.tx)
             d == SubSeq(c, 1, m.cut - 1)
  <2>1. c \in Talk /\ Len(c) = m.cut - 1 /\ m.cut <= Len(c) + 1
    BY <1>1, <1>2, <1>3, <1>6
  <2> HIDE DEF c
  <2>2. d \in Talk /\ Len(d) = m.cut - 1 /\ \A i \in 1..(m.cut - 1) : d[i] = c[i]
    BY <1>1, <2>1, CutInTalk
  <2>3. d = c
    BY <2>1, <2>2, SameTalk
  <2> QED BY <1>4, <1>6, <2>3 DEF CutTalk, c
<1> QED BY <1>4, <1>5, <1>6

\* The two ends of a transaction whose scope includes the conversation.
LEMMA ChatEnds ==
  ASSUME Types, proc.tx \in Tx, m.chat, Match(m.talk, m.marks), m.cut <= Len(m.talk), ChatFits(proc.tx)
  PROVE  /\ ~MendsLost
         /\ MendedTalk = OldTalk(proc.tx) /\ Match(OldTalk(proc.tx), MendedMarks)
         /\ (IF m.kind = "undo" THEN m.talk ELSE CutTalk) = NewTalk(proc.tx)
         /\ Match(NewTalk(proc.tx), NewMarks)
         /\ MarksFit(proc.tx, MendedMarks) /\ MarksFit(proc.tx, NewMarks)
         /\ {OldTalk(proc.tx), NewTalk(proc.tx)} = {m.talk, CutOff(proc.tx)}
<1>1. talk \in {m.talk, CutOff(proc.tx)} /\ MarksFit(proc.tx, marks)
  BY DEF ChatFits, m
<1>2. ~Lost /\ CutTalk = CutOff(proc.tx)
  BY <1>1, TalkEnds
<1>3. Match(CutOff(proc.tx), CutMarks) /\ Match(m.talk, OldMarks)
  BY <1>1, MarksEnd
<1>4. MarksFit(proc.tx, CutMarks) /\ MarksFit(proc.tx, OldMarks)
  BY <1>3, MatchesFit DEF m
<1>5. /\ OldTalk(proc.tx) = IF m.kind = "undo" THEN CutOff(proc.tx) ELSE m.talk
      /\ NewTalk(proc.tx) = IF m.kind = "undo" THEN m.talk ELSE CutOff(proc.tx)
  BY DEF OldTalk, NewTalk, CutOff, m
<1>6. /\ MendedTalk = IF m.kind = "undo" THEN CutTalk ELSE m.talk
      /\ MendedMarks = IF m.kind = "undo" THEN CutMarks ELSE OldMarks
      /\ NewMarks = IF m.kind = "undo" THEN OldMarks ELSE CutMarks
      /\ ~MendsLost
  BY <1>2 DEF MendedTalk, MendedMarks, NewMarks, MendsLost
<1> QED BY <1>2, <1>3, <1>4, <1>5, <1>6

\* What a failure leaves half done fits as well.
LEMMA BetweenFits ==
  ASSUME NEW t \in Tx, NEW old, NEW new, NEW f \in Between(old, new), MarksFit(t, old), MarksFit(t, new)
  PROVE  MarksFit(t, f)
<1>1. \A i \in Turn : f[i] = old[i] \/ f[i] = new[i]
  BY DEF Between
<1> QED BY <1>1 DEF MarksFit

LEMMA BetweenSame ==
  ASSUME Types, NEW f \in Between(marks, marks)
  PROVE  f = marks
<1>1. f \in [Turn -> Turn \cup {None}] /\ marks \in [Turn -> Turn \cup {None}]
  BY DEF Between, Marks, Types, MarksOK
<1>2. \A i \in Turn : f[i] = marks[i]
  BY DEF Between
<1> QED BY <1>1, <1>2

\* A turn that begins is numbered after the last.
LEMMA NextIsNew ==
  ASSUME Types, Match(talk, marks)
  PROVE  NextTurn = Len(talk) + 1
<1> DEFINE n == Len(talk)
           S == {0} \cup {i \in Turn : marks[i] # None}
<1>1. talk \in Seq(Turn) /\ n \in Nat /\ n <= MaxTurns
  BY TalkForm DEF Types, TalkOK
<1>2. S = 0..n
  <2>1. ASSUME NEW i \in Turn PROVE marks[i] # None <=> i <= n
    <3>1. i <= n => talk[i] \in Turn
      BY <1>1, <2>1 DEF Turn
    <3> QED BY <3>1, <2>1 DEF Match, None, Turn
  <2> QED BY <1>1, <2>1 DEF Turn
<1>3. NextTurn = 1 + Max(S)
  BY DEF NextTurn
<1> HIDE DEF S, n
<1>4. IsFiniteSet(0..n) /\ 0..n \in SUBSET Nat /\ n \in 0..n
  BY <1>1, FS_Interval
<1>5. Max(0..n) \in 0..n /\ n <= Max(0..n)
  BY <1>4, MaxIsGreatest
<1> QED BY <1>1, <1>2, <1>3, <1>5 DEF n

\* Its checkpoint is the one the conversation gains.
LEMMA GrownMatches ==
  ASSUME Types, Match(talk, marks), NEW n \in Turn, Len(talk) < MaxTurns,
         talk' = Append(talk, n), marks' = [marks EXCEPT ![NextTurn] = n]
  PROVE  Match(talk', marks')
<1>1. Len(talk') = Len(talk) + 1 /\ talk'[Len(talk) + 1] = n /\ \A i \in 1..Len(talk) : talk'[i] = talk[i]
  BY MoreTalk DEF Types, TalkOK
<1>2. Len(talk) \in Nat /\ marks \in [Turn -> Turn \cup {None}]
  BY TalkForm DEF Types, TalkOK, MarksOK, Marks
<1>3. \A i \in Turn : marks'[i] = IF i = Len(talk) + 1 THEN n ELSE marks[i]
  BY <1>2, NextIsNew
<1>4. ASSUME NEW i \in Turn PROVE marks'[i] = IF i <= Len(talk') THEN talk'[i] ELSE None
  BY <1>1, <1>2, <1>3 DEF Match, Turn
<1> QED BY <1>4 DEF Match

\* A checkpoint that a rewind is to go back to belongs to the conversation.
LEMMA CutIsThere ==
  ASSUME Types, Match(talk, marks), NEW k \in Turn, marks[k] # None
  PROVE  k <= Len(talk)
BY DEF Match

\* In a calm session the gate is free only when nothing is pending.
LEMMA Calmly ==
  ASSUME Calm, Unfinished = {} \/ "carryon" \in Faults
  PROVE  Quiet
BY DEF Calm, Quiet, Pending, Unfinished

\* The transaction that runs is the only active one.
LEMMA Running ==
  ASSUME Types, Placed, Records, OnePending, Live
  PROVE  /\ proc.tx \in Tx
         /\ \A t \in Tx : Active(t) => t = proc.tx
         /\ proc.at \in Moving \cup Chatting \cup {"mend"} => Pending(proc.tx) /\ Active(proc.tx)
         /\ proc.at \in Returning /\ m.state # "prepared" => Pending(proc.tx) /\ Active(proc.tx)
<1>1. proc.tx \in Tx
  BY DEF Placed
<1>2. proc.at \in Moving \cup Chatting \cup {"mend"} => m.state = "committing"
  BY DEF Records, StateFits
<1>3. proc.at \in Returning /\ m.state # "prepared" => m.state = "committing"
  BY DEF Records, StateFits
<1>4. \A t \in Tx : Active(t) => t = proc.tx
  BY DEF Active, OnePending
<1> QED BY <1>1, <1>2, <1>3, <1>4 DEF Active, Pending, m

\* A step of the running transaction concerns no other conversation.
LEMMA ChatPasses ==
  ASSUME Types, Placed, Records, OnePending, ChatKnown, Live, man' = man, proc'.at \notin Opening,
         \A t \in Tx : t = proc.tx /\ Pending(t) /\ ChatFits(t) => ChatFits(t)'
  PROVE  ChatKnown'
<1>1. ASSUME NEW t \in Tx, Active(t)' PROVE ChatFits(t)'
  <2>1. Pending(t) /\ Active(t)
    BY <1>1 DEF Active, Pending
  <2>2. t = proc.tx /\ ChatFits(t)
    BY <2>1, Running DEF ChatKnown
  <2> QED BY <2>1, <2>2
<1> QED BY <1>1 DEF ChatKnown

\* A published file that moves disturbs no other.
LEMMA FilesMoved ==
  ASSUME Types, Placed, Records, OnePending, FilesKnown, Live, man' = man, proc'.at \notin Opening,
         NEW p \in m.out, NEW c, File(p, c),
         aside' = aside \/ \E v \in {Absent, m.fwd[p], Edited} : Aside(proc.tx, p, v)
  PROVE  FilesKnown'
<1>1. ASSUME NEW t \in Tx, Active(t)' PROVE FilesFit(t)'
  <2>1. Pending(t) /\ Active(t)
    BY <1>1 DEF Active, Pending
  <2>2. t = proc.tx /\ FilesFit(t) /\ man[t] = m /\ man'[t] = m
    BY <2>1, Running DEF FilesKnown, m
  <2>3. m.out \in SUBSET Path /\ m.targets \in SUBSET Path
    BY AtPath
  <2>4. \A q \in m.targets \ m.out : disk'[q] = disk[q]
    BY <2>3 DEF File
  <2>5. \A q \in Path : aside'[t][q] = aside[t][q] \/ (q = p /\ aside'[t][q] \in {Absent, m.fwd[p], Edited})
    BY <2>2 DEF Aside
  <2> QED BY <2>2, <2>4, <2>5 DEF FilesFit
<1> QED BY <1>1 DEF FilesKnown

\* A transaction is opened when nothing is pending.
LEMMA OpensAlone ==
  ASSUME Types, Records, Quiet, proc.at = "idle", NewTx \in Tx, Others(NewTx), man'[NewTx].state = "none",
         proc'.at = "record", proc'.tx = NewTx
  PROVE  /\ man[NewTx] = NoManifest /\ \A p \in Path : aside[NewTx][p] = Absent
         /\ \A t \in Tx : ~Pending(t)'
         /\ \A t \in Tx : Active(t)' => t = NewTx
<1>1. man[NewTx] = NoManifest
  BY NewIsFresh DEF Records
<1>2. \A p \in Path : aside[NewTx][p] = Absent
  BY <1>1, NoManifestFields DEF Records, AsideFits
<1>3. \A t \in Tx : ~Pending(t)'
  BY DEF Others, Pending, Quiet
<1>4. \A t \in Tx : Active(t)' => t = NewTx
  BY <1>3 DEF Active
<1> QED BY <1>1, <1>2, <1>3, <1>4

\* Every step of a calm session keeps the ledger.
LEMMA LedgerStep ==
  ASSUME Calm, Types, Placed, Records, Ledger, [Next]_vars
  PROVE  Ledger'
<1> USE DEF Records, Ledger
<1>1. CASE Record
  <2>1. OnePending'
    BY <1>1, RecordDoes, NoManifestFields
    DEF OnePending, Pending, Opening, Moving, Chatting, Returning, Live, SetsState, Becomes,
        Same, Others
  <2>2. FilesKnown'
    BY <1>1, RecordDoes, NoManifestFields
    DEF FilesKnown, Active, Pending, FilesFit, Opening, SetsState, Becomes, Same, Others
  <2>3. FilesAt'
    BY <1>1, RecordDoes
    DEF FilesAt, Published, Returned, m, Opening, Moving, Chatting, Returning, Live,
        SetsState, Becomes, Same, Others
  <2>4. ChatKept'
    BY <1>1, RecordDoes, NoManifestFields DEF ChatKept, SetsState, Becomes, Same, Others
  <2>5. ChatKnown'
    BY <1>1, RecordDoes, NoManifestFields
    DEF ChatKnown, Active, Pending, ChatFits, MarksFit, CutOff, m, Opening, SetsState,
        Becomes, Same, Others
  <2>6. ChatAt'
    BY <1>1, RecordDoes
    DEF ChatAt, m, AtOld, AtNew, OldTalk, NewTalk, Quiet, Pending, Opening, Moving,
        Chatting, Returning, Live, SetsState, Becomes, Same, Others
  <2> QED BY <2>1, <2>2, <2>3, <2>4, <2>5, <2>6 DEF Ledger
<1>2. CASE RecordFails
  <2>1. OnePending'
    BY <1>2, RecordFailsDoes, NoManifestFields
    DEF OnePending, Pending, Opening, Moving, Chatting, Returning, Live, Drops, Idles,
        Others
  <2>2. FilesKnown'
    BY <1>2, RecordFailsDoes, NoManifestFields
    DEF FilesKnown, Active, Pending, FilesFit, Opening, Drops, Idles, Others
  <2>3. FilesAt'
    BY <1>2, RecordFailsDoes
    DEF FilesAt, Published, Returned, m, Opening, Moving, Chatting, Returning, Live, Drops,
        Idles, Others
  <2>4. ChatKept'
    BY <1>2, RecordFailsDoes, NoManifestFields DEF ChatKept, Drops, Idles, Others
  <2>5. ChatKnown'
    BY <1>2, RecordFailsDoes, NoManifestFields
    DEF ChatKnown, Active, Pending, ChatFits, MarksFit, CutOff, m, Opening, Drops, Idles,
        Others
  <2>6. ChatAt'
    BY <1>2, RecordFailsDoes
    DEF ChatAt, m, AtOld, AtNew, OldTalk, NewTalk, Quiet, Pending, Opening, Moving,
        Chatting, Returning, Live, Drops, Idles, Others
  <2> QED BY <2>1, <2>2, <2>3, <2>4, <2>5, <2>6 DEF Ledger
<1>3. CASE Stage
  <2>1. OnePending'
    BY <1>3, StageDoes, NoManifestFields
    DEF OnePending, Pending, Opening, Moving, Chatting, Returning, Live, Becomes
  <2>2. FilesKnown'
    BY <1>3, StageDoes, NoManifestFields DEF FilesKnown, Active, Pending, FilesFit, Opening, Becomes
  <2>3. FilesAt'
    BY <1>3, StageDoes
    DEF FilesAt, Published, Returned, m, Opening, Moving, Chatting, Returning, Live, Becomes
  <2>4. ChatKnown'
    BY <1>3, StageDoes, NoManifestFields
    DEF ChatKnown, Active, Pending, ChatFits, MarksFit, CutOff, m, Opening, Becomes
  <2>5. ChatAt'
    BY <1>3, StageDoes
    DEF ChatAt, m, AtOld, AtNew, OldTalk, NewTalk, Quiet, Pending, Opening, Moving,
        Chatting, Returning, Live, Becomes
  <2> QED BY <2>1, <2>2, <2>3, <2>4, <2>5, <1>3, StageDoes, LedgerFrames DEF Ledger
<1>4. CASE ForwardFails
  <2>1. OnePending'
    BY <1>4, ForwardFailsDoes, NoManifestFields
    DEF OnePending, Pending, Opening, Moving, Chatting, Returning, Live, Idles
  <2>2. FilesKnown'
    BY <1>4, ForwardFailsDoes, NoManifestFields
    DEF FilesKnown, Active, Pending, FilesFit, Opening, Idles
  <2>3. FilesAt'
    BY <1>4, ForwardFailsDoes
    DEF FilesAt, Published, Returned, m, Opening, Moving, Chatting, Returning, Live, Idles
  <2>4. ChatKnown'
    BY <1>4, ForwardFailsDoes, NoManifestFields
    DEF ChatKnown, Active, Pending, ChatFits, MarksFit, CutOff, m, Opening, Idles
  <2>5. ChatAt'
    BY <1>4, ForwardFailsDoes
    DEF ChatAt, m, AtOld, AtNew, OldTalk, NewTalk, Quiet, Pending, Opening, Moving,
        Chatting, Returning, Live, Idles
  <2> QED BY <2>1, <2>2, <2>3, <2>4, <2>5, <1>4, ForwardFailsDoes, LedgerFrames DEF Ledger
<1>5. CASE Start
  <2>1. OnePending'
    BY <1>5, StartDoes, NoManifestFields
    DEF OnePending, Pending, Opening, Moving, Chatting, Returning, Live, SetsState, Becomes,
        Same, Others
  <2>2. FilesKnown'
    BY <1>5, StartDoes, NoManifestFields
    DEF FilesKnown, Active, Pending, FilesFit, Opening, SetsState, Becomes, Same, Others
  <2>3. FilesAt'
    BY <1>5, StartDoes
    DEF FilesAt, Published, Returned, m, Opening, Moving, Chatting, Returning, Live,
        SetsState, Becomes, Same, Others, StateFits
  <2>4. ChatKept'
    BY <1>5, StartDoes, NoManifestFields DEF ChatKept, SetsState, Becomes, Same, Others
  <2>5. ChatKnown'
    BY <1>5, StartDoes, NoManifestFields
    DEF ChatKnown, Active, Pending, ChatFits, MarksFit, CutOff, m, Opening, SetsState,
        Becomes, Same, Others
  <2>6. ChatAt'
    BY <1>5, StartDoes
    DEF ChatAt, m, AtOld, AtNew, OldTalk, NewTalk, Quiet, Pending, Opening, Moving,
        Chatting, Returning, Live, SetsState, Becomes, Same, Others
  <2> QED BY <2>1, <2>2, <2>3, <2>4, <2>5, <2>6 DEF Ledger
<1>6. CASE Intend
  <2>1. OnePending'
    BY <1>6, IntendDoes, NoManifestFields
    DEF OnePending, Pending, Opening, Moving, Chatting, Returning, Live, AddsOut, Same,
        Others
  <2>2. FilesKnown'
    BY <1>6, IntendDoes, NoManifestFields
    DEF FilesKnown, Active, Pending, FilesFit, Opening, AddsOut, Same, Others
  <2>3. FilesAt'
    <3> DEFINE t == proc.tx
               p == proc'.path
    <3>1. /\ t \in Tx /\ Live /\ Pending(t) /\ Active(t)
      BY <1>6, IntendDoes, Running DEF Live, Moving
    <3>2. /\ p \in m.targets \ m.out /\ disk[p] \in {m.fwd[p], Edited}
      BY <1>6, <3>1, IntendDoes DEF FilesKnown, FilesFit, m
    <3>3. /\ m' = man'[t] /\ m'.out = m.out \cup {p} /\ m'.fwd = m.fwd /\ m'.res = m.res
      BY <1>6, <3>1, IntendDoes DEF m, AddsOut, Same
    <3>4. /\ Published(m.out) /\ disk' = disk /\ proc'.at = "move"
      BY <1>6, IntendDoes DEF FilesAt
    <3>5. m'.out \ {p} = m.out
      BY <3>2, <3>3
    <3> HIDE DEF t
    <3>6. \A q \in m'.out \ {p} : disk'[q] \in {m'.res[q], Edited}
      BY <3>3, <3>4, <3>5 DEF Published
    <3>7. disk'[p] \in {m'.fwd[p], Edited}
      BY <3>2, <3>3, <3>4
    <3> QED BY <3>4, <3>6, <3>7 DEF FilesAt, Published, Chatting, Returning
  <2>4. ChatKept'
    BY <1>6, IntendDoes, NoManifestFields DEF ChatKept, AddsOut, Same, Others
  <2>5. ChatKnown'
    BY <1>6, IntendDoes, NoManifestFields
    DEF ChatKnown, Active, Pending, ChatFits, MarksFit, CutOff, m, Opening, AddsOut, Same,
        Others
  <2>6. ChatAt'
    BY <1>6, IntendDoes
    DEF ChatAt, m, AtOld, AtNew, OldTalk, NewTalk, Quiet, Pending, Opening, Moving,
        Chatting, Returning, Live, AddsOut, Same, Others
  <2> QED BY <2>1, <2>2, <2>3, <2>4, <2>5, <2>6 DEF Ledger
<1>7. CASE SetAside
  <2>1. OnePending'
    BY <1>7, SetAsideDoes, NoManifestFields
    DEF OnePending, Pending, Opening, Moving, Chatting, Returning, Live, File, Aside,
        Becomes
  <2>2. FilesKnown'
    <3>1. Live /\ proc.path \in m.out /\ proc'.at \notin Opening
      BY <1>7, SetAsideDoes DEF Live, Opening, Moving, Placed, Becomes
    <3>2. disk[proc.path] \in {Absent, m.fwd[proc.path], Edited}
      BY <1>7, SetAsideDoes DEF FilesAt
    <3> QED BY <1>7, <3>1, <3>2, SetAsideDoes, FilesMoved
  <2>3. FilesAt'
    <3>1. proc.path \in m.out /\ proc.path \in Path /\ m.out \in SUBSET Path /\ m' = m
      BY <1>7, SetAsideDoes, AtPath DEF Placed, m, Becomes, Live, Moving
    <3>2. /\ Published(m.out \ {proc.path}) /\ disk'[proc.path] = Absent
          /\ \A q \in m.out \ {proc.path} : disk'[q] = disk[q]
      BY <1>7, <3>1, SetAsideDoes DEF FilesAt, File
    <3>3. proc'.path = proc.path /\ proc'.at = IF m.res[proc.path] = Absent THEN "next" ELSE "place"
      BY <1>7, SetAsideDoes DEF Becomes
    <3>4. Published(m.out \ {proc.path})'
      BY <3>1, <3>2, <3>3 DEF Published
    <3>5. proc'.at = "next" => Published(m.out)'
      BY <3>1, <3>2, <3>3 DEF Published
    <3> QED BY <3>1, <3>3, <3>4, <3>5 DEF FilesAt, Chatting, Returning
  <2>4. ChatKnown'
    BY <1>7, SetAsideDoes, NoManifestFields
    DEF ChatKnown, Active, Pending, ChatFits, MarksFit, CutOff, m, Opening, File, Aside,
        Becomes
  <2>5. ChatAt'
    BY <1>7, SetAsideDoes
    DEF ChatAt, m, AtOld, AtNew, OldTalk, NewTalk, Quiet, Pending, Opening, Moving,
        Chatting, Returning, Live, File, Aside, Becomes
  <2> QED BY <2>1, <2>2, <2>3, <2>4, <2>5, <1>7, SetAsideDoes, LedgerFrames DEF Ledger
<1>8. CASE Place
  <2>1. OnePending'
    BY <1>8, PlaceDoes, NoManifestFields
    DEF OnePending, Pending, Opening, Moving, Chatting, Returning, Live, File, Becomes
  <2>2. FilesKnown'
    <3>1. Live /\ proc.path \in m.out /\ proc'.at \notin Opening
      BY <1>8, PlaceDoes DEF Live, Opening, Moving, Placed, Becomes
    <3> QED BY <1>8, <3>1, PlaceDoes, FilesMoved
  <2>3. FilesAt'
    <3>1. proc.path \in m.out /\ proc.path \in Path /\ m.out \in SUBSET Path /\ m' = m /\ proc'.at = "next"
      BY <1>8, PlaceDoes, AtPath DEF Placed, m, Becomes, Live, Moving
    <3>2. /\ Published(m.out \ {proc.path}) /\ disk'[proc.path] = m.res[proc.path]
          /\ \A q \in m.out \ {proc.path} : disk'[q] = disk[q]
      BY <1>8, <3>1, PlaceDoes DEF FilesAt, File
    <3>3. Published(m.out)'
      BY <3>1, <3>2 DEF Published
    <3> QED BY <3>1, <3>3 DEF FilesAt, Chatting, Returning
  <2>4. ChatKnown'
    BY <1>8, PlaceDoes, NoManifestFields
    DEF ChatKnown, Active, Pending, ChatFits, MarksFit, CutOff, m, Opening, File, Becomes
  <2>5. ChatAt'
    BY <1>8, PlaceDoes
    DEF ChatAt, m, AtOld, AtNew, OldTalk, NewTalk, Quiet, Pending, Opening, Moving,
        Chatting, Returning, Live, File, Becomes
  <2> QED BY <2>1, <2>2, <2>3, <2>4, <2>5, <1>8, PlaceDoes, LedgerFrames DEF Ledger
<1>9. CASE FilesDone
  <2>1. OnePending'
    BY <1>9, FilesDoneDoes, NoManifestFields
    DEF OnePending, Pending, Opening, Moving, Chatting, Returning, Live, Becomes, MovesTalk
  <2>2. FilesKnown'
    BY <1>9, FilesDoneDoes, NoManifestFields
    DEF FilesKnown, Active, Pending, FilesFit, Opening, Becomes, MovesTalk
  <2>3. FilesAt'
    BY <1>9, FilesDoneDoes
    DEF FilesAt, Published, Returned, m, Opening, Moving, Chatting, Returning, Live,
        Becomes, MovesTalk
  <2>4. ChatKnown'
    BY <1>9, FilesDoneDoes, NoManifestFields
    DEF ChatKnown, Active, Pending, ChatFits, MarksFit, CutOff, m, Opening, Becomes,
        MovesTalk
  <2>5. ChatAt'
    BY <1>9, FilesDoneDoes
    DEF ChatAt, m, AtOld, AtNew, OldTalk, NewTalk, Quiet, Pending, Opening, Moving,
        Chatting, Returning, Live, Becomes, MovesTalk
  <2> QED BY <2>1, <2>2, <2>3, <2>4, <2>5, <1>9, FilesDoneDoes, LedgerFrames DEF Ledger
<1>10. CASE MoveTalk
  <2>1. OnePending'
    BY <1>10, MoveTalkDoes, NoManifestFields
    DEF OnePending, Pending, Opening, Moving, Chatting, Returning, Live, Becomes
  <2>2. FilesKnown'
    BY <1>10, MoveTalkDoes, NoManifestFields
    DEF FilesKnown, Active, Pending, FilesFit, Opening, Becomes
  <2>3. FilesAt'
    BY <1>10, MoveTalkDoes
    DEF FilesAt, Published, Returned, m, Opening, Moving, Chatting, Returning, Live, Becomes
  <2>4. ChatKnown'
    <3>1. Live /\ proc.tx \in Tx /\ ChatFits(proc.tx) /\ m.state = "committing"
      BY <1>10, MoveTalkDoes, Running DEF Live, Chatting, ChatKnown, Pending, m
    <3>2. m.chat => Match(m.talk, m.marks) /\ m.cut <= Len(m.talk)
      BY <3>1 DEF ChatKept, m
    <3>3. proc'.at \notin Opening /\ man' = man /\ marks' = marks
      BY <1>10, MoveTalkDoes DEF Becomes, Opening
    <3>4. ASSUME m.chat PROVE talk' \in {m.talk, CutOff(proc.tx)} /\ MarksFit(proc.tx, marks)
      <4>1. talk' = NewTalk(proc.tx)
        BY <1>10, <3>1, <3>2, <3>4, MoveTalkDoes, ChatEnds
      <4> QED BY <3>1, <3>2, <3>4, <4>1, ChatEnds DEF ChatFits, m
    <3>5. ~m.chat => talk' = talk
      BY <1>10, <3>1, MoveTalkDoes DEF ChatFits, ChatAt, m
    <3>6. ASSUME NEW t \in Tx, t = proc.tx, ChatFits(t) PROVE ChatFits(t)'
      BY <3>3, <3>4, <3>5, <3>6 DEF ChatFits, m, CutOff, MarksFit
    <3> QED BY <3>1, <3>3, <3>6, ChatPasses
  <2>5. ChatAt'
    <3>1. Live /\ proc.tx \in Tx /\ ChatFits(proc.tx) /\ m.state = "committing"
      BY <1>10, MoveTalkDoes, Running DEF Live, Chatting, ChatKnown, Pending, m
    <3>2. m.chat => Match(m.talk, m.marks) /\ m.cut <= Len(m.talk)
      BY <3>1 DEF ChatKept, m
    <3>3. /\ proc'.at = (IF m.chat THEN "marks" ELSE "seal") /\ man' = man /\ marks' = marks /\ m' = m
          /\ proc'.tx = proc.tx
      BY <1>10, MoveTalkDoes DEF Becomes, m
    <3>4. AtOld
      BY <1>10, MoveTalkDoes DEF ChatAt
    <3>5. CASE m.chat
      <4>1. talk' = NewTalk(proc.tx) /\ Match(OldTalk(proc.tx), marks)
        BY <1>10, <3>1, <3>2, <3>4, <3>5, MoveTalkDoes, ChatEnds DEF AtOld
      <4>2. NewTalk(proc.tx)' = NewTalk(proc.tx) /\ OldTalk(proc.tx)' = OldTalk(proc.tx)
        BY <3>3 DEF NewTalk, OldTalk
      <4> QED BY <3>3, <3>5, <4>1, <4>2 DEF ChatAt, Opening, Moving, Returning
    <3>6. CASE ~m.chat
      <4>1. talk' = talk
        BY <1>10, <3>1, <3>6, MoveTalkDoes DEF ChatFits, ChatAt, m
      <4>2. AtNew'
        BY <3>3, <3>4, <3>6, <4>1 DEF AtNew, AtOld
      <4> QED BY <3>3, <3>6, <4>2 DEF ChatAt, Opening, Moving, Returning
    <3> QED BY <3>5, <3>6
  <2> QED BY <2>1, <2>2, <2>3, <2>4, <2>5, <1>10, MoveTalkDoes, LedgerFrames DEF Ledger
<1>11. CASE MoveMarks
  <2>1. OnePending'
    BY <1>11, MoveMarksDoes, NoManifestFields
    DEF OnePending, Pending, Opening, Moving, Chatting, Returning, Live, Becomes
  <2>2. FilesKnown'
    BY <1>11, MoveMarksDoes, NoManifestFields
    DEF FilesKnown, Active, Pending, FilesFit, Opening, Becomes
  <2>3. FilesAt'
    BY <1>11, MoveMarksDoes
    DEF FilesAt, Published, Returned, m, Opening, Moving, Chatting, Returning, Live, Becomes
  <2>4. ChatKnown'
    <3>1. Live /\ proc.tx \in Tx /\ ChatFits(proc.tx) /\ m.state = "committing"
      BY <1>11, MoveMarksDoes, Running DEF Live, Chatting, ChatKnown, Pending, m
    <3>2. m.chat => Match(m.talk, m.marks) /\ m.cut <= Len(m.talk)
      BY <3>1 DEF ChatKept, m
    <3>3. proc'.at \notin Opening /\ man' = man /\ talk' = talk /\ marks' = NewMarks /\ m.chat
      BY <1>11, MoveMarksDoes DEF Becomes, Opening, ChatAt
    <3>4. MarksFit(proc.tx, marks')
      BY <3>1, <3>2, <3>3, ChatEnds
    <3>5. ASSUME NEW t \in Tx, t = proc.tx, ChatFits(t) PROVE ChatFits(t)'
      BY <3>3, <3>4, <3>5 DEF ChatFits, m, CutOff, MarksFit
    <3> QED BY <3>1, <3>3, <3>5, ChatPasses
  <2>5. ChatAt'
    <3>1. Live /\ proc.tx \in Tx /\ ChatFits(proc.tx) /\ m.state = "committing"
      BY <1>11, MoveMarksDoes, Running DEF Live, Chatting, ChatKnown, Pending, m
    <3>2. m.chat => Match(m.talk, m.marks) /\ m.cut <= Len(m.talk)
      BY <3>1 DEF ChatKept, m
    <3>3. /\ proc'.at = "seal" /\ proc'.tx = proc.tx /\ man' = man /\ talk' = talk
          /\ marks' = NewMarks /\ m' = m
          /\ m.chat /\ talk = NewTalk(proc.tx)
      BY <1>11, MoveMarksDoes DEF Becomes, ChatAt, m
    <3>4. Match(NewTalk(proc.tx), NewMarks)
      BY <3>1, <3>2, <3>3, ChatEnds
    <3>5. NewTalk(proc.tx)' = NewTalk(proc.tx)
      BY <3>3 DEF NewTalk
    <3>6. AtNew'
      BY <3>3, <3>4, <3>5 DEF AtNew
    <3> QED BY <3>3, <3>6 DEF ChatAt, Opening, Moving, Returning
  <2> QED BY <2>1, <2>2, <2>3, <2>4, <2>5, <1>11, MoveMarksDoes, LedgerFrames DEF Ledger
<1>12. CASE Seal
  <2>1. OnePending'
    BY <1>12, SealDoes, NoManifestFields
    DEF OnePending, Pending, Opening, Moving, Chatting, Returning, Live, SetsState, Becomes,
        Idles, Same, Others
  <2>2. FilesKnown'
    BY <1>12, SealDoes, NoManifestFields
    DEF FilesKnown, Active, Pending, FilesFit, Opening, SetsState, Becomes, Idles, Same,
        Others
  <2>3. FilesAt'
    BY <1>12, SealDoes
    DEF FilesAt, Published, Returned, m, Opening, Moving, Chatting, Returning, Live,
        SetsState, Becomes, Idles, Same, Others
  <2>4. ChatKept'
    BY <1>12, SealDoes, NoManifestFields DEF ChatKept, SetsState, Becomes, Idles, Same, Others
  <2>5. ChatKnown'
    BY <1>12, SealDoes, NoManifestFields
    DEF ChatKnown, Active, Pending, ChatFits, MarksFit, CutOff, m, Opening, SetsState,
        Becomes, Idles, Same, Others
  <2>6. ChatAt'
    BY <1>12, SealDoes
    DEF ChatAt, m, AtOld, AtNew, OldTalk, NewTalk, Quiet, Pending, Opening, Moving,
        Chatting, Returning, Live, SetsState, Becomes, Idles, Same, Others
  <2> QED BY <2>1, <2>2, <2>3, <2>4, <2>5, <2>6 DEF Ledger
<1>13. CASE Retire
  <2>1. OnePending'
    BY <1>13, RetireDoes, NoManifestFields
    DEF OnePending, Pending, Opening, Moving, Chatting, Returning, Live, SetsState, Idles,
        Same, Others
  <2>2. FilesKnown'
    BY <1>13, RetireDoes, NoManifestFields
    DEF FilesKnown, Active, Pending, FilesFit, Opening, SetsState, Idles, Same, Others
  <2>3. FilesAt'
    BY <1>13, RetireDoes
    DEF FilesAt, Published, Returned, m, Opening, Moving, Chatting, Returning, Live,
        SetsState, Idles, Same, Others
  <2>4. ChatKept'
    BY <1>13, RetireDoes, NoManifestFields DEF ChatKept, SetsState, Idles, Same, Others
  <2>5. ChatKnown'
    BY <1>13, RetireDoes, NoManifestFields
    DEF ChatKnown, Active, Pending, ChatFits, MarksFit, CutOff, m, Opening, SetsState,
        Idles, Same, Others
  <2>6. ChatAt'
    BY <1>13, RetireDoes
    DEF ChatAt, m, AtOld, AtNew, OldTalk, NewTalk, Quiet, Pending, Opening, Moving,
        Chatting, Returning, Live, SetsState, Idles, Same, Others
  <2> QED BY <2>1, <2>2, <2>3, <2>4, <2>5, <2>6 DEF Ledger
<1>14. CASE Fail
  <2>1. OnePending'
    BY <1>14, FailDoes, NoManifestFields
    DEF OnePending, Pending, Opening, Moving, Chatting, Returning, Live, Compensates
  <2>2. FilesKnown'
    BY <1>14, FailDoes, NoManifestFields
    DEF FilesKnown, Active, Pending, FilesFit, Opening, Compensates
  <2>3. FilesAt'
    BY <1>14, FailDoes
    DEF FilesAt, Published, Returned, m, Opening, Moving, Chatting, Returning, Live,
        Compensates
  <2>4. ChatKnown'
    BY <1>14, FailDoes, NoManifestFields
    DEF ChatKnown, Active, Pending, ChatFits, MarksFit, CutOff, m, Opening, Compensates
  <2>5. ChatAt'
    BY <1>14, FailDoes
    DEF ChatAt, m, AtOld, AtNew, OldTalk, NewTalk, Quiet, Pending, Opening, Moving,
        Chatting, Returning, Live, Compensates
  <2> QED BY <2>1, <2>2, <2>3, <2>4, <2>5, <1>14, FailDoes, LedgerFrames DEF Ledger
<1>15. CASE PlaceFails
  <2>1. OnePending'
    BY <1>15, PlaceFailsDoes, NoManifestFields
    DEF OnePending, Pending, Opening, Moving, Chatting, Returning, Live, File, Aside,
        Compensates
  <2>2. FilesKnown'
    <3>1. Live /\ proc.path \in m.out /\ proc'.at \notin Opening
      BY <1>15, PlaceFailsDoes DEF Live, Opening, Moving, Placed, Compensates
    <3>2. CASE File(proc.path, aside[proc.tx][proc.path]) /\ Aside(proc.tx, proc.path, Absent)
      BY <1>15, <3>1, <3>2, PlaceFailsDoes, FilesMoved
    <3>3. CASE disk' = disk /\ aside' = aside
      <4>1. \A t \in Tx : Active(t)' => Active(t)
        BY <1>15, <3>1, PlaceFailsDoes DEF Active, Pending
      <4> QED BY <1>15, <3>3, <4>1, PlaceFailsDoes DEF FilesKnown, FilesFit
    <3> QED BY <1>15, <3>2, <3>3, PlaceFailsDoes
  <2>3. FilesAt'
    BY <1>15, PlaceFailsDoes
    DEF FilesAt, Published, Returned, m, Opening, Moving, Chatting, Returning, Live, File,
        Aside, Compensates
  <2>4. ChatKnown'
    BY <1>15, PlaceFailsDoes, NoManifestFields
    DEF ChatKnown, Active, Pending, ChatFits, MarksFit, CutOff, m, Opening, File, Aside,
        Compensates
  <2>5. ChatAt'
    BY <1>15, PlaceFailsDoes
    DEF ChatAt, m, AtOld, AtNew, OldTalk, NewTalk, Quiet, Pending, Opening, Moving,
        Chatting, Returning, Live, File, Aside, Compensates
  <2> QED BY <2>1, <2>2, <2>3, <2>4, <2>5, <1>15, PlaceFailsDoes, LedgerFrames DEF Ledger
<1>16. CASE FailLate
  <2>1. OnePending'
    BY <1>16, FailLateDoes, NoManifestFields
    DEF OnePending, Pending, Opening, Moving, Chatting, Returning, Live, Becomes
  <2>2. FilesKnown'
    BY <1>16, FailLateDoes, NoManifestFields
    DEF FilesKnown, Active, Pending, FilesFit, Opening, Becomes
  <2>3. FilesAt'
    BY <1>16, FailLateDoes
    DEF FilesAt, Published, Returned, m, Opening, Moving, Chatting, Returning, Live, Becomes
  <2>4. ChatKnown'
    <3>1. Live /\ proc.tx \in Tx /\ ChatFits(proc.tx) /\ m.state = "committing"
      BY <1>16, FailLateDoes, Running DEF Live, Chatting, ChatKnown, Pending, m
    <3>2. m.chat => Match(m.talk, m.marks) /\ m.cut <= Len(m.talk)
      BY <3>1 DEF ChatKept, m
    <3>3. proc'.at \notin Opening /\ man' = man /\ talk' = talk
      BY <1>16, FailLateDoes DEF Becomes, Opening
    <3>4. ASSUME m.chat PROVE MarksFit(proc.tx, marks')
      <4>1. MarksFit(proc.tx, marks) /\ MarksFit(proc.tx, NewMarks)
        BY <3>1, <3>2, <3>4, ChatEnds DEF ChatFits, m
      <4> QED BY <1>16, <3>1, <4>1, FailLateDoes, BetweenFits
    <3>5. ~m.chat => marks' = marks
      BY <1>16, FailLateDoes DEF ChatAt
    <3>6. ASSUME NEW t \in Tx, t = proc.tx, ChatFits(t) PROVE ChatFits(t)'
      BY <3>3, <3>4, <3>5, <3>6 DEF ChatFits, m, CutOff, MarksFit
    <3> QED BY <3>1, <3>3, <3>6, ChatPasses
  <2>5. ChatAt'
    BY <1>16, FailLateDoes
    DEF ChatAt, m, AtOld, AtNew, OldTalk, NewTalk, Quiet, Pending, Opening, Moving,
        Chatting, Returning, Live, Becomes
  <2> QED BY <2>1, <2>2, <2>3, <2>4, <2>5, <1>16, FailLateDoes, LedgerFrames DEF Ledger
<1>17. CASE Mend
  <2>1. OnePending'
    BY <1>17, MendDoes, NoManifestFields
    DEF OnePending, Pending, Opening, Moving, Chatting, Returning, Live, Compensates
  <2>2. FilesKnown'
    BY <1>17, MendDoes, NoManifestFields
    DEF FilesKnown, Active, Pending, FilesFit, Opening, Compensates
  <2>3. FilesAt'
    BY <1>17, MendDoes
    DEF FilesAt, Published, Returned, m, Opening, Moving, Chatting, Returning, Live,
        Compensates
  <2>4. ChatKnown'
    <3>1. Live /\ proc.tx \in Tx /\ ChatFits(proc.tx) /\ m.state = "committing"
      BY <1>17, MendDoes, Running DEF Live, Chatting, ChatKnown, Pending, m
    <3>2. m.chat => Match(m.talk, m.marks) /\ m.cut <= Len(m.talk)
      BY <3>1 DEF ChatKept, m
    <3>3. proc'.at \notin Opening /\ man' = man /\ talk' = MendedTalk /\ marks' = MendedMarks
      BY <1>17, MendDoes DEF Compensates, Opening
    <3>4. ASSUME m.chat PROVE talk' \in {m.talk, CutOff(proc.tx)} /\ MarksFit(proc.tx, marks')
      BY <3>1, <3>2, <3>3, <3>4, ChatEnds
    <3>5. ~m.chat => talk' = talk /\ marks' = marks
      BY <3>3 DEF MendedTalk, MendedMarks
    <3>6. ASSUME NEW t \in Tx, t = proc.tx, ChatFits(t) PROVE ChatFits(t)'
      BY <3>3, <3>4, <3>5, <3>6 DEF ChatFits, m, CutOff, MarksFit
    <3> QED BY <3>1, <3>3, <3>6, ChatPasses
  <2>5. ChatAt'
    <3>1. Live /\ proc.tx \in Tx /\ ChatFits(proc.tx) /\ m.state = "committing"
      BY <1>17, MendDoes, Running DEF Live, Chatting, ChatKnown, Pending, m
    <3>2. m.chat => Match(m.talk, m.marks) /\ m.cut <= Len(m.talk)
      BY <3>1 DEF ChatKept, m
    <3>3. /\ proc'.at = "compensate" /\ proc'.tx = proc.tx /\ man' = man /\ m' = m
          /\ talk' = MendedTalk /\ marks' = MendedMarks
      BY <1>17, MendDoes DEF Compensates, m
    <3>4. m.chat => talk' = OldTalk(proc.tx) /\ Match(talk', marks')
      BY <3>1, <3>2, <3>3, ChatEnds
    <3>5. ~m.chat => Match(talk', marks')
      BY <3>1, <3>3 DEF MendedTalk, MendedMarks, ChatFits, m
    <3>6. OldTalk(proc.tx)' = OldTalk(proc.tx)
      BY <3>3 DEF OldTalk
    <3>7. AtOld'
      BY <3>3, <3>4, <3>5, <3>6 DEF AtOld
    <3> QED BY <3>1, <3>3, <3>7 DEF ChatAt, Opening, Moving, Returning
  <2> QED BY <2>1, <2>2, <2>3, <2>4, <2>5, <1>17, MendDoes, LedgerFrames DEF Ledger
<1>18. CASE MendFails
  <2>1. OnePending'
    BY <1>18, MendFailsDoes, NoManifestFields
    DEF OnePending, Pending, Opening, Moving, Chatting, Returning, Live, Becomes,
        Compensates
  <2>2. FilesKnown'
    BY <1>18, MendFailsDoes, NoManifestFields
    DEF FilesKnown, Active, Pending, FilesFit, Opening, Becomes, Compensates
  <2>3. FilesAt'
    BY <1>18, MendFailsDoes
    DEF FilesAt, Published, Returned, m, Opening, Moving, Chatting, Returning, Live,
        Becomes, Compensates
  <2>4. ChatKnown'
    <3>1. Live /\ proc.tx \in Tx /\ ChatFits(proc.tx) /\ m.state = "committing"
      BY <1>18, MendFailsDoes, Running DEF Live, Chatting, ChatKnown, Pending, m
    <3>2. m.chat => Match(m.talk, m.marks) /\ m.cut <= Len(m.talk)
      BY <3>1 DEF ChatKept, m
    <3>3. /\ proc'.at \notin Opening /\ man' = man /\ talk' \in {talk, MendedTalk}
          /\ marks' \in Between(marks, MendedMarks)
      BY <1>18, MendFailsDoes DEF Compensates, Becomes, Opening
    <3>4. ASSUME m.chat PROVE talk' \in {m.talk, CutOff(proc.tx)} /\ MarksFit(proc.tx, marks')
      <4>1. MarksFit(proc.tx, marks) /\ MarksFit(proc.tx, MendedMarks) /\ talk \in {m.talk, CutOff(proc.tx)}
        BY <3>1, <3>2, <3>4, ChatEnds DEF ChatFits, m
      <4>2. MendedTalk \in {m.talk, CutOff(proc.tx)}
        BY <3>1, <3>2, <3>4, ChatEnds
      <4> QED BY <3>1, <3>3, <4>1, <4>2, BetweenFits
    <3>5. ~m.chat => talk' = talk /\ marks' = marks
      BY <3>3, BetweenSame DEF MendedTalk, MendedMarks
    <3>6. ASSUME NEW t \in Tx, t = proc.tx, ChatFits(t) PROVE ChatFits(t)'
      BY <3>3, <3>4, <3>5, <3>6 DEF ChatFits, m, CutOff, MarksFit
    <3> QED BY <3>1, <3>3, <3>6, ChatPasses
  <2>5. ChatAt'
    <3>1. Live /\ proc.tx \in Tx /\ Pending(proc.tx) /\ m.state = "committing" /\ man' = man
      BY <1>18, MendFailsDoes, Running DEF Live, Pending, m
    <3>2. CASE Becomes("recover")
      <4>1. ~Quiet'
        BY <3>1 DEF Quiet, Pending
      <4> QED BY <3>2, <4>1 DEF ChatAt, Becomes, Opening, Moving, Returning
    <3>3. CASE Compensates(TRUE)
      BY <3>1, <3>3 DEF ChatAt, Compensates, Opening, Moving, Returning, m
    <3> QED BY <1>18, <3>2, <3>3, MendFailsDoes
  <2> QED BY <2>1, <2>2, <2>3, <2>4, <2>5, <1>18, MendFailsDoes, LedgerFrames DEF Ledger
<1>19. CASE KeepFile
  <2>1. OnePending'
    BY <1>19, KeepFileDoes, NoManifestFields
    DEF OnePending, Pending, Opening, Moving, Chatting, Returning, Live, Passes
  <2>2. FilesKnown'
    BY <1>19, KeepFileDoes, NoManifestFields
    DEF FilesKnown, Active, Pending, FilesFit, Opening, Passes
  <2>3. FilesAt'
    <3>1. PICK p \in proc.todo :
            \/ (p \notin m.out \/ disk[p] = m.fwd[p]) /\ Passes(p, FALSE)
            \/ p \in m.out /\ disk[p] # m.fwd[p] /\ disk[p] # m.res[p] /\ Passes(p, TRUE)
      BY <1>19, KeepFileDoes
    <3>2. /\ proc.at = "compensate" /\ Live /\ proc'.at = "compensate" /\ proc'.tx = proc.tx
          /\ disk' = disk /\ man' = man /\ proc'.todo = proc.todo \ {p} /\ m' = m
      BY <1>19, <3>1, KeepFileDoes DEF Live, Returning, Passes, m
    <3>3. ASSUME m.state = "committing", ~proc'.err
          PROVE  Returned(m.targets \ proc'.todo)
      <4>1. ~proc.err /\ (p \notin m.out \/ disk[p] = m.fwd[p])
        BY <3>1, <3>3 DEF Passes
      <4>2. Returned(m.targets \ proc.todo)
        BY <3>2, <3>3, <4>1 DEF FilesAt, Returning
      <4>3. FilesFit(proc.tx) /\ p \in m.targets
        BY <3>2, <3>3, Running DEF FilesKnown, Returning, Placed
      <4>4. disk[p] \in {m.fwd[p], Edited}
        BY <4>1, <4>3 DEF FilesFit, m
      <4> QED BY <3>2, <4>2, <4>4 DEF Returned
    <3>4. m.state = "committing" /\ ~proc'.err => Returned(m.targets \ proc.todo)'
      BY <3>2, <3>3 DEF Returned
    <3> QED BY <3>2, <3>4 DEF FilesAt, Chatting, Returning
  <2>4. ChatKnown'
    BY <1>19, KeepFileDoes, NoManifestFields
    DEF ChatKnown, Active, Pending, ChatFits, MarksFit, CutOff, m, Opening, Passes
  <2>5. ChatAt'
    BY <1>19, KeepFileDoes
    DEF ChatAt, m, AtOld, AtNew, OldTalk, NewTalk, Quiet, Pending, Opening, Moving,
        Chatting, Returning, Live, Passes
  <2> QED BY <2>1, <2>2, <2>3, <2>4, <2>5, <1>19, KeepFileDoes, LedgerFrames DEF Ledger
<1>20. CASE LookAtFile
  <2>1. OnePending'
    BY <1>20, LookAtFileDoes
    DEF OnePending, Pending, Opening, Moving, Chatting, Returning, Live
  <2>2. FilesKnown'
    BY <1>20, LookAtFileDoes DEF FilesKnown, Active, Pending, FilesFit, Opening
  <2>3. FilesAt'
    BY <1>20, LookAtFileDoes
    DEF FilesAt, Published, Returned, m, Opening, Moving, Chatting, Returning, Live
  <2>4. ChatKnown'
    BY <1>20, LookAtFileDoes
    DEF ChatKnown, Active, Pending, ChatFits, MarksFit, CutOff, m, Opening
  <2>5. ChatAt'
    BY <1>20, LookAtFileDoes
    DEF ChatAt, m, AtOld, AtNew, OldTalk, NewTalk, Quiet, Pending, Opening, Moving,
        Chatting, Returning, Live
  <2> QED BY <2>1, <2>2, <2>3, <2>4, <2>5, <1>20, LookAtFileDoes, LedgerFrames DEF Ledger
<1>21. CASE GiveBack
  <2>1. OnePending'
    BY <1>21, GiveBackDoes, NoManifestFields
    DEF OnePending, Pending, Opening, Moving, Chatting, Returning, Live, File, Aside, Passes
  <2>2. FilesKnown'
    <3>1. Live /\ proc.path \in m.out /\ proc'.at \notin Opening
      BY <1>21, GiveBackDoes DEF Live, Opening, Returning, Placed, Passes
    <3> QED BY <1>21, <3>1, GiveBackDoes, FilesMoved
  <2>3. FilesAt'
    <3> DEFINE p == proc.path
    <3>1. /\ proc.at = "giveback" /\ man' = man /\ proc'.at = "compensate" /\ proc'.tx = proc.tx
          /\ m' = m
          /\ (~proc'.err => ~proc.err) /\ proc'.todo = proc.todo \ {p} /\ proc.tx \in Tx /\ Live
      BY <1>21, GiveBackDoes DEF Passes, m, Placed, Live, Returning
    <3>2. m.targets \in SUBSET Path /\ p \in Path
      BY <3>1, AtPath
    <3>3. /\ disk'[p] = (IF aside[proc.tx][p] # Absent THEN aside[proc.tx][p] ELSE m.fwd[p])
          /\ \A q \in Path : q # p => disk'[q] = disk[q]
      BY <1>21, <3>2, GiveBackDoes DEF File
    <3> HIDE DEF p
    <3>4. ASSUME m.state = "committing", ~proc.err
          PROVE  \A q \in m.targets \ proc'.todo : disk'[q] \in {m.fwd[q], Edited}
      <4>1. Returned(m.targets \ proc.todo)
        BY <3>1, <3>4 DEF FilesAt, Returning
      <4>2. aside[proc.tx][p] \in {Absent, m.fwd[p], Edited}
        BY <3>1, <3>2, <3>4, Running DEF FilesKnown, Returning, FilesFit, m
      <4>3. disk'[p] \in {m.fwd[p], Edited}
        BY <3>3, <4>2
      <4> QED BY <3>1, <3>2, <3>3, <4>1, <4>3 DEF Returned
    <3>5. m.state = "committing" /\ ~proc'.err => Returned(m.targets \ proc.todo)'
      BY <3>1, <3>4 DEF Returned
    <3> QED BY <3>1, <3>5 DEF FilesAt, Chatting, Returning
  <2>4. ChatKnown'
    BY <1>21, GiveBackDoes, NoManifestFields
    DEF ChatKnown, Active, Pending, ChatFits, MarksFit, CutOff, m, Opening, File, Aside,
        Passes
  <2>5. ChatAt'
    BY <1>21, GiveBackDoes
    DEF ChatAt, m, AtOld, AtNew, OldTalk, NewTalk, Quiet, Pending, Opening, Moving,
        Chatting, Returning, Live, File, Aside, Passes
  <2> QED BY <2>1, <2>2, <2>3, <2>4, <2>5, <1>21, GiveBackDoes, LedgerFrames DEF Ledger
<1>22. CASE ClearFile
  <2>1. OnePending'
    BY <1>22, ClearFileDoes
    DEF OnePending, Pending, Opening, Moving, Chatting, Returning, Live, Becomes, Passes
  <2>2. FilesKnown'
    <3>1. Live /\ proc.path \in m.out /\ proc'.at \notin Opening
      BY <1>22, ClearFileDoes DEF Live, Opening, Returning, Placed, Becomes, Passes
    <3> QED BY <1>22, <3>1, ClearFileDoes, FilesMoved
  <2>3. FilesAt'
    <3> DEFINE p == proc.path
    <3>1. /\ proc.at = "clear" /\ man' = man /\ m' = m /\ proc'.at \in {"compensate", "putback"}
          /\ (~proc'.err => ~proc.err) /\ Live /\ p \in proc.todo
      BY <1>22, ClearFileDoes DEF Becomes, Passes, m, Placed, Live, Returning
    <3>2. m.targets \in SUBSET Path /\ p \in Path
      BY <3>1, AtPath
    <3>3. disk'[p] = Absent /\ \A q \in Path : q # p => disk'[q] = disk[q]
      BY <1>22, <3>2, ClearFileDoes DEF File
    <3>4. proc'.todo = proc.todo \/ (proc'.todo = proc.todo \ {p} /\ m.fwd[p] = Absent)
      BY <1>22, ClearFileDoes DEF Becomes, Passes
    <3> HIDE DEF p
    <3>5. ASSUME Returned(m.targets \ proc.todo)
          PROVE  \A q \in m.targets \ proc'.todo : disk'[q] \in {m.fwd[q], Edited}
      BY <3>1, <3>2, <3>3, <3>4, <3>5 DEF Returned
    <3>6. m.state = "committing" /\ ~proc'.err => Returned(m.targets \ proc.todo)'
      BY <3>1, <3>5 DEF Returned, FilesAt, Returning
    <3> QED BY <3>1, <3>6 DEF FilesAt, Chatting, Returning
  <2>4. ChatKnown'
    BY <1>22, ClearFileDoes
    DEF ChatKnown, Active, Pending, ChatFits, MarksFit, CutOff, m, Opening, Becomes, Passes
  <2>5. ChatAt'
    BY <1>22, ClearFileDoes
    DEF ChatAt, m, AtOld, AtNew, OldTalk, NewTalk, Quiet, Pending, Opening, Moving,
        Chatting, Returning, Live, Becomes, Passes
  <2> QED BY <2>1, <2>2, <2>3, <2>4, <2>5, <1>22, ClearFileDoes, LedgerFrames DEF Ledger
<1>23. CASE FinishPutBack
  <2>1. OnePending'
    BY <1>23, FinishPutBackDoes, NoManifestFields
    DEF OnePending, Pending, Opening, Moving, Chatting, Returning, Live, File, Aside, Passes
  <2>2. FilesKnown'
    <3>1. Live /\ proc.path \in m.out /\ proc'.at \notin Opening
      BY <1>23, FinishPutBackDoes DEF Live, Opening, Returning, Placed, Passes
    <3> QED BY <1>23, <3>1, FinishPutBackDoes, FilesMoved
  <2>3. FilesAt'
    <3> DEFINE p == proc.path
    <3>1. /\ proc.at = "putback" /\ man' = man /\ proc'.at = "compensate" /\ proc'.tx = proc.tx
          /\ m' = m
          /\ (~proc'.err => ~proc.err) /\ proc'.todo = proc.todo \ {p} /\ proc.tx \in Tx /\ Live
      BY <1>23, FinishPutBackDoes DEF Passes, m, Placed, Live, Returning
    <3>2. m.targets \in SUBSET Path /\ p \in Path
      BY <3>1, AtPath
    <3>3. /\ disk'[p] = (IF aside[proc.tx][p] # Absent THEN aside[proc.tx][p] ELSE m.fwd[p])
          /\ \A q \in Path : q # p => disk'[q] = disk[q]
      BY <1>23, <3>2, FinishPutBackDoes DEF File
    <3> HIDE DEF p
    <3>4. ASSUME m.state = "committing", ~proc.err
          PROVE  \A q \in m.targets \ proc'.todo : disk'[q] \in {m.fwd[q], Edited}
      <4>1. Returned(m.targets \ proc.todo)
        BY <3>1, <3>4 DEF FilesAt, Returning
      <4>2. aside[proc.tx][p] \in {Absent, m.fwd[p], Edited}
        BY <3>1, <3>2, <3>4, Running DEF FilesKnown, Returning, FilesFit, m
      <4>3. disk'[p] \in {m.fwd[p], Edited}
        BY <3>3, <4>2
      <4> QED BY <3>1, <3>2, <3>3, <4>1, <4>3 DEF Returned
    <3>5. m.state = "committing" /\ ~proc'.err => Returned(m.targets \ proc.todo)'
      BY <3>1, <3>4 DEF Returned
    <3> QED BY <3>1, <3>5 DEF FilesAt, Chatting, Returning
  <2>4. ChatKnown'
    BY <1>23, FinishPutBackDoes, NoManifestFields
    DEF ChatKnown, Active, Pending, ChatFits, MarksFit, CutOff, m, Opening, File, Aside,
        Passes
  <2>5. ChatAt'
    BY <1>23, FinishPutBackDoes
    DEF ChatAt, m, AtOld, AtNew, OldTalk, NewTalk, Quiet, Pending, Opening, Moving,
        Chatting, Returning, Live, File, Aside, Passes
  <2> QED BY <2>1, <2>2, <2>3, <2>4, <2>5, <1>23, FinishPutBackDoes, LedgerFrames DEF Ledger
<1>24. CASE CompensateFails
  <2>1. OnePending'
    BY <1>24, CompensateFailsDoes, NoManifestFields
    DEF OnePending, Pending, Opening, Moving, Chatting, Returning, Live, Passes
  <2>2. FilesKnown'
    BY <1>24, CompensateFailsDoes, NoManifestFields
    DEF FilesKnown, Active, Pending, FilesFit, Opening, Passes
  <2>3. FilesAt'
    BY <1>24, CompensateFailsDoes
    DEF FilesAt, Published, Returned, m, Opening, Moving, Chatting, Returning, Live, Passes
  <2>4. ChatKnown'
    BY <1>24, CompensateFailsDoes, NoManifestFields
    DEF ChatKnown, Active, Pending, ChatFits, MarksFit, CutOff, m, Opening, Passes
  <2>5. ChatAt'
    BY <1>24, CompensateFailsDoes
    DEF ChatAt, m, AtOld, AtNew, OldTalk, NewTalk, Quiet, Pending, Opening, Moving,
        Chatting, Returning, Live, Passes
  <2> QED BY <2>1, <2>2, <2>3, <2>4, <2>5, <1>24, CompensateFailsDoes, LedgerFrames DEF Ledger
<1>25. CASE Finish
  <2>1. OnePending'
    BY <1>25, FinishDoes, NoManifestFields
    DEF OnePending, Pending, Opening, Moving, Chatting, Returning, Live, SetsState, Same,
        Others
  <2>2. FilesKnown'
    BY <1>25, FinishDoes, NoManifestFields
    DEF FilesKnown, Active, Pending, FilesFit, Opening, SetsState, Same, Others
  <2>3. FilesAt'
    BY <1>25, FinishDoes
    DEF FilesAt, Published, Returned, m, Opening, Moving, Chatting, Returning, Live,
        SetsState, Same, Others
  <2>4. ChatKept'
    BY <1>25, FinishDoes, NoManifestFields DEF ChatKept, SetsState, Same, Others
  <2>5. ChatKnown'
    BY <1>25, FinishDoes, NoManifestFields
    DEF ChatKnown, Active, Pending, ChatFits, MarksFit, CutOff, m, Opening, SetsState, Same,
        Others
  <2>6. ChatAt'
    <3>1. Live /\ proc.tx \in Tx /\ proc.at = "compensate" /\ m.state \in {"prepared", "committing"}
      BY <1>25, FinishDoes, Running DEF Live, Returning, Records, StateFits
    <3>2. proc'.at \in {"idle", "recover"} /\ talk' = talk /\ marks' = marks
      BY <1>25, FinishDoes
    <3>3. ASSUME Quiet' PROVE Match(talk, marks)
      <4>1. CASE m.state = "prepared"
        BY <3>1, <4>1 DEF ChatAt, Returning
      <4>2. CASE m.state = "committing"
        <5>1. man' # man
          BY <3>1, <3>3, <4>2 DEF Quiet, Pending, m
        <5>2. ~proc.err
          BY <1>25, <5>1, FinishDoes
        <5> QED BY <3>1, <4>2, <5>2 DEF ChatAt, Returning, AtOld
      <4> QED BY <3>1, <4>1, <4>2
    <3> QED BY <3>2, <3>3 DEF ChatAt, Opening, Moving, Returning
  <2> QED BY <2>1, <2>2, <2>3, <2>4, <2>5, <2>6 DEF Ledger
<1>26. CASE Recover
  <2>1. OnePending'
    BY <1>26, RecoverDoes, NoManifestFields
    DEF OnePending, Pending, Opening, Moving, Chatting, Returning, Live, SetsState, Same,
        Others
  <2>2. FilesKnown'
    BY <1>26, RecoverDoes, NoManifestFields
    DEF FilesKnown, Active, Pending, FilesFit, Opening, SetsState, Same, Others
  <2>3. FilesAt'
    BY <1>26, RecoverDoes
    DEF FilesAt, Published, Returned, m, Opening, Moving, Chatting, Returning, Live,
        SetsState, Same, Others
  <2>4. ChatKept'
    BY <1>26, RecoverDoes, NoManifestFields DEF ChatKept, SetsState, Same, Others
  <2>5. ChatKnown'
    BY <1>26, RecoverDoes, NoManifestFields
    DEF ChatKnown, Active, Pending, ChatFits, MarksFit, CutOff, m, Opening, SetsState, Same,
        Others
  <2>6. ChatAt'
    <3>1. talk' = talk /\ marks' = marks /\ proc.at = "recover"
      BY <1>26, RecoverDoes
    <3>2. PICK t \in Tx :
            \/ /\ man[t].state = "prepared" /\ proc'.at = "recover" /\ proc'.tx = proc.tx
               /\ proc'.err = proc.err
               /\ (SetsState(t, "aborted") /\ man' \in [Tx -> Manifest]) \/ man' = man
            \/ /\ man[t].state = "committing" /\ man' = man
               /\ proc'.tx = t /\ ~proc'.err /\ proc'.todo = man[t].targets
               /\ proc'.at = IF man[t].chat THEN "mend" ELSE "compensate"
      BY <1>26, RecoverDoes
    <3>3. CASE man[t].state = "prepared"
      <4>1. proc'.at = "recover" /\ \A u \in Tx : Pending(u) => Pending(u)'
        BY <3>2, <3>3 DEF Pending, SetsState, Others
      <4>2. Quiet' => Quiet
        BY <4>1 DEF Quiet
      <4> QED BY <3>1, <4>1, <4>2 DEF ChatAt, Opening, Moving, Returning
    <3>4. CASE man[t].state = "committing"
      <4>1. /\ m' = man[t] /\ m'.state = "committing" /\ proc'.tx = t /\ man' = man
            /\ proc'.at = IF man[t].chat THEN "mend" ELSE "compensate"
        BY <3>2, <3>4 DEF m
      <4>2. ~man[t].chat => Match(talk, marks)
        BY <3>4 DEF ChatKnown, Active, Pending, ChatFits
      <4>3. proc'.at # "mend" => AtOld'
        BY <3>1, <4>1, <4>2 DEF AtOld
      <4> QED BY <4>1, <4>3 DEF ChatAt, Opening, Moving, Returning
    <3> QED BY <3>2, <3>3, <3>4
  <2> QED BY <2>1, <2>2, <2>3, <2>4, <2>5, <2>6 DEF Ledger
<1>27. CASE Recovered
  <2>1. OnePending'
    BY <1>27, RecoveredDoes, NoManifestFields
    DEF OnePending, Pending, Opening, Moving, Chatting, Returning, Live, Idles
  <2>2. FilesKnown'
    BY <1>27, RecoveredDoes, NoManifestFields
    DEF FilesKnown, Active, Pending, FilesFit, Opening, Idles
  <2>3. FilesAt'
    BY <1>27, RecoveredDoes
    DEF FilesAt, Published, Returned, m, Opening, Moving, Chatting, Returning, Live, Idles
  <2>4. ChatKnown'
    BY <1>27, RecoveredDoes, NoManifestFields
    DEF ChatKnown, Active, Pending, ChatFits, MarksFit, CutOff, m, Opening, Idles
  <2>5. ChatAt'
    BY <1>27, RecoveredDoes
    DEF ChatAt, m, AtOld, AtNew, OldTalk, NewTalk, Quiet, Pending, Opening, Moving,
        Chatting, Returning, Live, Idles
  <2> QED BY <2>1, <2>2, <2>3, <2>4, <2>5, <1>27, RecoveredDoes, LedgerFrames DEF Ledger
<1>28. ASSUME NEW w \in Works, TakeTurn(w) PROVE Ledger'
  <2>1. FilesKnown'
    <3>1. \A t \in Tx : ~Active(t)'
      BY <1>28, TakeTurnDoes, Calmly DEF Active, Pending, Quiet, Opening
    <3> QED BY <3>1 DEF FilesKnown
  <2>2. FilesAt'
    BY <1>28, TakeTurnDoes
    DEF FilesAt, Published, Returned, m, Opening, Moving, Chatting, Returning, Live
  <2>3. ChatKnown'
    <3>1. \A t \in Tx : ~Active(t)'
      BY <1>28, TakeTurnDoes, Calmly DEF Active, Pending, Quiet, Opening
    <3> QED BY <3>1 DEF ChatKnown
  <2>4. ChatAt'
    <3>1. Match(talk, marks)
      BY <1>28, TakeTurnDoes, Calmly DEF ChatAt
    <3>2. Match(talk', marks')
      BY <1>28, <3>1, TakeTurnDoes, GrownMatches
    <3>3. proc'.at = "idle"
      BY <1>28, TakeTurnDoes
    <3> QED BY <3>2, <3>3 DEF ChatAt, Opening, Moving, Returning
  <2> QED BY <2>1, <2>2, <2>3, <2>4, <1>28, TakeTurnDoes, LedgerFrames DEF Ledger
<1>29. ASSUME NEW p \in Path, Edit(p) PROVE Ledger'
  <2>1. FilesKnown'
    <3>1. man' = man /\ aside' = aside /\ \A q \in Path : disk'[q] \in {disk[q], Edited}
      BY <1>29, EditDoes DEF File
    <3>2. ASSUME NEW t \in Tx, Active(t)' PROVE FilesFit(t)'
      <4>1. FilesFit(t) /\ man[t].targets \in SUBSET Path
        BY <1>29, <3>1, <3>2, EditDoes, ManifestTypes DEF Active, Pending, FilesKnown, Types
      <4> QED BY <3>1, <4>1 DEF FilesFit
    <3> QED BY <3>2 DEF FilesKnown
  <2>2. FilesAt'
    <3>1. man' = man /\ proc' = proc /\ m' = m /\ \A q \in Path : disk'[q] \in {disk[q], Edited}
      BY <1>29, EditDoes DEF File, m
    <3>2. Live => m.out \in SUBSET Path /\ m.targets \in SUBSET Path
      BY AtPath
    <3>3. proc.at = "move" => proc.path \in Path
      BY AtPath
    <3>4. ASSUME NEW S \in SUBSET Path
          PROVE  /\ Published(S) => \A q \in S : disk'[q] \in {m.res[q], Edited}
                 /\ Returned(S) => \A q \in S : disk'[q] \in {m.fwd[q], Edited}
      BY <3>1 DEF Published, Returned
    <3>5. /\ proc.at = "next" => Published(m.out)'
          /\ proc.at \in {"move", "place"} => Published(m.out \ {proc.path})'
          /\ proc.at \in Chatting => Published(m.targets)'
      BY <3>1, <3>2, <3>4 DEF FilesAt, Published, Live, Moving, Chatting
    <3>6. proc.at = "move" => disk'[proc.path] \in {m.fwd[proc.path], Edited}
      BY <3>1, <3>3 DEF FilesAt
    <3>7. proc.at \in Returning /\ m.state = "committing" /\ ~proc.err => Returned(m.targets \ proc.todo)'
      BY <3>1, <3>2, <3>4 DEF FilesAt, Returned, Live
    <3> QED BY <3>1, <3>5, <3>6, <3>7 DEF FilesAt
  <2> QED BY <2>1, <2>2, <1>29, EditDoes, LedgerFrames DEF Ledger
<1>30. ASSUME NEW p \in Path, RevertFile(p) PROVE Ledger'
  <2>1. OnePending'
    <3>1. Quiet /\ Match(talk, marks)
      BY <1>30, RevertFileDoes, Calmly DEF ChatAt
    <3>2. /\ man[NewTx] = NoManifest /\ \A q \in Path : aside[NewTx][q] = Absent
          /\ \A t \in Tx : ~Pending(t)'
          /\ \A t \in Tx : Active(t)' => t = NewTx
      BY <1>30, <3>1, RevertFileDoes, OpensAlone DEF Types
    <3>3. NewTx \in Tx
      BY <1>30, RevertFileDoes
    <3> QED BY <3>2 DEF OnePending
  <2>2. FilesKnown'
    <3>1. Quiet /\ Match(talk, marks)
      BY <1>30, RevertFileDoes, Calmly DEF ChatAt
    <3>2. /\ man[NewTx] = NoManifest /\ \A q \in Path : aside[NewTx][q] = Absent
          /\ \A t \in Tx : ~Pending(t)'
          /\ \A t \in Tx : Active(t)' => t = NewTx
      BY <1>30, <3>1, RevertFileDoes, OpensAlone DEF Types
    <3>3. NewTx \in Tx
      BY <1>30, RevertFileDoes
    <3>4. /\ disk' = disk /\ aside' = aside /\ man'[NewTx].targets \in SUBSET Path
          /\ \A q \in man'[NewTx].targets : disk[q] = man'[NewTx].fwd[q]
      BY <1>30, RevertFileDoes, ManifestTypes DEF Types
    <3>5. ASSUME NEW t \in Tx, t = NewTx PROVE FilesFit(t)'
      BY <3>2, <3>4, <3>5 DEF FilesFit
    <3> QED BY <3>2, <3>5 DEF FilesKnown
  <2>3. FilesAt'
    BY <1>30, RevertFileDoes
    DEF FilesAt, Published, Returned, m, Opening, Moving, Chatting, Returning, Live, Others
  <2>4. ChatKept'
    BY <1>30, RevertFileDoes, NoManifestFields DEF ChatKept, Others
  <2>5. ChatKnown'
    <3>1. Quiet /\ Match(talk, marks)
      BY <1>30, RevertFileDoes, Calmly DEF ChatAt
    <3>2. /\ man[NewTx] = NoManifest /\ \A q \in Path : aside[NewTx][q] = Absent
          /\ \A t \in Tx : ~Pending(t)'
          /\ \A t \in Tx : Active(t)' => t = NewTx
      BY <1>30, <3>1, RevertFileDoes, OpensAlone DEF Types
    <3>3. NewTx \in Tx
      BY <1>30, RevertFileDoes
    <3>4. /\ talk' = talk /\ marks' = marks /\ man'[NewTx].talk = talk /\ man'[NewTx].marks = marks
          /\ man'[NewTx].kind # "undo"
      BY <1>30, RevertFileDoes
    <3>5. ASSUME NEW t \in Tx, t = NewTx PROVE ChatFits(t)'
      BY <3>1, <3>4, <3>5 DEF ChatFits, MarksFit
    <3> QED BY <3>2, <3>5 DEF ChatKnown
  <2>6. ChatAt'
    <3>1. Quiet /\ Match(talk, marks)
      BY <1>30, RevertFileDoes, Calmly DEF ChatAt
    <3>2. /\ man[NewTx] = NoManifest /\ \A q \in Path : aside[NewTx][q] = Absent
          /\ \A t \in Tx : ~Pending(t)'
          /\ \A t \in Tx : Active(t)' => t = NewTx
      BY <1>30, <3>1, RevertFileDoes, OpensAlone DEF Types
    <3>3. NewTx \in Tx
      BY <1>30, RevertFileDoes
    <3>4. /\ talk' = talk /\ marks' = marks /\ proc'.at = "record" /\ proc'.tx = NewTx
          /\ man'[NewTx].talk = talk /\ man'[NewTx].kind # "undo"
      BY <1>30, RevertFileDoes
    <3>5. AtOld'
      BY <3>1, <3>4 DEF AtOld, OldTalk, m
    <3> QED BY <3>4, <3>5 DEF ChatAt, Opening, Moving, Returning
  <2> QED BY <2>1, <2>2, <2>3, <2>4, <2>5, <2>6 DEF Ledger
<1>31. ASSUME NEW k \in Turn, NEW code \in BOOLEAN, NEW chat \in BOOLEAN, Rewind(k, code, chat) PROVE Ledger'
  <2>1. OnePending'
    <3>1. Quiet /\ Match(talk, marks)
      BY <1>31, RewindDoes, Calmly DEF ChatAt
    <3>2. /\ man[NewTx] = NoManifest /\ \A q \in Path : aside[NewTx][q] = Absent
          /\ \A t \in Tx : ~Pending(t)'
          /\ \A t \in Tx : Active(t)' => t = NewTx
      BY <1>31, <3>1, RewindDoes, OpensAlone DEF Types
    <3>3. NewTx \in Tx
      BY <1>31, RewindDoes
    <3> QED BY <3>2 DEF OnePending
  <2>2. FilesKnown'
    <3>1. Quiet /\ Match(talk, marks)
      BY <1>31, RewindDoes, Calmly DEF ChatAt
    <3>2. /\ man[NewTx] = NoManifest /\ \A q \in Path : aside[NewTx][q] = Absent
          /\ \A t \in Tx : ~Pending(t)'
          /\ \A t \in Tx : Active(t)' => t = NewTx
      BY <1>31, <3>1, RewindDoes, OpensAlone DEF Types
    <3>3. NewTx \in Tx
      BY <1>31, RewindDoes
    <3>4. /\ disk' = disk /\ aside' = aside /\ man'[NewTx].targets \in SUBSET Path
          /\ \A q \in man'[NewTx].targets : disk[q] = man'[NewTx].fwd[q]
      BY <1>31, RewindDoes, ManifestTypes DEF Types
    <3>5. ASSUME NEW t \in Tx, t = NewTx PROVE FilesFit(t)'
      BY <3>2, <3>4, <3>5 DEF FilesFit
    <3> QED BY <3>2, <3>5 DEF FilesKnown
  <2>3. FilesAt'
    BY <1>31, RewindDoes
    DEF FilesAt, Published, Returned, m, Opening, Moving, Chatting, Returning, Live, Others
  <2>4. ChatKept'
    <3>1. Quiet /\ Match(talk, marks)
      BY <1>31, RewindDoes, Calmly DEF ChatAt
    <3>2. /\ man[NewTx] = NoManifest /\ \A q \in Path : aside[NewTx][q] = Absent
          /\ \A t \in Tx : ~Pending(t)'
          /\ \A t \in Tx : Active(t)' => t = NewTx
      BY <1>31, <3>1, RewindDoes, OpensAlone DEF Types
    <3>3. NewTx \in Tx
      BY <1>31, RewindDoes
    <3>5. man'[NewTx].chat => man'[NewTx].cut <= Len(man'[NewTx].talk) /\ Match(man'[NewTx].talk, man'[NewTx].marks)
      BY <1>31, <3>1, RewindDoes, CutIsThere
    <3> QED BY <1>31, <3>5, RewindDoes DEF ChatKept, Others
  <2>5. ChatKnown'
    <3>1. Quiet /\ Match(talk, marks)
      BY <1>31, RewindDoes, Calmly DEF ChatAt
    <3>2. /\ man[NewTx] = NoManifest /\ \A q \in Path : aside[NewTx][q] = Absent
          /\ \A t \in Tx : ~Pending(t)'
          /\ \A t \in Tx : Active(t)' => t = NewTx
      BY <1>31, <3>1, RewindDoes, OpensAlone DEF Types
    <3>3. NewTx \in Tx
      BY <1>31, RewindDoes
    <3>4. /\ talk' = talk /\ marks' = marks /\ man'[NewTx].talk = talk /\ man'[NewTx].marks = marks
          /\ man'[NewTx].kind # "undo"
      BY <1>31, RewindDoes
    <3>5. ASSUME NEW t \in Tx, t = NewTx PROVE ChatFits(t)'
      BY <3>1, <3>4, <3>5 DEF ChatFits, MarksFit
    <3> QED BY <3>2, <3>5 DEF ChatKnown
  <2>6. ChatAt'
    <3>1. Quiet /\ Match(talk, marks)
      BY <1>31, RewindDoes, Calmly DEF ChatAt
    <3>2. /\ man[NewTx] = NoManifest /\ \A q \in Path : aside[NewTx][q] = Absent
          /\ \A t \in Tx : ~Pending(t)'
          /\ \A t \in Tx : Active(t)' => t = NewTx
      BY <1>31, <3>1, RewindDoes, OpensAlone DEF Types
    <3>3. NewTx \in Tx
      BY <1>31, RewindDoes
    <3>4. /\ talk' = talk /\ marks' = marks /\ proc'.at = "record" /\ proc'.tx = NewTx
          /\ man'[NewTx].talk = talk /\ man'[NewTx].kind # "undo"
      BY <1>31, RewindDoes
    <3>5. AtOld'
      BY <3>1, <3>4 DEF AtOld, OldTalk, m
    <3> QED BY <3>4, <3>5 DEF ChatAt, Opening, Moving, Returning
  <2> QED BY <2>1, <2>2, <2>3, <2>4, <2>5, <2>6 DEF Ledger
<1>32. CASE UndoRewind
  <2>1. OnePending'
    <3>1. Quiet /\ Match(talk, marks)
      BY <1>32, UndoRewindDoes, Calmly DEF ChatAt
    <3>2. /\ man[NewTx] = NoManifest /\ \A q \in Path : aside[NewTx][q] = Absent
          /\ \A t \in Tx : ~Pending(t)'
          /\ \A t \in Tx : Active(t)' => t = NewTx
      BY <1>32, <3>1, UndoRewindDoes, OpensAlone DEF Types
    <3>3. NewTx \in Tx
      BY <1>32, UndoRewindDoes
    <3> QED BY <3>2 DEF OnePending
  <2>2. FilesKnown'
    <3>1. Quiet /\ Match(talk, marks)
      BY <1>32, UndoRewindDoes, Calmly DEF ChatAt
    <3>2. /\ man[NewTx] = NoManifest /\ \A q \in Path : aside[NewTx][q] = Absent
          /\ \A t \in Tx : ~Pending(t)'
          /\ \A t \in Tx : Active(t)' => t = NewTx
      BY <1>32, <3>1, UndoRewindDoes, OpensAlone DEF Types
    <3>3. NewTx \in Tx
      BY <1>32, UndoRewindDoes
    <3>4. /\ disk' = disk /\ aside' = aside /\ man'[NewTx].targets \in SUBSET Path
          /\ \A q \in man'[NewTx].targets : disk[q] = man'[NewTx].fwd[q]
      BY <1>32, UndoRewindDoes, ManifestTypes DEF Types
    <3>5. ASSUME NEW t \in Tx, t = NewTx PROVE FilesFit(t)'
      BY <3>2, <3>4, <3>5 DEF FilesFit
    <3> QED BY <3>2, <3>5 DEF FilesKnown
  <2>3. FilesAt'
    BY <1>32, UndoRewindDoes
    DEF FilesAt, Published, Returned, m, Opening, Moving, Chatting, Returning, Live, Others
  <2>4. ChatKept'
    BY <1>32, UndoRewindDoes, NoManifestFields DEF ChatKept, Others
  <2>5. ChatKnown'
    <3>1. Quiet /\ Match(talk, marks)
      BY <1>32, UndoRewindDoes, Calmly DEF ChatAt
    <3>2. /\ man[NewTx] = NoManifest /\ \A q \in Path : aside[NewTx][q] = Absent
          /\ \A t \in Tx : ~Pending(t)'
          /\ \A t \in Tx : Active(t)' => t = NewTx
      BY <1>32, <3>1, UndoRewindDoes, OpensAlone DEF Types
    <3>3. NewTx \in Tx
      BY <1>32, UndoRewindDoes
    <3> DEFINE u == undo
               n == NewTx
    <3>4. /\ u \in Tx /\ man[u].kind # "undo" /\ talk = NewTalk(u)
      BY <1>32, UndoRewindDoes, NoneIsNoTx DEF Records, UndoFits, Calm
    <3>5. /\ talk' = talk /\ marks' = marks /\ man'[n].talk = man[u].talk
          /\ man'[n].marks = man[u].marks
          /\ man'[n].cut = man[u].cut /\ man'[n].chat = man[u].chat /\ man'[n].kind = "undo"
          /\ proc'.at = "record" /\ proc'.tx = n
      BY <1>32, UndoRewindDoes
    <3> HIDE DEF u, n
    <3>6. ~man[u].chat => talk = man[u].talk
      BY <3>4 DEF NewTalk
    <3>7. man[u].chat => talk = CutOff(u)
      BY <3>4 DEF NewTalk, CutOff
    <3>8. man[u].chat => MarksFit(u, marks)
      BY <3>1, <3>4, <3>7, MatchesFit DEF ChatKept
    <3>9. ASSUME NEW t \in Tx, t = n PROVE ChatFits(t)'
      <4>1. CASE man[u].chat
        <5>1. talk' = CutOff(t)'
          BY <3>5, <3>7, <3>9, <4>1 DEF CutOff
        <5>2. MarksFit(t, marks)'
          BY <3>5, <3>8, <3>9, <4>1 DEF MarksFit
        <5> QED BY <3>5, <3>9, <4>1, <5>1, <5>2 DEF ChatFits
      <4>2. CASE ~man[u].chat
        BY <3>1, <3>5, <3>6, <3>9, <4>2 DEF ChatFits, Match
      <4> QED BY <4>1, <4>2
    <3> QED BY <3>2, <3>9 DEF ChatKnown, n
  <2>6. ChatAt'
    <3>1. Quiet /\ Match(talk, marks)
      BY <1>32, UndoRewindDoes, Calmly DEF ChatAt
    <3>2. /\ man[NewTx] = NoManifest /\ \A q \in Path : aside[NewTx][q] = Absent
          /\ \A t \in Tx : ~Pending(t)'
          /\ \A t \in Tx : Active(t)' => t = NewTx
      BY <1>32, <3>1, UndoRewindDoes, OpensAlone DEF Types
    <3>3. NewTx \in Tx
      BY <1>32, UndoRewindDoes
    <3> DEFINE u == undo
               n == NewTx
    <3>4. /\ u \in Tx /\ man[u].kind # "undo" /\ talk = NewTalk(u)
      BY <1>32, UndoRewindDoes, NoneIsNoTx DEF Records, UndoFits, Calm
    <3>5. /\ talk' = talk /\ marks' = marks /\ man'[n].talk = man[u].talk
          /\ man'[n].marks = man[u].marks
          /\ man'[n].cut = man[u].cut /\ man'[n].chat = man[u].chat /\ man'[n].kind = "undo"
          /\ proc'.at = "record" /\ proc'.tx = n
      BY <1>32, UndoRewindDoes
    <3> HIDE DEF u, n
    <3>6. ~man[u].chat => talk = man[u].talk
      BY <3>4 DEF NewTalk
    <3>7. man[u].chat => talk = CutOff(u)
      BY <3>4 DEF NewTalk, CutOff
    <3>8. man[u].chat => talk' = SubSeq(man'[n].talk, 1, man'[n].cut - 1)
      BY <3>5, <3>7 DEF CutOff
    <3>9. Match(talk', marks')
      BY <3>1, <3>5
    <3>10. AtOld'
      BY <3>5, <3>8, <3>9 DEF AtOld, OldTalk, m
    <3> QED BY <3>5, <3>10 DEF ChatAt, Opening, Moving, Returning
  <2> QED BY <2>1, <2>2, <2>3, <2>4, <2>5, <2>6 DEF Ledger
<1>33. CASE Crash
  <2>1. OnePending'
    BY <1>33, CrashDoes, NoManifestFields
    DEF OnePending, Pending, Opening, Moving, Chatting, Returning, Live
  <2>2. FilesKnown'
    BY <1>33, CrashDoes, NoManifestFields DEF FilesKnown, Active, Pending, FilesFit, Opening
  <2>3. FilesAt'
    BY <1>33, CrashDoes
    DEF FilesAt, Published, Returned, m, Opening, Moving, Chatting, Returning, Live
  <2>4. ChatKept'
    BY <1>33, CrashDoes, NoManifestFields DEF ChatKept
  <2>5. ChatKnown'
    BY <1>33, CrashDoes, NoManifestFields
    DEF ChatKnown, Active, Pending, ChatFits, MarksFit, CutOff, m, Opening
  <2>6. ChatAt'
    <3>1. talk' = talk /\ marks' = marks /\ proc'.at = "down" /\ \A t \in Tx : Pending(t) => Pending(t)'
      BY <1>33, CrashDoes DEF Pending
    <3>2. Quiet' => Quiet
      BY <3>1 DEF Quiet
    <3>3. ASSUME Quiet PROVE Match(talk, marks)
      <4>1. CASE proc.at \in Moving \cup Chatting \cup {"mend"}
        <5>1. Live
          BY <4>1 DEF Live
        <5> QED BY <3>3, <4>1, <5>1, Running DEF Quiet
      <4>2. CASE proc.at \in Returning
        <5>1. Live
          BY <4>2 DEF Live
        <5>2. m.state = "prepared"
          BY <3>3, <4>2, <5>1, Running DEF Quiet
        <5> QED BY <4>2, <5>2 DEF ChatAt
      <4>3. CASE proc.at \in Opening
        BY <4>3 DEF ChatAt, AtOld
      <4>4. CASE proc.at \in {"idle", "down", "recover", "retire"}
        BY <3>3, <4>4 DEF ChatAt
      <4>5. proc.at \in Positions
        BY DEF Types, ProcOK, ProcSet
      <4> QED BY <4>1, <4>2, <4>3, <4>4, <4>5 DEF Positions, Opening, Moving, Chatting, Returning
    <3> QED BY <3>1, <3>2, <3>3 DEF ChatAt, Opening, Moving, Returning
  <2> QED BY <2>1, <2>2, <2>3, <2>4, <2>5, <2>6 DEF Ledger
<1>34. CASE Bind
  <2>1. OnePending'
    BY <1>34, BindDoes, NoManifestFields
    DEF OnePending, Pending, Opening, Moving, Chatting, Returning, Live
  <2>2. FilesKnown'
    BY <1>34, BindDoes, NoManifestFields DEF FilesKnown, Active, Pending, FilesFit, Opening
  <2>3. FilesAt'
    BY <1>34, BindDoes
    DEF FilesAt, Published, Returned, m, Opening, Moving, Chatting, Returning, Live
  <2>4. ChatKnown'
    BY <1>34, BindDoes, NoManifestFields
    DEF ChatKnown, Active, Pending, ChatFits, MarksFit, CutOff, m, Opening
  <2>5. ChatAt'
    BY <1>34, BindDoes
    DEF ChatAt, m, AtOld, AtNew, OldTalk, NewTalk, Quiet, Pending, Opening, Moving,
        Chatting, Returning, Live
  <2> QED BY <2>1, <2>2, <2>3, <2>4, <2>5, <1>34, BindDoes, LedgerFrames DEF Ledger
<1>35. CASE UNCHANGED vars
  BY <1>35, LedgerFrames DEF vars, files, chats, past, Ledger
<1> QED BY <1>1, <1>2, <1>3, <1>4, <1>5, <1>6, <1>7, <1>8, <1>9, <1>10, <1>11, <1>12, <1>13,
           <1>14, <1>15, <1>16, <1>17, <1>18, <1>19, <1>20, <1>21, <1>22, <1>23, <1>24,
           <1>25, <1>26, <1>27, <1>28, <1>29, <1>30, <1>31, <1>32, <1>33, <1>34, <1>35
       DEF Next, Step

-----------------------------------------------------------------------------
\* The invariants, and the theorems.

\* The initial state.
LEMMA TypesInit == ASSUME Init PROVE Types /\ Placed
<1>1. DiskOK /\ AsideOK /\ ReadyOK
  BY Contents DEF Init, DiskOK, AsideOK, ReadyOK, Content
<1>2. TalkOK /\ MarksOK
  <2>1. <<>> \in [1..0 -> Turn] /\ 0 \in 0..MaxTurns
    OBVIOUS
  <2> QED BY <2>1 DEF Init, TalkOK, MarksOK, Talk, Marks
<1>3. PastOK
  BY Contents DEF Init, PastOK
<1>4. ManOK /\ \A t \in Tx : man[t] = NoManifest
  BY NoManifestFields DEF Init, ManOK
<1>5. ProcOK /\ proc.at = "idle"
  BY RestFields DEF Init, ProcOK
<1>6. FaultsOK
  BY DEF Init, FaultsOK
<1>7. Placed
  BY <1>4, <1>5, NoManifestFields DEF Placed, Live, Opening, Moving, Chatting, Returning
<1> QED BY <1>1, <1>2, <1>3, <1>4, <1>5, <1>6, <1>7 DEF Types

LEMMA RecordsInit == ASSUME Init PROVE Records
<1>1. \A t \in Tx : man[t] = NoManifest
  BY DEF Init
<1>2. proc.at = "idle" /\ undo = None
  BY RestFields DEF Init
<1>3. \A t \in Tx, p \in Path : aside[t][p] = Absent
  BY DEF Init
<1>4. 0 \in 0..MaxTx /\ \A t \in Tx : man[t] # NoManifest <=> t <= 0
  BY <1>1 DEF Tx
<1>5. StateFits
  BY <1>2 DEF StateFits, Opening, Moving, Chatting, Returning
<1>6. Numbered
  BY <1>1, <1>2, <1>4 DEF Numbered, At
<1>7. UndoFits /\ AsideFits
  BY <1>1, <1>2, <1>3, NoManifestFields DEF UndoFits, AsideFits
<1> QED BY <1>5, <1>6, <1>7 DEF Records

\* Every variable keeps its type: manifests, backups and conversation included.
THEOREM TypeCorrect == Spec => []TypeOK
<1>1. Init => Types /\ Placed
  BY TypesInit
<1>2. Types /\ Placed /\ [Next]_vars => (Types /\ Placed)'
  BY TypesStep, PlacedStep
<1> QED BY <1>1, <1>2, TypesOK, PTL DEF Spec

\* The records are in order at all times.
LEMMA RecordsInvariant == Spec => [](Types /\ Placed /\ Records)
<1>1. Init => Types /\ Placed /\ Records
  BY TypesInit, RecordsInit
<1>2. Types /\ Placed /\ Records /\ [Next]_vars => (Types /\ Placed /\ Records)'
  BY TypesStep, PlacedStep, RecordsStep
<1> QED BY <1>1, <1>2, PTL DEF Spec

\* A rewind that was undone is not offered for undo again, also when the process
\* died before it was marked (commitUndoTransaction, undoneParents).
THEOREM UndoesOnce == Spec => []UndoneOnce
<1>1. Types /\ Placed /\ Records => UndoneOnce
  BY DEF Records, UndoFits, UndoneOnce, At
<1> QED BY <1>1, RecordsInvariant, PTL

\* A transaction destroys what a user wrote by hand only if it was written while
\* that very file is exchanged: an exchange starts from no edit but the one that
\* the transaction restored, and a backup leaves only for the file (publishTarget,
\* compensatePublished).
THEOREM EditsAreKept == Spec => EditsSurvive
<1>1. Types /\ Placed /\ Records /\ [Next]_vars => [EditsKept]_vars
  BY EditsStep DEF Records
<1>2. Spec => [][EditsKept]_vars
  BY <1>1, RecordsInvariant, PTL DEF Spec
<1> QED BY <1>2 DEF EditsSurvive, EditsKept

\* The initial state has nothing pending.
LEMMA LedgerInit == ASSUME Init PROVE Ledger
<1>1. \A t \in Tx : man[t] = NoManifest
  BY DEF Init
<1>2. proc.at = "idle" /\ talk = <<>> /\ \A i \in Turn : marks[i] = None
  BY RestFields DEF Init
<1>3. \A t \in Tx : ~Active(t) /\ ~Pending(t) /\ ~man[t].chat
  BY <1>1, <1>2, NoManifestFields DEF Active, Pending, Opening
<1>4. Match(talk, marks)
  BY <1>2 DEF Match, Turn
<1>5. FilesAt
  BY <1>2 DEF FilesAt, Chatting, Returning
<1>6. ChatAt
  BY <1>2, <1>4 DEF ChatAt, Opening, Moving, Returning
<1> QED BY <1>3, <1>5, <1>6 DEF Ledger, OnePending, FilesKnown, ChatKept, ChatKnown

\* The ledger is right at all times in a calm session.
LEMMA LedgerInvariant == ASSUME Calm PROVE Spec => [](Types /\ Placed /\ Records /\ Ledger)
<1>1. Init => Types /\ Placed /\ Records /\ Ledger
  BY TypesInit, RecordsInit, LedgerInit
<1>2. Types /\ Placed /\ Records /\ Ledger /\ [Next]_vars => (Types /\ Placed /\ Records /\ Ledger)'
  BY TypesStep, PlacedStep, RecordsStep, LedgerStep
<1> QED BY <1>1, <1>2, PTL DEF Spec

\* With no transaction pending there is a checkpoint for every turn of the
\* conversation and for no other, after any failures, crashes and recoveries.
THEOREM CheckpointsFollowTalk == ASSUME Calm PROVE Spec => []CheckpointsMatchTalk
<1>1. Types /\ Placed /\ Records /\ Ledger => CheckpointsMatchTalk
  BY DEF Ledger, ChatAt, Match, Quiet, Pending, Unfinished, At, CheckpointsMatchTalk
<1> QED BY <1>1, LedgerInvariant, PTL

\* What a transaction that ends leaves behind.
Changed(t) ==
  /\ \A p \in man[t].targets : disk[p] \in {man[t].res[p], Edited}
  /\ man[t].chat => talk = NewTalk(t)

Restored(t) ==
  /\ \A p \in man[t].targets : disk[p] \in {man[t].fwd[p], Edited}
  /\ man[t].chat => talk = OldTalk(t)

Settles(t) ==
  man'[t].state # man[t].state =>
    /\ man'[t].state = "committed" => Changed(t)
    /\ man[t].state = "committing" /\ man'[t].state = "aborted" => Restored(t)

Whole == \A t \in Tx : Settles(t)

\* One step ends a transaction only when all or nothing of it was done.
LEMMA WholeStep ==
  ASSUME Types, Placed, Records, Ledger, [Next]_vars
  PROVE  Whole
<1>1. CASE Record
  BY <1>1, RecordDoes DEF Whole, Settles, SetsState, Same, Others
<1>2. CASE RecordFails
  BY <1>2, RecordFailsDoes, NoManifestFields DEF Whole, Settles, Drops, Others
<1>3. CASE Stage
  BY <1>3, StageDoes DEF Whole, Settles
<1>4. CASE ForwardFails
  BY <1>4, ForwardFailsDoes DEF Whole, Settles
<1>5. CASE Start
  BY <1>5, StartDoes DEF Whole, Settles, SetsState, Same, Others
<1>6. CASE Intend
  BY <1>6, IntendDoes DEF Whole, Settles, AddsOut, Same, Others
<1>7. CASE SetAside
  BY <1>7, SetAsideDoes DEF Whole, Settles
<1>8. CASE Place
  BY <1>8, PlaceDoes DEF Whole, Settles
<1>9. CASE FilesDone
  BY <1>9, FilesDoneDoes DEF Whole, Settles
<1>10. CASE MoveTalk
  BY <1>10, MoveTalkDoes DEF Whole, Settles
<1>11. CASE MoveMarks
  BY <1>11, MoveMarksDoes DEF Whole, Settles
<1>12. CASE Seal
  <2>1. SetsState(proc.tx, "committed") /\ proc.at = "seal"
    BY <1>12, SealDoes
  <2>2. Changed(proc.tx)
    BY <2>1 DEF Ledger, FilesAt, ChatAt, Chatting, Published, AtNew, Changed, m
  <2> QED BY <2>1, <2>2 DEF Whole, Settles, SetsState, Others
<1>13. CASE Retire
  BY <1>13, RetireDoes DEF Whole, Settles, SetsState, Same, Others
<1>14. CASE Fail
  BY <1>14, FailDoes DEF Whole, Settles
<1>15. CASE PlaceFails
  BY <1>15, PlaceFailsDoes DEF Whole, Settles
<1>16. CASE FailLate
  BY <1>16, FailLateDoes DEF Whole, Settles
<1>17. CASE Mend
  BY <1>17, MendDoes DEF Whole, Settles
<1>18. CASE MendFails
  BY <1>18, MendFailsDoes DEF Whole, Settles
<1>19. CASE KeepFile
  BY <1>19, KeepFileDoes DEF Whole, Settles
<1>20. CASE LookAtFile
  BY <1>20, LookAtFileDoes DEF Whole, Settles
<1>21. CASE GiveBack
  BY <1>21, GiveBackDoes DEF Whole, Settles
<1>22. CASE ClearFile
  BY <1>22, ClearFileDoes DEF Whole, Settles
<1>23. CASE FinishPutBack
  BY <1>23, FinishPutBackDoes DEF Whole, Settles
<1>24. CASE CompensateFails
  BY <1>24, CompensateFailsDoes DEF Whole, Settles
<1>25. CASE Finish
  <2>1. proc.at = "compensate" /\ proc.todo = {} /\ m = man[proc.tx]
    BY <1>25, FinishDoes DEF m
  <2>2. CASE man' = man
    BY <2>2 DEF Whole, Settles
  <2>3. CASE ~proc.err /\ SetsState(proc.tx, "aborted")
    <3>1. m.state = "committing" => Restored(proc.tx)
      BY <2>1, <2>3 DEF Ledger, FilesAt, ChatAt, Returning, Returned, AtOld, Restored, m
    <3> QED BY <2>1, <2>3, <3>1 DEF Whole, Settles, SetsState, Others
  <2> QED BY <1>25, <2>2, <2>3, FinishDoes
<1>26. CASE Recover
  <2>1. PICK t \in Tx : (man[t].state # "committing" /\ SetsState(t, "aborted")) \/ man' = man
    BY <1>26, RecoverDoes
  <2> QED BY <2>1 DEF Whole, Settles, SetsState, Others
<1>27. CASE Recovered
  BY <1>27, RecoveredDoes DEF Whole, Settles
<1>28. ASSUME NEW w \in Works, TakeTurn(w) PROVE Whole
  BY <1>28, TakeTurnDoes DEF Whole, Settles
<1>29. ASSUME NEW p \in Path, Edit(p) PROVE Whole
  BY <1>29, EditDoes DEF Whole, Settles
<1>30. ASSUME NEW p \in Path, RevertFile(p) PROVE Whole
  <2>1. NewTx \in Tx /\ Others(NewTx) /\ man'[NewTx].state = "none" /\ man[NewTx] = NoManifest
    BY <1>30, RevertFileDoes, NewIsFresh DEF Records, Types
  <2> QED BY <2>1, NoManifestFields DEF Whole, Settles, Others
<1>31. ASSUME NEW k \in Turn, NEW code \in BOOLEAN, NEW chat \in BOOLEAN, Rewind(k, code, chat) PROVE Whole
  <2>1. NewTx \in Tx /\ Others(NewTx) /\ man'[NewTx].state = "none" /\ man[NewTx] = NoManifest
    BY <1>31, RewindDoes, NewIsFresh DEF Records, Types
  <2> QED BY <2>1, NoManifestFields DEF Whole, Settles, Others
<1>32. CASE UndoRewind
  <2>1. NewTx \in Tx /\ Others(NewTx) /\ man'[NewTx].state = "none" /\ man[NewTx] = NoManifest
    BY <1>32, UndoRewindDoes, NewIsFresh DEF Records, Types
  <2> QED BY <2>1, NoManifestFields DEF Whole, Settles, Others
<1>33. CASE Crash
  BY <1>33, CrashDoes, NoManifestFields DEF Whole, Settles
<1>34. CASE Bind
  BY <1>34, BindDoes DEF Whole, Settles
<1>35. CASE UNCHANGED vars
  BY <1>35 DEF vars, Whole, Settles
<1> QED BY <1>1, <1>2, <1>3, <1>4, <1>5, <1>6, <1>7, <1>8, <1>9, <1>10, <1>11, <1>12, <1>13,
           <1>14, <1>15, <1>16, <1>17, <1>18, <1>19, <1>20, <1>21, <1>22, <1>23, <1>24,
           <1>25, <1>26, <1>27, <1>28, <1>29, <1>30, <1>31, <1>32, <1>33, <1>34, <1>35
       DEF Next, Step

\* A transaction that ends has changed all its files and the conversation, or none
\* of them; what the user wrote meanwhile is exempt (commitTransaction,
\* compensatePublished, recoverTransactions).
THEOREM WholeOrNothing == ASSUME Calm PROVE Spec => AllOrNothing
<1>1. Types /\ Placed /\ Records /\ Ledger /\ [Next]_vars => [Whole]_vars
  BY WholeStep
<1>2. Spec => [][Whole]_vars
  BY <1>1, LedgerInvariant, PTL DEF Spec
<1> QED BY <1>2 DEF AllOrNothing, Whole, Settles, Changed, Restored
=============================================================================
