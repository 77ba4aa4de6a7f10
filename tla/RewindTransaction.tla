--------------------------- MODULE RewindTransaction ---------------------------
(***************************************************************************)
(* Rewinding a session (kernel/internal/state/checkpoint/transaction.go):   *)
(* files and conversation go back to where a turn began, or none of it      *)
(* does, through failed writes, crashes and files the user edits meanwhile. *)
(*                                                                         *)
(* A transaction keeps a manifest on disk.  Every target is published by    *)
(* two renames, the file to a backup and a prepared temporary to the file;  *)
(* the conversation and the checkpoints follow; the last write of the       *)
(* manifest commits.  What fails is compensated at once, or when the        *)
(* session is bound the next time.                                         *)
(*                                                                         *)
(* Turns are numbered afresh, so that a turn stands for its messages and    *)
(* its checkpoint; content n is what turn n wrote.  A plan that became      *)
(* stale is refused (generation, revision), so a commit sees what its       *)
(* preview saw.  Paths are numbered in the order of their names.            *)
(***************************************************************************)
EXTENDS Naturals, Sequences, FiniteSets, FiniteSetsExt

CONSTANTS
  Path,
  Absent,     \* content of a file that does not exist
  Edited,     \* content a user wrote by hand
  Initial,    \* the files before the first turn
  Works,      \* what turns do to the files
  MaxTurns, MaxTx, MaxFaults,   \* bounds
  Faults      \* "edit", "carryon", "stale": what else may happen in this instance

Turn == 1..MaxTurns
Tx == 1..MaxTx
None == 0
Content == {None} \cup Turn \cup {Absent, Edited}
Work == [Path -> {"keep", "write", "remove"}]

ASSUME PathAssumption == Path \subseteq Nat \ {0} /\ IsFiniteSet(Path)
ASSUME ContentAssumption == Absent # Edited /\ {Absent, Edited} \cap Nat = {}
ASSUME BoundAssumption == MaxTurns \in Nat \ {0} /\ MaxTx \in Nat /\ MaxFaults \in Nat
ASSUME WorkAssumption == Works \subseteq Work /\ Initial \in [Path -> {None, Absent}]

Marks == [Turn -> Turn \cup {None}]   \* checkpoint files, by turn number
Talk == UNION {[1..n -> Turn] : n \in 0..MaxTurns}

Manifest == [state: {"none", "prepared", "committing", "committed", "aborted", "undone"},
             kind: {"rewind", "undo", "revert"}, parent: Tx \cup {None},
             chat: BOOLEAN,            \* the scope includes the conversation
             cut: Turn,                \* the turn number to go back to
             targets: SUBSET Path, out: SUBSET Path,   \* out: Published
             res: [Path -> Content],   \* what the targets become
             fwd: [Path -> Content],   \* what they were
             talk: Talk, marks: Marks] \* the forward conversation, checkpoint backup

VARIABLES
  disk,    \* the files
  aside,   \* aside[t][p]: the backup of p
  ready,   \* ready[t]: the paths whose temporaries exist
  talk,    \* the conversation, as its turns
  marks,   \* the checkpoints
  pre,     \* pre[n][p]: p before turn n touched it
  post,    \* post[n][p]: p after turn n, None if it did not touch it
  turns,   \* turns taken
  man,     \* the manifests; state "none": in memory only
  undo,    \* lastUndo
  proc,    \* the process: what it is at, and of which transaction
  faults   \* bound: crashes and failures so far

files == <<disk, aside, ready>>
chats == <<talk, marks>>
past == <<pre, post, turns>>
vars == <<files, chats, past, man, undo, proc, faults>>

Rest == [at |-> "idle", tx |-> None, path |-> None, todo |-> {}, err |-> FALSE,
         binding |-> FALSE, visit |-> {}]

TypeOK ==
  /\ disk \in [Path -> Content]
  /\ aside \in [Tx -> [Path -> Content]]
  /\ ready \in [Tx -> SUBSET Path]
  /\ talk \in Talk /\ marks \in Marks
  /\ pre \in [Turn -> [Path -> Content]] /\ post \in [Turn -> [Path -> Content]]
  /\ turns \in 0..MaxTurns
  /\ man \in [Tx -> Manifest]
  /\ undo \in Tx \cup {None}
  /\ proc \in [at: {"idle", "record", "stage", "start", "next", "move", "place", "talk", "marks", "seal",
                   "retire", "mend", "compensate", "giveback", "clear", "putback", "recover", "down"},
              tx: Tx \cup {None}, path: Path \cup {None}, todo: SUBSET Path, err: BOOLEAN,
              binding: BOOLEAN, visit: SUBSET Tx]
  /\ faults \in 0..MaxFaults

NoManifest == [state |-> "none", kind |-> "rewind", parent |-> None, chat |-> FALSE, cut |-> 1,
               targets |-> {}, out |-> {}, res |-> [p \in Path |-> Absent],
               fwd |-> [p \in Path |-> Absent], talk |-> <<>>, marks |-> [i \in Turn |-> None]]

Init ==
  /\ disk = Initial
  /\ aside = [t \in Tx |-> [p \in Path |-> Absent]]
  /\ ready = [t \in Tx |-> {}]
  /\ talk = <<>> /\ marks = [i \in Turn |-> None]
  /\ pre = [n \in Turn |-> [p \in Path |-> None]] /\ post = pre
  /\ turns = 0
  /\ man = [t \in Tx |-> NoManifest]
  /\ undo = None
  /\ proc = Rest
  /\ faults = 0

-----------------------------------------------------------------------------
m == man[proc.tx]

At(step) == proc.at = step
Goto(step) == proc' = [proc EXCEPT !.at = step]

\* Something goes wrong: faults are counted.
Fault == faults < MaxFaults /\ faults' = faults + 1

Unfinished == {t \in Tx : man[t].state = "committing"}

\* The turn gate is free.  With "carryon" a user works on although an earlier
\* transaction could not be finished.
Free == At("idle") /\ (Unfinished = {} \/ "carryon" \in Faults)

NextTurn == 1 + Max({0} \cup {i \in Turn : marks[i] # None})

TakeTurn(w) ==
  LET n == turns + 1 IN
  /\ Free /\ turns < MaxTurns /\ NextTurn \in Turn /\ Len(talk) < MaxTurns
  /\ \A p \in Path : w[p] = "remove" => disk[p] # Absent
  /\ turns' = n
  /\ talk' = Append(talk, n)
  /\ marks' = [marks EXCEPT ![NextTurn] = n]
  /\ pre' = [pre EXCEPT ![n] = disk]
  /\ disk' = [p \in Path |-> CASE w[p] = "keep" -> disk[p] [] w[p] = "write" -> n [] w[p] = "remove" -> Absent]
  /\ post' = [post EXCEPT ![n] = [p \in Path |-> IF w[p] = "keep" THEN None ELSE disk'[p]]]
  /\ undo' = None
  /\ UNCHANGED <<aside, ready, man, proc, faults>>

\* A user writes a file by hand, also while a transaction works on it.
Edit(p) ==
  /\ "edit" \in Faults /\ faults < MaxFaults
  /\ disk' = [disk EXCEPT ![p] = Edited]
  /\ faults' = faults + 1
  /\ UNCHANGED <<aside, ready, chats, past, man, undo, proc>>

-----------------------------------------------------------------------------
\* The turn numbers from k on whose checkpoints hold p, and what they say.
Touched(k, p) == {i \in Turn : i >= k /\ marks[i] # None /\ post[marks[i]][p] # None}
Targets(k) == {p \in Path : Touched(k, p) # {}}
Earliest(k, p) == pre[marks[Min(Touched(k, p))]][p]
LastOwned(k, p) == post[marks[Max(Touched(k, p))]][p]

Writes(targets, res) == {p \in targets : res[p] # Absent}

NewTx == 1 + Cardinality({t \in Tx : man[t] # NoManifest})

Open(new, temps) ==
  /\ NewTx \in Tx
  /\ man' = [man EXCEPT ![NewTx] = new]
  /\ ready' = [ready EXCEPT ![NewTx] = temps]
  /\ proc' = [proc EXCEPT !.at = "record", !.tx = NewTx]
  /\ UNCHANGED <<disk, aside, chats, past, undo, faults>>

\* The temporaries of a rewind are written first, those of an undo after the
\* first manifest.
OpenRewind(kind, chat, k, targets) ==
  LET res == [p \in Path |-> IF p \in targets THEN Earliest(k, p) ELSE Absent] IN
  Open([NoManifest EXCEPT !.kind = kind, !.chat = chat, !.cut = k, !.targets = targets,
                          !.res = res, !.fwd = disk, !.talk = talk, !.marks = marks],
       Writes(targets, res))

Rewind(k, code, chat) ==
  LET targets == IF code THEN Targets(k) ELSE {} IN
  /\ Free /\ marks[k] # None /\ (code \/ chat)
  /\ (code /\ ~chat) => targets # {}
  /\ chat => k <= Len(talk) + 1
  /\ \A p \in targets : disk[p] = LastOwned(k, p)
  /\ OpenRewind("rewind", chat, k, targets)

\* One file, to what it was before the session; the user may have agreed to
\* overwrite what he wrote himself.
RevertFile(p) ==
  /\ Free /\ p \in Targets(1)
  /\ OpenRewind("revert", FALSE, 1, {p})

\* The two ends of a transaction.
OldTalk(t) == IF man[t].kind = "undo" THEN SubSeq(man[t].talk, 1, man[t].cut - 1) ELSE man[t].talk
NewTalk(t) ==
  IF ~man[t].chat \/ man[t].kind = "undo" THEN man[t].talk ELSE SubSeq(man[t].talk, 1, man[t].cut - 1)

\* A frontend forgets what it could undo when the next turn begins; the store
\* does so only until it is opened again ("stale").
UndoRewind ==
  LET last == man[undo] IN
  /\ Free /\ undo # None
  /\ talk = NewTalk(undo) \/ "stale" \in Faults
  /\ \A p \in last.targets : disk[p] = last.res[p]
  /\ Open([last EXCEPT !.state = "none", !.kind = "undo", !.parent = undo,
                       !.out = {}, !.res = last.fwd, !.fwd = last.res],
          {})

-----------------------------------------------------------------------------
Persist(state) == man' = [man EXCEPT ![proc.tx].state = state]

Record ==
  /\ At("record")
  /\ Persist("prepared")
  /\ Goto(IF m.kind = "undo" THEN "stage" ELSE "start")
  /\ UNCHANGED <<files, chats, past, undo, faults>>

RecordFails ==
  /\ At("record") /\ Fault
  /\ man' = [man EXCEPT ![proc.tx] = NoManifest]
  /\ ready' = [ready EXCEPT ![proc.tx] = {}]
  /\ proc' = Rest
  /\ UNCHANGED <<disk, aside, chats, past, undo>>

Stage ==
  /\ At("stage")
  /\ ready' = [ready EXCEPT ![proc.tx] = Writes(m.targets, m.res)]
  /\ Goto("start")
  /\ UNCHANGED <<disk, aside, chats, past, man, undo, faults>>

\* The conversation is recorded in a second manifest: without it the rewind is
\* given up, still prepared.
ForwardFails ==
  /\ At("start") /\ m.kind = "rewind" /\ Fault
  /\ proc' = Rest
  /\ UNCHANGED <<files, chats, past, man, undo>>

Start ==
  /\ At("start")
  /\ Persist("committing")
  /\ Goto("next")
  /\ UNCHANGED <<files, chats, past, undo, faults>>

\* "May have published" is on disk before the first rename.
Intend ==
  LET p == Min(m.targets \ m.out) IN
  /\ At("next") /\ m.out # m.targets
  /\ man' = [man EXCEPT ![proc.tx].out = @ \cup {p}]
  /\ proc' = [proc EXCEPT !.at = "move", !.path = p]
  /\ UNCHANGED <<files, chats, past, undo, faults>>

\* What is there when the rename runs goes to the backup.
SetAside ==
  LET p == proc.path IN
  /\ At("move")
  /\ aside' = [aside EXCEPT ![proc.tx][p] = disk[p]]
  /\ disk' = [disk EXCEPT ![p] = Absent]
  /\ Goto(IF m.res[p] = Absent THEN "next" ELSE "place")
  /\ UNCHANGED <<ready, chats, past, man, undo, faults>>

\* The second rename replaces whatever came in between.
Place ==
  LET p == proc.path IN
  /\ At("place")
  /\ disk' = [disk EXCEPT ![p] = m.res[p]]
  /\ ready' = [ready EXCEPT ![proc.tx] = @ \ {p}]
  /\ Goto("next")
  /\ UNCHANGED <<aside, chats, past, man, undo, faults>>

\* An undo puts the conversation back even when the rewind left it alone.
MovesTalk == m.chat \/ (m.kind = "undo" /\ man[m.parent].kind = "rewind")

FilesDone ==
  /\ At("next") /\ m.out = m.targets
  /\ Goto(IF MovesTalk THEN "talk" ELSE "seal")
  /\ UNCHANGED <<files, chats, past, man, undo, faults>>

\* What the two halves of the conversation become, forwards and back.
Lost == m.cut > Len(talk) + 1   \* compacted past this point: nothing is cut
CutTalk == IF Lost THEN talk ELSE SubSeq(talk, 1, m.cut - 1)
CutMarks == [i \in Turn |-> IF i >= m.cut THEN None ELSE marks[i]]
OldMarks == [i \in Turn |-> IF i >= m.cut /\ m.marks[i] # None THEN m.marks[i] ELSE marks[i]]

MoveTalk ==
  /\ At("talk")
  /\ talk' = IF m.kind = "undo" THEN m.talk ELSE CutTalk
  /\ Goto(IF m.chat THEN "marks" ELSE "seal")
  /\ UNCHANGED <<files, marks, past, man, undo, faults>>

NewMarks == IF m.kind = "undo" THEN OldMarks ELSE CutMarks

MoveMarks ==
  /\ At("marks")
  /\ marks' = NewMarks
  /\ Goto("seal")
  /\ UNCHANGED <<files, talk, past, man, undo, faults>>

Seal ==
  /\ At("seal")
  /\ Persist("committed")
  /\ IF m.kind = "undo" THEN Goto("retire") /\ UNCHANGED undo
                        ELSE proc' = Rest /\ undo' = proc.tx
  /\ UNCHANGED <<files, chats, past, faults>>

\* The undone rewind is marked last, and that may fail.
Retire ==
  /\ At("retire")
  /\ \/ man' = [man EXCEPT ![m.parent].state = "undone"] /\ UNCHANGED faults
     \/ Fault /\ UNCHANGED man
  /\ undo' = None
  /\ proc' = Rest
  /\ UNCHANGED <<files, chats, past>>

-----------------------------------------------------------------------------
Compensating(err) == proc' = [proc EXCEPT !.at = "compensate", !.todo = m.targets, !.err = err]

\* A write or a rename fails before the conversation was touched.
Fail ==
  /\ proc.at \in {"stage", "start", "next", "move"} /\ Fault
  /\ Compensating(FALSE)
  /\ UNCHANGED <<files, chats, past, man, undo>>

\* The backup is put back, if that works.
PlaceFails ==
  LET p == proc.path IN
  /\ At("place") /\ Fault
  /\ \/ /\ aside[proc.tx][p] # Absent
        /\ disk' = [disk EXCEPT ![p] = aside[proc.tx][p]]
        /\ aside' = [aside EXCEPT ![proc.tx][p] = Absent]
     \/ UNCHANGED <<disk, aside>>
  /\ Compensating(FALSE)
  /\ UNCHANGED <<ready, chats, past, man, undo>>

Between(old, new) == {f \in Marks : \A i \in Turn : f[i] \in {old[i], new[i]}}

\* A failure from there on first puts the conversation back.
FailLate ==
  /\ proc.at \in {"talk", "marks", "seal"} /\ Fault
  /\ marks' \in IF At("marks") THEN Between(marks, NewMarks) ELSE {marks}
  /\ Goto("mend")
  /\ UNCHANGED <<files, talk, past, man, undo>>

\* As if the messages were appended to what is there.
AppendedTalk == IF ~m.chat THEN talk ELSE IF m.kind = "undo" THEN CutTalk ELSE talk \o m.talk

MendedTalk == IF ~m.chat THEN talk ELSE IF m.kind = "undo" THEN CutTalk ELSE m.talk
MendedMarks == IF ~m.chat THEN marks ELSE IF m.kind = "undo" THEN CutMarks ELSE OldMarks

MendsLost == m.chat /\ m.kind = "undo" /\ Lost

\* As if the checkpoints were left where the failure found them.
MendTalkOnly ==
  /\ At("mend")
  /\ talk' = MendedTalk
  /\ Compensating(proc.err)
  /\ UNCHANGED <<files, marks, past, man, undo, faults>>

Mend ==
  /\ At("mend") /\ ~MendsLost
  /\ talk' = MendedTalk /\ marks' = MendedMarks
  /\ Compensating(proc.err)
  /\ UNCHANGED <<files, past, man, undo, faults>>

\* At a bind the files then have to wait as well.
MendFails ==
  /\ At("mend") /\ (m.chat \/ m.kind = "rewind")
  /\ IF MendsLost THEN UNCHANGED faults ELSE Fault
  /\ talk' \in {talk, MendedTalk} /\ marks' \in Between(marks, MendedMarks)
  /\ IF proc.binding THEN Goto("recover") ELSE Compensating(TRUE)
  /\ UNCHANGED <<files, past, man, undo>>

\* As if an absent file were always somebody else's doing.
NeverHalfPublished(p) == p \notin Path

\* The process died between the two renames that publish p.
HalfPublished(p) ==
  /\ m.fwd[p] # Absent /\ disk[p] = Absent
  /\ aside[proc.tx][p] = m.fwd[p]
  /\ m.res[p] = Absent \/ p \in ready[proc.tx]

Untouched(p) == p \notin m.out \/ disk[p] = m.fwd[p]

Compensated(p, err) == proc' = [proc EXCEPT !.at = "compensate", !.todo = @ \ {p}, !.err = @ \/ err]

Unready(p) == ready' = [ready EXCEPT ![proc.tx] = @ \ {p}]

PutBack(p) ==
  /\ disk' = [disk EXCEPT ![p] = IF aside[proc.tx][p] # Absent THEN aside[proc.tx][p] ELSE m.fwd[p]]
  /\ aside' = [aside EXCEPT ![proc.tx][p] = Absent]

\* What was not published stays, and so does what somebody else wrote.
KeepFile ==
  LET p == Max(proc.todo) IN
  /\ At("compensate") /\ proc.todo # {}
  /\ \/ Untouched(p) /\ Unready(p) /\ Compensated(p, FALSE)
     \/ /\ ~Untouched(p) /\ ~HalfPublished(p) /\ disk[p] # m.res[p]
        /\ Compensated(p, TRUE) /\ UNCHANGED ready
  /\ UNCHANGED <<disk, aside, chats, past, man, undo, faults>>

Takes(p, step) == proc' = [proc EXCEPT !.at = step, !.path = p]

\* As if what is in the place of a published file were never compared with it.
LookAtNothing ==
  LET p == Max(proc.todo) IN
  /\ At("compensate") /\ proc.todo # {} /\ ~Untouched(p)
  /\ Takes(p, IF HalfPublished(p) THEN "giveback" ELSE IF disk[p] # Absent THEN "clear" ELSE "putback")
  /\ UNCHANGED <<files, chats, past, man, undo, faults>>

\* The fingerprint decides; what it found is not compared again before the file
\* is removed or replaced.
LookAtFile ==
  LET p == Max(proc.todo) IN
  /\ At("compensate") /\ proc.todo # {} /\ ~Untouched(p)
  /\ \/ HalfPublished(p) /\ Takes(p, "giveback")
     \/ /\ ~HalfPublished(p) /\ disk[p] = m.res[p]
        /\ Takes(p, IF m.res[p] # Absent THEN "clear" ELSE "putback")
  /\ UNCHANGED <<files, chats, past, man, undo, faults>>

\* The first of the two renames is taken back; a prepared temporary may stay.
GiveBack ==
  LET p == proc.path IN
  /\ At("giveback") /\ PutBack(p)
  /\ \/ Unready(p) /\ Compensated(p, FALSE) /\ UNCHANGED faults
     \/ m.res[p] # Absent /\ Fault /\ Compensated(p, TRUE) /\ UNCHANGED ready
  /\ UNCHANGED <<chats, past, man, undo>>

\* What was published goes; a file that was there comes back after it.
ClearFile ==
  LET p == proc.path IN
  /\ At("clear")
  /\ disk' = [disk EXCEPT ![p] = Absent]
  /\ IF m.fwd[p] = Absent THEN Compensated(p, FALSE) ELSE Goto("putback")
  /\ UNCHANGED <<aside, ready, chats, past, man, undo, faults>>

FinishPutBack ==
  /\ At("putback")
  /\ PutBack(proc.path) /\ Compensated(proc.path, FALSE)
  /\ UNCHANGED <<ready, chats, past, man, undo, faults>>

\* Nobody takes up again what fails, or dies, between the removal and the rename.
CompensateFails ==
  /\ \/ LET p == Max(proc.todo) IN
        At("compensate") /\ proc.todo # {} /\ p \in m.out /\ Compensated(p, TRUE)
     \/ proc.at \in {"giveback", "clear", "putback"} /\ Compensated(proc.path, TRUE)
  /\ Fault
  /\ UNCHANGED <<files, chats, past, man, undo>>

Back == proc' = IF proc.binding THEN [Rest EXCEPT !.at = "recover", !.binding = TRUE, !.visit = proc.visit]
                                ELSE Rest

\* As if a failed compensation ended the transaction as well.
FinishAlways ==
  /\ At("compensate") /\ proc.todo = {}
  /\ Back
  /\ Persist("aborted")
  /\ UNCHANGED <<files, chats, past, undo, faults>>

\* A compensation that failed leaves the transaction committing, for the next bind.
Finish ==
  /\ At("compensate") /\ proc.todo = {}
  /\ Back
  /\ \/ proc.err /\ UNCHANGED <<man, faults>>
     \/ ~proc.err /\ Persist("aborted") /\ UNCHANGED faults
     \/ ~proc.err /\ Fault /\ UNCHANGED man
  /\ UNCHANGED <<files, chats, past, undo>>

-----------------------------------------------------------------------------
Crash ==
  /\ ~At("down") /\ Fault
  /\ man' = [t \in Tx |-> IF man[t].state = "none" THEN NoManifest ELSE man[t]]
  /\ undo' = None
  /\ proc' = [Rest EXCEPT !.at = "down"]
  /\ UNCHANGED <<files, chats, past>>

\* The session is opened, after a crash or beside another one.
Bind ==
  /\ At("down") \/ At("idle")
  /\ undo' = None
  /\ proc' = [Rest EXCEPT !.at = "recover", !.binding = TRUE,
                          !.visit = {t \in Tx : man[t].state \in {"prepared", "committing"}}]
  /\ UNCHANGED <<files, chats, past, man, faults>>

\* As if only the mark on the rewind itself counted.
CommittedRewinds == {t \in Tx : man[t].state = "committed" /\ man[t].kind # "undo"}

\* The newest rewind on disk that no undo has committed against.
Undoable ==
  {t \in Tx : /\ man[t].state = "committed" /\ man[t].kind # "undo"
              /\ \A u \in Tx : ~(man[u].kind = "undo" /\ man[u].state = "committed" /\ man[u].parent = t)}

Offered == Max({None} \cup Undoable)

RecoverPrepared(t) ==
  /\ man[t].state = "prepared"
  /\ ready' = [ready EXCEPT ![t] = {}]
  /\ \/ man' = [man EXCEPT ![t].state = "aborted"] /\ UNCHANGED faults
     \/ Fault /\ UNCHANGED man
  /\ proc' = [proc EXCEPT !.visit = @ \ {t}]

RecoverCommitting(t) ==
  /\ man[t].state = "committing"
  /\ proc' = [proc EXCEPT !.visit = @ \ {t}, !.tx = t, !.err = FALSE, !.todo = man[t].targets,
                          !.at = IF man[t].chat THEN "mend" ELSE "compensate"]
  /\ UNCHANGED <<ready, man, faults>>

Recover ==
  /\ At("recover") /\ proc.visit # {}
  /\ LET t == Min(proc.visit) IN RecoverPrepared(t) \/ RecoverCommitting(t)
  /\ UNCHANGED <<disk, aside, chats, past, undo>>

Recovered ==
  /\ At("recover") /\ proc.visit = {}
  /\ undo' = Offered
  /\ proc' = Rest
  /\ UNCHANGED <<files, chats, past, man, faults>>

Step ==
  \/ Record \/ RecordFails \/ Stage \/ ForwardFails \/ Start
  \/ Intend \/ SetAside \/ Place \/ FilesDone \/ MoveTalk \/ MoveMarks \/ Seal \/ Retire
  \/ Fail \/ PlaceFails \/ FailLate \/ Mend \/ MendFails
  \/ KeepFile \/ LookAtFile \/ GiveBack \/ ClearFile \/ FinishPutBack \/ CompensateFails \/ Finish
  \/ Recover \/ Recovered

Next ==
  \/ Step
  \/ \E w \in Works : TakeTurn(w)
  \/ \E p \in Path : Edit(p) \/ RevertFile(p)
  \/ \E k \in Turn, code, chat \in BOOLEAN : Rewind(k, code, chat)
  \/ UndoRewind
  \/ Crash \/ Bind

Spec == Init /\ [][Next]_vars

FairSpec == Spec /\ WF_vars(Step)

-----------------------------------------------------------------------------
\* A transaction that ends has changed all its files and the conversation, or
\* none of them; only what the user wrote meanwhile is exempt
\* (commitTransaction, compensatePublished, recoverTransactions).
AllOrNothing ==
  [][\A t \in Tx :
       man'[t].state # man[t].state =>
         /\ man'[t].state = "committed" =>
              /\ \A p \in man[t].targets : disk[p] \in {man[t].res[p], Edited}
              /\ man[t].chat => talk = NewTalk(t)
         /\ man[t].state = "committing" /\ man'[t].state = "aborted" =>
              /\ \A p \in man[t].targets : disk[p] \in {man[t].fwd[p], Edited}
              /\ man[t].chat => talk = OldTalk(t)]_vars

\* With no transaction pending there is a checkpoint for every turn of the
\* conversation and for no other, whatever failed in between
\* (TruncateCheckpoints, RestoreCheckpoints against the conversation's own).
CheckpointsMatchTalk ==
  At("idle") /\ Unfinished = {} =>
    \A i \in Turn : marks[i] = IF i <= Len(talk) THEN talk[i] ELSE None

\* The transaction has looked at p and not yet finished its exchange.
Exchanging(p) == proc.at \in {"place", "giveback", "clear", "putback"} /\ proc.path = p

\* An edit that is there when a transaction looks at the file survives: the
\* exchange of a file starts only from what the transaction itself put there,
\* only an exchange destroys an edit, and a backup leaves only for the file.  The
\* code does not look again: what is written during the exchange of that very
\* file is lost (publishTarget, compensatePublished).
EditsSurvive ==
  [][\A p \in Path :
       /\ ~Exchanging(p) /\ Exchanging(p)' /\ disk'[p] = Edited => m.res[p] = Edited
       /\ disk[p] = Edited /\ disk'[p] # Edited /\ turns' = turns =>
            Exchanging(p) \/ \E t \in Tx : aside[t][p] # Edited /\ aside'[t][p] = Edited
       /\ \A t \in Tx : aside[t][p] = Edited /\ aside'[t][p] # Edited => disk'[p] = Edited]_vars

\* A rewind that was undone is not offered for undo again, also when the
\* process died before it was marked (commitUndoTransaction, undoneParents).
UndoneOnce ==
  At("idle") =>
    \A t \in Tx : man[t].kind = "undo" /\ man[t].state = "committed" => undo # man[t].parent

\* The removal of a published file was not followed by the return of the old one.
Stranded(t, p) ==
  /\ disk[p] = Absent /\ man[t].res[p] # Absent
  /\ p \in man[t].out \ ready[t]

\* Once nothing fails any more, binding the session finishes every transaction,
\* except where a user wrote into its files or a compensation was cut in two
\* (recoverTransactions, compensatePublished).
RecoveryConverges ==
  []<>At("recover") =>
    \A t \in Tx :
      <>[](\/ man[t].state \notin {"prepared", "committing"}
           \/ \E p \in Path : Edited \in {disk[p], aside[t][p]} \/ Stranded(t, p))
=============================================================================
