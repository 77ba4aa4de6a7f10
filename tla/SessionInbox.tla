----------------------------- MODULE SessionInbox -----------------------------
(***************************************************************************)
(* The durable inbox of a session on disk                                  *)
(* (kernel/internal/state/sessioninbox): a manifest that lists the items,   *)
(* one immutable blob per body, and a lock file.                           *)
(*                                                                         *)
(* A transaction takes the lock, loads the manifest, decides, writes the    *)
(* new blob, replaces the manifest and removes the blobs it no longer       *)
(* names.  Several processes (runs) may have the inbox open; the lock is    *)
(* the operating system's, so that a crash between two of these steps       *)
(* frees it.  Any write may fail.                                          *)
(*                                                                         *)
(* An id and a blob name are fresh random names: here the next number.      *)
(* A body is written once under its name, so the name stands for the body   *)
(* and its checksum.  The order of the items, intents and previews are left *)
(* out.  A refused operation leaves the disk as the load left it, see Leave.*)
(***************************************************************************)
EXTENDS Naturals, FiniteSets

CONSTANTS
  Run,         \* processes, each with its own run id
  NoRun,
  Key,         \* idempotency keys of the clients
  NoKey,
  MaxItems,    \* Limits.MaxItems
  MaxReceipts, \* maxIdempotencyReceipts
  MaxNames,    \* bound: the names minted
  Faults       \* "corrupt", "midsalvage": what may go wrong in this instance

ASSUME RunAssumption == NoRun \notin Run
ASSUME KeyAssumption == NoKey \notin Key
ASSUME LimitAssumption == MaxItems \in Nat /\ MaxReceipts \in Nat /\ MaxNames \in Nat

Name == 1..MaxNames
None == 0
Body == Name \cup {None}

InFlight == {"running", "steer_accepted", "steer_consumed"}
Pending == {"queued", "blocked", "uncertain"}
State == InFlight \cup Pending \cup {"gone"}

Manifest == [run: Run \cup {NoRun}, paused: BOOLEAN, recovered: BOOLEAN,
             state: [Name -> State],              \* "gone": not listed
             blob: [Name -> Body],
             bound: [Key -> Body],    \* Idempotency: the item of a key
             receipts: [Key -> Body]] \* the settled item of a key

\* What the caller of a transaction may rely on once it is committed.
Effect == [owes: SUBSET Name,  \* bodies the store has taken charge of
           pays: SUBSET Body,  \* bodies it is done with
           spends: SUBSET Name,\* items handed to a turn, or settled
           frees: SUBSET Name, \* items put back for another turn
           takes: SUBSET Name, \* items the run takes in flight
           keys: SUBSET Key,   \* keys whose request took effect
           lost: SUBSET Key]   \* keys the cap on receipts makes it forget

VARIABLES
  live,    \* live[r]: "new", "up" or "dead"
  file,    \* the manifest file: "absent", "present" or "corrupt"
  man,     \* what it holds when present
  blobs,   \* the blob files
  minted,  \* names used up
  tx,      \* the transaction that holds mu and the lock
  owed,    \* history: bodies accepted and not settled
  spent,   \* history: items handed out or settled since they were last put back
  taker,   \* history: the run that took an item in flight
  effects  \* history: how often a key took effect while the store had to know it

disk == <<file, man, blobs>>
history == <<owed, spent, taker, effects>>
vars == <<live, disk, minted, tx, history>>

Listed(m) == {n \in Name : m.state[n] # "gone"}
Bodies(m) == {m.blob[n] : n \in Listed(m)}

Empty(r) ==
  [run |-> r, paused |-> FALSE, recovered |-> FALSE,
   state |-> [n \in Name |-> "gone"], blob |-> [n \in Name |-> None],
   bound |-> [k \in Key |-> None], receipts |-> [k \in Key |-> None]]

Nothing == [owes |-> {}, pays |-> {}, spends |-> {}, frees |-> {}, takes |-> {},
            keys |-> {}, lost |-> {}]

Idle == [run |-> NoRun, at |-> "idle", next |-> Empty(NoRun), fresh |-> None,
         drop |-> {}, did |-> Nothing]

Transaction ==
  {t \in [run: Run \cup {NoRun},
          at: {"idle", "ready", "adopt", "salvage", "blob", "commit", "clean"},
          next: Manifest, fresh: Body, drop: SUBSET Body, did: Effect] :
     t.at = "blob" => t.fresh # None}

TypeOK ==
  /\ live \in [Run -> {"new", "up", "dead"}]
  /\ file \in {"absent", "present", "corrupt"}
  /\ man \in Manifest
  /\ blobs \subseteq Name
  /\ minted \in 0..MaxNames
  /\ tx \in Transaction
  /\ owed \subseteq Name
  /\ spent \subseteq Name
  /\ taker \in [Name -> Run \cup {NoRun}]
  /\ effects \in [Key -> Nat]

Init ==
  /\ live = [r \in Run |-> "new"]
  /\ file = "absent" /\ man = Empty(NoRun)
  /\ blobs = {} /\ minted = 0
  /\ tx = Idle
  /\ owed = {} /\ spent = {}
  /\ taker = [n \in Name |-> NoRun]
  /\ effects = [k \in Key |-> 0]

-----------------------------------------------------------------------------
\* A process opens the inbox (and dies, see Crash).
Start(r) ==
  /\ live[r] = "new"
  /\ live' = [live EXCEPT ![r] = "up"]
  /\ UNCHANGED <<disk, minted, tx, history>>

\* Mutants of Adopted: the load keeps, or requeues, what another run has in flight.
AdoptedInFlight(m, r) == [m EXCEPT !.run = r, !.paused = TRUE, !.recovered = TRUE]

AdoptedQueued(m, r) ==
  [m EXCEPT !.run = r, !.paused = TRUE, !.recovered = TRUE,
            !.state = [n \in Name |-> IF m.state[n] \in InFlight THEN "queued" ELSE m.state[n]]]

\* What another run left in flight is uncertain, and the inbox is paused for review.
Adopted(m, r) ==
  [m EXCEPT !.run = r, !.paused = TRUE, !.recovered = TRUE,
            !.state = [n \in Name |-> IF m.state[n] \in InFlight THEN "uncertain" ELSE m.state[n]]]

\* Mutant of Salvaged: a corrupt manifest is replaced by an empty inbox.
SalvagedEmpty(found, r) == [Empty(r) EXCEPT !.paused = TRUE, !.recovered = TRUE]

\* Every blob on disk as an item of its own, to be reviewed.
Salvaged(found, r) ==
  [Empty(r) EXCEPT !.paused = TRUE, !.recovered = TRUE,
                   !.state = [n \in Name |-> IF n \in found THEN "uncertain" ELSE "gone"],
                   !.blob = [n \in Name |-> IF n \in found THEN n ELSE None]]

Begin(r, at, next) ==
  /\ tx.at = "idle" /\ live[r] = "up"
  /\ tx' = [Idle EXCEPT !.run = r, !.at = at, !.next = next]

LoadFresh(r) ==
  /\ file = "absent"
  /\ Begin(r, "ready", Empty(r))
  /\ UNCHANGED <<live, disk, minted, history>>

\* Blobs no item names are moved to quarantine; a move may fail.
LoadOwn(r) ==
  /\ file = "present"
  /\ man.run = r \/ Listed(man) = {}
  /\ Begin(r, "ready", [man EXCEPT !.run = r])
  /\ \E orphans \in SUBSET (blobs \ Bodies(man)) : blobs' = blobs \ orphans
  /\ UNCHANGED <<live, file, man, minted, history>>

LoadForeign(r) ==
  /\ file = "present"
  /\ man.run # r /\ Listed(man) # {}
  /\ Begin(r, "adopt", Adopted(man, r))
  /\ UNCHANGED <<live, disk, minted, history>>

\* The corrupt file is moved to quarantine, or stays when that fails.
LoadCorrupt(r) ==
  /\ file = "corrupt"
  /\ Begin(r, "salvage", Salvaged(blobs, r))
  /\ file' \in {"absent", "corrupt"}
  /\ UNCHANGED <<live, man, blobs, minted, history>>

Load(r) == LoadFresh(r) \/ LoadOwn(r) \/ LoadForeign(r) \/ LoadCorrupt(r)

-----------------------------------------------------------------------------
\* The loaded manifest, on which the operation decides.
View == tx.next

Decide(next, drop, did) ==
  /\ tx' = [tx EXCEPT !.at = "commit", !.next = next, !.drop = drop, !.did = did]
  /\ UNCHANGED <<live, disk, minted, history>>

\* A new body goes to disk first, under a fresh name.
DecideWithBody(next, drop, did) ==
  /\ minted < MaxNames
  /\ minted' = minted + 1
  /\ tx' = [tx EXCEPT !.at = "blob", !.next = next, !.fresh = minted + 1, !.drop = drop, !.did = did]
  /\ UNCHANGED <<live, disk, history>>

\* Mutant of Unused: the receipts of settled items are not consulted.
UnusedLive(k) == k # NoKey => View.bound[k] = None

\* A key that is bound, or whose receipt is kept, answers from memory.
Unused(k) == k # NoKey => View.bound[k] = None /\ View.receipts[k] = None

Bound(m, k, n) ==
  [kk \in Key |-> IF kk = k THEN n ELSE m.bound[kk]]

Enqueue(k) ==
  LET n == minted + 1 IN
  /\ tx.at = "ready" /\ Unused(k)
  /\ Cardinality(Listed(View)) < MaxItems
  /\ minted < MaxNames
  /\ DecideWithBody([View EXCEPT !.state[n] = "queued", !.blob[n] = n,
                                 !.bound = Bound(View, k, n)],
                    {}, [Nothing EXCEPT !.owes = {n}, !.keys = {k} \cap Key])

\* The body is replaced, never overwritten; a blocked item is queued again.
Update(n, k) ==
  LET s == minted + 1 IN
  /\ tx.at = "ready" /\ View.state[n] \in Pending /\ Unused(k)
  /\ minted < MaxNames
  /\ DecideWithBody([View EXCEPT !.blob[n] = s, !.bound = Bound(View, k, n),
                                 !.state[n] = IF @ = "blocked" THEN "queued" ELSE @],
                    {View.blob[n]},
                    [Nothing EXCEPT !.owes = {s}, !.pays = {View.blob[n]},
                                    !.keys = {k} \cap Key,
                                    !.frees = IF View.state[n] = "blocked" THEN {n} ELSE {}])

KeysOf(m, items) == {k \in Key : m.bound[k] \in items}

\* m without items; of the receipts, and those of items' keys, keep survive.
Without(m, items, keep) ==
  [m EXCEPT !.state = [n \in Name |-> IF n \in items THEN "gone" ELSE m.state[n]],
            !.blob = [n \in Name |-> IF n \in items THEN None ELSE m.blob[n]],
            !.bound = [k \in Key |-> IF m.bound[k] \in items THEN None ELSE m.bound[k]],
            !.receipts = [k \in Key |-> IF k \notin keep THEN None
                                        ELSE IF m.bound[k] \in items THEN m.bound[k]
                                        ELSE m.receipts[k]]]

\* What a cap of MaxReceipts may keep of the receipts of old and new keys: the
\* oldest go first, and which of the old ones is oldest is left open.
Kept(old, new) ==
  {keep \in SUBSET (old \cup new) :
     /\ keep = old \cup new \/ Cardinality(keep) = MaxReceipts
     /\ Cardinality(keep) <= MaxReceipts
     /\ new \subseteq keep \/ keep \subseteq new}

Settle(items) ==
  LET old == {k \in Key : View.receipts[k] # None}
      new == KeysOf(View, items)
      bodies == {View.blob[n] : n \in items}
  IN \E keep \in Kept(old, new) :
       Decide(Without(View, items, keep), bodies,
              [Nothing EXCEPT !.pays = bodies, !.spends = items, !.lost = (old \cup new) \ keep])

DeleteItem(n) == tx.at = "ready" /\ View.state[n] \in Pending /\ Settle({n})

CancelAcceptedSteer(n) == tx.at = "ready" /\ View.state[n] = "steer_accepted" /\ Settle({n})

AckDequeue(n) == tx.at = "ready" /\ View.state[n] \in InFlight /\ Settle({n})

\* All or none: one named item in flight refuses the call.
DiscardPendingItems(items) ==
  /\ tx.at = "ready" /\ items # {}
  /\ \A n \in items : View.state[n] \in Pending
  /\ Settle(items)

ClaimItem(n) ==
  /\ tx.at = "ready" /\ ~View.paused /\ View.state[n] = "queued"
  /\ Decide([View EXCEPT !.state[n] = "running"], {},
            [Nothing EXCEPT !.spends = {n}, !.takes = {n}])

RetryItem(n) ==
  /\ tx.at = "ready" /\ View.state[n] \in {"uncertain", "blocked"}
  /\ Decide([View EXCEPT !.state[n] = "queued"], {}, [Nothing EXCEPT !.frees = {n}])

\* SetState checks nothing.  These are the changes its callers in
\* session/control ask for, also when the item was made uncertain meanwhile.
Asked ==
  {<<s, "blocked">> : s \in Pending}
    \cup {<<s, "queued">> : s \in {"running", "steer_accepted", "uncertain"}}
    \cup {<<s, "uncertain">> : s \in InFlight}
    \cup {<<"queued", "steer_accepted">>, <<"uncertain", "steer_accepted">>,
          <<"steer_accepted", "steer_consumed">>, <<"uncertain", "steer_consumed">>}

SetState(n, s) ==
  /\ tx.at = "ready" /\ <<View.state[n], s>> \in Asked
  /\ Decide([View EXCEPT !.state[n] = s], {},
            [Nothing EXCEPT !.spends = IF s \in InFlight THEN {n} ELSE {},
                            !.takes = IF s \in InFlight THEN {n} ELSE {},
                            !.frees = IF s = "queued" THEN {n} ELSE {}])

SetPaused(paused) ==
  /\ tx.at = "ready" /\ View.paused # paused
  /\ Decide([View EXCEPT !.paused = paused, !.recovered = paused /\ @], {}, Nothing)

ForcePause(recovered) ==
  /\ tx.at = "ready"
  /\ Decide([View EXCEPT !.paused = TRUE, !.recovered = recovered \/ @], {}, Nothing)

\* The items in flight that no controller of this process owns.
RecoverOrphanedInFlight(orphans) ==
  /\ tx.at = "ready" /\ orphans # {}
  /\ \A n \in orphans : View.state[n] \in InFlight
  /\ Decide([View EXCEPT !.paused = TRUE, !.recovered = TRUE,
                         !.state = [n \in Name |-> IF n \in orphans THEN "uncertain" ELSE @[n]]],
            {}, Nothing)

\* MoveItem and ConvertIntent: the order and the intent are not in the model.
Rearrange ==
  /\ tx.at = "ready" /\ \E n \in Name : View.state[n] \in Pending
  /\ Decide(View, {}, Nothing)

\* A call that only reads, is refused, or finds nothing to do.
Leave ==
  /\ tx.at = "ready"
  /\ tx' = Idle
  /\ UNCHANGED <<live, disk, minted, history>>

Operation ==
  \/ \E k \in Key \cup {NoKey} : Enqueue(k)
  \/ \E n \in Name, k \in Key \cup {NoKey} : Update(n, k)
  \/ \E n \in Name : \/ DeleteItem(n) \/ CancelAcceptedSteer(n) \/ AckDequeue(n)
                     \/ ClaimItem(n) \/ RetryItem(n)
                     \/ \E s \in State : SetState(n, s)
  \/ \E items \in SUBSET Name : DiscardPendingItems(items) \/ RecoverOrphanedInFlight(items)
  \/ \E flag \in BOOLEAN : SetPaused(flag) \/ ForcePause(flag)
  \/ Rearrange \/ Leave

-----------------------------------------------------------------------------
WriteBlob ==
  /\ tx.at = "blob"
  /\ blobs' = blobs \cup {tx.fresh}
  /\ tx' = [tx EXCEPT !.at = "commit"]
  /\ UNCHANGED <<live, file, man, minted, history>>

BlobFails ==
  /\ tx.at = "blob"
  /\ tx' = Idle
  /\ UNCHANGED <<live, disk, minted, history>>

\* One rename puts the next manifest in place.
Commit ==
  /\ tx.at \in {"adopt", "salvage", "commit"}
  /\ file' = "present" /\ man' = tx.next
  /\ tx' = [tx EXCEPT !.at = IF tx.at = "commit" THEN "clean" ELSE "ready"]
  /\ owed' = (owed \ tx.did.pays) \cup tx.did.owes
  /\ spent' = (spent \ tx.did.frees) \cup tx.did.spends
  /\ taker' = [n \in Name |-> IF n \in tx.did.takes THEN tx.run ELSE taker[n]]
  /\ effects' = [k \in Key |-> IF k \in tx.did.keys THEN effects[k] + 1
                               ELSE IF k \in tx.did.lost THEN 0
                               ELSE effects[k]]
  /\ UNCHANGED <<live, blobs, minted>>

\* While a corrupt manifest has been moved away and its salvage is not yet
\* committed, the bodies are on disk and nothing names them.
MidSalvage == tx.at = "salvage" /\ file = "absent"

\* Mutant of CommitFails: the clean-up removes the blob that is still named.
CommitFailsDrops ==
  /\ tx.at \in {"adopt", "salvage", "commit"}
  /\ MidSalvage => "midsalvage" \in Faults
  /\ tx' = Idle
  /\ blobs' \in {blobs, blobs \ tx.drop}
  /\ UNCHANGED <<live, file, man, minted, history>>

CommitFails ==
  /\ tx.at \in {"adopt", "salvage", "commit"}
  /\ MidSalvage => "midsalvage" \in Faults
  /\ tx' = Idle
  /\ blobs' \in {blobs, blobs \ {tx.fresh}}
  /\ UNCHANGED <<live, file, man, minted, history>>

\* Removing a blob may fail: an orphan for the next load.
Clean ==
  /\ tx.at = "clean"
  /\ \E gone \in SUBSET tx.drop : blobs' = blobs \ gone
  /\ tx' = Idle
  /\ UNCHANGED <<live, file, man, minted, history>>

\* The process dies, between two steps of its transaction or outside of one.
Crash(r) ==
  /\ live[r] = "up"
  /\ tx.run = r /\ MidSalvage => "midsalvage" \in Faults
  /\ live' = [live EXCEPT ![r] = "dead"]
  /\ tx' = IF tx.run = r THEN Idle ELSE tx
  /\ UNCHANGED <<disk, minted, history>>

\* A receipt outlives idempotencyReceiptTTL: every reader ignores it.
Expire(k) ==
  /\ tx.at = "idle" /\ file = "present" /\ man.receipts[k] # None
  /\ man' = [man EXCEPT !.receipts[k] = None]
  /\ effects' = [effects EXCEPT ![k] = 0]
  /\ UNCHANGED <<live, file, blobs, minted, tx, owed, spent, taker>>

\* The manifest is damaged; what it knew of the keys is lost.
Corrupt ==
  /\ "corrupt" \in Faults
  /\ tx.at = "idle" /\ file = "present"
  /\ file' = "corrupt" /\ man' = Empty(NoRun)
  /\ effects' = [k \in Key |-> 0]
  /\ UNCHANGED <<live, blobs, minted, tx, owed, spent, taker>>

Next ==
  \/ \E r \in Run : Start(r) \/ Load(r) \/ Crash(r)
  \/ Operation
  \/ WriteBlob \/ BlobFails \/ Commit \/ CommitFails \/ Clean
  \/ \E k \in Key : Expire(k)
  \/ Corrupt

Spec == Init /\ [][Next]_vars

-----------------------------------------------------------------------------
\* Every item the manifest lists has its body on disk, through failed writes,
\* crashes, replaced bodies and garbage collection (writeBlobLocked before
\* commitManifestLocked before removeBlobLocked; gcOrphansLocked).
BodiesBehindManifest == file = "present" => Bodies(man) \subseteq blobs

\* Work a caller holds a receipt for is listed until it is settled, or, behind
\* a corrupt manifest, still on disk to be salvaged (Enqueue: "Only returns a
\* receipt after blob+manifest commit succeed").
AcceptedIsKept ==
  /\ file = "present" => owed \subseteq Bodies(man)
  /\ file = "corrupt" => owed \subseteq blobs
  /\ file = "absent" => owed \subseteq (IF tx.at = "salvage" THEN Bodies(tx.next) \cap blobs ELSE {})

\* An item in flight was taken there by the run that wrote the manifest last:
\* any other run that opens the inbox first makes it uncertain, so that only
\* its taker can acknowledge it (loadOrInitLocked; ClaimItem, AckDequeue).
InFlightHasTaker ==
  file = "present" => \A n \in Name : man.state[n] \in InFlight => taker[n] = man.run

\* An item that was handed to a turn, or settled, is queued again only when
\* somebody put it back: no crash, recovery or salvage lets it run twice.
NoSilentRerun ==
  file = "present" => \A n \in Name : man.state[n] = "queued" => n \notin spent

\* A keyed request takes effect once for as long as the store has to know of
\* it, however often a client sends it, across crashes before the answer and
\* after the item has gone (idempotentReceiptLocked, rememberReceipt).
OncePerKey == \A k \in Key : effects[k] <= 1

\* A store that loads after its manifest was corrupt never shows an inbox
\* with nothing recovered while accepted work is unsettled (store.go: "Never
\* present '0 recovered'").
NeverZeroRecovered ==
  tx.at = "ready" /\ Listed(View) = {} => owed = {} \/ View.recovered
=============================================================================
