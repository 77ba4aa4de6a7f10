-------------------------- MODULE SessionInboxProofs --------------------------
(***************************************************************************)
(* Proofs about SessionInbox, for every set of runs and keys and every      *)
(* limit.  TypeCorrect comes first; IInv is the inductive invariant from    *)
(* which the bodies, the takers, the reruns and the keys follow; Owed adds  *)
(* that accepted work is kept, which needs that no crash and no failed      *)
(* write falls in the middle of a salvage.                                 *)
(***************************************************************************)
EXTENDS SessionInbox, TLAPS

\* The empty manifest, the loaded ones and what an operation makes of them
\* are manifests.
LEMMA ManifestTypes ==
  ASSUME NEW r \in Run \cup {NoRun}
  PROVE  /\ Empty(r) \in Manifest
         /\ \A m \in Manifest : Adopted(m, r) \in Manifest
         /\ \A found \in SUBSET Name : Salvaged(found, r) \in Manifest
BY DEF Empty, Adopted, Salvaged, Manifest, State, InFlight, Pending, Body

\* The effect of a call that changes nothing is an effect.
LEMMA NothingType == Nothing \in Effect
BY DEF Nothing, Effect, Body

\* So is the idle transaction a transaction.
LEMMA IdleType == Idle \in Transaction
BY ManifestTypes, NothingType DEF Idle, Body, Transaction

\* A receipts cap keeps keys out of those it is given.
LEMMA KeptSubset ==
  ASSUME NEW old \in SUBSET Key, NEW new \in SUBSET Key, NEW keep \in Kept(old, new)
  PROVE  keep \in SUBSET Key
BY DEF Kept

\* Decide and DecideWithBody keep the types when what is decided has its type.
LEMMA DecideType ==
  ASSUME TypeOK, NEW next \in Manifest, NEW drop \in SUBSET Body, NEW did \in Effect,
         Decide(next, drop, did) \/ DecideWithBody(next, drop, did)
  PROVE  TypeOK'
<1>1. minted' \in 0..MaxNames /\ (minted' = minted \/ minted' \in Name)
  BY LimitAssumption DEF TypeOK, Decide, DecideWithBody, Name
<1>2. tx' \in Transaction
  <2>1. CASE Decide(next, drop, did)
    BY <2>1 DEF TypeOK, Decide, Transaction
  <2>2. CASE DecideWithBody(next, drop, did)
    <3>1. minted + 1 \in Body /\ minted + 1 # None
      BY <2>2, LimitAssumption DEF TypeOK, DecideWithBody, Body, Name, None
    <3> QED
      BY <2>2, <3>1 DEF TypeOK, DecideWithBody, Transaction
  <2> QED
    BY <2>1, <2>2
<1> QED
  BY <1>1, <1>2 DEF TypeOK, Decide, DecideWithBody, disk, history

\* Settling items keeps the types, whatever the receipts cap keeps.
LEMMA SettleType ==
  ASSUME TypeOK, NEW items \in SUBSET Name, Settle(items)
  PROVE  TypeOK'
<1> DEFINE old == {k \in Key : View.receipts[k] # None}
           new == KeysOf(View, items)
           bodies == {View.blob[n] : n \in items}
<1>1. PICK keep \in Kept(old, new) :
        Decide(Without(View, items, keep), bodies,
               [Nothing EXCEPT !.pays = bodies, !.spends = items, !.lost = (old \cup new) \ keep])
  BY DEF Settle
<1>2. View \in Manifest
  BY DEF TypeOK, View, Transaction
<1>3. Without(View, items, keep) \in Manifest
  BY <1>2 DEF Without, Manifest, State, Body
<1>4. /\ bodies \in SUBSET Body /\ old \in SUBSET Key /\ new \in SUBSET Key
  BY <1>2 DEF KeysOf, Manifest, Body
<1>5. [Nothing EXCEPT !.pays = bodies, !.spends = items, !.lost = (old \cup new) \ keep] \in Effect
  BY <1>4 DEF Nothing, Effect, Body
<1> QED
  BY <1>1, <1>3, <1>4, <1>5, DecideType

\* The loads.
LEMMA LoadType ==
  ASSUME TypeOK, NEW r \in Run, Load(r)
  PROVE  TypeOK'
<1>1. ASSUME NEW at \in {"ready", "adopt", "salvage"}, NEW next \in Manifest, Begin(r, at, next)
      PROVE  tx' \in Transaction
  BY <1>1, IdleType DEF Begin, Transaction
<1>2. man \in Manifest /\ blobs \in SUBSET Name
  BY DEF TypeOK
<1>3. CASE LoadFresh(r)
  BY <1>1, <1>3, ManifestTypes DEF LoadFresh, TypeOK, disk, history
<1>4. CASE LoadOwn(r)
  <2>1. [man EXCEPT !.run = r] \in Manifest
    BY <1>2 DEF Manifest
  <2> QED
    BY <1>1, <1>4, <2>1 DEF LoadOwn, TypeOK, history
<1>5. CASE LoadForeign(r)
  <2>1. Adopted(man, r) \in Manifest
    BY <1>2, ManifestTypes
  <2> QED
    BY <1>1, <1>5, <2>1 DEF LoadForeign, TypeOK, disk, history
<1>6. CASE LoadCorrupt(r)
  <2>1. Salvaged(blobs, r) \in Manifest
    BY <1>2, ManifestTypes
  <2> QED
    BY <1>1, <1>6, <2>1 DEF LoadCorrupt, TypeOK, history
<1> QED
  BY <1>3, <1>4, <1>5, <1>6 DEF Load

\* The operations, on the manifest that was loaded.
LEMMA OperationType ==
  ASSUME TypeOK, Operation
  PROVE  TypeOK'
<1> USE DEF View
<1>1. View \in Manifest
  BY DEF TypeOK, Transaction
<1>2. ASSUME minted < MaxNames
      PROVE  minted + 1 \in Name /\ minted + 1 \in Body
  BY <1>2, LimitAssumption DEF TypeOK, Name, Body
<1>3. ASSUME NEW k \in Key \cup {NoKey}, Enqueue(k)
      PROVE  TypeOK'
  <2> DEFINE n == minted + 1
             next == [View EXCEPT !.state[n] = "queued", !.blob[n] = n, !.bound = Bound(View, k, n)]
             did == [Nothing EXCEPT !.owes = {n}, !.keys = {k} \cap Key]
  <2>1. DecideWithBody(next, {}, did) /\ n \in Name /\ n \in Body
    BY <1>2, <1>3 DEF Enqueue
  <2>2. next \in Manifest
    BY <1>1, <2>1 DEF Manifest, Bound, State, Pending
  <2>3. did \in Effect
    BY <2>1, NothingType DEF Effect
  <2> HIDE DEF next, did
  <2> QED
    BY <2>1, <2>2, <2>3, DecideType
<1>4. ASSUME NEW n \in Name, NEW k \in Key \cup {NoKey}, Update(n, k)
      PROVE  TypeOK'
  <2> DEFINE s == minted + 1
             next == [View EXCEPT !.blob[n] = s, !.bound = Bound(View, k, n),
                                  !.state[n] = IF @ = "blocked" THEN "queued" ELSE @]
             did == [Nothing EXCEPT !.owes = {s}, !.pays = {View.blob[n]},
                                    !.keys = {k} \cap Key,
                                    !.frees = IF View.state[n] = "blocked" THEN {n} ELSE {}]
  <2>1. DecideWithBody(next, {View.blob[n]}, did) /\ s \in Name /\ s \in Body
    BY <1>2, <1>4 DEF Update
  <2>2. next \in Manifest
    BY <1>1, <2>1 DEF Manifest, Bound, State, Pending, Body
  <2>3. did \in Effect /\ {View.blob[n]} \in SUBSET Body
    BY <1>1, <2>1, NothingType DEF Effect, Manifest
  <2> HIDE DEF next, did
  <2> QED
    BY <2>1, <2>2, <2>3, DecideType
<1>5. ASSUME NEW items \in SUBSET Name, Settle(items)
      PROVE  TypeOK'
  BY <1>5, SettleType
<1>6. ASSUME NEW n \in Name, NEW s \in State, NEW did \in Effect,
             Decide([View EXCEPT !.state[n] = s], {}, did)
      PROVE  TypeOK'
  <2>1. [View EXCEPT !.state[n] = s] \in Manifest
    BY <1>1 DEF Manifest
  <2> QED
    BY <1>6, <2>1, DecideType
<1>7. ASSUME NEW next \in Manifest, Decide(next, {}, Nothing)
      PROVE  TypeOK'
  BY <1>7, NothingType, DecideType
<1>8. ASSUME NEW n \in Name,
             DeleteItem(n) \/ CancelAcceptedSteer(n) \/ AckDequeue(n)
      PROVE  TypeOK'
  BY <1>5, <1>8 DEF DeleteItem, CancelAcceptedSteer, AckDequeue
<1>9. ASSUME NEW n \in Name, ClaimItem(n)
      PROVE  TypeOK'
  <2>1. "running" \in State /\ [Nothing EXCEPT !.spends = {n}, !.takes = {n}] \in Effect
    BY NothingType DEF Effect, State, InFlight
  <2> QED
    BY <1>6, <1>9, <2>1 DEF ClaimItem
<1>10. ASSUME NEW n \in Name, RetryItem(n)
       PROVE  TypeOK'
  <2>1. "queued" \in State /\ [Nothing EXCEPT !.frees = {n}] \in Effect
    BY NothingType DEF Effect, State, Pending
  <2> QED
    BY <1>6, <1>10, <2>1 DEF RetryItem
<1>11. ASSUME NEW n \in Name, NEW s \in State, SetState(n, s)
       PROVE  TypeOK'
  <2>1. [Nothing EXCEPT !.spends = IF s \in InFlight THEN {n} ELSE {},
                        !.takes = IF s \in InFlight THEN {n} ELSE {},
                        !.frees = IF s = "queued" THEN {n} ELSE {}] \in Effect
    BY NothingType DEF Effect
  <2> QED
    BY <1>6, <1>11, <2>1 DEF SetState
<1>12. ASSUME NEW items \in SUBSET Name, DiscardPendingItems(items)
       PROVE  TypeOK'
  BY <1>5, <1>12 DEF DiscardPendingItems
<1>13. ASSUME NEW items \in SUBSET Name, RecoverOrphanedInFlight(items)
       PROVE  TypeOK'
  <2>1. [View EXCEPT !.paused = TRUE, !.recovered = TRUE,
                     !.state = [n \in Name |-> IF n \in items THEN "uncertain" ELSE @[n]]] \in Manifest
    BY <1>1 DEF Manifest, State, Pending
  <2> QED
    BY <1>7, <1>13, <2>1 DEF RecoverOrphanedInFlight
<1>14. ASSUME NEW flag \in BOOLEAN, SetPaused(flag) \/ ForcePause(flag)
       PROVE  TypeOK'
  <2>1. /\ [View EXCEPT !.paused = flag, !.recovered = flag /\ @] \in Manifest
        /\ [View EXCEPT !.paused = TRUE, !.recovered = flag \/ @] \in Manifest
    BY <1>1 DEF Manifest
  <2> QED
    BY <1>7, <1>14, <2>1 DEF SetPaused, ForcePause
<1>15. CASE Rearrange
  BY <1>1, <1>7, <1>15 DEF Rearrange
<1>16. CASE Leave
  BY <1>16, IdleType DEF Leave, TypeOK, disk, history
<1> QED
  BY <1>3, <1>4, <1>8, <1>9, <1>10, <1>11, <1>12, <1>13, <1>14, <1>15, <1>16 DEF Operation

\* Every step keeps every type.
LEMMA StepType ==
  ASSUME TypeOK, [Next]_vars
  PROVE  TypeOK'
<1>1. ASSUME NEW r \in Run, Start(r)
      PROVE  TypeOK'
  BY <1>1 DEF Start, TypeOK, disk, history
<1>2. ASSUME NEW r \in Run, Crash(r)
      PROVE  TypeOK'
  BY <1>2, IdleType DEF Crash, TypeOK, disk, history
<1>3. CASE WriteBlob
  <2>1. blobs' \subseteq Name /\ minted' = minted
    BY <1>3 DEF WriteBlob, TypeOK, Body, Transaction
  <2> QED
    BY <1>3, <2>1 DEF WriteBlob, TypeOK, Transaction, history
<1>4. CASE BlobFails
  BY <1>4, IdleType DEF BlobFails, TypeOK, disk, history
<1>5. CASE Commit
  <2>1. tx' \in Transaction
    BY <1>5 DEF Commit, TypeOK, Transaction
  <2>2. owed' \subseteq Name /\ spent' \subseteq Name
    BY <1>5 DEF Commit, TypeOK, Effect, Transaction
  <2>3. taker' \in [Name -> Run \cup {NoRun}] /\ effects' \in [Key -> Nat]
    BY <1>5 DEF Commit, TypeOK, Transaction
  <2> QED
    BY <1>5, <2>1, <2>2, <2>3 DEF Commit, TypeOK, Transaction
<1>6. CASE CommitFails
  BY <1>6, IdleType DEF CommitFails, TypeOK, history
<1>7. CASE Clean
  BY <1>7, IdleType DEF Clean, TypeOK, history
<1>8. ASSUME NEW k \in Key, Expire(k)
      PROVE  TypeOK'
  <2>1. man' \in Manifest
    BY <1>8 DEF Expire, TypeOK, Manifest, Body
  <2> QED
    BY <1>8, <2>1 DEF Expire, TypeOK
<1>9. CASE Corrupt
  BY <1>9, ManifestTypes DEF Corrupt, TypeOK
<1>10. CASE UNCHANGED vars
  BY <1>10 DEF vars, TypeOK, disk, history
<1> QED
  BY <1>1, <1>2, <1>3, <1>4, <1>5, <1>6, <1>7, <1>8, <1>9, <1>10, LoadType, OperationType DEF Next

\* Every variable keeps its type, in particular names stay within those minted
\* and every manifest on disk is well formed.
THEOREM TypeCorrect == Spec => []TypeOK
<1>1. Init => TypeOK
  BY ManifestTypes, IdleType, LimitAssumption DEF Init, TypeOK
<1>2. TypeOK /\ [Next]_vars => TypeOK'
  BY StepType
<1> QED
  BY <1>1, <1>2, PTL DEF Spec

-----------------------------------------------------------------------------
\* The inductive invariant.  Good is what a manifest on disk satisfies, Keeps
\* what the manifest and the effect decided by a transaction must satisfy for
\* the disk to stay good when they are committed.
Is(m, n) == m.state[n] # "gone"
Known(m, k) == m.bound[k] # None \/ m.receipts[k] # None
Backed(m, b) == \A n \in Name : Is(m, n) => m.blob[n] \in b
Clear(m, gone) == \A n \in Name : Is(m, n) => m.blob[n] \notin gone
Apart(m) ==
  \A n1, n2 \in Name : Is(m, n1) /\ Is(m, n2) /\ m.blob[n1] = m.blob[n2] => n1 = n2
Old(m, top) == \A n \in Name : Is(m, n) => n <= top

Good(m) ==
  /\ Backed(m, blobs)
  /\ Apart(m)
  /\ Old(m, minted)
  /\ \A n \in Name : m.state[n] \in InFlight => taker[n] = m.run
  /\ \A n \in Name : m.state[n] = "queued" => n \notin spent
  /\ \A k \in Key : effects[k] # 0 => Known(m, k)

Keeps(r, next, b, top, drop, did) ==
  /\ next.run = r
  /\ Backed(next, b)
  /\ Apart(next)
  /\ Old(next, top)
  /\ \A n \in Name : next.state[n] \in InFlight => n \in did.takes \/ taker[n] = r
  /\ \A n \in Name : next.state[n] = "queued" =>
                       n \notin did.spends /\ (n \in did.frees \/ n \notin spent)
  /\ \A k \in Key : k \in did.keys => effects[k] = 0 /\ Known(next, k)
  /\ \A k \in Key : k \notin did.keys /\ k \notin did.lost /\ effects[k] # 0 => Known(next, k)
  /\ Clear(next, drop)
  /\ \A n \in did.spends : n <= top

Promised ==
  /\ Keeps(tx.run, tx.next, IF tx.at = "blob" THEN blobs \cup {tx.fresh} ELSE blobs,
           minted, tx.drop, tx.did)
  /\ file = "present" => Clear(man, {tx.fresh})
  /\ \A b \in {tx.fresh} : b <= minted
  /\ tx.at \in {"adopt", "salvage"} => tx.fresh = None

Loaded ==
  /\ Good(tx.next)
  /\ tx.next.run = tx.run
  /\ tx.fresh = None
  /\ file # "corrupt"
  /\ file = "present" => tx.next.state = man.state /\ tx.next.blob = man.blob

IInv ==
  /\ \A b \in blobs : b <= minted
  /\ \A n \in spent : n <= minted
  /\ \A k \in Key : effects[k] <= 1
  /\ file = "present" => Good(man)
  /\ file # "present" => \A k \in Key : effects[k] = 0
  /\ tx.at = "ready" => Loaded
  /\ tx.at \in {"adopt", "salvage", "blob", "commit"} => Promised
  /\ tx.at = "clean" => file = "present" /\ Clear(man, tx.drop)

\* What an operation decides keeps the invariant if it keeps what is good.
LEMMA DecideKeeps ==
  ASSUME TypeOK, IInv, tx.at = "ready",
         NEW next \in Manifest, NEW drop \in SUBSET Body, NEW did \in Effect,
         Decide(next, drop, did), Keeps(tx.run, next, blobs, minted, drop, did)
  PROVE  IInv'
<1>1. /\ tx'.at = "commit" /\ tx'.next = next /\ tx'.drop = drop /\ tx'.did = did
      /\ tx'.run = tx.run /\ tx'.fresh = None
  BY DEF Decide, TypeOK, Transaction, IInv, Loaded
<1>2. /\ blobs' = blobs /\ minted' = minted /\ spent' = spent /\ taker' = taker
      /\ effects' = effects /\ file' = file /\ man' = man
  BY DEF Decide, disk, history
<1>3. Keeps(tx.run, next, blobs, minted, drop, did)'
  BY <1>1, <1>2 DEF Keeps, Backed, Apart, Old, Clear, Known, Is
<1>4. file = "present" => Clear(man, {None})
  <2>1. \A b \in blobs : b # None
    BY DEF TypeOK, Name, None
  <2> QED
    BY <2>1 DEF IInv, Good, Backed, Clear
<1>5. Good(man)' \equiv Good(man)
  BY <1>2 DEF Good, Backed, Apart, Old, Known, Is
<1>6. Promised'
  BY <1>1, <1>2, <1>3, <1>4 DEF Promised, Keeps, Clear, Is, TypeOK, None
<1> QED
  BY <1>1, <1>2, <1>5, <1>6 DEF IInv

\* The same for a decision that writes a body first, under a name that is unused.
LEMMA DecideWithBodyKeeps ==
  ASSUME TypeOK, IInv, tx.at = "ready",
         NEW next \in Manifest, NEW drop \in SUBSET Body, NEW did \in Effect,
         DecideWithBody(next, drop, did),
         NEW top, top = minted + 1, NEW b, b = blobs \cup {top},
         Keeps(tx.run, next, b, top, drop, did)
  PROVE  IInv'
<1>1. /\ tx'.at = "blob" /\ tx'.next = next /\ tx'.drop = drop /\ tx'.did = did
      /\ tx'.run = tx.run /\ tx'.fresh = top
  BY DEF DecideWithBody, TypeOK, Transaction
<1>2. /\ blobs' = blobs /\ minted' = top /\ spent' = spent /\ taker' = taker
      /\ effects' = effects /\ file' = file /\ man' = man
  BY DEF DecideWithBody, disk, history
<1>3. minted \in Nat /\ top \in Nat
  BY LimitAssumption DEF TypeOK
<1>4. Keeps(tx.run, next, b, top, drop, did)'
  BY <1>1, <1>2 DEF Keeps, Backed, Apart, Old, Clear, Known, Is
<1>5. file = "present" => Clear(man, {top})
  <2>1. \A bb \in blobs : bb # top
    BY <1>3 DEF TypeOK, Name, IInv
  <2> QED
    BY <2>1 DEF IInv, Good, Backed, Clear
<1>6. Good(man) => Good(man)'
  <2>1. Old(man, minted) => Old(man, minted)'
    BY <1>2, <1>3 DEF Old, Is, Name
  <2> QED
    BY <1>2, <2>1 DEF Good, Backed, Apart, Known, Is
<1>7. Promised'
  BY <1>1, <1>2, <1>3, <1>4, <1>5 DEF Promised, Keeps, Clear, Is
<1>8. /\ \A bb \in blobs' : bb <= minted'
      /\ \A n \in spent' : n <= minted'
  BY <1>2, <1>3 DEF IInv, TypeOK, Name
<1> QED
  BY <1>1, <1>2, <1>6, <1>7, <1>8 DEF IInv

-----------------------------------------------------------------------------
\* The operations.  Each has the loaded manifest to go by, which is good.
LEMMA EnqueueKeeps ==
  ASSUME TypeOK, IInv, NEW k \in Key \cup {NoKey}, Enqueue(k)
  PROVE  IInv'
<1> DEFINE n == minted + 1
           next == [View EXCEPT !.state[n] = "queued", !.blob[n] = n, !.bound = Bound(View, k, n)]
           did == [Nothing EXCEPT !.owes = {n}, !.keys = {k} \cap Key]
<1>1. /\ tx.at = "ready" /\ Unused(k) /\ DecideWithBody(next, {}, did)
      /\ minted < MaxNames
  BY DEF Enqueue
<1>2. View \in Manifest /\ Good(View) /\ View.run = tx.run
  BY <1>1 DEF TypeOK, Transaction, IInv, Loaded, View
<1>3. minted \in Nat /\ n \in Name /\ n \in Body /\ n # None
  BY <1>1, LimitAssumption DEF TypeOK, Name, Body, None
<1>4. next \in Manifest
  BY <1>2, <1>3 DEF Manifest, Bound, State, Pending
<1>5. /\ did \in Effect /\ did.keys = {k} \cap Key /\ did.lost = {} /\ did.spends = {}
      /\ did.takes = {} /\ did.frees = {}
  BY <1>3, NothingType DEF Effect, Nothing
<1>6. /\ next.run = tx.run
      /\ \A m \in Name : /\ next.state[m] = (IF m = n THEN "queued" ELSE View.state[m])
                         /\ next.blob[m] = (IF m = n THEN n ELSE View.blob[m])
      /\ \A kk \in Key : /\ next.bound[kk] = (IF kk = k THEN n ELSE View.bound[kk])
                         /\ next.receipts[kk] = View.receipts[kk]
  BY <1>2, <1>3 DEF Manifest, Bound
<1> HIDE DEF next, did
<1>7. Keeps(tx.run, next, blobs \cup {n}, n, {}, did)
  <2>1. next.run = tx.run /\ Clear(next, {}) /\ \A m \in did.spends : m <= n
    BY <1>5, <1>6 DEF Clear
  <2>2. Backed(next, blobs \cup {n})
    BY <1>2, <1>6 DEF Backed, Good, Is
  <2>3. \A m \in Name : Is(View, m) => View.blob[m] # n
    BY <1>2, <1>3 DEF Good, Backed, IInv, TypeOK, Name
  <2>4. Apart(next)
    BY <1>2, <1>6, <2>3 DEF Apart, Good, Is
  <2>5. Old(next, n)
    BY <1>2, <1>3, <1>6 DEF Old, Good, Is, Name
  <2>6. \A m \in Name : next.state[m] \in InFlight => m \in did.takes \/ taker[m] = tx.run
    BY <1>2, <1>6 DEF Good, InFlight
  <2>7. \A m \in Name : next.state[m] = "queued" =>
                          m \notin did.spends /\ (m \in did.frees \/ m \notin spent)
    <3>1. n \notin spent
      BY <1>3 DEF IInv
    <3> QED
      BY <1>2, <1>5, <1>6, <3>1 DEF Good
  <2>8. \A kk \in Key : kk \in did.keys => effects[kk] = 0 /\ Known(next, kk)
    BY <1>1, <1>2, <1>3, <1>5, <1>6, KeyAssumption DEF Known, Unused, Good
  <2>9. \A kk \in Key : kk \notin did.keys /\ kk \notin did.lost /\ effects[kk] # 0 => Known(next, kk)
    BY <1>2, <1>5, <1>6 DEF Known, Good
  <2> QED
    BY <2>1, <2>2, <2>4, <2>5, <2>6, <2>7, <2>8, <2>9 DEF Keeps
<1> QED
  BY <1>1, <1>4, <1>5, <1>7, DecideWithBodyKeeps

\* Replacing a body: the old one goes only after the commit.
LEMMA UpdateKeeps ==
  ASSUME TypeOK, IInv, NEW n \in Name, NEW k \in Key \cup {NoKey}, Update(n, k)
  PROVE  IInv'
<1> DEFINE s == minted + 1
           next == [View EXCEPT !.blob[n] = s, !.bound = Bound(View, k, n),
                                !.state[n] = IF @ = "blocked" THEN "queued" ELSE @]
           did == [Nothing EXCEPT !.owes = {s}, !.pays = {View.blob[n]},
                                  !.keys = {k} \cap Key,
                                  !.frees = IF View.state[n] = "blocked" THEN {n} ELSE {}]
           drop == {View.blob[n]}
<1>1. /\ tx.at = "ready" /\ Unused(k) /\ DecideWithBody(next, drop, did)
      /\ minted < MaxNames /\ View.state[n] \in Pending
  BY DEF Update
<1>2. View \in Manifest /\ Good(View) /\ View.run = tx.run
  BY <1>1 DEF TypeOK, Transaction, IInv, Loaded, View
<1>3. minted \in Nat /\ s \in Name /\ s \in Body /\ s # None
  BY <1>1, LimitAssumption DEF TypeOK, Name, Body, None
<1>4. next \in Manifest
  BY <1>2, <1>3 DEF Manifest, Bound, State, Pending, Body
<1>5. /\ did \in Effect /\ did.keys = {k} \cap Key /\ did.lost = {} /\ did.spends = {}
      /\ did.takes = {} /\ did.frees = (IF View.state[n] = "blocked" THEN {n} ELSE {})
      /\ drop \in SUBSET Body
  BY <1>2, <1>3, NothingType DEF Effect, Nothing, Manifest
<1>6. /\ next.run = tx.run
      /\ next.state[n] = (IF View.state[n] = "blocked" THEN "queued" ELSE View.state[n])
      /\ next.blob[n] = s
      /\ \A m \in Name : m # n => next.state[m] = View.state[m] /\ next.blob[m] = View.blob[m]
      /\ \A kk \in Key : /\ next.bound[kk] = (IF kk = k THEN n ELSE View.bound[kk])
                         /\ next.receipts[kk] = View.receipts[kk]
  BY <1>2, <1>3 DEF Manifest, Bound
<1>7. Is(View, n) /\ Is(next, n) /\ \A m \in Name : Is(next, m) \equiv Is(View, m)
  BY <1>1, <1>6 DEF Is, Pending
<1>8. \A m \in Name : Is(View, m) => View.blob[m] # s
  BY <1>2, <1>3 DEF Good, Backed, IInv, TypeOK, Name
<1> HIDE DEF next, did
<1>9. Keeps(tx.run, next, blobs \cup {s}, s, drop, did)
  <2>1. next.run = tx.run /\ \A m \in did.spends : m <= s
    BY <1>5, <1>6
  <2>2. Backed(next, blobs \cup {s})
    BY <1>2, <1>6, <1>7 DEF Backed, Good
  <2>3. Apart(next)
    BY <1>2, <1>6, <1>7, <1>8 DEF Apart, Good
  <2>4. Clear(next, drop)
    BY <1>2, <1>6, <1>7, <1>8 DEF Clear, Apart, Good
  <2>5. Old(next, s)
    BY <1>2, <1>3, <1>7 DEF Old, Good, Name
  <2>6. \A m \in Name : next.state[m] \in InFlight => m \in did.takes \/ taker[m] = tx.run
    BY <1>1, <1>2, <1>6 DEF Good, InFlight, Pending
  <2>7. \A m \in Name : next.state[m] = "queued" =>
                          m \notin did.spends /\ (m \in did.frees \/ m \notin spent)
    BY <1>2, <1>5, <1>6 DEF Good
  <2>8. n # None
    BY DEF Name, None
  <2>9. \A kk \in Key : kk \in did.keys => effects[kk] = 0 /\ Known(next, kk)
    BY <1>1, <1>2, <1>5, <1>6, <2>8, KeyAssumption DEF Known, Unused, Good
  <2>10. \A kk \in Key : kk \notin did.keys /\ kk \notin did.lost /\ effects[kk] # 0 => Known(next, kk)
    BY <1>2, <1>5, <1>6 DEF Known, Good
  <2> QED
    BY <2>1, <2>2, <2>3, <2>4, <2>5, <2>6, <2>7, <2>9, <2>10 DEF Keeps
<1> QED
  BY <1>1, <1>4, <1>5, <1>9, DecideWithBodyKeeps

\* Operations that change states and flags only: the listed items, their
\* bodies and the keys stay.
LEMMA ChangeKeeps ==
  ASSUME TypeOK, IInv, tx.at = "ready",
         NEW next \in Manifest, NEW did \in Effect,
         Decide(next, {}, did),
         next.run = View.run, next.blob = View.blob,
         next.bound = View.bound, next.receipts = View.receipts,
         did.keys = {}, did.lost = {}, did.spends \subseteq {n \in Name : Is(View, n)},
         \A n \in Name : Is(next, n) => Is(View, n),
         \A n \in Name : next.state[n] \in InFlight =>
           View.state[n] \in InFlight \/ n \in did.takes,
         \A n \in Name : next.state[n] = "queued" =>
           n \notin did.spends /\ (n \in did.frees \/ View.state[n] = "queued")
  PROVE  IInv'
<1>1. Good(View) /\ View.run = tx.run
  BY DEF IInv, Loaded, View
<1>2. Keeps(tx.run, next, blobs, minted, {}, did)
  <2>1. next.run = tx.run /\ Clear(next, {})
    BY <1>1 DEF Clear
  <2>2. Backed(next, blobs) /\ Apart(next) /\ Old(next, minted)
    BY <1>1 DEF Good, Backed, Apart, Old
  <2>3. \A n \in did.spends : n <= minted
    BY <1>1 DEF Good, Old
  <2>4. \A n \in Name : next.state[n] \in InFlight => n \in did.takes \/ taker[n] = tx.run
    BY <1>1 DEF Good
  <2>5. \A n \in Name : next.state[n] = "queued" =>
                          n \notin did.spends /\ (n \in did.frees \/ n \notin spent)
    BY <1>1 DEF Good
  <2>6. \A k \in Key : k \notin did.keys /\ k \notin did.lost /\ effects[k] # 0 => Known(next, k)
    BY <1>1 DEF Good, Known
  <2> QED
    BY <2>1, <2>2, <2>3, <2>4, <2>5, <2>6 DEF Keeps
<1> QED
  BY <1>2, DecideKeeps

\* Items that leave the list take their bodies and their keys along.
LEMMA SettleKeeps ==
  ASSUME TypeOK, IInv, tx.at = "ready", NEW items \in SUBSET Name, Settle(items),
         \A n \in items : Is(View, n)
  PROVE  IInv'
<1> DEFINE old == {k \in Key : View.receipts[k] # None}
           new == KeysOf(View, items)
           bodies == {View.blob[n] : n \in items}
<1>1. PICK keep \in Kept(old, new) :
        Decide(Without(View, items, keep), bodies,
               [Nothing EXCEPT !.pays = bodies, !.spends = items, !.lost = (old \cup new) \ keep])
  BY DEF Settle
<1> DEFINE next == Without(View, items, keep)
           did == [Nothing EXCEPT !.pays = bodies, !.spends = items, !.lost = (old \cup new) \ keep]
<1>2. View \in Manifest /\ Good(View) /\ View.run = tx.run
  BY DEF TypeOK, Transaction, IInv, Loaded, View
<1>3. next \in Manifest
  BY <1>2 DEF Without, Manifest, State, Body
<1>4. /\ bodies \in SUBSET Body /\ old \in SUBSET Key /\ new \in SUBSET Key
  BY <1>2 DEF KeysOf, Manifest, Body
<1>5. /\ did \in Effect /\ did.keys = {} /\ did.takes = {} /\ did.frees = {}
      /\ did.spends = items /\ did.lost = (old \cup new) \ keep
  BY <1>4 DEF Nothing, Effect, Body
<1>6. /\ next.run = tx.run
      /\ \A n \in Name : /\ next.state[n] = (IF n \in items THEN "gone" ELSE View.state[n])
                         /\ n \notin items => next.blob[n] = View.blob[n]
      /\ \A k \in Key : /\ View.bound[k] \notin items => next.bound[k] = View.bound[k]
                        /\ k \in keep /\ View.bound[k] \in items => next.receipts[k] = View.bound[k]
                        /\ k \in keep /\ View.bound[k] \notin items => next.receipts[k] = View.receipts[k]
  BY <1>2 DEF Without, Manifest
<1>7. \A k \in Key : View.bound[k] \in items => k \in new /\ View.bound[k] # None
  BY DEF KeysOf, Name, None
<1> HIDE DEF next, did, new
<1>8. Keeps(tx.run, next, blobs, minted, bodies, did)
  <2>1. \A n \in Name : Is(next, n) => Is(View, n) /\ n \notin items
    BY <1>6 DEF Is
  <2>2. Backed(next, blobs) /\ Apart(next) /\ Old(next, minted)
    BY <1>2, <1>6, <2>1 DEF Good, Backed, Apart, Old
  <2>3. Clear(next, bodies)
    BY <1>2, <1>6, <2>1 DEF Clear, Good, Apart
  <2>4. \A n \in did.spends : n <= minted
    BY <1>2, <1>5 DEF Good, Old
  <2>5. \A n \in Name : next.state[n] \in InFlight => n \in did.takes \/ taker[n] = tx.run
    BY <1>2, <1>6 DEF Good, InFlight
  <2>6. \A n \in Name : next.state[n] = "queued" =>
                          n \notin did.spends /\ (n \in did.frees \/ n \notin spent)
    BY <1>2, <1>5, <1>6 DEF Good
  <2>7. ASSUME NEW k \in Key, k \notin did.lost, effects[k] # 0
        PROVE  Known(next, k)
    <3>1. View.bound[k] # None \/ View.receipts[k] # None
      BY <1>2, <2>7 DEF Good, Known
    <3>2. k \in old \cup new => k \in keep
      BY <1>5, <2>7
    <3>3. CASE View.bound[k] \in items
      BY <1>6, <1>7, <3>2, <3>3 DEF Known
    <3>4. CASE View.bound[k] \notin items /\ View.bound[k] # None
      BY <1>6, <3>4 DEF Known
    <3>5. CASE View.bound[k] \notin items /\ View.receipts[k] # None
      BY <1>6, <3>2, <3>5 DEF Known
    <3> QED
      BY <3>1, <3>3, <3>4, <3>5
  <2> QED
    BY <1>5, <1>6, <2>2, <2>3, <2>4, <2>5, <2>6, <2>7 DEF Keeps
<1> QED
  BY <1>1, <1>3, <1>4, <1>5, <1>8, DecideKeeps DEF next, did, new

\* A step that only ends the transaction, or that leaves blobs the manifest
\* does not name, keeps the invariant.
LEMMA EndKeeps ==
  ASSUME TypeOK, IInv, tx'.at = "idle",
         UNCHANGED <<file, man, minted, history>>,
         \A b \in blobs' : b <= minted,
         file = "present" => Backed(man, blobs')
  PROVE  IInv'
<1>1. Good(man) /\ Backed(man, blobs') => Good(man)'
  BY DEF Good, Backed, Apart, Old, Known, Is, history
<1> QED
  BY <1>1 DEF IInv, history

\* Every operation keeps the invariant, one step per operation.
LEMMA OperationKeeps ==
  ASSUME TypeOK, IInv, Operation
  PROVE  IInv'
<1> USE DEF View
<1>1. View \in Manifest
  BY DEF TypeOK, Transaction
<1>2. ASSUME tx.at = "ready", NEW n \in Name, NEW s \in State \ {"gone"}, NEW did \in Effect,
             Decide([View EXCEPT !.state[n] = s], {}, did), Is(View, n),
             did.keys = {}, did.lost = {}, did.spends \subseteq {n},
             s \in InFlight => (View.state[n] \in InFlight \/ did.takes = {n}),
             s = "queued" => (did.spends = {} /\ did.frees = {n})
      PROVE  IInv'
  <2> DEFINE next == [View EXCEPT !.state[n] = s]
  <2>1. /\ next \in Manifest
        /\ next.run = View.run /\ next.blob = View.blob
        /\ next.bound = View.bound /\ next.receipts = View.receipts
        /\ next.state[n] = s
        /\ \A m \in Name : m # n => next.state[m] = View.state[m]
    BY <1>1, <1>2 DEF Manifest
  <2> HIDE DEF next
  <2>2. \A m \in Name : Is(next, m) => Is(View, m)
    BY <1>2, <2>1 DEF Is
  <2>3. \A m \in Name : next.state[m] \in InFlight => View.state[m] \in InFlight \/ m \in did.takes
    BY <1>2, <2>1
  <2>4. \A m \in Name : next.state[m] = "queued" =>
                          m \notin did.spends /\ (m \in did.frees \/ View.state[m] = "queued")
    BY <1>2, <2>1
  <2>5. Decide(next, {}, did)
    BY <1>2 DEF next
  <2> QED
    BY <1>2, <2>1, <2>2, <2>3, <2>4, <2>5, ChangeKeeps
<1>3. ASSUME tx.at = "ready", NEW next \in Manifest, Decide(next, {}, Nothing),
             next.run = View.run, next.blob = View.blob,
             next.bound = View.bound, next.receipts = View.receipts,
             \A m \in Name : next.state[m] = View.state[m]
                             \/ (View.state[m] \in InFlight /\ next.state[m] = "uncertain")
      PROVE  IInv'
  <2>1. Nothing.keys = {} /\ Nothing.lost = {} /\ Nothing.spends = {}
    BY DEF Nothing
  <2>2. \A m \in Name : /\ Is(next, m) => Is(View, m)
                        /\ next.state[m] \in InFlight => View.state[m] \in InFlight
                        /\ next.state[m] = "queued" => View.state[m] = "queued"
    BY <1>3 DEF Is, InFlight
  <2> QED
    BY <1>3, <2>1, <2>2, NothingType, ChangeKeeps
<1>4. ASSUME NEW n \in Name,
             DeleteItem(n) \/ CancelAcceptedSteer(n) \/ AckDequeue(n)
      PROVE  IInv'
  <2>1. tx.at = "ready" /\ Settle({n}) /\ Is(View, n)
    BY <1>4 DEF DeleteItem, CancelAcceptedSteer, AckDequeue, Is, Pending, InFlight
  <2> QED
    BY <2>1, SettleKeeps
<1>5. ASSUME NEW n \in Name, ClaimItem(n)
      PROVE  IInv'
  <2> DEFINE did == [Nothing EXCEPT !.spends = {n}, !.takes = {n}]
  <2>1. /\ did \in Effect /\ did.keys = {} /\ did.lost = {}
        /\ did.spends = {n} /\ did.takes = {n}
    BY NothingType DEF Effect, Nothing
  <2>2. "running" \in State \ {"gone"} /\ Is(View, n)
    BY <1>5 DEF ClaimItem, State, InFlight, Is
  <2> HIDE DEF did
  <2> QED
    BY <1>2, <1>5, <2>1, <2>2 DEF ClaimItem, did
<1>6. ASSUME NEW n \in Name, RetryItem(n)
      PROVE  IInv'
  <2> DEFINE did == [Nothing EXCEPT !.frees = {n}]
  <2>1. /\ did \in Effect /\ did.keys = {} /\ did.lost = {}
        /\ did.spends = {} /\ did.frees = {n}
    BY NothingType DEF Effect, Nothing
  <2>2. "queued" \in State \ {"gone"} /\ Is(View, n) /\ "queued" \notin InFlight
    BY <1>6 DEF RetryItem, State, Pending, InFlight, Is
  <2> HIDE DEF did
  <2> QED
    BY <1>2, <1>6, <2>1, <2>2 DEF RetryItem, did
<1>7. ASSUME NEW n \in Name, NEW s \in State, SetState(n, s)
      PROVE  IInv'
  <2> DEFINE taken == IF s \in InFlight THEN {n} ELSE {}
             freed == IF s = "queued" THEN {n} ELSE {}
             did == [Nothing EXCEPT !.spends = taken, !.takes = taken, !.frees = freed]
  <2>1. /\ did \in Effect /\ did.keys = {} /\ did.lost = {}
        /\ did.spends = taken /\ did.takes = taken /\ did.frees = freed
    BY NothingType DEF Effect, Nothing
  <2>2. s \in State \ {"gone"} /\ Is(View, n)
    BY <1>7 DEF SetState, Asked, Is, Pending, InFlight
  <2>3. Decide([View EXCEPT !.state[n] = s], {}, did) /\ tx.at = "ready"
    BY <1>7 DEF SetState
  <2>4. "queued" \notin InFlight
    BY DEF InFlight
  <2> HIDE DEF did
  <2> QED
    BY <1>2, <2>1, <2>2, <2>3, <2>4
<1>8. ASSUME NEW items \in SUBSET Name, DiscardPendingItems(items)
      PROVE  IInv'
  <2>1. tx.at = "ready" /\ Settle(items) /\ \A n \in items : Is(View, n)
    BY <1>8 DEF DiscardPendingItems, Is, Pending
  <2> QED
    BY <2>1, SettleKeeps
<1>9. ASSUME NEW items \in SUBSET Name, RecoverOrphanedInFlight(items)
      PROVE  IInv'
  <2> DEFINE next == [View EXCEPT !.paused = TRUE, !.recovered = TRUE,
                        !.state = [n \in Name |-> IF n \in items THEN "uncertain" ELSE @[n]]]
  <2>1. /\ next \in Manifest
        /\ next.run = View.run /\ next.blob = View.blob
        /\ next.bound = View.bound /\ next.receipts = View.receipts
        /\ \A m \in Name : next.state[m] = (IF m \in items THEN "uncertain" ELSE View.state[m])
    BY <1>1 DEF Manifest, State, Pending
  <2>2. tx.at = "ready" /\ Decide(next, {}, Nothing) /\ \A m \in items : View.state[m] \in InFlight
    BY <1>9 DEF RecoverOrphanedInFlight
  <2> HIDE DEF next
  <2> QED
    BY <1>3, <2>1, <2>2
<1>10. ASSUME NEW flag \in BOOLEAN, SetPaused(flag) \/ ForcePause(flag)
       PROVE  IInv'
  <2>1. CASE SetPaused(flag)
    <3> DEFINE next == [View EXCEPT !.paused = flag, !.recovered = flag /\ @]
    <3>1. /\ next \in Manifest
          /\ next.run = View.run /\ next.blob = View.blob /\ next.state = View.state
          /\ next.bound = View.bound /\ next.receipts = View.receipts
      BY <1>1 DEF Manifest
    <3>2. tx.at = "ready" /\ Decide(next, {}, Nothing)
      BY <2>1 DEF SetPaused
    <3> HIDE DEF next
    <3> QED
      BY <1>3, <3>1, <3>2
  <2>2. CASE ForcePause(flag)
    <3> DEFINE next == [View EXCEPT !.paused = TRUE, !.recovered = flag \/ @]
    <3>1. /\ next \in Manifest
          /\ next.run = View.run /\ next.blob = View.blob /\ next.state = View.state
          /\ next.bound = View.bound /\ next.receipts = View.receipts
      BY <1>1 DEF Manifest
    <3>2. tx.at = "ready" /\ Decide(next, {}, Nothing)
      BY <2>2 DEF ForcePause
    <3> HIDE DEF next
    <3> QED
      BY <1>3, <3>1, <3>2
  <2> QED
    BY <1>10, <2>1, <2>2
<1>11. CASE Rearrange
  BY <1>1, <1>3, <1>11 DEF Rearrange
<1>12. CASE Leave
  BY <1>12, EndKeeps DEF Leave, Idle, disk, history, IInv, Good
<1> QED
  BY <1>4, <1>5, <1>6, <1>7, <1>8, <1>9, <1>10, <1>11, <1>12, EnqueueKeeps, UpdateKeeps
     DEF Operation

-----------------------------------------------------------------------------
\* The loads: what another run left in flight is uncertain afterwards, and so
\* is everything that was salvaged.
LEMMA LoadKeeps ==
  ASSUME TypeOK, IInv, NEW r \in Run, Load(r)
  PROVE  IInv'
<1>1. /\ minted \in Nat
      /\ \A b \in blobs : b # None
  BY LimitAssumption DEF TypeOK, Name, None
<1>2. ASSUME NEW at, NEW next, Begin(r, at, next)
      PROVE  /\ tx'.run = r /\ tx'.at = at /\ tx'.next = next /\ tx'.fresh = None
             /\ tx'.drop = {} /\ tx'.did = Nothing
  BY <1>2 DEF Begin, Idle
<1>3. CASE LoadFresh(r)
  <2>1. tx'.run = r /\ tx'.at = "ready" /\ tx'.next = Empty(r) /\ tx'.fresh = None
    BY <1>2, <1>3 DEF LoadFresh
  <2>2. Good(Empty(r))'
    BY <1>3 DEF LoadFresh, Empty, Good, Backed, Apart, Old, Known, Is, InFlight, IInv, disk, history
  <2>3. Empty(r).run = r
    BY DEF Empty
  <2> QED
    BY <1>3, <2>1, <2>2, <2>3 DEF LoadFresh, IInv, Loaded, disk, history
<1>4. CASE LoadOwn(r)
  <2>0. PICK next : next = [man EXCEPT !.run = r]
    OBVIOUS
  <2>1. tx'.run = r /\ tx'.at = "ready" /\ tx'.next = next /\ tx'.fresh = None
    BY <1>2, <1>4, <2>0 DEF LoadOwn
  <2>2. Backed(man, blobs')
    BY <1>4 DEF LoadOwn, IInv, Good, Backed, Bodies, Listed, Is
  <2>3. /\ next.run = r /\ next.state = man.state /\ next.blob = man.blob
        /\ next.bound = man.bound /\ next.receipts = man.receipts
    BY <2>0 DEF TypeOK, Manifest
  <2>4. \A n \in Name : man.state[n] \in InFlight => man.run = r
    BY <1>4 DEF LoadOwn, Listed, InFlight
  <2>5. Good(man)'
    BY <1>4, <2>2 DEF LoadOwn, IInv, Good, Backed, Apart, Old, Known, Is, history
  <2>6. Good(next)'
    BY <1>4, <2>3, <2>4, <2>5 DEF LoadOwn, Good, Backed, Apart, Old, Known, Is, history
  <2>7. blobs' \subseteq blobs
    BY <1>4 DEF LoadOwn
  <2> QED
    BY <1>4, <2>1, <2>3, <2>5, <2>6, <2>7 DEF LoadOwn, IInv, Loaded, history
<1>5. ASSUME NEW at \in {"adopt", "salvage"}, NEW next, Begin(r, at, next),
             Keeps(r, next, blobs, minted, {}, Nothing),
             UNCHANGED <<man, blobs, minted, history>>,
             file' = file \/ (file = "corrupt" /\ file' = "absent")
      PROVE  IInv'
  <2>1. /\ tx'.at = at /\ tx'.fresh = None /\ tx'.run = r /\ tx'.next = next
        /\ tx'.drop = {} /\ tx'.did = Nothing
    BY <1>2, <1>5
  <2>2. file = "present" => Clear(man, {None})
    BY <1>1 DEF IInv, Good, Backed, Clear
  <2>3. Keeps(r, next, blobs, minted, {}, Nothing)'
    BY <1>5 DEF Keeps, Backed, Apart, Old, Clear, Known, Is, history
  <2>4. Promised'
    BY <1>1, <1>5, <2>1, <2>2, <2>3 DEF Promised, Clear, Is, None
  <2>5. Good(man)' \equiv Good(man)
    BY <1>5 DEF Good, Backed, Apart, Old, Known, Is, history
  <2> QED
    BY <1>5, <2>1, <2>4, <2>5 DEF IInv, history
<1>6. Nothing.takes = {} /\ Nothing.keys = {} /\ Nothing.spends = {} /\ Nothing.lost = {}
  BY DEF Nothing
<1>7. CASE LoadForeign(r)
  <2> DEFINE next == Adopted(man, r)
  <2>1. /\ next.run = r /\ next.blob = man.blob
        /\ next.bound = man.bound /\ next.receipts = man.receipts
        /\ \A n \in Name : next.state[n] = (IF man.state[n] \in InFlight THEN "uncertain"
                                            ELSE man.state[n])
    BY DEF Adopted, TypeOK, Manifest
  <2>2. Good(man) /\ tx'.next = next /\ tx'.run = r
    BY <1>2, <1>7 DEF LoadForeign, IInv
  <2> HIDE DEF next
  <2>3. \A n \in Name : Is(next, n) => Is(man, n)
    BY <2>1 DEF Is, InFlight
  <2>4. \A n \in Name : next.state[n] \notin InFlight
    BY <2>1 DEF InFlight
  <2>5. Keeps(r, next, blobs, minted, {}, Nothing)
    BY <1>6, <1>7, <2>1, <2>2, <2>3, <2>4
       DEF LoadForeign, Keeps, Good, Backed, Apart, Old, Clear, Known, Is, disk, history
  <2> QED
    BY <1>5, <1>7, <2>5 DEF LoadForeign, disk, next
<1>8. CASE LoadCorrupt(r)
  <2> DEFINE next == Salvaged(blobs, r)
  <2>1. /\ next.run = r
        /\ \A n \in Name : /\ next.state[n] = (IF n \in blobs THEN "uncertain" ELSE "gone")
                           /\ next.blob[n] = (IF n \in blobs THEN n ELSE None)
    BY DEF Salvaged, Empty
  <2>2. tx'.next = next /\ tx'.run = r /\ \A k \in Key : effects[k] = 0
    BY <1>2, <1>8 DEF LoadCorrupt, IInv
  <2>3. \A b \in blobs : b <= minted
    BY DEF IInv
  <2> HIDE DEF next
  <2>4. Keeps(r, next, blobs, minted, {}, Nothing)
    BY <1>6, <1>8, <2>1, <2>2, <2>3
       DEF LoadCorrupt, Keeps, Backed, Apart, Old, Clear, Known, Is, InFlight, history
  <2> QED
    BY <1>5, <1>8, <2>4 DEF LoadCorrupt, next
<1> QED
  BY <1>3, <1>4, <1>7, <1>8 DEF Load

\* Steps that leave alone what the invariant speaks of.
LEMMA SameKeeps ==
  ASSUME IInv, UNCHANGED <<disk, minted, tx, history>>
  PROVE  IInv'
<1>1. Good(man)' \equiv Good(man)
  BY DEF Good, Backed, Apart, Old, Known, Is, disk, history
<1>2. Loaded' \equiv Loaded
  BY DEF Loaded, Good, Backed, Apart, Old, Known, Is, disk, history
<1>3. Promised' \equiv Promised
  BY DEF Promised, Keeps, Backed, Apart, Old, Clear, Known, Is, disk, history
<1> QED
  BY <1>1, <1>2, <1>3 DEF IInv, Clear, Is, disk, history

\* The commit makes good what the transaction promised.
LEMMA CommitKeeps ==
  ASSUME TypeOK, IInv, Commit
  PROVE  IInv'
<1> DEFINE next == tx.next
<1>1. /\ tx.at \in {"adopt", "salvage", "commit"} /\ file' = "present" /\ man' = next
      /\ blobs' = blobs /\ minted' = minted
      /\ spent' = (spent \ tx.did.frees) \cup tx.did.spends
      /\ taker' = [n \in Name |-> IF n \in tx.did.takes THEN tx.run ELSE taker[n]]
      /\ \A k \in Key : effects'[k] = (IF k \in tx.did.keys THEN effects[k] + 1
                                       ELSE IF k \in tx.did.lost THEN 0 ELSE effects[k])
      /\ tx'.at = (IF tx.at = "commit" THEN "clean" ELSE "ready")
      /\ tx'.next = next /\ tx'.run = tx.run /\ tx'.fresh = tx.fresh /\ tx'.drop = tx.drop
  BY DEF Commit, TypeOK, Transaction
<1>2. Keeps(tx.run, next, blobs, minted, tx.drop, tx.did)
  BY <1>1 DEF IInv, Promised
<1>3. \A k \in Key : effects[k] \in Nat
  BY DEF TypeOK
<1>4. PICK m : m = next
  OBVIOUS
<1>5. Good(m)'
  <2>1. Backed(m, blobs)' /\ Apart(m)' /\ Old(m, minted)'
    BY <1>1, <1>2, <1>4 DEF Keeps, Backed, Apart, Old, Is
  <2>2. \A n \in Name : m.state[n] \in InFlight => taker'[n] = m.run
    BY <1>1, <1>2, <1>4 DEF Keeps
  <2>3. \A n \in Name : m.state[n] = "queued" => n \notin spent'
    BY <1>1, <1>2, <1>4 DEF Keeps
  <2>4. \A k \in Key : effects'[k] # 0 => Known(m, k)
    BY <1>1, <1>2, <1>4 DEF Keeps
  <2> QED
    BY <2>1, <2>2, <2>3, <2>4 DEF Good, Known, Backed, Apart, Old, Is
<1>6. /\ \A n \in spent' : n <= minted'
      /\ \A k \in Key : effects'[k] <= 1
  BY <1>1, <1>2, <1>3 DEF IInv, Keeps
<1>7. Clear(next, tx.drop)
  BY <1>2 DEF Keeps
<1>8. tx'.at = "ready" => tx.fresh = None
  <2>1. CASE tx.at = "commit"
    BY <1>1, <2>1
  <2>2. CASE tx.at \in {"adopt", "salvage"}
    BY <2>2 DEF IInv, Promised
  <2> QED
    BY <1>1, <2>1, <2>2
<1> QED
  BY <1>1, <1>2, <1>4, <1>5, <1>6, <1>7, <1>8 DEF IInv, Loaded, Keeps, Clear, Is

\* So does every step.
LEMMA StepKeeps ==
  ASSUME TypeOK, IInv, [Next]_vars
  PROVE  IInv'
<1>1. Idle.at = "idle"
  BY DEF Idle
<1>2. file = "present" => Backed(man, blobs)
  BY DEF IInv, Good
<1>3. ASSUME NEW r \in Run, Start(r)
      PROVE  IInv'
  BY <1>3, SameKeeps DEF Start
<1>4. ASSUME NEW r \in Run, Crash(r)
      PROVE  IInv'
  <2>1. CASE tx.run = r
    BY <1>1, <1>2, <1>4, <2>1, EndKeeps DEF Crash, disk, IInv
  <2>2. CASE tx.run # r
    BY <1>4, <2>2, SameKeeps DEF Crash
  <2> QED
    BY <2>1, <2>2
<1>5. CASE WriteBlob
  <2>1. /\ tx.at = "blob" /\ tx'.at = "commit" /\ tx'.run = tx.run /\ tx'.next = tx.next
        /\ tx'.fresh = tx.fresh /\ tx'.drop = tx.drop /\ tx'.did = tx.did
        /\ blobs' = blobs \cup {tx.fresh}
        /\ UNCHANGED <<file, man, minted, spent, taker, effects>>
    BY <1>5 DEF WriteBlob, TypeOK, Transaction, history
  <2>2. Promised
    BY <2>1 DEF IInv
  <2>3. \A b \in blobs' : b <= minted
    BY <2>1, <2>2 DEF IInv, Promised
  <2>4. Good(man) => Good(man)'
    BY <2>1 DEF Good, Backed, Apart, Old, Known, Is
  <2>5. Promised'
    BY <2>1, <2>2 DEF Promised, Keeps, Backed, Apart, Old, Clear, Known, Is
  <2> QED
    BY <2>1, <2>3, <2>4, <2>5 DEF IInv
<1>6. CASE BlobFails
  BY <1>1, <1>2, <1>6, EndKeeps DEF BlobFails, disk, IInv
<1>7. CASE CommitFails
  <2>1. tx.at \in {"adopt", "salvage", "commit"} /\ blobs' \in {blobs, blobs \ {tx.fresh}}
        /\ tx' = Idle /\ UNCHANGED <<file, man, minted, history>>
    BY <1>7 DEF CommitFails
  <2>2. file = "present" => Backed(man, blobs')
    BY <1>2, <2>1 DEF IInv, Promised, Clear, Backed
  <2> QED
    BY <1>1, <2>1, <2>2, EndKeeps DEF IInv
<1>8. CASE Clean
  <2>1. PICK gone \in SUBSET tx.drop : blobs' = blobs \ gone
    BY <1>8 DEF Clean
  <2>2. tx.at = "clean" /\ tx' = Idle /\ UNCHANGED <<file, man, minted, history>>
    BY <1>8 DEF Clean
  <2>3. Backed(man, blobs')
    BY <1>2, <2>1, <2>2 DEF IInv, Clear, Backed
  <2> QED
    BY <1>1, <2>1, <2>2, <2>3, EndKeeps DEF IInv
<1>9. ASSUME NEW k \in Key, Expire(k)
      PROVE  IInv'
  <2>1. /\ tx.at = "idle" /\ tx' = tx /\ file = "present"
        /\ UNCHANGED <<file, blobs, minted, spent, taker>>
        /\ man'.run = man.run /\ man'.state = man.state /\ man'.blob = man.blob
        /\ man'.bound = man.bound
        /\ \A kk \in Key : kk # k => man'.receipts[kk] = man.receipts[kk] /\ effects'[kk] = effects[kk]
        /\ effects'[k] = 0
    BY <1>9 DEF Expire, TypeOK, Manifest
  <2>2. Good(man)'
    <3>1. Good(man)
      BY <2>1 DEF IInv
    <3>2. Backed(man, blobs)' /\ Apart(man)' /\ Old(man, minted)'
      BY <2>1, <3>1 DEF Good, Backed, Apart, Old, Is
    <3>3. \A kk \in Key : effects'[kk] # 0 => Known(man, kk)'
      BY <2>1, <3>1 DEF Good, Known
    <3> QED
      BY <2>1, <3>1, <3>2, <3>3 DEF Good, Known, Backed, Apart, Old, Is
  <2>3. \A kk \in Key : effects'[kk] <= 1
    BY <2>1 DEF IInv
  <2> QED
    BY <2>1, <2>2, <2>3 DEF IInv
<1>10. CASE Corrupt
  <2>1. /\ tx.at = "idle" /\ tx' = tx /\ file' = "corrupt"
        /\ UNCHANGED <<blobs, minted, spent>> /\ \A k \in Key : effects'[k] = 0
    BY <1>10 DEF Corrupt
  <2> QED
    BY <2>1 DEF IInv
<1>11. CASE UNCHANGED vars
  BY <1>11, SameKeeps DEF vars
<1> QED
  BY <1>3, <1>4, <1>5, <1>6, <1>7, <1>8, <1>9, <1>10, <1>11,
     LoadKeeps, OperationKeeps, CommitKeeps DEF Next

\* The types and the strengthened invariant hold always.
LEMMA InductiveInvariant == Spec => [](TypeOK /\ IInv)
<1>1. Init => TypeOK /\ IInv
  <2>1. Init => TypeOK
    BY ManifestTypes, IdleType, LimitAssumption DEF Init, TypeOK
  <2>2. Init => IInv
    BY DEF Init, IInv, Idle
  <2> QED
    BY <2>1, <2>2
<1>2. TypeOK /\ IInv /\ [Next]_vars => (TypeOK /\ IInv)'
  BY StepType, StepKeeps
<1> QED
  BY <1>1, <1>2, PTL DEF Spec

\* Whatever fails or crashes, an item the manifest lists has its body on disk.
THEOREM BodiesAreBacked == Spec => []BodiesBehindManifest
<1>1. IInv => BodiesBehindManifest
  BY DEF IInv, Good, Backed, BodiesBehindManifest, Bodies, Listed, Is
<1> QED
  BY <1>1, InductiveInvariant, PTL

\* An item is in flight only for the run that wrote the manifest last.
THEOREM TakerIsLastWriter == Spec => []InFlightHasTaker
<1>1. IInv => InFlightHasTaker
  BY DEF IInv, Good, InFlightHasTaker
<1> QED
  BY <1>1, InductiveInvariant, PTL

\* Neither a crash nor a recovery nor a salvage queues what was handed out.
THEOREM NothingRunsTwiceUnasked == Spec => []NoSilentRerun
<1>1. IInv => NoSilentRerun
  BY DEF IInv, Good, NoSilentRerun
<1> QED
  BY <1>1, InductiveInvariant, PTL

\* A key takes effect once for as long as it is remembered.
THEOREM KeysTakeEffectOnce == Spec => []OncePerKey
<1>1. IInv => OncePerKey
  BY DEF IInv, OncePerKey
<1> QED
  BY <1>1, InductiveInvariant, PTL

-----------------------------------------------------------------------------
\* Accepted work: the manifest, or the one a transaction is about to commit,
\* names every body the store owes.
Covers(m, bodies) == \A b \in bodies : \E n \in Name : Is(m, n) /\ m.blob[n] = b

OwedInv ==
  /\ file = "present" => Covers(man, owed)
  /\ file = "corrupt" => owed \subseteq blobs /\ tx.at \in {"idle", "salvage"}
  /\ file = "absent" => owed = {} \/ (tx.at = "salvage" /\ owed \subseteq blobs)
  /\ tx.at = "ready" => Covers(tx.next, owed)
  /\ tx.at \in {"adopt", "salvage", "blob", "commit"} =>
       Covers(tx.next, (owed \ tx.did.pays) \cup tx.did.owes)
  /\ tx.at = "salvage" => tx.did.pays = {}

\* What is decided on a loaded manifest keeps accepted work if it names it.
LEMMA DecideOwed ==
  ASSUME TypeOK, OwedInv, tx.at = "ready", NEW next, NEW drop, NEW did,
         Decide(next, drop, did) \/ DecideWithBody(next, drop, did),
         Covers(next, (owed \ did.pays) \cup did.owes)
  PROVE  OwedInv'
<1>1. tx'.at \in {"blob", "commit"} /\ tx'.next = next /\ tx'.did = did
  BY DEF Decide, DecideWithBody, TypeOK, Transaction
<1>2. UNCHANGED <<file, man, blobs, owed>>
  BY DEF Decide, DecideWithBody, disk, history
<1> QED
  BY <1>1, <1>2 DEF OwedInv, Covers, Is

\* A change of states and flags keeps accepted work.
LEMMA ChangeOwed ==
  ASSUME TypeOK, OwedInv, tx.at = "ready", NEW next \in Manifest, NEW did \in Effect,
         Decide(next, {}, did), did.pays = {}, did.owes = {},
         next.blob = View.blob, \A n \in Name : Is(View, n) => Is(next, n)
  PROVE  OwedInv'
<1>1. Covers(next, (owed \ did.pays) \cup did.owes)
  BY DEF OwedInv, Covers, View
<1> QED
  BY <1>1, DecideOwed

\* Settling pays for the bodies it drops.
LEMMA SettleOwed ==
  ASSUME TypeOK, OwedInv, tx.at = "ready", NEW items \in SUBSET Name, Settle(items)
  PROVE  OwedInv'
<1> DEFINE old == {k \in Key : View.receipts[k] # None}
           new == KeysOf(View, items)
           bodies == {View.blob[n] : n \in items}
<1>1. PICK keep \in Kept(old, new) :
        Decide(Without(View, items, keep), bodies,
               [Nothing EXCEPT !.pays = bodies, !.spends = items, !.lost = (old \cup new) \ keep])
  BY DEF Settle
<1> DEFINE next == Without(View, items, keep)
           did == [Nothing EXCEPT !.pays = bodies, !.spends = items, !.lost = (old \cup new) \ keep]
<1>2. did.pays = bodies /\ did.owes = {}
  BY DEF Nothing
<1>3. \A n \in Name : n \notin items => next.state[n] = View.state[n] /\ next.blob[n] = View.blob[n]
  BY DEF Without, TypeOK, Transaction, Manifest, View
<1>4. Decide(next, bodies, did)
  BY <1>1
<1> HIDE DEF next, did
<1>5. Covers(next, (owed \ did.pays) \cup did.owes)
  BY <1>2, <1>3 DEF OwedInv, Covers, View, Is
<1> QED
  BY <1>4, <1>5, DecideOwed

\* Every operation keeps accepted work, one step per operation.
LEMMA OperationOwed ==
  ASSUME TypeOK, IInv, OwedInv, Operation
  PROVE  OwedInv'
<1> USE DEF View
<1>1. View \in Manifest /\ Nothing.pays = {} /\ Nothing.owes = {}
  BY DEF TypeOK, Transaction, Nothing
<1>2. ASSUME NEW k \in Key \cup {NoKey}, Enqueue(k)
      PROVE  OwedInv'
  <2> DEFINE n == minted + 1
             next == [View EXCEPT !.state[n] = "queued", !.blob[n] = n, !.bound = Bound(View, k, n)]
             did == [Nothing EXCEPT !.owes = {n}, !.keys = {k} \cap Key]
  <2>1. tx.at = "ready" /\ DecideWithBody(next, {}, did) /\ minted < MaxNames
    BY <1>2 DEF Enqueue
  <2>2. minted \in Nat /\ n \in Name /\ n > minted
    BY <2>1, LimitAssumption DEF TypeOK, Name
  <2>3. ~Is(View, n)
    BY <2>1, <2>2 DEF IInv, Loaded, Good, Old
  <2>4. /\ did.pays = {} /\ did.owes = {n}
        /\ next.state[n] = "queued" /\ next.blob[n] = n
        /\ \A m \in Name : m # n => next.state[m] = View.state[m] /\ next.blob[m] = View.blob[m]
    BY <1>1, <2>2 DEF Nothing, Manifest
  <2> HIDE DEF next, did
  <2>5. Covers(next, (owed \ did.pays) \cup did.owes)
    BY <2>1, <2>2, <2>3, <2>4 DEF OwedInv, Covers, Is
  <2> QED
    BY <2>1, <2>5, DecideOwed
<1>3. ASSUME NEW n \in Name, NEW k \in Key \cup {NoKey}, Update(n, k)
      PROVE  OwedInv'
  <2> DEFINE s == minted + 1
             next == [View EXCEPT !.blob[n] = s, !.bound = Bound(View, k, n),
                                  !.state[n] = IF @ = "blocked" THEN "queued" ELSE @]
             did == [Nothing EXCEPT !.owes = {s}, !.pays = {View.blob[n]},
                                    !.keys = {k} \cap Key,
                                    !.frees = IF View.state[n] = "blocked" THEN {n} ELSE {}]
  <2>1. /\ tx.at = "ready" /\ DecideWithBody(next, {View.blob[n]}, did)
        /\ View.state[n] \in Pending
    BY <1>3 DEF Update
  <2>2. /\ did.pays = {View.blob[n]} /\ did.owes = {s}
        /\ next.state[n] = (IF View.state[n] = "blocked" THEN "queued" ELSE View.state[n])
        /\ next.blob[n] = s
        /\ \A m \in Name : m # n => next.state[m] = View.state[m] /\ next.blob[m] = View.blob[m]
    BY <1>1 DEF Nothing, Manifest
  <2> HIDE DEF next, did
  <2>3. Covers(next, (owed \ did.pays) \cup did.owes)
    BY <2>1, <2>2 DEF OwedInv, Covers, Is, Pending
  <2> QED
    BY <2>1, <2>3, DecideOwed
<1>4. ASSUME tx.at = "ready", NEW n \in Name, NEW s \in State \ {"gone"}, NEW did \in Effect,
             Decide([View EXCEPT !.state[n] = s], {}, did), did.pays = {}, did.owes = {}
      PROVE  OwedInv'
  <2> DEFINE next == [View EXCEPT !.state[n] = s]
  <2>1. /\ next \in Manifest /\ next.blob = View.blob
        /\ \A m \in Name : next.state[m] = (IF m = n THEN s ELSE View.state[m])
    BY <1>1 DEF Manifest
  <2> HIDE DEF next
  <2>2. \A m \in Name : Is(View, m) => Is(next, m)
    BY <2>1 DEF Is
  <2>3. Decide(next, {}, did)
    BY <1>4 DEF next
  <2> QED
    BY <1>4, <2>1, <2>2, <2>3, ChangeOwed
<1>5. ASSUME tx.at = "ready", NEW next \in Manifest, Decide(next, {}, Nothing),
             next.blob = View.blob,
             \A m \in Name : Is(View, m) => Is(next, m)
      PROVE  OwedInv'
  BY <1>1, <1>5, NothingType, ChangeOwed
<1>6. ASSUME NEW n \in Name,
             DeleteItem(n) \/ CancelAcceptedSteer(n) \/ AckDequeue(n)
      PROVE  OwedInv'
  BY <1>6, SettleOwed DEF DeleteItem, CancelAcceptedSteer, AckDequeue
<1>7. ASSUME NEW n \in Name, ClaimItem(n)
      PROVE  OwedInv'
  <2> DEFINE did == [Nothing EXCEPT !.spends = {n}, !.takes = {n}]
  <2>1. did \in Effect /\ did.pays = {} /\ did.owes = {}
    BY NothingType DEF Effect, Nothing
  <2>2. "running" \in State \ {"gone"}
    BY DEF State, InFlight
  <2> HIDE DEF did
  <2> QED
    BY <1>4, <1>7, <2>1, <2>2 DEF ClaimItem, did
<1>8. ASSUME NEW n \in Name, RetryItem(n)
      PROVE  OwedInv'
  <2> DEFINE did == [Nothing EXCEPT !.frees = {n}]
  <2>1. did \in Effect /\ did.pays = {} /\ did.owes = {}
    BY NothingType DEF Effect, Nothing
  <2>2. "queued" \in State \ {"gone"}
    BY DEF State, Pending
  <2> HIDE DEF did
  <2> QED
    BY <1>4, <1>8, <2>1, <2>2 DEF RetryItem, did
<1>9. ASSUME NEW n \in Name, NEW s \in State, SetState(n, s)
      PROVE  OwedInv'
  <2> DEFINE taken == IF s \in InFlight THEN {n} ELSE {}
             freed == IF s = "queued" THEN {n} ELSE {}
             did == [Nothing EXCEPT !.spends = taken, !.takes = taken, !.frees = freed]
  <2>1. did \in Effect /\ did.pays = {} /\ did.owes = {}
    BY NothingType DEF Effect, Nothing
  <2>2. s \in State \ {"gone"}
    BY <1>9 DEF SetState, Asked, Pending, InFlight
  <2>3. Decide([View EXCEPT !.state[n] = s], {}, did) /\ tx.at = "ready"
    BY <1>9 DEF SetState
  <2> HIDE DEF did
  <2> QED
    BY <1>4, <2>1, <2>2, <2>3
<1>10. ASSUME NEW items \in SUBSET Name, DiscardPendingItems(items)
       PROVE  OwedInv'
  BY <1>10, SettleOwed DEF DiscardPendingItems
<1>11. ASSUME NEW items \in SUBSET Name, RecoverOrphanedInFlight(items)
       PROVE  OwedInv'
  <2> DEFINE next == [View EXCEPT !.paused = TRUE, !.recovered = TRUE,
                        !.state = [n \in Name |-> IF n \in items THEN "uncertain" ELSE @[n]]]
  <2>1. /\ next \in Manifest /\ next.blob = View.blob
        /\ \A m \in Name : next.state[m] = (IF m \in items THEN "uncertain" ELSE View.state[m])
    BY <1>1 DEF Manifest, State, Pending
  <2>2. tx.at = "ready" /\ Decide(next, {}, Nothing)
    BY <1>11 DEF RecoverOrphanedInFlight
  <2> HIDE DEF next
  <2>3. \A m \in Name : Is(View, m) => Is(next, m)
    BY <2>1 DEF Is
  <2> QED
    BY <1>5, <2>1, <2>2, <2>3
<1>12. ASSUME NEW flag \in BOOLEAN, SetPaused(flag) \/ ForcePause(flag)
       PROVE  OwedInv'
  <2> DEFINE next1 == [View EXCEPT !.paused = flag, !.recovered = flag /\ @]
             next2 == [View EXCEPT !.paused = TRUE, !.recovered = flag \/ @]
  <2>1. /\ next1 \in Manifest /\ next1.blob = View.blob /\ next1.state = View.state
        /\ next2 \in Manifest /\ next2.blob = View.blob /\ next2.state = View.state
    BY <1>1 DEF Manifest
  <2>2. tx.at = "ready" /\ (Decide(next1, {}, Nothing) \/ Decide(next2, {}, Nothing))
    BY <1>12 DEF SetPaused, ForcePause
  <2> HIDE DEF next1, next2
  <2> QED
    BY <1>5, <2>1, <2>2 DEF Is
<1>13. CASE Rearrange
  BY <1>1, <1>5, <1>13 DEF Rearrange
<1>14. CASE Leave
  BY <1>14 DEF Leave, Idle, disk, history, OwedInv, Covers, Is
<1> QED
  BY <1>2, <1>3, <1>6, <1>7, <1>8, <1>9, <1>10, <1>11, <1>12, <1>13, <1>14 DEF Operation

\* No step loses accepted work, unless a salvage can be cut short.
LEMMA StepOwed ==
  ASSUME "midsalvage" \notin Faults, TypeOK, IInv, OwedInv, [Next]_vars
  PROVE  OwedInv'
<1>1. Idle.at = "idle"
  BY DEF Idle
<1>2. ASSUME NEW r \in Run, Start(r)
      PROVE  OwedInv'
  BY <1>2 DEF Start, OwedInv, Covers, Is, disk, history
<1>3. ASSUME NEW r \in Run, LoadFresh(r)
      PROVE  OwedInv'
  BY <1>3 DEF LoadFresh, Begin, Idle, OwedInv, Covers, Is, disk, history
<1>4. ASSUME NEW r \in Run, LoadOwn(r)
      PROVE  OwedInv'
  <2>1. tx'.at = "ready" /\ tx'.next.state = man.state /\ tx'.next.blob = man.blob
    BY <1>4 DEF LoadOwn, Begin, Idle, TypeOK, Manifest
  <2> QED
    BY <1>4, <2>1 DEF LoadOwn, OwedInv, Covers, Is, history
<1>5. Nothing.pays = {} /\ Nothing.owes = {}
  BY DEF Nothing
<1>6. ASSUME NEW r \in Run, LoadForeign(r)
      PROVE  OwedInv'
  <2>1. /\ tx'.at = "adopt" /\ tx'.next = Adopted(man, r) /\ tx'.did = Nothing
        /\ tx'.next.blob = man.blob
        /\ \A n \in Name : Is(man, n) => Is(tx'.next, n)
    BY <1>6 DEF LoadForeign, Begin, Idle, Adopted, TypeOK, Manifest, Is
  <2> QED
    BY <1>5, <1>6, <2>1 DEF LoadForeign, OwedInv, Covers, Is, disk, history
<1>7. ASSUME NEW r \in Run, LoadCorrupt(r)
      PROVE  OwedInv'
  <2>1. /\ tx'.at = "salvage" /\ tx'.did = Nothing
        /\ \A n \in Name : n \in blobs => Is(tx'.next, n) /\ tx'.next.blob[n] = n
    BY <1>7 DEF LoadCorrupt, Begin, Idle, Salvaged, Empty, Is
  <2>2. owed \subseteq blobs /\ owed \subseteq Name
    BY <1>7 DEF LoadCorrupt, OwedInv, TypeOK
  <2> QED
    BY <1>5, <1>7, <2>1, <2>2 DEF LoadCorrupt, OwedInv, Covers, history
<1>8. ASSUME NEW r \in Run, Crash(r)
      PROVE  OwedInv'
  <2>1. CASE tx.run = r
    <3>1. file = "absent" => owed = {}
      BY <1>8, <2>1 DEF Crash, MidSalvage, OwedInv
    <3> QED
      BY <1>1, <1>8, <2>1, <3>1 DEF Crash, OwedInv, Covers, Is, disk, history
  <2>2. CASE tx.run # r
    BY <1>8, <2>2 DEF Crash, OwedInv, Covers, Is, disk, history
  <2> QED
    BY <2>1, <2>2
<1>9. CASE WriteBlob
  <2>1. /\ tx.at = "blob" /\ tx'.at = "commit" /\ tx'.next = tx.next /\ tx'.did = tx.did
        /\ UNCHANGED <<file, man, owed>>
    BY <1>9 DEF WriteBlob, TypeOK, Transaction, history
  <2> QED
    BY <2>1 DEF OwedInv, Covers, Is
<1>10. CASE BlobFails
  BY <1>1, <1>10 DEF BlobFails, OwedInv, Covers, Is, disk, history
<1>11. CASE Commit
  <2>1. /\ tx.at \in {"adopt", "salvage", "commit"} /\ file' = "present" /\ man' = tx.next
        /\ owed' = (owed \ tx.did.pays) \cup tx.did.owes
        /\ tx'.at \in {"clean", "ready"} /\ tx'.next = tx.next
    BY <1>11 DEF Commit, TypeOK, Transaction
  <2> QED
    BY <2>1 DEF OwedInv, Covers, Is
<1>12. CASE CommitFails
  <2>1. /\ tx.at \in {"adopt", "salvage", "commit"} /\ blobs' \in {blobs, blobs \ {tx.fresh}}
        /\ tx'.at = "idle" /\ UNCHANGED <<file, man, owed>>
        /\ ~(tx.at = "salvage" /\ file = "absent")
    BY <1>1, <1>12 DEF CommitFails, MidSalvage, history
  <2>2. file = "corrupt" => owed \subseteq blobs'
    <3>1. file = "corrupt" => tx.fresh = None
      BY <2>1 DEF OwedInv, IInv, Promised
    <3>2. None \notin owed
      BY DEF TypeOK, Name, None
    <3> QED
      BY <2>1, <3>1, <3>2 DEF OwedInv
  <2> QED
    BY <2>1, <2>2 DEF OwedInv, Covers, Is
<1>13. CASE Clean
  BY <1>1, <1>13 DEF Clean, IInv, OwedInv, Covers, Is, history
<1>14. ASSUME NEW k \in Key, Expire(k)
       PROVE  OwedInv'
  <2>1. man'.state = man.state /\ man'.blob = man.blob
    BY <1>14 DEF Expire, TypeOK, Manifest
  <2> QED
    BY <1>14, <2>1 DEF Expire, OwedInv, Covers, Is
<1>15. CASE Corrupt
  <2>1. owed \subseteq blobs
    BY <1>15 DEF Corrupt, OwedInv, Covers, IInv, Good, Backed
  <2> QED
    BY <1>15, <2>1 DEF Corrupt, OwedInv
<1>16. CASE UNCHANGED vars
  BY <1>16 DEF vars, OwedInv, Covers, Is, disk, history
<1> QED
  BY <1>2, <1>3, <1>4, <1>6, <1>7, <1>8, <1>9, <1>10, <1>11, <1>12, <1>13, <1>14, <1>15,
     <1>16, OperationOwed DEF Next, Load

\* Accepted work stays listed, or salvageable, until it is settled, as long as
\* a salvage is not cut short between its two renames.
THEOREM AcceptedWorkIsKept ==
  ASSUME "midsalvage" \notin Faults
  PROVE  Spec => []AcceptedIsKept
<1>1. Init => OwedInv
  BY DEF Init, OwedInv, Idle
<1>2. TypeOK /\ IInv /\ OwedInv /\ [Next]_vars => OwedInv'
  BY StepOwed
<1>3. TypeOK /\ IInv /\ OwedInv => AcceptedIsKept
  <2> SUFFICES ASSUME TypeOK, IInv, OwedInv
               PROVE  AcceptedIsKept
    OBVIOUS
  <2>1. file = "present" => owed \subseteq Bodies(man)
    BY DEF OwedInv, Covers, Bodies, Listed, Is
  <2>2. file = "absent" /\ tx.at = "salvage" => owed \subseteq Bodies(tx.next)
    <3>1. tx.at = "salvage" => tx.did.pays = {}
      BY DEF OwedInv
    <3> QED
      BY <3>1 DEF OwedInv, Covers, Bodies, Listed, Is
  <2> QED
    BY <2>1, <2>2 DEF AcceptedIsKept, OwedInv
<1> QED
  BY <1>1, <1>2, <1>3, InductiveInvariant, PTL DEF Spec
=============================================================================
