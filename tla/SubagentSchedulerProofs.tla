----------------------- MODULE SubagentSchedulerProofs -----------------------
(***************************************************************************)
(* The scheduler's safety for every set of runs, every claim and every     *)
(* configured limit.  The inductive invariant pairs the counters and claim *)
(* lists with the set of holders they describe; its delicate steps are the *)
(* two critical sections that change several runs at once, a release and   *)
(* the pump after it, which get a lemma each on the value of sched.        *)
(***************************************************************************)
EXTENDS SubagentScheduler, WritePathsProofs, FiniteSetTheorems

SchedValue ==
  [activeTotal : Nat, activeWriters : Nat,
   activeClaims : SUBSET WritePathSet, parentClaims : SUBSET WritePathSet]

(* s describes the holders H. *)
Describes(s, H) ==
  /\ s.activeTotal = Cardinality(H)
  /\ s.activeWriters = Cardinality(Writers(H))
  /\ s.activeClaims = Claims(H)

(* No two writers of H overlap, and none overlaps a reservation of P. *)
Separate(H, P) ==
  /\ \A a, b \in Writers(H) : a # b => ~Overlaps(Req[a].claim, Req[b].claim)
  /\ \A a \in Writers(H), c \in P : ~Overlaps(Req[a].claim, c)

WithinLimits(s) ==
  /\ s.activeTotal <= Limits.total
  /\ s.activeWriters <= Limits.writers

Sound(s, H) ==
  /\ s \in SchedValue
  /\ Describes(s, H)
  /\ Separate(H, s.parentClaims)
  /\ WithinLimits(s)

LEMMA WritersFinite ==
  ASSUME NEW H \in SUBSET Run
  PROVE  /\ IsFiniteSet(H)
         /\ IsFiniteSet(Writers(H))
         /\ Writers(H) \subseteq H
         /\ Cardinality(H) \in Nat
         /\ Cardinality(Writers(H)) \in Nat
         /\ Claims(H) \in SUBSET WritePathSet
<1>1. Writers(H) \subseteq H
  BY DEF Writers
<1>2. IsFiniteSet(H)
  BY RunAssumption, FS_Subset
<1>3. IsFiniteSet(Writers(H))
  BY <1>1, <1>2, FS_Subset
<1>4. Claims(H) \in SUBSET WritePathSet
  BY <1>1, ReqAssumption DEF Claims, Writers, AcquireRequest
<1> QED BY <1>1, <1>2, <1>3, <1>4, FS_CardinalityType

LEMMA LimitsAreNaturals == Limits.total \in Nat \ {0} /\ Limits.writers \in Nat \ {0}
<1>1. /\ Limits.total \in 1..MaxSubagentConcurrencyLimit
      /\ Limits.writers \in 1..Limits.total
  BY LimitsUsable, LimitAssumption DEF Limits
<1> QED BY <1>1 DEF MaxSubagentConcurrencyLimit

(* The limits in force are within those configured. *)
LEMMA LimitsAsConfigured ==
  /\ Limits.total <= MaxSubagentConcurrencyLimit
  /\ Limits.total <= IF ConfTotal > 0 THEN ConfTotal ELSE DefaultMaxSubagentConcurrency
  /\ Limits.writers <= IF ConfWriters > 0 THEN ConfWriters ELSE DefaultMaxParallelWriters
BY LimitAssumption DEF Limits, NormalizeConcurrencyLimits, Clamp, MaxSubagentConcurrencyLimit,
   DefaultMaxSubagentConcurrency, DefaultMaxParallelWriters

(* deactivateLocked takes one holder out, and only its own claim. *)
LEMMA DeactivateSound ==
  ASSUME NEW s, NEW H \in SUBSET Run, NEW r \in H, Sound(s, H)
  PROVE  Sound(Deactivate(s, r), H \ {r})
<1> DEFINE t == Deactivate(s, r)
<1>1. s \in SchedValue /\ Describes(s, H) /\ Separate(H, s.parentClaims) /\ WithinLimits(s)
  BY DEF Sound
<1>2. /\ t.activeTotal = Decrement(s.activeTotal)
      /\ t.activeWriters = IF Req[r].writer THEN Decrement(s.activeWriters)
                           ELSE s.activeWriters
      /\ t.activeClaims = s.activeClaims \ Claims({r})
      /\ t.parentClaims = s.parentClaims
  BY DEF Deactivate
<1>3. /\ Cardinality(H \ {r}) = Cardinality(H) - 1
      /\ Cardinality(H) \in Nat /\ Cardinality(H \ {r}) \in Nat
  BY WritersFinite, FS_RemoveElement
<1>4. t.activeTotal = Cardinality(H \ {r})
  BY <1>1, <1>2, <1>3 DEF Describes, Decrement
<1>5. t.activeWriters = Cardinality(Writers(H \ {r}))
  <2>1. CASE Req[r].writer
    <3>1. Writers(H \ {r}) = Writers(H) \ {r} /\ r \in Writers(H)
      BY <2>1 DEF Writers
    <3>2. /\ Cardinality(Writers(H \ {r})) = Cardinality(Writers(H)) - 1
          /\ Cardinality(Writers(H)) \in Nat /\ Cardinality(Writers(H \ {r})) \in Nat
      BY <3>1, WritersFinite, FS_RemoveElement
    <3> QED BY <1>1, <1>2, <2>1, <3>2 DEF Describes, Decrement
  <2>2. CASE ~Req[r].writer
    <3>1. Writers(H \ {r}) = Writers(H)
      BY <2>2 DEF Writers
    <3> QED BY <1>1, <1>2, <2>2, <3>1 DEF Describes
  <2> QED BY <2>1, <2>2
<1>6. t.activeClaims = Claims(H \ {r})
  <2>1. ASSUME NEW q \in Writers(H), q # r, ~Empty(Req[q].claim), r \in Writers(H)
        PROVE  Req[q].claim # Req[r].claim
    <3>1. ~Overlaps(Req[q].claim, Req[r].claim)
      BY <1>1, <2>1 DEF Separate
    <3>2. Req[q].claim \in WritePathSet
      BY <2>1, ReqAssumption DEF AcquireRequest, Writers
    <3> QED BY <2>1, <3>1, <3>2, OverlapsReflexive
  <2>2. Claims(H) \ Claims({r}) = Claims(H \ {r})
    BY <2>1 DEF Claims, Writers
  <2> QED BY <1>1, <1>2, <2>2 DEF Describes
<1>7. t \in SchedValue
  BY <1>1, <1>2, <1>3, <1>4, <1>5, WritersFinite DEF SchedValue, Deactivate
<1>8. Separate(H \ {r}, t.parentClaims)
  BY <1>1, <1>2 DEF Separate, Writers
<1>9. WithinLimits(t)
  BY <1>1, <1>2, LimitsAreNaturals DEF WithinLimits, Decrement, SchedValue
<1> QED BY <1>4, <1>5, <1>6, <1>7, <1>8, <1>9 DEF Sound, Describes

(* activateLocked lets in one run that passed canStartLocked. *)
LEMMA ActivateSound ==
  ASSUME NEW s, NEW H \in SUBSET Run, NEW r \in Run \ H, Sound(s, H), CanStart(s, r)
  PROVE  Sound(Activate(s, {r}), H \cup {r})
<1> DEFINE t == Activate(s, {r})
<1>1. s \in SchedValue /\ Describes(s, H) /\ Separate(H, s.parentClaims) /\ WithinLimits(s)
  BY DEF Sound
<1>2. /\ t.activeTotal = s.activeTotal + 1
      /\ t.activeWriters = s.activeWriters + Cardinality(Writers({r}))
      /\ t.activeClaims = s.activeClaims \cup Claims({r})
      /\ t.parentClaims = s.parentClaims
  BY FS_Singleton DEF Activate
<1>3. Cardinality(H \cup {r}) = Cardinality(H) + 1
  BY WritersFinite, FS_AddElement
<1>4. /\ Cardinality(Writers(H \cup {r})) = Cardinality(Writers(H)) + Cardinality(Writers({r}))
      /\ Cardinality(Writers({r})) = IF Req[r].writer THEN 1 ELSE 0
  <2>1. CASE Req[r].writer
    <3>1. Writers(H \cup {r}) = Writers(H) \cup {r} /\ r \notin Writers(H) /\ Writers({r}) = {r}
      BY <2>1 DEF Writers
    <3>2. IsFiniteSet(Writers(H))
      BY WritersFinite
    <3>3. Cardinality(Writers(H) \cup {r}) = Cardinality(Writers(H)) + 1
      BY <3>1, <3>2, FS_AddElement
    <3>4. Cardinality({r}) = 1
      BY FS_Singleton
    <3> QED BY <2>1, <3>1, <3>3, <3>4
  <2>2. CASE ~Req[r].writer
    <3>1. Writers(H \cup {r}) = Writers(H) /\ Writers({r}) = {}
      BY <2>2 DEF Writers
    <3> QED BY <2>2, <3>1, WritersFinite, FS_EmptySet
  <2> QED BY <2>1, <2>2
<1>5. Claims(H \cup {r}) = Claims(H) \cup Claims({r})
  BY DEF Claims, Writers
<1>6. Describes(t, H \cup {r})
  BY <1>1, <1>2, <1>3, <1>4, <1>5 DEF Describes
<1>7. t \in SchedValue
  <2>1. H \cup {r} \in SUBSET Run
    OBVIOUS
  <2> QED BY <1>1, <1>2, <1>6, <2>1, WritersFinite DEF SchedValue, Activate, Describes
<1>8. WithinLimits(t)
  BY <1>1, <1>2, <1>4, LimitsAreNaturals DEF WithinLimits, CanStart, SchedValue
<1>9. ASSUME NEW a \in Writers(H), r \in Writers({r})
      PROVE  ~Overlaps(Req[a].claim, Req[r].claim) /\ ~Overlaps(Req[r].claim, Req[a].claim)
  <2>1. Req[a].claim \in WritePathSet /\ Req[r].claim \in WritePathSet
    BY ReqAssumption DEF AcquireRequest, Writers
  <2>2. CASE Empty(Req[a].claim)
    BY <2>2 DEF Overlaps
  <2>3. CASE ~Empty(Req[a].claim)
    <3>1. Req[a].claim \in s.activeClaims
      BY <1>1, <1>9, <2>3 DEF Describes, Claims, Writers
    <3>2. ~Overlaps(Req[a].claim, Req[r].claim)
      BY <1>9, <3>1 DEF CanStart, Writers
    <3> QED BY <2>1, <3>2, OverlapsSymmetric
  <2> QED BY <2>2, <2>3
<1>10. ASSUME NEW c \in s.parentClaims, r \in Writers({r})
       PROVE  ~Overlaps(Req[r].claim, c)
  <2>1. c \in WritePathSet /\ Req[r].claim \in WritePathSet
    BY <1>1, ReqAssumption DEF AcquireRequest, SchedValue
  <2>2. ~Overlaps(c, Req[r].claim)
    BY <1>10 DEF CanStart, Writers
  <2> QED BY <2>1, <2>2, OverlapsSymmetric
<1>11. Separate(H \cup {r}, t.parentClaims)
  BY <1>1, <1>2, <1>9, <1>10 DEF Separate, Writers
<1> QED BY <1>6, <1>7, <1>8, <1>11 DEF Sound

------------------------------------------------------------------------------
(* The waiters W are visited in a strict total order. *)
Ordered(W) ==
  /\ W \in SUBSET Run
  /\ behind \in [Run -> SUBSET Run]
  /\ \A r \in W : r \notin behind[r]
  /\ \A a, b \in W : a # b => (a \in behind[b] <=> b \notin behind[a])
  /\ \A a, b \in W : a \in behind[b] => behind[a] \subseteq behind[b]

LEMMA PrecedesIsStrictOrder ==
  ASSUME NEW W, Ordered(W)
  PROVE  /\ \A a \in W : ~Precedes(a, a)
         /\ \A a, b \in W : a # b => Precedes(a, b) \/ Precedes(b, a)
         /\ \A a, b, c \in W : Precedes(a, b) /\ Precedes(b, c) => Precedes(a, c)
<1>1. \A r \in W : Req[r].priority \in Int
  BY ReqAssumption DEF AcquireRequest, Ordered
<1>2. \A a \in W : ~Precedes(a, a)
  BY <1>1 DEF Precedes, Ordered
<1>3. \A a, b \in W : a # b => Precedes(a, b) \/ Precedes(b, a)
  BY <1>1 DEF Precedes, Ordered
<1>4. ASSUME NEW a \in W, NEW b \in W, NEW c \in W, Precedes(a, b), Precedes(b, c)
      PROVE  Precedes(a, c)
  <2>1. CASE Req[a].priority = Req[b].priority /\ Req[b].priority = Req[c].priority
    <3>1. a \in behind[b] /\ b \in behind[c]
      BY <1>1, <1>4, <2>1 DEF Precedes
    <3>2. a \in behind[c]
      BY <3>1 DEF Ordered
    <3> QED BY <2>1, <3>2 DEF Precedes
  <2>2. CASE Req[a].priority > Req[c].priority
    BY <2>2 DEF Precedes
  <2> QED BY <1>1, <1>4, <2>1, <2>2 DEF Precedes
<1> QED BY <1>2, <1>3, <1>4

(* The last of some waiters: everyone else among them was visited before. *)
LEMMA LastVisited ==
  ASSUME NEW W, Ordered(W), NEW S \in SUBSET W, S # {}
  PROVE  \E b \in S : \A g \in S : g # b => Precedes(g, b)
<1> DEFINE After(x) == {y \in S : Precedes(x, y)}
           T == {After(x) : x \in S}
<1>1. IsFiniteSet(S)
  BY RunAssumption, FS_Subset DEF Ordered
<1>2. T \subseteq FiniteSubsetsOf(S) /\ T # {}
  <2>1. \A x \in S : After(x) \in SUBSET S /\ IsFiniteSet(After(x))
    BY <1>1, FS_Subset
  <2> QED BY <2>1 DEF FiniteSubsetsOf
<1>3. PICK m \in T : \A y \in T : ~(<<y, m>> \in StrictSubsetOrdering(S))
  <2>1. IsWellFoundedOn(StrictSubsetOrdering(S), FiniteSubsetsOf(S))
    BY FS_StrictSubsetOrderingWellFounded
  <2> HIDE DEF T
  <2> QED BY <1>2, <2>1, WFMin
<1>4. PICK b \in S : m = After(b)
  BY <1>3
<1>5. ASSUME NEW y \in After(b) PROVE FALSE
  <2>1. y \in S /\ y \notin After(y) /\ After(y) \subseteq After(b)
    BY <1>5, PrecedesIsStrictOrder
  <2>2. After(y) # After(b) /\ After(y) \in T
    BY <1>5, <2>1
  <2>3. <<After(y), m>> \in StrictSubsetOrdering(S)
    BY <1>4, <2>1, <2>2 DEF StrictSubsetOrdering
  <2> QED BY <1>3, <2>2, <2>3
<1>6. \A g \in S : ~Precedes(b, g)
  BY <1>5
<1> QED BY <1>6, PrecedesIsStrictOrder

------------------------------------------------------------------------------
(* More runs active can only hold a request back. *)
LEMMA CanStartIsMonotone ==
  ASSUME NEW s \in SchedValue, NEW G \in SUBSET Run, NEW E \in SUBSET G, NEW r \in Run,
         CanStart(Activate(s, G), r)
  PROVE  CanStart(Activate(s, E), r)
<1>1. Writers(E) \subseteq Writers(G) /\ Claims(E) \subseteq Claims(G)
  BY DEF Writers, Claims
<1>2. /\ Cardinality(E) <= Cardinality(G)
      /\ Cardinality(Writers(E)) <= Cardinality(Writers(G))
  BY <1>1, WritersFinite, FS_Subset
<1>3. /\ Cardinality(E) \in Nat /\ Cardinality(G) \in Nat
      /\ Cardinality(Writers(E)) \in Nat /\ Cardinality(Writers(G)) \in Nat
  BY WritersFinite
<1>4. s.activeTotal \in Nat /\ s.activeWriters \in Nat
  BY DEF SchedValue
<1>5. Limits.total \in Nat /\ Limits.writers \in Nat
  BY LimitsAreNaturals
<1> QED BY <1>1, <1>2, <1>3, <1>4, <1>5 DEF CanStart, Activate

(* One pump: it stays within the limits, grants only claims that are separate
   from each other and from what is held, and leaves nobody who could start. *)
LEMMA PumpSound ==
  ASSUME NEW s, NEW H \in SUBSET Run, Sound(s, H), Ordered(waiters),
         waiters \cap H = {}, NEW G \in SUBSET waiters, PumpGrants(s, G)
  PROVE  /\ Sound(Activate(s, G), H \cup G)
         /\ \A r \in waiters \ G : ~CanStart(Activate(s, G), r)
<1> DEFINE t == Activate(s, G)
           Earlier(r) == {g \in G : Precedes(g, r)}
<1>1. s \in SchedValue /\ Describes(s, H) /\ Separate(H, s.parentClaims) /\ WithinLimits(s)
  BY DEF Sound
<1>2. G \in SUBSET Run /\ H \cup G \in SUBSET Run /\ G \cap H = {}
  BY DEF Ordered
<1>3. /\ t.activeTotal = s.activeTotal + Cardinality(G)
      /\ t.activeWriters = s.activeWriters + Cardinality(Writers(G))
      /\ t.activeClaims = s.activeClaims \cup Claims(G)
      /\ t.parentClaims = s.parentClaims
  BY DEF Activate
<1>4. Describes(t, H \cup G)
  <2>1. Cardinality(H \cup G) = Cardinality(H) + Cardinality(G)
    <3>1. IsFiniteSet(H) /\ IsFiniteSet(G) /\ H \cap G = {}
      BY <1>2, WritersFinite
    <3>2. Cardinality(H \cup G) = Cardinality(H) + Cardinality(G) - Cardinality(H \cap G)
      BY <3>1, FS_Union
    <3>3. Cardinality(H \cap G) = 0 /\ Cardinality(H) \in Nat /\ Cardinality(G) \in Nat
      BY <1>2, <3>1, FS_EmptySet, WritersFinite
    <3> QED BY <3>2, <3>3
  <2>2. Cardinality(Writers(H \cup G)) = Cardinality(Writers(H)) + Cardinality(Writers(G))
    <3>1. /\ Writers(H \cup G) = Writers(H) \cup Writers(G)
          /\ Writers(H) \cap Writers(G) = {}
      BY <1>2 DEF Writers
    <3>2. IsFiniteSet(Writers(H)) /\ IsFiniteSet(Writers(G))
      BY <1>2, WritersFinite
    <3>3. Cardinality(Writers(H) \cup Writers(G))
            = Cardinality(Writers(H)) + Cardinality(Writers(G))
                - Cardinality(Writers(H) \cap Writers(G))
      BY <3>2, FS_Union
    <3>4. /\ Cardinality(Writers(H) \cap Writers(G)) = 0
          /\ Cardinality(Writers(H)) \in Nat /\ Cardinality(Writers(G)) \in Nat
      BY <1>2, <3>1, FS_EmptySet, WritersFinite
    <3>5. Cardinality(Writers(H \cup G)) = Cardinality(Writers(H) \cup Writers(G))
      BY <3>1
    <3> QED BY <3>3, <3>4, <3>5
  <2>3. Claims(H \cup G) = Claims(H) \cup Claims(G)
    BY DEF Claims, Writers
  <2> QED BY <1>1, <1>3, <2>1, <2>2, <2>3 DEF Describes
<1>5. t \in SchedValue
  BY <1>1, <1>2, <1>4, WritersFinite DEF SchedValue, Activate, Describes
<1>6. \A r \in G : CanStart(Activate(s, Earlier(r)), r)
  BY DEF PumpGrants
<1>7. WithinLimits(t)
  <2>1. t.activeTotal <= Limits.total
    <3>1. CASE G = {}
      BY <1>1, <1>3, <3>1, FS_EmptySet DEF WithinLimits, SchedValue
    <3>2. CASE G # {}
      <4>1. PICK b \in G : \A g \in G : g # b => Precedes(g, b)
        BY <3>2, LastVisited
      <4>2. Earlier(b) = G \ {b}
        BY <4>1, PrecedesIsStrictOrder
      <4>3. s.activeTotal + Cardinality(G \ {b}) < Limits.total
        BY <1>6, <4>2 DEF CanStart, Activate
      <4>4. Cardinality(G \ {b}) = Cardinality(G) - 1 /\ Cardinality(G) \in Nat
        BY <1>2, WritersFinite, FS_RemoveElement
      <4> QED BY <1>1, <1>3, <4>3, <4>4, LimitsAreNaturals DEF SchedValue
    <3> QED BY <3>1, <3>2
  <2>2. t.activeWriters <= Limits.writers
    <3>1. CASE Writers(G) = {}
      BY <1>1, <1>3, <3>1, FS_EmptySet DEF WithinLimits, SchedValue
    <3>2. CASE Writers(G) # {}
      <4>1. PICK b \in Writers(G) : \A g \in Writers(G) : g # b => Precedes(g, b)
        <5>1. Writers(G) \in SUBSET waiters
          BY DEF Writers
        <5> QED BY <3>2, <5>1, LastVisited
      <4>2. b \in G /\ b \in waiters /\ Req[b].writer
        BY DEF Writers
      <4>3. Writers(Earlier(b)) = Writers(G) \ {b}
        BY <4>1, <4>2, PrecedesIsStrictOrder DEF Writers
      <4>4. s.activeWriters + Cardinality(Writers(G) \ {b}) < Limits.writers
        BY <1>6, <4>2, <4>3 DEF CanStart, Activate
      <4>5. /\ Cardinality(Writers(G) \ {b}) = Cardinality(Writers(G)) - 1
            /\ Cardinality(Writers(G)) \in Nat
        BY <1>2, WritersFinite, FS_RemoveElement
      <4> QED BY <1>1, <1>3, <4>4, <4>5, LimitsAreNaturals DEF SchedValue
    <3> QED BY <3>1, <3>2
  <2> QED BY <2>1, <2>2 DEF WithinLimits
<1>8. \A r \in Run : Req[r].claim \in WritePathSet
  BY ReqAssumption DEF AcquireRequest
<1>9. ASSUME NEW a \in Writers(H), NEW b \in Writers(G)
      PROVE  ~Overlaps(Req[a].claim, Req[b].claim)
  <2>1. CASE Empty(Req[a].claim)
    BY <2>1 DEF Overlaps
  <2>2. CASE ~Empty(Req[a].claim)
    <3>1. Req[a].claim \in s.activeClaims
      BY <1>1, <2>2 DEF Describes, Claims
    <3> QED BY <1>6, <3>1 DEF CanStart, Activate, Writers
  <2> QED BY <2>1, <2>2
<1>10. ASSUME NEW a \in Writers(G), NEW b \in Writers(G), Precedes(a, b)
       PROVE  ~Overlaps(Req[a].claim, Req[b].claim)
  <2>1. CASE Empty(Req[a].claim)
    BY <2>1 DEF Overlaps
  <2>2. CASE ~Empty(Req[a].claim)
    <3>1. Req[a].claim \in Claims(Earlier(b))
      BY <1>10, <2>2 DEF Claims, Writers
    <3> QED BY <1>6, <3>1 DEF CanStart, Activate, Writers
  <2> QED BY <2>1, <2>2
<1>11. ASSUME NEW a \in Writers(G), NEW c \in s.parentClaims
       PROVE  ~Overlaps(Req[a].claim, c)
  <2>1. ~Overlaps(c, Req[a].claim)
    BY <1>6 DEF CanStart, Activate, Writers
  <2>2. c \in WritePathSet /\ a \in Run
    BY <1>1, <1>2 DEF SchedValue, Writers
  <2> QED BY <1>8, <2>1, <2>2, OverlapsSymmetric
<1>12. Separate(H \cup G, t.parentClaims)
  <2>1. ASSUME NEW a \in Writers(H \cup G), NEW b \in Writers(H \cup G), a # b
        PROVE  ~Overlaps(Req[a].claim, Req[b].claim)
    <3>1. Req[a].claim \in WritePathSet /\ Req[b].claim \in WritePathSet
      BY <1>2, <1>8 DEF Writers
    <3>2. (a \in Writers(H) \/ a \in Writers(G)) /\ (b \in Writers(H) \/ b \in Writers(G))
      BY DEF Writers
    <3>3. CASE a \in Writers(H) /\ b \in Writers(H)
      BY <1>1, <2>1, <3>3 DEF Separate
    <3>4. CASE a \in Writers(H) /\ b \in Writers(G)
      BY <1>9, <3>4
    <3>5. CASE a \in Writers(G) /\ b \in Writers(H)
      BY <1>9, <3>1, <3>5, OverlapsSymmetric
    <3>6. CASE a \in Writers(G) /\ b \in Writers(G)
      <4>1. a \in waiters /\ b \in waiters
        BY <3>6 DEF Writers
      <4>2. Precedes(a, b) \/ Precedes(b, a)
        BY <2>1, <4>1, PrecedesIsStrictOrder
      <4> QED BY <1>10, <3>1, <3>6, <4>2, OverlapsSymmetric
    <3> QED BY <3>2, <3>3, <3>4, <3>5, <3>6
  <2>2. ASSUME NEW a \in Writers(H \cup G), NEW c \in t.parentClaims
        PROVE  ~Overlaps(Req[a].claim, c)
    <3>1. a \in Writers(H) \/ a \in Writers(G)
      BY DEF Writers
    <3> QED BY <1>1, <1>3, <1>11, <3>1 DEF Separate
  <2> QED BY <2>1, <2>2 DEF Separate
<1>13. ASSUME NEW r \in waiters \ G, CanStart(t, r)
       PROVE  FALSE
  <2>1. ~CanStart(Activate(s, Earlier(r)), r)
    BY DEF PumpGrants
  <2>2. Earlier(r) \in SUBSET G /\ r \in Run
    BY DEF Ordered
  <2> QED BY <1>1, <1>2, <1>13, <2>1, <2>2, CanStartIsMonotone
<1> QED BY <1>4, <1>5, <1>7, <1>12, <1>13 DEF Sound

LEMMA ActivateStartsNobodyElse ==
  ASSUME NEW s \in SchedValue, NEW G \in SUBSET Run, NEW r \in Run, CanStart(Activate(s, G), r)
  PROVE  CanStart(s, r)
<1>1. Cardinality(G) \in Nat /\ Cardinality(Writers(G)) \in Nat
  BY WritersFinite
<1>2. s.activeTotal \in Nat /\ s.activeWriters \in Nat
  BY DEF SchedValue
<1>3. Limits.total \in Nat /\ Limits.writers \in Nat
  BY LimitsAreNaturals
<1> QED BY <1>1, <1>2, <1>3 DEF CanStart, Activate

------------------------------------------------------------------------------
(* The reservations listed in the scheduler are those of the writes under way,
   which are separate from each other. *)
WritesMatch ==
  /\ sched.parentClaims = {WriteClaim[w] : w \in {v \in Writing : ~Empty(WriteClaim[v])}}
  /\ \A v, w \in Writing : v # w => ~Overlaps(WriteClaim[v], WriteClaim[w])

IdleNotReady == \A r \in ready : pc[r] # "idle"

IInv ==
  /\ TypeOK
  /\ QueueMatchesCalls
  /\ IdleNotReady
  /\ Sound(sched, Holders)
  /\ WritesMatch
  /\ NoLostWakeup

LEMMA HoldersAndQueue ==
  ASSUME IInv
  PROVE  /\ Holders \in SUBSET Run
         /\ Ordered(waiters)
         /\ waiters \cap Holders = {}
         /\ sched \in SchedValue
<1>1. Holders \in SUBSET Run
  BY DEF Holders
<1>2. Ordered(waiters)
  BY DEF IInv, TypeOK, QueueMatchesCalls, Ordered
<1>3. waiters \cap Holders = {}
  BY DEF IInv, QueueMatchesCalls, Holders
<1> QED BY <1>1, <1>2, <1>3 DEF IInv, Sound

LEMMA InitIInv == Init => IInv
<1> SUFFICES ASSUME Init PROVE IInv
  OBVIOUS
<1>1. Holders = {} /\ Writing = {} /\ Writers({}) = {} /\ Claims({}) = {}
  BY DEF Init, Holders, Writing, Writers, Claims
<1>2. Describes(sched, Holders)
  BY <1>1, FS_EmptySet DEF Describes, Init
<1>3. sched \in SchedValue
  BY DEF Init, SchedValue
<1>4. Separate(Holders, sched.parentClaims)
  BY <1>1 DEF Separate
<1>5. WithinLimits(sched)
  BY LimitsAreNaturals DEF WithinLimits, Init
<1>6. WritesMatch
  BY <1>1 DEF WritesMatch, Init
<1>7. TypeOK
  BY <1>3 DEF TypeOK, Init, SchedValue
<1>8. QueueMatchesCalls /\ IdleNotReady /\ NoLostWakeup
  BY DEF Init, QueueMatchesCalls, IdleNotReady, NoLostWakeup
<1> QED BY <1>2, <1>3, <1>4, <1>5, <1>6, <1>7, <1>8 DEF IInv, Sound

(* A step that frees capacity, takes the calls of R to a state outside the
   queue and then pumps. *)
LEMMA PumpStep ==
  ASSUME IInv, NEW t, NEW H \in SUBSET Holders, Sound(t, H), PumpWaiters(t),
         pc' \in [Run -> {"idle", "reporting", "waiting", "withdrawing",
                          "starting", "running", "finished", "failed"}],
         \A r \in Run : r \notin Holders \/ r \in H => pc'[r] = pc[r],
         \A r \in Holders \ H : pc'[r] \in {"finished", "failed"}
  PROVE  /\ Sound(sched', Holders')
         /\ QueueMatchesCalls'
         /\ IdleNotReady'
         /\ NoLostWakeup'
         /\ sched'.parentClaims = t.parentClaims
         /\ waiters' \subseteq Run /\ ready' \subseteq Run
         /\ behind' \in [Run -> SUBSET Run]
<1>1. PICK G \in SUBSET waiters :
        /\ PumpGrants(t, G)
        /\ sched' = Activate(t, G)
        /\ ready' = ready \cup G
        /\ Dequeue(G)
  BY DEF PumpWaiters
<1>2. /\ waiters \in SUBSET Run /\ ready \in SUBSET Run
      /\ waiters = {r \in Run : pc[r] \in {"reporting", "waiting"} /\ r \notin ready}
      /\ pc \in [Run -> {"idle", "reporting", "waiting", "withdrawing",
                         "starting", "running", "finished", "failed"}]
  BY DEF IInv, TypeOK, QueueMatchesCalls
<1>3. Holders' = H \cup G
  BY <1>1, <1>2 DEF Holders
<1>4. H \in SUBSET Run /\ waiters \cap H = {} /\ Ordered(waiters)
  BY HoldersAndQueue
<1>5. Sound(sched', Holders')
  BY <1>1, <1>3, <1>4, PumpSound
<1>6. waiters' = waiters \ G /\ behind' = [r \in Run |-> IF r \in G THEN {} ELSE behind[r] \ G]
  BY <1>1 DEF Dequeue
<1>7. NoLostWakeup'
  <2>1. \A r \in waiters \ G : ~CanStart(sched', r)
    BY <1>1, <1>4, PumpSound
  <2> QED BY <1>6, <2>1 DEF NoLostWakeup, CanStart
<1>8. QueueMatchesCalls'
  <2>1. waiters' = {r \in Run : pc'[r] \in {"reporting", "waiting"} /\ r \notin ready'}
    BY <1>1, <1>2, <1>6 DEF Holders
  <2>2. /\ \A r \in Run : behind[r] \subseteq waiters \ {r}
        /\ \A r \in Run : behind[r] # {} => r \in waiters
        /\ \A a, b \in waiters : a # b => (a \in behind[b] <=> b \notin behind[a])
        /\ \A a, b \in waiters : a \in behind[b] => behind[a] \subseteq behind[b]
    BY DEF IInv, QueueMatchesCalls
  <2> QED BY <1>2, <1>6, <2>1, <2>2 DEF QueueMatchesCalls
<1>9. IdleNotReady'
  BY <1>1, <1>2 DEF IdleNotReady, IInv, Holders
<1>10. sched'.parentClaims = t.parentClaims
  BY <1>1 DEF Activate
<1>11. behind' \in [Run -> SUBSET Run]
  BY <1>6 DEF IInv, TypeOK
<1> QED BY <1>1, <1>2, <1>5, <1>6, <1>7, <1>8, <1>9, <1>10, <1>11

(* Leaving the queue, whether or not a pump came first. *)
LEMMA WithdrawStep ==
  ASSUME IInv, NEW r \in Run, NEW from \in {"reporting", "waiting"}, Withdraw(r, from)
  PROVE  IInv'
<1>1. /\ pc[r] = from /\ pc' = [pc EXCEPT ![r] = "withdrawing"]
      /\ waiters' = waiters \ {r}
      /\ behind' = [q \in Run |-> IF q \in {r} THEN {} ELSE behind[q] \ {r}]
      /\ UNCHANGED <<sched, ready, wpc>>
  BY DEF Withdraw, Goto, Dequeue
<1>2. TypeOK'
  BY <1>1 DEF IInv, TypeOK
<1>3. Holders' = Holders /\ Writing' = Writing
  BY <1>1 DEF Holders, Writing, IInv, TypeOK
<1>4. QueueMatchesCalls'
  <2>1. waiters' = {q \in Run : pc'[q] \in {"reporting", "waiting"} /\ q \notin ready'}
    BY <1>1 DEF IInv, TypeOK, QueueMatchesCalls
  <2>2. /\ \A q \in Run : behind[q] \subseteq waiters \ {q}
        /\ \A q \in Run : behind[q] # {} => q \in waiters
        /\ \A a, b \in waiters : a # b => (a \in behind[b] <=> b \notin behind[a])
        /\ \A a, b \in waiters : a \in behind[b] => behind[a] \subseteq behind[b]
    BY DEF IInv, QueueMatchesCalls
  <2>3. waiters \in SUBSET Run
    BY DEF IInv, TypeOK
  <2> QED BY <1>1, <2>1, <2>2, <2>3 DEF QueueMatchesCalls
<1>5. Sound(sched', Holders') /\ WritesMatch'
  BY <1>1, <1>3 DEF IInv, WritesMatch
<1>6. NoLostWakeup' /\ IdleNotReady'
  BY <1>1 DEF IInv, NoLostWakeup, IdleNotReady, CanStart, TypeOK
<1> QED BY <1>2, <1>4, <1>5, <1>6 DEF IInv

(* A step that moves one call and touches nothing the lock protects. *)
LEMMA PrivateStep ==
  ASSUME IInv, NEW r \in Run, UNCHANGED <<sched, waiters, behind, ready, wpc>>,
         NEW to \in {"waiting", "starting", "running", "failed"},
         pc' = [pc EXCEPT ![r] = to],
         \/ pc[r] = "reporting" /\ to = "waiting"
         \/ pc[r] = "waiting" /\ r \in ready /\ to = "starting"
         \/ pc[r] = "starting" /\ to = "running"
         \/ pc[r] = "withdrawing" /\ r \notin ready /\ to = "failed"
         \/ pc[r] = "idle" /\ to = "failed"
  PROVE  IInv'
<1>1. TypeOK'
  BY DEF IInv, TypeOK
<1>2. Holders' = Holders /\ Writing' = Writing
  BY DEF Holders, Writing, IInv, TypeOK, IdleNotReady
<1>3. QueueMatchesCalls'
  <2>1. waiters' = {q \in Run : pc'[q] \in {"reporting", "waiting"} /\ q \notin ready'}
    BY DEF IInv, TypeOK, QueueMatchesCalls
  <2> QED BY <2>1 DEF IInv, QueueMatchesCalls
<1>4. Sound(sched', Holders') /\ WritesMatch'
  BY <1>2 DEF IInv, WritesMatch
<1>5. NoLostWakeup' /\ IdleNotReady'
  BY DEF IInv, NoLostWakeup, IdleNotReady, CanStart, TypeOK
<1> QED BY <1>1, <1>3, <1>4, <1>5 DEF IInv

(* A holder that ends or is refused frees its slot and the pump follows. *)
LEMMA HandBackStep ==
  ASSUME IInv, NEW r \in Holders, NEW to \in {"finished", "failed"},
         pc' = [pc EXCEPT ![r] = to], PumpWaiters(Deactivate(sched, r)), UNCHANGED wpc
  PROVE  IInv'
<1> DEFINE t == Deactivate(sched, r)
           H == Holders \ {r}
<1>1. Sound(t, H) /\ H \in SUBSET Holders /\ r \in Run
  BY DeactivateSound, HoldersAndQueue DEF IInv
<1>2. pc \in [Run -> {"idle", "reporting", "waiting", "withdrawing",
                     "starting", "running", "finished", "failed"}]
  BY DEF IInv, TypeOK
<1>3. /\ pc' \in [Run -> {"idle", "reporting", "waiting", "withdrawing",
                          "starting", "running", "finished", "failed"}]
      /\ \A q \in Run : q \notin Holders \/ q \in H => pc'[q] = pc[q]
      /\ \A q \in Holders \ H : pc'[q] \in {"finished", "failed"}
  BY <1>1, <1>2
<1> HIDE DEF t, H
<1>4. /\ Sound(sched', Holders')
      /\ QueueMatchesCalls' /\ IdleNotReady' /\ NoLostWakeup'
      /\ sched'.parentClaims = t.parentClaims
      /\ waiters' \subseteq Run /\ ready' \subseteq Run
      /\ behind' \in [Run -> SUBSET Run]
  BY <1>1, <1>3, PumpStep DEF t
<1>5. WritesMatch'
  BY <1>4 DEF t, Deactivate, IInv, WritesMatch, Writing
<1>6. TypeOK'
  BY <1>3, <1>4 DEF IInv, TypeOK, Sound, SchedValue
<1> QED BY <1>4, <1>5, <1>6 DEF IInv

LEMMA AcquireNowStep ==
  ASSUME IInv, NEW r \in Run, AcquireNow(r)
  PROVE  IInv'
<1>1. /\ CanStart(sched, r) /\ pc[r] = "idle" /\ pc' = [pc EXCEPT ![r] = "starting"]
      /\ sched' = Activate(sched, {r})
      /\ UNCHANGED <<waiters, behind, ready, wpc>>
  BY DEF AcquireNow, Goto
<1>2. r \notin Holders /\ r \notin ready
  BY <1>1 DEF Holders, IInv, IdleNotReady
<1>3. Holders' = Holders \cup {r} /\ Writing' = Writing
  BY <1>1, <1>2 DEF Holders, Writing, IInv, TypeOK
<1>4. Sound(sched', Holders')
  BY <1>1, <1>2, <1>3, ActivateSound, HoldersAndQueue DEF IInv
<1>5. QueueMatchesCalls'
  <2>1. waiters' = {q \in Run : pc'[q] \in {"reporting", "waiting"} /\ q \notin ready'}
    BY <1>1 DEF IInv, TypeOK, QueueMatchesCalls
  <2> QED BY <1>1, <2>1 DEF IInv, QueueMatchesCalls
<1>6. NoLostWakeup'
  <2>1. \A q \in waiters : q \in Run /\ ~CanStart(sched, q)
    BY DEF IInv, NoLostWakeup, TypeOK
  <2>2. \A q \in waiters : ~CanStart(Activate(sched, {r}), q)
    BY <2>1, HoldersAndQueue, ActivateStartsNobodyElse
  <2> QED BY <1>1, <2>2 DEF NoLostWakeup, CanStart
<1>7. WritesMatch' /\ IdleNotReady'
  BY <1>1, <1>3 DEF IInv, WritesMatch, IdleNotReady, Activate, TypeOK
<1>8. TypeOK'
  BY <1>1, <1>4 DEF IInv, TypeOK, Sound, SchedValue
<1> QED BY <1>4, <1>5, <1>6, <1>7, <1>8 DEF IInv

LEMMA AcquireQueueStep ==
  ASSUME IInv, NEW r \in Run, AcquireQueue(r)
  PROVE  IInv'
<1>1. /\ ~CanStart(sched, r) /\ pc[r] = "idle" /\ pc' = [pc EXCEPT ![r] = "reporting"]
      /\ waiters' = waiters \cup {r} /\ behind' = [behind EXCEPT ![r] = waiters]
      /\ UNCHANGED <<sched, ready, wpc>>
  BY DEF AcquireQueue, Goto
<1>2. r \notin ready /\ r \notin waiters
  BY <1>1 DEF IInv, IdleNotReady, QueueMatchesCalls
<1>3. Holders' = Holders /\ Writing' = Writing
  BY <1>1, <1>2 DEF Holders, Writing, IInv, TypeOK
<1>4. TypeOK'
  BY <1>1 DEF IInv, TypeOK
<1>5. QueueMatchesCalls'
  <2>1. waiters' = {q \in Run : pc'[q] \in {"reporting", "waiting"} /\ q \notin ready'}
    BY <1>1, <1>2 DEF IInv, TypeOK, QueueMatchesCalls
  <2>2. /\ \A q \in Run : behind[q] \subseteq waiters \ {q}
        /\ \A q \in Run : behind[q] # {} => q \in waiters
        /\ \A a, b \in waiters : a # b => (a \in behind[b] <=> b \notin behind[a])
        /\ \A a, b \in waiters : a \in behind[b] => behind[a] \subseteq behind[b]
    BY DEF IInv, QueueMatchesCalls
  <2>3. waiters \in SUBSET Run /\ behind \in [Run -> SUBSET Run]
    BY DEF IInv, TypeOK
  <2> QED BY <1>1, <1>2, <2>1, <2>2, <2>3 DEF QueueMatchesCalls
<1>6. Sound(sched', Holders') /\ WritesMatch'
  BY <1>1, <1>3 DEF IInv, WritesMatch
<1>7. NoLostWakeup' /\ IdleNotReady'
  BY <1>1, <1>2 DEF IInv, NoLostWakeup, IdleNotReady, CanStart, TypeOK
<1> QED BY <1>4, <1>5, <1>6, <1>7 DEF IInv

LEMMA ReserveWriteStep ==
  ASSUME IInv, NEW w \in Write, ReserveWrite(w)
  PROVE  IInv'
<1> DEFINE claim == WriteClaim[w]
<1>1. claim \in WritePathSet
  BY WriteAssumption
<1>2. UNCHANGED <<waiters, behind, ready, pc>> /\ wpc[w] = "idle" /\ Holders' = Holders
  BY DEF ReserveWrite, Holders
<1>3. QueueMatchesCalls' /\ IdleNotReady'
  BY <1>2 DEF IInv, QueueMatchesCalls, IdleNotReady
<1>4. CASE Conflict(claim) \/ Empty(claim)
  <2>1. UNCHANGED sched /\ wpc' \in [Write -> {"idle", "writing", "finished", "failed"}]
    BY <1>4 DEF ReserveWrite, Conflict, IInv, TypeOK
  <2>2. WritesMatch'
    <3>1. \A v \in Write : v # w => wpc'[v] = wpc[v]
      BY DEF ReserveWrite, IInv, TypeOK
    <3>2. {v \in Writing' : ~Empty(WriteClaim[v])} = {v \in Writing : ~Empty(WriteClaim[v])}
      BY <1>2, <1>4, <3>1 DEF ReserveWrite, Writing, IInv, TypeOK, Conflict
    <3>3. \A v \in Writing' : v \in Writing \/ Empty(WriteClaim[v])
      BY <3>2
    <3> QED BY <2>1, <3>2, <3>3 DEF IInv, WritesMatch, Overlaps
  <2>3. TypeOK' /\ Sound(sched', Holders')
    BY <1>2, <2>1 DEF IInv, TypeOK
  <2>4. NoLostWakeup'
    BY <1>2, <2>1 DEF IInv, NoLostWakeup, CanStart
  <2> QED BY <1>3, <2>2, <2>3, <2>4 DEF IInv
<1>5. CASE ~Conflict(claim) /\ ~Empty(claim)
  <2>1. sched' = [sched EXCEPT !.parentClaims = sched.parentClaims \cup {claim}]
    BY <1>5 DEF ReserveWrite
  <2>2. /\ wpc' = [wpc EXCEPT ![w] = "writing"]
        /\ Writing' = Writing \cup {w}
    BY <1>5 DEF ReserveWrite, Writing, IInv, TypeOK
  <2>3. sched \in SchedValue /\ sched' \in SchedValue
    BY <1>1, <2>1, HoldersAndQueue DEF SchedValue
  <2>4. /\ sched'.activeTotal = sched.activeTotal
        /\ sched'.activeWriters = sched.activeWriters
        /\ sched'.activeClaims = sched.activeClaims
        /\ sched'.parentClaims = sched.parentClaims \cup {claim}
    BY <2>1, <2>3 DEF SchedValue
  <2>5. \A c \in sched.activeClaims \cup sched.parentClaims : ~Overlaps(c, claim)
    BY <1>5 DEF Conflict
  <2>6. \A a \in Writers(Holders) : ~Overlaps(Req[a].claim, claim)
    <3>1. \A a \in Writers(Holders) : Empty(Req[a].claim) \/ Req[a].claim \in sched.activeClaims
      BY DEF IInv, Sound, Describes, Claims
    <3> QED BY <2>5, <3>1 DEF Overlaps
  <2>7. Sound(sched', Holders')
    <3>1. Separate(Holders, sched'.parentClaims)
      BY <2>4, <2>6 DEF IInv, Sound, Separate
    <3> QED BY <1>2, <2>3, <2>4, <3>1 DEF IInv, Sound, Describes, WithinLimits
  <2>8. \A v \in Writing : ~Overlaps(WriteClaim[v], claim) /\ ~Overlaps(claim, WriteClaim[v])
    <3>1. \A v \in Writing : Empty(WriteClaim[v]) \/ WriteClaim[v] \in sched.parentClaims
      BY DEF IInv, WritesMatch
    <3>2. \A v \in Writing : WriteClaim[v] \in WritePathSet
      BY WriteAssumption DEF Writing
    <3>3. \A v \in Writing : ~Overlaps(WriteClaim[v], claim)
      BY <2>5, <3>1 DEF Overlaps
    <3> QED BY <1>1, <3>2, <3>3, OverlapsSymmetric
  <2>9. WritesMatch'
    <3>1. sched'.parentClaims = {WriteClaim[u] : u \in {v \in Writing' : ~Empty(WriteClaim[v])}}
      BY <1>5, <2>2, <2>4 DEF IInv, WritesMatch
    <3>2. \A u, v \in Writing' : u # v => ~Overlaps(WriteClaim[u], WriteClaim[v])
      BY <2>2, <2>8 DEF IInv, WritesMatch
    <3> QED BY <3>1, <3>2 DEF WritesMatch
  <2>10. TypeOK'
    BY <1>2, <2>2, <2>3 DEF IInv, TypeOK, SchedValue
  <2>11. NoLostWakeup'
    BY <1>2, <2>4 DEF IInv, NoLostWakeup, CanStart
  <2> QED BY <1>3, <2>7, <2>9, <2>10, <2>11 DEF IInv
<1> QED BY <1>4, <1>5

LEMMA ReleaseWriteStep ==
  ASSUME IInv, NEW w \in Write, ReleaseWrite(w)
  PROVE  IInv'
<1> DEFINE claim == WriteClaim[w]
           t == [sched EXCEPT !.parentClaims = @ \ {claim}]
<1>1. claim \in WritePathSet /\ UNCHANGED pc /\ w \in Writing
  BY WriteAssumption DEF ReleaseWrite, Writing
<1>2. Writing' = Writing \ {w} /\ wpc' \in [Write -> {"idle", "writing", "finished", "failed"}]
  BY DEF ReleaseWrite, Writing, IInv, TypeOK
<1>3. \A u, v \in Writing' : u # v => ~Overlaps(WriteClaim[u], WriteClaim[v])
  BY <1>2 DEF IInv, WritesMatch
<1>4. CASE Empty(claim)
  <2>1. UNCHANGED <<sched, waiters, behind, ready>> /\ Holders' = Holders
    BY <1>1, <1>4 DEF ReleaseWrite, Holders
  <2>2. {v \in Writing' : ~Empty(WriteClaim[v])} = {v \in Writing : ~Empty(WriteClaim[v])}
    BY <1>2, <1>4
  <2>3. WritesMatch'
    BY <1>3, <2>1, <2>2 DEF IInv, WritesMatch
  <2>4. QueueMatchesCalls' /\ IdleNotReady'
    BY <1>1, <2>1 DEF IInv, QueueMatchesCalls, IdleNotReady
  <2>5. TypeOK' /\ Sound(sched', Holders')
    BY <1>1, <1>2, <2>1 DEF IInv, TypeOK
  <2>6. NoLostWakeup'
    BY <2>1 DEF IInv, NoLostWakeup, CanStart
  <2> QED BY <2>3, <2>4, <2>5, <2>6 DEF IInv
<1>5. CASE ~Empty(claim)
  <2>1. sched \in SchedValue /\ t \in SchedValue
    BY HoldersAndQueue DEF SchedValue
  <2>2. /\ t.activeTotal = sched.activeTotal
        /\ t.activeWriters = sched.activeWriters
        /\ t.activeClaims = sched.activeClaims
        /\ t.parentClaims = sched.parentClaims \ {claim}
    BY <2>1 DEF SchedValue
  <2>3. Sound(t, Holders)
    BY <2>1, <2>2 DEF IInv, Sound, Separate, Describes, WithinLimits
  <2>4. PumpWaiters(t)
    BY <1>5 DEF ReleaseWrite
  <2>5. pc' \in [Run -> {"idle", "reporting", "waiting", "withdrawing",
                         "starting", "running", "finished", "failed"}]
    BY <1>1 DEF IInv, TypeOK
  <2> HIDE DEF t
  <2>6. /\ Sound(sched', Holders')
        /\ QueueMatchesCalls' /\ IdleNotReady' /\ NoLostWakeup'
        /\ sched'.parentClaims = t.parentClaims
        /\ waiters' \subseteq Run /\ ready' \subseteq Run
        /\ behind' \in [Run -> SUBSET Run]
    BY <1>1, <2>3, <2>4, <2>5, PumpStep
  <2>7. \A v \in Writing : v # w => WriteClaim[v] # claim
    BY <1>1, <1>5, OverlapsReflexive DEF IInv, WritesMatch
  <2>8. sched'.parentClaims = {WriteClaim[u] : u \in {v \in Writing' : ~Empty(WriteClaim[v])}}
    BY <1>1, <1>2, <1>5, <2>2, <2>6, <2>7 DEF IInv, WritesMatch
  <2>9. WritesMatch'
    BY <1>3, <2>8 DEF WritesMatch
  <2>10. TypeOK'
    BY <1>2, <2>5, <2>6 DEF TypeOK, Sound, SchedValue
  <2> QED BY <2>6, <2>9, <2>10 DEF IInv
<1> QED BY <1>4, <1>5

LEMMA NextIInv == IInv /\ [Next]_vars => IInv'
<1> SUFFICES ASSUME IInv, [Next]_vars PROVE IInv'
  OBVIOUS
<1>1. ASSUME NEW r \in Run, RunStep(r) PROVE IInv'
  <2>1. CASE AcquireNow(r)
    BY <2>1, AcquireNowStep
  <2>2. CASE AcquireQueue(r)
    BY <2>2, AcquireQueueStep
  <2>3. CASE AcquireFailFast(r)
    BY <2>3, PrivateStep DEF AcquireFailFast, Goto
  <2>4. CASE ReportQueued(r)
    BY <2>4, PrivateStep DEF ReportQueued, Goto
  <2>5. CASE TakeGrant(r)
    BY <2>5, PrivateStep DEF TakeGrant, Goto
  <2>6. CASE Start(r)
    BY <2>6, PrivateStep DEF Start, Goto
  <2>7. CASE EndWithdrawal(r)
    BY <2>7, PrivateStep DEF EndWithdrawal, Goto
  <2>8. CASE AbandonQueued(r) \/ CancelWait(r)
    BY <2>8, WithdrawStep DEF AbandonQueued, CancelWait
  <2>9. CASE ReturnGrant(r)
    BY <2>9, HandBackStep DEF ReturnGrant, Goto, Holders
  <2>10. CASE RefuseStart(r)
    BY <2>10, HandBackStep DEF RefuseStart, Goto, Holders
  <2>11. CASE Release(r)
    BY <2>11, HandBackStep DEF Release, Goto, Holders
  <2> QED BY <1>1, <2>1, <2>2, <2>3, <2>4, <2>5, <2>6, <2>7, <2>8, <2>9, <2>10, <2>11
          DEF RunStep
<1>2. ASSUME NEW w \in Write, ReserveWrite(w) \/ ReleaseWrite(w) PROVE IInv'
  BY <1>2, ReserveWriteStep, ReleaseWriteStep
<1>3. CASE UNCHANGED vars
  BY <1>3 DEF vars, IInv, TypeOK, QueueMatchesCalls, IdleNotReady, Holders, Writing,
              WritesMatch, NoLostWakeup, CanStart
<1> QED BY <1>1, <1>2, <1>3 DEF Next

THEOREM Invariance == Spec => []IInv
  BY InitIInv, NextIInv, PTL DEF Spec

------------------------------------------------------------------------------
(* The state keeps its type in every behaviour. *)
THEOREM TypeCorrect == Spec => []TypeOK
<1>1. IInv => TypeOK
  BY DEF IInv
<1> QED BY <1>1, Invariance, PTL

(* No slot is lost or handed back twice, and no claim outlives its holder,
   however cancellations, refusals and releases interleave with the pump
   (makeRelease, abandonWaiter, pumpWaitersLocked). *)
THEOREM SlotsNeverLeak == Spec => []SlotsMatchHolders
<1>1. IInv => SlotsMatchHolders
  BY DEF IInv, SlotsMatchHolders, Sound, Describes, WritesMatch
<1> QED BY <1>1, Invariance, PTL

(* Neither limit is ever exceeded, whatever is configured
   (NormalizeConcurrencyLimits, canStartLocked). *)
THEOREM LimitsHold == Spec => []LimitsRespected
<1>1. ASSUME IInv PROVE LimitsRespected
  <2>1. Cardinality(Holders) <= Limits.total /\ Cardinality(Writers(Holders)) <= Limits.writers
    BY <1>1 DEF IInv, Sound, Describes, WithinLimits
  <2>2. Cardinality(Holders) \in Nat /\ Cardinality(Writers(Holders)) \in Nat
    BY WritersFinite DEF Holders
  <2> QED BY <2>1, <2>2, LimitsAsConfigured, LimitsAreNaturals, LimitAssumption
          DEF LimitsRespected, MaxSubagentConcurrencyLimit, DefaultMaxSubagentConcurrency,
              DefaultMaxParallelWriters
<1> QED BY <1>1, Invariance, PTL

(* doc.go's promise: no two writers, sub-agents or parent, hold overlapping
   claims (canStartLocked, conflictLocked, pumpWaitersLocked). *)
THEOREM ClaimsAreExclusive == Spec => []ExclusiveClaims
<1>1. ASSUME IInv PROVE ExclusiveClaims
  <2>1. \A r \in Writers(Holders), w \in Writing : ~Overlaps(Req[r].claim, WriteClaim[w])
    <3>1. \A w \in Writing : Empty(WriteClaim[w]) \/ WriteClaim[w] \in sched.parentClaims
      BY <1>1 DEF IInv, WritesMatch
    <3> QED BY <1>1, <3>1 DEF IInv, Sound, Separate, Overlaps
  <2> QED BY <1>1, <2>1 DEF IInv, ExclusiveClaims, Sound, Separate, WritesMatch
<1> QED BY <1>1, Invariance, PTL

(* Nobody waits in the queue while what it asked for is free. *)
THEOREM WakeupsAreNeverLost == Spec => []NoLostWakeup
<1>1. IInv => NoLostWakeup
  BY DEF IInv
<1> QED BY <1>1, Invariance, PTL

(* What the exclusion buys: at no moment may two sub-agent writers both write
   one path, whatever their claims and the case folding (AllowsPath). *)
NoSharedPath ==
  \A a, b \in Writers(Holders), p \in Path :
    a # b => ~(AllowsPath(Req[a].claim, p) /\ AllowsPath(Req[b].claim, p))

THEOREM WritersShareNoPath == Spec => []NoSharedPath
<1>1. ASSUME IInv PROVE NoSharedPath
  <2>1. \A a \in Writers(Holders) : WellFormed(Req[a].claim)
    BY ReqAssumption DEF Writers, Holders
  <2> QED BY <1>1, <2>1, SharedPathOverlaps DEF NoSharedPath, IInv, Sound, Separate
<1> QED BY <1>1, Invariance, PTL

------------------------------------------------------------------------------
(* What a step may do to the waiters that it leaves in the queue. *)
OvertakesNobody ==
  \A a \in waiters \cap waiters', b \in Holders' \ Holders :
    SameDemand(a, b) => b \in waiters /\ Precedes(b, a)

LEMMA SameDemandStartsAlike ==
  ASSUME NEW s, NEW a, NEW b, SameDemand(a, b), CanStart(s, b)
  PROVE  CanStart(s, a)
BY DEF SameDemand, CanStart

(* A pump grants nobody behind a waiter with the same demand that it leaves
   waiting: the grants that the waiter saw are among those that the other one
   saw, and those left it no room. *)
LEMMA PumpOvertakesNobody ==
  ASSUME NEW s \in SchedValue, Ordered(waiters), NEW G \in SUBSET waiters, PumpGrants(s, G),
         NEW a \in waiters \ G, NEW b \in G, SameDemand(a, b)
  PROVE  Precedes(b, a)
<1> DEFINE Earlier(r) == {g \in G : Precedes(g, r)}
<1> SUFFICES ASSUME ~Precedes(b, a) PROVE FALSE
  OBVIOUS
<1>1. Precedes(a, b)
  BY PrecedesIsStrictOrder
<1>2. Earlier(a) \subseteq Earlier(b)
  BY <1>1, PrecedesIsStrictOrder
<1>3. CanStart(Activate(s, Earlier(b)), b) /\ ~CanStart(Activate(s, Earlier(a)), a)
  BY DEF PumpGrants
<1>4. Earlier(b) \in SUBSET Run /\ Earlier(a) \in SUBSET Earlier(b) /\ b \in Run
  BY <1>2 DEF Ordered
<1>5. CanStart(Activate(s, Earlier(a)), b)
  <2> HIDE DEF Earlier
  <2> QED BY <1>3, <1>4, CanStartIsMonotone
<1> QED BY <1>3, <1>5, SameDemandStartsAlike

(* A step that pumps, and gives a slot to nobody but those it grants. *)
LEMMA PumpingStep ==
  ASSUME IInv, NEW s \in SchedValue, PumpWaiters(s),
         \A r \in Run : pc'[r] \in {"starting", "running"} => pc'[r] = pc[r],
         \A r \in Run : pc'[r] \in {"reporting", "waiting", "withdrawing"} => pc'[r] = pc[r]
  PROVE  OvertakesNobody
<1>1. PICK G \in SUBSET waiters :
        PumpGrants(s, G) /\ ready' = ready \cup G /\ waiters' = waiters \ G
  BY DEF PumpWaiters, Dequeue
<1>2. Holders' \ Holders \subseteq G
  BY <1>1 DEF Holders
<1>3. Ordered(waiters)
  BY HoldersAndQueue
<1> QED BY <1>1, <1>2, <1>3, PumpOvertakesNobody DEF OvertakesNobody

LEMMA HandBackOvertakesNobody ==
  ASSUME IInv, NEW r \in Holders, NEW to \in {"finished", "failed"},
         pc' = [pc EXCEPT ![r] = to], PumpWaiters(Deactivate(sched, r))
  PROVE  OvertakesNobody
<1>1. Deactivate(sched, r) \in SchedValue
  BY DeactivateSound, HoldersAndQueue DEF IInv, Sound
<1>2. \A q \in Run : pc'[q] = pc[q] \/ pc'[q] \in {"finished", "failed"}
  BY DEF IInv, TypeOK
<1>3. \A q \in Run : pc'[q] \in {"starting", "running"} => pc'[q] = pc[q]
  BY <1>2
<1>4. \A q \in Run : pc'[q] \in {"reporting", "waiting", "withdrawing"} => pc'[q] = pc[q]
  BY <1>2
<1> QED BY <1>1, <1>3, <1>4, PumpingStep

LEMMA NextOvertakesNobody ==
  ASSUME IInv, [Next]_vars
  PROVE  [OvertakesNobody]_vars
<1>1. ASSUME Holders' \subseteq Holders PROVE OvertakesNobody
  BY <1>1 DEF OvertakesNobody
<1>2. ASSUME NEW r \in Run, RunStep(r) PROVE OvertakesNobody
  <2>1. CASE AcquireNow(r)
    <3>1. CanStart(sched, r) /\ Holders' \subseteq Holders \cup {r}
      BY <2>1 DEF AcquireNow, Goto, Holders, IInv, TypeOK
    <3>2. \A a \in waiters : ~SameDemand(a, r)
      BY <3>1, SameDemandStartsAlike DEF IInv, NoLostWakeup
    <3> QED BY <3>1, <3>2 DEF OvertakesNobody
  <2>2. CASE AcquireFailFast(r)
    BY <1>1, <2>2 DEF AcquireFailFast, Goto, Holders, IInv, TypeOK
  <2>3. CASE AcquireQueue(r)
    BY <1>1, <2>3 DEF AcquireQueue, Goto, Holders, IInv, TypeOK, IdleNotReady
  <2>4. CASE ReportQueued(r)
    BY <1>1, <2>4 DEF ReportQueued, Goto, Holders, IInv, TypeOK
  <2>5. CASE AbandonQueued(r) \/ CancelWait(r)
    BY <1>1, <2>5 DEF AbandonQueued, CancelWait, Withdraw, Goto, Holders, IInv, TypeOK
  <2>6. CASE EndWithdrawal(r)
    BY <1>1, <2>6 DEF EndWithdrawal, Goto, Holders, IInv, TypeOK
  <2>7. CASE TakeGrant(r)
    BY <1>1, <2>7 DEF TakeGrant, Goto, Holders, IInv, TypeOK
  <2>8. CASE Start(r)
    BY <1>1, <2>8 DEF Start, Goto, Holders, IInv, TypeOK
  <2>9. CASE ReturnGrant(r)
    BY <2>9, HandBackOvertakesNobody DEF ReturnGrant, Goto, Holders
  <2>10. CASE RefuseStart(r)
    BY <2>10, HandBackOvertakesNobody DEF RefuseStart, Goto, Holders
  <2>11. CASE Release(r)
    BY <2>11, HandBackOvertakesNobody DEF Release, Goto, Holders
  <2> QED BY <1>2, <2>1, <2>2, <2>3, <2>4, <2>5, <2>6, <2>7, <2>8, <2>9, <2>10, <2>11
          DEF RunStep
<1>3. ASSUME NEW w \in Write, ReserveWrite(w) PROVE OvertakesNobody
  BY <1>1, <1>3 DEF ReserveWrite, Holders
<1>4. ASSUME NEW w \in Write, ReleaseWrite(w) PROVE OvertakesNobody
  <2>1. CASE Empty(WriteClaim[w])
    BY <1>1, <1>4, <2>1 DEF ReleaseWrite, Holders
  <2>2. CASE ~Empty(WriteClaim[w])
    <3>1. [sched EXCEPT !.parentClaims = @ \ {WriteClaim[w]}] \in SchedValue
      BY HoldersAndQueue DEF SchedValue
    <3>2. PumpWaiters([sched EXCEPT !.parentClaims = @ \ {WriteClaim[w]}]) /\ UNCHANGED pc
      BY <1>4, <2>2 DEF ReleaseWrite
    <3> QED BY <3>1, <3>2, PumpingStep
  <2> QED BY <2>1, <2>2
<1> QED BY <1>2, <1>3, <1>4 DEF Next

(* A run gets a slot before a waiter with the same demand only from the queue,
   and only if it precedes it there (pumpWaitersLocked visits the waiters in
   order and skips those that cannot start; Acquire starts a new call at once
   when nothing it asks for is taken). *)
THEOREM NobodyIsOvertaken == Spec => NoOvertaking
<1>1. IInv /\ [Next]_vars => [OvertakesNobody]_vars
  BY NextOvertakesNobody
<1>2. Spec => [][OvertakesNobody]_vars
  BY <1>1, Invariance, PTL DEF Spec
<1> QED BY <1>2 DEF NoOvertaking, OvertakesNobody
==============================================================================
