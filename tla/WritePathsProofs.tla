-------------------------- MODULE WritePathsProofs --------------------------
(***************************************************************************)
(* What the claim algebra guarantees for every path, claim and case        *)
(* folding: an overlap test that answers no really separates two writers.  *)
(***************************************************************************)
EXTENDS WritePaths, TLAPS

(* Path containment is reflexive and transitive, and two roots of one path
   are nested: the facts Overlaps and AllowsPath (filepath.Rel) rest on. *)
LEMMA WithinReflexive == \A p \in Path : PathWithin(p, p)
  BY DEF Path, PathWithin

LEMMA WithinTransitive ==
  \A p, q, r \in Path : PathWithin(p, q) /\ PathWithin(q, r) => PathWithin(p, r)
  BY DEF Path, PathWithin

LEMMA RootsOfOnePathNest ==
  \A p, q, r \in Path : PathWithin(p, r) /\ PathWithin(q, r) => Nested(p, q)
<1> SUFFICES ASSUME NEW p \in Path, NEW q \in Path, NEW r \in Path,
                    PathWithin(p, r), PathWithin(q, r)
             PROVE  Nested(p, q)
  OBVIOUS
<1>1. CASE Len(p) <= Len(q)
  BY <1>1 DEF Path, PathWithin, Nested
<1>2. CASE Len(q) <= Len(p)
  BY <1>2 DEF Path, PathWithin, Nested
<1> QED BY <1>1, <1>2 DEF Path

(* The order in which two claims are compared does not matter, so the checks
   of canStartLocked and conflictLocked agree (Overlaps). *)
LEMMA OverlapsSymmetric ==
  \A s, t \in WritePathSet : Overlaps(s, t) <=> Overlaps(t, s)
  BY DEF Overlaps, Nested

(* A claim that claims anything overlaps itself: two holders never hold equal
   claims, and removeClaim cannot take another holder's. *)
LEMMA OverlapsReflexive ==
  \A s \in WritePathSet : ~Empty(s) => Overlaps(s, s)
  BY WithinReflexive DEF Overlaps, Empty, Nested, WritePathSet

(* If both claims let a writer at one path, the scheduler sees them overlap:
   runs admitted together share no writable path (AllowsPath, Overlaps). *)
THEOREM SharedPathOverlaps ==
  ASSUME NEW s, NEW t, WellFormed(s), WellFormed(t),
         NEW p \in Path, AllowsPath(s, p), AllowsPath(t, p)
  PROVE  Overlaps(s, t)
<1>1. ~Empty(s) /\ ~Empty(t)
  BY DEF AllowsPath, Empty
<1>2. CASE ~s.whole /\ ~t.whole
  <2>1. PICK a \in s.paths, b \in t.paths : PathWithin(a, p) /\ PathWithin(b, p)
    BY <1>2 DEF AllowsPath
  <2>2. a \in Path /\ b \in Path
    BY DEF WellFormed, WritePathSet
  <2> QED BY <1>1, <1>2, <2>1, <2>2, RootsOfOnePathNest DEF Overlaps
<1>3. CASE (s.whole \/ t.whole) /\ NoRoot \in {s.root, t.root}
  BY <1>1, <1>3 DEF Overlaps
<1>4. CASE (s.whole \/ t.whole) /\ NoRoot \notin {s.root, t.root}
  <2>1. s.root \in Path /\ t.root \in Path
    BY <1>4 DEF WellFormed, WritePathSet
  <2>2. PathWithin(s.root, p)
    <3>1. CASE s.whole
      BY <1>4, <3>1 DEF AllowsPath
    <3>2. CASE ~s.whole
      <4>1. PICK a \in s.paths : PathWithin(a, p)
        BY <3>2 DEF AllowsPath
      <4>2. a \in Path /\ PathWithin(s.root, a)
        BY <1>4 DEF WellFormed, WritePathSet
      <4> QED BY <2>1, <4>1, <4>2, WithinTransitive
    <3> QED BY <3>1, <3>2
  <2>3. PathWithin(t.root, p)
    <3>1. CASE t.whole
      BY <1>4, <3>1 DEF AllowsPath
    <3>2. CASE ~t.whole
      <4>1. PICK a \in t.paths : PathWithin(a, p)
        BY <3>2 DEF AllowsPath
      <4>2. a \in Path /\ PathWithin(t.root, a)
        BY <1>4 DEF WellFormed, WritePathSet
      <4> QED BY <2>1, <4>1, <4>2, WithinTransitive
    <3> QED BY <3>1, <3>2
  <2> QED BY <1>1, <1>4, <2>1, <2>2, <2>3, RootsOfOnePathNest DEF Overlaps
<1> QED BY <1>2, <1>3, <1>4

(* The effective limits are usable: at least one sub-agent and one writer,
   at most 32, writers within the total (NormalizeConcurrencyLimits). *)
LEMMA LimitsUsable ==
  ASSUME NEW total \in Int, NEW writers \in Int
  PROVE  LET n == NormalizeConcurrencyLimits(total, writers)
         IN  /\ n.total \in 1..MaxSubagentConcurrencyLimit
             /\ n.writers \in 1..n.total
  BY DEF NormalizeConcurrencyLimits, Clamp, MaxSubagentConcurrencyLimit,
         DefaultMaxSubagentConcurrency, DefaultMaxParallelWriters
=============================================================================
