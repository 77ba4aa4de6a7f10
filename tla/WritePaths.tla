----------------------------- MODULE WritePaths -----------------------------
(***************************************************************************)
(* Write claims over workspace paths, the pure part of package writeclaim  *)
(* (kernel/internal/runtime/writeclaim/write_claims.go, write_grant.go).   *)
(*                                                                         *)
(* A path is the sequence of its components below the file-system root,    *)
(* absolute, cleaned and symlink-resolved, which is what the code stores.  *)
(* NoRoot stands for the empty WorkspaceRoot string.  Fold is the case     *)
(* folding of foldPaths(): the identity on Linux, lower-casing on Windows  *)
(* and macOS.                                                              *)
(***************************************************************************)
EXTENDS Integers, Sequences

CONSTANTS Name, Fold, NoRoot

ASSUME FoldAssumption == Fold \in [Name -> Name]
ASSUME NoRootAssumption == NoRoot \notin Seq(Name)

Path == Seq(Name)

WritePathSet == [paths : SUBSET Path, whole : BOOLEAN, root : Path \cup {NoRoot}]

(* Normalized limits: zero or negative means default, 1..32, writers never
   above the total. *)
DefaultMaxSubagentConcurrency == 6
DefaultMaxParallelWriters == 3
MaxSubagentConcurrencyLimit == 32

Clamp(n, default, limit) ==
  IF n <= 0 THEN default ELSE IF n > limit THEN limit ELSE n

NormalizeConcurrencyLimits(total, writers) ==
  LET t == Clamp(total, DefaultMaxSubagentConcurrency, MaxSubagentConcurrencyLimit)
      w == Clamp(writers, DefaultMaxParallelWriters, MaxSubagentConcurrencyLimit)
  IN  [total |-> t, writers |-> IF w > t THEN t ELSE w]

(* path is root or below it. *)
PathWithin(root, path) ==
  /\ Len(root) <= Len(path)
  /\ \A i \in 1..Len(root) : Fold[root[i]] = Fold[path[i]]

Nested(p, q) == PathWithin(p, q) \/ PathWithin(q, p)

Empty(s) == ~s.whole /\ s.paths = {}

Overlaps(s, other) ==
  /\ ~Empty(s)
  /\ ~Empty(other)
  /\ IF s.whole \/ other.whole
     THEN \/ NoRoot \in {s.root, other.root}
          \/ Nested(s.root, other.root)
     ELSE \E a \in s.paths, b \in other.paths : Nested(a, b)

(* target is a resolved path here: realPathForClaim has run. *)
AllowsPath(s, target) ==
  IF s.whole
  THEN s.root = NoRoot \/ PathWithin(s.root, target)
  ELSE \E root \in s.paths : PathWithin(root, target)

(* What the two constructors and the tools' single-path reservations return:
   paths below the root they were normalized against, or a whole workspace
   with no paths of its own. *)
WellFormed(s) ==
  /\ s \in WritePathSet
  /\ s.whole => s.paths = {}
  /\ s.root # NoRoot => \A p \in s.paths : PathWithin(s.root, p)

WholeWorkspaceWriteClaim(root) == [paths |-> {}, whole |-> TRUE, root |-> root]
NormalizeWritePaths(root, raw) ==
  [paths |-> raw, whole |-> FALSE, root |-> IF raw = {} THEN NoRoot ELSE root]
SinglePath(p) == [paths |-> {p}, whole |-> FALSE, root |-> NoRoot]
NoClaim == [paths |-> {}, whole |-> FALSE, root |-> NoRoot]

ValidateNonOverlappingWriteClaims(claims) ==
  \A i, j \in DOMAIN claims : i < j => ~Overlaps(claims[i], claims[j])
=============================================================================
