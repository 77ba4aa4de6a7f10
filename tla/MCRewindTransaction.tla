-------------------------- MODULE MCRewindTransaction --------------------------
(***************************************************************************)
(* An instance of RewindTransaction: a file that exists and one that does   *)
(* not.  Turns write the first, create the second while removing the first, *)
(* or only talk.                                                           *)
(***************************************************************************)
EXTENDS RewindTransaction

old == 1
new == 2
MCInitial == [p \in {old, new} |-> IF p = old THEN None ELSE Absent]
MCWorks ==
  {[p \in {old, new} |-> IF p = old THEN "write" ELSE "keep"],
   [p \in {old, new} |-> IF p = old THEN "remove" ELSE "write"],
   [p \in {old, new} |-> "keep"]}
=============================================================================
