--------------------------- MODULE MCInboxDispatch ---------------------------
(***************************************************************************)
(* Instances of InboxDispatch.  With two items one is under way while the   *)
(* other is admitted; the liveness run has one, and prompts to compete      *)
(* with it for the gate.  The order of the manifest is open, so the items   *)
(* are interchangeable.                                                     *)
(***************************************************************************)
EXTENDS InboxDispatch, TLC

Symmetry == Permutations(Item)
==============================================================================
