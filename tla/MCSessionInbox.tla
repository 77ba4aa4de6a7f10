---------------------------- MODULE MCSessionInbox ----------------------------
(* An instance of SessionInbox for TLC. *)
EXTENDS SessionInbox, TLC

\* Runs differ by their id only, and so do keys.
Symmetric == Permutations(Run) \cup Permutations(Key)
=============================================================================
