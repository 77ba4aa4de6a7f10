--------------------------- MODULE MCWorkspaceLease ---------------------------
(***************************************************************************)
(* An instance of WorkspaceLease: two processes share a workspace.  One     *)
(* has session a, with a subagent's run beside its main run, and session   *)
(* b; the other has session c.                                             *)
(***************************************************************************)
EXTENDS WorkspaceLease

MCProcessOf == [o \in Owner |-> IF o = "c" THEN "p2" ELSE "p1"]
MCOwnerOf ==
  [r \in Run |-> CASE r \in {"a1", "a2"} -> "a" [] r = "b1" -> "b" [] OTHER -> "c"]
===============================================================================
