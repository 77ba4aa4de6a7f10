---------------------------- MODULE ExclusiveLease ----------------------------
(***************************************************************************)
(* What a lease promises, whatever protocol provides it: at any moment at  *)
(* most one client holds it, and it changes hands only through a moment at *)
(* which nobody does.                                                      *)
(***************************************************************************)
CONSTANTS Client, Nobody

VARIABLE holder

Init == holder = Nobody

Take(c) == holder = Nobody /\ holder' = c
Drop(c) == holder = c /\ holder' = Nobody

Next == \E c \in Client : Take(c) \/ Drop(c)

Spec == Init /\ [][Next]_holder
==============================================================================
