----------------------------- MODULE MCFleetRun -----------------------------
(***************************************************************************)
(* An instance of FleetRun: calls of three items.  A chain that shares its *)
(* paths beside a reader, with a dependency named twice; a fail-fast join; *)
(* an adopted item between two writers of one path; and two the preflight  *)
(* must refuse, a cycle and an overlap of items that are not ordered.      *)
(***************************************************************************)
EXTENDS FleetRun, TLC

MCName == {"ws", "docs", "auth"}
MCFold == [n \in MCName |-> n]
docs == NormalizeWritePaths(<<"ws">>, {<<"ws", "docs">>})
auth == NormalizeWritePaths(<<"ws">>, {<<"ws", "auth">>})

Call(deps, claims, adopted, failFast, slots) ==
  [dependsOn |-> deps, claim |-> claims, adopted |-> adopted, failFast |-> failFast,
   slots |-> slots]

MCPlans ==
  { Call(<< <<>>, <<1, 1>>, <<>> >>, <<docs, docs, NoClaim>>, {}, FALSE, 1),
    Call(<< <<>>, <<>>, <<1, 2>> >>, <<docs, auth, docs>>, {}, TRUE, 2),
    Call(<< <<>>, <<1>>, <<2>> >>, <<docs, NoClaim, docs>>, {2}, FALSE, 2),
    Call(<< <<3>>, <<1>>, <<2>> >>, <<docs, NoClaim, auth>>, {}, FALSE, 2),
    Call(<< <<>>, <<>>, <<>> >>, <<docs, auth, docs>>, {}, FALSE, 2) }
==============================================================================
