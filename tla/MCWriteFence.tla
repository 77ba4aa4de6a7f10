----------------------------- MODULE MCWriteFence -----------------------------
(***************************************************************************)
(* Instances of WriteFence: two runs with disjoint claims, docs and auth,   *)
(* calls that write inside them, outside them or both, and a parent call.  *)
(***************************************************************************)
EXTENDS WriteFence, TLC

MCName == {"ws", "docs", "auth", "x", "link", "notes", "tmp"}
MCWorkspace == <<"ws">>
docs == <<"ws", "docs">>
auth == <<"ws", "auth">>
authX == <<"ws", "auth", "x">>
link == <<"ws", "link">>
notes == <<"ws", "notes">>

NoFold == [n \in MCName |-> n]

MCDeclared == "scribe" :> NormalizeWritePaths(MCWorkspace, {docs}) @@
              "guard" :> NormalizeWritePaths(MCWorkspace, {auth})

MCReal == [p \in Named |-> p]
LinkedReal == [p \in Named |-> IF p = link THEN authX ELSE p]

Moves == "scribe" :> {<<docs, notes>>, <<notes, authX>>} @@
         "guard" :> {<<authX>>, <<notes>>} @@
         "main" :> {<<notes>>, <<authX, docs>>, << <<"tmp">> >>}

LinkCalls == "scribe" :> {<<docs>>, <<link>>} @@
             "guard" :> {<<authX>>} @@
             "main" :> {<<notes>>}
==============================================================================
