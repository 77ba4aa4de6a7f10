------------------------ MODULE MCSubagentScheduler ------------------------
(***************************************************************************)
(* An instance of SubagentScheduler.  Two runs compete for docs, one of     *)
(* them heavier, beside a reader; two runs are nested in these; and the    *)
(* parent's write tools reserve a path below docs, spelled in another case, *)
(* or nothing.                                                             *)
(***************************************************************************)
EXTENDS SubagentScheduler, TLC

MCName == {"ws", "docs", "Docs", "x", "docs2", "y"}
MCFold == [n \in MCName |-> IF n = "Docs" THEN "docs" ELSE n]

ws == <<"ws">>
docs == <<"ws", "docs">>
docsCase == <<"ws", "Docs", "x">>

Request(w, c, p) == [writer |-> w, claim |-> c, nested |-> FALSE, priority |-> p]

AllReq ==
  "docs" :> Request(TRUE, NormalizeWritePaths(ws, {docs}), 0) @@
  "heavy" :> Request(TRUE, NormalizeWritePaths(ws, {docs}), 1) @@
  "reader" :> Request(FALSE, NoClaim, 1) @@
  "nested" :> [Request(FALSE, NoClaim, 0) EXCEPT !.nested = TRUE] @@
  "inner" :> [Request(FALSE, NoClaim, 0) EXCEPT !.nested = TRUE]

MCReq == [r \in Run |-> AllReq[r]]
MCParent == [r \in Run |-> CASE r = "nested" -> "docs" [] r = "inner" -> "reader" [] OTHER -> "none"]

AllWriteClaim == "file" :> SinglePath(docsCase) @@ "nothing" :> NoClaim
MCWriteClaim == [w \in Write |-> AllWriteClaim[w]]
=============================================================================
