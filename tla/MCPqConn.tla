------------------------------ MODULE MCPqConn ------------------------------
(* The instance of PqConn for TLC: every method, four requests, two rows.  *)
EXTENDS PqConn

\* Nothing; one statement; several results; what a transaction leaves.
MCTexts == {<<>>, <<"SELECT", "SELECT">>, <<"UPDATE", "SELECT">>, <<"BEGIN">>, <<"COMMIT">>}
MCSimple == {"Exec", "Query"}
MCExtended == {"ExecArgs", "QueryArgs", "Prepare", "StmtExec", "StmtQuery"}
=============================================================================
