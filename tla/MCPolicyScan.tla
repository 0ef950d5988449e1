----------------------------- MODULE MCPolicyScan -----------------------------
(***************************************************************************)
(* Every question about every policy of one or two statements.             *)
(***************************************************************************)
EXTENDS PolicyScan, MCBucketPolicy

MCPolicies ==
  {<<s>> : s \in Statements} \cup {<<s, t>> : s \in Statements, t \in Statements}
=============================================================================
