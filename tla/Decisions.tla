------------------------------ MODULE Decisions ------------------------------
(***************************************************************************)
(* The nil-able booleans of internal/s3/enumerate.  A *bool of the code is *)
(* "yes", "no" or, when it is nil, "unknown": the evidence does not decide *)
(* the question.                                                           *)
(***************************************************************************)

Decision == {"yes", "no", "unknown"}

Known(truth) == IF truth THEN "yes" ELSE "no"

(***************************************************************************)
(* orDecisions, and the same loop written out in evaluatePolicyCapability  *)
(* and evaluateAnyPolicyDeny: one "yes" settles it, one nil spoils a "no". *)
(***************************************************************************)
OrDecisions(ds) ==
  IF "yes" \in ds THEN "yes"
  ELSE IF "unknown" \in ds THEN "unknown" ELSE "no"

\* The dual loop of evaluatePolicyDenyCapability: one "no" settles it.
AndDecisions(ds) ==
  IF "no" \in ds THEN "no"
  ELSE IF "unknown" \in ds THEN "unknown" ELSE "yes"

\* BlockedDecision that treats an unavailable block as no block.
BlockedDecisionTrustsNil(decision, blocked) ==
  IF blocked = "yes" THEN "no" ELSE decision

\* blockedDecision: what is left of a permission under a block.
BlockedDecision(decision, blocked) ==
  IF blocked = "yes" \/ decision = "no" THEN "no"
  ELSE IF decision = "unknown" \/ blocked = "unknown" THEN "unknown"
  ELSE decision

\* A decision does not contradict the truth it is about.
Agrees(decision, truth) ==
  /\ decision = "yes" => truth
  /\ decision = "no" => ~truth
=============================================================================
