------------------------------ MODULE PolicyScan ------------------------------
(***************************************************************************)
(* The nested loops of policy.go that answer one question about a policy:  *)
(* evaluatePolicyCapability around evaluatePolicyOperation, and            *)
(* evaluatePolicyDenyCapability or evaluateAnyPolicyDeny around            *)
(* evaluatePolicyOperationDeny.  Both inner loops scan the statements      *)
(* once, collecting flags, and may return in the middle; the outer loops   *)
(* stop at the first answer that settles the question.                     *)
(*                                                                         *)
(* The outer loop takes its tasks in any order, a superset of the order of *)
(* the code's tables: no answer may depend on it.                          *)
(***************************************************************************)
EXTENDS BucketPolicy

\* What analyzeBucketPolicy asks: may everyone (grant), is every one of the
\* operations denied (denyAll), is any (denyAny).
Questions ==
  {[mode |-> "grant", ops |-> o, kind |-> "anonymous"] :
     o \in {ListOperations, ReadOperations, WriteOperations}}
  \cup {[mode |-> "denyAll", ops |-> o, kind |-> k] : k \in PrincipalKinds,
          o \in {ListOperations, WriteOperations, ReadACPOperations, WriteACPOperations}}
  \cup {[mode |-> "denyAny", ops |-> AclOperations, kind |-> k] : k \in PrincipalKinds}

VARIABLES
  statements,  \* of the policy
  question,    \* what is asked of them
  remaining,   \* tasks the outer loop has not started
  task,        \* the task being scanned: <<operation, resource, pattern>>, or Idle
  next,        \* the statement to look at next
  flags,       \* the inner loop's allowed, unknownAllow and unknownDeny
  unknown,     \* the outer loop's flag
  verdict      \* the answer returned, Pending before that

scanVars == <<statements, question, remaining, task, next, flags, unknown, verdict>>

Idle == <<>>
Pending == "pending"
Flags == {"allowed", "unknownAllow", "unknownDeny"}

Task == Operations \X Resources \X (Patterns \cup {None})

Tasks(P, q) ==
  IF q.mode = "grant"
  THEN UNION {{<<op, x[1], x[2]>> : x \in PolicyOperationResources(P, op)} : op \in q.ops}
  ELSE {<<op, BaseResource(op), None>> : op \in q.ops}

\* The answer that ends the outer loop at once, and the one it ends with
\* when nothing did and nothing was unknown.
Settling(q) == IF q.mode = "denyAll" THEN "no" ELSE "yes"
Otherwise(q) == IF q.mode = "denyAll" THEN "yes" ELSE "no"

(***************************************************************************)
(* Initial states: a question about a policy.                              *)
(***************************************************************************)
ScanInit ==
  /\ statements \in Policies
  /\ question \in Questions
  /\ remaining = Tasks(statements, question)
  /\ task = Idle
  /\ next = 1
  /\ flags = {}
  /\ unknown = FALSE
  /\ verdict = Pending

Scanning(mode) == task # Idle /\ verdict = Pending /\ question.mode \in mode

\* NextTask that keeps the flags of the task before.
NextTaskKeepsFlags ==
  /\ task = Idle /\ verdict = Pending
  /\ \E t \in remaining : task' = t /\ remaining' = remaining \ {t}
  /\ next' = 1
  /\ UNCHANGED <<statements, question, flags, unknown, verdict>>

NextTask ==
  /\ task = Idle /\ verdict = Pending
  /\ \E t \in remaining : task' = t /\ remaining' = remaining \ {t}
  /\ next' = 1 /\ flags' = {}
  /\ UNCHANGED <<statements, question, unknown, verdict>>

\* The inner loop returns d; the outer one settles or goes on.
Return(d) ==
  /\ IF d = Settling(question)
     THEN verdict' = d /\ UNCHANGED unknown
     ELSE unknown' = (unknown \/ d = "unknown") /\ UNCHANGED verdict
  /\ task' = Idle
  /\ UNCHANGED <<statements, question, remaining, next, flags>>

\* Continue that steps over a statement.
ContinueSkips(more) ==
  /\ flags' = flags \cup more
  /\ next' = next + 2
  /\ UNCHANGED <<statements, question, remaining, task, unknown, verdict>>

\* Goes on to the next statement with the given flags set as well.
Continue(more) ==
  /\ flags' = flags \cup more
  /\ next' = next + 1
  /\ UNCHANGED <<statements, question, remaining, task, unknown, verdict>>

(***************************************************************************)
(* evaluatePolicyOperation: one statement.                                 *)
(***************************************************************************)
\* UnmatchedStatement that doubts every deny of less than the whole pattern.
UnmatchedStatementDoubts(s) ==
  /\ StatementMatch(s, task[1], task[2]) = "no"
  /\ Continue(IF IsDeny(s) /\ PartialDeny(s, task[3]) THEN {"unknownDeny"} ELSE {})

UnmatchedStatement(s) ==
  /\ StatementMatch(s, task[1], task[2]) = "no"
  /\ Continue({})

DoubtfulStatement(s) ==
  /\ StatementMatch(s, task[1], task[2]) = "unknown"
  /\ Continue(IF IsDeny(s) THEN {"unknownDeny"} ELSE {"unknownAllow"})

AllowStatement(s) ==
  /\ StatementMatch(s, task[1], task[2]) = "yes" /\ s.effect = "Allow"
  /\ Continue(CASE s.allowCond = "public" -> {"allowed"}
                [] s.allowCond = "unknown" -> {"unknownAllow"}
                [] s.allowCond = "restricted" -> {})

\* DenyStatement that takes a deny on the probe for one on the whole pattern.
DenyStatementOnProbe(s) ==
  /\ StatementMatch(s, task[1], task[2]) = "yes" /\ IsDeny(s)
  /\ CASE s.denyCond["anonymous"] = "blocks" -> Return("no")
       [] s.denyCond["anonymous"] = "unknown" -> Continue({"unknownDeny"})
       [] s.denyCond["anonymous"] = "passes" -> Continue({})

DenyStatement(s) ==
  /\ StatementMatch(s, task[1], task[2]) = "yes" /\ IsDeny(s)
  /\ IF PartialDeny(s, task[3]) THEN Continue({"unknownDeny"})
     ELSE CASE s.denyCond["anonymous"] = "blocks" -> Return("no")
            [] s.denyCond["anonymous"] = "unknown" -> Continue({"unknownDeny"})
            [] s.denyCond["anonymous"] = "passes" -> Continue({})

OtherStatement(s) ==
  /\ StatementMatch(s, task[1], task[2]) = "yes" /\ s.effect = "Other"
  /\ Continue({"unknownAllow"})

ScanStatement ==
  /\ Scanning({"grant"}) /\ next \in DOMAIN statements
  /\ \/ UnmatchedStatement(statements[next])
     \/ DoubtfulStatement(statements[next])
     \/ AllowStatement(statements[next])
     \/ DenyStatement(statements[next])
     \/ OtherStatement(statements[next])

EndScan ==
  /\ Scanning({"grant"}) /\ next = Len(statements) + 1
  /\ Return(CASE "allowed" \in flags /\ "unknownDeny" \notin flags -> "yes"
              [] "unknownDeny" \in flags -> "unknown"
              [] flags = {"unknownAllow"} -> "unknown"
              [] flags = {} -> "no")

(***************************************************************************)
(* evaluatePolicyOperationDeny: one statement.                             *)
(***************************************************************************)
IrrelevantDeny(s) ==
  /\ ~IsDeny(s) \/ DenyMatch(s, task[1]) = "no"
  /\ Continue({})

DoubtfulDenyStatement(s) ==
  /\ IsDeny(s) /\ DenyMatch(s, task[1]) = "unknown"
  /\ Continue({"unknownDeny"})

\* RelevantDeny that judges every condition as for an anonymous caller.
RelevantDenyAnonymous(s) ==
  /\ IsDeny(s) /\ DenyMatch(s, task[1]) = "yes"
  /\ CASE s.denyCond["anonymous"] = "blocks" -> Return("yes")
       [] s.denyCond["anonymous"] = "unknown" -> Continue({"unknownDeny"})
       [] s.denyCond["anonymous"] = "passes" -> Continue({})

RelevantDeny(s) ==
  /\ IsDeny(s) /\ DenyMatch(s, task[1]) = "yes"
  /\ CASE s.denyCond[question.kind] = "blocks" -> Return("yes")
       [] s.denyCond[question.kind] = "unknown" -> Continue({"unknownDeny"})
       [] s.denyCond[question.kind] = "passes" -> Continue({})

ScanDeny ==
  /\ Scanning({"denyAll", "denyAny"}) /\ next \in DOMAIN statements
  /\ \/ IrrelevantDeny(statements[next])
     \/ DoubtfulDenyStatement(statements[next])
     \/ RelevantDeny(statements[next])

EndScanDeny ==
  /\ Scanning({"denyAll", "denyAny"}) /\ next = Len(statements) + 1
  /\ Return(IF flags = {} THEN "no" ELSE "unknown")

Exhausted ==
  /\ task = Idle /\ verdict = Pending /\ remaining = {}
  /\ verdict' = IF unknown THEN "unknown" ELSE Otherwise(question)
  /\ UNCHANGED <<statements, question, remaining, task, next, flags, unknown>>

\* The answer has been returned and stays as it is.
Answered == verdict # Pending /\ UNCHANGED scanVars

ScanNext ==
  \/ NextTask \/ ScanStatement \/ EndScan
  \/ ScanDeny \/ EndScanDeny \/ Exhausted \/ Answered

ScanSpec == ScanInit /\ [][ScanNext]_scanVars

----------------------------------------------------------------------------
ScanTypeOK ==
  /\ statements \in Policy
  /\ question \in Questions
  /\ remaining \subseteq Task
  /\ task = Idle \/ task \in Task
  /\ next \in 1 .. Len(statements) + 1
  /\ flags \subseteq Flags
  /\ unknown \in BOOLEAN
  /\ verdict \in Decision \cup {Pending}

\* The answer as a formula of the policy.
AnswerTo(P, q) ==
  CASE q.mode = "grant" -> EvaluatePolicyCapability(P, q.ops)
    [] q.mode = "denyAll" -> EvaluatePolicyDenyCapability(P, q.ops, q.kind)
    [] q.mode = "denyAny" -> EvaluateAnyPolicyDeny(P, q.kind)

\* The early returns, the flags and the order of the tasks do not matter:
\* whatever the loops did on the way, the answer is a function of the policy.
ScanComputesAnswer == verdict # Pending => verdict = AnswerTo(statements, question)

Denied(holds(_)) ==
  IF question.mode = "denyAll" THEN \A op \in question.ops : holds(op)
  ELSE \E op \in question.ops : holds(op)

\* A definite answer is true however the doubts about the policy are settled:
\* "yes" of evaluatePolicyCapability is a request everyone may surely make,
\* "no" leaves none, provided every offered pattern has a probe of its own.
PublicVerdictSound ==
  question.mode = "grant" =>
    /\ verdict = "yes" => SurelyPublic(statements, question.ops)
    /\ verdict = "no" /\ (\A op \in question.ops : Probed(statements, op)) =>
         ~PossiblyPublic(statements, question.ops)

\* The same of the denies that are set against ACL grants: "yes" covers every
\* object, "no" leaves one that is surely not denied.
DenyVerdictSound ==
  question.mode # "grant" =>
    LET surely(op) == SurelyDenies(statements, op, question.kind)
        possibly(op) == PossiblyDenies(statements, op, question.kind) IN
    /\ verdict = "yes" => Denied(surely)
    /\ verdict = "no" => ~Denied(possibly)

\* "Unknown" is not a way out: when nothing about the policy is in doubt and
\* each deny speaks of all of a pattern that is allowed or of none of it
\* (Allow public/*, Deny private/*), every question is decided.
CertainPolicyIsDecided ==
  verdict = "unknown" => ~CertainPolicy(statements)

\* policy_test.go: "deny on probe key does not hide a broader public prefix",
\* for every policy: none that surely makes something public is answered "no".
DenyOnProbeHidesNothing ==
  question.mode = "grant" /\ SurelyPublic(statements, question.ops) => verdict # "no"
=============================================================================
