----------------------------- MODULE BucketPolicy -----------------------------
(***************************************************************************)
(* What internal/s3/enumerate/policy.go concludes from a bucket policy.    *)
(*                                                                         *)
(* A statement is a record of the outcomes of the code's own classifiers:  *)
(*   effect     Allow, Deny or anything else                               *)
(*   principal  statementPublicPrincipal: does it name everyone?           *)
(*   action     valuesMatch of each operation's action                     *)
(*   resource   the Resource list; <<>> is NotResource, or no list at all  *)
(*   allowCond  classifyAllowCondition                                     *)
(*   denyCond   classifyDenyCondition for each kind of principal           *)
(* Resource patterns are opaque: the constants say which resources each of *)
(* them matches and what the code's textual tests answer about it.         *)
(***************************************************************************)
EXTENDS Naturals, Sequences, Decisions

CONSTANTS
  Keys,       \* object keys of the bucket, as resources
  BaseKey,    \* "<bucket>/object", the key every object operation is tried on
  ScopeKey,   \* "<bucket>/method-public-probe", tried for a bucket-wide scope
  Bucket,     \* the bucket itself as a resource
  Patterns,   \* resource patterns
  Variables,  \* the patterns with a policy variable, ${...}
  Wholes,     \* the patterns that are "*" or "<bucket>/*"
  Wild,       \* the patterns with * or ? in them
  Matches,    \* pattern -> the resources it matches (or could, for Variables)
  Probe,      \* pattern -> the key objectResourceProbe builds, or None
  Covers,     \* <<p, q>>: the text of p shows that it covers all of q
  None,
  Policies    \* the policies a bucket may have

Resources == Keys \cup {Bucket}

ASSUME KeyAssumption ==
  /\ BaseKey \in Keys
  /\ ScopeKey \in Keys
  /\ Bucket \notin Keys
  /\ None \notin Keys \cup Patterns

ASSUME PatternAssumption ==
  /\ Variables \subseteq Patterns /\ Wholes \subseteq Patterns /\ Wild \subseteq Patterns
  /\ Matches \in [Patterns -> SUBSET Resources]
  /\ Probe \in [Patterns -> Keys \cup {None}]
  /\ Covers \subseteq Patterns \X Patterns

\* The code's textual tests are right about the patterns: a probe is a key of
\* its pattern, covering is inclusion, a whole pattern has every key, and a
\* pattern without wildcards does not name the scope's probe key.
ASSUME TextAssumption ==
  /\ \A p \in Patterns : Probe[p] # None => Probe[p] \in Matches[p] /\ p \notin Variables
  /\ \A p, q \in Patterns :
       <<p, q>> \in Covers /\ q \notin Variables =>
         Matches[q] \subseteq Matches[p] /\ p \notin Variables
  /\ \A p \in Wholes : Keys \subseteq Matches[p] /\ p \notin Variables
  /\ \A p \in Patterns \ (Wild \cup Variables) : p \notin Wholes => ScopeKey \notin Matches[p]

(***************************************************************************)
(* Operations, by the group the code tries them in.                        *)
(***************************************************************************)
ReadOperations == {"GetObject", "GetObjectVersion"}
WriteOperations == {"PutObject", "DeleteObject"}
ListOperations == {"ListBucket", "ListBucketVersions", "ListBucketMultipartUploads"}
ReadACPOperations == {"GetBucketAcl"}
WriteACPOperations == {"PutBucketAcl"}
AclOperations ==
  ListOperations \cup WriteOperations \cup ReadACPOperations \cup WriteACPOperations
ObjectOperations == ReadOperations \cup WriteOperations
Operations == ObjectOperations \cup AclOperations

PrincipalKinds == {"anonymous", "authenticated"}

Statement ==
  [effect : {"Allow", "Deny", "Other"},
   principal : Decision,
   action : [Operations -> Decision],
   resource : Seq(Patterns),
   allowCond : {"public", "restricted", "unknown"},
   denyCond : [PrincipalKinds -> {"blocks", "passes", "unknown"}]]

Policy == Seq(Statement)

ASSUME PoliciesAssumption == Policies \subseteq Policy

IsDeny(s) == s.effect = "Deny"

(***************************************************************************)
(* Matching one statement against one operation on one resource.           *)
(***************************************************************************)
ListedPatterns(s) == {s.resource[j] : j \in DOMAIN s.resource}

ResourceMatch(s, r) ==
  IF ListedPatterns(s) = {} THEN "unknown"
  ELSE IF \E p \in ListedPatterns(s) \ Variables : r \in Matches[p] THEN "yes"
  ELSE IF \E p \in ListedPatterns(s) : r \in Matches[p] THEN "unknown"
  ELSE "no"

\* valuesCoverResourceScope: does the statement speak of every key?
ScopeMatch(s) ==
  IF ListedPatterns(s) = {} THEN "unknown"
  ELSE IF ListedPatterns(s) \cap Wholes # {} THEN "yes"
  ELSE IF \E p \in ListedPatterns(s) \cap (Wild \cup Variables) : ScopeKey \in Matches[p]
       THEN "unknown"
  ELSE "no"

\* One mismatch makes a statement irrelevant, else one doubt makes it doubtful.
StatementMatch(s, op, r) == AndDecisions({s.principal, s.action[op], ResourceMatch(s, r)})

DenyCoversAllowedResource(s, pattern) ==
  \E p \in ListedPatterns(s) : <<p, pattern>> \in Covers

(***************************************************************************)
(* evaluatePolicyOperation.  `pattern` is the allowed pattern the resource *)
(* stands for, None when it stands for itself.                             *)
(***************************************************************************)
SureGrant(s, op, r) ==
  s.effect = "Allow" /\ StatementMatch(s, op, r) = "yes" /\ s.allowCond = "public"

DoubtfulGrant(s, op, r) ==
  /\ ~IsDeny(s)
  /\ \/ StatementMatch(s, op, r) = "unknown"
     \/ /\ StatementMatch(s, op, r) = "yes"
        /\ s.effect = "Other" \/ s.allowCond = "unknown"

\* PartialDeny that does not look at what the deny covers.
PartialDenyAlways(s, pattern) == pattern # None

\* A deny that matches the probe of a pattern but not the whole pattern.
PartialDeny(s, pattern) == pattern # None /\ ~DenyCoversAllowedResource(s, pattern)

SureDeny(s, op, r, pattern) ==
  /\ IsDeny(s) /\ StatementMatch(s, op, r) = "yes"
  /\ ~PartialDeny(s, pattern) /\ s.denyCond["anonymous"] = "blocks"

DoubtfulDeny(s, op, r, pattern) ==
  /\ IsDeny(s)
  /\ \/ StatementMatch(s, op, r) = "unknown"
     \/ /\ StatementMatch(s, op, r) = "yes"
        /\ PartialDeny(s, pattern) \/ s.denyCond["anonymous"] = "unknown"

EvaluatePolicyOperation(P, op, r, pattern) ==
  IF \E i \in DOMAIN P : SureDeny(P[i], op, r, pattern) THEN "no"
  ELSE IF /\ \E i \in DOMAIN P : SureGrant(P[i], op, r)
          /\ ~\E i \in DOMAIN P : DoubtfulDeny(P[i], op, r, pattern)
       THEN "yes"
  ELSE IF \E i \in DOMAIN P : DoubtfulGrant(P[i], op, r) \/ DoubtfulDeny(P[i], op, r, pattern)
       THEN "unknown"
  ELSE "no"

(***************************************************************************)
(* policyOperationResources: the operation on its base resource and, for   *)
(* an object operation, on the probe of each pattern a public Allow lists. *)
(* A probe met before keeps the pattern it was first met with.             *)
(***************************************************************************)
BaseResource(op) == IF op \in ObjectOperations THEN BaseKey ELSE Bucket

Offers(s, op) ==
  s.effect = "Allow" /\ s.principal # "no" /\ s.action[op] # "no"

PatternAt(P, a) == P[a[1]].resource[a[2]]

Precedes(a, b) == a[1] < b[1] \/ (a[1] = b[1] /\ a[2] < b[2])

ProbedPositions(P, op) ==
  {a \in UNION {{<<i, j>> : j \in DOMAIN P[i].resource} : i \in DOMAIN P} :
     /\ op \in ObjectOperations /\ Offers(P[a[1]], op)
     /\ Probe[PatternAt(P, a)] \notin {None, BaseKey}}

FirstProbed(P, op) ==
  {a \in ProbedPositions(P, op) :
     ~\E b \in ProbedPositions(P, op) :
        Precedes(b, a) /\ Probe[PatternAt(P, b)] = Probe[PatternAt(P, a)]}

PolicyOperationResources(P, op) ==
  {<<BaseResource(op), None>>} \cup
  {<<Probe[PatternAt(P, a)], PatternAt(P, a)>> : a \in FirstProbed(P, op)}

EvaluatePolicyCapability(P, ops) ==
  OrDecisions(UNION {{EvaluatePolicyOperation(P, op, x[1], x[2]) :
                        x \in PolicyOperationResources(P, op)} : op \in ops})

(***************************************************************************)
(* evaluatePolicyOperationDeny and the two ways its answers are combined.  *)
(***************************************************************************)
\* The resource of an ACL operation: the scope of all keys, or the bucket.
DenyMatch(s, op) ==
  AndDecisions({s.principal, s.action[op],
                IF op \in WriteOperations THEN ScopeMatch(s) ELSE ResourceMatch(s, Bucket)})

EvaluatePolicyOperationDeny(P, op, kind) ==
  LET denies == {P[i] : i \in {j \in DOMAIN P : IsDeny(P[j])}} IN
  IF \E s \in denies : DenyMatch(s, op) = "yes" /\ s.denyCond[kind] = "blocks" THEN "yes"
  ELSE IF \E s \in denies : \/ DenyMatch(s, op) = "unknown"
                            \/ DenyMatch(s, op) = "yes" /\ s.denyCond[kind] = "unknown"
       THEN "unknown"
  ELSE "no"

EvaluatePolicyDenyCapability(P, ops, kind) ==
  AndDecisions({EvaluatePolicyOperationDeny(P, op, kind) : op \in ops})

EvaluateAnyPolicyDeny(P, kind) ==
  OrDecisions({EvaluatePolicyOperationDeny(P, op, kind) : op \in AclOperations})

(***************************************************************************)
(* The reference.  Where a classifier is in doubt the policy may mean      *)
(* either thing for each request, so what a policy says is bracketed:      *)
(* Surely is what it says however the doubts are settled, Possibly what it *)
(* says under some way to settle them.                                     *)
(***************************************************************************)
MayGrant(s, op, r) ==
  /\ ~IsDeny(s) /\ StatementMatch(s, op, r) # "no"
  /\ s.effect = "Allow" => s.allowCond # "restricted"

MayDeny(s, op, r, kind) ==
  IsDeny(s) /\ StatementMatch(s, op, r) # "no" /\ s.denyCond[kind] # "passes"

MustDeny(s, op, r, kind) ==
  IsDeny(s) /\ StatementMatch(s, op, r) = "yes" /\ s.denyCond[kind] = "blocks"

SurelyAllows(P, op, r) ==
  /\ \E i \in DOMAIN P : SureGrant(P[i], op, r)
  /\ \A i \in DOMAIN P : ~MayDeny(P[i], op, r, "anonymous")

PossiblyAllows(P, op, r) ==
  /\ \E i \in DOMAIN P : MayGrant(P[i], op, r)
  /\ \A i \in DOMAIN P : ~MustDeny(P[i], op, r, "anonymous")

Targets(op) == IF op \in ObjectOperations THEN Keys ELSE {Bucket}

\* The policy gives everyone one of the operations on something.
SurelyPublic(P, ops) == \E op \in ops : \E r \in Targets(op) : SurelyAllows(P, op, r)
PossiblyPublic(P, ops) == \E op \in ops : \E r \in Targets(op) : PossiblyAllows(P, op, r)

\* The policy denies the operation on everything it can be used on.
SurelyDenies(P, op, kind) ==
  \A r \in Targets(op) : \E i \in DOMAIN P : MustDeny(P[i], op, r, kind)
PossiblyDenies(P, op, kind) ==
  \A r \in Targets(op) : \E i \in DOMAIN P : MayDeny(P[i], op, r, kind)

(***************************************************************************)
(* When the probes stand for every key a policy offers: each pattern that  *)
(* is offered has a probe of its own.  A pattern whose probe is the base   *)
(* key is tried as the base key and has no other key.                      *)
(***************************************************************************)
OwnProbe(P, op, p) ==
  /\ Probe[p] # None
  /\ Probe[p] = BaseKey => Matches[p] \cap Keys = {BaseKey}
  /\ \A i \in DOMAIN P : \A q \in ListedPatterns(P[i]) :
       Offers(P[i], op) /\ Probe[q] = Probe[p] => q = p

Probed(P, op) ==
  op \in ObjectOperations =>
    \A i \in DOMAIN P :
      ~IsDeny(P[i]) /\ P[i].principal # "no" /\ P[i].action[op] # "no" =>
        /\ Offers(P[i], op) /\ ListedPatterns(P[i]) # {}
        /\ \A p \in ListedPatterns(P[i]) : OwnProbe(P, op, p)

(***************************************************************************)
(* A policy that leaves nothing in doubt: every classifier is sure of      *)
(* every statement, and a deny speaks of all of an allowed pattern or of   *)
(* none of it.  Its condition does not count: the code asks what a deny    *)
(* covers before it asks whether the deny applies.                         *)
(***************************************************************************)
CertainStatement(s) ==
  /\ s.effect # "Other" /\ s.principal # "unknown" /\ s.allowCond # "unknown"
  /\ \A op \in Operations : s.action[op] # "unknown"
  /\ \A k \in PrincipalKinds : s.denyCond[k] # "unknown"
  /\ ListedPatterns(s) # {} /\ ListedPatterns(s) \cap Variables = {}

\* A deny of others, of another operation or of other resources.
Spares(deny, op, pattern) ==
  \/ deny.principal = "no" \/ deny.action[op] = "no"
  \/ \A q \in ListedPatterns(deny) : Matches[q] \cap Matches[pattern] = {}

AllOrNone(deny, op, pattern) ==
  DenyCoversAllowedResource(deny, pattern) \/ Spares(deny, op, pattern)

CertainPolicy(P) ==
  /\ \A i \in DOMAIN P : CertainStatement(P[i])
  /\ \A i, j \in DOMAIN P, op \in ObjectOperations : IsDeny(P[i]) /\ Offers(P[j], op) =>
       \A p \in ListedPatterns(P[j]) : AllOrNone(P[i], op, p)
  /\ \A i \in DOMAIN P : IsDeny(P[i]) => ScopeMatch(P[i]) # "unknown"
=============================================================================
