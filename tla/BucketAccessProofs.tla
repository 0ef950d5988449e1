-------------------------- MODULE BucketAccessProofs --------------------------
(***************************************************************************)
(* What policy.go answers about a policy is true of it, for every policy,  *)
(* every set of patterns and every way to settle the classifiers' doubts.  *)
(* From this: the access-control section of a bucket's report is true, for *)
(* any keys, policies, ACLs and blocks, whichever calls failed and         *)
(* whatever their answers left out.  At the end: the loops of policy.go    *)
(* return the answers that the formulas of the first part describe, in     *)
(* every order of the operations.                                          *)
(***************************************************************************)
EXTENDS BucketAccess, PolicyScan, WellFoundedInduction, TLAPS

(***************************************************************************)
(* The combinators.                                                        *)
(***************************************************************************)
LEMMA OrDecisionsCases ==
  \A ds : /\ OrDecisions(ds) \in Decision
          /\ OrDecisions(ds) = "yes" <=> "yes" \in ds
          /\ OrDecisions(ds) = "no" <=> "yes" \notin ds /\ "unknown" \notin ds
BY DEF OrDecisions, Decision

LEMMA AndDecisionsCases ==
  \A ds : /\ AndDecisions(ds) \in Decision
          /\ AndDecisions(ds) = "no" <=> "no" \in ds
          /\ AndDecisions(ds) = "yes" <=> "no" \notin ds /\ "unknown" \notin ds
BY DEF AndDecisions, Decision

LEMMA MatchCases ==
  ASSUME NEW s \in Statement, NEW op \in Operations, NEW r
  PROVE  /\ StatementMatch(s, op, r) \in Decision
         /\ StatementMatch(s, op, r) = "yes" <=>
              s.principal = "yes" /\ s.action[op] = "yes" /\ ResourceMatch(s, r) = "yes"
         /\ StatementMatch(s, op, r) = "no" <=>
              s.principal = "no" \/ s.action[op] = "no" \/ ResourceMatch(s, r) = "no"
         /\ ResourceMatch(s, r) \in Decision
<1>1. s.principal \in Decision /\ s.action[op] \in Decision
  BY DEF Statement
<1>2. ResourceMatch(s, r) \in Decision
  BY DEF ResourceMatch, Decision
<1> QED
  BY <1>1, <1>2 DEF StatementMatch, AndDecisions, Decision

LEMMA StatementAt ==
  ASSUME NEW P \in Policy, NEW i \in DOMAIN P
  PROVE  P[i] \in Statement
BY DEF Policy

LEMMA StatementFields ==
  ASSUME NEW s \in Statement
  PROVE  /\ s.effect \in {"Allow", "Deny", "Other"}
         /\ s.principal \in Decision
         /\ \A op \in Operations : s.action[op] \in Decision
         /\ s.resource \in Seq(Patterns)
         /\ ListedPatterns(s) \subseteq Patterns
         /\ s.allowCond \in {"public", "restricted", "unknown"}
         /\ \A k \in PrincipalKinds : s.denyCond[k] \in {"blocks", "passes", "unknown"}
<1>1. s.resource \in Seq(Patterns)
  BY DEF Statement
<1>2. ListedPatterns(s) \subseteq Patterns
  BY <1>1 DEF ListedPatterns
<1> QED
  BY <1>1, <1>2 DEF Statement

(***************************************************************************)
(* evaluatePolicyOperation: a "yes" is a request everyone may surely make, *)
(* whichever pattern the resource stands for.                              *)
(***************************************************************************)
THEOREM OperationYesIsSure ==
  ASSUME NEW P \in Policy, NEW op \in Operations, NEW r, NEW pattern,
         EvaluatePolicyOperation(P, op, r, pattern) = "yes"
  PROVE  SurelyAllows(P, op, r)
<1>1. /\ \E i \in DOMAIN P : SureGrant(P[i], op, r)
      /\ \A i \in DOMAIN P : ~SureDeny(P[i], op, r, pattern)
      /\ \A i \in DOMAIN P : ~DoubtfulDeny(P[i], op, r, pattern)
  BY DEF EvaluatePolicyOperation
<1>2. ASSUME NEW i \in DOMAIN P PROVE ~MayDeny(P[i], op, r, "anonymous")
  <2>1. P[i] \in Statement
    BY StatementAt
  <2>2. P[i].denyCond["anonymous"] \in {"blocks", "passes", "unknown"}
    BY <2>1, StatementFields DEF PrincipalKinds
  <2>3. StatementMatch(P[i], op, r) \in Decision
    BY <2>1, MatchCases
  <2> QED
    BY <1>1, <2>2, <2>3 DEF MayDeny, SureDeny, DoubtfulDeny, Decision
<1> QED
  BY <1>1, <1>2 DEF SurelyAllows

(***************************************************************************)
(* A "no" is a deny of the whole of what is asked about, or the absence of *)
(* anything that might grant it.                                           *)
(***************************************************************************)
LEMMA OperationNoCases ==
  ASSUME NEW P, NEW op, NEW r, NEW pattern,
         EvaluatePolicyOperation(P, op, r, pattern) = "no"
  PROVE  \/ \E i \in DOMAIN P : SureDeny(P[i], op, r, pattern)
         \/ \A i \in DOMAIN P : ~SureGrant(P[i], op, r) /\ ~DoubtfulGrant(P[i], op, r)
BY DEF EvaluatePolicyOperation

LEMMA MayGrantIsTold ==
  ASSUME NEW s \in Statement, NEW op \in Operations, NEW r, MayGrant(s, op, r)
  PROVE  SureGrant(s, op, r) \/ DoubtfulGrant(s, op, r)
<1>1. StatementMatch(s, op, r) \in {"yes", "unknown"}
  BY MatchCases DEF MayGrant, Decision
<1>2. s.effect \in {"Allow", "Other"} /\ s.allowCond \in {"public", "restricted", "unknown"}
  BY StatementFields DEF MayGrant, IsDeny
<1> QED
  BY <1>1, <1>2 DEF MayGrant, SureGrant, DoubtfulGrant

(***************************************************************************)
(* Every offered pattern with a probe is tried, under the pattern it was   *)
(* first met with.                                                         *)
(***************************************************************************)
LEMMA NatMinimum ==
  ASSUME NEW T \in SUBSET Nat, T # {}
  PROVE  \E m \in T : \A k \in T : m <= k
<1> DEFINE Less == {ss \in Nat \X Nat : ss[1] < ss[2]}
<1>1. IsWellFoundedOn(Less, Nat)
  BY NatLessThanWellFounded, Zenon DEF OpToRel
<1>2. \E m \in T : \A k \in T : <<k, m>> \notin Less
  <2> HIDE DEF Less
  <2> QED
    BY <1>1, WFMin
<1>3. PICK m \in T : \A k \in T : <<k, m>> \notin Less
  BY <1>2
<1>4. ASSUME NEW k \in T PROVE m <= k
  <2>1. k \in Nat /\ m \in Nat /\ <<k, m>> \in Nat \X Nat
    OBVIOUS
  <2>2. ~(<<k, m>>[1] < <<k, m>>[2])
    BY <2>1, <1>3
  <2>3. ~(k < m)
    BY <2>2
  <2> QED
    BY <2>1, <2>3
<1> QED
  BY <1>4

LEMMA FirstProbedExists ==
  ASSUME NEW P \in Policy, NEW op, NEW a \in ProbedPositions(P, op)
  PROVE  \E b \in FirstProbed(P, op) : Probe[PatternAt(P, b)] = Probe[PatternAt(P, a)]
<1> DEFINE Same == {b \in ProbedPositions(P, op) : Probe[PatternAt(P, b)] = Probe[PatternAt(P, a)]}
           Rows == {b[1] : b \in Same}
<1>1. \A b \in ProbedPositions(P, op) :
        /\ b = <<b[1], b[2]>>
        /\ b[1] \in Nat /\ b[2] \in Nat
  <2> SUFFICES ASSUME NEW b \in ProbedPositions(P, op)
               PROVE  b = <<b[1], b[2]>> /\ b[1] \in Nat /\ b[2] \in Nat
    OBVIOUS
  <2>0. PICK i \in DOMAIN P : \E j \in DOMAIN P[i].resource : b = <<i, j>>
    BY DEF ProbedPositions
  <2>1. PICK j \in DOMAIN P[i].resource : b = <<i, j>>
    BY <2>0
  <2>2. P[i].resource \in Seq(Patterns)
    BY StatementAt, StatementFields
  <2>3. i \in Nat /\ j \in Nat
    BY <2>2 DEF Policy
  <2> QED
    BY <2>1, <2>3
<1>2. PICK i \in Rows : \A k \in Rows : i <= k
  <2>1. Rows \in SUBSET Nat /\ Rows # {}
    BY <1>1
  <2> QED
    BY <2>1, NatMinimum
<1> DEFINE Columns == {b[2] : b \in {c \in Same : c[1] = i}}
<1>3. PICK j \in Columns : \A k \in Columns : j <= k
  <2>1. Columns \in SUBSET Nat /\ Columns # {}
    BY <1>1, <1>2
  <2> QED
    BY <2>1, NatMinimum
<1>4. PICK b \in Same : b[1] = i /\ b[2] = j
  BY <1>3
<1>5. ASSUME NEW c \in Same PROVE ~Precedes(c, b)
  <2>1. c[1] \in Rows /\ i <= c[1] /\ (c[1] = i => j <= c[2])
    BY <1>2, <1>3
  <2>2. i \in Nat /\ j \in Nat /\ c[1] \in Nat /\ c[2] \in Nat
    BY <1>1, <1>4
  <2> QED
    BY <2>1, <2>2, <1>4 DEF Precedes
<1>6. b \in FirstProbed(P, op)
  BY <1>5 DEF FirstProbed
<1> QED
  BY <1>6

LEMMA ProbedPositionFields ==
  ASSUME NEW P \in Policy, NEW op, NEW a \in ProbedPositions(P, op)
  PROVE  /\ a[1] \in DOMAIN P
         /\ PatternAt(P, a) \in ListedPatterns(P[a[1]])
         /\ PatternAt(P, a) \in Patterns
         /\ op \in ObjectOperations
         /\ Offers(P[a[1]], op)
         /\ Probe[PatternAt(P, a)] \in Keys \ {BaseKey}
<1>1. PICK i \in DOMAIN P : \E j \in DOMAIN P[i].resource : a = <<i, j>>
  BY DEF ProbedPositions
<1>2. PICK j \in DOMAIN P[i].resource : a = <<i, j>>
  BY <1>1
<1>3. PatternAt(P, a) = P[i].resource[j] /\ a[1] = i
  BY <1>2 DEF PatternAt
<1>4. PatternAt(P, a) \in ListedPatterns(P[i]) /\ ListedPatterns(P[i]) \subseteq Patterns
  BY <1>3, StatementAt, StatementFields DEF ListedPatterns
<1> QED
  BY <1>3, <1>4, PatternAssumption DEF ProbedPositions

(***************************************************************************)
(* A "yes" of evaluatePolicyCapability is a request everyone may surely    *)
(* make on something the operation can be used on.                         *)
(***************************************************************************)
THEOREM CapabilityYesSound ==
  ASSUME NEW P \in Policy, NEW ops \in SUBSET Operations,
         EvaluatePolicyCapability(P, ops) = "yes"
  PROVE  SurelyPublic(P, ops)
<1>1. PICK op \in ops : \E x \in PolicyOperationResources(P, op) :
                          EvaluatePolicyOperation(P, op, x[1], x[2]) = "yes"
  BY OrDecisionsCases DEF EvaluatePolicyCapability
<1>2. PICK x \in PolicyOperationResources(P, op) :
        EvaluatePolicyOperation(P, op, x[1], x[2]) = "yes"
  BY <1>1
<1>3. SurelyAllows(P, op, x[1])
  BY <1>2, OperationYesIsSure
<1>4. x[1] \in Targets(op)
  <2>1. CASE x = <<BaseResource(op), None>>
    BY <2>1, KeyAssumption DEF BaseResource, Targets
  <2>2. CASE \E a \in FirstProbed(P, op) : x = <<Probe[PatternAt(P, a)], PatternAt(P, a)>>
    <3>1. PICK a \in ProbedPositions(P, op) : x[1] = Probe[PatternAt(P, a)]
      BY <2>2 DEF FirstProbed
    <3> QED
      BY <3>1, ProbedPositionFields DEF Targets
  <2> QED
    BY <1>2, <2>1, <2>2 DEF PolicyOperationResources
<1> QED
  BY <1>3, <1>4 DEF SurelyPublic

(***************************************************************************)
(* Denying the whole of a pattern denies each of its resources.            *)
(***************************************************************************)
LEMMA SureDenyDenies ==
  ASSUME NEW s \in Statement, NEW op \in Operations, NEW probe, NEW r,
         NEW p \in Patterns \ Variables, r \in Matches[p], SureDeny(s, op, probe, p)
  PROVE  MustDeny(s, op, r, "anonymous")
<1>1. PICK q \in ListedPatterns(s) : <<q, p>> \in Covers
  BY KeyAssumption DEF SureDeny, PartialDeny, DenyCoversAllowedResource
<1>2. q \in Patterns
  BY StatementFields
<1>3. Matches[p] \subseteq Matches[q] /\ q \notin Variables
  BY <1>1, <1>2, TextAssumption
<1>4. ResourceMatch(s, r) = "yes"
  BY <1>1, <1>3 DEF ResourceMatch
<1>5. s.principal = "yes" /\ s.action[op] = "yes"
  BY MatchCases DEF SureDeny
<1> QED
  BY <1>4, <1>5, MatchCases DEF SureDeny, MustDeny

LEMMA SureDenyOfItself ==
  ASSUME NEW s, NEW op, NEW r, SureDeny(s, op, r, None)
  PROVE  MustDeny(s, op, r, "anonymous")
BY DEF SureDeny, MustDeny

\* A resource of a pattern that is not in doubt is matched like its probe.
LEMMA MatchedLikeItsProbe ==
  ASSUME NEW s \in Statement, NEW op \in Operations, NEW r, NEW p \in ListedPatterns(s),
         Probe[p] # None, MayGrant(s, op, r)
  PROVE  MayGrant(s, op, Probe[p])
<1>1. p \in Patterns
  BY StatementFields
<1>2. ResourceMatch(s, Probe[p]) = "yes"
  BY <1>1, TextAssumption DEF ResourceMatch
<1>3. s.principal # "no" /\ s.action[op] # "no"
  BY MatchCases DEF MayGrant
<1>4. StatementMatch(s, op, Probe[p]) # "no"
  BY <1>2, <1>3, MatchCases
<1> QED
  BY <1>4 DEF MayGrant

(***************************************************************************)
(* A "no" for the pattern a resource stands for excludes the resource.     *)
(***************************************************************************)
LEMMA OperationNoExcludes ==
  ASSUME NEW P \in Policy, NEW op \in Operations, NEW r, NEW i \in DOMAIN P,
         NEW p \in ListedPatterns(P[i]), NEW pattern,
         MayGrant(P[i], op, r), Probe[p] # None, r \in Matches[p],
         pattern = p \/ (pattern = None /\ Probe[p] = r),
         EvaluatePolicyOperation(P, op, Probe[p], pattern) = "no"
  PROVE  ~PossiblyAllows(P, op, r)
<1>1. P[i] \in Statement /\ p \in Patterns \ Variables
  BY StatementAt, StatementFields, TextAssumption
<1>2. SureGrant(P[i], op, Probe[p]) \/ DoubtfulGrant(P[i], op, Probe[p])
  BY <1>1, MatchedLikeItsProbe, MayGrantIsTold
<1>3. PICK k \in DOMAIN P : SureDeny(P[k], op, Probe[p], pattern)
  BY <1>2, OperationNoCases
<1>4. MustDeny(P[k], op, r, "anonymous")
  <2>1. CASE pattern = p
    BY <2>1, <1>1, <1>3, StatementAt, SureDenyDenies
  <2>2. CASE pattern = None /\ Probe[p] = r
    BY <2>2, <1>3, SureDenyOfItself
  <2> QED
    BY <2>1, <2>2
<1> QED
  BY <1>4 DEF PossiblyAllows

(***************************************************************************)
(* A "no" of evaluatePolicyCapability leaves no request anyone could       *)
(* possibly make, when every pattern that is offered has a probe of its    *)
(* own: each resource is judged by the base resource or by that probe.     *)
(***************************************************************************)
LEMMA CapabilityNoTried ==
  ASSUME NEW P, NEW ops, NEW op \in ops, EvaluatePolicyCapability(P, ops) = "no",
         NEW x \in PolicyOperationResources(P, op)
  PROVE  EvaluatePolicyOperation(P, op, x[1], x[2]) = "no"
<1> DEFINE All == UNION {{EvaluatePolicyOperation(P, o, y[1], y[2]) :
                            y \in PolicyOperationResources(P, o)} : o \in ops}
<1>1. EvaluatePolicyOperation(P, op, x[1], x[2]) \in All
  OBVIOUS
<1>2. "yes" \notin All /\ "unknown" \notin All
  BY OrDecisionsCases DEF EvaluatePolicyCapability
<1>3. EvaluatePolicyOperation(P, op, x[1], x[2]) \in {"yes", "no", "unknown"}
  BY DEF EvaluatePolicyOperation
<1> QED
  BY <1>1, <1>2, <1>3

LEMMA OwnProbeIsTried ==
  ASSUME NEW P \in Policy, NEW op \in ObjectOperations, NEW i \in DOMAIN P,
         NEW p \in ListedPatterns(P[i]), Offers(P[i], op), OwnProbe(P, op, p),
         Probe[p] # BaseKey
  PROVE  <<Probe[p], p>> \in PolicyOperationResources(P, op)
<1>1. PICK j \in DOMAIN P[i].resource : P[i].resource[j] = p
  BY DEF ListedPatterns
<1>2. <<i, j>> \in ProbedPositions(P, op) /\ PatternAt(P, <<i, j>>) = p
  BY <1>1 DEF ProbedPositions, PatternAt, OwnProbe
<1>3. PICK b \in FirstProbed(P, op) : Probe[PatternAt(P, b)] = Probe[p]
  BY <1>2, FirstProbedExists
<1>4. b \in ProbedPositions(P, op)
  BY DEF FirstProbed
<1>5. PatternAt(P, b) = p
  BY <1>3, <1>4, ProbedPositionFields DEF OwnProbe
<1> QED
  BY <1>3, <1>5 DEF PolicyOperationResources

THEOREM CapabilityNoSound ==
  ASSUME NEW P \in Policy, NEW ops \in SUBSET Operations,
         \A op \in ops : Probed(P, op), EvaluatePolicyCapability(P, ops) = "no"
  PROVE  ~PossiblyPublic(P, ops)
<1> SUFFICES ASSUME NEW op \in ops, NEW r \in Targets(op), PossiblyAllows(P, op, r)
             PROVE  FALSE
  BY DEF PossiblyPublic
<1>1. PICK i \in DOMAIN P : MayGrant(P[i], op, r)
  BY DEF PossiblyAllows
<1>2. P[i] \in Statement
  BY StatementAt
<1>3. <<BaseResource(op), None>> \in PolicyOperationResources(P, op)
  BY DEF PolicyOperationResources
<1>4. EvaluatePolicyOperation(P, op, BaseResource(op), None) = "no"
  BY <1>3, CapabilityNoTried
<1>5. ~PossiblyAllows(P, op, BaseResource(op))
  <2> SUFFICES ASSUME PossiblyAllows(P, op, BaseResource(op)) PROVE FALSE
    OBVIOUS
  <2>1. PICK k \in DOMAIN P : MayGrant(P[k], op, BaseResource(op))
    BY DEF PossiblyAllows
  <2>2. P[k] \in Statement
    BY StatementAt
  <2>3. SureGrant(P[k], op, BaseResource(op)) \/ DoubtfulGrant(P[k], op, BaseResource(op))
    BY <2>1, <2>2, MayGrantIsTold
  <2>4. PICK m \in DOMAIN P : SureDeny(P[m], op, BaseResource(op), None)
    BY <2>3, <1>4, OperationNoCases
  <2> QED
    BY <2>4, SureDenyOfItself DEF PossiblyAllows
<1>6. CASE op \notin ObjectOperations
  BY <1>5, <1>6 DEF Targets, BaseResource
<1>7. CASE op \in ObjectOperations
  <2>1. ~IsDeny(P[i]) /\ P[i].principal # "no" /\ P[i].action[op] # "no"
        /\ ResourceMatch(P[i], r) # "no"
    BY <1>1, <1>2, MatchCases DEF MayGrant
  <2>2. /\ Offers(P[i], op) /\ ListedPatterns(P[i]) # {}
        /\ \A p \in ListedPatterns(P[i]) : OwnProbe(P, op, p)
    BY <1>7, <2>1 DEF Probed
  <2>3. PICK p \in ListedPatterns(P[i]) : r \in Matches[p]
    BY <2>1, <2>2 DEF ResourceMatch
  <2>4. OwnProbe(P, op, p) /\ Probe[p] # None
    BY <2>2 DEF OwnProbe
  <2>5. CASE Probe[p] = BaseKey
    <3>1. r = BaseKey
      BY <1>7, <2>3, <2>4, <2>5 DEF OwnProbe, Targets
    <3> QED
      BY <1>5, <1>7, <3>1 DEF BaseResource
  <2>6. CASE Probe[p] # BaseKey
    <3>1. EvaluatePolicyOperation(P, op, Probe[p], p) = "no"
      <4>1. <<Probe[p], p>> \in PolicyOperationResources(P, op)
        BY <1>7, <2>2, <2>4, <2>6, OwnProbeIsTried
      <4>2. EvaluatePolicyOperation(P, op, <<Probe[p], p>>[1], <<Probe[p], p>>[2]) = "no"
        BY <4>1, CapabilityNoTried
      <4> QED
        BY <4>2
    <3> QED
      BY <1>1, <2>3, <2>4, <3>1, OperationNoExcludes
  <2> QED
    BY <2>5, <2>6
<1> QED
  BY <1>6, <1>7

(***************************************************************************)
(* evaluatePolicyOperationDeny.                                            *)
(***************************************************************************)
LEMMA DenyMatchCases ==
  ASSUME NEW s \in Statement, NEW op \in AclOperations
  PROVE  /\ DenyMatch(s, op) \in Decision
         /\ DenyMatch(s, op) = "yes" =>
              \A r \in Targets(op) : StatementMatch(s, op, r) = "yes"
         /\ DenyMatch(s, op) = "no" =>
              StatementMatch(s, op, IF op \in WriteOperations THEN ScopeKey ELSE Bucket) = "no"
<1>0. op \in Operations
  BY DEF Operations
<1>1. s.principal \in Decision /\ s.action[op] \in Decision
      /\ ScopeMatch(s) \in Decision /\ ResourceMatch(s, Bucket) \in Decision
  BY <1>0, StatementFields, MatchCases DEF ScopeMatch, Decision
<1>2. ListedPatterns(s) \subseteq Patterns
  BY StatementFields
<1>3. ScopeMatch(s) = "yes" => \A r \in Keys : ResourceMatch(s, r) = "yes"
  BY <1>2, TextAssumption DEF ScopeMatch, ResourceMatch
<1>4. ScopeMatch(s) = "no" => ResourceMatch(s, ScopeKey) = "no"
  BY <1>2, TextAssumption DEF ScopeMatch, ResourceMatch
<1>5. CASE op \in WriteOperations
  <2>1. Targets(op) = Keys
    BY <1>5 DEF Targets, ObjectOperations
  <2>2. DenyMatch(s, op) = AndDecisions({s.principal, s.action[op], ScopeMatch(s)})
    BY <1>5 DEF DenyMatch
  <2>3. DenyMatch(s, op) \in Decision
    BY <2>2, AndDecisionsCases
  <2>4. DenyMatch(s, op) = "yes" =>
          s.principal = "yes" /\ s.action[op] = "yes" /\ ScopeMatch(s) = "yes"
    BY <1>1, <2>2, AndDecisionsCases DEF Decision
  <2>5. DenyMatch(s, op) = "no" =>
          s.principal = "no" \/ s.action[op] = "no" \/ ScopeMatch(s) = "no"
    BY <2>2, AndDecisionsCases
  <2>6. DenyMatch(s, op) = "yes" => \A r \in Targets(op) : StatementMatch(s, op, r) = "yes"
    BY <1>0, <1>3, <2>1, <2>4, MatchCases
  <2>7. DenyMatch(s, op) = "no" => StatementMatch(s, op, ScopeKey) = "no"
    BY <1>0, <1>4, <2>5, MatchCases
  <2> QED
    BY <1>5, <2>3, <2>6, <2>7
<1>6. CASE op \notin WriteOperations
  <2>1. Targets(op) = {Bucket}
    BY <1>6 DEF Targets, ObjectOperations, AclOperations, ReadOperations, WriteOperations,
                ListOperations, ReadACPOperations, WriteACPOperations
  <2>2. DenyMatch(s, op) = StatementMatch(s, op, Bucket)
    BY <1>6 DEF DenyMatch, StatementMatch
  <2> QED
    BY <1>0, <1>6, <2>1, <2>2, MatchCases
<1> QED
  BY <1>5, <1>6

\* A "yes" denies the operation on every key, or on the bucket.
THEOREM DenyYesSound ==
  ASSUME NEW P \in Policy, NEW op \in AclOperations, NEW kind \in PrincipalKinds,
         EvaluatePolicyOperationDeny(P, op, kind) = "yes"
  PROVE  SurelyDenies(P, op, kind)
<1>1. PICK i \in DOMAIN P : IsDeny(P[i]) /\ DenyMatch(P[i], op) = "yes"
                            /\ P[i].denyCond[kind] = "blocks"
  BY DEF EvaluatePolicyOperationDeny
<1>2. \A r \in Targets(op) : StatementMatch(P[i], op, r) = "yes"
  BY <1>1, StatementAt, DenyMatchCases
<1> QED
  BY <1>1, <1>2 DEF SurelyDenies, MustDeny

\* A "no" leaves the scope's probe key, or the bucket, to someone.
THEOREM DenyNoSound ==
  ASSUME NEW P \in Policy, NEW op \in AclOperations, NEW kind \in PrincipalKinds,
         EvaluatePolicyOperationDeny(P, op, kind) = "no"
  PROVE  ~PossiblyDenies(P, op, kind)
<1> DEFINE r == IF op \in WriteOperations THEN ScopeKey ELSE Bucket
<1>1. r \in Targets(op)
  BY KeyAssumption DEF Targets, ObjectOperations, AclOperations, ReadOperations,
       WriteOperations, ListOperations, ReadACPOperations, WriteACPOperations
<1>2. ASSUME NEW i \in DOMAIN P PROVE ~MayDeny(P[i], op, r, kind)
  <2>1. P[i] \in Statement
    BY StatementAt
  <2>2. P[i].denyCond[kind] \in {"blocks", "passes", "unknown"}
    BY <2>1, StatementFields
  <2>3. IsDeny(P[i]) => \/ DenyMatch(P[i], op) = "no"
                        \/ P[i].denyCond[kind] = "passes"
    BY <2>1, <2>2, DenyMatchCases DEF EvaluatePolicyOperationDeny, Decision
  <2> QED
    BY <2>1, <2>3, DenyMatchCases DEF MayDeny
<1> QED
  BY <1>1, <1>2 DEF PossiblyDenies

(***************************************************************************)
(* Doubt has a cause: of a policy every classifier is sure of, and whose   *)
(* denies speak of all of an allowed pattern or of none of it, every       *)
(* answer is definite.                                                     *)
(***************************************************************************)
LEMMA CertainMatch ==
  ASSUME NEW s \in Statement, CertainStatement(s), NEW op \in Operations, NEW r
  PROVE  /\ ResourceMatch(s, r) # "unknown"
         /\ StatementMatch(s, op, r) \in {"yes", "no"}
<1>1. ResourceMatch(s, r) # "unknown"
  BY DEF ResourceMatch, CertainStatement
<1> QED
  BY <1>1 DEF StatementMatch, AndDecisions, CertainStatement

LEMMA CertainOperation ==
  ASSUME NEW P \in Policy, CertainPolicy(P), NEW op \in Operations, NEW r, NEW pattern,
         \A i \in DOMAIN P :
           IsDeny(P[i]) /\ StatementMatch(P[i], op, r) = "yes" => ~PartialDeny(P[i], pattern)
  PROVE  EvaluatePolicyOperation(P, op, r, pattern) # "unknown"
<1> SUFFICES ASSUME NEW i \in DOMAIN P
             PROVE  ~DoubtfulGrant(P[i], op, r) /\ ~DoubtfulDeny(P[i], op, r, pattern)
  BY DEF EvaluatePolicyOperation
<1>1. P[i] \in Statement /\ CertainStatement(P[i])
  BY StatementAt DEF CertainPolicy
<1>2. StatementMatch(P[i], op, r) # "unknown"
  BY <1>1, CertainMatch
<1> QED
  BY <1>1, <1>2 DEF DoubtfulGrant, DoubtfulDeny, CertainStatement, PrincipalKinds

\* A pattern that is probed is one an Allow lists, so a deny covers it or spares
\* it; one that spares it does not match its probe, which is a resource of it.
LEMMA CertainResources ==
  ASSUME NEW P \in Policy, CertainPolicy(P), NEW op,
         NEW x \in PolicyOperationResources(P, op), NEW i \in DOMAIN P, IsDeny(P[i]),
         StatementMatch(P[i], op, x[1]) = "yes"
  PROVE  ~PartialDeny(P[i], x[2])
<1>1. CASE x = <<BaseResource(op), None>>
  BY <1>1 DEF PartialDeny
<1>2. CASE \E a \in FirstProbed(P, op) : x = <<Probe[PatternAt(P, a)], PatternAt(P, a)>>
  <2>1. PICK a \in ProbedPositions(P, op) : x = <<Probe[PatternAt(P, a)], PatternAt(P, a)>>
    BY <1>2 DEF FirstProbed
  <2> DEFINE p == PatternAt(P, a)
  <2>2. /\ a[1] \in DOMAIN P /\ Offers(P[a[1]], op) /\ op \in ObjectOperations
        /\ p \in ListedPatterns(P[a[1]]) /\ p \in Patterns /\ Probe[p] \in Keys
    BY ProbedPositionFields
  <2>3. AllOrNone(P[i], op, p)
    BY <2>2 DEF CertainPolicy
  <2>4. Probe[p] \in Matches[p]
    BY <2>2, KeyAssumption, TextAssumption
  <2>5. /\ P[i].principal # "no" /\ P[i].action[op] # "no"
        /\ ResourceMatch(P[i], Probe[p]) # "no"
    BY <2>1 DEF StatementMatch, AndDecisions
  <2>6. ~Spares(P[i], op, p)
    <3>1. CertainStatement(P[i])
      BY DEF CertainPolicy
    <3>2. \E q \in ListedPatterns(P[i]) : Probe[p] \in Matches[q]
      BY <2>5, <3>1 DEF ResourceMatch, CertainStatement
    <3> QED BY <2>4, <2>5, <3>2 DEF Spares
  <2> QED
    BY <2>1, <2>3, <2>6 DEF AllOrNone, PartialDeny
<1> QED
  BY <1>1, <1>2 DEF PolicyOperationResources

THEOREM CertainCapability ==
  ASSUME NEW P \in Policy, CertainPolicy(P), NEW ops \in SUBSET Operations
  PROVE  EvaluatePolicyCapability(P, ops) # "unknown"
<1>1. ASSUME NEW op \in ops, NEW x \in PolicyOperationResources(P, op)
      PROVE  EvaluatePolicyOperation(P, op, x[1], x[2]) # "unknown"
  BY CertainResources, CertainOperation
<1> QED
  BY <1>1 DEF EvaluatePolicyCapability, OrDecisions

THEOREM CertainDeny ==
  ASSUME NEW P \in Policy, CertainPolicy(P), NEW op \in AclOperations, NEW kind \in PrincipalKinds
  PROVE  EvaluatePolicyOperationDeny(P, op, kind) \in {"yes", "no"}
<1>1. op \in Operations
  BY DEF Operations
<1>2. ASSUME NEW i \in DOMAIN P, IsDeny(P[i])
      PROVE  DenyMatch(P[i], op) # "unknown" /\ P[i].denyCond[kind] # "unknown"
  <2>1. P[i] \in Statement /\ CertainStatement(P[i]) /\ ScopeMatch(P[i]) # "unknown"
    BY <1>2, StatementAt DEF CertainPolicy
  <2>2. ResourceMatch(P[i], Bucket) # "unknown"
    BY <1>1, <2>1, CertainMatch
  <2> QED
    BY <1>1, <2>1, <2>2 DEF DenyMatch, AndDecisions, CertainStatement
<1> QED
  BY <1>2 DEF EvaluatePolicyOperationDeny

-----------------------------------------------------------------------------
(***************************************************************************)
(* The evidence: what is known is what AWS holds, or nothing.              *)
(***************************************************************************)
Evidence(known, b) == known = Unavailable \/ \E omitted : known = Answer(b, omitted)

EvidenceInv ==
  /\ world \in Worlds
  /\ policy \in {world.policy, Unavailable} /\ acl \in {world.acl, Unavailable}
  /\ Evidence(accountBlock, world.account) /\ Evidence(bucketBlock, world.bucket)

LEMMA WorldFacts ==
  ASSUME world \in Worlds
  PROVE  /\ world.policy \in Policies \cup {Absent, Malformed} /\ world.acl \in Acls
         /\ world.account \in Blocks \cup {Absent} /\ world.bucket \in Blocks \cup {Absent}
         /\ Policies \subseteq Policy
BY AccessAssumption, PoliciesAssumption DEF Worlds

LEMMA BlockedDecisionCases ==
  \A d, b \in Decision :
    /\ BlockedDecision(d, b) \in Decision
    /\ BlockedDecision(d, b) = "yes" <=> d = "yes" /\ b = "no"
    /\ BlockedDecision(d, b) = "no" <=> d = "no" \/ b = "yes"
BY DEF BlockedDecision, Decision

LEMMA KnownCases ==
  \A t \in BOOLEAN : Known(t) \in Decision /\ (Known(t) = "yes" <=> t) /\ (Known(t) = "no" <=> ~t)
BY DEF Known, Decision

----------------------------------------------------------------------------
(***************************************************************************)
(* Public Access Blocks.                                                   *)
(***************************************************************************)
LEMMA WorldBlockFacts ==
  ASSUME NEW b \in Blocks \cup {Absent}, NEW f \in BlockFlags
  PROVE  WorldBlock(b)[f] \in BOOLEAN
BY AccessAssumption DEF WorldBlock

LEMMA AnswerFacts ==
  ASSUME NEW b \in Blocks \cup {Absent}, NEW omitted
  PROVE  /\ Answer(b, omitted) \in BlockAnswer
         /\ \A f \in BlockFlags : Answer(b, omitted)[f] \in {"unknown", Known(WorldBlock(b)[f])}
<1>1. \A f \in BlockFlags : Known(WorldBlock(b)[f]) \in Decision
  BY WorldBlockFacts, KnownCases
<1> QED BY <1>1 DEF Answer, BlockAnswer, Decision

LEMMA BlockValueSound ==
  ASSUME NEW b \in Blocks \cup {Absent}, NEW known, Evidence(known, b), NEW f \in BlockFlags
  PROVE  /\ KnownPublicAccessBlockValue(known, f) \in Decision
         /\ Agrees(KnownPublicAccessBlockValue(known, f), WorldBlock(b)[f])
<1>1. CASE known = Unavailable
  BY <1>1 DEF KnownPublicAccessBlockValue, Decision, Agrees
<1>2. CASE known # Unavailable
  <2>1. PICK omitted : known = Answer(b, omitted)
    BY <1>2 DEF Evidence
  <2>2. known \in BlockAnswer /\ known[f] \in {"unknown", Known(WorldBlock(b)[f])}
    BY <2>1, AnswerFacts
  <2>3. KnownPublicAccessBlockValue(known, f) = known[f]
    BY <1>2 DEF KnownPublicAccessBlockValue
  <2>4. WorldBlock(b)[f] \in BOOLEAN
    BY WorldBlockFacts
  <2> QED BY <2>2, <2>3, <2>4, KnownCases DEF BlockAnswer, Agrees
<1> QED BY <1>1, <1>2

Merged(flag) == MergePublicAccessBlocks(bucketBlock, accountBlock, flag)

\* Both blocks bind: a flag is set if either sets it, and clear if both are
\* known to leave it clear.
LEMMA MergeSound ==
  ASSUME EvidenceInv, NEW f \in BlockFlags
  PROVE  Merged(f) \in Decision /\ Agrees(Merged(f), Blocked(f))
<1>1. /\ KnownPublicAccessBlockValue(bucketBlock, f) \in Decision
      /\ Agrees(KnownPublicAccessBlockValue(bucketBlock, f), WorldBlock(world.bucket)[f])
      /\ KnownPublicAccessBlockValue(accountBlock, f) \in Decision
      /\ Agrees(KnownPublicAccessBlockValue(accountBlock, f), WorldBlock(world.account)[f])
  BY WorldFacts, BlockValueSound DEF EvidenceInv
<1> QED BY <1>1, OrDecisionsCases DEF Merged, MergePublicAccessBlocks, Blocked, Agrees, Decision

----------------------------------------------------------------------------
(***************************************************************************)
(* The policy.                                                             *)
(***************************************************************************)
Permitted == EvaluatePolicyPermissions(policy)

LEMMA PermissionOperationsFacts ==
  ASSUME NEW m \in Permissions
  PROVE  PermissionOperations(m) \subseteq AclOperations /\ PermissionOperations(m) # {}
BY DEF Permissions, PermissionOperations, AclOperations, ListOperations, WriteOperations,
       ReadACPOperations, WriteACPOperations

LEMMA DenyDecision ==
  ASSUME NEW P \in Policy, NEW op \in AclOperations, NEW kind \in PrincipalKinds
  PROVE  EvaluatePolicyOperationDeny(P, op, kind) \in Decision
BY DEF EvaluatePolicyOperationDeny, Decision

\* What is denied is denied for every use of the permission, and what is not
\* leaves a use.
LEMMA AclDeniesSound ==
  ASSUME NEW P \in Policy, NEW kind \in PrincipalKinds, NEW m \in Permissions
  PROVE  LET d == EvaluateACLPolicyDenies(P, kind)[m] IN
         /\ d \in Decision
         /\ d = "yes" => IF m = "FULL_CONTROL"
                         THEN \E op \in PermissionOperations(m) : SurelyDenies(P, op, kind)
                         ELSE \A op \in PermissionOperations(m) : SurelyDenies(P, op, kind)
         /\ d = "no" => IF m = "FULL_CONTROL"
                        THEN \A op \in PermissionOperations(m) : ~PossiblyDenies(P, op, kind)
                        ELSE \E op \in PermissionOperations(m) : ~PossiblyDenies(P, op, kind)
<1> DEFINE D(op) == EvaluatePolicyOperationDeny(P, op, kind)
<1>1. \A op \in AclOperations :
        /\ D(op) \in Decision
        /\ D(op) = "yes" => SurelyDenies(P, op, kind)
        /\ D(op) = "no" => ~PossiblyDenies(P, op, kind)
  BY DenyDecision, DenyYesSound, DenyNoSound
<1>2. PermissionOperations(m) \subseteq AclOperations
  BY PermissionOperationsFacts
<1>3. CASE m = "FULL_CONTROL"
  <2>1. EvaluateACLPolicyDenies(P, kind)[m] = OrDecisions({D(op) : op \in AclOperations})
    BY <1>3 DEF EvaluateACLPolicyDenies, EvaluateAnyPolicyDeny
  <2>2. PermissionOperations(m) = AclOperations
    BY <1>3 DEF PermissionOperations
  <2> HIDE DEF D
  <2> QED BY <1>1, <1>3, <2>1, <2>2, OrDecisionsCases DEF Decision
<1>4. CASE m # "FULL_CONTROL"
  <2>1. EvaluateACLPolicyDenies(P, kind)[m] = AndDecisions({D(op) : op \in PermissionOperations(m)})
    BY <1>4 DEF EvaluateACLPolicyDenies, EvaluatePolicyDenyCapability
  <2> HIDE DEF D
  <2> QED BY <1>1, <1>2, <1>4, <2>1, AndDecisionsCases DEF Decision
<1> QED BY <1>3, <1>4

\* The answer about a public field of the policy.
Opened(field) == CASE field = "list" -> Permitted.list [] field = "read" -> Permitted.read
                   [] field = "write" -> Permitted.write
OpenOperations(field) == CASE field = "list" -> ListOperations [] field = "read" -> ReadOperations
                           [] field = "write" -> WriteOperations

LEMMA OperationSets ==
  /\ ListOperations \subseteq Operations /\ ReadOperations \subseteq Operations
  /\ WriteOperations \subseteq Operations /\ ListOperations \cap ObjectOperations = {}
BY DEF Operations, AclOperations, ObjectOperations, ListOperations, ReadOperations, WriteOperations

LEMMA PermittedCases ==
  ASSUME EvidenceInv
  PROVE  \/ policy \in {Unavailable, Malformed} /\ Permitted = AllPolicyPermissions("unknown")
         \/ policy = Absent /\ world.policy = Absent /\ Permitted = AllPolicyPermissions("no")
         \/ /\ policy = world.policy /\ world.policy \notin {Absent, Malformed} /\ world.policy \in Policy
            /\ Permitted = AnalyzeBucketPolicy(world.policy)
BY WorldFacts, AccessAssumption DEF EvidenceInv, Permitted, EvaluatePolicyPermissions

LEMMA AllPermissionsFacts ==
  ASSUME NEW d
  PROVE  LET all == AllPolicyPermissions(d) IN
         /\ all.list = d /\ all.read = d /\ all.write = d
         /\ \A k \in PrincipalKinds, m \in Permissions : all.denies[k][m] = d
BY DEF AllPolicyPermissions

LEMMA OpenedSound ==
  ASSUME EvidenceInv, NEW field \in {"list", "read", "write"}
  PROVE  /\ Opened(field) \in Decision
         /\ Opened(field) = "yes" =>
              /\ world.policy \notin {Absent, Malformed}
              /\ SurelyPublic(world.policy, OpenOperations(field))
         /\ Opened(field) = "no" /\ (field = "list" \/ WorldProbed) =>
              world.policy = Absent
              \/ (world.policy # Malformed /\ ~PossiblyPublic(world.policy, OpenOperations(field)))
<1>1. CASE policy \in {Unavailable, Malformed} /\ Permitted = AllPolicyPermissions("unknown")
  BY <1>1, AllPermissionsFacts DEF Opened, Decision
<1>2. CASE policy = Absent /\ world.policy = Absent /\ Permitted = AllPolicyPermissions("no")
  BY <1>2, AllPermissionsFacts DEF Opened, Decision
<1>3. CASE /\ policy = world.policy /\ world.policy \notin {Absent, Malformed} /\ world.policy \in Policy
           /\ Permitted = AnalyzeBucketPolicy(world.policy)
  <2>1. Opened(field) = EvaluatePolicyCapability(world.policy, OpenOperations(field))
    BY <1>3 DEF Opened, OpenOperations, AnalyzeBucketPolicy
  <2>2. OpenOperations(field) \in SUBSET Operations
    BY OperationSets DEF OpenOperations
  <2>3. Opened(field) \in Decision
    BY <2>1, OrDecisionsCases DEF EvaluatePolicyCapability
  <2>4. field = "list" \/ WorldProbed => \A op \in OpenOperations(field) : Probed(world.policy, op)
    <3>1. CASE field = "list"
      BY <3>1, OperationSets DEF OpenOperations, Probed
    <3>2. CASE WorldProbed
      BY <1>3, <3>2 DEF WorldProbed, Probed
    <3> QED BY <3>1, <3>2
  <2> QED BY <1>3, <2>1, <2>2, <2>3, <2>4, CapabilityYesSound, CapabilityNoSound
<1> QED BY PermittedCases, <1>1, <1>2, <1>3

LEMMA DeniedSound ==
  ASSUME EvidenceInv, NEW kind \in PrincipalKinds, NEW m \in Permissions
  PROVE  LET d == Permitted.denies[kind][m] IN
         /\ d \in Decision
         /\ d = "yes" => IF m = "FULL_CONTROL"
                         THEN \E op \in PermissionOperations(m) : SurelyDenied(op, kind)
                         ELSE \A op \in PermissionOperations(m) : SurelyDenied(op, kind)
         /\ d = "no" => IF m = "FULL_CONTROL"
                        THEN \A op \in PermissionOperations(m) : ~PossiblyDenied(op, kind)
                        ELSE \E op \in PermissionOperations(m) : ~PossiblyDenied(op, kind)
<1>1. CASE policy \in {Unavailable, Malformed} /\ Permitted = AllPolicyPermissions("unknown")
  BY <1>1, AllPermissionsFacts DEF Decision
<1>2. CASE policy = Absent /\ world.policy = Absent /\ Permitted = AllPolicyPermissions("no")
  <2>1. Permitted.denies[kind][m] = "no"
    BY <1>2, AllPermissionsFacts
  <2>2. \A op : PossiblyDenied(op, kind) = FALSE
    BY <1>2, AccessAssumption DEF PossiblyDenied
  <2> QED BY <2>1, <2>2, PermissionOperationsFacts DEF Decision
<1>3. CASE /\ policy = world.policy /\ world.policy \notin {Absent, Malformed} /\ world.policy \in Policy
           /\ Permitted = AnalyzeBucketPolicy(world.policy)
  <2>1. Permitted.denies[kind][m] = EvaluateACLPolicyDenies(world.policy, kind)[m]
    BY <1>3 DEF AnalyzeBucketPolicy
  <2>2. \A op : /\ SurelyDenied(op, kind) <=> SurelyDenies(world.policy, op, kind)
                /\ PossiblyDenied(op, kind) <=> PossiblyDenies(world.policy, op, kind)
    BY <1>3 DEF SurelyDenied, PossiblyDenied
  <2> QED BY <1>3, <2>1, <2>2, AclDeniesSound
<1> QED BY PermittedCases, <1>1, <1>2, <1>3

----------------------------------------------------------------------------
(***************************************************************************)
(* The ACL, and the fields.                                                *)
(***************************************************************************)
Acled(group, permission) ==
  ACLAllowed(group, permission, acl, Permitted, Merged("IgnorePublicAcls"))

LEMMA AclKnown ==
  ASSUME EvidenceInv, NEW group, NEW m
  PROVE  /\ EvaluateACLPermission(acl, group, m) \in Decision
         /\ EvaluateACLPermission(acl, group, m) = "yes" => Granted(world.acl, group, m)
         /\ EvaluateACLPermission(acl, group, m) = "no" => ~Granted(world.acl, group, m)
<1>1. CASE acl = Unavailable
  BY <1>1 DEF EvaluateACLPermission, Decision
<1>2. CASE acl = world.acl /\ acl # Unavailable
  <2>1. Granted(world.acl, group, m) \in BOOLEAN
    BY DEF Granted
  <2> QED BY <1>2, <2>1, KnownCases DEF EvaluateACLPermission
<1> QED BY <1>1, <1>2 DEF EvidenceInv

\* A grant of the ACL is open to its group if no block ignores it and no deny
\* takes it away.
LEMMA AclSound ==
  ASSUME EvidenceInv, NEW group \in Groups, NEW m \in Permissions
  PROVE  /\ Acled(group, m) \in Decision
         /\ Acled(group, m) = "yes" => ACLSurely(group, m)
         /\ Acled(group, m) = "no" => ~ACLPossibly(group, m)
<1> DEFINE kind == PrincipalKind(group)
           known == EvaluateACLPermission(acl, group, m)
           denied == Permitted.denies[kind][m]
           ignored == Merged("IgnorePublicAcls")
           blocked == ACLBlocked(group, m, Permitted, ignored)
<1>1. kind \in PrincipalKinds
  BY DEF PrincipalKind, PrincipalKinds
<1>2. ignored \in Decision /\ Agrees(ignored, Blocked("IgnorePublicAcls"))
  BY MergeSound DEF BlockFlags
<1>3. /\ denied \in Decision
      /\ denied = "yes" => IF m = "FULL_CONTROL"
                           THEN \E op \in PermissionOperations(m) : SurelyDenied(op, kind)
                           ELSE \A op \in PermissionOperations(m) : SurelyDenied(op, kind)
      /\ denied = "no" => IF m = "FULL_CONTROL"
                          THEN \A op \in PermissionOperations(m) : ~PossiblyDenied(op, kind)
                          ELSE \E op \in PermissionOperations(m) : ~PossiblyDenied(op, kind)
  BY <1>1, DeniedSound
<1>4. /\ blocked \in Decision
      /\ blocked = "yes" => denied = "yes" \/ (group # "LogDelivery" /\ ignored = "yes")
      /\ blocked = "no" => denied = "no" /\ (group # "LogDelivery" => ignored = "no")
  <2>1. blocked = IF group = "LogDelivery" THEN denied ELSE OrDecisions({ignored, denied})
    BY DEF ACLBlocked
  <2> HIDE DEF denied, ignored, blocked
  <2> QED BY <1>2, <1>3, <2>1, OrDecisionsCases DEF Decision
<1>5. /\ known \in Decision
      /\ known = "yes" => Granted(world.acl, group, m)
      /\ known = "no" => ~Granted(world.acl, group, m)
  BY AclKnown
<1>6. Acled(group, m) = BlockedDecision(known, blocked)
  BY DEF Acled, ACLAllowed
<1>7. /\ Acled(group, m) \in Decision
      /\ Acled(group, m) = "yes" => known = "yes" /\ blocked = "no"
      /\ Acled(group, m) = "no" => known = "no" \/ blocked = "yes"
  <2> HIDE DEF known, blocked
  <2> QED BY <1>4, <1>5, <1>6, BlockedDecisionCases
<1>8. ACLSurely(group, m) <=>
        /\ Granted(world.acl, group, m)
        /\ group # "LogDelivery" => ~Blocked("IgnorePublicAcls")
        /\ IF m = "FULL_CONTROL" THEN \A op \in PermissionOperations(m) : ~PossiblyDenied(op, kind)
           ELSE \E op \in PermissionOperations(m) : ~PossiblyDenied(op, kind)
  BY DEF ACLSurely, ACLGives, Usable
<1>9. ACLPossibly(group, m) <=>
        /\ Granted(world.acl, group, m)
        /\ group # "LogDelivery" => ~Blocked("IgnorePublicAcls")
        /\ IF m = "FULL_CONTROL" THEN \A op \in PermissionOperations(m) : ~SurelyDenied(op, kind)
           ELSE \E op \in PermissionOperations(m) : ~SurelyDenied(op, kind)
  BY DEF ACLPossibly, ACLGives, Usable
<1> HIDE DEF kind, known, denied, ignored, blocked
<1>10. ASSUME Acled(group, m) = "yes" PROVE ACLSurely(group, m)
  BY <1>2, <1>3, <1>4, <1>5, <1>7, <1>8, <1>10 DEF Agrees
<1>11. ASSUME Acled(group, m) = "no" PROVE ~ACLPossibly(group, m)
  BY <1>2, <1>3, <1>4, <1>5, <1>7, <1>9, <1>11 DEF Agrees
<1> QED BY <1>7, <1>10, <1>11

Public(field) == BlockedDecision(Opened(field), Merged("RestrictPublicBuckets"))

\* A policy opens what it grants everyone, unless a block restricts it.
LEMMA PublicSound ==
  ASSUME EvidenceInv, NEW field \in {"list", "read", "write"}
  PROVE  /\ Public(field) \in Decision
         /\ Public(field) = "yes" => PolicySurely(OpenOperations(field))
         /\ Public(field) = "no" /\ (field = "list" \/ WorldProbed) => ~PolicyPossibly(OpenOperations(field))
<1>1. /\ Merged("RestrictPublicBuckets") \in Decision
      /\ Agrees(Merged("RestrictPublicBuckets"), Blocked("RestrictPublicBuckets"))
  BY MergeSound DEF BlockFlags
<1>2. Opened(field) \in Decision
  BY OpenedSound
<1>3. /\ Public(field) \in Decision
      /\ Public(field) = "yes" => Opened(field) = "yes" /\ ~Blocked("RestrictPublicBuckets")
      /\ Public(field) = "no" => Opened(field) = "no" \/ Blocked("RestrictPublicBuckets")
  BY <1>1, <1>2, BlockedDecisionCases DEF Public, Agrees
<1> QED BY <1>3, OpenedSound DEF PolicySurely, PolicyPossibly

Access == EvaluateS3Access(policy, acl, bucketBlock, accountBlock)

LEMMA ACLFieldsFacts ==
  /\ \A f \in DOMAIN ACLFields :
       f \notin PublicFields /\ ACLFields[f][1] \in Groups /\ ACLFields[f][2] \in Permissions
  /\ Fields = PublicFields \cup DOMAIN ACLFields
BY DEF ACLFields, PublicFields, Groups, Permissions, Fields

LEMMA AccessFields ==
  /\ Access = [f \in Fields |-> Access[f]]
  /\ Access.AllowPublicList = OrDecisions({Acled("AllUsers", "READ"), Public("list")})
  /\ Access.AllowPublicRead = Public("read")
  /\ Access.AllowPublicWrite = OrDecisions({Acled("AllUsers", "WRITE"), Public("write")})
  /\ \A f \in DOMAIN ACLFields :
       /\ f \notin PublicFields /\ ACLFields[f][1] \in Groups /\ ACLFields[f][2] \in Permissions
       /\ Access[f] = Acled(ACLFields[f][1], ACLFields[f][2])
  /\ Fields = PublicFields \cup DOMAIN ACLFields
<1>1. \A f \in Fields : Access[f] =
        CASE f = "AllowPublicList" -> OrDecisions({Acled("AllUsers", "READ"), Public("list")})
          [] f = "AllowPublicRead" -> Public("read")
          [] f = "AllowPublicWrite" -> OrDecisions({Acled("AllUsers", "WRITE"), Public("write")})
          [] OTHER -> Acled(ACLFields[f][1], ACLFields[f][2])
  BY DEF Access, EvaluateS3Access, Acled, Public, Opened, Permitted, Merged
<1>2. Access = [f \in Fields |-> Access[f]]
  BY DEF Access, EvaluateS3Access
<1> HIDE DEF Access
<1> QED BY <1>1, <1>2, ACLFieldsFacts DEF PublicFields

\* Each field says what is so, if it says anything.
LEMMA AccessFieldSound ==
  ASSUME EvidenceInv, NEW f \in Fields
  PROVE  /\ Access[f] \in Decision
         /\ Access[f] = "yes" => Surely(f)
         /\ Access[f] = "no" /\ (f \in {"AllowPublicRead", "AllowPublicWrite"} => WorldProbed) => ~Possibly(f)
<1>0. "AllUsers" \in Groups /\ {"READ", "WRITE"} \subseteq Permissions
  BY DEF Groups, Permissions
<1>1. CASE f = "AllowPublicList"
  <2>1. Access[f] = OrDecisions({Acled("AllUsers", "READ"), Public("list")})
    BY <1>1, AccessFields
  <2>2. Surely(f) = (ACLSurely("AllUsers", "READ") \/ PolicySurely(ListOperations))
    BY <1>1 DEF Surely
  <2>3. Possibly(f) = (ACLPossibly("AllUsers", "READ") \/ PolicyPossibly(ListOperations))
    BY <1>1 DEF Possibly
  <2>4. OpenOperations("list") = ListOperations
    BY DEF OpenOperations
  <2> QED BY <1>0, <2>1, <2>2, <2>3, <2>4, AclSound, PublicSound, OrDecisionsCases DEF Decision
<1>2. CASE f = "AllowPublicRead"
  <2>1. Access[f] = Public("read")
    BY <1>2, AccessFields
  <2>2. Surely(f) = PolicySurely(ReadOperations) /\ Possibly(f) = PolicyPossibly(ReadOperations)
    BY <1>2 DEF Surely, Possibly
  <2>3. OpenOperations("read") = ReadOperations
    BY DEF OpenOperations
  <2> QED BY <1>2, <2>1, <2>2, <2>3, PublicSound
<1>3. CASE f = "AllowPublicWrite"
  <2>1. Access[f] = OrDecisions({Acled("AllUsers", "WRITE"), Public("write")})
    BY <1>3, AccessFields
  <2>2. Surely(f) = (ACLSurely("AllUsers", "WRITE") \/ PolicySurely(WriteOperations))
    BY <1>3 DEF Surely
  <2>3. Possibly(f) = (ACLPossibly("AllUsers", "WRITE") \/ PolicyPossibly(WriteOperations))
    BY <1>3 DEF Possibly
  <2>4. OpenOperations("write") = WriteOperations
    BY DEF OpenOperations
  <2> QED BY <1>0, <1>3, <2>1, <2>2, <2>3, <2>4, AclSound, PublicSound, OrDecisionsCases DEF Decision
<1>4. CASE f \in DOMAIN ACLFields
  <2>1. /\ f \notin PublicFields /\ ACLFields[f][1] \in Groups /\ ACLFields[f][2] \in Permissions
        /\ Access[f] = Acled(ACLFields[f][1], ACLFields[f][2])
    BY <1>4, AccessFields
  <2>2. /\ Surely(f) = ACLSurely(ACLFields[f][1], ACLFields[f][2])
        /\ Possibly(f) = ACLPossibly(ACLFields[f][1], ACLFields[f][2])
    BY <2>1 DEF Surely, Possibly, PublicFields
  <2> QED BY <2>1, <2>2, AclSound
<1> QED BY <1>1, <1>2, <1>3, <1>4, AccessFields DEF PublicFields

----------------------------------------------------------------------------
(***************************************************************************)
(* Evidence that is missing: a field says what it would say with all of    *)
(* it, or nothing.                                                         *)
(***************************************************************************)
Refines(d, e) == d \in Decision /\ e \in Decision /\ d \in {"unknown", e}

LEMMA DecisionsRefine ==
  ASSUME NEW a, NEW b, NEW c, NEW d, Refines(a, c), Refines(b, d)
  PROVE  Refines(OrDecisions({a, b}), OrDecisions({c, d}))
         /\ Refines(BlockedDecision(a, b), BlockedDecision(c, d))
BY DEF Refines, OrDecisions, BlockedDecision, Decision

FullMerged(flag) ==
  MergePublicAccessBlocks(Answer(world.bucket, {}), Answer(world.account, {}), flag)
FullPermitted == EvaluatePolicyPermissions(world.policy)
FullAccess ==
  EvaluateS3Access(world.policy, world.acl, Answer(world.bucket, {}), Answer(world.account, {}))

LEMMA BlockValueRefines ==
  ASSUME NEW b \in Blocks \cup {Absent}, NEW known, Evidence(known, b), NEW f \in BlockFlags
  PROVE  Refines(KnownPublicAccessBlockValue(known, f),
                 KnownPublicAccessBlockValue(Answer(b, {}), f))
<1>1. /\ Answer(b, {}) # Unavailable /\ Answer(b, {})[f] = Known(WorldBlock(b)[f])
      /\ Answer(b, {})[f] \in Decision
  <2>1. Answer(b, {}) \in BlockAnswer
    BY AnswerFacts
  <2>2. Answer(b, {})[f] = Known(WorldBlock(b)[f])
    BY DEF Answer
  <2> QED BY <2>1, <2>2, AccessAssumption DEF BlockAnswer
<1>2. KnownPublicAccessBlockValue(Answer(b, {}), f) = Known(WorldBlock(b)[f])
  BY <1>1 DEF KnownPublicAccessBlockValue
<1>3. KnownPublicAccessBlockValue(known, f) \in {"unknown", Known(WorldBlock(b)[f])}
  <2>1. CASE known = Unavailable
    BY <2>1 DEF KnownPublicAccessBlockValue
  <2>2. CASE known # Unavailable
    BY <2>2, AnswerFacts DEF Evidence, KnownPublicAccessBlockValue
  <2> QED BY <2>1, <2>2
<1> QED BY <1>1, <1>2, <1>3, BlockValueSound DEF Refines

LEMMA MergeRefines ==
  ASSUME EvidenceInv, NEW f \in BlockFlags
  PROVE  Refines(Merged(f), FullMerged(f))
BY WorldFacts, BlockValueRefines, DecisionsRefine
   DEF EvidenceInv, Merged, FullMerged, MergePublicAccessBlocks

\* A policy permission is a decision, whatever the policy.
LEMMA PermissionDecisions ==
  ASSUME NEW p, p \in Policy \cup {Absent, Malformed, Unavailable}
  PROVE  LET x == EvaluatePolicyPermissions(p) IN
         /\ x.list \in Decision /\ x.read \in Decision /\ x.write \in Decision
         /\ \A k \in PrincipalKinds, m \in Permissions : x.denies[k][m] \in Decision
<1>1. CASE p \in {Unavailable, Malformed, Absent}
  BY <1>1, AllPermissionsFacts DEF EvaluatePolicyPermissions, Decision
<1>2. CASE p \in Policy /\ p \notin {Unavailable, Malformed, Absent}
  <2>1. EvaluatePolicyPermissions(p) = AnalyzeBucketPolicy(p)
    BY <1>2 DEF EvaluatePolicyPermissions
  <2>2. \A ops : EvaluatePolicyCapability(p, ops) \in Decision
    BY OrDecisionsCases DEF EvaluatePolicyCapability
  <2>3. \A k \in PrincipalKinds, m \in Permissions : EvaluateACLPolicyDenies(p, k)[m] \in Decision
    BY <1>2, AclDeniesSound
  <2> QED BY <2>1, <2>2, <2>3 DEF AnalyzeBucketPolicy
<1> QED BY <1>1, <1>2

LEMMA PermittedRefines ==
  ASSUME EvidenceInv
  PROVE  /\ Refines(Permitted.list, FullPermitted.list)
         /\ Refines(Permitted.read, FullPermitted.read)
         /\ Refines(Permitted.write, FullPermitted.write)
         /\ \A k \in PrincipalKinds, m \in Permissions :
              Refines(Permitted.denies[k][m], FullPermitted.denies[k][m])
<1>1. policy \in Policy \cup {Absent, Malformed, Unavailable}
      /\ world.policy \in Policy \cup {Absent, Malformed, Unavailable}
  BY WorldFacts DEF EvidenceInv
<1>2. CASE policy = world.policy
  BY <1>1, <1>2, PermissionDecisions DEF Permitted, FullPermitted, Refines
<1>3. CASE policy = Unavailable
  <2>1. Permitted = AllPolicyPermissions("unknown")
    BY <1>3, AccessAssumption DEF Permitted, EvaluatePolicyPermissions
  <2> QED BY <1>1, <2>1, AllPermissionsFacts, PermissionDecisions DEF FullPermitted, Refines, Decision
<1> QED BY <1>2, <1>3 DEF EvidenceInv

LEMMA AclRefines ==
  ASSUME EvidenceInv, NEW group \in Groups, NEW m \in Permissions
  PROVE  Refines(Acled(group, m),
                 ACLAllowed(group, m, world.acl, FullPermitted, FullMerged("IgnorePublicAcls")))
<1> DEFINE ignored == Merged("IgnorePublicAcls")
           fully == FullMerged("IgnorePublicAcls")
<1>1. Refines(EvaluateACLPermission(acl, group, m), EvaluateACLPermission(world.acl, group, m))
  <2>1. world.acl # Unavailable
    BY WorldFacts, AccessAssumption DEF EvidenceInv
  <2>2. EvaluateACLPermission(world.acl, group, m) \in Decision
    BY <2>1, KnownCases DEF EvaluateACLPermission, Granted
  <2>3. acl \in {world.acl, Unavailable}
    BY DEF EvidenceInv
  <2> QED BY <2>2, <2>3 DEF Refines, EvaluateACLPermission, Decision
<1>2. Refines(ignored, fully)
  BY MergeRefines DEF BlockFlags
<1>3. Refines(ACLBlocked(group, m, Permitted, ignored), ACLBlocked(group, m, FullPermitted, fully))
  <2>1. PrincipalKind(group) \in PrincipalKinds
    BY DEF PrincipalKind, PrincipalKinds
  <2>2. Refines(Permitted.denies[PrincipalKind(group)][m], FullPermitted.denies[PrincipalKind(group)][m])
    BY <2>1, PermittedRefines
  <2> HIDE DEF ignored, fully
  <2> QED BY <1>2, <2>2, DecisionsRefine DEF ACLBlocked
<1> HIDE DEF ignored, fully
<1>4. Refines(BlockedDecision(EvaluateACLPermission(acl, group, m),
                              ACLBlocked(group, m, Permitted, ignored)),
              BlockedDecision(EvaluateACLPermission(world.acl, group, m),
                              ACLBlocked(group, m, FullPermitted, fully)))
  BY <1>1, <1>3, DecisionsRefine
<1> QED BY <1>4 DEF Acled, ACLAllowed, ignored, fully

LEMMA AccessRefines ==
  ASSUME EvidenceInv, NEW f \in Fields
  PROVE  Refines(Access[f], FullAccess[f])
<1> DEFINE restricted == FullMerged("RestrictPublicBuckets")
           acled(group, m) == ACLAllowed(group, m, world.acl, FullPermitted, FullMerged("IgnorePublicAcls"))
<1>1. Refines(Merged("RestrictPublicBuckets"), restricted)
  BY MergeRefines DEF BlockFlags
<1>2. /\ Refines(Public("list"), BlockedDecision(FullPermitted.list, restricted))
      /\ Refines(Public("read"), BlockedDecision(FullPermitted.read, restricted))
      /\ Refines(Public("write"), BlockedDecision(FullPermitted.write, restricted))
  <2> HIDE DEF restricted
  <2> QED BY <1>1, PermittedRefines, DecisionsRefine DEF Public, Opened
<1>3. \A group \in Groups, m \in Permissions : Refines(Acled(group, m), acled(group, m))
  BY AclRefines
<1>4. /\ FullAccess.AllowPublicList =
           OrDecisions({acled("AllUsers", "READ"), BlockedDecision(FullPermitted.list, restricted)})
      /\ FullAccess.AllowPublicRead = BlockedDecision(FullPermitted.read, restricted)
      /\ FullAccess.AllowPublicWrite =
           OrDecisions({acled("AllUsers", "WRITE"), BlockedDecision(FullPermitted.write, restricted)})
      /\ \A g \in DOMAIN ACLFields : FullAccess[g] = acled(ACLFields[g][1], ACLFields[g][2])
  <2>1. \A g \in Fields : FullAccess[g] =
          CASE g = "AllowPublicList" ->
                 OrDecisions({acled("AllUsers", "READ"), BlockedDecision(FullPermitted.list, restricted)})
            [] g = "AllowPublicRead" -> BlockedDecision(FullPermitted.read, restricted)
            [] g = "AllowPublicWrite" ->
                 OrDecisions({acled("AllUsers", "WRITE"), BlockedDecision(FullPermitted.write, restricted)})
            [] OTHER -> acled(ACLFields[g][1], ACLFields[g][2])
    BY DEF FullAccess, EvaluateS3Access, FullPermitted, FullMerged
  <2> HIDE DEF restricted, acled
  <2> QED BY <2>1, ACLFieldsFacts DEF PublicFields
<1> HIDE DEF restricted, acled
<1>5. "AllUsers" \in Groups /\ "READ" \in Permissions /\ "WRITE" \in Permissions
  BY DEF Groups, Permissions
<1>6. CASE f = "AllowPublicList"
  <2>1. Refines(OrDecisions({Acled("AllUsers", "READ"), Public("list")}),
                OrDecisions({acled("AllUsers", "READ"), BlockedDecision(FullPermitted.list, restricted)}))
    BY <1>2, <1>3, <1>5, DecisionsRefine
  <2> QED BY <1>4, <1>6, <2>1, AccessFields
<1>7. CASE f = "AllowPublicRead"
  BY <1>2, <1>4, <1>7, AccessFields
<1>8. CASE f = "AllowPublicWrite"
  <2>1. Refines(OrDecisions({Acled("AllUsers", "WRITE"), Public("write")}),
                OrDecisions({acled("AllUsers", "WRITE"), BlockedDecision(FullPermitted.write, restricted)}))
    BY <1>2, <1>3, <1>5, DecisionsRefine
  <2> QED BY <1>4, <1>8, <2>1, AccessFields
<1>9. CASE f \in DOMAIN ACLFields
  BY <1>3, <1>4, <1>9, AccessFields
<1> QED BY <1>6, <1>7, <1>8, <1>9, AccessFields DEF PublicFields

----------------------------------------------------------------------------
(***************************************************************************)
(* Evidence that is complete: every field is decided.                      *)
(***************************************************************************)
KnownBlock(known) == \A f \in BlockFlags : KnownPublicAccessBlockValue(known, f) # "unknown"

CompleteEvidence ==
  /\ policy \notin {Unavailable, Malformed} /\ acl # Unavailable
  /\ KnownBlock(accountBlock) /\ KnownBlock(bucketBlock)
  /\ policy # Absent => CertainPolicy(policy)

LEMMA DecisionsDecided ==
  ASSUME NEW a \in Decision, NEW b \in Decision, a # "unknown", b # "unknown"
  PROVE  OrDecisions({a, b}) # "unknown" /\ BlockedDecision(a, b) # "unknown"
BY DEF OrDecisions, BlockedDecision, Decision

LEMMA PermittedDecided ==
  ASSUME EvidenceInv, CompleteEvidence
  PROVE  /\ \A field \in {"list", "read", "write"} : Opened(field) # "unknown"
         /\ \A k \in PrincipalKinds, m \in Permissions : Permitted.denies[k][m] # "unknown"
<1>1. CASE policy = Absent
  <2>1. Permitted = AllPolicyPermissions("no")
    BY <1>1 DEF CompleteEvidence, Permitted, EvaluatePolicyPermissions
  <2> QED BY <2>1, AllPermissionsFacts DEF Opened
<1>2. CASE policy # Absent
  <2>1. policy \in Policy /\ CertainPolicy(policy) /\ Permitted = AnalyzeBucketPolicy(policy)
    BY <1>2, PermittedCases, WorldFacts
       DEF CompleteEvidence, Permitted, EvaluatePolicyPermissions, EvidenceInv
  <2>2. \A field \in {"list", "read", "write"} :
          Opened(field) = EvaluatePolicyCapability(policy, OpenOperations(field))
    BY <2>1 DEF Opened, OpenOperations, AnalyzeBucketPolicy
  <2>3. \A field \in {"list", "read", "write"} : OpenOperations(field) \in SUBSET Operations
    BY OperationSets DEF OpenOperations
  <2>4. ASSUME NEW k \in PrincipalKinds, NEW m \in Permissions
        PROVE  Permitted.denies[k][m] # "unknown"
    <3> DEFINE D(op) == EvaluatePolicyOperationDeny(policy, op, k)
    <3>1. \A op \in AclOperations : D(op) \in {"yes", "no"}
      BY <2>1, CertainDeny
    <3>2. PermissionOperations(m) \subseteq AclOperations
      BY PermissionOperationsFacts
    <3>3. Permitted.denies[k][m] \in {OrDecisions({D(op) : op \in AclOperations}),
                                      AndDecisions({D(op) : op \in PermissionOperations(m)})}
      BY <2>1 DEF AnalyzeBucketPolicy, EvaluateACLPolicyDenies, EvaluateAnyPolicyDeny,
                  EvaluatePolicyDenyCapability
    <3> HIDE DEF D
    <3> QED BY <3>1, <3>2, <3>3 DEF OrDecisions, AndDecisions
  <2> QED BY <2>1, <2>2, <2>3, <2>4, CertainCapability
<1> QED BY <1>1, <1>2

LEMMA MergedDecided ==
  ASSUME EvidenceInv, CompleteEvidence, NEW f \in BlockFlags
  PROVE  Merged(f) # "unknown"
BY WorldFacts, BlockValueSound, DecisionsDecided
   DEF EvidenceInv, CompleteEvidence, KnownBlock, Merged, MergePublicAccessBlocks

LEMMA AclDecided ==
  ASSUME EvidenceInv, CompleteEvidence, NEW group \in Groups, NEW m \in Permissions
  PROVE  Acled(group, m) # "unknown"
<1> DEFINE ignored == Merged("IgnorePublicAcls")
           denied == Permitted.denies[PrincipalKind(group)][m]
<1>1. ignored \in Decision /\ ignored # "unknown"
  BY MergeSound, MergedDecided DEF BlockFlags
<1>2. denied \in Decision /\ denied # "unknown"
  BY DeniedSound, PermittedDecided DEF PrincipalKind, PrincipalKinds
<1>3. EvaluateACLPermission(acl, group, m) \in Decision \ {"unknown"}
  BY AclKnown DEF CompleteEvidence, EvaluateACLPermission, Known
<1>4. ACLBlocked(group, m, Permitted, ignored) \in {denied, OrDecisions({ignored, denied})}
  BY DEF ACLBlocked
<1>5. Acled(group, m) =
        BlockedDecision(EvaluateACLPermission(acl, group, m), ACLBlocked(group, m, Permitted, ignored))
  BY DEF Acled, ACLAllowed
<1> HIDE DEF ignored, denied
<1>6. ACLBlocked(group, m, Permitted, ignored) \in Decision \ {"unknown"}
  BY <1>1, <1>2, <1>4, DecisionsDecided, OrDecisionsCases
<1> QED BY <1>3, <1>5, <1>6, DecisionsDecided

LEMMA AccessDecided ==
  ASSUME EvidenceInv, CompleteEvidence, NEW f \in Fields
  PROVE  Access[f] # "unknown"
<1>1. ASSUME NEW field \in {"list", "read", "write"}
      PROVE  Public(field) \in Decision /\ Public(field) # "unknown"
  <2>1. Opened(field) \in Decision /\ Merged("RestrictPublicBuckets") \in Decision
    BY OpenedSound, MergeSound DEF BlockFlags
  <2>2. Opened(field) # "unknown" /\ Merged("RestrictPublicBuckets") # "unknown"
    BY PermittedDecided, MergedDecided DEF BlockFlags
  <2> QED BY <2>1, <2>2, PublicSound, DecisionsDecided DEF Public
<1>2. \A group \in Groups, m \in Permissions : Acled(group, m) \in Decision \ {"unknown"}
  BY AclSound, AclDecided
<1>3. "AllUsers" \in Groups /\ "READ" \in Permissions /\ "WRITE" \in Permissions
  BY DEF Groups, Permissions
<1>4. OrDecisions({Acled("AllUsers", "READ"), Public("list")}) # "unknown"
  BY <1>1, <1>2, <1>3, DecisionsDecided
<1>5. OrDecisions({Acled("AllUsers", "WRITE"), Public("write")}) # "unknown"
  BY <1>1, <1>2, <1>3, DecisionsDecided
<1> QED BY <1>1, <1>2, <1>4, <1>5, AccessFields DEF PublicFields

----------------------------------------------------------------------------
(***************************************************************************)
(* The calls.  While none has failed, what has been asked for is known.    *)
(***************************************************************************)
ProgressInv ==
  errors = {} =>
    /\ pc # "account" => accountBlock # Unavailable
    /\ pc \notin {"account", "policy"} => policy # Unavailable
    /\ pc \in {"bucket", "evaluate", "done"} => acl # Unavailable
    /\ pc \in {"evaluate", "done"} => bucketBlock # Unavailable

IInv == EvidenceInv /\ TypeOK /\ ProgressInv /\ AccessSound /\ EvidenceCounts

LEMMA AccessInitially == Init => IInv
BY DEF Init, IInv, EvidenceInv, Evidence, TypeOK, PossibleBlock, ProgressInv, AccessSound,
       EvidenceCounts, PartialEvidenceAgrees, CompleteEvidenceDecides

\* The section that evaluateS3Access makes of the evidence.
Section == [access |-> Access, block |-> [f \in BlockFlags |-> Merged(f)]]

LEMMA EvaluateReports ==
  ASSUME EvidenceInv, Evaluate
  PROVE  /\ UNCHANGED world /\ Section \in Reports
         /\ report' = NoReport \/ report' = Section
         /\ KnownBlock(accountBlock) => report' = Section
<1>1. Access \in [Fields -> Decision]
  BY AccessFields, AccessFieldSound
<1>2. [f \in BlockFlags |-> Merged(f)] \in BlockAnswer
  BY MergeSound DEF BlockAnswer
<1>3. KnownBlock(accountBlock) => AccessControlHasValues(Access, bucketBlock, accountBlock)
  BY DEF KnownBlock, AccessControlHasValues, BlockFlags
<1>4. /\ UNCHANGED world
      /\ report' = IF AccessControlHasValues(Access, bucketBlock, accountBlock)
                   THEN Section ELSE NoReport
  BY DEF Evaluate, Access, Section, Merged
<1> QED BY <1>1, <1>2, <1>3, <1>4 DEF Reports, Section

LEMMA EvidenceInductive ==
  ASSUME IInv, [Next]_vars
  PROVE  (EvidenceInv /\ TypeOK /\ ProgressInv)'
<1> USE DEF Next, vars, GetAccountPublicAccessBlock, GetBucketPolicy, GetBucketAcl,
            GetPublicAccessBlock, Evaluate, Reported, Fails
<1>1. UNCHANGED world
  OBVIOUS
<1>2. EvidenceInv'
  <2>1. policy' \in {policy, world.policy} /\ acl' \in {acl, world.acl}
    OBVIOUS
  <2>2. /\ accountBlock' = accountBlock \/ \E omitted : accountBlock' = Answer(world.account, omitted)
        /\ bucketBlock' = bucketBlock \/ \E omitted : bucketBlock' = Answer(world.bucket, omitted)
    OBVIOUS
  <2> QED BY <1>1, <2>1, <2>2 DEF IInv, EvidenceInv, Evidence
<1>3. \A omitted : /\ Answer(world.account, omitted) \in BlockAnswer
                   /\ Answer(world.bucket, omitted) \in BlockAnswer
  BY WorldFacts, AnswerFacts DEF IInv, EvidenceInv
<1>4. TypeOK'
  <2>1. accountBlock' \in PossibleBlock /\ bucketBlock' \in PossibleBlock
    BY <1>3 DEF IInv, TypeOK, PossibleBlock
  <2>2. errors' \subseteq {"account", "policy", "acl", "bucket", "document"}
        /\ pc' \in {"account", "policy", "acl", "bucket", "evaluate", "done"}
    BY DEF IInv, TypeOK
  <2>3. report' \in Reports \cup {NoReport}
    BY EvaluateReports DEF IInv, TypeOK
  <2> QED BY <1>2, <2>1, <2>2, <2>3 DEF TypeOK, EvidenceInv
<1>5. ProgressInv'
  <2>1. \A omitted : Answer(world.account, omitted) # Unavailable /\ Answer(world.bucket, omitted) # Unavailable
    BY <1>3, AccessAssumption DEF BlockAnswer
  <2>2. world.policy # Unavailable /\ world.acl # Unavailable
    BY WorldFacts, AccessAssumption DEF IInv, EvidenceInv
  <2> QED BY <2>1, <2>2 DEF IInv, ProgressInv
<1> QED BY <1>2, <1>4, <1>5

LEMMA AccessInductive ==
  ASSUME IInv, [Next]_vars
  PROVE  IInv'
<1>1. (EvidenceInv /\ TypeOK /\ ProgressInv)'
  BY EvidenceInductive
<1>2. CASE UNCHANGED <<world, report>> /\ pc' # "done"
  <2>1. AccessSound'
    BY <1>2 DEF IInv, AccessSound, Surely, Possibly, ACLSurely, ACLPossibly, ACLGives, Usable,
         PossiblyDenied, SurelyDenied, PolicySurely, PolicyPossibly, Blocked, WorldProbed
  <2>2. EvidenceCounts'
    BY <1>2 DEF IInv, EvidenceCounts, PartialEvidenceAgrees, CompleteEvidenceDecides
  <2> QED BY <1>1, <2>1, <2>2 DEF IInv
<1>3. CASE UNCHANGED vars
  BY <1>1, <1>3 DEF IInv, vars, AccessSound, Surely, Possibly, ACLSurely, ACLPossibly, ACLGives,
     Usable, PossiblyDenied, SurelyDenied, PolicySurely, PolicyPossibly, Blocked, WorldProbed,
     EvidenceCounts, PartialEvidenceAgrees, CompleteEvidenceDecides
<1>4. CASE Evaluate
  <2>1. UNCHANGED world /\ (report' # NoReport => report' = Section)
    BY <1>4, EvaluateReports DEF IInv
  <2>2. AccessSound'
    <3>1. \A f \in Fields :
            /\ Access[f] = "yes" => Surely(f)'
            /\ Access[f] = "no" /\ (f \in {"AllowPublicRead", "AllowPublicWrite"} => WorldProbed') => ~Possibly(f)'
      BY <2>1, AccessFieldSound DEF IInv, Surely, Possibly, ACLSurely, ACLPossibly, ACLGives, Usable,
         PossiblyDenied, SurelyDenied, PolicySurely, PolicyPossibly, Blocked, WorldProbed
    <3>2. \A f \in BlockFlags : Agrees(Merged(f), Blocked(f)')
      BY <2>1, MergeSound DEF IInv, Blocked
    <3> QED BY <2>1, <3>1, <3>2 DEF AccessSound, Section
  <2>3. PartialEvidenceAgrees'
    BY <2>1, AccessRefines DEF IInv, PartialEvidenceAgrees, Section, Refines, FullAccess
  <2>4. CompleteEvidenceDecides'
    <3> SUFFICES ASSUME errors' = {},
                        \A f \in BlockFlags : "unknown" \notin {accountBlock[f], bucketBlock[f]},
                        policy # Absent => CertainPolicy(policy)
                 PROVE  report' # NoReport /\ \A f \in Fields : report'.access[f] # "unknown"
      BY <1>4 DEF CompleteEvidenceDecides, Evaluate
    <3>1. errors = {} /\ policy # Malformed /\ pc = "evaluate"
      BY <1>4 DEF Evaluate, Fails
    <3>2. CompleteEvidence
      BY <3>1 DEF IInv, ProgressInv, CompleteEvidence, KnownBlock, KnownPublicAccessBlockValue
    <3>3. report' = Section /\ Section \in Reports
      BY <1>4, <3>2, EvaluateReports DEF IInv, CompleteEvidence
    <3> QED BY <3>2, <3>3, AccessDecided, ReportAssumption DEF IInv, Section
  <2> QED BY <1>1, <2>2, <2>3, <2>4 DEF IInv, EvidenceCounts
<1> QED BY <1>2, <1>3, <1>4 DEF Next, vars, GetAccountPublicAccessBlock, GetBucketPolicy, GetBucketAcl,
           GetPublicAccessBlock, Reported

LEMMA AccessInvariant == Spec => []IInv
<1>1. IInv /\ [Next]_vars => IInv'
  BY AccessInductive
<1> QED BY <1>1, AccessInitially, PTL DEF Spec

\* The scan of one bucket keeps its type, whatever the calls answer.
THEOREM AccessTypeCorrect == Spec => []TypeOK
<1>1. IInv => TypeOK
  BY DEF IInv
<1> QED BY <1>1, AccessInvariant, PTL

\* Whatever a bucket's policy, ACL and blocks are, whichever calls fail and
\* whatever their answers leave out: what the report says of the access is so.
THEOREM AccessReportSound == Spec => []AccessSound
<1>1. IInv => AccessSound
  BY DEF IInv
<1> QED BY <1>1, AccessInvariant, PTL

\* A failed call or an answer that leaves out a flag can only make a field
\* unknown; and with complete answers about a policy that leaves nothing in
\* doubt, no field is.
THEOREM AccessEvidenceCounts == Spec => []EvidenceCounts
<1>1. IInv => EvidenceCounts
  BY DEF IInv
<1> QED BY <1>1, AccessInvariant, PTL

-----------------------------------------------------------------------------
(***************************************************************************)
(* The loops of policy.go.  The evaluation asks a question of one policy   *)
(* and shares no state with the calls above.                               *)
(***************************************************************************)
(***************************************************************************)
(* The inductive invariant.  ScanComputesAnswer alone says nothing before  *)
(* the end: what makes it true is that the flags tell exactly what the     *)
(* statements passed so far are, and the outer flag exactly what the tasks *)
(* done so far answered.                                                   *)
(***************************************************************************)
TaskAnswer(P, q, t) ==
  IF q.mode = "grant" THEN EvaluatePolicyOperation(P, t[1], t[2], t[3])
  ELSE EvaluatePolicyOperationDeny(P, t[1], q.kind)

Passed(P, n) == {k \in DOMAIN P : k < n}

GrantFlags(P, t, n, f) ==
  /\ \A k \in Passed(P, n) : ~SureDeny(P[k], t[1], t[2], t[3])
  /\ "allowed" \in f <=> \E k \in Passed(P, n) : SureGrant(P[k], t[1], t[2])
  /\ "unknownAllow" \in f <=> \E k \in Passed(P, n) : DoubtfulGrant(P[k], t[1], t[2])
  /\ "unknownDeny" \in f <=> \E k \in Passed(P, n) : DoubtfulDeny(P[k], t[1], t[2], t[3])

Blocking(s, op, kind) ==
  IsDeny(s) /\ DenyMatch(s, op) = "yes" /\ s.denyCond[kind] = "blocks"

Uncertain(s, op, kind) ==
  /\ IsDeny(s)
  /\ \/ DenyMatch(s, op) = "unknown"
     \/ DenyMatch(s, op) = "yes" /\ s.denyCond[kind] = "unknown"

DenyFlags(P, t, kind, n, f) ==
  /\ \A k \in Passed(P, n) : ~Blocking(P[k], t[1], kind)
  /\ f # {} <=> \E k \in Passed(P, n) : Uncertain(P[k], t[1], kind)

TaskInv ==
  /\ remaining \subseteq Tasks(statements, question)
  /\ task # Idle => task \in Tasks(statements, question) \ remaining

FlagsInv ==
  task # Idle /\ verdict = Pending =>
    /\ question.mode = "grant" => GrantFlags(statements, task, next, flags)
    /\ question.mode # "grant" => DenyFlags(statements, task, question.kind, next, flags)

Done == Tasks(statements, question) \ (remaining \cup {task})

DoneInv ==
  verdict = Pending =>
    /\ unknown <=> \E t \in Done : TaskAnswer(statements, question, t) = "unknown"
    /\ \A t \in Done : TaskAnswer(statements, question, t) # Settling(question)

ScanInv == ScanTypeOK /\ TaskInv /\ FlagsInv /\ DoneInv /\ ScanComputesAnswer

(***************************************************************************)
(* Tasks and questions.                                                    *)
(***************************************************************************)
LEMMA QuestionFields ==
  ASSUME NEW q \in Questions
  PROVE  /\ q.mode \in {"grant", "denyAll", "denyAny"}
         /\ q.ops \subseteq Operations
         /\ q.kind \in PrincipalKinds
         /\ q.mode # "grant" => q.ops \subseteq AclOperations
         /\ q.mode = "denyAny" => q.ops = AclOperations
BY DEF Questions, PrincipalKinds, Operations, ObjectOperations, AclOperations, ListOperations,
       ReadOperations, WriteOperations, ReadACPOperations, WriteACPOperations

LEMMA ResourceTyped ==
  ASSUME NEW P \in Policy, NEW op, NEW x \in PolicyOperationResources(P, op)
  PROVE  x[1] \in Resources /\ x[2] \in Patterns \cup {None}
<1>1. CASE x = <<BaseResource(op), None>>
  BY <1>1, KeyAssumption DEF BaseResource, Resources
<1>2. CASE \E a \in FirstProbed(P, op) : x = <<Probe[PatternAt(P, a)], PatternAt(P, a)>>
  <2>1. PICK a \in ProbedPositions(P, op) : x = <<Probe[PatternAt(P, a)], PatternAt(P, a)>>
    BY <1>2 DEF FirstProbed
  <2> QED
    BY <2>1, ProbedPositionFields DEF Resources
<1> QED
  BY <1>1, <1>2 DEF PolicyOperationResources

LEMMA TasksTyped ==
  ASSUME NEW P \in Policy, NEW q \in Questions
  PROVE  Tasks(P, q) \subseteq Task
<1> SUFFICES ASSUME NEW t \in Tasks(P, q) PROVE t \in Task
  OBVIOUS
<1>1. CASE q.mode = "grant"
  <2>1. PICK op \in q.ops : t \in {<<op, x[1], x[2]>> : x \in PolicyOperationResources(P, op)}
    BY <1>1 DEF Tasks
  <2>2. PICK x \in PolicyOperationResources(P, op) : t = <<op, x[1], x[2]>>
    BY <2>1
  <2> QED
    BY <2>2, QuestionFields, ResourceTyped DEF Task
<1>2. CASE q.mode # "grant"
  <2>1. PICK op \in q.ops : t = <<op, BaseResource(op), None>>
    BY <1>2 DEF Tasks
  <2> QED
    BY <2>1, QuestionFields, KeyAssumption DEF Task, BaseResource, Resources
<1> QED
  BY <1>1, <1>2

LEMMA TaskFields ==
  ASSUME NEW t \in Task
  PROVE  t[1] \in Operations /\ t # Idle
<1>1. PICK a \in Operations, b \in Resources, c \in Patterns \cup {None} : t = <<a, b, c>>
  BY DEF Task
<1> QED
  BY <1>1 DEF Idle

LEMMA TaskAnswerIsDecision ==
  ASSUME NEW P, NEW q, NEW t
  PROVE  TaskAnswer(P, q, t) \in Decision
BY DEF TaskAnswer, EvaluatePolicyOperation, EvaluatePolicyOperationDeny, Decision

(***************************************************************************)
(* The answer combines the answers of the tasks.                           *)
(***************************************************************************)
LEMMA AnswerOfTasks ==
  ASSUME NEW P \in Policy, NEW q \in Questions
  PROVE  LET answers == {TaskAnswer(P, q, t) : t \in Tasks(P, q)} IN
         AnswerTo(P, q) = IF q.mode = "denyAll" THEN AndDecisions(answers)
                        ELSE OrDecisions(answers)
<1> DEFINE answers == {TaskAnswer(P, q, t) : t \in Tasks(P, q)}
<1>1. CASE q.mode = "grant"
  <2> DEFINE formula == UNION {{EvaluatePolicyOperation(P, op, x[1], x[2]) :
                                  x \in PolicyOperationResources(P, op)} : op \in q.ops}
  <2>1. ASSUME NEW op \in q.ops, NEW x \in PolicyOperationResources(P, op)
        PROVE  EvaluatePolicyOperation(P, op, x[1], x[2]) \in answers
    <3>1. <<op, x[1], x[2]>> \in Tasks(P, q)
      BY <1>1 DEF Tasks
    <3>2. TaskAnswer(P, q, <<op, x[1], x[2]>>) = EvaluatePolicyOperation(P, op, x[1], x[2])
      BY <1>1 DEF TaskAnswer
    <3> QED
      BY <3>1, <3>2
  <2>2. ASSUME NEW t \in Tasks(P, q) PROVE TaskAnswer(P, q, t) \in formula
    <3>1. PICK op \in q.ops : t \in {<<op, x[1], x[2]>> : x \in PolicyOperationResources(P, op)}
      BY <1>1 DEF Tasks
    <3>2. PICK x \in PolicyOperationResources(P, op) : t = <<op, x[1], x[2]>>
      BY <3>1
    <3>3. TaskAnswer(P, q, t) = EvaluatePolicyOperation(P, op, x[1], x[2])
      BY <1>1, <3>2 DEF TaskAnswer
    <3> QED
      BY <3>3
  <2>3. formula = answers
    BY <2>1, <2>2
  <2> QED
    BY <1>1, <2>3 DEF AnswerTo, EvaluatePolicyCapability
<1>2. CASE q.mode # "grant"
  <2> DEFINE formula == {EvaluatePolicyOperationDeny(P, op, q.kind) : op \in q.ops}
  <2>1. ASSUME NEW op \in q.ops
        PROVE  EvaluatePolicyOperationDeny(P, op, q.kind) \in answers
    <3>1. <<op, BaseResource(op), None>> \in Tasks(P, q)
      BY <1>2 DEF Tasks
    <3>2. TaskAnswer(P, q, <<op, BaseResource(op), None>>)
            = EvaluatePolicyOperationDeny(P, op, q.kind)
      BY <1>2 DEF TaskAnswer
    <3> QED
      BY <3>1, <3>2
  <2>2. ASSUME NEW t \in Tasks(P, q) PROVE TaskAnswer(P, q, t) \in formula
    <3>1. PICK op \in q.ops : t = <<op, BaseResource(op), None>>
      BY <1>2 DEF Tasks
    <3>2. TaskAnswer(P, q, t) = EvaluatePolicyOperationDeny(P, op, q.kind)
      BY <1>2, <3>1 DEF TaskAnswer
    <3> QED
      BY <3>2
  <2>3. formula = answers
    BY <2>1, <2>2
  <2>4. CASE q.mode = "denyAll"
    BY <2>3, <2>4 DEF AnswerTo, EvaluatePolicyDenyCapability
  <2>5. CASE q.mode = "denyAny"
    BY <2>3, <2>5, QuestionFields DEF AnswerTo, EvaluateAnyPolicyDeny
  <2> QED
    BY <1>2, <2>4, <2>5, QuestionFields
<1> QED
  BY <1>1, <1>2

\* One answer that settles the question settles it.
LEMMA SettledAnswer ==
  ASSUME NEW P \in Policy, NEW q \in Questions, NEW t \in Tasks(P, q),
         TaskAnswer(P, q, t) = Settling(q)
  PROVE  AnswerTo(P, q) = Settling(q)
<1> DEFINE answers == {TaskAnswer(P, q, u) : u \in Tasks(P, q)}
<1>1. Settling(q) \in answers
  OBVIOUS
<1> QED
  BY <1>1, AnswerOfTasks, AndDecisionsCases, OrDecisionsCases DEF Settling

\* Answers none of which settles it leave it unknown, or otherwise.
LEMMA UnsettledAnswer ==
  ASSUME NEW P \in Policy, NEW q \in Questions,
         \A t \in Tasks(P, q) : TaskAnswer(P, q, t) # Settling(q)
  PROVE  AnswerTo(P, q) = IF \E t \in Tasks(P, q) : TaskAnswer(P, q, t) = "unknown"
                        THEN "unknown" ELSE Otherwise(q)
<1> DEFINE answers == {TaskAnswer(P, q, t) : t \in Tasks(P, q)}
<1>1. Settling(q) \notin answers
  OBVIOUS
<1>2. "unknown" \in answers <=> \E t \in Tasks(P, q) : TaskAnswer(P, q, t) = "unknown"
  OBVIOUS
<1> HIDE DEF answers
<1>3. CASE q.mode = "denyAll"
  <2>1. AnswerTo(P, q) = AndDecisions(answers)
    BY <1>3, AnswerOfTasks DEF answers
  <2> QED
    BY <1>1, <1>2, <1>3, <2>1 DEF AndDecisions, Settling, Otherwise
<1>4. CASE q.mode # "denyAll"
  <2>1. AnswerTo(P, q) = OrDecisions(answers)
    BY <1>4, AnswerOfTasks DEF answers
  <2> QED
    BY <1>1, <1>2, <1>4, <2>1 DEF OrDecisions, Settling, Otherwise
<1> QED
  BY <1>3, <1>4

(***************************************************************************)
(* The flags after one more statement, and after all of them.              *)
(***************************************************************************)
LEMMA PassedNext ==
  ASSUME NEW P \in Policy, NEW n \in DOMAIN P
  PROVE  Passed(P, n + 1) = Passed(P, n) \cup {n} /\ n \notin Passed(P, n)
BY DEF Passed, Policy

LEMMA PassedAll ==
  ASSUME NEW P \in Policy
  PROVE  Passed(P, Len(P) + 1) = DOMAIN P /\ Passed(P, 1) = {}
<1>1. Len(P) \in Nat /\ DOMAIN P = 1 .. Len(P)
  BY DEF Policy
<1>2. \A k \in DOMAIN P : k < Len(P) + 1 /\ ~(k < 1)
  BY <1>1
<1> QED
  BY <1>2 DEF Passed

LEMMA GrantFlagsNext ==
  ASSUME NEW P \in Policy, NEW n \in DOMAIN P, NEW t, NEW f, NEW more,
         GrantFlags(P, t, n, f),
         ~SureDeny(P[n], t[1], t[2], t[3]),
         "allowed" \in more <=> SureGrant(P[n], t[1], t[2]),
         "unknownAllow" \in more <=> DoubtfulGrant(P[n], t[1], t[2]),
         "unknownDeny" \in more <=> DoubtfulDeny(P[n], t[1], t[2], t[3])
  PROVE  GrantFlags(P, t, n + 1, f \cup more)
BY PassedNext DEF GrantFlags

LEMMA DenyFlagsNext ==
  ASSUME NEW P \in Policy, NEW n \in DOMAIN P, NEW t, NEW kind, NEW f, NEW more,
         DenyFlags(P, t, kind, n, f),
         ~Blocking(P[n], t[1], kind),
         more # {} <=> Uncertain(P[n], t[1], kind)
  PROVE  DenyFlags(P, t, kind, n + 1, f \cup more)
BY PassedNext DEF DenyFlags

LEMMA GrantFlagsEnd ==
  ASSUME NEW P \in Policy, NEW t, NEW f \in SUBSET Flags, GrantFlags(P, t, Len(P) + 1, f)
  PROVE  EvaluatePolicyOperation(P, t[1], t[2], t[3]) =
           IF "unknownDeny" \in f THEN "unknown"
           ELSE IF "allowed" \in f THEN "yes"
           ELSE IF "unknownAllow" \in f THEN "unknown" ELSE "no"
BY PassedAll DEF GrantFlags, EvaluatePolicyOperation

LEMMA DenyFlagsEnd ==
  ASSUME NEW P \in Policy, NEW t, NEW kind, NEW f, DenyFlags(P, t, kind, Len(P) + 1, f)
  PROVE  EvaluatePolicyOperationDeny(P, t[1], kind) = IF f = {} THEN "no" ELSE "unknown"
BY PassedAll DEF DenyFlags, EvaluatePolicyOperationDeny, Blocking, Uncertain

(***************************************************************************)
(* The invariant holds initially.                                          *)
(***************************************************************************)
LEMMA InitIInv == ScanInit => ScanInv
<1> SUFFICES ASSUME ScanInit PROVE ScanInv
  OBVIOUS
<1>1. statements \in Policy
  BY PoliciesAssumption DEF ScanInit
<1>2. ScanTypeOK
  <2>1. remaining \subseteq Task
    BY <1>1, TasksTyped DEF ScanInit
  <2>2. next \in 1 .. Len(statements) + 1
    BY <1>1 DEF ScanInit, Policy
  <2> QED
    BY <1>1, <2>1, <2>2 DEF ScanInit, ScanTypeOK
<1>3. TaskInv /\ FlagsInv
  BY DEF ScanInit, TaskInv, FlagsInv
<1>4. Done = {} /\ DoneInv
  BY DEF ScanInit, Done, DoneInv
<1>5. ScanComputesAnswer
  BY DEF ScanInit, ScanComputesAnswer
<1> QED
  BY <1>2, <1>3, <1>4, <1>5 DEF ScanInv

(***************************************************************************)
(* A scan goes on: the flags of the next statement are the ones it sets.   *)
(***************************************************************************)
LEMMA ContinueStep ==
  ASSUME ScanInv, task # Idle, verdict = Pending, next \in DOMAIN statements,
         NEW more \in SUBSET Flags, Continue(more),
         question.mode = "grant" => GrantFlags(statements, task, next + 1, flags \cup more),
         question.mode # "grant" =>
           DenyFlags(statements, task, question.kind, next + 1, flags \cup more)
  PROVE  ScanInv'
<1>1. ScanTypeOK'
  <2>1. next' \in 1 .. Len(statements) + 1
    <3>1. Len(statements) \in Nat /\ DOMAIN statements = 1 .. Len(statements)
      BY DEF ScanInv, ScanTypeOK, Policy
    <3> QED
      BY <3>1 DEF Continue
  <2> QED
    BY <2>1 DEF ScanInv, ScanTypeOK, Continue
<1>2. TaskInv'
  BY DEF ScanInv, TaskInv, Continue
<1>3. FlagsInv'
  BY DEF FlagsInv, Continue
<1>4. DoneInv'
  BY DEF ScanInv, DoneInv, Done, Continue
<1>5. ScanComputesAnswer'
  BY DEF ScanInv, ScanComputesAnswer, Continue
<1> QED
  BY <1>1, <1>2, <1>3, <1>4, <1>5 DEF ScanInv

(***************************************************************************)
(* A scan returns the answer of its task: the task joins the ones done, or *)
(* settles the question.                                                   *)
(***************************************************************************)
LEMMA ReturnStep ==
  ASSUME ScanInv, task # Idle, verdict = Pending,
         Return(TaskAnswer(statements, question, task))
  PROVE  ScanInv'
<1> DEFINE d == TaskAnswer(statements, question, task)
<1>1. d \in Decision /\ Pending \notin Decision
  BY TaskAnswerIsDecision DEF Decision, Pending
<1>2. task \in Tasks(statements, question) /\ task \notin remaining
  BY DEF ScanInv, TaskInv
<1>3. UNCHANGED <<statements, question, remaining, next, flags>> /\ task' = Idle
  BY DEF Return
<1>4. CASE d = Settling(question)
  <2>1. verdict' = d /\ unknown' = unknown
    BY <1>4 DEF Return
  <2>2. ScanTypeOK'
    BY <1>1, <1>3, <2>1 DEF ScanInv, ScanTypeOK
  <2>3. TaskInv' /\ FlagsInv'
    BY <1>3 DEF ScanInv, TaskInv, FlagsInv
  <2>4. DoneInv'
    BY <1>1, <2>1 DEF DoneInv
  <2>5. ScanComputesAnswer'
    <3>1. statements \in Policy /\ question \in Questions
      BY DEF ScanInv, ScanTypeOK
    <3>2. AnswerTo(statements, question) = d
      BY <1>2, <1>4, <3>1, SettledAnswer
    <3> QED
      BY <1>3, <2>1, <3>2 DEF ScanComputesAnswer
  <2> QED
    BY <2>2, <2>3, <2>4, <2>5 DEF ScanInv
<1>5. CASE d # Settling(question)
  <2>1. verdict' = Pending /\ unknown' = (unknown \/ d = "unknown")
    BY <1>5 DEF Return
  <2>2. ScanTypeOK'
    BY <1>3, <2>1 DEF ScanInv, ScanTypeOK
  <2>3. TaskInv' /\ FlagsInv'
    BY <1>3 DEF ScanInv, TaskInv, FlagsInv
  <2>4. Done' = Done \cup {task}
    <3>1. Idle \notin Tasks(statements, question)
      BY TasksTyped, TaskFields DEF ScanInv, ScanTypeOK
    <3> QED
      BY <1>2, <1>3, <3>1 DEF Done
  <2>5. DoneInv'
    <3>1. /\ unknown <=> \E t \in Done : TaskAnswer(statements, question, t) = "unknown"
          /\ \A t \in Done : TaskAnswer(statements, question, t) # Settling(question)
      BY DEF ScanInv, DoneInv
    <3>2. unknown' <=> \E t \in Done' : TaskAnswer(statements, question, t) = "unknown"
      BY <2>1, <2>4, <3>1
    <3>3. \A t \in Done' : TaskAnswer(statements, question, t) # Settling(question)
      BY <1>5, <2>4, <3>1
    <3> QED
      BY <1>3, <3>2, <3>3 DEF DoneInv
  <2>6. ScanComputesAnswer'
    BY <2>1 DEF ScanComputesAnswer
  <2> QED
    BY <2>2, <2>3, <2>5, <2>6 DEF ScanInv
<1> QED
  BY <1>4, <1>5

(***************************************************************************)
(* The outer loop: it starts a task, or ends.                              *)
(***************************************************************************)
LEMMA NextTaskStep ==
  ASSUME ScanInv, NextTask
  PROVE  ScanInv'
<1>1. PICK t \in remaining : task' = t /\ remaining' = remaining \ {t}
  BY DEF NextTask
<1>2. /\ task = Idle /\ verdict = Pending /\ next' = 1 /\ flags' = {}
      /\ UNCHANGED <<statements, question, unknown, verdict>>
  BY DEF NextTask
<1>3. statements \in Policy /\ t \in Task /\ t \in Tasks(statements, question)
  BY DEF ScanInv, ScanTypeOK, TaskInv
<1>4. ScanTypeOK'
  <2>1. next' \in 1 .. Len(statements) + 1
    BY <1>2, <1>3 DEF Policy
  <2> QED
    BY <1>1, <1>2, <1>3, <2>1 DEF ScanInv, ScanTypeOK
<1>5. TaskInv'
  BY <1>1, <1>2, <1>3 DEF ScanInv, TaskInv
<1>6. FlagsInv'
  <2>1. Passed(statements, 1) = {}
    BY <1>3, PassedAll
  <2> QED
    BY <1>2, <2>1 DEF FlagsInv, GrantFlags, DenyFlags
<1>7. Done' = Done
  <2>1. Idle \notin Tasks(statements, question)
    BY TasksTyped, TaskFields DEF ScanInv, ScanTypeOK
  <2> QED
    BY <1>1, <1>2, <2>1 DEF Done
<1>8. DoneInv' /\ ScanComputesAnswer'
  BY <1>2, <1>7 DEF ScanInv, DoneInv, ScanComputesAnswer
<1> QED
  BY <1>4, <1>5, <1>6, <1>8 DEF ScanInv

LEMMA ExhaustedStep ==
  ASSUME ScanInv, Exhausted
  PROVE  ScanInv'
<1>1. /\ task = Idle /\ verdict = Pending /\ remaining = {}
      /\ verdict' = IF unknown THEN "unknown" ELSE Otherwise(question)
      /\ UNCHANGED <<statements, question, remaining, task, next, flags, unknown>>
  BY DEF Exhausted
<1>2. statements \in Policy /\ question \in Questions /\ unknown \in BOOLEAN
  BY DEF ScanInv, ScanTypeOK
<1>3. Done = Tasks(statements, question)
  <2>1. Idle \notin Tasks(statements, question)
    BY <1>2, TasksTyped, TaskFields
  <2> QED
    BY <1>1, <2>1 DEF Done
<1>4. /\ unknown <=> \E t \in Tasks(statements, question) : TaskAnswer(statements, question, t) = "unknown"
      /\ \A t \in Tasks(statements, question) : TaskAnswer(statements, question, t) # Settling(question)
  BY <1>1, <1>3 DEF ScanInv, DoneInv
<1>5. verdict' = AnswerTo(statements, question)
  BY <1>1, <1>2, <1>4, UnsettledAnswer
<1>6. verdict' \in Decision /\ verdict' # Pending
  BY <1>1, <1>2 DEF Otherwise, Decision, Pending
<1>7. ScanTypeOK'
  BY <1>1, <1>6 DEF ScanInv, ScanTypeOK
<1>8. TaskInv' /\ FlagsInv' /\ DoneInv' /\ ScanComputesAnswer'
  BY <1>1, <1>5, <1>6 DEF ScanInv, TaskInv, FlagsInv, DoneInv, ScanComputesAnswer
<1> QED
  BY <1>7, <1>8 DEF ScanInv

(***************************************************************************)
(* evaluatePolicyOperation: one statement, and the end of the scan.        *)
(***************************************************************************)
LEMMA ScanStatementStep ==
  ASSUME ScanInv, ScanStatement
  PROVE  ScanInv'
<1> DEFINE s == statements[next]
           op == task[1]
           r == task[2]
           p == task[3]
<1>1. /\ task # Idle /\ verdict = Pending /\ question.mode = "grant"
      /\ next \in DOMAIN statements
  BY DEF ScanStatement, Scanning
<1>2. statements \in Policy /\ s \in Statement /\ op \in Operations
  BY <1>1, StatementAt, TaskFields DEF ScanInv, ScanTypeOK
<1>3. /\ s.effect \in {"Allow", "Deny", "Other"}
      /\ s.allowCond \in {"public", "restricted", "unknown"}
      /\ s.denyCond["anonymous"] \in {"blocks", "passes", "unknown"}
  BY <1>2, StatementFields DEF PrincipalKinds
<1>4. GrantFlags(statements, task, next, flags)
  BY <1>1 DEF ScanInv, FlagsInv
<1>5. ASSUME NEW more \in SUBSET Flags, Continue(more),
             ~SureDeny(s, op, r, p),
             "allowed" \in more <=> SureGrant(s, op, r),
             "unknownAllow" \in more <=> DoubtfulGrant(s, op, r),
             "unknownDeny" \in more <=> DoubtfulDeny(s, op, r, p)
      PROVE  ScanInv'
  <2>1. GrantFlags(statements, task, next + 1, flags \cup more)
    BY <1>1, <1>2, <1>4, <1>5, GrantFlagsNext
  <2> QED
    BY <1>1, <1>5, <2>1, ContinueStep
<1>6. CASE UnmatchedStatement(s)
  <2>1. Continue({}) /\ StatementMatch(s, op, r) = "no"
    BY <1>6 DEF UnmatchedStatement
  <2> QED
    BY <1>5, <2>1 DEF SureDeny, SureGrant, DoubtfulGrant, DoubtfulDeny
<1>7. CASE DoubtfulStatement(s)
  <2> DEFINE more == IF IsDeny(s) THEN {"unknownDeny"} ELSE {"unknownAllow"}
  <2>1. Continue(more) /\ StatementMatch(s, op, r) = "unknown" /\ more \subseteq Flags
    BY <1>7 DEF DoubtfulStatement, Flags
  <2> QED
    BY <1>5, <2>1 DEF SureDeny, SureGrant, DoubtfulGrant, DoubtfulDeny
<1>8. CASE AllowStatement(s)
  <2> DEFINE more == CASE s.allowCond = "public" -> {"allowed"}
                       [] s.allowCond = "unknown" -> {"unknownAllow"}
                       [] s.allowCond = "restricted" -> {}
  <2>1. Continue(more) /\ StatementMatch(s, op, r) = "yes" /\ s.effect = "Allow"
    BY <1>8 DEF AllowStatement
  <2>2. /\ more \subseteq Flags
        /\ "allowed" \in more <=> s.allowCond = "public"
        /\ "unknownAllow" \in more <=> s.allowCond = "unknown"
        /\ "unknownDeny" \notin more
    BY <1>3 DEF Flags
  <2> HIDE DEF more
  <2> QED
    BY <1>5, <2>1, <2>2 DEF SureDeny, SureGrant, DoubtfulGrant, DoubtfulDeny, IsDeny
<1>9. CASE DenyStatement(s)
  <2>1. StatementMatch(s, op, r) = "yes" /\ IsDeny(s)
    BY <1>9 DEF DenyStatement
  <2>2. CASE PartialDeny(s, p) \/ s.denyCond["anonymous"] = "unknown"
    <3>1. Continue({"unknownDeny"})
      BY <1>9, <2>2 DEF DenyStatement
    <3> QED
      BY <1>5, <2>1, <2>2, <3>1
      DEF SureDeny, SureGrant, DoubtfulGrant, DoubtfulDeny, IsDeny, Flags
  <2>3. CASE ~PartialDeny(s, p) /\ s.denyCond["anonymous"] = "passes"
    <3>1. Continue({})
      BY <1>9, <2>3 DEF DenyStatement
    <3> QED
      BY <1>5, <2>1, <2>3, <3>1 DEF SureDeny, SureGrant, DoubtfulGrant, DoubtfulDeny, IsDeny
  <2>4. CASE ~PartialDeny(s, p) /\ s.denyCond["anonymous"] = "blocks"
    <3>1. Return("no")
      BY <1>9, <2>4 DEF DenyStatement
    <3>2. SureDeny(s, op, r, p)
      BY <2>1, <2>4 DEF SureDeny
    <3>3. TaskAnswer(statements, question, task) = "no"
      BY <1>1, <3>2 DEF TaskAnswer, EvaluatePolicyOperation
    <3> QED
      BY <1>1, <3>1, <3>3, ReturnStep
  <2> QED
    BY <1>3, <2>2, <2>3, <2>4
<1>10. CASE OtherStatement(s)
  <2>1. Continue({"unknownAllow"}) /\ StatementMatch(s, op, r) = "yes" /\ s.effect = "Other"
    BY <1>10 DEF OtherStatement
  <2> QED
    BY <1>5, <2>1 DEF SureDeny, SureGrant, DoubtfulGrant, DoubtfulDeny, IsDeny, Flags
<1> QED
  BY <1>6, <1>7, <1>8, <1>9, <1>10 DEF ScanStatement

LEMMA EndScanStep ==
  ASSUME ScanInv, EndScan
  PROVE  ScanInv'
<1>1. /\ task # Idle /\ verdict = Pending /\ question.mode = "grant"
      /\ next = Len(statements) + 1
  BY DEF EndScan, Scanning
<1> DEFINE d == CASE "allowed" \in flags /\ "unknownDeny" \notin flags -> "yes"
                  [] "unknownDeny" \in flags -> "unknown"
                  [] flags = {"unknownAllow"} -> "unknown"
                  [] flags = {} -> "no"
<1>2. statements \in Policy /\ flags \in SUBSET Flags
  BY DEF ScanInv, ScanTypeOK
<1>3. GrantFlags(statements, task, Len(statements) + 1, flags)
  BY <1>1 DEF ScanInv, FlagsInv
<1>4. d = IF "unknownDeny" \in flags THEN "unknown"
          ELSE IF "allowed" \in flags THEN "yes"
          ELSE IF "unknownAllow" \in flags THEN "unknown" ELSE "no"
  <2>1. "unknownDeny" \notin flags /\ "allowed" \notin flags =>
          flags = {"unknownAllow"} \/ flags = {}
    BY <1>2 DEF Flags
  <2> QED
    BY <2>1
<1>5. TaskAnswer(statements, question, task) = d
  BY <1>1, <1>2, <1>3, <1>4, GrantFlagsEnd DEF TaskAnswer
<1>6. Return(d)
  BY DEF EndScan
<1> QED
  BY <1>1, <1>5, <1>6, ReturnStep

(***************************************************************************)
(* evaluatePolicyOperationDeny: one statement, and the end of the scan.    *)
(***************************************************************************)
LEMMA ScanDenyStep ==
  ASSUME ScanInv, ScanDeny
  PROVE  ScanInv'
<1> DEFINE s == statements[next]
           op == task[1]
           kind == question.kind
<1>1. /\ task # Idle /\ verdict = Pending /\ question.mode # "grant"
      /\ next \in DOMAIN statements
  BY DEF ScanDeny, Scanning
<1>2. statements \in Policy /\ question \in Questions /\ s \in Statement
  BY <1>1, StatementAt DEF ScanInv, ScanTypeOK
<1>3. s.denyCond[kind] \in {"blocks", "passes", "unknown"}
  BY <1>2, StatementFields, QuestionFields
<1>4. DenyFlags(statements, task, kind, next, flags)
  BY <1>1 DEF ScanInv, FlagsInv
<1>5. ASSUME NEW more \in SUBSET Flags, Continue(more),
             ~Blocking(s, op, kind), more # {} <=> Uncertain(s, op, kind)
      PROVE  ScanInv'
  <2>1. DenyFlags(statements, task, kind, next + 1, flags \cup more)
    BY <1>1, <1>2, <1>4, <1>5, DenyFlagsNext
  <2> QED
    BY <1>1, <1>5, <2>1, ContinueStep
<1>6. CASE IrrelevantDeny(s)
  BY <1>5, <1>6 DEF IrrelevantDeny, Blocking, Uncertain
<1>7. CASE DoubtfulDenyStatement(s)
  BY <1>5, <1>7 DEF DoubtfulDenyStatement, Blocking, Uncertain, Flags
<1>8. CASE RelevantDeny(s)
  <2>1. IsDeny(s) /\ DenyMatch(s, op) = "yes"
    BY <1>8 DEF RelevantDeny
  <2>2. CASE s.denyCond[kind] = "unknown"
    <3>1. Continue({"unknownDeny"})
      BY <1>8, <2>2 DEF RelevantDeny
    <3> QED
      BY <1>5, <2>1, <2>2, <3>1 DEF Blocking, Uncertain, Flags
  <2>3. CASE s.denyCond[kind] = "passes"
    <3>1. Continue({})
      BY <1>8, <2>3 DEF RelevantDeny
    <3> QED
      BY <1>5, <2>1, <2>3, <3>1 DEF Blocking, Uncertain
  <2>4. CASE s.denyCond[kind] = "blocks"
    <3>1. Return("yes")
      BY <1>8, <2>4 DEF RelevantDeny
    <3>2. TaskAnswer(statements, question, task) = "yes"
      BY <1>1, <2>1, <2>4 DEF TaskAnswer, EvaluatePolicyOperationDeny
    <3> QED
      BY <1>1, <3>1, <3>2, ReturnStep
  <2> QED
    BY <1>3, <2>2, <2>3, <2>4
<1> QED
  BY <1>6, <1>7, <1>8 DEF ScanDeny

LEMMA EndScanDenyStep ==
  ASSUME ScanInv, EndScanDeny
  PROVE  ScanInv'
<1>1. /\ task # Idle /\ verdict = Pending /\ question.mode # "grant"
      /\ next = Len(statements) + 1
  BY DEF EndScanDeny, Scanning
<1>2. DenyFlags(statements, task, question.kind, Len(statements) + 1, flags)
  BY <1>1 DEF ScanInv, FlagsInv
<1>3. TaskAnswer(statements, question, task) = IF flags = {} THEN "no" ELSE "unknown"
  BY <1>1, <1>2, DenyFlagsEnd DEF TaskAnswer, ScanInv, ScanTypeOK
<1>4. Return(IF flags = {} THEN "no" ELSE "unknown")
  BY DEF EndScanDeny
<1> QED
  BY <1>1, <1>3, <1>4, ReturnStep

(***************************************************************************)
(* The theorems about the loops.                                           *)
(***************************************************************************)
LEMMA NextIInv ==
  ASSUME ScanInv, [ScanNext]_scanVars
  PROVE  ScanInv'
<1>1. CASE NextTask BY <1>1, NextTaskStep
<1>2. CASE ScanStatement BY <1>2, ScanStatementStep
<1>3. CASE EndScan BY <1>3, EndScanStep
<1>4. CASE ScanDeny BY <1>4, ScanDenyStep
<1>5. CASE EndScanDeny BY <1>5, EndScanDenyStep
<1>6. CASE Exhausted BY <1>6, ExhaustedStep
<1>7. CASE UNCHANGED scanVars
  BY <1>7 DEF scanVars, ScanInv, ScanTypeOK, TaskInv, FlagsInv, DoneInv, Done, ScanComputesAnswer
<1>8. CASE Answered
  BY <1>7, <1>8 DEF Answered
<1> QED
  BY <1>1, <1>2, <1>3, <1>4, <1>5, <1>6, <1>7, <1>8 DEF ScanNext

\* The flags and the tasks done always tell what has been seen so far.
THEOREM ScanInvariant == ScanSpec => []ScanInv
BY InitIInv, NextIInv, PTL DEF ScanSpec

\* The state of the loops of evaluatePolicyCapability and its siblings keeps
\* its type.
THEOREM ScanTypeCorrect == ScanSpec => []ScanTypeOK
<1>1. ScanInv => ScanTypeOK
  BY DEF ScanInv
<1> QED
  BY <1>1, ScanInvariant, PTL

\* Early returns and the order of the operations never change an answer of
\* evaluatePolicyCapability, evaluatePolicyDenyCapability or
\* evaluateAnyPolicyDeny.
THEOREM ScanAnswerIsFormula == ScanSpec => []ScanComputesAnswer
<1>1. ScanInv => ScanComputesAnswer
  BY DEF ScanInv
<1> QED
  BY <1>1, ScanInvariant, PTL

\* "Yes" means that everyone may surely do it, "no" that nobody may.
LEMMA InvariantImpliesPublicSound == ScanInv => PublicVerdictSound
<1> SUFFICES ASSUME ScanInv, question.mode = "grant" PROVE
      /\ verdict = "yes" => SurelyPublic(statements, question.ops)
      /\ verdict = "no" /\ (\A op \in question.ops : Probed(statements, op)) =>
           ~PossiblyPublic(statements, question.ops)
  BY DEF PublicVerdictSound
<1>1. statements \in Policy /\ question.ops \in SUBSET Operations
  BY QuestionFields DEF ScanInv, ScanTypeOK
<1>2. verdict \in {"yes", "no"} => verdict = EvaluatePolicyCapability(statements, question.ops)
  BY DEF ScanInv, ScanComputesAnswer, AnswerTo, Pending
<1> QED
  BY <1>1, <1>2, CapabilityYesSound, CapabilityNoSound

\* A definite answer about what a policy makes public is true of the policy.
THEOREM PublicAnswerSound == ScanSpec => []PublicVerdictSound
BY InvariantImpliesPublicSound, ScanInvariant, PTL

LEMMA InvariantImpliesDenySound == ScanInv => DenyVerdictSound
<1> SUFFICES ASSUME ScanInv, question.mode # "grant" PROVE DenyVerdictSound
  BY DEF DenyVerdictSound
<1> DEFINE ops == question.ops
           answer(op) == EvaluatePolicyOperationDeny(statements, op, question.kind)
<1>1. /\ statements \in Policy /\ question.kind \in PrincipalKinds
      /\ ops \subseteq AclOperations /\ question.mode \in {"denyAll", "denyAny"}
      /\ question.mode = "denyAny" => ops = AclOperations
  BY QuestionFields DEF ScanInv, ScanTypeOK
<1>2. \A op \in ops : answer(op) \in Decision
  BY DEF EvaluatePolicyOperationDeny, Decision
<1>3. CASE question.mode = "denyAll"
  <2>1. verdict # Pending => verdict = AndDecisions({answer(op) : op \in ops})
    BY <1>3 DEF ScanInv, ScanComputesAnswer, AnswerTo, EvaluatePolicyDenyCapability
  <2>2. verdict = "yes" => \A op \in ops : answer(op) = "yes"
    BY <1>2, <2>1, AndDecisionsCases DEF Pending, Decision
  <2>3. verdict = "no" => \E op \in ops : answer(op) = "no"
    BY <2>1, AndDecisionsCases DEF Pending
  <2> QED
    BY <1>1, <1>3, <2>2, <2>3, DenyYesSound, DenyNoSound DEF DenyVerdictSound, Denied
<1>4. CASE question.mode = "denyAny"
  <2>1. verdict # Pending => verdict = OrDecisions({answer(op) : op \in ops})
    BY <1>1, <1>4 DEF ScanInv, ScanComputesAnswer, AnswerTo, EvaluateAnyPolicyDeny
  <2>2. verdict = "yes" => \E op \in ops : answer(op) = "yes"
    BY <2>1, OrDecisionsCases DEF Pending
  <2>3. verdict = "no" => \A op \in ops : answer(op) = "no"
    BY <1>2, <2>1, OrDecisionsCases DEF Pending, Decision
  <2> QED
    BY <1>1, <1>4, <2>2, <2>3, DenyYesSound, DenyNoSound DEF DenyVerdictSound, Denied
<1> QED
  BY <1>1, <1>3, <1>4

\* A definite answer about what a policy denies is true of the policy.
THEOREM DenyAnswerSound == ScanSpec => []DenyVerdictSound
BY InvariantImpliesDenySound, ScanInvariant, PTL

LEMMA InvariantImpliesDecided == ScanInv => CertainPolicyIsDecided
<1> SUFFICES ASSUME ScanInv, CertainPolicy(statements) PROVE verdict # "unknown"
  BY DEF CertainPolicyIsDecided
<1> DEFINE ops == question.ops
           answer(op) == EvaluatePolicyOperationDeny(statements, op, question.kind)
<1>1. /\ statements \in Policy /\ question.kind \in PrincipalKinds /\ ops \in SUBSET Operations
      /\ question.mode \in {"grant", "denyAll", "denyAny"}
      /\ question.mode # "grant" => ops \subseteq AclOperations
      /\ question.mode = "denyAny" => ops = AclOperations
  BY QuestionFields DEF ScanInv, ScanTypeOK
<1>2. CASE question.mode = "grant"
  <2>1. verdict # Pending => verdict = EvaluatePolicyCapability(statements, ops)
    BY <1>2 DEF ScanInv, ScanComputesAnswer, AnswerTo
  <2> QED
    BY <1>1, <2>1, CertainCapability DEF Pending
<1>3. CASE question.mode # "grant"
  <2>1. \A op \in ops : answer(op) \in {"yes", "no"}
    BY <1>1, <1>3, CertainDeny
  <2>2. "unknown" \notin {answer(op) : op \in ops}
    BY <2>1
  <2>3. verdict \in {Pending, AndDecisions({answer(op) : op \in ops}),
                     OrDecisions({answer(op) : op \in ops})}
    BY <1>1, <1>3 DEF ScanInv, ScanComputesAnswer, AnswerTo, EvaluatePolicyDenyCapability,
                      EvaluateAnyPolicyDeny
  <2> QED
    BY <2>2, <2>3 DEF AndDecisions, OrDecisions, Pending
<1> QED
  BY <1>2, <1>3

\* "Unknown" is answered only of a policy that leaves something in doubt.
THEOREM CertainPolicyDecided == ScanSpec => []CertainPolicyIsDecided
BY InvariantImpliesDecided, ScanInvariant, PTL

=============================================================================
