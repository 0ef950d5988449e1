--------------------------- MODULE PolicyConditions ---------------------------
(***************************************************************************)
(* How internal/s3/enumerate/policy.go classifies the principal and the    *)
(* condition of one statement: statementPublicPrincipal,                   *)
(* classifyAllowCondition and classifyDenyCondition.  Their answers are    *)
(* the fields principal, allowCond and denyCond of BucketPolicy.           *)
(*                                                                         *)
(* An entry of a condition is a record:                                    *)
(*   key     "account" (aws:PrincipalAccount), "arn" (aws:PrincipalArn),   *)
(*           "trusted" (any other trustedConditionKeys), "secure"          *)
(*           (aws:SecureTransport), "tls" (s3:TlsVersion), "free" (the     *)
(*           other publicConditionKeys), "ip" (aws:SourceIp), "other"      *)
(*   op      the operator; string and ARN operators are not told apart     *)
(*   set     "", "any" (ForAnyValue:) or "all" (ForAllValues:)             *)
(*   exists  the operator ends in IfExists                                 *)
(*   values  a set of classes of values, or Malformed                      *)
(* Prefixes of addresses are sequences of bits.                            *)
(***************************************************************************)
EXTENDS Integers, Sequences, FiniteSets, Decisions

CONSTANTS
  Malformed,       \* values that the code cannot decode
  Width,           \* family -> bits of an address: 32 and 128
  WideBelow,       \* family -> a shorter prefix counts as public: 8 and 32
  Conditions,      \* conditions of statements: sets of entries
  Principals       \* principals of statements

Families == {"v4", "v6"}
Bits(n) == [1 .. n -> {0, 1}]

\* The classes of string values: "any*" is a pattern that matches "anonymous",
\* "none*" one that does not; "${v}" holds a policy variable.
StringValues == {"anonymous", "fixed", "any*", "none*", "${v}", "true", "false"}
FixedValues == {"anonymous", "fixed", "true", "false"}

Equals == {"equals", "notEquals"}
Likes == {"like", "notLike"}
Negative == {"notEquals", "notLike"}

\* The prefixes of an address family, as long as an address or shorter.
Prefixes(f) == UNION {Bits(n) : n \in 0 .. Width[f]}

ASSUME WidthAssumption == Width \in [Families -> 0 .. 128] /\ WideBelow \in [Families -> 0 .. 128]

\* Ranges of addresses are parsed before they are classified, TLS versions as well.
ASSUME ConditionAssumption ==
  \A C \in Conditions :
    /\ IsFiniteSet(C)
    /\ \A e \in C :
         /\ e.key \in {"account", "arn", "trusted", "secure", "tls", "free", "ip", "other"}
         /\ e.op \in Equals \cup Likes \cup {"null", "ip", "notIp", "bool", "less", "other"}
         /\ e.set \in {"", "any", "all"} /\ e.exists \in BOOLEAN
         /\ e.values = Malformed \/
              /\ e.key = "ip" => \A p \in e.values : p[1] \in Families /\ p[2] \in Prefixes(p[1])
              /\ e.key = "tls" => \A v \in e.values : v \in Int

ASSUME PrincipalAssumption ==
  \A p \in Principals : p.form \in {"absent", "not", "malformed", "text", "map"}

VARIABLES
  question,   \* "principal", "allow", or the kind of principal of a deny
  principal,
  condition,
  pc,
  left,       \* entries of the map that were not visited yet
  doubt,      \* one of those visited could not be classified
  entry,      \* the source address entry that is examined
  family,     \* the address family whose prefixes are inserted
  ranges,     \* the prefixes of the family to insert
  tree,       \* the covered nodes of the prefixCoverageNode tree
  verdict

examining == <<entry, family, ranges, tree>>
vars == <<question, principal, condition, pc, left, doubt, examining, verdict>>

NoPrincipal == [form |-> "absent", values |-> {}, entries |-> {}]
NoEntry == [key |-> "none", op |-> "none", set |-> "", exists |-> FALSE, values |-> {}]

Init ==
  /\ \/ question = "principal" /\ principal \in Principals /\ condition = {}
     \/ /\ question \in {"allow", "anonymous", "authenticated"}
        /\ principal = NoPrincipal /\ condition \in Conditions
  /\ pc = "start" /\ left = {} /\ doubt = FALSE
  /\ entry = NoEntry /\ family = "v4" /\ ranges = {} /\ tree = {}
  /\ verdict = "none"

Conclude(v) == pc' = "done" /\ verdict' = v

----------------------------------------------------------------------------
(***************************************************************************)
(* The principal.                                                          *)
(***************************************************************************)
\* Only the text "*" or a map can name everyone.
ReadPrincipal ==
  /\ pc = "start" /\ question = "principal"
  /\ CASE principal.form \in {"absent", "not", "malformed"} -> Conclude("unknown") /\ UNCHANGED left
       [] principal.form = "text" -> Conclude(Known("*" \in principal.values)) /\ UNCHANGED left
       [] principal.form = "map" -> pc' = "principals" /\ left' = principal.entries /\ UNCHANGED verdict
  /\ UNCHANGED <<question, principal, condition, doubt, examining>>

\* VisitPrincipal that takes the last value for the answer of its list.
VisitPrincipalStopsEarly ==
  /\ pc = "principals"
  /\ \E p \in left :
       /\ left' = left \ {p}
       /\ IF p.type # "AWS" THEN UNCHANGED <<pc, verdict>>
          ELSE IF p.values = Malformed THEN Conclude("unknown")
          ELSE Conclude(Known("*" \in p.values))
  /\ UNCHANGED <<question, principal, condition, doubt, examining>>

\* The entries of the map come in any order.
VisitPrincipal ==
  /\ pc = "principals"
  /\ \E p \in left :
       /\ left' = left \ {p}
       /\ IF p.type # "AWS" THEN UNCHANGED <<pc, verdict>>
          ELSE IF p.values = Malformed THEN Conclude("unknown")
          ELSE IF "*" \in p.values THEN Conclude("yes")
          ELSE UNCHANGED <<pc, verdict>>
  /\ UNCHANGED <<question, principal, condition, doubt, examining>>

PrincipalsVisited ==
  /\ pc = "principals" /\ left = {} /\ Conclude("no")
  /\ UNCHANGED <<question, principal, condition, left, doubt, examining>>

----------------------------------------------------------------------------
(***************************************************************************)
(* What the code makes of one entry.                                       *)
(***************************************************************************)
TrustedKeys == {"account", "arn", "trusted"}
PublicKeys == {"secure", "tls", "free"}

IsText(e) == e.op \in Equals \cup Likes
IsNull(e) == e.op = "null" /\ e.set = "" /\ ~e.exists
IsPositive(e) == IsText(e) /\ e.op \notin Negative /\ ~e.exists /\ e.set # "all"
IsPositiveIfExists(e) == IsText(e) /\ e.op \notin Negative /\ e.exists
IsForAllValuesPositive(e) == IsText(e) /\ e.op \notin Negative /\ e.set = "all" /\ ~e.exists
IsForAnyValueNegative(e) == e.op \in Negative /\ e.set = "any" /\ ~e.exists

IsNegative(e) == e.op \in Negative /\ (e.set # "any" \/ e.exists)

ValuesAreFixed(e) == e.values # Malformed /\ e.values # {} /\ e.values \subseteq FixedValues

\* A Null condition has one value; `present` and `absent` are the answers for
\* a condition that wants the key to be there, or not.
ByPresence(e, present, absent) ==
  CASE e.values = {"false"} -> present
    [] e.values = {"true"} -> absent
    [] OTHER -> "unknown"

\* ClassifyKnownConditionValue that does not turn the answer for a negative operator.
ClassifyKnownConditionValueUnsigned(e) ==
  LET found == e.values \cap {"anonymous", "any*"} IN
  IF e.values \in {Malformed, {}} THEN "unknown"
  ELSE IF IsNull(e) THEN ByPresence(e, "public", "restricted")
  ELSE IF ~IsText(e) THEN "unknown"
  ELSE IF found # {} THEN "public" ELSE "restricted"

ClassifyKnownConditionValue(e) ==
  LET found == e.values \cap (IF e.op \in Equals THEN {"anonymous"} ELSE {"anonymous", "any*"}) IN
  IF e.values \in {Malformed, {}} THEN "unknown"
  ELSE IF IsNull(e) THEN ByPresence(e, "public", "restricted")
  ELSE IF ~IsText(e) THEN "unknown"
  ELSE IF (found # {}) = (e.op \notin Negative) THEN "public" ELSE "restricted"

ClassifyTrustedKey(e) ==
  CASE IsPositiveIfExists(e) \/ IsForAllValuesPositive(e) -> "public"
    [] IsNull(e) -> ByPresence(e, "restricted", "public")
    [] IsPositive(e) -> IF ValuesAreFixed(e) THEN "restricted" ELSE "unknown"
    [] IsForAnyValueNegative(e) -> "restricted"
    [] IsNegative(e) -> "public"
    [] OTHER -> "unknown"

\* classifyAllowConditionEntry, but for a source address.
ClassifyAllowConditionEntry(e) ==
  CASE e.key = "account" -> ClassifyKnownConditionValue(e)
    [] e.key \in TrustedKeys \ {"account"} -> ClassifyTrustedKey(e)
    [] e.key \in PublicKeys -> "public"
    [] OTHER -> "unknown"

----------------------------------------------------------------------------
(***************************************************************************)
(* The condition of an Allow: its entries in any order, until one of them  *)
(* is a boundary.                                                          *)
(***************************************************************************)
ReadCondition ==
  /\ pc = "start" /\ question = "allow"
  /\ pc' = "entries" /\ left' = condition
  /\ UNCHANGED <<question, principal, condition, doubt, examining, verdict>>

Settle(e, result) ==
  /\ left' = left \ {e}
  /\ IF result = "restricted" THEN Conclude("restricted") ELSE pc' = "entries" /\ UNCHANGED verdict
  /\ doubt' = (doubt \/ result = "unknown")

VisitEntry ==
  /\ pc = "entries"
  /\ \E e \in left : e.key # "ip" /\ Settle(e, ClassifyAllowConditionEntry(e))
  /\ UNCHANGED <<question, principal, condition, examining>>

IsAddress(e) == e.op \in {"ip", "notIp"} /\ e.set = ""
\* A range of addresses is public from a prefix length on.
IsWide(p) == Len(p[2]) < WideBelow[p[1]]

OfFamily(e, f) == {p[2] : p \in {q \in e.values : q[1] = f}}

VisitSourceIP ==
  /\ pc = "entries"
  /\ \E e \in left :
       /\ e.key = "ip"
       /\ IF e.values \in {Malformed, {}} \/ ~IsAddress(e)
          THEN Settle(e, "unknown") /\ UNCHANGED examining
          ELSE IF e.op = "ip"
          THEN Settle(e, IF \E p \in e.values : IsWide(p) THEN "public" ELSE "restricted")
               /\ UNCHANGED examining
          ELSE /\ pc' = "insert" /\ entry' = e /\ family' = "v4"
               /\ ranges' = OfFamily(e, "v4") /\ tree' = {}
               /\ UNCHANGED <<left, doubt, verdict>>
  /\ UNCHANGED <<question, principal, condition>>

EntriesVisited ==
  /\ pc = "entries" /\ left = {}
  /\ Conclude(IF doubt THEN "unknown" ELSE "public")
  /\ UNCHANGED <<question, principal, condition, left, doubt, examining>>

----------------------------------------------------------------------------
(***************************************************************************)
(* prefixesCoverAddressFamily.  A covered node has no children, so the     *)
(* tree is the set of its covered nodes.                                   *)
(***************************************************************************)
Above(node, below) == Len(node) <= Len(below) /\ SubSeq(below, 1, Len(node)) = node

\* CollapseCoveredPrefixes that looks at the children of the root only.
CollapseAtRoot(nodes) ==
  IF {<<0>>, <<1>>} \subseteq nodes THEN {<<>>} ELSE nodes

\* A node with two covered children is covered, from the leaves to the root.
CollapseCoveredPrefixes(nodes) ==
  LET width == Width[family]
      Level[d \in 0 .. width] ==
        {n \in nodes : Len(n) = d} \cup
        IF d = width THEN {}
        ELSE {n \in Bits(d) : Append(n, 0) \in Level[d + 1] /\ Append(n, 1) \in Level[d + 1]}
      all == UNION {Level[d] : d \in 0 .. width}
  IN {n \in all : ~\E m \in all : m # n /\ Above(m, n)}

\* The walk down ends at a node that is covered.
InsertCoveredPrefix ==
  /\ pc = "insert"
  /\ \E p \in ranges :
       /\ ranges' = ranges \ {p}
       /\ tree' = IF \E n \in tree : n # p /\ Above(n, p) THEN tree
                  ELSE CollapseCoveredPrefixes({n \in tree : ~Above(p, n)} \cup {p})
  /\ UNCHANGED <<question, principal, condition, pc, left, doubt, entry, family, verdict>>

RootCovered == <<>> \in tree

\* FamilyInserted that goes on with the tree of the first family.
FamilyInsertedKeepsTree ==
  /\ pc = "insert" /\ ranges = {}
  /\ IF RootCovered /\ family = "v4"
     THEN /\ family' = "v6" /\ ranges' = OfFamily(entry, "v6")
          /\ UNCHANGED <<pc, left, doubt, entry, tree, verdict>>
     ELSE /\ Settle(entry, IF RootCovered THEN "restricted" ELSE "public")
          /\ UNCHANGED <<entry, tree, family, ranges>>
  /\ UNCHANGED <<question, principal, condition>>

\* The second family is looked at only if the first is covered.
FamilyInserted ==
  /\ pc = "insert" /\ ranges = {}
  /\ IF RootCovered /\ family = "v4"
     THEN /\ family' = "v6" /\ ranges' = OfFamily(entry, "v6") /\ tree' = {}
          /\ UNCHANGED <<pc, left, doubt, entry, verdict>>
     ELSE /\ Settle(entry, IF RootCovered THEN "restricted" ELSE "public")
          /\ entry' = NoEntry /\ tree' = {}
          /\ UNCHANGED <<family, ranges>>
  /\ UNCHANGED <<question, principal, condition>>

----------------------------------------------------------------------------
(***************************************************************************)
(* The condition of a Deny.                                                *)
(***************************************************************************)
\* Over TLS 1.3 nobody is met by a condition on older or no transport security.
HasTransportBypass(C) ==
  \E e \in C : e.set = "" /\ ~e.exists /\ e.values # Malformed /\
    \/ e.key = "secure" /\ e.op = "bool" /\ e.values = {"false"}
    \/ e.key = "tls" /\ e.op = "less" /\ e.values # {} /\ \A v \in e.values : v <= 13

\* PresenceOf that takes everyone to have an ARN.
PresenceOfSigned(kind, key) == IF key \in {"account", "arn"} THEN "yes" ELSE "unknown"

\* policyConditionKeyPresence
PresenceOf(kind, key) ==
  CASE key = "account" -> "yes"
    [] key = "arn" -> Known(kind = "authenticated")
    [] OTHER -> "unknown"

\* An anonymous request is taken not to have a key of unknown presence.
ClassifyDenyNull(e, kind) ==
  LET presence == PresenceOf(kind, e.key) IN
  CASE presence = "yes" -> ByPresence(e, "blocks", "passes")
    [] presence = "no" \/ (presence = "unknown" /\ kind = "anonymous") -> ByPresence(e, "passes", "blocks")
    [] OTHER -> "unknown"

ClassifyDenyAccount(e) ==
  CASE ClassifyKnownConditionValue(e) = "public" -> "blocks"
    [] ClassifyKnownConditionValue(e) = "restricted" -> "passes"
    [] OTHER -> "unknown"

ClassifyDenyEntry(e, kind) ==
  IF e.key \notin TrustedKeys THEN "unknown"
  ELSE IF kind = "anonymous" /\ e.key = "account" THEN ClassifyDenyAccount(e)
  ELSE IF IsNull(e) THEN ClassifyDenyNull(e, kind)
  ELSE IF kind = "authenticated" \/ ~ValuesAreFixed(e) THEN "unknown"
  ELSE IF IsPositiveIfExists(e) THEN "blocks"
  ELSE IF IsForAnyValueNegative(e) THEN "passes"
  ELSE IF IsNegative(e) \/ IsForAllValuesPositive(e) THEN "blocks"
  ELSE IF IsPositive(e) THEN "passes" ELSE "unknown"

ClassifyDenyCondition ==
  /\ pc = "start" /\ question \in {"anonymous", "authenticated"}
  /\ Conclude(IF condition = {} THEN "blocks"
              ELSE IF HasTransportBypass(condition) THEN "passes"
              ELSE IF Cardinality(condition) # 1 THEN "unknown"
              ELSE ClassifyDenyEntry(CHOOSE e \in condition : TRUE, question))
  /\ UNCHANGED <<question, principal, condition, left, doubt, examining>>

\* The answer has been returned.
Answered == pc = "done" /\ UNCHANGED vars

Next ==
  \/ ReadPrincipal \/ VisitPrincipal \/ PrincipalsVisited
  \/ ReadCondition \/ VisitEntry \/ VisitSourceIP \/ EntriesVisited
  \/ InsertCoveredPrefix \/ FamilyInserted
  \/ ClassifyDenyCondition
  \/ Answered

Spec == Init /\ [][Next]_vars

----------------------------------------------------------------------------
(***************************************************************************)
(* The reference: the requests there are, and what of a condition they     *)
(* meet.  An anonymous request comes from the open internet: it has the    *)
(* account "anonymous" and no other trusted key.  Secure transport, the    *)
(* TLS version (0 is none), the address and free keys are its own choice.  *)
(* What "other" says of a request stands for all that is not modelled.     *)
(***************************************************************************)
Address == UNION {{f} \X Bits(Width[f]) : f \in Families}

Requests(kind) ==
  LET carried == IF kind = "anonymous" THEN {"absent"} ELSE {"fixed", "foreign"}
  IN [account : IF kind = "anonymous" THEN {"anonymous"} ELSE {"fixed", "foreign"},
      arn : carried, trusted : carried \cup {"absent"},
      tls : {0, 10, 13}, address : Address, free : BOOLEAN, other : BOOLEAN]

TextMet(e, value) ==
  LET matches == value \in e.values \/ (e.op \in Likes /\ "any*" \in e.values)
  IN IF value = "absent"
     THEN e.exists \/ e.set = "all" \/ (e.op \in Negative /\ e.set # "any")
     ELSE matches = (e.op \notin Negative)

Valued(r, key) ==
  CASE key = "account" -> r.account [] key = "arn" -> r.arn [] key = "trusted" -> r.trusted

\* The request meets the entry.
Met(e, r) ==
  CASE e.key \in TrustedKeys /\ IsText(e) ->
         IF Valued(r, e.key) = "absent" THEN TextMet(e, "absent")
         ELSE IF e.values = Malformed THEN r.other ELSE TextMet(e, Valued(r, e.key))
    [] e.key \in TrustedKeys /\ IsNull(e) /\ e.values \in {{"true"}, {"false"}} ->
         (Valued(r, e.key) = "absent") = (e.values = {"true"})
    [] e.key = "secure" /\ e.op = "bool" /\ e.values # Malformed ->
         (IF r.tls = 0 THEN "false" ELSE "true") \in e.values
    [] e.key = "tls" /\ e.op = "less" /\ e.values # Malformed ->
         r.tls # 0 /\ \E v \in e.values : r.tls < v
    [] e.key = "ip" /\ IsAddress(e) /\ e.values # Malformed ->
         (\E p \in e.values : p[1] = r.address[1] /\ Above(p[2], r.address[2])) = (e.op = "ip")
    [] e.key = "free" -> r.free
    [] OTHER -> r.other

Anonymous == Requests("anonymous")
MetBySome(C) == \E r \in Anonymous : \A e \in C : Met(e, r)

----------------------------------------------------------------------------
TypeOK ==
  /\ pc \in {"start", "principals", "entries", "insert", "done"}
  /\ left \subseteq condition \/ (question = "principal" /\ left \subseteq principal.entries)
  /\ entry \in condition \cup {NoEntry} /\ (pc = "insert" <=> entry # NoEntry)
  /\ family \in Families
  /\ \A n \in ranges \cup tree : Len(n) <= Width[family] /\ n \in Bits(Len(n))
  /\ \A m, n \in tree : Above(m, n) => m = n
  /\ verdict \in IF question = "principal" THEN Decision \cup {"none"}
                 ELSE {"none", "public", "restricted", "blocks", "passes", "unknown"}
  /\ pc = "done" <=> verdict # "none"

\* Whatever the order of the map, the principal is everyone exactly if an AWS
\* entry has "*"; an entry that cannot be read only ever makes it unknown.
PrincipalVerdict ==
  question = "principal" /\ pc = "done" =>
    LET named == \/ principal.form = "text" /\ "*" \in principal.values
                 \/ principal.form = "map" /\ \E p \in principal.entries :
                      p.type = "AWS" /\ p.values # Malformed /\ "*" \in p.values
    IN Agrees(verdict, named)

\* A condition is public only if some anonymous request meets all of it, and
\* restricted only if none does, or a range of addresses is narrow.  The first
\* is claimed if the keys of the requester's choice do not contradict each
\* other.  In every order of the entries, one that no anonymous request meets
\* ends as restricted, the doubts about others notwithstanding.
AllowVerdict ==
  question = "allow" /\ pc = "done" =>
    LET Of(keys) == {e \in condition : e.key \in keys}
        narrow == \E e \in Of({"ip"}) :
          e.op = "ip" /\ e.values # Malformed /\ \A p \in e.values : ~IsWide(p)
    IN /\ verdict = "public" /\ MetBySome(Of(PublicKeys)) /\ Cardinality(Of({"ip"})) <= 1
            => MetBySome(condition)
       /\ verdict = "restricted" => narrow \/ ~MetBySome(condition)
       /\ verdict = "unknown" =>
            \A e \in Of(TrustedKeys \cup {"ip"}) :
              e.values \notin {Malformed, {}} /\ (e.key = "ip" \/ ValuesAreFixed(e)) => MetBySome({e})

\* A deny blocks only if every request of the kind meets its condition, and
\* passes only if there is one that does not.
DenyVerdict ==
  question \in {"anonymous", "authenticated"} /\ pc = "done" =>
    LET Escapes(r) == \E e \in condition : ~Met(e, r) IN
    /\ verdict = "blocks" => \A r \in Requests(question) : ~Escapes(r)
    /\ verdict = "passes" => \E r \in Requests(question) : Escapes(r)

\* The tree covers exactly the addresses of the prefixes that were inserted, in
\* any order, and its root is covered exactly when they are all there are.
CoverageExact ==
  pc = "insert" =>
    LET inserted == OfFamily(entry, family) \ ranges
        CoveredBy(nodes, a) == \E n \in nodes : Above(n, a)
    IN /\ \A a \in Bits(Width[family]) : CoveredBy(tree, a) <=> CoveredBy(inserted, a)
       /\ RootCovered <=> \A a \in Bits(Width[family]) : CoveredBy(inserted, a)
=============================================================================
