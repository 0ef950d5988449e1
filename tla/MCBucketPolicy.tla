--------------------------- MODULE MCBucketPolicy ---------------------------
(***************************************************************************)
(* One bucket b, the resource patterns of policy_test.go and the           *)
(* statements that differ from a plain public Allow or Deny in one respect.*)
(***************************************************************************)
EXTENDS BucketPolicy

MCKeys == {"object", "probe", "public/probe", "public/file", "x", "y"}
MCPatterns == {"*", "b", "b*", "b/*", "b/public/*", "b/object", "b/x", "b/?", "b/${user}"}
MCVariables == {"b/${user}"}
MCWholes == {"*", "b/*"}
MCWild == {"*", "b*", "b/*", "b/public/*", "b/?"}

MCMatches ==
  [p \in MCPatterns |->
    CASE p \in {"*", "b*"} -> MCKeys \cup {"b"}
      [] p \in {"b/*", "b/${user}"} -> MCKeys
      [] p = "b" -> {"b"}
      [] p = "b/public/*" -> {"public/probe", "public/file"}
      [] p = "b/object" -> {"object"}
      [] p = "b/x" -> {"x"}
      [] p = "b/?" -> {"x", "y"}]

MCProbe ==
  [p \in MCPatterns |->
    CASE p \in {"*", "b*", "b", "b/${user}"} -> "none"
      [] p = "b/*" -> "probe"
      [] p = "b/public/*" -> "public/probe"
      [] p = "b/object" -> "object"
      [] p \in {"b/x", "b/?"} -> "x"]

MCCovers ==
  {<<p, p>> : p \in MCPatterns}
  \cup {<<"*", p>> : p \in MCPatterns}
  \cup {<<"b*", p>> : p \in MCPatterns \ {"*"}}
  \cup {<<"b/*", p>> : p \in MCPatterns \ {"*", "b", "b*"}}

Everything == [op \in Operations |-> "yes"]
OnlySome(match) ==
  [op \in Operations |-> IF op \in {"GetObject", "PutObject", "ListBucket"} THEN match ELSE "no"]

Plain(effect) ==
  [effect |-> effect, principal |-> "yes", action |-> Everything, resource |-> <<"b", "b/*">>,
   allowCond |-> "public", denyCond |-> [k \in PrincipalKinds |-> "blocks"]]

Variants(effect) ==
  LET s == Plain(effect) IN
  {s} \cup {[s EXCEPT !.principal = m] : m \in {"no", "unknown"}}
  \cup {[s EXCEPT !.action = a] : a \in {OnlySome("yes"), OnlySome("unknown")}}
  \cup {[s EXCEPT !.resource = r] : r \in {<<p>> : p \in MCPatterns} \cup {<<>>}}

Statements ==
  Variants("Allow") \cup Variants("Deny") \cup {Plain("Other")}
  \cup {[Plain("Allow") EXCEPT !.allowCond = c] : c \in {"restricted", "unknown"}}
  \cup {[Plain("Deny") EXCEPT !.denyCond = d] :
          d \in {[k \in PrincipalKinds |-> "unknown"],
                 [k \in PrincipalKinds |-> IF k = "anonymous" THEN "passes" ELSE "blocks"]}}
  \cup {[Plain("Allow") EXCEPT !.resource = <<"b/x", "b/?">>]}
=============================================================================
