---------------------------- MODULE MCBucketAccess ----------------------------
(***************************************************************************)
(* Every statement alone and set against a plain statement of the other    *)
(* effect, a public prefix with a deny that spares it or cuts into it,     *)
(* with ACLs of at most one group and blocks of at most one flag.          *)
(***************************************************************************)
EXTENDS BucketAccess, MCBucketPolicy

MCPolicies ==
  {<<s>> : s \in Statements}
  \cup {<<Plain("Allow"), s>> : s \in {t \in Statements : IsDeny(t)}}
  \cup {<<s, Plain("Deny")>> : s \in {t \in Statements : ~IsDeny(t)}}
  \cup {<<[Plain("Allow") EXCEPT !.resource = <<"b/public/*">>],
           [Plain("Deny") EXCEPT !.resource = <<p>>]>> : p \in {"b/object", "b/x", "b/?", "b*"}}

MCAcls ==
  {{}, {<<"Owner", "FULL_CONTROL">>}, {<<"AllUsers", "READ">>},
   {<<"AuthenticatedUsers", "WRITE">>, <<"AuthenticatedUsers", "READ_ACP">>},
   {<<"LogDelivery", "WRITE">>}}
  \cup {{<<g, "FULL_CONTROL">>} : g \in {"AllUsers", "AuthenticatedUsers"}}

MCBlocks == {[f \in BlockFlags |-> f = flag] : flag \in {"IgnorePublicAcls", "RestrictPublicBuckets"}}

MCOmissions == {{}, {"IgnorePublicAcls", "RestrictPublicBuckets"}}
=============================================================================
