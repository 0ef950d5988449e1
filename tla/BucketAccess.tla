---------------------------- MODULE BucketAccess ----------------------------
(***************************************************************************)
(* The access-control section of one bucket's report: the four calls       *)
(* bucketPermissions and accountPublicAccessBlock make, each of which may  *)
(* fail, and evaluateS3Access, which combines whatever they answered.      *)
(*                                                                         *)
(* `world` is what AWS holds, hidden from the code but through the calls.  *)
(* It stays as it is during the scan of the bucket.                        *)
(***************************************************************************)
EXTENDS BucketPolicy

CONSTANTS
  Acls,         \* the sets of grants <<group, permission>> it may have
  Omissions,    \* the sets of flags an answer about a block may leave out
  Blocks,       \* the Public Access Block configurations, of account or bucket
  Absent,       \* the service says there is none
  Malformed,    \* a document analyzeBucketPolicy rejects
  Unavailable,  \* the call failed or answered nothing, or was not made yet
  NoReport      \* there is no access-control section

Groups == {"AllUsers", "AuthenticatedUsers", "LogDelivery", "Owner"}
Permissions == {"READ", "WRITE", "READ_ACP", "WRITE_ACP", "FULL_CONTROL"}
BlockFlags ==
  {"BlockPublicAcls", "IgnorePublicAcls", "BlockPublicPolicy", "RestrictPublicBuckets"}

ASSUME AccessAssumption ==
  /\ Acls \subseteq SUBSET (Groups \X Permissions)
  /\ Blocks \subseteq [BlockFlags -> BOOLEAN]
  /\ Omissions \subseteq SUBSET BlockFlags /\ {} \in Omissions
  /\ Absent # Malformed
  /\ Absent \notin Policies /\ Absent \notin Blocks /\ Malformed \notin Policies
  /\ Unavailable \notin {Absent, Malformed} /\ Unavailable \notin Policies
  /\ Unavailable \notin Acls /\ Unavailable \notin [BlockFlags -> Decision]

VARIABLES
  world,          \* [policy, acl, account, bucket]
  accountBlock,   \* what is known of the account's block
  policy,         \* what is known of the policy
  acl,            \* what is known of the ACL
  bucketBlock,    \* what is known of the bucket's block
  errors,         \* the calls and conversions that were reported as failed
  pc,             \* the call made next
  report          \* the access-control section, or NoReport

vars == <<world, accountBlock, policy, acl, bucketBlock, errors, pc, report>>

\* A block as the code sees it: each flag set, clear, or left out of the answer.
BlockAnswer == [BlockFlags -> Decision]

WorldBlock(b) == IF b = Absent THEN [f \in BlockFlags |-> FALSE] ELSE b

\* The answer about block b that leaves some flags out.  That there is no block
\* is an answer about all of them.
Answer(b, omitted) ==
  [f \in BlockFlags |->
    IF b # Absent /\ f \in omitted THEN "unknown" ELSE Known(WorldBlock(b)[f])]

----------------------------------------------------------------------------
(***************************************************************************)
(* policyPermissions: what the policy grants everyone, and what it denies  *)
(* each kind of principal of each ACL permission.                          *)
(***************************************************************************)
PermissionOperations(permission) ==
  CASE permission = "READ" -> ListOperations
    [] permission = "WRITE" -> WriteOperations
    [] permission = "READ_ACP" -> ReadACPOperations
    [] permission = "WRITE_ACP" -> WriteACPOperations
    [] permission = "FULL_CONTROL" -> AclOperations

AllPolicyPermissions(d) ==
  [list |-> d, read |-> d, write |-> d,
   denies |-> [k \in PrincipalKinds |-> [m \in Permissions |-> d]]]

EvaluateACLPolicyDenies(P, kind) ==
  [m \in Permissions |->
    IF m = "FULL_CONTROL" THEN EvaluateAnyPolicyDeny(P, kind)
    ELSE EvaluatePolicyDenyCapability(P, PermissionOperations(m), kind)]

AnalyzeBucketPolicy(P) ==
  [list |-> EvaluatePolicyCapability(P, ListOperations),
   read |-> EvaluatePolicyCapability(P, ReadOperations),
   write |-> EvaluatePolicyCapability(P, WriteOperations),
   denies |-> [k \in PrincipalKinds |-> EvaluateACLPolicyDenies(P, k)]]

EvaluatePolicyPermissions(p) ==
  CASE p \in {Unavailable, Malformed} -> AllPolicyPermissions("unknown")
    [] p = Absent -> AllPolicyPermissions("no")
    [] OTHER -> AnalyzeBucketPolicy(p)

----------------------------------------------------------------------------
(***************************************************************************)
(* evaluateACLPermissions, mergePublicAccessBlocks and evaluateS3Access.   *)
(***************************************************************************)
Granted(grants, group, permission) ==
  {<<group, permission>>, <<group, "FULL_CONTROL">>} \cap grants # {}

EvaluateACLPermission(a, group, permission) ==
  IF a = Unavailable THEN "unknown" ELSE Known(Granted(a, group, permission))

KnownPublicAccessBlockValue(b, flag) == IF b = Unavailable THEN "unknown" ELSE b[flag]

\* MergePublicAccessBlocks that lets the bucket's block shadow the account's.
MergePublicAccessBlocksShadows(b, account, flag) ==
  IF b # Unavailable THEN KnownPublicAccessBlockValue(b, flag)
  ELSE KnownPublicAccessBlockValue(account, flag)

MergePublicAccessBlocks(b, account, flag) ==
  OrDecisions({KnownPublicAccessBlockValue(b, flag), KnownPublicAccessBlockValue(account, flag)})

PrincipalKind(group) == IF group = "AllUsers" THEN "anonymous" ELSE "authenticated"

\* The logging service is not the public: its grants survive IgnorePublicAcls.
ACLBlocked(group, permission, permissions, ignored) ==
  LET denied == permissions.denies[PrincipalKind(group)][permission] IN
  IF group = "LogDelivery" THEN denied ELSE OrDecisions({ignored, denied})

ACLAllowed(group, permission, a, permissions, ignored) ==
  BlockedDecision(EvaluateACLPermission(a, group, permission),
                  ACLBlocked(group, permission, permissions, ignored))

\* The fields of S3BucketAccessControl that come from the ACL alone.
ACLFields ==
  [AllowPublicReadAcp |-> <<"AllUsers", "READ_ACP">>,
   AllowPublicWriteAcp |-> <<"AllUsers", "WRITE_ACP">>,
   AllowPublicFullControl |-> <<"AllUsers", "FULL_CONTROL">>,
   AllowAuthenticatedUsersList |-> <<"AuthenticatedUsers", "READ">>,
   AllowAuthenticatedUsersWrite |-> <<"AuthenticatedUsers", "WRITE">>,
   AllowAuthenticatedUsersReadAcp |-> <<"AuthenticatedUsers", "READ_ACP">>,
   AllowAuthenticatedUsersWriteAcp |-> <<"AuthenticatedUsers", "WRITE_ACP">>,
   AllowAuthenticatedUsersFullControl |-> <<"AuthenticatedUsers", "FULL_CONTROL">>,
   AllowLogDeliveryWrite |-> <<"LogDelivery", "WRITE">>,
   AllowLogDeliveryReadAcp |-> <<"LogDelivery", "READ_ACP">>]

PublicFields == {"AllowPublicList", "AllowPublicRead", "AllowPublicWrite"}
Fields == PublicFields \cup DOMAIN ACLFields

Reports == [access : [Fields -> Decision], block : BlockAnswer]

ASSUME ReportAssumption == NoReport \notin Reports

EvaluateS3Access(p, a, b, account) ==
  LET permissions == EvaluatePolicyPermissions(p)
      ignored == MergePublicAccessBlocks(b, account, "IgnorePublicAcls")
      restricted == MergePublicAccessBlocks(b, account, "RestrictPublicBuckets")
      acled(group, permission) == ACLAllowed(group, permission, a, permissions, ignored)
      public(decision) == BlockedDecision(decision, restricted)
  IN [f \in Fields |->
       CASE f = "AllowPublicList" ->
              OrDecisions({acled("AllUsers", "READ"), public(permissions.list)})
         [] f = "AllowPublicRead" -> public(permissions.read)
         [] f = "AllowPublicWrite" ->
              OrDecisions({acled("AllUsers", "WRITE"), public(permissions.write)})
         [] OTHER -> acled(ACLFields[f][1], ACLFields[f][2])]

\* accessControlHasValues: something is known, of the access or of a block.
AccessControlHasValues(fields, b, account) ==
  \/ \E f \in Fields : fields[f] # "unknown"
  \/ \E f \in BlockFlags : {KnownPublicAccessBlockValue(b, f),
                            KnownPublicAccessBlockValue(account, f)} # {"unknown"}

----------------------------------------------------------------------------
Worlds ==
  [policy : Policies \cup {Absent, Malformed}, acl : Acls,
   account : Blocks \cup {Absent}, bucket : Blocks \cup {Absent}]

Init ==
  /\ world \in Worlds
  /\ accountBlock = Unavailable /\ policy = Unavailable
  /\ acl = Unavailable /\ bucketBlock = Unavailable
  /\ errors = {}
  /\ pc = "account"
  /\ report = NoReport

\* A call fails, or answers with nothing: it is reported and the scan goes on.
Fails(call) == errors' = errors \cup {call}

GetAccountPublicAccessBlock ==
  /\ pc = "account" /\ pc' = "policy"
  /\ \/ /\ \E omitted \in Omissions : accountBlock' = Answer(world.account, omitted)
        /\ UNCHANGED errors
     \/ Fails("account") /\ UNCHANGED accountBlock
  /\ UNCHANGED <<world, policy, acl, bucketBlock, report>>

\* GetBucketPolicy that takes every failure for NoSuchBucketPolicy.
GetBucketPolicyDefaultsToNone ==
  /\ pc = "policy" /\ pc' = "acl"
  /\ \/ policy' = world.policy
     \/ policy' = Absent
  /\ UNCHANGED <<world, accountBlock, acl, bucketBlock, errors, report>>

GetBucketPolicy ==
  /\ pc = "policy" /\ pc' = "acl"
  /\ \/ policy' = world.policy /\ UNCHANGED errors
     \/ Fails("policy") /\ UNCHANGED policy
  /\ UNCHANGED <<world, accountBlock, acl, bucketBlock, report>>

GetBucketAcl ==
  /\ pc = "acl" /\ pc' = "bucket"
  /\ \/ acl' = world.acl /\ UNCHANGED errors
     \/ Fails("acl") /\ UNCHANGED acl
  /\ UNCHANGED <<world, accountBlock, policy, bucketBlock, report>>

GetPublicAccessBlock ==
  /\ pc = "bucket" /\ pc' = "evaluate"
  /\ \/ /\ \E omitted \in Omissions : bucketBlock' = Answer(world.bucket, omitted)
        /\ UNCHANGED errors
     \/ Fails("bucket") /\ UNCHANGED bucketBlock
  /\ UNCHANGED <<world, accountBlock, policy, acl, report>>

\* evaluateS3Access; a policy it cannot parse is one more error.
Evaluate ==
  /\ pc = "evaluate" /\ pc' = "done"
  /\ LET access == EvaluateS3Access(policy, acl, bucketBlock, accountBlock) IN
     report' = IF AccessControlHasValues(access, bucketBlock, accountBlock)
               THEN [access |-> access,
                     block |-> [f \in BlockFlags |->
                                 MergePublicAccessBlocks(bucketBlock, accountBlock, f)]]
               ELSE NoReport
  /\ IF policy = Malformed THEN Fails("document") ELSE UNCHANGED errors
  /\ UNCHANGED <<world, accountBlock, policy, acl, bucketBlock>>

\* The bucket is reported; nothing more happens to it.
Reported == pc = "done" /\ UNCHANGED vars

Next ==
  \/ GetAccountPublicAccessBlock \/ GetBucketPolicy \/ GetBucketAcl
  \/ GetPublicAccessBlock \/ Evaluate \/ Reported

Spec == Init /\ [][Next]_vars

----------------------------------------------------------------------------
PossibleBlock == BlockAnswer \cup {Unavailable}

TypeOK ==
  /\ world \in Worlds
  /\ accountBlock \in PossibleBlock /\ bucketBlock \in PossibleBlock
  /\ policy \in {world.policy, Unavailable} /\ acl \in {world.acl, Unavailable}
  /\ errors \subseteq {"account", "policy", "acl", "bucket", "document"}
  /\ pc \in {"account", "policy", "acl", "bucket", "evaluate", "done"}
  /\ report \in Reports \cup {NoReport}

(***************************************************************************)
(* The truth about the bucket, bracketed where its policy is in doubt: who *)
(* can use what, given the policy, the ACL and both blocks.                *)
(***************************************************************************)
Blocked(flag) == WorldBlock(world.account)[flag] \/ WorldBlock(world.bucket)[flag]

SurelyDenied(op, kind) ==
  world.policy \notin {Absent, Malformed} /\ SurelyDenies(world.policy, op, kind)
PossiblyDenied(op, kind) ==
  CASE world.policy = Absent -> FALSE
    [] world.policy = Malformed -> TRUE
    [] OTHER -> PossiblyDenies(world.policy, op, kind)

\* Full control is the use of every operation, any other permission of some.
Usable(permission, denied(_)) ==
  IF permission = "FULL_CONTROL"
  THEN \A op \in PermissionOperations(permission) : ~denied(op)
  ELSE \E op \in PermissionOperations(permission) : ~denied(op)

ACLGives(group, permission, denied(_)) ==
  /\ Granted(world.acl, group, permission)
  /\ group # "LogDelivery" => ~Blocked("IgnorePublicAcls")
  /\ Usable(permission, denied)

ACLSurely(group, permission) ==
  LET denied(op) == PossiblyDenied(op, PrincipalKind(group))
  IN ACLGives(group, permission, denied)
ACLPossibly(group, permission) ==
  LET denied(op) == SurelyDenied(op, PrincipalKind(group))
  IN ACLGives(group, permission, denied)

PolicySurely(ops) ==
  /\ ~Blocked("RestrictPublicBuckets")
  /\ world.policy \notin {Absent, Malformed} /\ SurelyPublic(world.policy, ops)
PolicyPossibly(ops) ==
  /\ ~Blocked("RestrictPublicBuckets")
  /\ world.policy # Absent
  /\ world.policy # Malformed => PossiblyPublic(world.policy, ops)

Surely(f) ==
  CASE f = "AllowPublicList" -> ACLSurely("AllUsers", "READ") \/ PolicySurely(ListOperations)
    [] f = "AllowPublicRead" -> PolicySurely(ReadOperations)
    [] f = "AllowPublicWrite" -> ACLSurely("AllUsers", "WRITE") \/ PolicySurely(WriteOperations)
    [] OTHER -> ACLSurely(ACLFields[f][1], ACLFields[f][2])

Possibly(f) ==
  CASE f = "AllowPublicList" -> ACLPossibly("AllUsers", "READ") \/ PolicyPossibly(ListOperations)
    [] f = "AllowPublicRead" -> PolicyPossibly(ReadOperations)
    [] f = "AllowPublicWrite" -> ACLPossibly("AllUsers", "WRITE") \/ PolicyPossibly(WriteOperations)
    [] OTHER -> ACLPossibly(ACLFields[f][1], ACLFields[f][2])

\* The probes of the policy stand for every object it may open.
WorldProbed ==
  world.policy \notin {Absent, Malformed} =>
    \A op \in ObjectOperations : Probed(world.policy, op)

\* No report claims what is not so, whichever calls failed, whatever the
\* answers left out and however the policy's doubts are settled: an access said
\* to be open is open, one said to be closed is closed, and so for the blocks.
AccessSound ==
  report # NoReport =>
    /\ \A f \in Fields : report.access[f] = "yes" => Surely(f)
    /\ \A f \in Fields :
         report.access[f] = "no" /\ (f \in {"AllowPublicRead", "AllowPublicWrite"} => WorldProbed) =>
           ~Possibly(f)
    /\ \A f \in BlockFlags : Agrees(report.block[f], Blocked(f))

\* A failed call only costs knowledge: what is reported without its answer is
\* what would be reported with every answer, or nothing.
PartialEvidenceAgrees ==
  report # NoReport =>
    LET complete == EvaluateS3Access(world.policy, world.acl,
                                     Answer(world.bucket, {}), Answer(world.account, {}))
    IN \A f \in Fields : report.access[f] \in {"unknown", complete[f]}

\* Nothing stays unknown without a cause a user can see: with no error, complete
\* answers and a policy the classifiers are sure of, every field is decided.
CompleteEvidenceDecides ==
  /\ pc = "done" /\ errors = {}
  /\ \A f \in BlockFlags : "unknown" \notin {accountBlock[f], bucketBlock[f]}
  /\ policy # Absent => CertainPolicy(policy)
  => report # NoReport /\ \A f \in Fields : report.access[f] # "unknown"

\* Evidence that is missing leaves a field unknown and never changes it, and
\* evidence that is complete decides it.
EvidenceCounts == PartialEvidenceAgrees /\ CompleteEvidenceDecides
=============================================================================
