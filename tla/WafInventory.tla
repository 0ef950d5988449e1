----------------------------- MODULE WafInventory -----------------------------
(***************************************************************************)
(* EnumerateWAF.  The web ACLs of each region, with their rules and the    *)
(* load balancers and API stages they protect, and those of CloudFront,    *)
(* with their rules and the distributions they protect.  Both listings     *)
(* follow the markers of the service by themselves, and stop at one that   *)
(* is the same as the last.                                                *)
(***************************************************************************)
EXTENDS ServiceReport

IsWafPass == Pass \in {"waf", "cloudfront"}
Scope == IF Pass = "waf" THEN "regional" ELSE "global"

AwaitedACLs == {x \in Awaited("web acl") : x.scope = Scope}

Given == Markers \cup {NoId}

\* ListWebACLs without the guard.
ListWebACLsUnguarded ==
  /\ pc = "web acl"
  /\ \E batch \in SUBSET AwaitedACLs, next \in Given :
       /\ next = NoId => batch = AwaitedACLs
       /\ undelivered' = undelivered \ batch
       /\ queue' = queue \cup batch
       /\ UNCHANGED errors
       /\ IF next = NoId THEN marker' = NoId /\ calls' = 0 /\ pc' = "convert"
          ELSE marker' = next /\ calls' = 1 - calls /\ UNCHANGED pc
  /\ UNCHANGED <<where, more, building, reported, links, resolverVars>>

ListWebACLs ==
  /\ pc = "web acl"
  /\ \E batch \in SUBSET AwaitedACLs, next \in Given :
       /\ next = NoId => batch = AwaitedACLs
       /\ undelivered' = undelivered \ batch
       /\ queue' = queue \cup batch
       /\ errors' = IF next # NoId /\ next = marker
                    THEN errors \cup {ListError(Pass, Region)} ELSE errors
       /\ IF next \in {NoId, marker} THEN marker' = NoId /\ calls' = 0 /\ pc' = "convert"
          ELSE marker' = next /\ calls' = 1 - calls /\ UNCHANGED pc
  /\ UNCHANGED <<where, more, building, reported, links, resolverVars>>

WebACLsFail ==
  /\ pc = "web acl" /\ pc' = "convert"
  /\ errors' = errors \cup {ListError(Pass, Region)}
  /\ marker' = NoId /\ calls' = 0
  /\ UNCHANGED <<where, undelivered, more, queue, building, reported, links, resolverVars>>

\* validateWebACLIdentity: whole means an ARN of this region, scope and id.
RejectACL(x) == IsWafPass /\ x \in queue /\ ~x.whole /\ RejectItem(x)

AcceptACL(x) ==
  /\ IsWafPass /\ TakeFromQueue(x) /\ x.whole
  /\ item' = x /\ pc' = "acl rule"
  /\ UNCHANGED <<where, undelivered, paging, built, pending, reported, links, errors, resolverVars>>

\* ruleActions: the reference to a group of rules overrides their actions in
\* exactly one way, another rule has exactly one action.
ActionsFit(r) ==
  IF r.statement = "group" THEN r.action = "absent" /\ r.override = "one"
  ELSE r.action = "one" /\ r.override = "absent"

RuleIsRead(r) == r.whole /\ r.statement # NoId /\ ActionsFit(r)

RulesRead == pc' = IF Pass = "waf" THEN "resources" ELSE "append"

GetRules ==
  /\ pc = "acl rule" /\ RulesRead
  /\ LET given == Parts("acl rule", item)
         read == {r \in given : RuleIsRead(r)}
     IN /\ undelivered' = undelivered \ given
        /\ built' = built \cup read
        /\ errors' = errors \cup Rejections(given \ read)
  /\ UNCHANGED <<where, paging, queue, item, pending, reported, links, resolverVars>>

GetRulesFails ==
  /\ pc = "acl rule" /\ RulesRead
  /\ errors' = errors \cup {ListError("acl rule", item.name)}
  /\ UNCHANGED <<where, undelivered, paging, queue, building, reported, links, resolverVars>>

\* resourcesForWebACL asks for each type on its own.
ListResources ==
  /\ pc = "resources" /\ pc' = "append"
  /\ \E failing \in SUBSET {"load balancer", "stage"} :
       LET brought == UNION {Parts(t, item) : t \in {"load balancer", "stage"} \ failing} IN
       /\ undelivered' = undelivered \ brought
       /\ built' = built \cup Whole(brought)
       /\ errors' = errors \cup Rejections(brought \ Whole(brought))
                           \cup {ListError(t, item.name) : t \in failing}
  /\ UNCHANGED <<where, paging, queue, item, pending, reported, links, resolverVars>>

----------------------------------------------------------------------------
(***************************************************************************)
(* distributionsForWebACL.                                                 *)
(***************************************************************************)
BeginDistributions(x) ==
  /\ pc = "distributions" /\ x \in queue
  /\ queue' = queue \ {x} /\ item' = x /\ pc' = "distribution"
  /\ UNCHANGED <<where, undelivered, paging, built, pending, reported, links, errors, resolverVars>>

\* A distribution that says it has another web ACL is not taken.
Protected(d) == d.whole /\ d.acl \in {NoId, item.name}

\* The list says by itself whether it is truncated.
ListDistributions ==
  /\ pc = "distribution"
  /\ \E batch \in SUBSET AwaitedParts("distribution", item), next \in Given, truncated \in BOOLEAN :
       LET taken == {d \in batch : Protected(d)}
           stuck == truncated /\ next \in {NoId, marker}
       IN /\ ~truncated => batch = AwaitedParts("distribution", item) /\ next = NoId
          /\ undelivered' = undelivered \ batch
          /\ built' = built \cup taken
          /\ errors' = errors \cup Rejections(batch \ taken)
                              \cup (IF stuck THEN {ListError("distribution", item.name)} ELSE {})
          /\ IF stuck \/ ~truncated THEN marker' = NoId /\ calls' = 0 /\ pc' = "distributed"
             ELSE marker' = next /\ calls' = 1 - calls /\ UNCHANGED pc
  /\ UNCHANGED <<where, more, queue, item, pending, reported, links, resolverVars>>

DistributionsFail ==
  /\ pc = "distribution" /\ pc' = "distributed"
  /\ errors' = errors \cup {ListError("distribution", item.name)}
  /\ marker' = NoId /\ calls' = 0
  /\ UNCHANGED <<where, undelivered, more, queue, building, reported, links, resolverVars>>

EndDistributions ==
  /\ pc = "distributed" /\ pc' = "distributions"
  /\ reported' = reported \cup built /\ built' = {} /\ item' = NoItem
  /\ UNCHANGED <<where, undelivered, paging, queue, pending, links, errors, resolverVars>>

DistributionsDone ==
  /\ pc = "distributions" /\ queue = {} /\ pc' = "region"
  /\ UNCHANGED <<where, undelivered, paging, queue, building, reported, links, errors, resolverVars>>

WafNext ==
  \/ ListWebACLs \/ WebACLsFail
  \/ \E x \in queue : RejectACL(x) \/ AcceptACL(x) \/ BeginDistributions(x)
  \/ GetRules \/ GetRulesFails \/ ListResources
  \/ ListDistributions \/ DistributionsFail \/ EndDistributions \/ DistributionsDone
=============================================================================
