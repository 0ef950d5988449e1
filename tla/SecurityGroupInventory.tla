------------------------ MODULE SecurityGroupInventory ------------------------
(***************************************************************************)
(* EnumerateSecurityGroups.  The groups of EC2 and the older ones of RDS   *)
(* are listed, then converted: those of EC2 with rules that are listed for *)
(* each, those of RDS with the authorizations they come with.              *)
(***************************************************************************)
EXTENDS ServiceReport

\* A rule has one peer: a prefix, a group or a prefix list.  The filter asks for
\* the rules of the group; one that says it is of another is not taken.
RuleConverts(r) ==
  r.whole /\ r.group \in {NoId, item.name} /\ r.direction # NoId /\ r.peers = 1

ListGroups(t, next) ==
  /\ pc = t
  /\ \E batch \in SUBSET Awaited(t), last \in BOOLEAN :
       /\ IsPage(batch, Awaited(t), last)
       /\ CallAgain(last)
       /\ undelivered' = undelivered \ batch
       /\ queue' = queue \cup batch
       /\ pc' = IF last THEN next ELSE t
  /\ UNCHANGED <<where, building, reported, links, errors, resolverVars>>

GroupsFail(t, next) ==
  /\ pc = t /\ pc' = next
  /\ CallAgain(TRUE)
  /\ errors' = errors \cup {ListError(t, Region)}
  /\ UNCHANGED <<where, undelivered, queue, building, reported, links, resolverVars>>

IsDbGroup(x) == x.type = "db group"
ItsTurn(x) == IsDbGroup(x) => \A y \in queue : IsDbGroup(y)

RejectGroup(x) == Pass = "securitygroup" /\ x \in queue /\ ItsTurn(x) /\ ~x.whole /\ RejectItem(x)

AcceptGroup(x) ==
  /\ Pass = "securitygroup" /\ TakeFromQueue(x) /\ ItsTurn(x) /\ x.type = "group" /\ x.whole
  /\ item' = x /\ pending' = Asked(x) /\ pc' = "rule"
  /\ UNCHANGED <<where, undelivered, paging, built, reported, links, errors, resolverVars>>

\* An authorization is of a prefix, or of a group by id, or by name and owner;
\* this last one is reported, and told, for it refers to no group.
Authorized(a) == a.whole \/ a.named

AcceptDbGroup(x) ==
  /\ Pass = "securitygroup" /\ TakeFromQueue(x) /\ ItsTurn(x) /\ IsDbGroup(x) /\ x.whole
  /\ item' = x /\ pending' = Asked(x) /\ pc' = "references"
  /\ LET given == Parts("authorization", x) IN
       /\ built' = {a \in given : Authorized(a)}
       /\ errors' = errors \cup Rejections(given \ Whole(given))
  /\ UNCHANGED <<where, undelivered, paging, reported, links, resolverVars>>

ListRules ==
  /\ pc = "rule"
  /\ \E batch \in SUBSET AwaitedParts("rule", item), last \in BOOLEAN :
       LET taken == {r \in batch : RuleConverts(r)} IN
       /\ IsPage(batch, AwaitedParts("rule", item), last)
       /\ CallAgain(last)
       /\ undelivered' = undelivered \ batch
       /\ built' = built \cup taken
       /\ errors' = errors \cup Rejections(batch \ taken)
       /\ pc' = IF last THEN "references" ELSE "rule"
  /\ UNCHANGED <<where, queue, item, pending, reported, links, resolverVars>>

\* The rules of the pages before are converted.
RulesFail ==
  /\ pc = "rule" /\ pc' = "references"
  /\ CallAgain(TRUE)
  /\ errors' = errors \cup {ListError("rule", item.name)}
  /\ UNCHANGED <<where, undelivered, queue, building, reported, links, resolverVars>>

GroupsNext ==
  \/ ListGroups("group", "db group") \/ GroupsFail("group", "db group")
  \/ ListGroups("db group", "convert") \/ GroupsFail("db group", "convert")
  \/ \E x \in queue : RejectGroup(x) \/ AcceptGroup(x) \/ AcceptDbGroup(x)
  \/ ListRules \/ RulesFail
=============================================================================
