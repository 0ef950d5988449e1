------------------------ MODULE LoadBalancerInventory ------------------------
(***************************************************************************)
(* EnumerateLoadBalancers.  The classic ones (v1) come with their          *)
(* listeners and targets.  Of the others (v2) the listeners, with their    *)
(* certificates, and the target groups, with their targets, are listed by  *)
(* further calls.                                                          *)
(***************************************************************************)
EXTENDS ServiceReport

IsClassic == Pass = "v1"
IsBalancerPass == Pass \in {"v1", "v2"}
OfThisPass(x) == x.classic = IsClassic

AwaitedBalancers == {x \in Awaited("balancer") : OfThisPass(x)}

ListBalancers ==
  /\ pc = "balancer" /\ pc' = "convert"
  /\ \E batch \in SUBSET AwaitedBalancers, last \in BOOLEAN :
       /\ IsPage(batch, AwaitedBalancers, last)
       /\ undelivered' = undelivered \ batch
       /\ queue' = batch /\ more' = ~last
  /\ UNCHANGED <<where, marker, calls, building, reported, links, errors, resolverVars>>

BalancersFail ==
  /\ pc = "balancer" /\ pc' = "region" /\ more' = FALSE
  /\ errors' = errors \cup {ListError(Pass, Region)}
  /\ UNCHANGED <<where, undelivered, marker, calls, queue, building, reported, links, resolverVars>>

\* A classic one needs a name, another one an ARN and a type that is known.
BalancerConverts(x) == x.whole /\ (IsClassic \/ x.kind \in {"application", "network", "gateway"})

RejectBalancer(x) == IsBalancerPass /\ x \in queue /\ ~BalancerConverts(x) /\ RejectItem(x)

\* targetsForLoadBalancerV1 and listenersForLoadBalancerV1.
AcceptClassic(x) ==
  /\ IsClassic /\ TakeFromQueue(x) /\ BalancerConverts(x)
  /\ item' = x /\ pending' = Asked(x) /\ pc' = "references"
  /\ LET given == Parts("target", x) \cup Parts("listener", x) IN
       /\ built' = Whole(given)
       /\ errors' = errors \cup Rejections(given \ Whole(given))
  /\ UNCHANGED <<where, undelivered, paging, reported, links, resolverVars>>

AcceptBalancer(x) ==
  /\ Pass = "v2" /\ TakeFromQueue(x) /\ BalancerConverts(x)
  /\ item' = x /\ pending' = Asked(x) /\ pc' = "listener"
  /\ UNCHANGED <<where, undelivered, paging, built, reported, links, errors, resolverVars>>

----------------------------------------------------------------------------
(***************************************************************************)
(* Listeners and target groups of one load balancer.                       *)
(***************************************************************************)
\* A listener names its default certificate.  Only then is it asked for the
\* others, page by page; what came before a failure is merged all the same.
Defaults(ls) == {c \in PartsOfAll("certificate", ls) : c.default}
Others(ls) == {c \in PartsOfAll("certificate", ls) : ~c.default}

ListListeners ==
  /\ pc = "listener"
  /\ \E batch \in SUBSET AwaitedParts("listener", item), last \in BOOLEAN :
     LET kept == Whole(batch)
         asked == {l \in kept : Defaults({l}) # {}}
     IN \E failing \in SUBSET asked : \E lost \in SUBSET Others(failing) :
          LET brought == Defaults(kept) \cup (Others(asked) \ lost)
              found == batch \cup brought \cup PartsOfAll("forward", kept)
          IN /\ IsPage(batch, AwaitedParts("listener", item), last)
             /\ CallAgain(last)
             /\ undelivered' = undelivered \ (batch \cup brought)
             /\ built' = built \cup Whole(found)
             /\ errors' = errors \cup Rejections(found \ Whole(found))
                                 \cup {ListError("certificate", l.name) : l \in failing}
             /\ pc' = IF last THEN "target group" ELSE "listener"
  /\ UNCHANGED <<where, queue, item, pending, reported, links, resolverVars>>

ListenersFail ==
  /\ pc = "listener" /\ pc' = "target group"
  /\ CallAgain(TRUE)
  /\ errors' = errors \cup {ListError("listener", item.name)}
  /\ UNCHANGED <<where, undelivered, queue, building, reported, links, resolverVars>>

\* DescribeTargetHealth of a group may fail.  Then, and when the targets are of
\* a type that is not known, the group has none.
ListTargetGroups ==
  /\ pc = "target group"
  /\ \E batch \in SUBSET AwaitedParts("target group", item), last \in BOOLEAN :
     LET kept == Whole(batch)
         unknown == {g \in kept : ~g.known /\ Parts("target", g) # {}}
     IN \E unhealthy \in SUBSET kept :
          LET failing == unhealthy \cup unknown
              brought == PartsOfAll("target", kept \ failing)
              found == batch \cup brought
          IN /\ IsPage(batch, AwaitedParts("target group", item), last)
             /\ CallAgain(last)
             /\ undelivered' = undelivered \ found
             /\ built' = built \cup Whole(found)
             /\ errors' = errors \cup Rejections(found \ Whole(found))
                                 \cup {ListError("target", g.name) : g \in failing}
             /\ pc' = IF last THEN "references" ELSE "target group"
  /\ UNCHANGED <<where, queue, item, pending, reported, links, resolverVars>>

TargetGroupsFail ==
  /\ pc = "target group" /\ pc' = "references"
  /\ CallAgain(TRUE)
  /\ errors' = errors \cup {ListError("target group", item.name)}
  /\ UNCHANGED <<where, undelivered, queue, building, reported, links, resolverVars>>

BalancersNext ==
  \/ ListBalancers \/ BalancersFail
  \/ \E x \in queue : RejectBalancer(x) \/ AcceptClassic(x) \/ AcceptBalancer(x)
  \/ ListListeners \/ ListenersFail \/ ListTargetGroups \/ TargetGroupsFail
=============================================================================
