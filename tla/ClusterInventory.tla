--------------------------- MODULE ClusterInventory ---------------------------
(***************************************************************************)
(* EnumerateEks.  Clusters are listed by name and described one by one.    *)
(* In an active one Kubernetes is asked for all its pods, nodes and        *)
(* services, and the three lists are joined.                               *)
(***************************************************************************)
EXTENDS ServiceReport

\* Any token is followed, be it the last one again.
ListClusters ==
  /\ pc = "cluster"
  /\ \E batch \in SUBSET Awaited("cluster"), last \in BOOLEAN :
       /\ last => batch = Awaited("cluster")
       /\ undelivered' = undelivered \ batch
       /\ queue' = queue \cup batch
       /\ IF last THEN calls' = 0 /\ pc' = "convert" ELSE calls' = 1 - calls /\ UNCHANGED pc
  /\ UNCHANGED <<where, more, marker, building, reported, links, errors, resolverVars>>

ClustersFail ==
  /\ pc = "cluster" /\ pc' = "convert" /\ calls' = 0
  /\ errors' = errors \cup {ListError("cluster", Region)}
  /\ UNCHANGED <<where, undelivered, more, marker, queue, building, reported, links, resolverVars>>

\* The description may fail, or convertClusterToFern refuse what it says.
DescribeFails(x) == Pass = "eks" /\ RejectItem(x)

\* It may bring no cluster, or one without name or ARN.  The error says of no
\* cluster that it is the one.
Nameless == <<"rejected", NoId, NoId>>

DescribesNone(x) ==
  /\ Pass = "eks" /\ TakeFromQueue(x) /\ ~x.whole
  /\ errors' = errors \cup {Nameless}
  /\ UNCHANGED <<where, pc, undelivered, paging, building, reported, links, resolverVars>>

\* convertClusterToFern.
DescribeCluster(x) ==
  /\ Pass = "eks" /\ TakeFromQueue(x) /\ x.whole
  /\ item' = x /\ pending' = Asked(x) /\ pc' = "references"
  /\ UNCHANGED <<where, undelivered, paging, built, reported, links, errors, resolverVars>>

----------------------------------------------------------------------------
(***************************************************************************)
(* enumerateKubernetesResources.                                           *)
(***************************************************************************)
Objects == {"pod", "node", "service"}

\* An endpoint that is given and empty fails like a client that cannot be made.
Readable(x) == x.active

NotReadable ==
  /\ pc = "kubernetes" /\ ~Readable(item) /\ pc' = "append"
  /\ UNCHANGED <<where, undelivered, paging, queue, building, reported, links, errors, resolverVars>>

ConnectFails ==
  /\ pc = "kubernetes" /\ Readable(item) /\ pc' = "append"
  /\ errors' = errors \cup {<<"connect", item.name, NoId>>}
  /\ UNCHANGED <<where, undelivered, paging, queue, building, reported, links, resolverVars>>

External(s) == s.kind \in {"LoadBalancer", "NodePort"} \/ s.external

\* A service without a selector selects nothing.
Selects(s, p) ==
  /\ s.kind # "ExternalName" /\ s.selector # {}
  /\ p.namespace = s.namespace /\ s.selector \subseteq p.labels

\* buildServicePodRelationships that forgets the namespaces.
ServicePodsOfAnyNamespace(services, pods) ==
  {j \in Whole(services) \X Whole(pods) :
     j[1].kind # "ExternalName" /\ j[1].selector # {} /\ j[1].selector \subseteq j[2].labels}

\* buildServicePodRelationships, over the lists as they came.
ServicePods(services, pods) == {j \in Whole(services) \X Whole(pods) : Selects(j[1], j[2])}

\* buildNodePodStructures: pods that were converted, under the node they name.
NodePods(nodes, pods) == {j \in Whole(nodes) \X Whole(pods) : j[2].node = j[1].host}

\* Each list may fail; the others are used, and joined, all the same.  A pod
\* keeps every service, a service is reported only when reached from outside.
ReadObjects ==
  /\ pc = "kubernetes" /\ Readable(item) /\ pc' = "append"
  /\ \E failing \in SUBSET Objects :
       LET Listed(t) == IF t \in failing THEN {} ELSE Parts(t, item)
           external == {s \in Listed("service") : External(s)}
           found == Listed("pod") \cup Listed("node") \cup external
           serving == ServicePods(Listed("service"), Listed("pod"))
       IN /\ undelivered' = undelivered \ found
          /\ built' = built \cup Whole(found)
          /\ errors' = errors \cup Rejections(found \ Whole(found))
                              \cup {ListError(t, item.name) : t \in failing}
          /\ links' = links
               \cup {<<"served by", j[2].name, j[1].name>> : j \in serving}
               \cup {<<"targets", j[1].name, j[2].name>> : j \in {k \in serving : k[1] \in external}}
               \cup {<<"runs", j[1].name, j[2].name>> : j \in NodePods(Listed("node"), Listed("pod"))}
  /\ UNCHANGED <<where, paging, queue, item, pending, reported, resolverVars>>

ClustersNext ==
  \/ ListClusters \/ ClustersFail
  \/ \E x \in queue : DescribeFails(x) \/ DescribesNone(x) \/ DescribeCluster(x)
  \/ NotReadable \/ ConnectFails \/ ReadObjects
=============================================================================
