--------------------------- MODULE ServiceInventory ---------------------------
(***************************************************************************)
(* The enumerators of VPCs, security groups, load balancers, web ACLs,     *)
(* EKS clusters, function URLs and those of global services together, each *)
(* of which implements Inventory.                                          *)
(***************************************************************************)
EXTENDS VpcInventory, SecurityGroupInventory, LoadBalancerInventory, WafInventory,
        ClusterInventory, GlobalInventory, FunctionURLs

\* The report has been returned.
Returned == pc = "done" /\ UNCHANGED vars

Next ==
  \/ NextRegion \/ NextPass
  \/ VpcNext \/ GroupsNext \/ BalancersNext \/ WafNext \/ ClustersNext \/ GlobalNext \/ FunctionsNext
  \/ ResolveReference \/ ReferencesDone \/ AppendItem \/ QueueDone
  \/ Returned

\* The program is one sequence of calls that each return.
Spec == Init /\ [][Next]_vars /\ WF_vars(Next)

----------------------------------------------------------------------------
(***************************************************************************)
(* What AWS and the callers of the enumerators make of a world.            *)
(***************************************************************************)
\* The passes of each enumerator.  The versions of load balancers are in the
\* order of the flag, which names none of them twice.
Enumerators ==
  {<<"vpc">>, <<"securitygroup">>, <<"v1">>, <<"v2">>, <<"v1", "v2">>, <<"v2", "v1">>, <<"waf", "cloudfront">>, <<"eks">>,
   <<"route53">>, <<"roles">>, <<"own roles">>, <<"cdn">>, <<"objects">>, <<"lambda">>}

RootTypes ==
  {"vpc", "subnet", "group", "db group", "balancer", "web acl", "cluster", "zone", "role", "cdn",
   "bucket", "function"}

\* What comes with what.
IsPartOf(x, p) ==
  \/ x.type = "association" /\ p.type \in {"vpc", "subnet"}
  \/ x.type = "rule" /\ p.type = "group"
  \/ x.type = "authorization" /\ p.type = "db group"
  \/ x.type = "listener" /\ p.type = "balancer"
  \/ x.type = "target group" /\ p.type = "balancer" /\ ~p.classic
  \/ x.type = "target" /\ p.type = "balancer" /\ p.classic
  \/ x.type = "target" /\ p.type = "target group"
  \/ x.type \in {"certificate", "forward"} /\ p.type = "listener"
  \/ x.type = "acl rule" /\ p.type = "web acl"
  \/ x.type \in {"load balancer", "stage"} /\ p.type = "web acl" /\ p.scope = "regional"
  \/ x.type = "distribution" /\ p.type = "web acl" /\ p.scope = "global"
  \/ x.type \in Objects /\ p.type = "cluster"
  \/ x.type = "record" /\ p.type = "zone"
  \/ x.type = "value" /\ p.type = "record"
  \/ x.type = "attachment" /\ p.type = "role"
  \/ x.type = "document" /\ p.type = "attachment"
  \/ x.type = "origin" /\ p.type = "cdn"
  \/ x.type = "backend" /\ p.type = "origin" /\ Resolvable(p)
  \/ x.type = "object" /\ p.type = "bucket"
  \/ x.type = "url" /\ p.type = "function"

\* A listener that has certificates has a default one, and the objects of one
\* bucket are listed.  Classic listeners have no parts: theirs are fields.  What
\* has the same target has the same policy, that of the target.
ASSUME WorldAssumption ==
  \A w \in Worlds :
    /\ w.passes \in Enumerators
    /\ \A x \in w.items :
         /\ x.name # NoId
         /\ x.of = NoId => x.type \in RootTypes
         /\ x.of # NoId => \E p \in w.items : x.of = p.name /\ IsPartOf(x, p)
         /\ x.type = "balancer" => x.classic \in BOOLEAN
         /\ x.type = "web acl" => x.scope \in {"regional", "global"}
         /\ x.type \in {"certificate", "forward"} =>
              \A l, b \in w.items : x.of = l.name /\ l.of = b.name => ~b.classic
         /\ x.type = "certificate" => \E c \in w.items : c.type = "certificate" /\ c.of = x.of /\ c.default
    /\ \A x, y \in w.items : x.type = "bucket" /\ y.type = "bucket" => x = y
    /\ \A x, y \in w.items :
         {x.type, y.type} \subseteq {"function", "url"} => (x.target = y.target => x.policy = y.policy)

----------------------------------------------------------------------------
Listings ==
  {"vpc", "subnet", "group", "db group", "rule", "balancer", "listener", "target group",
   "web acl", "acl rule", "distribution", "cluster", "zone", "record", "role", "attachment", "cdn",
   "bucket", "object", "function", "url"}

\* Types, and that an item is there exactly while one is built, of this region
\* and with parts and open references of its own.
TypeOK ==
  /\ world \in Worlds /\ turn \in 1 .. Len(world.passes) + 1
  /\ pc \in Listings \cup {"region", "convert", "references", "kubernetes", "resources", "origin",
                           "append", "distributions", "distributed", "done"}
  /\ undelivered \subseteq world.items /\ reported \subseteq world.items
  /\ queue \subseteq world.items \ undelivered
  /\ more \in BOOLEAN /\ calls \in {0, 1} /\ marker \in Markers \cup {NoId}
  /\ marker # NoId => pc \in {"web acl", "distribution"}
  /\ item # NoItem <=> pc \in {"rule", "references", "listener", "target group", "acl rule", "resources",
                               "kubernetes", "append", "distribution", "distributed",
                               "record", "attachment", "origin", "object", "url"}
  /\ item # NoItem => item \in world.items /\ item.region = Region
  /\ pending # {} => pc \in {"rule", "references", "listener", "target group"} /\ pending \subseteq Asked(item)
  /\ item = NoItem => built = {} /\ pending = {}
  /\ pc = "region" => queue = {}

----------------------------------------------------------------------------
(***************************************************************************)
(* The contract of an inventory.                                           *)
(***************************************************************************)
\* An item, what it is a part of, and what that is a part of.
Above(x) == {y \in Items : y.name = x.of}
LineOf == [x \in Items |-> {x} \cup Above(x) \cup UNION {Above(y) : y \in Above(x)}]

PassOf(x) ==
  CASE x.type \in {"vpc", "subnet"} -> "vpc"
    [] x.type \in {"group", "db group"} -> "securitygroup"
    [] x.type = "balancer" -> IF x.classic THEN "v1" ELSE "v2"
    [] x.type = "web acl" -> IF x.scope = "global" THEN "cloudfront" ELSE "waf"
    [] x.type = "cluster" -> "eks"
    [] x.type = "zone" -> "route53"
    [] x.type = "cdn" -> "cdn"
    [] x.type = "bucket" -> "objects"
    [] x.type = "function" -> "lambda"

\* The roles of AWS may be left out.
Passes(x) ==
  CASE x.type = "role" -> IF x.marks = {} THEN RolePasses ELSE {"roles"}
    [] OTHER -> {PassOf(x)}

Selected(w, x) ==
  \E t \in DOMAIN w.passes :
    /\ w.passes[t] \in Passes(x)
    /\ \E i \in DOMAIN RegionsOf(w, w.passes[t]) : RegionsOf(w, w.passes[t])[i] = x.region

\* Everything in the regions that were selected, except what an inactive cluster
\* has, services that are reached from within their cluster only, the bucket
\* itself whose objects are listed, and objects without a size.
WantedOf ==
  [w \in Worlds |->
     {x \in w.items :
        /\ \A y \in LineOf[x] : y.of = NoId => Selected(w, y)
        /\ x.type \in Objects => \A y \in Above(x) : Readable(y)
        /\ x.type = "service" => External(x)
        /\ x.type # "bucket" /\ (x.type = "object" => x.sized)}]

Wanted == WantedOf[world]

ListOf(x) ==
  IF x.of # NoId THEN ListError(x.type, x.of)
  ELSE ListError(IF x.type \in {"balancer", "web acl"} THEN PassOf(x) ELSE x.type, x.region)

\* What accounts for an item that is missing: its own rejection, the failure of
\* the very listing it should have come with, or the same of what it belongs to.
\* Of a cluster that is described without its identity, an error that names none.
Excused(x) ==
  \E y \in LineOf[x] :
    \/ <<"rejected", y.name, NoId>> \in errors
    \/ y.type = "cluster" /\ ~y.whole /\ Nameless \in errors
    \/ y \in undelivered /\ ListOf(y) \in errors
    \/ y.type \in Objects /\ <<"connect", y.of, NoId>> \in errors

Contract ==
  INSTANCE Inventory WITH
    present <- Wanted,
    reported <- reported \cap Wanted,
    excused <- {x \in Wanted : Excused(x)},
    returned <- pc = "done"

\* Each enumerator keeps the contract of an inventory, down to the parts: a rule,
\* listener, target, subnet, pod or distribution that exists is reported, or an
\* error says of it, of its listing or of what it belongs to that it is missing,
\* whichever calls and pages fail.
KeepsContract == Contract!Spec

----------------------------------------------------------------------------
(***************************************************************************)
(* Relations.                                                              *)
(***************************************************************************)
Of(t) == {x \in reported : x.type = t}

\* A subnet is reported in the VPC it names, of its own region.
SubnetsJoined ==
  \A s \in Of("subnet") :
    /\ <<"subnet", s.vpc, s.name>> \in links
    /\ \E v \in Of("vpc") : v.name = s.vpc /\ v.region = s.region

\* Pods, nodes and services are told apart by cluster, and services and pods by
\* namespace; what one end says of a relation, the other one says too.
KubernetesAgrees ==
  /\ \A s \in Of("service"), p \in Of("pod") :
       LET joined == s.of = p.of /\ Selects(s, p) IN
       /\ (<<"targets", s.name, p.name>> \in links) = joined
       /\ (<<"served by", p.name, s.name>> \in links) = joined
  /\ \A n \in Of("node"), p \in Of("pod") :
       (<<"runs", n.name, p.name>> \in links) = (n.of = p.of /\ p.node = n.host)

\* No relation has an end that the report does not have, but for services that
\* are reached from within only.
EndsReported ==
  \A l \in links :
    l[1] \in {"subnet", "targets", "runs"} =>
      \A i \in {2, 3} : \E x \in reported \cup built : x.name = l[i]

\* What an item refers to in the network is there, or the report says of this
\* item that it, or the VPC that it is in, could not be resolved.
ReferencesTold ==
  \A x \in reported : x.type \in {"group", "db group", "balancer", "cluster"} =>
    \A id \in Asked(x) :
      \/ <<"refers", x.name, id>> \in links
      \/ <<"unresolved", x.name, id>> \in errors
      \/ id \in x.subnets /\ <<"unresolved", x.name, x.vpc>> \in errors

\* An origin at a service of AWS has the backend it names, or an error says of it
\* that none was found, or that it cannot be identified.
OriginsTold ==
  \A o \in {y \in Of("origin") : Resolvable(y)} :
    \/ ListError("backend", o.name) \in errors
    \/ \E b \in Parts("backend", o) : b \in reported \/ <<"rejected", b.name, NoId>> \in errors

\* A function and its URLs have the policy of what they lead to, and no other, or
\* the report says of that target that the policy could not be read.
PoliciesTold ==
  \A x \in Of("function") \cup Of("url") :
    LET given == {l[3] : l \in {m \in links : m[1] = "policy" /\ m[2] = x.name}} IN
    /\ given \subseteq {x.policy}
    /\ x.policy \in given \cup {"none"} \/ <<"policy", x.target, NoId>> \in errors

\* The relations of the report are those there are between what it holds, also
\* when one of the lists they are joined from is missing or broken off.
RelationsHold == SubnetsJoined /\ KubernetesAgrees /\ EndsReported /\ ReferencesTold /\ OriginsTold /\ PoliciesTold

\* The listings that follow any token, be it the last one again or that of an
\* empty page: those of the paginators, which are not told to stop at a token
\* they have had, and that of the clusters.
Followed == Listings \ {"web acl", "acl rule", "distribution", "bucket"}

AnotherPage == pc \in Followed /\ (pc' = pc \/ (pc' = "convert" /\ more'))

\* The enumeration ends, whichever calls fail, unless the service announces pages
\* for ever: in a listing that follows any token, or, where markers are compared,
\* with a marker that changes each time.  Repeating one marker does not do it.
Ends ==
  \/ <>(pc = "done")
  \/ []<><<AnotherPage>>_vars
  \/ []<><<marker' # marker>>_marker
=============================================================================
