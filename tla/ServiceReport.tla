---------------------------- MODULE ServiceReport ----------------------------
(***************************************************************************)
(* What the enumerators of VPCs, security groups, load balancers, web      *)
(* ACLs, EKS clusters, hosted zones, roles, distributions, function URLs   *)
(* and a bucket's objects have in common: region by region they list       *)
(* resources, read the parts of each with further calls, and join what     *)
(* belongs together.                                                       *)
(*                                                                         *)
(* An item is a record of its type, name, region, what it is a part of,    *)
(* and whether it is whole: has what its conversion asks for (an id, an    *)
(* ARN that fits it, a port, a prefix).  Types have fields of their own.   *)
(* Errors about attributes of an item that is reported, and regions        *)
(* without a name, are left out.                                           *)
(***************************************************************************)
EXTENDS NetworkReferences, Sequences, FiniteSets

CONSTANTS
  Worlds,        \* [passes, regions, home, items]: what runs, where, and what there is
  Markers,       \* pagination markers
  NoId,          \* what is not given
  NoItem,
  GlobalRegion,  \* us-east-1, where CloudFront is asked
  Commercial     \* the regions of the commercial partition

Items == UNION {w.items : w \in Worlds}

ASSUME ServiceAssumption ==
  /\ NoItem \notin Items /\ NoId \notin Ids \cup Markers /\ Failed \notin RegionNames
  /\ \A x, y \in Items : x.name = y.name => x = y
  /\ \A w \in Worlds :
       /\ w.regions \in Seq(RegionNames) /\ w.home \in RegionNames
       /\ \A i, j \in DOMAIN w.regions : w.regions[i] = w.regions[j] => i = j

VARIABLES
  world,        \* the world of this run; its items show in the listings only
  turn, place,  \* which pass, and the index of its region
  pc,           \* the type that is listed, or what is done with the queue
  undelivered,  \* the items that no call has brought yet
  more,         \* the listing has a next page
  marker,       \* the last marker of a listing that follows markers by itself
  calls,        \* the calls of a listing that goes on, modulo 2 (history)
  queue,        \* items listed and not converted
  item,         \* the one that is converted
  built,        \* the parts it has so far
  pending,      \* the ids it refers to that are still to be resolved
  reported,     \* the items of the report
  links,        \* its relations: <<what, name, name>>
  errors

where == <<world, turn, place>>
paging == <<more, marker, calls>>
building == <<item, built, pending>>
vars == <<where, pc, undelivered, paging, queue, building, reported, links, errors, resolverVars>>

Init ==
  /\ world \in Worlds /\ turn = 1 /\ place = 0 /\ pc = "region"
  /\ undelivered = world.items /\ more = FALSE /\ marker = NoId /\ calls = 0 /\ queue = {}
  /\ item = NoItem /\ built = {} /\ pending = {}
  /\ reported = {} /\ links = {} /\ errors = {}
  /\ ResolverInit /\ region = world.home

----------------------------------------------------------------------------
(***************************************************************************)
(* The passes and their regions.                                           *)
(***************************************************************************)
Pass == world.passes[turn]

\* cloudFrontWAFRegion: CloudFront belongs to the commercial partition.
GlobalRegions(w) ==
  LET first == IF w.regions = <<>> THEN w.home ELSE w.regions[1]
  IN IF first \in Commercial THEN <<GlobalRegion>> ELSE <<>>

RolePasses == {"roles", "own roles"}

\* A global service is asked once, whatever regions are selected.
RegionsOf(w, pass) ==
  CASE pass = "cloudfront" -> GlobalRegions(w)
    [] pass = "cdn" -> <<GlobalRegion>>
    [] pass \in RolePasses \cup {"route53", "objects"} -> <<w.home>>
    [] OTHER -> w.regions
Region == RegionsOf(world, Pass)[place]

FirstListing(pass) ==
  CASE pass = "vpc" -> "vpc"
    [] pass = "securitygroup" -> "group"
    [] pass \in {"v1", "v2"} -> "balancer"
    [] pass \in {"waf", "cloudfront"} -> "web acl"
    [] pass = "eks" -> "cluster"
    [] pass = "route53" -> "zone"
    [] pass \in RolePasses -> "role"
    [] pass = "cdn" -> "cdn"
    [] pass = "objects" -> "bucket"
    [] pass = "lambda" -> "function"

NextRegion ==
  /\ pc = "region" /\ turn <= Len(world.passes) /\ place < Len(RegionsOf(world, Pass))
  /\ place' = place + 1 /\ pc' = FirstListing(Pass)
  /\ IF Pass \in {"securitygroup", "v1", "v2", "eks"}
     THEN NewResolver(RegionsOf(world, Pass)[place']) ELSE UNCHANGED resolverVars
  /\ UNCHANGED <<world, turn, undelivered, paging, queue, building, reported, links, errors>>

NextPass ==
  /\ pc = "region" /\ turn <= Len(world.passes) /\ place = Len(RegionsOf(world, Pass))
  /\ turn' = turn + 1 /\ place' = 0
  /\ pc' = IF turn' > Len(world.passes) THEN "done" ELSE "region"
  /\ UNCHANGED <<world, undelivered, paging, queue, building, reported, links, errors, resolverVars>>

----------------------------------------------------------------------------
(***************************************************************************)
(* Pages and parts.                                                        *)
(***************************************************************************)
Awaited(t) == {x \in undelivered : x.type = t /\ x.of = NoId /\ x.region = Region}
AwaitedParts(t, x) == {y \in undelivered : y.type = t /\ y.of = x.name}
Parts(t, x) == {y \in world.items : y.type = t /\ y.of = x.name}
PartsOfAll(t, xs) == UNION {Parts(t, x) : x \in xs}

\* The page of a paginator: the last one brings what is left.  Another one may
\* be empty, for a paginator follows any token that is not.
IsPage(batch, waiting, last) ==
  batch \subseteq waiting /\ (last => batch = waiting)

\* A listing whose pages follow each other calls again, or has ended.
CallAgain(last) ==
  /\ calls' = IF last THEN 0 ELSE 1 - calls
  /\ UNCHANGED <<more, marker>>

Whole(xs) == {x \in xs : x.whole}
Rejections(xs) == {<<"rejected", x.name, NoId>> : x \in xs}
ListError(t, of) == <<"list", t, of>>

----------------------------------------------------------------------------
(***************************************************************************)
(* The conversion of one item: its parts, then what it refers to.          *)
(***************************************************************************)
TakeFromQueue(x) == pc = "convert" /\ x \in queue /\ queue' = queue \ {x}

RejectItem(x) ==
  /\ TakeFromQueue(x)
  /\ errors' = errors \cup Rejections({x})
  /\ UNCHANGED <<where, pc, undelivered, paging, building, reported, links, resolverVars>>

\* Subnets are asked for after their VPC.
Asked(x) == ({x.vpc} \ {NoId}) \cup x.groups \cup (IF x.vpc = NoId THEN {} ELSE x.subnets)

InOrder(id) ==
  /\ item.vpc \in pending => id = item.vpc
  /\ id \in item.groups => pending \cap item.subnets = {}

\* A VPC without an answer leaves its subnets unasked.
ResolveReference ==
  /\ pc = "references"
  /\ \E id \in pending, answer \in RegionNames \cup {Failed} :
       /\ InOrder(id) /\ Resolve(id, answer)
       /\ IF answer # Failed
          THEN /\ links' = links \cup {<<"refers", item.name, id>>}
               /\ pending' = pending \ {id} /\ UNCHANGED errors
          ELSE /\ errors' = errors \cup {<<"unresolved", item.name, id>>}
               /\ pending' = pending \ ({id} \cup (IF id = item.vpc THEN item.subnets ELSE {}))
               /\ UNCHANGED links
  /\ UNCHANGED <<where, pc, undelivered, paging, queue, item, built, reported>>

ReferencesDone ==
  /\ pc = "references" /\ pending = {}
  /\ pc' = IF Pass = "eks" THEN "kubernetes" ELSE "append"
  /\ UNCHANGED <<where, undelivered, paging, queue, building, reported, links, errors, resolverVars>>

\* AppendItem that goes on without putting the item away.
AppendItemKeepsIt ==
  /\ pc = "append" /\ pc' = "convert"
  /\ reported' = reported \cup built \cup {item}
  /\ UNCHANGED <<where, undelivered, paging, queue, building, links, errors, resolverVars>>

AppendItem ==
  /\ pc = "append" /\ pc' = "convert"
  /\ reported' = reported \cup built \cup {item}
  /\ item' = NoItem /\ built' = {}
  /\ UNCHANGED <<where, undelivered, paging, queue, pending, links, errors, resolverVars>>

\* Load balancers, zones and functions are converted page by page; CloudFront is asked for the
\* distributions of all its web ACLs when these have been converted.
QueueDone ==
  /\ pc = "convert" /\ queue = {}
  /\ \/ /\ Pass = "cloudfront" /\ pc' = "distributions"
        /\ queue' = {x \in reported : x.type = "web acl" /\ x.scope = "global"}
     \/ /\ Pass # "cloudfront" /\ pc' = IF more THEN FirstListing(Pass) ELSE "region"
        /\ UNCHANGED queue
  /\ UNCHANGED <<where, undelivered, paging, building, reported, links, errors, resolverVars>>
=============================================================================
