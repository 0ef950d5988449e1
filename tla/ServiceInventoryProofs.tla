------------------------ MODULE ServiceInventoryProofs ------------------------
(***************************************************************************)
(* The enumerators of services keep the contract of an inventory, whatever *)
(* there is, whichever calls fail, and however the service pages: nothing  *)
(* of a selected region is missing from the report without an error that   *)
(* accounts for it.                                                        *)
(*                                                                         *)
(* Open(x) says that the program still comes to the listing that brings x. *)
(* What is wanted is held, open, or excused, and no error is of a list     *)
(* that something open is awaited from (LossInv); a step that keeps this   *)
(* is Orderly.  The enumerators share a few kinds of steps: a listing of   *)
(* roots (ListStep), an item taken from the queue (RejectStep,             *)
(* AcceptStep), a reading of its parts (ReadStep), and a step that brings  *)
(* nothing (QuietStep).  That each kind is orderly is proved once; an      *)
(* action is then shown to be of its kind.                                 *)
(*                                                                         *)
(* The relations of the report are an invariant on top of this one         *)
(* (Relations).  Most steps bring nothing that takes part in a relation    *)
(* (Plain); the few that do are taken one by one.                          *)
(***************************************************************************)
EXTENDS ServiceInventory, TLAPS

(***************************************************************************)
(* What is still to come.                                                  *)
(***************************************************************************)
\* The passes that list an item of no other.
ListedBy(x) == IF x.type = "role" THEN RolePasses ELSE {PassOf(x)}

Fits(x, t, i) ==
  /\ t \in DOMAIN world.passes /\ world.passes[t] \in ListedBy(x)
  /\ i \in DOMAIN RegionsOf(world, world.passes[t]) /\ RegionsOf(world, world.passes[t])[i] = x.region

Later(x) ==
  \E t \in DOMAIN world.passes : \E i \in DOMAIN RegionsOf(world, world.passes[t]) :
  Fits(x, t, i) /\ (t > turn \/ (t = turn /\ i > place))
Here(x) == Fits(x, turn, place)

ListingStages(t) ==
  CASE t = "subnet" -> {"vpc", "subnet"}
    [] t = "db group" -> {"group", "db group"}
    [] OTHER -> {t}

Listing(x) == pc \in ListingStages(x.type) \/ more

RootOpen(x) == x \in undelivered /\ (Later(x) \/ (Here(x) /\ Listing(x)))

DistributionStages == {"distributions", "distribution", "distributed"}
AclStages == {"convert", "acl rule", "append"}

\* What is done with an item before its parts of a type have all been asked for.
PartStages(t) ==
  CASE t = "target group" -> {"listener", "target group"}
    [] t \in {"load balancer", "stage"} -> {"acl rule", "resources"}
    [] t = "distribution" -> {"acl rule", "append", "distribution"}
    [] t \in Objects -> {"references", "kubernetes"}
    [] OTHER -> {t}

PartsToCome(t, p) ==
  \/ RootOpen(p)
  \/ p \in queue /\ (t # "distribution" => pc \notin DistributionStages)
  \/ p = item /\ pc \in PartStages(t)
  \/ t = "distribution" /\ p \in reported /\ pc \in AclStages

PartOpen(y) == y \in undelivered /\ \E p \in Above(y) : PartsToCome(y.type, p)

IsDeep(x) == \E y \in Above(x) : y.of # NoId

Open(x) ==
  IF x.of = NoId THEN RootOpen(x)
  ELSE IF IsDeep(x) THEN x \in undelivered /\ \E y \in Above(x) : PartOpen(y) ELSE PartOpen(x)

(***************************************************************************)
(* The invariant.                                                          *)
(***************************************************************************)
PartOfRoot(y, p) == y.of # NoId /\ y.of = p.name /\ p.of = NoId /\ IsPartOf(y, p)
PartOfPart(z, y) == z.of # NoId /\ z.of = y.name /\ y.of # NoId /\ IsPartOf(z, y)

Held == queue \cup {item} \cup built \cup reported

LossInv ==
  /\ \A x \in Wanted : x \in Held \/ Open(x) \/ Excused(x)
  /\ \A x \in world.items : Open(x) => ListOf(x) \notin errors
  /\ \A o, p \in world.items : PartOfRoot(o, p) /\ o.type = "origin" /\ PartsToCome(o.type, p) => o \in undelivered

IsGlobalACL(x) == x.type = "web acl" /\ x.scope = "global"

MayBe(pass) ==
  CASE pass = "vpc" -> {"vpc", "subnet"}
    [] pass = "securitygroup" -> {"group", "db group", "convert", "rule", "references", "append"}
    [] pass = "v1" -> {"balancer", "convert", "references", "append"}
    [] pass = "v2" -> {"balancer", "convert", "listener", "target group", "references", "append"}
    [] pass = "waf" -> {"web acl", "convert", "acl rule", "resources", "append"}
    [] pass = "cloudfront" -> {"web acl", "convert", "acl rule", "append"} \cup DistributionStages
    [] pass = "eks" -> {"cluster", "convert", "references", "kubernetes", "append"}
    [] pass = "route53" -> {"zone", "convert", "record", "append"}
    [] pass \in RolePasses -> {"role", "convert", "attachment", "append"}
    [] pass = "cdn" -> {"cdn", "convert", "origin", "append"}
    [] pass = "objects" -> {"bucket", "object", "append", "convert"}
    [] pass = "lambda" -> {"function", "convert", "url", "append"}

PlaceInv ==
  /\ world \in Worlds
  /\ pc = "done" \/ (turn \in 1 .. Len(world.passes) /\ place \in 0 .. Len(RegionsOf(world, Pass)))
  /\ pc = "done" => turn = Len(world.passes) + 1
  /\ pc \notin {"region", "done"} => place >= 1 /\ pc \in MayBe(Pass)
  /\ more => pc \notin {"region", "done"} /\ Pass \in {"v1", "v2", "route53", "lambda"}

PartItems == {x \in world.items : x.of # NoId}

Building == {"rule", "references", "listener", "target group", "acl rule", "resources", "kubernetes",
             "append", "distribution", "distributed", "record", "attachment", "origin", "object", "url"}

ItemsInv ==
  /\ undelivered \subseteq world.items /\ reported \subseteq world.items /\ built \subseteq PartItems
  /\ queue \subseteq world.items \ undelivered
  /\ item # NoItem <=> pc \in Building
  /\ item # NoItem => item \in world.items /\ item \notin queue /\ item \notin undelivered
  /\ \A x \in queue \cup ({item} \ {NoItem}) : x.of = NoId /\ Here(x)
  /\ pc \in {"region", "done", "balancer", "zone", "function", "bucket", "vpc", "subnet"} => queue = {}
  /\ item = NoItem => built = {}

GlobalInv ==
  /\ pc \in DistributionStages => \A x \in queue \cup ({item} \ {NoItem}) : x \in reported /\ IsGlobalACL(x)
  /\ \A p \in reported : IsGlobalACL(p) =>
       pc = "done" \/ (Pass = "cloudfront" /\ place = 1 /\ pc # "web acl" /\ p.region = Region /\ p \notin undelivered)

TypeInv ==
  /\ more \in BOOLEAN /\ calls \in {0, 1} /\ marker \in Markers \cup {NoId}
  /\ marker # NoId => pc \in {"web acl", "distribution"}
  /\ pending # {} => pc \in {"rule", "references", "listener", "target group"} /\ pending \subseteq Asked(item)

IInv == PlaceInv /\ TypeInv /\ ItemsInv /\ GlobalInv /\ LossInv

(***************************************************************************)
(* The relations.                                                          *)
(***************************************************************************)
Have == reported \cup built
Known == Have \cup ({item} \ {NoItem})

Referring == {"group", "db group", "balancer", "cluster"}
Targeted == {"function", "url"}
Related == {"subnet", "origin"} \cup Objects \cup Referring \cup Targeted

SubnetsInv ==
  \A s \in Known : s.type = "subnet" =>
    /\ <<"subnet", s.vpc, s.name>> \in links
    /\ \E v \in reported : v.type = "vpc" /\ v.name = s.vpc /\ v.region = s.region

ObjectLinks == {"targets", "served by", "runs"}

\* No relation of it yet.
Untouched(o) == o \notin Known /\ \A l \in links : l[1] \in ObjectLinks => l[2] # o.name /\ l[3] # o.name

ObjectsInv ==
  /\ \A o, p \in world.items : PartOfRoot(o, p) /\ o.type \in Objects /\ PartsToCome(o.type, p) => Untouched(o)
  /\ \A s, p \in Known : s.type = "service" /\ p.type = "pod" =>
       /\ <<"targets", s.name, p.name>> \in links <=> s.of = p.of /\ Selects(s, p)
       /\ <<"served by", p.name, s.name>> \in links <=> s.of = p.of /\ Selects(s, p)
  /\ \A n, p \in Known : n.type = "node" /\ p.type = "pod" =>
       (<<"runs", n.name, p.name>> \in links <=> n.of = p.of /\ p.node = n.host)

ReferenceTold(x, id) ==
  \/ <<"refers", x.name, id>> \in links
  \/ <<"unresolved", x.name, id>> \in errors
  \/ id \in x.subnets /\ <<"unresolved", x.name, x.vpc>> \in errors

ReferencesInv ==
  \A x \in Known : x.type \in Referring => \A id \in Asked(x) : ReferenceTold(x, id) \/ (x = item /\ id \in pending)

BackendTold(o, there) ==
  \/ ListError("backend", o.name) \in errors
  \/ \E b \in Parts("backend", o) : b \in there \/ <<"rejected", b.name, NoId>> \in errors

\* Origins and their backends come together, and are put away together.
OriginsInv ==
  /\ \A o \in reported : o.type = "origin" /\ Resolvable(o) => BackendTold(o, reported)
  /\ \A o \in Have : o.type = "origin" /\ Resolvable(o) => BackendTold(o, Have)

PolicyTold(x) ==
  <<"policy", x.name, x.policy>> \in links \/ x.policy = "none" \/ <<"policy", x.target, NoId>> \in errors

PoliciesInv ==
  /\ \A l \in links : l[1] = "policy" => \A x \in world.items : x.type \in Targeted /\ x.name = l[2] => x.policy = l[3]
  /\ \A x \in Known : x.type \in Targeted => PolicyTold(x)
  /\ pc = "url" => \A x \in built : x.type = "url"

Relations == SubnetsInv /\ ObjectsInv /\ EndsReported /\ ReferencesInv /\ OriginsInv /\ PoliciesInv

(***************************************************************************)
(* Passes and regions.                                                     *)
(***************************************************************************)
PassNames ==
  {"vpc", "securitygroup", "v1", "v2", "waf", "cloudfront", "eks", "route53", "roles", "own roles", "cdn",
   "objects", "lambda"}

\* What a list of passes is like.
WellPassed(passes) ==
  /\ Len(passes) \in Nat /\ DOMAIN passes = 1 .. Len(passes)
  /\ \A t \in DOMAIN passes :
       /\ passes[t] \in PassNames
       /\ passes[t] = "cloudfront" => t = Len(passes)
       /\ passes[t] = "objects" => Len(passes) = 1
  /\ \A s, t \in DOMAIN passes :
       passes[s] = passes[t] \/ (passes[s] \in RolePasses /\ passes[t] \in RolePasses) => s = t

LEMMA OnePass == ASSUME NEW p \in PassNames PROVE WellPassed(<<p>>)
<1>1. Len(<<p>>) = 1 /\ <<p>>[1] = p /\ DOMAIN <<p>> = 1 .. 1
  OBVIOUS
<1> QED
  BY <1>1 DEF WellPassed

LEMMA TwoPasses ==
  ASSUME NEW p \in PassNames, NEW q \in PassNames, p # q, p \notin RolePasses,
         p \notin {"cloudfront", "objects"}, q # "objects"
  PROVE  WellPassed(<<p, q>>)
<1>1. Len(<<p, q>>) = 2 /\ <<p, q>>[1] = p /\ <<p, q>>[2] = q /\ DOMAIN <<p, q>> = 1 .. 2
  OBVIOUS
<1> QED
  BY <1>1 DEF WellPassed

LEMMA PassFacts == ASSUME NEW w \in Worlds PROVE WellPassed(w.passes)
<1>1. w.passes \in Enumerators
  BY WorldAssumption
<1>2. CASE \E p \in PassNames : w.passes = <<p>>
  BY <1>2, OnePass
<1>3. CASE w.passes \in {<<"v1", "v2">>, <<"v2", "v1">>, <<"waf", "cloudfront">>}
  BY <1>3, TwoPasses DEF PassNames, RolePasses
<1> QED
  BY <1>1, <1>2, <1>3 DEF Enumerators, PassNames

\* What a list of regions is like.
Distinct(regions) ==
  /\ Len(regions) \in Nat /\ DOMAIN regions = 1 .. Len(regions)
  /\ \A i, j \in DOMAIN regions : regions[i] = regions[j] => i = j

LEMMA FewAreDistinct ==
  ASSUME NEW regions, NEW r, regions = <<>> \/ regions = <<r>>
  PROVE  Distinct(regions) /\ Len(regions) <= 1
<1>1. CASE regions = <<>>
  <2>1. Len(regions) = 0 /\ DOMAIN regions = {}
    BY <1>1
  <2> QED
    BY <2>1 DEF Distinct
<1>2. CASE regions = <<r>>
  <2>1. Len(regions) = 1 /\ DOMAIN regions = 1 .. 1
    BY <1>2
  <2> QED
    BY <2>1 DEF Distinct
<1> QED
  BY <1>1, <1>2

LEMMA RegionFacts ==
  ASSUME NEW w \in Worlds, NEW p \in PassNames
  PROVE  /\ Distinct(RegionsOf(w, p))
         /\ p \in {"cloudfront", "cdn", "objects"} => Len(RegionsOf(w, p)) <= 1
<1>1. Distinct(w.regions)
  BY ServiceAssumption DEF Distinct
<1>2. CASE p = "cloudfront"
  <2>1. RegionsOf(w, p) = <<>> \/ RegionsOf(w, p) = <<GlobalRegion>>
    BY <1>2 DEF RegionsOf, GlobalRegions, RolePasses
  <2> QED
    BY <2>1, FewAreDistinct
<1>3. CASE p \in {"cdn", "route53", "objects"} \cup RolePasses
  <2>1. RegionsOf(w, p) = <<GlobalRegion>> \/ RegionsOf(w, p) = <<w.home>>
    <3>1. CASE p = "cdn"
      BY <3>1 DEF RegionsOf, RolePasses
    <3>2. CASE p \in {"route53", "objects", "roles", "own roles"}
      BY <3>2 DEF RegionsOf, RolePasses
    <3> QED
      BY <1>3, <3>1, <3>2 DEF RolePasses
  <2> QED
    BY <2>1, FewAreDistinct
<1>4. CASE p \notin {"cdn", "route53", "objects", "cloudfront"} \cup RolePasses
  <2>1. RegionsOf(w, p) = w.regions
    BY <1>4 DEF RegionsOf, RolePasses
  <2> QED
    BY <1>1, <1>4, <2>1
<1> QED
  BY <1>2, <1>3, <1>4

LEMMA ListedByFacts ==
  ASSUME NEW x, NEW p \in ListedBy(x), NEW q \in ListedBy(x)
  PROVE  p = q \/ (p \in RolePasses /\ q \in RolePasses)
BY DEF ListedBy

\* An item is listed by one pass, in one region.
LEMMA OnePlace ==
  ASSUME world \in Worlds, NEW x, NEW s, NEW t, NEW i, NEW j, Fits(x, s, i), Fits(x, t, j)
  PROVE  s = t /\ i = j
<1>1. s = t
  BY PassFacts, ListedByFacts DEF Fits, WellPassed
<1>2. world.passes[s] \in PassNames
  BY PassFacts DEF Fits, WellPassed
<1> QED
  BY <1>1, <1>2, RegionFacts DEF Fits, Distinct

(***************************************************************************)
(* Stages and passes.                                                      *)
(***************************************************************************)
LEMMA PassIsNamed ==
  ASSUME PlaceInv, pc # "done"
  PROVE  /\ turn \in DOMAIN world.passes /\ Pass \in PassNames /\ place \in Nat
         /\ Len(RegionsOf(world, Pass)) \in Nat
         /\ pc # "region" => place \in DOMAIN RegionsOf(world, Pass)
<1>1. turn \in DOMAIN world.passes
  BY PassFacts DEF PlaceInv, WellPassed
<1>2. Pass \in PassNames
  BY <1>1, PassFacts DEF PlaceInv, Pass, WellPassed
<1> QED
  BY <1>1, <1>2, RegionFacts DEF PlaceInv, Distinct

LEMMA HereNotLater ==
  ASSUME PlaceInv, pc # "done", NEW x, Here(x)
  PROVE  ~Later(x)
<1>1. turn \in Nat /\ place \in Nat
  BY PassIsNamed, PassFacts DEF PlaceInv, WellPassed
<1> SUFFICES ASSUME NEW t \in DOMAIN world.passes, NEW i \in DOMAIN RegionsOf(world, world.passes[t]),
                    Fits(x, t, i), t > turn \/ (t = turn /\ i > place)
             PROVE  FALSE
  BY DEF Later
<1>2. t = turn /\ i = place
  BY OnePlace DEF Here, PlaceInv
<1> QED
  BY <1>1, <1>2

LEMMA StageFacts ==
  ASSUME PlaceInv
  PROVE  /\ pc \in {"vpc", "subnet"} => Pass = "vpc"
         /\ pc \in {"group", "db group", "rule"} => Pass = "securitygroup"
         /\ pc = "balancer" => Pass \in {"v1", "v2"}
         /\ pc \in {"listener", "target group"} => Pass = "v2"
         /\ pc \in {"web acl", "acl rule"} => Pass \in {"waf", "cloudfront"}
         /\ pc = "resources" => Pass = "waf"
         /\ pc \in DistributionStages => Pass = "cloudfront"
         /\ pc \in {"cluster", "kubernetes"} => Pass = "eks"
         /\ pc \in {"zone", "record"} => Pass = "route53"
         /\ pc \in {"role", "attachment"} => Pass \in RolePasses
         /\ pc \in {"cdn", "origin"} => Pass = "cdn"
         /\ pc \in {"bucket", "object"} => Pass = "objects"
         /\ pc \in {"function", "url"} => Pass = "lambda"
         /\ pc = "references" => Pass \in {"securitygroup", "v1", "v2", "eks"}
         /\ pc = "convert" => Pass # "vpc"
         /\ pc = "append" => Pass # "vpc"
<1>1. CASE pc \in {"region", "done"}
  BY <1>1 DEF DistributionStages
<1>2. CASE pc \notin {"region", "done"}
  <2>1. pc \in MayBe(Pass) /\ Pass \in PassNames
    BY <1>2, PassIsNamed DEF PlaceInv
  <2>2. CASE Pass \in {"vpc", "securitygroup", "v1", "v2"}
    BY <2>1, <2>2 DEF MayBe, DistributionStages, RolePasses
  <2>3. CASE Pass \in {"waf", "cloudfront", "eks", "route53"}
    BY <2>1, <2>3 DEF MayBe, DistributionStages, RolePasses
  <2>4. CASE Pass \in {"roles", "own roles", "cdn", "objects", "lambda"}
    BY <2>1, <2>4 DEF MayBe, DistributionStages, RolePasses
  <2> QED
    BY <2>1, <2>2, <2>3, <2>4 DEF PassNames
<1> QED
  BY <1>1, <1>2

(***************************************************************************)
(* The control: within a pass the stages are those of the pass.            *)
(***************************************************************************)
Paged == {"v1", "v2", "route53", "lambda"}

LEMMA StagesOfPasses ==
  /\ MayBe("vpc") = {"vpc", "subnet"}
  /\ MayBe("securitygroup") = {"group", "db group", "convert", "rule", "references", "append"}
  /\ MayBe("v1") = {"balancer", "convert", "references", "append"}
  /\ MayBe("v2") = {"balancer", "convert", "listener", "target group", "references", "append"}
  /\ MayBe("waf") = {"web acl", "convert", "acl rule", "resources", "append"}
  /\ MayBe("cloudfront") = {"web acl", "convert", "acl rule", "append"} \cup DistributionStages
  /\ MayBe("eks") = {"cluster", "convert", "references", "kubernetes", "append"}
  /\ MayBe("route53") = {"zone", "convert", "record", "append"}
  /\ MayBe("roles") = {"role", "convert", "attachment", "append"}
  /\ MayBe("own roles") = {"role", "convert", "attachment", "append"}
  /\ MayBe("cdn") = {"cdn", "convert", "origin", "append"}
  /\ MayBe("objects") = {"bucket", "object", "append", "convert"}
  /\ MayBe("lambda") = {"function", "convert", "url", "append"}
BY DEF MayBe, RolePasses

\* A step within a region.
Stays ==
  /\ pc \notin {"region", "done"} /\ UNCHANGED where
  /\ pc' \in MayBe(Pass) \cup {"region"}
  /\ more' => (more \/ Pass \in Paged) /\ pc' # "region"
  /\ calls' \in {0, 1} /\ marker' \in Markers \cup {NoId} /\ more' \in BOOLEAN
  /\ marker' # NoId => pc' \in {"web acl", "distribution"}

LEMMA StaysKeepsPlace ==
  ASSUME PlaceInv, Stays
  PROVE  PlaceInv'
<1>1. pc' # "done"
  <2>1. Pass \in PassNames
    BY PassIsNamed DEF Stays
  <2> QED
    BY <2>1 DEF Stays, MayBe, PassNames, RolePasses, DistributionStages
<1>2. UNCHANGED <<world, turn, place, Pass>>
  BY DEF Stays, where, Pass
<1> QED
  BY <1>1, <1>2 DEF Stays, PlaceInv, Paged

LEMMA CallsAlternate == ASSUME TypeInv PROVE calls \in {0, 1} /\ 1 - calls \in {0, 1}
<1>1. calls = 0 \/ calls = 1
  BY DEF TypeInv
<1>2. 1 - 0 = 1 /\ 1 - 1 = 0
  OBVIOUS
<1> QED
  BY <1>1, <1>2

LEMMA VpcStays == ASSUME PlaceInv, TypeInv, VpcNext PROVE Stays
<1>1. /\ pc \in {"vpc", "subnet"} /\ pc' \in {"vpc", "subnet", "region"}
      /\ UNCHANGED <<where, more, marker>> /\ calls' \in {0, 1}
  BY CallsAlternate DEF VpcNext, ListVpcs, VpcsFail, ListSubnets, SubnetsFail, CallAgain
<1>2. Pass = "vpc" /\ MayBe(Pass) = {"vpc", "subnet"} /\ ~more
  BY <1>1, StageFacts, StagesOfPasses DEF PlaceInv
<1> QED
  BY <1>1, <1>2 DEF Stays, TypeInv

LEMMA GroupsStay == ASSUME PlaceInv, TypeInv, GroupsNext PROVE Stays
<1>1. /\ pc \in {"group", "db group", "rule"} \/ (pc = "convert" /\ Pass = "securitygroup")
      /\ pc' \in {"group", "db group", "convert", "rule", "references"} /\ UNCHANGED <<where, more, marker>>
      /\ calls' \in {0, 1}
  BY CallsAlternate DEF GroupsNext, ListGroups, GroupsFail, RejectGroup, RejectItem, TakeFromQueue, AcceptGroup, AcceptDbGroup,
         ListRules, RulesFail, CallAgain, paging
<1>2. /\ Pass = "securitygroup" /\ ~more
      /\ MayBe(Pass) = {"group", "db group", "convert", "rule", "references", "append"}
  BY <1>1, StageFacts, StagesOfPasses DEF PlaceInv
<1> QED
  BY <1>1, <1>2 DEF Stays, TypeInv

LEMMA BalancersStay == ASSUME PlaceInv, TypeInv, BalancersNext PROVE Stays
<1>1. CASE ListBalancers \/ BalancersFail
  <2>1. /\ pc = "balancer" /\ pc' \in {"convert", "region"} /\ (pc' = "region" => ~more') /\ more' \in BOOLEAN
        /\ UNCHANGED <<where, marker, calls>>
    BY <1>1 DEF ListBalancers, BalancersFail
  <2>2. Pass \in Paged /\ "convert" \in MayBe(Pass)
    BY <2>1, StageFacts, StagesOfPasses DEF Paged
  <2> QED
    BY <2>1, <2>2 DEF Stays, TypeInv
<1>2. CASE \E x \in queue : RejectBalancer(x) \/ AcceptClassic(x) \/ AcceptBalancer(x)
  <2>1. /\ pc = "convert" /\ Pass \in {"v1", "v2"} /\ UNCHANGED <<where, more, marker, calls>>
        /\ pc' \in {"convert", "references"} \/ (Pass = "v2" /\ pc' = "listener")
    BY <1>2 DEF RejectBalancer, RejectItem, TakeFromQueue, AcceptClassic, AcceptBalancer, paging, IsBalancerPass, IsClassic
  <2> QED
    BY <2>1, StagesOfPasses DEF Stays, TypeInv
<1>3. CASE ListListeners \/ ListenersFail \/ ListTargetGroups \/ TargetGroupsFail
  <2>1. /\ pc \in {"listener", "target group"} /\ pc' \in {"listener", "target group", "references"}
        /\ UNCHANGED <<where, more, marker>> /\ calls' \in {0, 1}
    BY <1>3, CallsAlternate DEF ListListeners, ListenersFail, ListTargetGroups, TargetGroupsFail, CallAgain, paging
  <2>2. Pass = "v2"
    BY <2>1, StageFacts
  <2> QED
    BY <2>1, <2>2, StagesOfPasses DEF Stays, TypeInv
<1> QED
  BY <1>1, <1>2, <1>3 DEF BalancersNext

LEMMA WafStays == ASSUME PlaceInv, TypeInv, WafNext PROVE Stays
<1>1. CASE ListWebACLs \/ WebACLsFail
  <2>1. /\ pc = "web acl" /\ pc' \in {"web acl", "convert"} /\ UNCHANGED <<where, more>>
        /\ calls' \in {0, 1} /\ marker' \in Markers \cup {NoId} /\ (marker' # NoId => pc' = "web acl")
    BY <1>1, CallsAlternate DEF ListWebACLs, WebACLsFail, Given
  <2>2. Pass \in {"waf", "cloudfront"} /\ ~more
    BY <2>1, StageFacts DEF PlaceInv
  <2> QED
    BY <2>1, <2>2, StagesOfPasses DEF Stays, TypeInv
<1>2. CASE \E x \in queue : RejectACL(x) \/ AcceptACL(x) \/ BeginDistributions(x)
  <2>1. /\ \/ pc = "convert" /\ pc' \in {"convert", "acl rule"} /\ Pass \in {"waf", "cloudfront"}
           \/ pc = "distributions" /\ pc' = "distribution"
        /\ UNCHANGED <<where, more, marker, calls>>
    BY <1>2 DEF RejectACL, AcceptACL, BeginDistributions, RejectItem, TakeFromQueue, paging, IsWafPass
  <2>2. pc = "distributions" => Pass = "cloudfront"
    BY StageFacts DEF DistributionStages
  <2>3. Pass \in {"waf", "cloudfront"} /\ ~more
    BY <2>1, <2>2 DEF PlaceInv
  <2> QED
    BY <2>1, <2>2, <2>3, StagesOfPasses DEF Stays, TypeInv, DistributionStages
<1>3. CASE GetRules \/ GetRulesFails \/ ListResources
  <2>1. /\ pc \in {"acl rule", "resources"} /\ UNCHANGED <<where, more, marker, calls>>
        /\ pc' = "append" \/ (Pass = "waf" /\ pc' = "resources")
    BY <1>3 DEF GetRules, GetRulesFails, ListResources, RulesRead, paging
  <2>2. Pass \in {"waf", "cloudfront"} /\ ~more
    BY <2>1, StageFacts DEF PlaceInv
  <2> QED
    BY <2>1, <2>2, StagesOfPasses DEF Stays, TypeInv
<1>4. CASE ListDistributions \/ DistributionsFail \/ EndDistributions \/ DistributionsDone
  <2>1. /\ pc \in DistributionStages /\ pc' \in DistributionStages \cup {"region"} /\ UNCHANGED <<where, more>>
        /\ calls' \in {0, 1} /\ marker' \in Markers \cup {NoId} /\ (marker' # NoId => pc' = "distribution")
    BY <1>4, CallsAlternate DEF ListDistributions, DistributionsFail, EndDistributions, DistributionsDone, Given, TypeInv,
                DistributionStages, paging
  <2>2. Pass = "cloudfront" /\ ~more
    BY <2>1, StageFacts DEF PlaceInv
  <2> QED
    BY <2>1, <2>2, StagesOfPasses DEF Stays, TypeInv, DistributionStages
<1> QED
  BY <1>1, <1>2, <1>3, <1>4 DEF WafNext

LEMMA ClustersStay == ASSUME PlaceInv, TypeInv, ClustersNext PROVE Stays
<1>1. /\ pc \in {"cluster", "kubernetes"} \/ (pc = "convert" /\ Pass = "eks")
      /\ pc' \in {"cluster", "convert", "references", "append"} /\ UNCHANGED <<where, more, marker>>
      /\ calls' \in {0, 1}
  BY CallsAlternate DEF ClustersNext, ListClusters, ClustersFail, DescribeFails, DescribesNone, DescribeCluster, RejectItem, TakeFromQueue,
         NotReadable, ConnectFails, ReadObjects, paging
<1>2. Pass = "eks" /\ ~more /\ MayBe(Pass) = {"cluster", "convert", "references", "kubernetes", "append"}
  BY <1>1, StageFacts, StagesOfPasses DEF PlaceInv
<1>3. marker' = NoId /\ marker' \in Markers \cup {NoId}
  BY <1>1 DEF TypeInv
<1> QED
  BY <1>1, <1>2, <1>3 DEF Stays, TypeInv

LEMMA FunctionsStay == ASSUME PlaceInv, TypeInv, FunctionsNext PROVE Stays
<1>1. /\ pc \in {"function", "url"} \/ (pc = "convert" /\ Pass = "lambda")
      /\ pc' \in {"convert", "url", "append", "region"} /\ UNCHANGED <<where, marker>>
      /\ more' \in BOOLEAN /\ (pc' = "region" => ~more') /\ calls' \in {0, 1}
  BY CallsAlternate DEF FunctionsNext, ListFunctions, FunctionsFail, ListURLs, URLsFail, RejectFunction, AcceptFunction, RejectItem,
         TakeFromQueue, CallAgain, paging, TypeInv
<1>2. Pass = "lambda" /\ MayBe(Pass) = {"function", "convert", "url", "append"}
  BY <1>1, StageFacts, StagesOfPasses DEF PlaceInv
<1> QED
  BY <1>1, <1>2 DEF Stays, TypeInv, Paged

LEMMA GlobalStays == ASSUME PlaceInv, TypeInv, GlobalNext PROVE Stays
<1>1. CASE ListZones \/ ZonesFail \/ ListRecords \/ RecordsFail
  <2>1. /\ pc \in {"zone", "record"} /\ pc' \in {"convert", "region", "record", "append"}
        /\ UNCHANGED <<where, marker>> /\ more' \in BOOLEAN /\ (pc' = "region" => ~more')
        /\ calls' \in {0, 1}
    BY <1>1, CallsAlternate DEF ListZones, ZonesFail, ListRecords, RecordsFail, CallAgain, paging, TypeInv
  <2>2. Pass = "route53"
    BY <2>1, StageFacts
  <2> QED
    BY <2>1, <2>2, StagesOfPasses DEF Stays, TypeInv, Paged
<1>2. CASE ListRoles \/ RolesFail \/ ListAttachments \/ AttachmentsFail
  <2>1. /\ pc \in {"role", "attachment"} /\ pc' \in {"role", "convert", "attachment", "append"}
        /\ UNCHANGED <<where, more, marker>> /\ calls' \in {0, 1}
    BY <1>2, CallsAlternate DEF ListRoles, RolesFail, ListAttachments, AttachmentsFail, CallAgain, paging
  <2>2. Pass \in {"roles", "own roles"}
    BY <2>1, StageFacts DEF RolePasses
  <2> QED
    BY <2>1, <2>2, StagesOfPasses DEF Stays, TypeInv
<1>3. CASE ListCdns \/ CdnsFail \/ ProcessOrigins
  <2>1. /\ pc \in {"cdn", "origin"} /\ pc' \in {"cdn", "convert", "append"}
        /\ UNCHANGED <<where, more, marker>> /\ calls' \in {0, 1}
    BY <1>3, CallsAlternate DEF ListCdns, CdnsFail, ProcessOrigins, CallAgain, paging
  <2>2. Pass = "cdn"
    BY <2>1, StageFacts
  <2> QED
    BY <2>1, <2>2, StagesOfPasses DEF Stays, TypeInv
<1>4. CASE LocateBucket \/ ListObjects \/ ObjectsFail
  <2>1. /\ pc \in {"bucket", "object"} /\ pc' \in {"object", "append"}
        /\ UNCHANGED <<where, more, marker>> /\ calls' \in {0, 1}
    BY <1>4, CallsAlternate DEF LocateBucket, ListObjects, ObjectsFail, CallAgain, paging
  <2>2. Pass = "objects"
    BY <2>1, StageFacts
  <2> QED
    BY <2>1, <2>2, StagesOfPasses DEF Stays, TypeInv
<1>5. CASE \E x \in queue : RejectGlobal(x) \/ AcceptZone(x) \/ AcceptRole(x) \/ ProcessDistribution(x)
  <2>1. /\ pc = "convert" /\ UNCHANGED <<where, more, marker, calls>>
        /\ \/ pc' = "convert" /\ Pass \in {"route53", "cdn", "roles", "own roles"}
           \/ pc' = "record" /\ Pass = "route53"
           \/ pc' = "attachment" /\ Pass \in {"roles", "own roles"}
           \/ pc' = "origin" /\ Pass = "cdn"
    BY <1>5 DEF RejectGlobal, AcceptZone, AcceptRole, ProcessDistribution, RejectItem, TakeFromQueue, paging, RolePasses
  <2> QED
    BY <2>1, StagesOfPasses DEF Stays, TypeInv
<1> QED
  BY <1>1, <1>2, <1>3, <1>4, <1>5 DEF GlobalNext

LEMMA CommonStays ==
  ASSUME PlaceInv, TypeInv, ResolveReference \/ ReferencesDone \/ AppendItem \/ QueueDone
  PROVE  Stays
<1>1. pc \in {"references", "append", "convert"} /\ UNCHANGED <<where, more, marker, calls>>
  BY DEF ResolveReference, ReferencesDone, AppendItem, QueueDone, paging
<1>2. marker' = NoId
  BY <1>1 DEF TypeInv
<1>3. Pass \in PassNames /\ Pass # "vpc"
  BY <1>1, PassIsNamed, StageFacts
<1>4. pc' \in MayBe(Pass) \cup {"region"}
  <2>1. CASE ResolveReference
    BY <2>1, <1>1 DEF ResolveReference, PlaceInv
  <2>2. CASE ReferencesDone
    <3>1. Pass \in {"securitygroup", "v1", "v2", "eks"} /\ pc' = IF Pass = "eks" THEN "kubernetes" ELSE "append"
      BY <2>2, StageFacts DEF ReferencesDone
    <3> QED
      BY <3>1, StagesOfPasses
  <2>3. CASE AppendItem
    <3>1. pc' = "convert"
      BY <2>3 DEF AppendItem
    <3> QED
      BY <3>1, <1>3, StagesOfPasses DEF PassNames
  <2>4. CASE QueueDone
    <3>1. \/ Pass = "cloudfront" /\ pc' = "distributions"
          \/ pc' = "region"
          \/ more /\ pc' = FirstListing(Pass)
      BY <2>4 DEF QueueDone
    <3>2. more => Pass \in Paged /\ FirstListing(Pass) \in MayBe(Pass)
      BY StagesOfPasses DEF PlaceInv, Paged, FirstListing, RolePasses
    <3> QED
      BY <3>1, <3>2, StagesOfPasses DEF DistributionStages
  <2> QED
    BY <2>1, <2>2, <2>3, <2>4
<1>5. more' => pc' # "region"
  BY <1>1, <1>3 DEF ResolveReference, ReferencesDone, AppendItem, QueueDone, FirstListing, PlaceInv, RolePasses
<1> QED
  BY <1>1, <1>2, <1>4, <1>5 DEF Stays, TypeInv

(***************************************************************************)
(* Wholes and parts.                                                       *)
(***************************************************************************)
LEMMA ItemFacts ==
  ASSUME NEW w \in Worlds, NEW x \in w.items
  PROVE  /\ x \in Items /\ x # NoItem /\ x.name # NoId
         /\ x.of = NoId => x.type \in RootTypes
<1>1. x \in Items
  BY DEF Items
<1>2. x.name # NoId /\ (x.of = NoId => x.type \in RootTypes)
  BY WorldAssumption
<1>3. NoItem \notin Items
  BY ServiceAssumption
<1> QED
  BY <1>1, <1>2, <1>3

LEMMA PartsAre ==
  ASSUME world \in Worlds, NEW t
  PROVE  /\ PartItems \subseteq world.items
         /\ \A p \in world.items : Parts(t, p) \subseteq PartItems
         /\ \A xs \in SUBSET world.items : PartsOfAll(t, xs) \subseteq PartItems
<1>1. \A p \in world.items : Parts(t, p) \subseteq PartItems
  BY ItemFacts DEF Parts, PartItems
<1> QED
  BY <1>1 DEF PartsOfAll, PartItems

LEMMA Families ==
  ASSUME NEW w \in Worlds, NEW x \in w.items, x.of # NoId
  PROVE  \/ \E p \in w.items : PartOfRoot(x, p)
         \/ \E y, p \in w.items : PartOfPart(x, y) /\ PartOfRoot(y, p)
<1>1. PICK y \in w.items : x.of = y.name /\ IsPartOf(x, y)
  BY WorldAssumption
<1>2. CASE y.of = NoId
  BY <1>1, <1>2 DEF PartOfRoot
<1>3. CASE y.of # NoId
  <2>1. PICK p \in w.items : y.of = p.name /\ IsPartOf(y, p)
    BY <1>3, WorldAssumption
  <2>2. y.type \in {"target group", "listener", "record", "attachment", "origin"}
    BY <1>1, <2>1 DEF IsPartOf, Objects
  <2>3. p.type \in {"balancer", "zone", "role", "cdn"}
    BY <2>1, <2>2 DEF IsPartOf, Objects
  <2>4. ASSUME p.of # NoId PROVE FALSE
    <3>1. PICK q \in w.items : IsPartOf(p, q)
      BY <2>4, WorldAssumption
    <3> QED
      BY <2>3, <3>1 DEF IsPartOf, Objects
  <2> QED
    BY <1>1, <1>3, <2>1, <2>4 DEF PartOfRoot, PartOfPart
<1> QED
  BY <1>2, <1>3

LEMMA AboveFacts ==
  ASSUME NEW w \in Worlds, NEW x \in w.items
  PROVE  /\ x.of = NoId => Above(x) = {}
         /\ \A y \in w.items : x.of = y.name => Above(x) = {y}
         /\ LineOf[x] = {x} \cup Above(x) \cup UNION {Above(y) : y \in Above(x)}
<1>1. x \in Items /\ \A y \in Items : y.name # NoId
  BY ItemFacts DEF Items
<1>2. \A y, z \in Items : y.name = z.name => y = z
  BY ServiceAssumption
<1>3. w.items \subseteq Items
  BY DEF Items
<1>4. \A y \in w.items : x.of = y.name => Above(x) = {y}
  BY <1>2, <1>3 DEF Above
<1> QED
  BY <1>1, <1>4 DEF Above, LineOf

LEMMA RootLine ==
  ASSUME NEW w \in Worlds, NEW x \in w.items, x.of = NoId
  PROVE  LineOf[x] = {x}
BY AboveFacts

LEMMA PartLine ==
  ASSUME NEW w \in Worlds, NEW x \in w.items, NEW p \in w.items, PartOfRoot(x, p)
  PROVE  LineOf[x] = {x, p} /\ Above(x) = {p} /\ ~IsDeep(x)
<1>1. Above(x) = {p} /\ Above(p) = {}
  BY AboveFacts DEF PartOfRoot
<1> QED
  BY <1>1, AboveFacts DEF PartOfRoot, IsDeep

LEMMA DeepLine ==
  ASSUME NEW w \in Worlds, NEW x \in w.items, NEW y \in w.items, NEW p \in w.items,
         PartOfPart(x, y), PartOfRoot(y, p)
  PROVE  LineOf[x] = {x, y, p} /\ Above(x) = {y} /\ Above(y) = {p} /\ IsDeep(x)
<1>1. Above(x) = {y} /\ Above(y) = {p}
  BY AboveFacts DEF PartOfRoot, PartOfPart
<1> QED
  BY <1>1, AboveFacts DEF PartOfPart, IsDeep

LEMMA LineInWorld ==
  ASSUME NEW w \in Worlds, NEW x \in w.items
  PROVE  x \in LineOf[x] /\ LineOf[x] \subseteq w.items
<1>1. CASE x.of = NoId
  BY <1>1, RootLine
<1>2. CASE x.of # NoId
  BY <1>2, Families, PartLine, DeepLine
<1> QED
  BY <1>1, <1>2

LEMMA OpenRoot ==
  ASSUME NEW x, x.of = NoId
  PROVE  (Open(x) <=> RootOpen(x)) /\ (Open(x)' <=> RootOpen(x)')
BY DEF Open

LEMMA OpenPart ==
  ASSUME NEW w \in Worlds, NEW x \in w.items, NEW p \in w.items, PartOfRoot(x, p)
  PROVE  /\ Open(x) <=> x \in undelivered /\ PartsToCome(x.type, p)
         /\ Open(x)' <=> x \in undelivered' /\ PartsToCome(x.type, p)'
<1>1. Above(x) = {p} /\ ~IsDeep(x) /\ x.of # NoId
  BY PartLine DEF PartOfRoot
<1> QED
  BY <1>1 DEF Open, PartOpen

LEMMA OpenDeep ==
  ASSUME NEW w \in Worlds, NEW x \in w.items, NEW y \in w.items, NEW p \in w.items,
         PartOfPart(x, y), PartOfRoot(y, p)
  PROVE  /\ Open(x) <=> x \in undelivered /\ Open(y)
         /\ Open(x)' <=> x \in undelivered' /\ Open(y)'
<1>1. Above(x) = {y} /\ Above(y) = {p} /\ IsDeep(x) /\ x.of # NoId
  BY DeepLine DEF PartOfPart
<1>2. ~IsDeep(y) /\ y.of # NoId
  BY PartLine DEF PartOfRoot
<1> QED
  BY <1>1, <1>2 DEF Open

(***************************************************************************)
(* A step that loses nothing.                                              *)
(***************************************************************************)
Accounted(x) == x \in Held \/ Excused(x)

Orderly ==
  /\ world' = world /\ errors \subseteq errors' /\ undelivered' \subseteq undelivered
  /\ \A x \in undelivered \ undelivered' : Open(x)
  /\ \A x \in world.items : Open(x)' => Open(x) /\ (ListOf(x) \in errors' => ListOf(x) \in errors)
  /\ \A x \in Wanted : x \in Held \/ (Open(x) /\ ~Open(x)') => Accounted(x)'
  /\ \A y, p \in world.items : PartOfRoot(y, p) /\ PartsToCome(y.type, p)' => PartsToCome(y.type, p)
  /\ \A o, p \in world.items : PartOfRoot(o, p) /\ o.type = "origin" /\ PartsToCome(o.type, p)' =>
       (o \in undelivered => o \in undelivered')

LEMMA WantedFacts ==
  ASSUME world \in Worlds, NEW x \in Wanted
  PROVE  /\ x \in world.items
         /\ \A y \in LineOf[x] : y.of = NoId => Selected(world, y)
         /\ x.type \in Objects => \A y \in Above(x) : Readable(y)
         /\ x.type = "service" => External(x)
         /\ x.type # "bucket"
         /\ x.type = "object" => x.sized
BY DEF Wanted, WantedOf

LEMMA WantedSame == ASSUME world' = world PROVE Wanted' = Wanted
BY DEF Wanted

LEMMA ExcusesStay ==
  ASSUME world \in Worlds, LossInv, Orderly, undelivered \subseteq world.items, NEW x \in Wanted, Excused(x)
  PROVE  Excused(x)'
<1>1. PICK y \in LineOf[x] :
        \/ <<"rejected", y.name, NoId>> \in errors
        \/ y.type = "cluster" /\ ~y.whole /\ Nameless \in errors
        \/ y \in undelivered /\ ListOf(y) \in errors
        \/ y.type \in Objects /\ <<"connect", y.of, NoId>> \in errors
  BY DEF Excused
<1>2. y \in world.items
  BY LineInWorld, WantedFacts
<1>3. y \in undelivered /\ ListOf(y) \in errors => y \in undelivered'
  BY <1>2 DEF LossInv, Orderly
<1> QED
  BY <1>1, <1>3 DEF Excused, Orderly

LEMMA OrderlyKeepsLosses ==
  ASSUME world \in Worlds, undelivered \subseteq world.items, LossInv, Orderly
  PROVE  LossInv'
<1>1. Wanted' = Wanted
  BY WantedSame DEF Orderly
<1>2. ASSUME NEW x \in Wanted PROVE x \in Held' \/ Open(x)' \/ Excused(x)'
  BY ExcusesStay DEF LossInv, Orderly, Accounted
<1>3. \A x \in world.items : Open(x)' => ListOf(x) \notin errors'
  BY DEF LossInv, Orderly
<1>4. \A o, p \in world.items : PartOfRoot(o, p) /\ o.type = "origin" /\ PartsToCome(o.type, p)' => o \in undelivered'
  BY DEF LossInv, Orderly
<1> QED
  BY <1>1, <1>2, <1>3, <1>4 DEF LossInv, Orderly

LEMMA OrderlyFrom ==
  ASSUME world \in Worlds, undelivered \subseteq world.items,
         world' = world, errors \subseteq errors', undelivered' \subseteq undelivered,
         \A x \in undelivered \ undelivered' : Open(x),
         \A p \in world.items : p.of = NoId /\ RootOpen(p)' => RootOpen(p),
         \A y, p \in world.items : PartOfRoot(y, p) /\ PartsToCome(y.type, p)' => PartsToCome(y.type, p),
         \A o, p \in world.items :
           PartOfRoot(o, p) /\ o.type = "origin" /\ o \in undelivered \ undelivered' => ~PartsToCome(o.type, p)',
         \A z, y \in world.items : PartOfPart(z, y) /\ z \in undelivered \ undelivered' => ~Open(y)',
         \A x \in world.items : Open(x)' /\ ListOf(x) \in errors' => ListOf(x) \in errors,
         \A x \in Wanted : x \in Held => Accounted(x)',
         \A p \in Wanted : p.of = NoId /\ RootOpen(p) /\ ~RootOpen(p)' => Accounted(p)',
         \A y \in Wanted, p \in world.items : PartOfRoot(y, p) /\ Open(y) /\ ~Open(y)' => Accounted(y)',
         \A z \in Wanted, y, p \in world.items :
           PartOfPart(z, y) /\ PartOfRoot(y, p) /\ z \in undelivered /\ Open(y) /\ ~Open(y)' => Accounted(z)'
  PROVE  Orderly
<1>1. \A y, p \in world.items : PartOfRoot(y, p) /\ Open(y)' => Open(y)
  BY OpenPart
<1>2. ASSUME NEW x \in world.items, Open(x)' PROVE Open(x)
  BY <1>1, <1>2, Families, OpenRoot, OpenDeep
<1>3. ASSUME NEW x \in Wanted, Open(x), ~Open(x)' PROVE Accounted(x)'
  <2>1. x \in world.items
    BY WantedFacts
  <2>2. CASE x.of = NoId
    BY <1>3, <2>2, OpenRoot
  <2>3. CASE \E p \in world.items : PartOfRoot(x, p)
    BY <1>3, <2>3
  <2>4. CASE \E y, p \in world.items : PartOfPart(x, y) /\ PartOfRoot(y, p)
    BY <1>3, <2>1, <2>4, OpenDeep
  <2> QED
    BY <2>1, <2>2, <2>3, <2>4, Families
<1> QED
  BY <1>2, <1>3 DEF Orderly

(***************************************************************************)
(* The roots that are listed.                                              *)
(***************************************************************************)
LEMMA HereFacts ==
  ASSUME PlaceInv, pc \notin {"region", "done"}, NEW x
  PROVE  Here(x) <=> Pass \in ListedBy(x) /\ x.region = Region
BY PassIsNamed DEF Here, Fits, Pass, Region

TypesOf(pass) ==
  IF pass = "vpc" THEN {"vpc", "subnet"} ELSE IF pass = "securitygroup" THEN {"group", "db group"} ELSE {FirstListing(pass)}

LEMMA ListedTypes ==
  ASSUME NEW w \in Worlds, NEW x \in w.items, x.of = NoId, NEW pass \in ListedBy(x), pass \in PassNames
  PROVE  x.type \in TypesOf(pass)
<1>1. x.type \in RootTypes
  BY ItemFacts
<1>2. CASE x.type \in {"role", "vpc", "subnet", "group", "db group"}
  BY <1>2 DEF ListedBy, PassOf, TypesOf, RolePasses, FirstListing
<1>3. CASE x.type \in {"balancer", "web acl"}
  BY <1>3 DEF ListedBy, PassOf, TypesOf, RolePasses, FirstListing
<1>4. CASE x.type \in {"cluster", "zone", "cdn", "bucket", "function"}
  BY <1>4 DEF ListedBy, PassOf, TypesOf, RolePasses, FirstListing
<1> QED
  BY <1>1, <1>2, <1>3, <1>4 DEF RootTypes

RootName(x) == IF x.type \in {"balancer", "web acl"} THEN PassOf(x) ELSE x.type
RootNames ==
  {"vpc", "subnet", "group", "db group", "v1", "v2", "waf", "cloudfront", "cluster", "zone", "role", "cdn", "bucket",
   "function"}

PartTypes ==
  {"association", "rule", "authorization", "listener", "target group", "target", "certificate", "forward", "acl rule",
   "load balancer", "stage", "distribution", "pod", "node", "service", "record", "value", "attachment", "document",
   "origin", "backend", "object", "url"}

LEMMA PartsHaveTypes ==
  ASSUME NEW w \in Worlds, NEW x \in w.items, x.of # NoId
  PROVE  x.type \in PartTypes
<1>1. PICK p \in w.items : IsPartOf(x, p)
  BY WorldAssumption
<1> QED
  BY <1>1 DEF IsPartOf, PartTypes, Objects

LEMMA ListsOfRoots ==
  ASSUME NEW w \in Worlds, NEW x \in w.items, NEW name, NEW of, ListOf(x) = ListError(name, of)
  PROVE  /\ name \in RootNames => x.of = NoId /\ RootName(x) = name /\ x.region = of
         /\ name \in PartTypes => x.of # NoId /\ x.type = name /\ x.of = of
<1>1. CASE x.of = NoId
  <2>1. x.type \in RootTypes
    BY <1>1, ItemFacts
  <2>2. RootName(x) \in RootNames
    BY <2>1 DEF RootTypes, RootName, RootNames, PassOf
  <2>3. RootName(x) = name /\ x.region = of
    BY <1>1 DEF ListOf, ListError, RootName
  <2> QED
    BY <1>1, <2>2, <2>3 DEF RootNames, PartTypes
<1>2. CASE x.of # NoId
  <2>1. x.type \in PartTypes
    BY <1>2, PartsHaveTypes
  <2>2. x.type = name /\ x.of = of
    BY <1>2 DEF ListOf, ListError
  <2> QED
    BY <1>2, <2>1, <2>2 DEF RootNames, PartTypes
<1> QED
  BY <1>1, <1>2

LEMMA PartOfList ==
  ASSUME NEW w \in Worlds, NEW x \in w.items, NEW t \in PartTypes, NEW of, ListOf(x) = ListError(t, of)
  PROVE  x.of # NoId /\ x.type = t /\ x.of = of
BY ListsOfRoots

Waiting == {x \in undelivered : x.of = NoId /\ Here(x) /\ x.type = pc}
ListName == IF pc \in {"balancer", "web acl"} THEN Pass ELSE pc

QueuedListings == {"group", "db group", "balancer", "web acl", "cluster", "zone", "role", "cdn", "function"}

LEMMA ListNames ==
  ASSUME PlaceInv, pc \in QueuedListings
  PROVE  ListName \in RootNames /\ Pass \in PassNames /\ pc \in TypesOf(Pass)
BY PassIsNamed, StageFacts DEF ListName, RootNames, QueuedListings, TypesOf, FirstListing, RolePasses

LEMMA ListedHere ==
  ASSUME PlaceInv, pc \in QueuedListings, NEW x \in world.items
  PROVE  /\ ListOf(x) = ListError(ListName, Region) <=> x.of = NoId /\ Here(x) /\ x.type = pc
<1>1. pc \notin {"region", "done"} /\ world \in Worlds
  BY DEF QueuedListings, PlaceInv
<1>2. ASSUME ListOf(x) = ListError(ListName, Region) PROVE x.of = NoId /\ Here(x) /\ x.type = pc
  <2>1. x.of = NoId /\ RootName(x) = ListName /\ x.region = Region
    BY <1>1, <1>2, ListNames, ListsOfRoots
  <2>2. x.type \in RootTypes
    BY <1>1, <2>1, ItemFacts
  <2>3. x.type = pc
    <3>1. CASE pc = "balancer"
      <4>1. RootName(x) \in {"v1", "v2"}
        BY <2>1, <3>1, StageFacts DEF ListName
      <4> QED
        BY <2>2, <3>1, <4>1 DEF RootName, PassOf, RootTypes
    <3>2. CASE pc = "web acl"
      <4>1. RootName(x) \in {"waf", "cloudfront"}
        BY <2>1, <3>2, StageFacts DEF ListName
      <4> QED
        BY <2>2, <3>2, <4>1 DEF RootName, PassOf, RootTypes
    <3>3. CASE pc \notin {"balancer", "web acl"}
      <4>1. RootName(x) = pc
        BY <2>1, <3>3 DEF ListName
      <4> QED
        BY <2>2, <3>3, <4>1 DEF RootName, PassOf, RootTypes, QueuedListings
    <3> QED
      BY <3>1, <3>2, <3>3
  <2>4. Pass \in ListedBy(x)
    BY <2>1, <2>3, StageFacts DEF RootName, ListName, PassOf, QueuedListings, ListedBy
  <2> QED
    BY <1>1, <2>1, <2>3, <2>4, HereFacts
<1>3. ASSUME x.of = NoId, Here(x), x.type = pc PROVE ListOf(x) = ListError(ListName, Region)
  <2>1. Pass \in ListedBy(x) /\ x.region = Region
    BY <1>1, <1>3, HereFacts
  <2> QED
    BY <1>3, <2>1 DEF ListOf, ListError, ListName, ListedBy
<1> QED
  BY <1>2, <1>3

\* The roles of AWS that are left out.
Unwanted(x) == Pass = "own roles" /\ x.type = "role" /\ x.marks # {} /\ x.of = NoId

LEMMA UnwantedOnes ==
  ASSUME PlaceInv, pc # "done", NEW x \in Wanted, NEW p \in LineOf[x], Unwanted(p)
  PROVE  FALSE
<1>1. world \in Worlds
  BY DEF PlaceInv
<1>2. PICK t \in DOMAIN world.passes : world.passes[t] \in Passes(p)
  BY <1>1, WantedFacts DEF Unwanted, Selected
<1>3. world.passes[t] = "roles"
  BY <1>2 DEF Unwanted, Passes
<1>4. turn \in DOMAIN world.passes /\ world.passes[turn] = "own roles"
  BY PassIsNamed DEF Pass, Unwanted
<1>5. t = turn
  BY <1>1, <1>2, <1>3, <1>4, PassFacts DEF WellPassed, RolePasses
<1> QED
  BY <1>3, <1>4, <1>5

\* The wholes of something wanted are no bystanders.
LEMMA PlaceStays ==
  ASSUME UNCHANGED where
  PROVE  /\ Pass' = Pass /\ Region' = Region /\ Wanted' = Wanted
         /\ \A x : (Here(x)' <=> Here(x)) /\ (Later(x)' <=> Later(x))
BY DEF where, Pass, Region, Wanted, Here, Later, Fits

ListStep(batch, new) ==
  /\ Stays /\ pc \in QueuedListings
  /\ batch \subseteq Waiting /\ new \subseteq {ListError(ListName, Region)}
  /\ undelivered' = undelivered \ batch
  /\ UNCHANGED <<item, built, pending, reported>>
  /\ queue' \subseteq queue \cup batch /\ \A x \in (queue \cup batch) \ queue' : Unwanted(x)
  /\ errors' = errors \cup new
  /\ pc' \in IF pc = "group" THEN {"group", "db group"} ELSE {pc, "convert", "region"}
  /\ (pc' # pc /\ ~more') => batch = Waiting \/ new # {}
  /\ new # {} => (pc' # pc /\ ~more')
  /\ pc' \in {"region", "balancer", "zone", "function"} => queue' = {}

LEMMA ListStepFacts ==
  ASSUME IInv, NEW batch, NEW new, ListStep(batch, new)
  PROVE  /\ world \in Worlds /\ UNCHANGED where /\ pc \notin {"region", "done"} /\ pc # "done"
         /\ pc \notin Building \cup DistributionStages /\ pc' \notin Building \cup DistributionStages
         /\ item = NoItem /\ pending = {} /\ built = {}
         /\ \A p \in reported : ~IsGlobalACL(p)
         /\ Pass = "securitygroup" => ~more'
<1>1. /\ pc \notin Building \cup DistributionStages \cup {"region", "done"}
      /\ pc' \notin Building \cup DistributionStages
  BY DEF ListStep, QueuedListings, Building, DistributionStages
<1>2. item = NoItem /\ built = {}
  BY <1>1 DEF IInv, ItemsInv
<1>3. pending = {}
  BY <1>1 DEF IInv, TypeInv, Building
<1>4. Pass = "cloudfront" => pc = "web acl"
  BY StageFacts DEF IInv, ListStep, QueuedListings, RolePasses
<1>5. \A p \in reported : ~IsGlobalACL(p)
  BY <1>1, <1>4 DEF IInv, GlobalInv
<1>6. Pass = "securitygroup" => ~more'
  BY DEF ListStep, Stays, IInv, PlaceInv, Paged
<1> QED
  BY <1>1, <1>2, <1>3, <1>5, <1>6 DEF ListStep, Stays, IInv, PlaceInv

LEMMA ListStepRoots ==
  ASSUME IInv, NEW batch, NEW new, ListStep(batch, new), NEW x \in world.items, x.of = NoId
  PROVE  /\ RootOpen(x)' => RootOpen(x)
         /\ RootOpen(x) /\ ~RootOpen(x)' => x \in batch \/ (x \in undelivered' /\ ListOf(x) \in errors')
<1>0. PlaceInv
  BY DEF IInv
<1>1. (Here(x)' <=> Here(x)) /\ (Later(x)' <=> Later(x))
  BY ListStepFacts, PlaceStays
<1>2. CASE ~Here(x)
  BY <1>1, <1>2 DEF RootOpen, ListStep
<1>3. CASE Here(x)
  <2>1. Pass \in ListedBy(x) /\ Pass \in PassNames
    BY <1>0, <1>3, ListStepFacts, HereFacts, ListNames DEF ListStep
  <2>2. x.type \in TypesOf(Pass)
    BY <2>1, ListStepFacts, ListedTypes
  <2>3. CASE x.type = pc
    <3>1. Listing(x)
      BY <2>3 DEF Listing, ListingStages
    <3>2. ~Listing(x)' => pc' # pc /\ ~more'
      BY <2>3 DEF Listing, ListingStages
    <3>3. x \in undelivered => x \in Waiting
      BY <1>3, <2>3 DEF Waiting
    <3>4. ListOf(x) = ListError(ListName, Region)
      BY <1>0, <1>3, <2>3, ListedHere DEF ListStep
    <3> QED
      BY <1>1, <1>3, <3>1, <3>2, <3>3, <3>4 DEF RootOpen, ListStep
  <2>4. CASE x.type # pc
    <3>1. /\ Pass = "securitygroup"
          /\ (x.type = "group" /\ pc = "db group") \/ (x.type = "db group" /\ pc = "group")
      <4>1. pc \in TypesOf(Pass)
        BY <1>0, ListNames DEF ListStep
      <4> QED
        BY <2>2, <2>4, <4>1, <1>0, StageFacts DEF TypesOf, ListStep, QueuedListings
    <3>2. pc = "group" => Listing(x) /\ Listing(x)'
      BY <3>1 DEF Listing, ListingStages, ListStep
    <3>3. pc = "db group" => ~Listing(x)'
      BY <3>1, ListStepFacts DEF Listing, ListingStages, ListStep
    <3>4. pc = "db group" => ~Listing(x)
      BY <3>1, <1>0 DEF Listing, ListingStages, PlaceInv
    <3> QED
      BY <1>1, <3>1, <3>2, <3>3, <3>4 DEF RootOpen, ListStep, Waiting
  <2> QED
    BY <2>3, <2>4
<1> QED
  BY <1>2, <1>3

LEMMA GlobalParts ==
  ASSUME NEW y, NEW p, PartOfRoot(y, p), y.type = "distribution"
  PROVE  IsGlobalACL(p)
BY DEF PartOfRoot, IsPartOf, IsGlobalACL, Objects

LEMMA ListStepParts ==
  ASSUME IInv, NEW batch, NEW new, ListStep(batch, new),
         NEW y \in world.items, NEW p \in world.items, PartOfRoot(y, p)
  PROVE  /\ PartsToCome(y.type, p)' => PartsToCome(y.type, p)
         /\ PartsToCome(y.type, p) /\ ~PartsToCome(y.type, p)' =>
              Unwanted(p) \/ (p \in undelivered' /\ ListOf(p) \in errors')
<1>1. p.of = NoId /\ p # NoItem /\ (y.type = "distribution" => IsGlobalACL(p))
  BY GlobalParts, ItemFacts, ListStepFacts DEF PartOfRoot
<1>2. /\ RootOpen(p)' => RootOpen(p)
      /\ RootOpen(p) /\ ~RootOpen(p)' => p \in batch \/ (p \in undelivered' /\ ListOf(p) \in errors')
  BY <1>1, ListStepRoots
<1>3. \A q \in batch : RootOpen(q)
  BY DEF ListStep, Waiting, RootOpen, Listing, ListingStages
<1>4. /\ PartsToCome(y.type, p) <=> RootOpen(p) \/ p \in queue
      /\ PartsToCome(y.type, p)' <=> RootOpen(p)' \/ p \in queue'
  BY <1>1, ListStepFacts DEF PartsToCome, ListStep
<1> QED
  BY <1>2, <1>3, <1>4 DEF ListStep

LEMMA ListStepOrderly ==
  ASSUME IInv, NEW batch, NEW new, ListStep(batch, new)
  PROVE  Orderly
<1>0. IInv /\ PlaceInv /\ ItemsInv /\ LossInv /\ world \in Worlds /\ pc # "done"
  BY ListStepFacts DEF IInv
<1>1. /\ world' = world /\ errors \subseteq errors' /\ undelivered' \subseteq undelivered
      /\ undelivered \subseteq world.items
  BY <1>0, ListStepFacts DEF ListStep, ItemsInv, where
<1>2. \A x \in undelivered \ undelivered' : Open(x)
  BY OpenRoot DEF ListStep, Waiting, RootOpen, Listing, ListingStages
<1>3. \A p \in world.items : p.of = NoId /\ RootOpen(p)' => RootOpen(p)
  BY ListStepRoots
<1>4. \A y, p \in world.items :
        PartOfRoot(y, p) /\ PartsToCome(y.type, p)' => PartsToCome(y.type, p)
  BY ListStepParts
<1>12. \A x \in undelivered \ undelivered' : x.of = NoId
  BY DEF ListStep, Waiting
<1>13. \A z, y : PartOfRoot(z, y) \/ PartOfPart(z, y) => z \notin undelivered \ undelivered'
  BY <1>12 DEF PartOfRoot, PartOfPart
<1>5. ASSUME NEW x \in world.items, Open(x)', ListOf(x) \in errors', ListOf(x) \notin errors PROVE FALSE
  <2>1. ListOf(x) = ListError(ListName, Region) /\ new # {}
    BY <1>5 DEF ListStep
  <2>2. x.of = NoId /\ Here(x) /\ x.type = pc
    BY <1>0, <2>1, ListedHere DEF ListStep
  <2>3. RootOpen(x)' /\ ~Later(x)
    BY <1>0, <1>5, <2>2, OpenRoot, HereNotLater
  <2>4. Listing(x)'
    BY <2>3, ListStepFacts, PlaceStays DEF RootOpen
  <2>5. pc' # pc /\ ~more'
    BY <2>1 DEF ListStep
  <2>6. pc' \in {"db group", "convert", "region"}
    BY <2>5 DEF ListStep
  <2> QED
    BY <2>2, <2>4, <2>5, <2>6 DEF Listing, ListingStages, ListStep, QueuedListings
<1>6. \A x \in Wanted : x \in Held => Accounted(x)'
  <2> SUFFICES ASSUME NEW x \in Wanted, x \in Held PROVE x \in Held'
    BY DEF Accounted
  <2>1. x \in LineOf[x] /\ x \in world.items
    BY <1>0, WantedFacts, LineInWorld
  <2> QED
    BY <1>0, <2>1, UnwantedOnes DEF Held, ListStep
<1>7. ASSUME NEW x \in Wanted, NEW p \in LineOf[x], p \in undelivered', ListOf(p) \in errors' PROVE Accounted(x)'
  BY <1>7 DEF Accounted, Excused
<1>8. ASSUME NEW p \in Wanted, p.of = NoId, RootOpen(p), ~RootOpen(p)' PROVE Accounted(p)'
  <2>1. p \in LineOf[p] /\ p \in world.items
    BY <1>0, WantedFacts, LineInWorld
  <2>2. p \in batch => p \in queue'
    BY <1>0, <2>1, UnwantedOnes DEF ListStep
  <2> QED
    BY <1>7, <1>8, <2>1, <2>2, ListStepRoots DEF Accounted, Held
<1>9. ASSUME NEW y, NEW p \in world.items, PartOfRoot(y, p), y \in world.items, Open(y), ~Open(y)'
      PROVE  Unwanted(p) \/ (p \in undelivered' /\ ListOf(p) \in errors')
  <2>1. y \in undelivered'
    BY <1>0, <1>9, OpenPart DEF ListStep, Waiting, PartOfRoot
  <2> QED
    BY <1>0, <1>9, <2>1, OpenPart, ListStepParts
<1>10. \A y \in Wanted, p \in world.items : PartOfRoot(y, p) /\ Open(y) /\ ~Open(y)' => Accounted(y)'
  <2> SUFFICES ASSUME NEW y \in Wanted, NEW p \in world.items, PartOfRoot(y, p), Open(y), ~Open(y)'
               PROVE  Accounted(y)'
    OBVIOUS
  <2>1. y \in world.items /\ p \in LineOf[y]
    BY <1>0, WantedFacts, PartLine
  <2> QED
    BY <1>0, <1>7, <1>9, <2>1, UnwantedOnes
<1>11. \A z \in Wanted, y, p \in world.items :
           PartOfPart(z, y) /\ PartOfRoot(y, p) /\ Open(y) /\ ~Open(y)' => Accounted(z)'
  <2> SUFFICES ASSUME NEW z \in Wanted, NEW y \in world.items, NEW p \in world.items,
                      PartOfPart(z, y), PartOfRoot(y, p), Open(y), ~Open(y)'
               PROVE  Accounted(z)'
    OBVIOUS
  <2>1. z \in world.items /\ p \in LineOf[z]
    BY <1>0, WantedFacts, DeepLine
  <2> QED
    BY <1>0, <1>7, <1>9, <2>1, UnwantedOnes
<1> QED
  BY <1>0, <1>1, <1>2, <1>3, <1>4, <1>5, <1>6, <1>8, <1>10, <1>11, <1>13, OrderlyFrom

LEMMA ListStepItems ==
  ASSUME IInv, NEW batch, NEW new, ListStep(batch, new)
  PROVE  ItemsInv' /\ GlobalInv' /\ TypeInv'
<1>1. PlaceInv /\ ItemsInv /\ TypeInv
  BY DEF IInv
<1>2. /\ undelivered' \subseteq undelivered /\ batch \subseteq undelivered /\ batch \cap undelivered' = {}
      /\ \A x \in batch : x.of = NoId /\ Here(x)
  BY DEF ListStep, Waiting
<1>3. \A x : Here(x)' <=> Here(x)
  BY ListStepFacts, PlaceStays
<1>4. world' = world
  BY ListStepFacts DEF where
<1>5. pc' \notin {"done", "bucket", "vpc", "subnet"}
  BY DEF ListStep, QueuedListings
<1>6. ItemsInv'
  <2>1. /\ undelivered' \subseteq world.items /\ reported' \subseteq world.items /\ built' \subseteq PartItems
        /\ queue' \subseteq world.items \ undelivered'
    BY <1>1, <1>2 DEF ItemsInv, ListStep
  <2>2. item' = NoItem /\ built' = {} /\ pc' \notin Building
    BY ListStepFacts DEF ListStep
  <2>3. \A x \in queue' : x.of = NoId /\ Here(x)'
    BY <1>1, <1>2, <1>3 DEF ItemsInv, ListStep
  <2>4. pc' \in {"region", "done", "balancer", "zone", "function", "bucket", "vpc", "subnet"} => queue' = {}
    BY <1>5 DEF ListStep
  <2> QED
    BY <1>4, <2>1, <2>2, <2>3, <2>4 DEF ItemsInv, PartItems
<1>7. GlobalInv'
  BY ListStepFacts DEF GlobalInv, ListStep
<1>8. TypeInv'
  BY ListStepFacts DEF TypeInv, ListStep, Stays
<1> QED
  BY <1>6, <1>7, <1>8

LEMMA ListStepKeepsInvariant ==
  ASSUME IInv, NEW batch, NEW new, ListStep(batch, new)
  PROVE  IInv' /\ Orderly
<1>1. PlaceInv'
  BY StaysKeepsPlace DEF IInv, ListStep
<1>2. LossInv'
  BY ListStepOrderly, OrderlyKeepsLosses DEF IInv, PlaceInv, ItemsInv
<1> QED
  BY <1>1, <1>2, ListStepItems, ListStepOrderly DEF IInv

(***************************************************************************)
(* The listings.                                                           *)
(***************************************************************************)
LEMMA WaitingFacts ==
  ASSUME PlaceInv, undelivered \subseteq world.items, pc \in QueuedListings
  PROVE  /\ pc \notin {"balancer", "web acl"} => Waiting = Awaited(pc)
         /\ pc = "balancer" => Waiting = AwaitedBalancers
         /\ pc = "web acl" => Waiting = AwaitedACLs
<1>1. pc \notin {"region", "done"} /\ world \in Worlds
  BY DEF QueuedListings, PlaceInv
<1>2. \A x : Here(x) <=> Pass \in ListedBy(x) /\ x.region = Region
  BY <1>1, HereFacts
<1>3. CASE pc \notin {"balancer", "web acl"}
  <2>1. \A x : x.type = pc => Pass \in ListedBy(x)
    BY <1>3, StageFacts DEF ListedBy, PassOf, QueuedListings
  <2> QED
    BY <1>2, <1>3, <2>1 DEF Waiting, Awaited
<1>4. CASE pc = "balancer"
  <2>1. Pass \in {"v1", "v2"}
    BY <1>4, StageFacts
  <2>2. \A x \in world.items : x.type = "balancer" => x.classic \in BOOLEAN
    BY <1>1, WorldAssumption
  <2>3. \A x \in world.items : x.type = "balancer" => (Pass \in ListedBy(x) <=> OfThisPass(x))
    BY <2>1, <2>2 DEF ListedBy, PassOf, OfThisPass, IsClassic
  <2> QED
    BY <1>2, <1>4, <2>3 DEF Waiting, Awaited, AwaitedBalancers
<1>5. CASE pc = "web acl"
  <2>1. Pass \in {"waf", "cloudfront"}
    BY <1>5, StageFacts
  <2>2. \A x \in world.items : x.type = "web acl" => x.scope \in {"regional", "global"}
    BY <1>1, WorldAssumption
  <2>3. \A x \in world.items : x.type = "web acl" => (Pass \in ListedBy(x) <=> x.scope = Scope)
    BY <2>1, <2>2 DEF ListedBy, PassOf, Scope
  <2> QED
    BY <1>2, <1>5, <2>3 DEF Waiting, Awaited, AwaitedACLs
<1> QED
  BY <1>3, <1>4, <1>5

Step == IInv' /\ Orderly

LEMMA ListStepDone ==
  ASSUME IInv, \E batch, new : ListStep(batch, new)
  PROVE  Step
BY ListStepKeepsInvariant DEF Step

LEMMA GroupListings ==
  ASSUME IInv, \/ ListGroups("group", "db group") \/ GroupsFail("group", "db group")
               \/ ListGroups("db group", "convert") \/ GroupsFail("db group", "convert")
  PROVE  Step
<1>1. PlaceInv /\ TypeInv /\ ItemsInv /\ GroupsNext
  BY DEF IInv, GroupsNext
<1>2. Stays /\ pc \in {"group", "db group"} /\ pc \in QueuedListings
  BY <1>1, GroupsStay DEF ListGroups, GroupsFail, QueuedListings
<1>3. ListName = pc /\ Waiting = Awaited(pc)
  BY <1>1, <1>2, WaitingFacts DEF ListName, ItemsInv
<1>4. ~more' /\ ~more
  BY <1>1, <1>2, StageFacts DEF Stays, PlaceInv, Paged
<1>5. CASE ListGroups("group", "db group") \/ ListGroups("db group", "convert")
  <2>1. PICK batch \in SUBSET Awaited(pc), last \in BOOLEAN :
          /\ IsPage(batch, Awaited(pc), last)
          /\ undelivered' = undelivered \ batch
          /\ queue' = queue \cup batch
          /\ pc' = IF last THEN (IF pc = "group" THEN "db group" ELSE "convert") ELSE pc
    BY <1>5 DEF ListGroups
  <2>2. ListStep(batch, {})
    BY <1>2, <1>3, <1>4, <1>5, <2>1 DEF ListStep, IsPage, ListGroups, building
  <2> QED
    BY <2>2, ListStepDone
<1>6. CASE GroupsFail("group", "db group") \/ GroupsFail("db group", "convert")
  <2>1. ListStep({}, {ListError(pc, Region)})
    BY <1>2, <1>3, <1>4, <1>6 DEF ListStep, GroupsFail, building
  <2> QED
    BY <2>1, ListStepDone
<1> QED
  BY <1>5, <1>6

LEMMA BalancerListings ==
  ASSUME IInv, ListBalancers \/ BalancersFail
  PROVE  Step
<1>1. PlaceInv /\ TypeInv /\ ItemsInv /\ BalancersNext
  BY DEF IInv, BalancersNext
<1>2. Stays /\ pc = "balancer" /\ pc \in QueuedListings /\ queue = {}
  BY <1>1, BalancersStay DEF ListBalancers, BalancersFail, QueuedListings, ItemsInv
<1>3. ListName = Pass /\ Waiting = AwaitedBalancers
  BY <1>1, <1>2, WaitingFacts DEF ListName, ItemsInv
<1>4. CASE ListBalancers
  <2>1. PICK batch \in SUBSET AwaitedBalancers, last \in BOOLEAN :
          /\ IsPage(batch, AwaitedBalancers, last)
          /\ undelivered' = undelivered \ batch /\ queue' = batch /\ more' = ~last
    BY <1>4 DEF ListBalancers
  <2>2. ListStep(batch, {})
    BY <1>2, <1>3, <1>4, <2>1 DEF ListStep, IsPage, ListBalancers, building
  <2> QED
    BY <2>2, ListStepDone
<1>5. CASE BalancersFail
  <2>1. ListStep({}, {ListError(Pass, Region)})
    BY <1>2, <1>3, <1>5 DEF ListStep, BalancersFail, building
  <2> QED
    BY <2>1, ListStepDone
<1> QED
  BY <1>4, <1>5

LEMMA ZoneListings ==
  ASSUME IInv, ListZones \/ ZonesFail
  PROVE  Step
<1>1. PlaceInv /\ TypeInv /\ ItemsInv /\ GlobalNext
  BY DEF IInv, GlobalNext
<1>2. Stays /\ pc = "zone" /\ pc \in QueuedListings /\ queue = {}
  BY <1>1, GlobalStays DEF ListZones, ZonesFail, QueuedListings, ItemsInv
<1>3. ListName = "zone" /\ Waiting = Awaited("zone")
  BY <1>1, <1>2, WaitingFacts DEF ListName, ItemsInv
<1>4. CASE ListZones
  <2>1. PICK batch \in SUBSET Awaited("zone"), last \in BOOLEAN :
          /\ IsPage(batch, Awaited("zone"), last)
          /\ undelivered' = undelivered \ batch /\ queue' = batch /\ more' = ~last
    BY <1>4 DEF ListZones
  <2>2. ListStep(batch, {})
    BY <1>2, <1>3, <1>4, <2>1 DEF ListStep, IsPage, ListZones, building
  <2> QED
    BY <2>2, ListStepDone
<1>5. CASE ZonesFail
  <2>1. ListStep({}, {ListError("zone", Region)})
    BY <1>2, <1>3, <1>5 DEF ListStep, ZonesFail, building
  <2> QED
    BY <2>1, ListStepDone
<1> QED
  BY <1>4, <1>5

LEMMA FunctionListings ==
  ASSUME IInv, ListFunctions \/ FunctionsFail
  PROVE  Step
<1>1. PlaceInv /\ TypeInv /\ ItemsInv /\ FunctionsNext
  BY DEF IInv, FunctionsNext
<1>2. Stays /\ pc = "function" /\ pc \in QueuedListings /\ queue = {}
  BY <1>1, FunctionsStay DEF ListFunctions, FunctionsFail, QueuedListings, ItemsInv
<1>3. ListName = "function" /\ Waiting = Awaited("function")
  BY <1>1, <1>2, WaitingFacts DEF ListName, ItemsInv
<1>4. CASE ListFunctions
  <2>1. PICK batch \in SUBSET Awaited("function"), last \in BOOLEAN :
          /\ IsPage(batch, Awaited("function"), last)
          /\ undelivered' = undelivered \ batch /\ queue' = batch /\ more' = ~last
    BY <1>4 DEF ListFunctions
  <2>2. ListStep(batch, {})
    BY <1>2, <1>3, <1>4, <2>1 DEF ListStep, IsPage, ListFunctions, building
  <2> QED
    BY <2>2, ListStepDone
<1>5. CASE FunctionsFail
  <2>1. ListStep({}, {ListError("function", Region)})
    BY <1>2, <1>3, <1>5 DEF ListStep, FunctionsFail, building
  <2> QED
    BY <2>1, ListStepDone
<1> QED
  BY <1>4, <1>5

LEMMA ACLListings ==
  ASSUME IInv, ListWebACLs \/ WebACLsFail
  PROVE  Step
<1>1. PlaceInv /\ TypeInv /\ ItemsInv /\ WafNext
  BY DEF IInv, WafNext
<1>2. Stays /\ pc = "web acl" /\ pc \in QueuedListings
  BY <1>1, WafStays DEF ListWebACLs, WebACLsFail, QueuedListings
<1>3. ListName = Pass /\ Waiting = AwaitedACLs
  BY <1>1, <1>2, WaitingFacts DEF ListName, ItemsInv
<1>4. ~more' /\ ~more
  BY <1>1, <1>2, StageFacts DEF Stays, PlaceInv, Paged
<1>5. CASE ListWebACLs
  <2>1. PICK batch \in SUBSET AwaitedACLs, next \in Given :
          /\ next = NoId => batch = AwaitedACLs
          /\ undelivered' = undelivered \ batch
          /\ queue' = queue \cup batch
          /\ errors' = IF next # NoId /\ next = marker
                       THEN errors \cup {ListError(Pass, Region)} ELSE errors
          /\ pc' = IF next \in {NoId, marker} THEN "convert" ELSE pc
    BY <1>5 DEF ListWebACLs
  <2>2. CASE next # NoId /\ next = marker
    <3>1. ListStep(batch, {ListError(Pass, Region)})
      BY <1>2, <1>3, <1>4, <1>5, <2>1, <2>2 DEF ListStep, ListWebACLs, building
    <3> QED
      BY <3>1, ListStepDone
  <2>3. CASE ~(next # NoId /\ next = marker)
    <3>1. ListStep(batch, {})
      BY <1>2, <1>3, <1>4, <1>5, <2>1, <2>3 DEF ListStep, ListWebACLs, building
    <3> QED
      BY <3>1, ListStepDone
  <2> QED
    BY <2>2, <2>3
<1>6. CASE WebACLsFail
  <2>1. ListStep({}, {ListError(Pass, Region)})
    BY <1>2, <1>3, <1>4, <1>6 DEF ListStep, WebACLsFail, building
  <2> QED
    BY <2>1, ListStepDone
<1> QED
  BY <1>5, <1>6

LEMMA ClusterListings ==
  ASSUME IInv, ListClusters \/ ClustersFail
  PROVE  Step
<1>1. PlaceInv /\ TypeInv /\ ItemsInv /\ ClustersNext
  BY DEF IInv, ClustersNext
<1>2. Stays /\ pc = "cluster" /\ pc \in QueuedListings
  BY <1>1, ClustersStay DEF ListClusters, ClustersFail, QueuedListings
<1>3. ListName = "cluster" /\ Waiting = Awaited("cluster")
  BY <1>1, <1>2, WaitingFacts DEF ListName, ItemsInv
<1>4. ~more' /\ ~more
  BY <1>1, <1>2, StageFacts DEF Stays, PlaceInv, Paged
<1>5. CASE ListClusters
  <2>1. PICK batch \in SUBSET Awaited("cluster"), last \in BOOLEAN :
          /\ last => batch = Awaited("cluster")
          /\ undelivered' = undelivered \ batch /\ queue' = queue \cup batch
          /\ pc' = IF last THEN "convert" ELSE pc
    BY <1>5 DEF ListClusters
  <2>2. ListStep(batch, {})
    BY <1>2, <1>3, <1>4, <1>5, <2>1 DEF ListStep, ListClusters, building
  <2> QED
    BY <2>2, ListStepDone
<1>6. CASE ClustersFail
  <2>1. ListStep({}, {ListError("cluster", Region)})
    BY <1>2, <1>3, <1>4, <1>6 DEF ListStep, ClustersFail, building
  <2> QED
    BY <2>1, ListStepDone
<1> QED
  BY <1>5, <1>6

LEMMA CdnListings ==
  ASSUME IInv, ListCdns \/ CdnsFail
  PROVE  Step
<1>1. PlaceInv /\ TypeInv /\ ItemsInv /\ GlobalNext
  BY DEF IInv, GlobalNext
<1>2. Stays /\ pc = "cdn" /\ pc \in QueuedListings
  BY <1>1, GlobalStays DEF ListCdns, CdnsFail, QueuedListings
<1>3. ListName = "cdn" /\ Waiting = Awaited("cdn")
  BY <1>1, <1>2, WaitingFacts DEF ListName, ItemsInv
<1>4. ~more' /\ ~more
  BY <1>1, <1>2, StageFacts DEF Stays, PlaceInv, Paged
<1>5. CASE ListCdns
  <2>1. PICK batch \in SUBSET Awaited("cdn"), last \in BOOLEAN :
          /\ IsPage(batch, Awaited("cdn"), last)
          /\ undelivered' = undelivered \ batch /\ queue' = queue \cup batch
          /\ pc' = IF last THEN "convert" ELSE pc
    BY <1>2, <1>5 DEF ListCdns
  <2>2. ListStep(batch, {})
    BY <1>2, <1>3, <1>4, <1>5, <2>1 DEF ListStep, ListCdns, IsPage, building
  <2> QED
    BY <2>2, ListStepDone
<1>6. CASE CdnsFail
  <2>1. ListStep({}, {ListError("cdn", Region)})
    BY <1>2, <1>3, <1>4, <1>6 DEF ListStep, CdnsFail, building
  <2> QED
    BY <2>1, ListStepDone
<1> QED
  BY <1>5, <1>6

LEMMA KeptRolesFacts ==
  ASSUME PlaceInv, NEW xs, \A x \in xs : x.of = NoId /\ x.type = "role"
  PROVE  KeptRoles(xs) \subseteq xs /\ \A x \in xs \ KeptRoles(xs) : Unwanted(x)
BY DEF KeptRoles, Unwanted

LEMMA RoleListings ==
  ASSUME IInv, ListRoles \/ RolesFail
  PROVE  Step
<1>1. PlaceInv /\ TypeInv /\ ItemsInv /\ GlobalNext /\ world \in Worlds
  BY DEF IInv, GlobalNext, PlaceInv
<1>2. Stays /\ pc = "role" /\ pc \in QueuedListings
  BY <1>1, GlobalStays DEF ListRoles, RolesFail, QueuedListings
<1>3. ListName = "role" /\ Waiting = Awaited("role")
  BY <1>1, <1>2, WaitingFacts DEF ListName, ItemsInv
<1>4. ~more' /\ ~more
  BY <1>1, <1>2, StageFacts DEF Stays, PlaceInv, Paged, RolePasses
<1>5. \A x \in queue : x.of = NoId /\ x.type = "role"
  <2>1. \A x \in queue : x \in world.items /\ x.of = NoId /\ Pass \in ListedBy(x)
    BY <1>1, <1>2, HereFacts DEF ItemsInv
  <2>2. TypesOf(Pass) = {"role"} /\ Pass \in PassNames
    BY <1>1, <1>2, StageFacts, PassIsNamed DEF TypesOf, FirstListing, RolePasses
  <2> QED
    BY <1>1, <2>1, <2>2, ListedTypes
<1>6. CASE ListRoles
  <2>1. PICK batch \in SUBSET Awaited("role"), last \in BOOLEAN :
          /\ IsPage(batch, Awaited("role"), last)
          /\ undelivered' = undelivered \ batch
          /\ queue' = IF last THEN KeptRoles(queue \cup batch) ELSE queue \cup batch
          /\ pc' = IF last THEN "convert" ELSE "role"
    BY <1>6 DEF ListRoles
  <2>2. \A x \in queue \cup batch : x.of = NoId /\ x.type = "role"
    BY <1>5 DEF Awaited
  <2>3. queue' \subseteq queue \cup batch /\ \A x \in (queue \cup batch) \ queue' : Unwanted(x)
    BY <1>1, <2>1, <2>2, KeptRolesFacts
  <2>4. ListStep(batch, {})
    BY <1>2, <1>3, <1>4, <1>6, <2>1, <2>3 DEF ListStep, ListRoles, IsPage, building
  <2> QED
    BY <2>4, ListStepDone
<1>7. CASE RolesFail
  <2>1. queue' \subseteq queue /\ \A x \in queue \ queue' : Unwanted(x)
    BY <1>1, <1>5, <1>7, KeptRolesFacts DEF RolesFail
  <2>2. ListStep({}, {ListError("role", Region)})
    BY <1>2, <1>3, <1>4, <1>7, <2>1 DEF ListStep, RolesFail, building
  <2> QED
    BY <2>2, ListStepDone
<1> QED
  BY <1>6, <1>7

(***************************************************************************)
(* An item is taken from the queue.                                        *)
(***************************************************************************)
\* What is done with items, and not with a listing.
Handling == Building \cup DistributionStages \cup {"convert"}

LEMMA RootsStay ==
  ASSUME world \in Worlds, UNCHANGED <<where, more>>, pc \in Handling, pc' \in Handling,
         undelivered' \subseteq undelivered, \A x \in undelivered \ undelivered' : x.of # NoId,
         NEW p \in world.items, p.of = NoId
  PROVE  (RootOpen(p)' <=> RootOpen(p)) /\ (RootOpen(p) => more \/ Later(p))
<1>1. p.type \in RootTypes
  BY ItemFacts
<1>2. ListingStages(p.type) \cap Handling = {}
  BY <1>1 DEF ListingStages, RootTypes, Handling, Building, DistributionStages
<1>3. (Here(p)' <=> Here(p)) /\ (Later(p)' <=> Later(p))
  BY PlaceStays
<1> QED
  BY <1>2, <1>3 DEF RootOpen, Listing

\* None of the errors is of a list.
NoList(new) == \A x \in world.items : ListOf(x) \notin new

LEMMA NoListFacts ==
  ASSUME NEW new, \A e \in new : e[1] # "list"
  PROVE  NoList(new)
BY DEF NoList, ListOf, ListError

RejectStep(x, new) ==
  /\ Stays /\ pc = "convert" /\ pc' = "convert" /\ x \in queue /\ queue' = queue \ {x}
  /\ UNCHANGED <<more, undelivered, item, built, pending, reported>>
  /\ errors' = errors \cup new /\ NoList(new)
  /\ <<"rejected", x.name, NoId>> \in new \/ (x.type = "cluster" /\ ~x.whole /\ Nameless \in new)

\* An item that is taken up: of its parts each is still to come, built, or told.
AcceptStep(x, new) ==
  /\ Stays /\ pc = "convert" /\ pc' \in Building \ DistributionStages /\ x \in queue /\ queue' = queue \ {x}
  /\ UNCHANGED <<more, undelivered, reported>>
  /\ item' = x /\ built' \subseteq PartItems
  /\ pending' # {} => pc' \in {"rule", "references", "listener", "target group"} /\ pending' \subseteq Asked(x)
  /\ errors' = errors \cup new /\ NoList(new)
  /\ \A y \in world.items : PartOfRoot(y, x) =>
       \/ pc' \in PartStages(y.type)
       \/ /\ y \in built' \/ <<"rejected", y.name, NoId>> \in errors'
          /\ \A z \in world.items : ~PartOfPart(z, y)

LEMMA TakeFacts ==
  ASSUME IInv, pc = "convert"
  PROVE  /\ world \in Worlds /\ item = NoItem /\ built = {} /\ pending = {}
         /\ \A x \in queue : x \in world.items /\ x.of = NoId /\ x \notin undelivered /\ x # NoItem /\ Here(x)
<1>1. ItemsInv /\ PlaceInv /\ TypeInv
  BY DEF IInv
<1>2. item = NoItem /\ built = {} /\ pending = {}
  BY <1>1 DEF ItemsInv, Building, TypeInv
<1>3. ASSUME NEW x \in queue PROVE x \in world.items /\ x.of = NoId /\ x \notin undelivered /\ x # NoItem /\ Here(x)
  <2>1. x \in world.items /\ x \notin undelivered /\ x.of = NoId /\ Here(x)
    BY <1>1 DEF ItemsInv
  <2> QED
    BY <1>1, <2>1, ItemFacts DEF PlaceInv
<1> QED
  BY <1>1, <1>2, <1>3 DEF PlaceInv

LEMMA RejectStepOrderly ==
  ASSUME IInv, NEW x, NEW new, RejectStep(x, new)
  PROVE  Orderly
<1>0. /\ world \in Worlds /\ world' = world /\ UNCHANGED where /\ undelivered \subseteq world.items
      /\ item = NoItem /\ x \in world.items /\ x.of = NoId
      /\ UNCHANGED <<pc, more, undelivered, item, built, reported>>
  BY TakeFacts DEF RejectStep, Stays, where, IInv, ItemsInv
<1>1. \A p \in world.items : p.of = NoId => (RootOpen(p)' <=> RootOpen(p))
  BY <1>0, RootsStay DEF RejectStep, Handling
<1>2. \A t : \A p \in world.items : p.of = NoId =>
        /\ PartsToCome(t, p)' => PartsToCome(t, p)
        /\ PartsToCome(t, p) /\ ~PartsToCome(t, p)' => p = x
  BY <1>0, <1>1 DEF PartsToCome, RejectStep
<1>3. \A y, p \in world.items :
        PartOfRoot(y, p) /\ PartsToCome(y.type, p)' => PartsToCome(y.type, p)
  BY <1>2 DEF PartOfRoot
<1>4. \A y \in world.items : ListOf(y) \in errors' => ListOf(y) \in errors
  BY DEF RejectStep, NoList
<1>5. ASSUME NEW y \in Wanted, x \in LineOf[y] PROVE Excused(y)'
  BY <1>5 DEF Excused, RejectStep
<1>6. ASSUME NEW y \in Wanted, y \in Held PROVE Accounted(y)'
  <2>1. y \in LineOf[y]
    BY <1>0, WantedFacts, LineInWorld
  <2> QED
    BY <1>0, <1>5, <1>6, <2>1 DEF Held, Accounted, RejectStep
<1>7. \A y, p \in world.items : PartOfRoot(y, p) /\ Open(y) /\ ~Open(y)' => p = x
  BY <1>0, <1>2, OpenPart DEF PartOfRoot
<1>8. \A y \in Wanted, p \in world.items : PartOfRoot(y, p) /\ Open(y) /\ ~Open(y)' => Accounted(y)'
  BY <1>0, <1>5, <1>7, WantedFacts, PartLine DEF Accounted
<1>9. \A z \in Wanted, y, p \in world.items :
        PartOfPart(z, y) /\ PartOfRoot(y, p) /\ Open(y) /\ ~Open(y)' => Accounted(z)'
  BY <1>0, <1>5, <1>7, WantedFacts, DeepLine DEF Accounted
<1>10. \A p \in Wanted : p.of = NoId /\ RootOpen(p) /\ ~RootOpen(p)' => Accounted(p)'
  BY <1>0, <1>1, WantedFacts
<1> QED
  BY <1>0, <1>1, <1>3, <1>4, <1>6, <1>8, <1>9, <1>10, OrderlyFrom DEF RejectStep

LEMMA RejectStepDone ==
  ASSUME IInv, NEW x, NEW new, RejectStep(x, new)
  PROVE  Step
<1>1. PlaceInv' /\ Orderly
  BY StaysKeepsPlace, RejectStepOrderly DEF IInv, RejectStep
<1>2. LossInv'
  BY <1>1, OrderlyKeepsLosses DEF IInv, PlaceInv, ItemsInv
<1>3. /\ UNCHANGED <<where, pc, undelivered, item, built, pending, reported>> /\ world' = world
      /\ queue' \subseteq queue
  BY DEF RejectStep, Stays, where
<1>4. \A q : Here(q)' <=> Here(q)
  BY <1>3, PlaceStays
<1>5. ItemsInv'
  BY <1>3, <1>4 DEF IInv, ItemsInv, RejectStep, PartItems
<1>6. GlobalInv'
  <2>1. Pass' = Pass /\ Region' = Region /\ place' = place /\ pc' \notin DistributionStages /\ pc = "convert"
    BY <1>3, PlaceStays DEF where, RejectStep, DistributionStages
  <2> QED
    BY <1>3, <2>1 DEF IInv, GlobalInv
<1>7. TypeInv'
  BY <1>3, TakeFacts DEF TypeInv, RejectStep, Stays
<1> QED
  BY <1>1, <1>2, <1>5, <1>6, <1>7 DEF IInv, Step

LEMMA AcceptStepOrderly ==
  ASSUME IInv, NEW x, NEW new, AcceptStep(x, new)
  PROVE  Orderly
<1>0. /\ world \in Worlds /\ world' = world /\ UNCHANGED where /\ undelivered \subseteq world.items
      /\ item = NoItem /\ x \in world.items /\ x.of = NoId /\ built = {}
      /\ UNCHANGED <<more, undelivered, reported>> /\ item' = x /\ queue' = queue \ {x} /\ x \in queue
      /\ pc = "convert" /\ pc' \notin DistributionStages
  BY TakeFacts DEF AcceptStep, Stays, where, IInv, ItemsInv
<1>1. \A p \in world.items : p.of = NoId => (RootOpen(p)' <=> RootOpen(p))
  BY <1>0, RootsStay DEF AcceptStep, Handling
<1>2. ASSUME NEW t, NEW p \in world.items, p.of = NoId
      PROVE  /\ PartsToCome(t, p)' => PartsToCome(t, p) \/ (t = "distribution" /\ p \in reported)
             /\ PartsToCome(t, p) /\ ~PartsToCome(t, p)' =>
                  (p = x /\ pc' \notin PartStages(t)) \/ (t = "distribution" /\ p \in reported /\ pc' \notin AclStages)
  <2>1. (RootOpen(p)' <=> RootOpen(p)) /\ p # item /\ pc \notin DistributionStages
    BY <1>0, <1>1, <1>2, ItemFacts DEF DistributionStages
  <2>2. /\ PartsToCome(t, p) <=> RootOpen(p) \/ p \in queue \/ (t = "distribution" /\ p \in reported /\ pc \in AclStages)
        /\ PartsToCome(t, p)' <=>
             RootOpen(p)' \/ p \in queue \ {x} \/ (p = x /\ pc' \in PartStages(t))
               \/ (t = "distribution" /\ p \in reported /\ pc' \in AclStages)
    BY <1>0, <2>1 DEF PartsToCome
  <2> QED
    BY <1>0, <2>1, <2>2
<1>3. ASSUME NEW y \in world.items, NEW p \in world.items, PartOfRoot(y, p)
      PROVE  /\ PartsToCome(y.type, p)' => PartsToCome(y.type, p)
             /\ PartsToCome(y.type, p) /\ ~PartsToCome(y.type, p)' => p = x /\ pc' \notin PartStages(y.type)
  <2>1. p.of = NoId
    BY <1>3 DEF PartOfRoot
  <2>2. CASE y.type = "distribution" /\ p \in reported
    <3>1. IsGlobalACL(p)
      BY <1>3, <2>2, GlobalParts
    <3>2. Pass = "cloudfront"
      BY <1>0, <2>2, <3>1 DEF IInv, GlobalInv
    <3>3. pc' \in AclStages
      BY <1>0, <3>2, StagesOfPasses DEF AcceptStep, Stays, AclStages, Building, DistributionStages
    <3> QED
      BY <1>0, <2>2, <3>3 DEF PartsToCome, AclStages
  <2>3. CASE ~(y.type = "distribution" /\ p \in reported)
    BY <1>2, <2>1, <2>3
  <2> QED
    BY <2>2, <2>3
<1>4. \A y \in world.items : ListOf(y) \in errors' => ListOf(y) \in errors
  BY DEF AcceptStep, NoList
<1>5. \A y \in Wanted : y \in Held => Accounted(y)'
  BY <1>0, WantedFacts, ItemFacts DEF Held, Accounted
<1>6. \A y, p \in world.items : PartOfRoot(y, p) /\ Open(y) /\ ~Open(y)' => p = x /\ pc' \notin PartStages(y.type)
  BY <1>0, <1>3, OpenPart
<1>7. ASSUME NEW y \in Wanted, NEW p \in world.items, PartOfRoot(y, p), Open(y), ~Open(y)' PROVE Accounted(y)'
  <2>1. y \in world.items /\ y \in LineOf[y]
    BY <1>0, WantedFacts, LineInWorld
  <2>2. y \in built' \/ <<"rejected", y.name, NoId>> \in errors'
    BY <1>6, <1>7, <2>1 DEF AcceptStep
  <2> QED
    BY <2>1, <2>2 DEF Accounted, Held, Excused
<1>8. \A z \in Wanted, y, p \in world.items :
        PartOfPart(z, y) /\ PartOfRoot(y, p) /\ Open(y) /\ ~Open(y)' => Accounted(z)'
  BY <1>0, <1>6, WantedFacts DEF AcceptStep
<1>9. \A p \in Wanted : p.of = NoId /\ RootOpen(p) /\ ~RootOpen(p)' => Accounted(p)'
  BY <1>0, <1>1, WantedFacts
<1>10. \A y, p \in world.items :
         PartOfRoot(y, p) /\ PartsToCome(y.type, p)' => PartsToCome(y.type, p)
  BY <1>3
<1> QED
  BY <1>0, <1>1, <1>10, <1>4, <1>5, <1>7, <1>8, <1>9, OrderlyFrom DEF AcceptStep

LEMMA AcceptStepDone ==
  ASSUME IInv, NEW x, NEW new, AcceptStep(x, new)
  PROVE  Step
<1>1. PlaceInv' /\ Orderly
  BY StaysKeepsPlace, AcceptStepOrderly DEF IInv, AcceptStep
<1>2. LossInv'
  BY <1>1, OrderlyKeepsLosses DEF IInv, PlaceInv, ItemsInv
<1>3. /\ UNCHANGED <<where, undelivered, reported>> /\ world' = world /\ queue' = queue \ {x} /\ item' = x
      /\ pc' \in Building /\ pc' \notin DistributionStages /\ x \in queue /\ pc = "convert"
      /\ x \in world.items /\ x # NoItem /\ x \notin undelivered /\ x.of = NoId /\ Here(x)
  BY TakeFacts DEF AcceptStep, Stays, where
<1>4. \A q : Here(q)' <=> Here(q)
  BY <1>3, PlaceStays
<1>5. ItemsInv'
  <2>1. pc' \notin {"region", "done", "balancer", "zone", "function", "bucket", "vpc", "subnet"}
    BY <1>3 DEF Building
  <2> QED
    BY <1>3, <1>4, <2>1 DEF IInv, ItemsInv, AcceptStep, PartItems
<1>6. GlobalInv'
  <2>1. pc' \notin {"web acl", "done"} /\ pc # "done"
    BY <1>3 DEF Building
  <2>2. Pass' = Pass /\ Region' = Region /\ place' = place
    BY <1>3, PlaceStays DEF where
  <2> QED
    BY <1>3, <2>1, <2>2 DEF IInv, GlobalInv
<1>7. TypeInv'
  BY <1>3 DEF TypeInv, AcceptStep, Stays
<1> QED
  BY <1>1, <1>2, <1>5, <1>6, <1>7 DEF IInv, Step

(***************************************************************************)
(* The actions that take an item from the queue.                           *)
(***************************************************************************)
LEMMA PartStagesAre ==
  /\ PartStages("rule") = {"rule"} /\ PartStages("listener") = {"listener"}
  /\ PartStages("target group") = {"listener", "target group"} /\ PartStages("acl rule") = {"acl rule"}
  /\ PartStages("load balancer") = {"acl rule", "resources"} /\ PartStages("stage") = {"acl rule", "resources"}
  /\ PartStages("distribution") = {"acl rule", "append", "distribution"}
  /\ PartStages("pod") = {"references", "kubernetes"} /\ PartStages("node") = {"references", "kubernetes"}
  /\ PartStages("service") = {"references", "kubernetes"} /\ PartStages("record") = {"record"}
  /\ PartStages("attachment") = {"attachment"} /\ PartStages("origin") = {"origin"}
  /\ PartStages("object") = {"object"} /\ PartStages("url") = {"url"}
  /\ PartStages("authorization") = {"authorization"} /\ PartStages("target") = {"target"}
  /\ PartStages("association") = {"association"}
BY DEF PartStages, Objects

LEMMA QueuedKind ==
  ASSUME IInv, pc = "convert", NEW x \in queue
  PROVE  x.type \in TypesOf(Pass) /\ Pass \in ListedBy(x) /\ Pass \in PassNames
<1>1. PlaceInv /\ world \in Worlds /\ pc \notin {"region", "done"} /\ x \in world.items /\ x.of = NoId /\ Here(x)
  BY TakeFacts DEF IInv
<1>2. Pass \in ListedBy(x) /\ Pass \in PassNames
  BY <1>1, HereFacts, PassIsNamed
<1> QED
  BY <1>1, <1>2, ListedTypes

LEMMA Rejected ==
  ASSUME IInv, Stays, NEW x \in queue, RejectItem(x)
  PROVE  Step
<1>1. NoList(Rejections({x}))
  BY NoListFacts DEF Rejections
<1>2. RejectStep(x, Rejections({x}))
  BY <1>1 DEF RejectItem, TakeFromQueue, RejectStep, paging, building, Rejections
<1> QED
  BY <1>2, RejectStepDone

\* An item whose parts are all asked for by further calls.
LEMMA TakenUp ==
  ASSUME IInv, Stays, NEW x \in queue, NEW new, TakeFromQueue(x), pc' \in Building \ DistributionStages,
         UNCHANGED <<paging, undelivered, reported, built>>, item' = x, errors' = errors \cup new, NoList(new),
         pending' # {} => pc' \in {"rule", "references", "listener", "target group"} /\ pending' \subseteq Asked(x),
         \A y \in world.items : PartOfRoot(y, x) => pc' \in PartStages(y.type)
  PROVE  Step
<1>1. AcceptStep(x, new)
  BY TakeFacts DEF AcceptStep, TakeFromQueue, paging
<1> QED
  BY <1>1, AcceptStepDone

LEMMA TakenQuietly ==
  ASSUME IInv, Stays, NEW x \in queue, TakeFromQueue(x), pc' \in Building \ DistributionStages,
         UNCHANGED <<paging, undelivered, reported, built, errors>>, item' = x,
         pending' # {} => pc' \in {"rule", "references", "listener", "target group"} /\ pending' \subseteq Asked(x),
         \A y \in world.items : PartOfRoot(y, x) => pc' \in PartStages(y.type)
  PROVE  Step
<1>1. errors' = errors \cup {} /\ NoList({})
  BY NoListFacts
<1> QED
  BY <1>1, TakenUp

LEMMA GroupTaken ==
  ASSUME IInv, NEW x \in queue, RejectGroup(x) \/ AcceptGroup(x) \/ AcceptDbGroup(x)
  PROVE  Step
<1>0. Stays
  BY GroupsStay DEF IInv, GroupsNext
<1>1. CASE RejectGroup(x)
  BY <1>0, <1>1, Rejected DEF RejectGroup
<1>2. CASE AcceptGroup(x)
  <2>1. \A y \in world.items : PartOfRoot(y, x) => y.type = "rule"
    BY <1>2 DEF AcceptGroup, PartOfRoot, IsPartOf, Objects
  <2>9. /\ TakeFromQueue(x) /\ item' = x /\ pc' = "rule" /\ UNCHANGED <<paging, undelivered, reported, built, errors>>
        /\ pending' = Asked(x)
    BY <1>2 DEF AcceptGroup
  <2> QED
    BY <1>0, <2>1, <2>9, PartStagesAre, TakenQuietly
    DEF Building, DistributionStages
<1>3. CASE AcceptDbGroup(x)
  <2> DEFINE given == Parts("authorization", x)
             new == Rejections(given \ Whole(given))
  <2>1. NoList(new)
    BY NoListFacts DEF Rejections
  <2>2. /\ TakeFromQueue(x) /\ x.type = "db group" /\ item' = x /\ pending' = Asked(x) /\ pc' = "references"
        /\ built' = {a \in given : Authorized(a)} /\ errors' = errors \cup new
        /\ UNCHANGED <<undelivered, paging, reported>>
    BY <1>3 DEF AcceptDbGroup, IsDbGroup
  <2>3. ASSUME NEW y \in world.items, PartOfRoot(y, x)
        PROVE  /\ y \in built' \/ <<"rejected", y.name, NoId>> \in errors'
               /\ \A z \in world.items : ~PartOfPart(z, y)
    <3>1. y \in given /\ y.type = "authorization"
      BY <2>2, <2>3 DEF PartOfRoot, IsPartOf, Objects, Parts
    <3> QED
      BY <2>2, <3>1 DEF Whole, Rejections, Authorized, PartOfPart, IsPartOf, Objects
  <2>4. built' \subseteq PartItems
    <3>1. Parts("authorization", x) \subseteq PartItems
      BY <1>0, <2>2, TakeFacts, PartsAre DEF TakeFromQueue
    <3> QED
      BY <2>2, <3>1
  <2> HIDE DEF new, given
  <2>5. AcceptStep(x, new)
    BY <1>0, <2>1, <2>2, <2>3, <2>4 DEF AcceptStep, TakeFromQueue, paging, Building, DistributionStages
  <2> QED
    BY <2>5, AcceptStepDone
<1> QED
  BY <1>1, <1>2, <1>3

LEMMA BalancerTaken ==
  ASSUME IInv, NEW x \in queue, RejectBalancer(x) \/ AcceptClassic(x) \/ AcceptBalancer(x)
  PROVE  Step
<1>0. Stays /\ pc = "convert" /\ Pass \in {"v1", "v2"}
  BY BalancersStay
  DEF IInv, BalancersNext, RejectBalancer, RejectItem, TakeFromQueue, AcceptClassic, AcceptBalancer, IsBalancerPass, IsClassic
<1>00. x.type = "balancer" /\ Pass = PassOf(x)
  <2>1. x.type \in TypesOf(Pass) /\ Pass \in ListedBy(x)
    BY <1>0, QueuedKind
  <2>2. x.type = "balancer"
    BY <1>0, <2>1 DEF TypesOf, FirstListing, RolePasses
  <2> QED
    BY <2>1, <2>2 DEF ListedBy
<1>1. CASE RejectBalancer(x)
  BY <1>0, <1>1, Rejected DEF RejectBalancer
<1>2. CASE AcceptBalancer(x)
  <2>1. ~x.classic
    BY <1>2, <1>00 DEF AcceptBalancer, PassOf
  <2>2. \A y \in world.items : PartOfRoot(y, x) => y.type \in {"listener", "target group"}
    BY <1>00, <2>1 DEF PartOfRoot, IsPartOf, Objects
  <2>9. /\ TakeFromQueue(x) /\ item' = x /\ pc' = "listener" /\ UNCHANGED <<paging, undelivered, reported, built, errors>>
        /\ pending' = Asked(x)
    BY <1>2 DEF AcceptBalancer
  <2> QED
    BY <1>0, <2>2, <2>9, PartStagesAre, TakenQuietly
    DEF Building, DistributionStages
<1>3. CASE AcceptClassic(x)
  <2> DEFINE given == Parts("target", x) \cup Parts("listener", x)
             new == Rejections(given \ Whole(given))
  <2>0. x.classic /\ world \in Worlds /\ x \in world.items
    BY <1>0, <1>3, <1>00, TakeFacts DEF AcceptClassic, PassOf, IsClassic
  <2>1. NoList(new)
    BY NoListFacts DEF Rejections
  <2>2. /\ TakeFromQueue(x) /\ item' = x /\ pending' = Asked(x) /\ pc' = "references"
        /\ built' = Whole(given) /\ errors' = errors \cup new
        /\ UNCHANGED <<undelivered, paging, reported>>
    BY <1>3 DEF AcceptClassic
  <2>3. ASSUME NEW y \in world.items, PartOfRoot(y, x)
        PROVE  /\ y \in built' \/ <<"rejected", y.name, NoId>> \in errors'
               /\ \A z \in world.items : ~PartOfPart(z, y)
    <3>1. y \in given /\ y.type \in {"target", "listener"}
      BY <1>00, <2>0, <2>3 DEF PartOfRoot, IsPartOf, Objects, Parts
    <3>2. ASSUME NEW z \in world.items, PartOfPart(z, y) PROVE FALSE
      <4>1. z.type \in {"certificate", "forward"} /\ z.of = y.name /\ y.of = x.name
        BY <2>3, <3>1, <3>2 DEF PartOfPart, PartOfRoot, IsPartOf, Objects
      <4> QED
        BY <2>0, <4>1, WorldAssumption
    <3> QED
      BY <2>2, <3>1, <3>2 DEF Whole, Rejections
  <2>4. built' \subseteq PartItems
    <3>1. Parts("target", x) \subseteq PartItems /\ Parts("listener", x) \subseteq PartItems
      BY <2>0, PartsAre
    <3> QED
      BY <2>2, <3>1 DEF Whole
  <2> HIDE DEF new, given
  <2>5. AcceptStep(x, new)
    BY <1>0, <2>1, <2>2, <2>3, <2>4 DEF AcceptStep, TakeFromQueue, paging, Building, DistributionStages
  <2> QED
    BY <2>5, AcceptStepDone
<1> QED
  BY <1>1, <1>2, <1>3

LEMMA ACLTaken ==
  ASSUME IInv, NEW x \in queue, RejectACL(x) \/ AcceptACL(x)
  PROVE  Step
<1>0. Stays /\ pc = "convert" /\ Pass \in {"waf", "cloudfront"}
  BY WafStays DEF IInv, WafNext, RejectACL, RejectItem, TakeFromQueue, AcceptACL, IsWafPass
<1>00. x.type = "web acl"
  BY <1>0, QueuedKind DEF TypesOf, FirstListing, RolePasses
<1>1. CASE RejectACL(x)
  BY <1>0, <1>1, Rejected DEF RejectACL
<1>2. CASE AcceptACL(x)
  <2>1. \A y \in world.items : PartOfRoot(y, x) => y.type \in {"acl rule", "load balancer", "stage", "distribution"}
    BY <1>00 DEF PartOfRoot, IsPartOf, Objects
  <2>2. pending' = {}
    BY <1>0, <1>2, TakeFacts DEF AcceptACL
  <2>9. /\ TakeFromQueue(x) /\ item' = x /\ pc' = "acl rule" /\ UNCHANGED <<paging, undelivered, reported, built, errors>>
        /\ pending' = {}
    BY <1>2, <2>2 DEF AcceptACL
  <2> QED
    BY <1>0, <2>1, <2>9, PartStagesAre, TakenQuietly
    DEF Building, DistributionStages
<1> QED
  BY <1>1, <1>2

LEMMA ClusterTaken ==
  ASSUME IInv, NEW x \in queue, DescribeFails(x) \/ DescribesNone(x) \/ DescribeCluster(x)
  PROVE  Step
<1>0. Stays /\ pc = "convert" /\ Pass = "eks"
  BY ClustersStay DEF IInv, ClustersNext, DescribeFails, DescribesNone, RejectItem, TakeFromQueue, DescribeCluster
<1>00. x.type = "cluster"
  BY <1>0, QueuedKind DEF TypesOf, FirstListing, RolePasses
<1>1. CASE DescribeFails(x)
  BY <1>0, <1>1, Rejected DEF DescribeFails
<1>3. CASE DescribesNone(x)
  <2>1. NoList({Nameless})
    BY NoListFacts DEF Nameless
  <2>2. RejectStep(x, {Nameless})
    BY <1>0, <1>00, <1>3, <2>1 DEF DescribesNone, TakeFromQueue, RejectStep, paging, building
  <2> QED
    BY <2>2, RejectStepDone
<1>2. CASE DescribeCluster(x)
  <2>1. \A y \in world.items : PartOfRoot(y, x) => y.type \in {"pod", "node", "service"}
    BY <1>00 DEF PartOfRoot, IsPartOf, Objects
  <2>9. /\ TakeFromQueue(x) /\ item' = x /\ pc' = "references" /\ UNCHANGED <<paging, undelivered, reported, built, errors>>
        /\ pending' = Asked(x)
    BY <1>2 DEF DescribeCluster
  <2> QED
    BY <1>0, <2>1, <2>9, PartStagesAre, TakenQuietly
    DEF Building, DistributionStages
<1> QED
  BY <1>1, <1>2, <1>3

LEMMA FunctionTaken ==
  ASSUME IInv, NEW x \in queue, RejectFunction(x) \/ AcceptFunction(x)
  PROVE  Step
<1>0. Stays /\ pc = "convert" /\ Pass = "lambda"
  BY FunctionsStay DEF IInv, FunctionsNext, RejectFunction, RejectItem, TakeFromQueue, AcceptFunction
<1>00. x.type = "function"
  BY <1>0, QueuedKind DEF TypesOf, FirstListing, RolePasses
<1>1. CASE RejectFunction(x)
  BY <1>0, <1>1, Rejected DEF RejectFunction
<1>2. CASE AcceptFunction(x)
  <2>1. \A y \in world.items : PartOfRoot(y, x) => y.type = "url"
    BY <1>00 DEF PartOfRoot, IsPartOf, Objects
  <2>2. pending' = {}
    BY <1>0, <1>2, TakeFacts DEF AcceptFunction
  <2>3. PICK new \in {PolicyErrors({x}, {}), PolicyErrors({}, {x.target})} : errors' = errors \cup new
    BY <1>2 DEF AcceptFunction
  <2>4. NoList(new)
    BY <2>3, NoListFacts DEF PolicyErrors
  <2> QED
    BY <1>0, <1>2, <2>1, <2>2, <2>3, <2>4, PartStagesAre, TakenUp
    DEF AcceptFunction, Building, DistributionStages
<1> QED
  BY <1>1, <1>2

LEMMA GlobalTaken ==
  ASSUME IInv, NEW x \in queue, RejectGlobal(x) \/ AcceptZone(x) \/ AcceptRole(x) \/ ProcessDistribution(x)
  PROVE  Step
<1>0. Stays /\ pc = "convert"
  BY GlobalStays
  DEF IInv, GlobalNext, RejectGlobal, RejectItem, TakeFromQueue, AcceptZone, AcceptRole, ProcessDistribution
<1>1. CASE RejectGlobal(x)
  BY <1>0, <1>1, Rejected DEF RejectGlobal
<1>2. CASE AcceptZone(x)
  <2>1. x.type = "zone"
    BY <1>0, <1>2, QueuedKind DEF AcceptZone, TypesOf, FirstListing, RolePasses
  <2>2. \A y \in world.items : PartOfRoot(y, x) => y.type = "record"
    BY <2>1 DEF PartOfRoot, IsPartOf, Objects
  <2>3. pending' = {}
    BY <1>0, <1>2, TakeFacts DEF AcceptZone
  <2>9. /\ TakeFromQueue(x) /\ item' = x /\ pc' = "record" /\ UNCHANGED <<paging, undelivered, reported, built, errors>>
        /\ pending' = {}
    BY <1>2, <2>3 DEF AcceptZone
  <2> QED
    BY <1>0, <2>2, <2>9, PartStagesAre, TakenQuietly
    DEF Building, DistributionStages
<1>3. CASE AcceptRole(x)
  <2>1. x.type = "role"
    BY <1>0, <1>3, QueuedKind DEF AcceptRole, TypesOf, FirstListing, RolePasses
  <2>2. \A y \in world.items : PartOfRoot(y, x) => y.type = "attachment"
    BY <2>1 DEF PartOfRoot, IsPartOf, Objects
  <2>3. pending' = {}
    BY <1>0, <1>3, TakeFacts DEF AcceptRole
  <2>9. /\ TakeFromQueue(x) /\ item' = x /\ pc' = "attachment" /\ UNCHANGED <<paging, undelivered, reported, built, errors>>
        /\ pending' = {}
    BY <1>3, <2>3 DEF AcceptRole
  <2> QED
    BY <1>0, <2>2, <2>9, PartStagesAre, TakenQuietly
    DEF Building, DistributionStages
<1>4. CASE ProcessDistribution(x)
  <2>1. x.type = "cdn"
    BY <1>0, <1>4, QueuedKind DEF ProcessDistribution, TypesOf, FirstListing, RolePasses
  <2>2. \A y \in world.items : PartOfRoot(y, x) => y.type = "origin"
    BY <2>1 DEF PartOfRoot, IsPartOf, Objects
  <2>3. pending' = {}
    BY <1>0, <1>4, TakeFacts DEF ProcessDistribution
  <2>4. NoList({}) /\ NoList({<<"details", x.name, NoId>>})
        /\ NoList({<<"details", x.name, NoId>>} \cup Rejections({x}))
    BY NoListFacts DEF Rejections
  <2>5. /\ TakeFromQueue(x) /\ UNCHANGED <<undelivered, paging, built, pending, reported>>
        /\ \/ item' = x /\ pc' = "origin" /\ errors' = errors \cup {}
           \/ item' = x /\ pc' = "origin" /\ errors' = errors \cup {<<"details", x.name, NoId>>}
           \/ /\ UNCHANGED <<item, pc>>
              /\ errors' = errors \cup ({<<"details", x.name, NoId>>} \cup Rejections({x}))
    BY <1>4 DEF ProcessDistribution
  <2>6. CASE item' = x /\ pc' = "origin"
    <3>1. PICK new : errors' = errors \cup new /\ NoList(new)
      BY <2>4, <2>5
    <3> QED
      BY <1>0, <2>2, <2>3, <2>5, <2>6, <3>1, PartStagesAre, TakenUp DEF Building, DistributionStages
  <2>7. CASE UNCHANGED <<item, pc>> /\ errors' = errors \cup ({<<"details", x.name, NoId>>} \cup Rejections({x}))
    <3>1. RejectStep(x, {<<"details", x.name, NoId>>} \cup Rejections({x}))
      BY <1>0, <2>4, <2>5, <2>7 DEF RejectStep, TakeFromQueue, paging, Rejections
    <3> QED
      BY <3>1, RejectStepDone
  <2> QED
    BY <2>5, <2>6, <2>7
<1> QED
  BY <1>1, <1>2, <1>3, <1>4

(***************************************************************************)
(* The parts of an item are read.                                          *)
(***************************************************************************)
\* What excuses an item itself.
Told(y) ==
  \/ <<"rejected", y.name, NoId>> \in errors
  \/ y \in undelivered /\ ListOf(y) \in errors
  \/ y.type \in Objects /\ <<"connect", y.of, NoId>> \in errors

LEMMA ToldExcuses == ASSUME NEW x, NEW y \in LineOf[x], Told(y)' PROVE Accounted(x)'
BY DEF Told, Accounted, Excused

\* A part of the item that comes in this step, or that is asked for no more.
Closes(y, gone) == y \in undelivered /\ pc \in PartStages(y.type) /\ (y \in gone \/ pc' \notin PartStages(y.type))

Kept(y) ==
  /\ y \in Wanted => y \in built'
  /\ \A z \in Wanted \cap undelivered : PartOfPart(z, y) => z \in built' \/ Told(z)'

ReadStep(gone, new) ==
  /\ Stays /\ pc \in Building /\ pc' \in Building
  /\ UNCHANGED <<more, queue, item, reported>>
  /\ built \subseteq built' /\ built' \subseteq PartItems
  /\ undelivered' = undelivered \ gone /\ errors' = errors \cup new
  /\ pending' \subseteq pending
  /\ pending' # {} => pc' \in {"rule", "references", "listener", "target group"}
  /\ pc \in DistributionStages <=> pc' \in DistributionStages
  /\ \A y \in world.items : PartOfRoot(y, item) =>
       /\ pc' \in PartStages(y.type) => pc \in PartStages(y.type)
       /\ y \in gone => pc \in PartStages(y.type)
       /\ y \in gone /\ y.type = "origin" => pc' \notin PartStages(y.type)
       /\ ListOf(y) \in new => pc' \notin PartStages(y.type)
       /\ Closes(y, gone) => Told(y)' \/ Kept(y)
  /\ \A x \in gone \cap undelivered :
       PartOfRoot(x, item) \/ \E y \in gone \cap undelivered : PartOfPart(x, y) /\ PartOfRoot(y, item)
  /\ \A x \in world.items : ListOf(x) \in new =>
       PartOfRoot(x, item) \/ \E y \in gone \cap undelivered : PartOfPart(x, y) /\ PartOfRoot(y, item)

LEMMA ReadFacts ==
  ASSUME IInv, NEW gone, NEW new, ReadStep(gone, new)
  PROVE  /\ world \in Worlds /\ world' = world /\ UNCHANGED where /\ undelivered \subseteq world.items
         /\ item \in world.items /\ item.of = NoId /\ item \notin queue /\ item \notin undelivered /\ item # NoItem
         /\ pc \in Handling /\ pc' \in Handling /\ undelivered' \subseteq undelivered
         /\ \A x \in undelivered \ undelivered' : x.of # NoId
         /\ Pass = "cloudfront" => (pc \in AclStages <=> pc' \in AclStages)
<1>1. item # NoItem /\ item \in world.items /\ item \notin queue /\ item \notin undelivered
  BY DEF IInv, ItemsInv, ReadStep, PartItems
<1>2. item.of = NoId
  BY <1>1 DEF IInv, ItemsInv
<1>3. \A x \in undelivered \ undelivered' : x.of # NoId
  BY DEF ReadStep, PartOfRoot, PartOfPart
<1>4. ASSUME Pass = "cloudfront" PROVE pc \in AclStages <=> pc' \in AclStages
  <2>1. /\ pc \in {"acl rule", "append"} \cup DistributionStages
        /\ pc' \in {"acl rule", "append"} \cup DistributionStages
    BY <1>4, StagesOfPasses DEF ReadStep, Stays, Building, IInv, PlaceInv
  <2> QED
    BY <2>1 DEF ReadStep, AclStages, DistributionStages
<1> QED
  BY <1>1, <1>2, <1>3, <1>4 DEF IInv, PlaceInv, ItemsInv, ReadStep, Stays, where, Handling

LEMMA SameItem ==
  ASSUME NEW w \in Worlds, NEW p \in w.items, NEW q \in w.items, NEW y, PartOfRoot(y, p), PartOfRoot(y, q)
  PROVE  p = q
<1>1. p \in Items /\ q \in Items
  BY DEF Items
<1> QED
  BY <1>1, ServiceAssumption DEF PartOfRoot

LEMMA RootsHaveNoWhole ==
  ASSUME NEW w \in Worlds, NEW p \in w.items, NEW y \in w.items, NEW x, PartOfRoot(x, p), PartOfPart(x, y)
  PROVE  FALSE
<1>1. p \in Items /\ y \in Items
  BY DEF Items
<1> QED
  BY <1>1, ServiceAssumption DEF PartOfRoot, PartOfPart

LEMMA ReadParts ==
  ASSUME IInv, NEW gone, NEW new, ReadStep(gone, new), NEW y \in world.items, NEW p \in world.items, PartOfRoot(y, p)
  PROVE  /\ p # item => (PartsToCome(y.type, p)' <=> PartsToCome(y.type, p))
         /\ p = item => (PartsToCome(y.type, p) <=> pc \in PartStages(y.type))
         /\ p = item => (PartsToCome(y.type, p)' <=> pc' \in PartStages(y.type))
<1>1. p.of = NoId /\ (RootOpen(p)' <=> RootOpen(p))
  BY ReadFacts, RootsStay DEF PartOfRoot, ReadStep
<1>2. CASE p # item
  <2>1. UNCHANGED <<queue, item, reported>> /\ (pc \in DistributionStages <=> pc' \in DistributionStages)
    BY DEF ReadStep
  <2>2. y.type = "distribution" /\ p \in reported => (pc \in AclStages <=> pc' \in AclStages)
    BY ReadFacts, GlobalParts DEF IInv, GlobalInv, ReadStep, Building
  <2> QED
    BY <1>1, <1>2, <2>1, <2>2 DEF PartsToCome
<1>3. CASE p = item
  <2>1. ~RootOpen(p) /\ ~RootOpen(p)' /\ p \notin queue /\ p \notin queue' /\ p = item'
    BY <1>1, <1>3, ReadFacts DEF RootOpen, ReadStep
  <2>2. /\ y.type = "distribution" /\ pc \in AclStages => pc \in PartStages(y.type)
        /\ y.type = "distribution" /\ pc' \in AclStages => pc' \in PartStages(y.type)
    BY PartStagesAre DEF ReadStep, AclStages, Building
  <2> QED
    BY <1>3, <2>1, <2>2 DEF PartsToCome
<1> QED
  BY <1>2, <1>3

LEMMA ReadStepOrderly ==
  ASSUME IInv, NEW gone, NEW new, ReadStep(gone, new)
  PROVE  Orderly
<1>0. /\ world \in Worlds /\ world' = world /\ UNCHANGED where /\ undelivered \subseteq world.items
      /\ item \in world.items /\ item.of = NoId
      /\ undelivered' = undelivered \ gone /\ undelivered' \subseteq undelivered /\ errors \subseteq errors'
  BY ReadFacts DEF ReadStep
<1>1. \A p \in world.items : p.of = NoId => (RootOpen(p)' <=> RootOpen(p))
  BY ReadFacts, RootsStay DEF ReadStep
<1>2. \A y, p \in world.items : PartOfRoot(y, p) /\ PartsToCome(y.type, p)' => PartsToCome(y.type, p)
  BY ReadParts DEF ReadStep
<1>3. \A y \in world.items : PartOfRoot(y, item) => (Open(y) <=> y \in undelivered /\ pc \in PartStages(y.type))
  BY <1>0, ReadParts, OpenPart
<1>4. \A y \in world.items : PartOfRoot(y, item) => (Open(y)' <=> y \in undelivered' /\ pc' \in PartStages(y.type))
  BY <1>0, ReadParts, OpenPart
<1>5. ASSUME NEW x \in undelivered \ undelivered' PROVE Open(x)
  <2>1. x \in gone \cap undelivered
    BY <1>0
  <2>2. CASE PartOfRoot(x, item)
    BY <1>0, <1>3, <2>1, <2>2 DEF ReadStep
  <2>3. CASE ~PartOfRoot(x, item)
    <3>1. PICK y \in gone \cap undelivered : PartOfPart(x, y) /\ PartOfRoot(y, item)
      BY <2>1, <2>3 DEF ReadStep
    <3>2. Open(y)
      BY <1>0, <1>3, <3>1 DEF ReadStep
    <3> QED
      BY <1>0, <2>1, <3>1, <3>2, OpenDeep
  <2> QED
    BY <2>2, <2>3
<1>6. \A x, y \in world.items : PartOfRoot(x, item) /\ PartOfPart(x, y) => FALSE
  BY <1>0, RootsHaveNoWhole
<1>7. ASSUME NEW z \in world.items, NEW y \in world.items, PartOfPart(z, y), z \in undelivered \ undelivered'
      PROVE  y \notin undelivered'
  <2>1. PICK l \in gone \cap undelivered : PartOfPart(z, l) /\ PartOfRoot(l, item)
    BY <1>0, <1>6, <1>7 DEF ReadStep
  <2>2. l \in world.items /\ Above(z) = {l} /\ Above(z) = {y}
    BY <1>0, <1>7, <2>1, AboveFacts DEF PartOfPart
  <2> QED
    BY <1>0, <2>1, <2>2
<1>8. \A z, y \in world.items : PartOfPart(z, y) /\ z \in undelivered \ undelivered' => ~Open(y)'
  BY <1>7 DEF Open, PartOpen, PartOfPart
<1>9. ASSUME NEW o \in world.items, NEW p \in world.items, PartOfRoot(o, p), o.type = "origin",
             o \in undelivered \ undelivered'
      PROVE  ~PartsToCome(o.type, p)'
  <2>1. PartOfRoot(o, item)
    BY <1>0, <1>9, RootsHaveNoWhole DEF ReadStep
  <2>2. p = item
    BY <1>0, <1>9, <2>1, SameItem
  <2> QED
    BY <1>0, <1>9, <2>1, <2>2, ReadParts DEF ReadStep
<1>10. ASSUME NEW x \in world.items, Open(x)', ListOf(x) \in errors' PROVE ListOf(x) \in errors
  <2> SUFFICES ASSUME ListOf(x) \in new PROVE FALSE
    BY <1>10 DEF ReadStep
  <2>1. CASE PartOfRoot(x, item)
    BY <1>4, <1>10, <2>1 DEF ReadStep
  <2>2. CASE ~PartOfRoot(x, item)
    <3>1. PICK y \in gone \cap undelivered : PartOfPart(x, y) /\ PartOfRoot(y, item)
      BY <2>2 DEF ReadStep
    <3>2. ~Open(y)'
      BY <1>0, <1>4, <3>1
    <3> QED
      BY <1>0, <1>10, <3>1, <3>2, OpenDeep
  <2> QED
    BY <2>1, <2>2
<1>11. \A x \in Wanted : x \in Held => Accounted(x)'
  BY DEF ReadStep, Held, Accounted
<1>12. \A p \in Wanted : p.of = NoId /\ RootOpen(p) /\ ~RootOpen(p)' => Accounted(p)'
  BY <1>0, <1>1, WantedFacts
<1>13. ASSUME NEW y \in world.items, NEW p \in world.items, PartOfRoot(y, p), Open(y), ~Open(y)'
       PROVE  PartOfRoot(y, item) /\ Closes(y, gone)
  <2>1. y \in undelivered /\ PartsToCome(y.type, p)
    BY <1>0, <1>13, OpenPart
  <2>2. CASE y \in gone
    <3>1. PartOfRoot(y, item)
      BY <1>0, <1>13, <2>1, <2>2, RootsHaveNoWhole DEF ReadStep
    <3> QED
      BY <1>3, <1>13, <2>1, <2>2, <3>1 DEF Closes
  <2>3. CASE y \notin gone
    <3>1. ~PartsToCome(y.type, p)'
      BY <1>0, <1>13, <2>1, <2>3, OpenPart
    <3>2. p = item
      BY <1>13, <2>1, <3>1, ReadParts
    <3> QED
      BY <1>13, <2>1, <3>1, <3>2, ReadParts DEF Closes
  <2> QED
    BY <2>2, <2>3
<1>14. ASSUME NEW y \in Wanted, NEW p \in world.items, PartOfRoot(y, p), Open(y), ~Open(y)' PROVE Accounted(y)'
  <2>1. y \in world.items /\ y \in LineOf[y]
    BY <1>0, WantedFacts, LineInWorld
  <2>2. Told(y)' \/ Kept(y)
    BY <1>13, <1>14, <2>1 DEF ReadStep
  <2>3. y \in built' => Accounted(y)'
    BY DEF Accounted, Held
  <2> QED
    BY <2>1, <2>2, <2>3, ToldExcuses DEF Kept
<1>15. ASSUME NEW z \in Wanted, NEW y \in world.items, NEW p \in world.items, PartOfPart(z, y), PartOfRoot(y, p),
              z \in undelivered, Open(y), ~Open(y)'
       PROVE  Accounted(z)'
  <2>1. z \in LineOf[z] /\ y \in LineOf[z]
    BY <1>0, <1>15, WantedFacts, DeepLine
  <2>2. Told(y)' \/ Kept(y)
    BY <1>13, <1>15 DEF ReadStep
  <2>3. z \in built' => Accounted(z)'
    BY DEF Accounted, Held
  <2> QED
    BY <1>15, <2>1, <2>2, <2>3, ToldExcuses DEF Kept
<1> QED
  BY <1>0, <1>1, <1>2, <1>5, <1>8, <1>9, <1>10, <1>11, <1>12, <1>14, <1>15, OrderlyFrom

LEMMA ReadStepDone ==
  ASSUME IInv, NEW gone, NEW new, ReadStep(gone, new)
  PROVE  Step
<1>1. PlaceInv' /\ Orderly
  BY StaysKeepsPlace, ReadStepOrderly DEF IInv, ReadStep
<1>2. LossInv'
  BY <1>1, OrderlyKeepsLosses DEF IInv, PlaceInv, ItemsInv
<1>3. /\ UNCHANGED <<where, queue, item, reported>> /\ world' = world /\ undelivered' \subseteq undelivered
      /\ pc \in Building /\ pc' \in Building /\ item # NoItem
      /\ (pc \in DistributionStages <=> pc' \in DistributionStages)
  BY ReadFacts DEF ReadStep
<1>4. \A q : Here(q)' <=> Here(q)
  BY <1>3, PlaceStays
<1>5. ItemsInv'
  <2>1. pc' \notin {"region", "done", "balancer", "zone", "function", "bucket", "vpc", "subnet"}
    BY <1>3 DEF Building
  <2> QED
    BY <1>3, <1>4, <2>1 DEF IInv, ItemsInv, ReadStep, PartItems
<1>6. GlobalInv'
  <2>1. pc' \notin {"web acl", "done"} /\ pc # "done"
    BY <1>3 DEF Building
  <2>2. Pass' = Pass /\ Region' = Region /\ place' = place
    BY <1>3, PlaceStays DEF where
  <2> QED
    BY <1>3, <2>1, <2>2 DEF IInv, GlobalInv
<1>7. TypeInv'
  BY <1>3 DEF IInv, TypeInv, ReadStep, Stays
<1> QED
  BY <1>1, <1>2, <1>5, <1>6, <1>7 DEF IInv, Step

(***************************************************************************)
(* The calls that read parts.                                              *)
(***************************************************************************)
LEMMA ItemKind ==
  ASSUME IInv, pc \in Building
  PROVE  /\ world \in Worlds /\ item \in world.items /\ item.of = NoId /\ item.name # NoId
         /\ item.type \in TypesOf(Pass) /\ Pass \in ListedBy(item) /\ Pass \in PassNames
<1>1. item \in world.items /\ item.of = NoId /\ Here(item) /\ PlaceInv /\ world \in Worlds
  BY DEF IInv, ItemsInv, PlaceInv
<1>2. pc \notin {"region", "done"}
  BY DEF Building
<1>3. Pass \in ListedBy(item) /\ Pass \in PassNames
  BY <1>1, <1>2, HereFacts, PassIsNamed
<1>4. item.name # NoId
  BY <1>1, ItemFacts
<1> QED
  BY <1>1, <1>3, <1>4, ListedTypes

LEMMA PartsOfItems ==
  ASSUME NEW w \in Worlds, NEW p \in w.items, NEW y \in w.items, y.of = p.name
  PROVE  /\ IsPartOf(y, p) /\ y.of # NoId
         /\ p.of = NoId => PartOfRoot(y, p)
         /\ p.of # NoId => PartOfPart(y, p)
<1>1. p.name # NoId
  BY ItemFacts
<1>2. PICK q \in w.items : y.of = q.name /\ IsPartOf(y, q)
  BY <1>1, WorldAssumption
<1>3. p \in Items /\ q \in Items
  BY DEF Items
<1>4. q = p
  BY <1>2, <1>3, ServiceAssumption
<1> QED
  BY <1>1, <1>2, <1>4 DEF PartOfRoot, PartOfPart

\* Parts of these types have no parts.
LEMMA KeptWhole ==
  ASSUME NEW y, y \in Wanted => y \in built',
         y.type \in {"rule", "acl rule", "distribution", "object", "url", "load balancer", "stage", "pod", "node", "service"}
  PROVE  Kept(y)
<1>1. \A z : ~PartOfPart(z, y)
  BY DEF PartOfPart, IsPartOf, Objects
<1> QED
  BY <1>1 DEF Kept

LEMMA NoListOfParts ==
  ASSUME NEW x, NEW xs, NEW failing
  PROVE  ListOf(x) \notin Rejections(xs) /\ ListOf(x) \notin PolicyErrors(xs, failing)
BY DEF ListOf, ListError, Rejections, PolicyErrors

\* The stage of an item passes from parts of a type to what is next.
Advances(t) ==
  /\ pc' \in Building /\ pc' \notin PartStages(t) /\ t \notin DistributionStages /\ pc' \notin DistributionStages
  /\ pc' \in {"listener", "target group", "references"} \/ pending = {}
  /\ \A y \in world.items : PartOfRoot(y, item) =>
       /\ pc' \in PartStages(y.type) => t \in PartStages(y.type)
       /\ t \in PartStages(y.type) => y.type = t \/ pc' \in PartStages(y.type)

PartsRead(t, batch, brought, new) ==
  /\ pc = t /\ UNCHANGED <<more, queue, item, reported, pending>>
  /\ batch \subseteq AwaitedParts(t, item)
  /\ \A z \in brought \cap undelivered : \E y \in batch : z.of = y.name
  /\ undelivered' = undelivered \ (batch \cup brought) /\ errors' = errors \cup new
  /\ built \subseteq built' /\ built' \subseteq PartItems
  /\ pc' # t => batch = AwaitedParts(t, item) \/ ListError(t, item.name) \in new
  /\ \A y \in batch : <<"rejected", y.name, NoId>> \in new \/ Kept(y)
  /\ \A x \in world.items : ListOf(x) \in new =>
       (ListOf(x) = ListError(t, item.name) /\ pc' # t) \/ \E y \in batch : x.of = y.name

LEMMA PartsReadDone ==
  ASSUME IInv, Stays, NEW t \in PartTypes \cap Building, NEW batch, NEW brought, NEW new,
         PartsRead(t, batch, brought, new),
         (pc' = t /\ t # "origin") \/ Advances(t) \/ (t = "distribution" /\ pc' = "distributed"),
         \A y \in world.items : t \in PartStages(y.type) /\ pc' \notin PartStages(y.type) /\ PartOfRoot(y, item) => y.type = t
  PROVE  Step
<1> DEFINE gone == batch \cup brought
<1>0. /\ pc = t /\ pc \in Building /\ world \in Worlds /\ item \in world.items /\ item.of = NoId /\ item.name # NoId
      /\ undelivered \subseteq world.items /\ t \in PartTypes
  BY ItemKind DEF PartsRead, IInv, ItemsInv
<1>1. \A y \in batch : y \in undelivered /\ y \in world.items /\ y.type = t /\ PartOfRoot(y, item)
  BY <1>0, PartsOfItems DEF PartsRead, AwaitedParts
<1>2. pc \in PartStages(t)
  BY <1>0, PartStagesAre DEF Building, PartTypes
<1>3. \A z, y \in world.items : PartOfRoot(y, item) /\ z.of = y.name => PartOfPart(z, y)
  BY <1>0, PartsOfItems DEF PartOfRoot
<1>4. ASSUME NEW y \in world.items, PartOfRoot(y, item), y \in gone \cap undelivered PROVE y \in batch
  BY <1>0, <1>1, <1>3, <1>4, RootsHaveNoWhole DEF PartsRead
<1>5. ASSUME NEW x \in gone \cap undelivered
      PROVE  PartOfRoot(x, item) \/ \E y \in gone \cap undelivered : PartOfPart(x, y) /\ PartOfRoot(y, item)
  BY <1>0, <1>1, <1>3 DEF PartsRead
<1>6. ASSUME NEW x \in world.items, ListOf(x) \in new
      PROVE  PartOfRoot(x, item) \/ \E y \in gone \cap undelivered : PartOfPart(x, y) /\ PartOfRoot(y, item)
  <2>1. CASE ListOf(x) = ListError(t, item.name)
    BY <1>0, <2>1, ListsOfRoots, PartsOfItems
  <2>2. CASE \E y \in batch : x.of = y.name
    BY <1>1, <1>3, <2>2
  <2> QED
    BY <1>6, <2>1, <2>2 DEF PartsRead
<1>7. /\ pc' \in Building /\ (pc \in DistributionStages <=> pc' \in DistributionStages)
      /\ pending' # {} => pc' \in {"rule", "references", "listener", "target group"}
  <2>1. pending' = pending /\ (pending # {} => pc \in {"rule", "references", "listener", "target group"})
    BY DEF PartsRead, IInv, TypeInv
  <2> QED
    BY <1>0, <2>1 DEF Advances, Building, DistributionStages
<1>8. ASSUME NEW y \in world.items, PartOfRoot(y, item)
      PROVE  /\ pc' \in PartStages(y.type) => pc \in PartStages(y.type)
             /\ y \in gone \cap undelivered => pc \in PartStages(y.type)
             /\ y \in gone \cap undelivered /\ y.type = "origin" => pc' \notin PartStages(y.type)
             /\ ListOf(y) \in new => pc' \notin PartStages(y.type)
             /\ Closes(y, gone) => Told(y)' \/ Kept(y)
  <2>1. y.type \in PartTypes
    BY <1>0, <1>8, PartsHaveTypes DEF PartOfRoot
  <2>2. pc' \in PartStages(y.type) => pc \in PartStages(y.type)
    <3>1. CASE pc' = "distributed"
      <4>1. "distributed" \notin PartStages(y.type)
        BY <2>1 DEF PartStages, PartTypes, Objects
      <4> QED
        BY <3>1, <4>1
    <3>2. CASE pc' # "distributed"
      BY <1>0, <1>8, <3>2 DEF Advances
    <3> QED
      BY <3>1, <3>2
  <2>3. y \in gone \cap undelivered => y \in batch
    BY <1>4, <1>8
  <2>4. y \in batch /\ y.type = "origin" => pc' \notin PartStages(y.type)
    BY <1>1 DEF Advances
  <2>5. ASSUME ListOf(y) \in new PROVE y.type = t /\ pc' # t
    BY <1>0, <1>1, <1>3, <1>8, <2>5, ListsOfRoots, RootsHaveNoWhole DEF PartsRead
  <2>6. ASSUME pc' # t PROVE pc' \notin PartStages(t)
    BY <2>6, PartStagesAre DEF Advances
  <2>7. ASSUME Closes(y, gone) PROVE Told(y)' \/ Kept(y)
    <3>1. CASE y \in batch
      BY <3>1 DEF PartsRead, Told
    <3>2. CASE y \notin batch
      <4>1. y.type = t /\ y \in undelivered /\ pc' \notin PartStages(t) /\ y \notin gone
        BY <1>0, <1>8, <2>3, <2>7, <3>2 DEF Closes
      <4>2. y \in AwaitedParts(t, item) /\ ListOf(y) = ListError(t, item.name)
        BY <1>8, <4>1 DEF AwaitedParts, PartOfRoot, ListOf
      <4>3. ListError(t, item.name) \in new
        BY <1>0, <1>2, <3>2, <4>1, <4>2 DEF PartsRead
      <4> QED
        BY <4>1, <4>2, <4>3 DEF PartsRead, Told
    <3> QED
      BY <3>1, <3>2
  <2> QED
    BY <1>0, <1>1, <1>2, <2>2, <2>3, <2>4, <2>5, <2>6, <2>7
<1>9. undelivered' = undelivered \ (gone \cap undelivered)
  BY DEF PartsRead
<1>10. \A y : Closes(y, gone \cap undelivered) => Closes(y, gone)
  BY DEF Closes
<1> HIDE DEF gone
<1>11. ReadStep(gone \cap undelivered, new)
  BY <1>0, <1>5, <1>6, <1>7, <1>8, <1>9, <1>10 DEF ReadStep, PartsRead
<1> QED
  BY <1>11, ReadStepDone

LEMMA StagesOfParts ==
  ASSUME NEW t \in PartTypes
  PROVE  /\ "rule" \in PartStages(t) <=> t = "rule"
         /\ "listener" \in PartStages(t) <=> t \in {"listener", "target group"}
         /\ "target group" \in PartStages(t) <=> t = "target group"
         /\ "acl rule" \in PartStages(t) <=> t \in {"acl rule", "load balancer", "stage", "distribution"}
         /\ "resources" \in PartStages(t) <=> t \in {"load balancer", "stage"}
         /\ "append" \in PartStages(t) <=> t = "distribution"
         /\ "distribution" \in PartStages(t) <=> t = "distribution"
         /\ "distributed" \notin PartStages(t)
         /\ "references" \in PartStages(t) <=> t \in Objects
         /\ "kubernetes" \in PartStages(t) <=> t \in Objects
         /\ "record" \in PartStages(t) <=> t = "record"
         /\ "attachment" \in PartStages(t) <=> t = "attachment"
         /\ "origin" \in PartStages(t) <=> t = "origin"
         /\ "object" \in PartStages(t) <=> t = "object"
         /\ "url" \in PartStages(t) <=> t = "url"
BY DEF PartStages, PartTypes, Objects

LEMMA PartsOfItem ==
  ASSUME IInv, pc \in Building, NEW y \in world.items, PartOfRoot(y, item)
  PROVE  y.type \in PartTypes /\ IsPartOf(y, item)
<1>1. world \in Worlds /\ y.of # NoId
  BY ItemKind DEF PartOfRoot
<1> QED
  BY <1>1, PartsHaveTypes DEF PartOfRoot

LEMMA PartsOfTheItem ==
  ASSUME IInv, pc \in Building, NEW t
  PROVE  /\ AwaitedParts(t, item) \subseteq PartItems /\ Parts(t, item) \subseteq PartItems
         /\ \A xs \in SUBSET PartItems : PartsOfAll(t, xs) \subseteq PartItems
         /\ built \subseteq PartItems /\ PartItems \subseteq world.items
<1>1. world \in Worlds /\ item \in world.items /\ undelivered \subseteq world.items /\ built \subseteq PartItems
  BY ItemKind DEF IInv, ItemsInv
<1>2. AwaitedParts(t, item) \subseteq Parts(t, item)
  BY <1>1 DEF AwaitedParts, Parts
<1> QED
  BY <1>1, <1>2, PartsAre

\* What is not the part of one is the part of no other of its name.
LEMMA SameWhole ==
  ASSUME NEW w \in Worlds, NEW p \in w.items, NEW q \in w.items, p.name = q.name
  PROVE  p = q
<1>1. p \in Items /\ q \in Items
  BY DEF Items
<1> QED
  BY <1>1, ServiceAssumption

LEMMA NotAmongParts ==
  ASSUME NEW t, NEW xs, NEW y, NEW z, world \in Worlds, xs \subseteq world.items, y \in world.items, y \notin xs,
         z.of = y.name
  PROVE  z \notin PartsOfAll(t, xs)
<1> SUFFICES ASSUME NEW x \in xs, z \in Parts(t, x) PROVE FALSE
  BY DEF PartsOfAll
<1>1. x.name = y.name
  BY DEF Parts
<1> QED
  BY <1>1, SameWhole

\* A step of the one listing of an item.
LEMMA OnlyListing ==
  ASSUME IInv, NEW t \in {"rule", "record", "attachment", "object", "url", "origin"}, pc = t
  PROVE  \A y \in world.items : PartOfRoot(y, item) /\ t \in PartStages(y.type) => y.type = t
<1>1. ASSUME NEW y \in world.items, PartOfRoot(y, item) PROVE t \in PartStages(y.type) => y.type = t
  <2>1. y.type \in PartTypes
    BY <1>1, PartsOfItem DEF Building
  <2>2. /\ "rule" \in PartStages(y.type) <=> y.type = "rule"
        /\ "record" \in PartStages(y.type) <=> y.type = "record"
        /\ "attachment" \in PartStages(y.type) <=> y.type = "attachment"
        /\ "origin" \in PartStages(y.type) <=> y.type = "origin"
        /\ "object" \in PartStages(y.type) <=> y.type = "object"
        /\ "url" \in PartStages(y.type) <=> y.type = "url"
    BY <2>1, StagesOfParts
  <2> QED
    BY <2>2
<1> QED
  BY <1>1

\* What is read last of an item, before it is appended.
LEMMA LastListing ==
  ASSUME IInv, NEW t \in {"record", "attachment", "object", "url", "origin"}, pc = t, pc' = "append"
  PROVE  Advances(t)
<1>0. PartStages(t) = {t}
  BY PartStagesAre
<1>1. pc' \notin PartStages(t) /\ pc' \in Building /\ pc' \notin DistributionStages /\ t \notin DistributionStages
  BY <1>0 DEF Building, DistributionStages
<1>2. pending = {}
  BY DEF IInv, TypeInv
<1>3. ASSUME NEW y \in world.items, PartOfRoot(y, item), pc' \in PartStages(y.type) PROVE FALSE
  <2>1. y.type \in PartTypes /\ IsPartOf(y, item)
    BY <1>3, PartsOfItem DEF Building
  <2>2. y.type = "distribution"
    BY <1>3, <2>1, StagesOfParts
  <2>3. item.type = "web acl"
    BY <2>1, <2>2 DEF IsPartOf, Objects
  <2>4. Pass \notin {"waf", "cloudfront"}
    BY StageFacts DEF IInv, RolePasses
  <2>5. item.type \in TypesOf(Pass) /\ Pass \in PassNames
    BY ItemKind DEF Building
  <2> QED
    BY <2>3, <2>4, <2>5 DEF TypesOf, FirstListing, RolePasses, PassNames
<1>4. \A y \in world.items : PartOfRoot(y, item) /\ t \in PartStages(y.type) => y.type = t
  BY OnlyListing
<1> QED
  BY <1>1, <1>2, <1>3, <1>4 DEF Advances

\* The listing of an item's parts fails.
LEMMA PartsFail ==
  ASSUME IInv, Stays, NEW t \in PartTypes \cap Building, pc = t, pc' # t,
         Advances(t) \/ (t = "distribution" /\ pc' = "distributed"),
         \A y \in world.items : t \in PartStages(y.type) /\ pc' \notin PartStages(y.type) /\ PartOfRoot(y, item) => y.type = t,
         UNCHANGED <<more, queue, item, reported, pending, undelivered, built>>,
         errors' = errors \cup {ListError(t, item.name)}
  PROVE  Step
<1>1. built \subseteq PartItems
  BY DEF IInv, ItemsInv
<1>2. PartsRead(t, {}, {}, {ListError(t, item.name)})
  BY <1>1 DEF PartsRead
<1> QED
  BY <1>2, PartsReadDone

LEMMA GroupRead == ASSUME IInv, ListRules \/ RulesFail PROVE Step
<1>0. Stays /\ pc = "rule" /\ "rule" \in PartTypes \cap Building
  BY GroupsStay DEF IInv, GroupsNext, ListRules, RulesFail, PartTypes, Building
<1>1. pc' = "references" => Advances("rule")
  <2>1. ASSUME NEW y \in world.items, PartOfRoot(y, item) PROVE y.type = "rule" \/ y.type \notin Objects
    <3>1. IsPartOf(y, item)
      BY <1>0, <2>1, PartsOfItem
    <3>2. Pass = "securitygroup" /\ item.type \in TypesOf(Pass)
      BY <1>0, StageFacts, ItemKind DEF IInv
    <3> QED
      BY <3>1, <3>2 DEF IsPartOf, Objects, TypesOf
  <2>2. \A y \in world.items : PartOfRoot(y, item) => y.type \in PartTypes
    BY <1>0, PartsOfItem
  <2>3. \A y \in world.items : PartOfRoot(y, item) => "references" \notin PartStages(y.type)
    BY <2>1, <2>2, StagesOfParts DEF Objects
  <2>4. \A y \in world.items : PartOfRoot(y, item) /\ "rule" \in PartStages(y.type) => y.type = "rule"
    BY <1>0, OnlyListing
  <2>5. "references" \notin PartStages("rule")
    BY PartStagesAre
  <2> QED
    BY <2>3, <2>4, <2>5 DEF Advances, Building, DistributionStages
<1>2. \A y \in world.items : PartOfRoot(y, item) /\ "rule" \in PartStages(y.type) => y.type = "rule"
  BY <1>0, OnlyListing
<1>3. CASE RulesFail
  BY <1>0, <1>1, <1>2, <1>3, PartsFail DEF RulesFail, CallAgain, building
<1>4. CASE ListRules
  <2>1. PICK batch \in SUBSET AwaitedParts("rule", item), last \in BOOLEAN :
          LET taken == {r \in batch : RuleConverts(r)} IN
          /\ IsPage(batch, AwaitedParts("rule", item), last)
          /\ undelivered' = undelivered \ batch
          /\ built' = built \cup taken
          /\ errors' = errors \cup Rejections(batch \ taken)
          /\ pc' = IF last THEN "references" ELSE "rule"
    BY <1>4 DEF ListRules
  <2> DEFINE taken == {r \in batch : RuleConverts(r)}
             new == Rejections(batch \ taken)
  <2>2. /\ undelivered' = undelivered \ (batch \cup {}) /\ built' = built \cup taken /\ errors' = errors \cup new
        /\ pc' \in {"rule", "references"} /\ (pc' # "rule" => batch = AwaitedParts("rule", item))
        /\ UNCHANGED <<more, queue, item, reported, pending>>
    BY <1>4, <2>1 DEF ListRules, IsPage, CallAgain
  <2>3. \A y \in batch : y \in world.items /\ y.type = "rule"
    BY DEF AwaitedParts, IInv, ItemsInv
  <2>4. built' \subseteq PartItems
    BY <1>0, <2>2, PartsOfTheItem
  <2>5. \A y \in batch : <<"rejected", y.name, NoId>> \in new \/ Kept(y)
    BY <2>2, <2>3, KeptWhole DEF Rejections
  <2>6. \A x \in world.items : ListOf(x) \notin new
    BY NoListOfParts
  <2> HIDE DEF new, taken
  <2>7. PartsRead("rule", batch, {}, new)
    BY <1>0, <2>2, <2>4, <2>5, <2>6 DEF PartsRead
  <2> QED
    BY <1>0, <1>1, <1>2, <2>2, <2>7, PartsReadDone
<1> QED
  BY <1>3, <1>4

LEMMA FunctionRead == ASSUME IInv, ListURLs \/ URLsFail PROVE Step
<1>0. Stays /\ pc = "url" /\ "url" \in PartTypes \cap Building
  BY FunctionsStay DEF IInv, FunctionsNext, ListURLs, URLsFail, PartTypes, Building
<1>1. pc' = "append" => Advances("url")
  BY <1>0, LastListing
<1>2. \A y \in world.items : PartOfRoot(y, item) /\ "url" \in PartStages(y.type) => y.type = "url"
  BY <1>0, OnlyListing
<1>3. CASE URLsFail
  BY <1>0, <1>1, <1>2, <1>3, PartsFail DEF URLsFail, CallAgain, building
<1>4. CASE ListURLs
  <2>1. PICK batch \in SUBSET AwaitedParts("url", item) : \E new :
          /\ undelivered' = undelivered \ (batch \cup {}) /\ built' = built \cup Whole(batch)
          /\ errors' = errors \cup new
          /\ pc' \in {"url", "append"} /\ (pc' # "url" => batch = AwaitedParts("url", item))
          /\ \E xs, failing : new = Rejections(batch \ Whole(batch)) \cup PolicyErrors(xs, failing)
    <3>1. PICK batch \in SUBSET AwaitedParts("url", item), last \in BOOLEAN :
            /\ IsPage(batch, AwaitedParts("url", item), last)
            /\ undelivered' = undelivered \ batch
            /\ built' = built \cup Whole(batch)
            /\ \E xs, failing : errors' = errors \cup Rejections(batch \ Whole(batch)) \cup PolicyErrors(xs, failing)
            /\ pc' = IF last THEN "append" ELSE "url"
      BY <1>4 DEF ListURLs
    <3> QED
      BY <3>1 DEF IsPage
  <2>2. PICK new :
          /\ errors' = errors \cup new
          /\ \E xs, failing : new = Rejections(batch \ Whole(batch)) \cup PolicyErrors(xs, failing)
    BY <2>1
  <2>3. UNCHANGED <<more, queue, item, reported, pending>>
    BY <1>4 DEF ListURLs, CallAgain
  <2>4. \A y \in batch : y \in world.items /\ y.type = "url"
    BY DEF AwaitedParts, IInv, ItemsInv
  <2>5. built' \subseteq PartItems
    BY <1>0, <2>1, PartsOfTheItem DEF Whole
  <2>6. \A y \in batch : <<"rejected", y.name, NoId>> \in new \/ Kept(y)
    BY <2>1, <2>2, <2>4, KeptWhole DEF Rejections, Whole
  <2>7. \A x \in world.items : ListOf(x) \notin new
    BY <2>2, NoListOfParts
  <2>8. PartsRead("url", batch, {}, new)
    BY <1>0, <2>1, <2>2, <2>3, <2>5, <2>6, <2>7 DEF PartsRead
  <2> QED
    BY <1>0, <1>1, <1>2, <2>1, <2>8, PartsReadDone
<1> QED
  BY <1>3, <1>4

LEMMA ObjectsRead == ASSUME IInv, ListObjects \/ ObjectsFail PROVE Step
<1>0. Stays /\ pc = "object" /\ "object" \in PartTypes \cap Building
  BY GlobalStays DEF IInv, GlobalNext, ListObjects, ObjectsFail, PartTypes, Building
<1>1. pc' = "append" => Advances("object")
  BY <1>0, LastListing
<1>2. \A y \in world.items : PartOfRoot(y, item) /\ "object" \in PartStages(y.type) => y.type = "object"
  BY <1>0, OnlyListing
<1>3. CASE ObjectsFail
  BY <1>0, <1>1, <1>2, <1>3, PartsFail DEF ObjectsFail, CallAgain, building
<1>4. CASE ListObjects
  <2>1. PICK batch \in SUBSET AwaitedParts("object", item) :
          /\ undelivered' = undelivered \ (batch \cup {}) /\ built' = built \cup {o \in batch : o.sized}
          /\ pc' \in {"object", "append"} /\ (pc' # "object" => batch = AwaitedParts("object", item))
    BY <1>4 DEF ListObjects, IsPage
  <2>2. UNCHANGED <<more, queue, item, reported, pending, errors>>
    BY <1>4 DEF ListObjects, CallAgain
  <2>3. \A y \in batch : y \in world.items /\ y.type = "object"
    BY DEF AwaitedParts, IInv, ItemsInv
  <2>4. built' \subseteq PartItems
    BY <1>0, <2>1, PartsOfTheItem
  <2>5. ASSUME NEW y \in batch PROVE Kept(y)
    <3>1. y \in Wanted => y.sized
      BY <1>0, <2>3, ItemKind, WantedFacts DEF Building
    <3> QED
      BY <2>1, <2>3, <3>1, KeptWhole
  <2>6. PartsRead("object", batch, {}, {})
    BY <1>0, <2>1, <2>2, <2>4, <2>5 DEF PartsRead
  <2> QED
    BY <1>0, <1>1, <1>2, <2>1, <2>6, PartsReadDone
<1> QED
  BY <1>3, <1>4

LEMMA RecordsRead == ASSUME IInv, ListRecords \/ RecordsFail PROVE Step
<1>0. Stays /\ pc = "record" /\ "record" \in PartTypes \cap Building /\ world \in Worlds
  BY GlobalStays DEF IInv, PlaceInv, GlobalNext, ListRecords, RecordsFail, PartTypes, Building
<1>1. pc' = "append" => Advances("record")
  BY <1>0, LastListing
<1>2. \A y \in world.items : PartOfRoot(y, item) /\ "record" \in PartStages(y.type) => y.type = "record"
  BY <1>0, OnlyListing
<1>3. CASE RecordsFail
  BY <1>0, <1>1, <1>2, <1>3, PartsFail DEF RecordsFail, CallAgain, building
<1>4. CASE ListRecords
  <2>1. PICK batch \in SUBSET AwaitedParts("record", item), last \in BOOLEAN :
          LET kept == {r \in batch : RecordConverts(r)}
              values == PartsOfAll("value", kept)
          IN /\ IsPage(batch, AwaitedParts("record", item), last)
             /\ undelivered' = undelivered \ batch
             /\ built' = built \cup kept \cup Whole(values)
             /\ errors' = errors \cup Rejections((batch \ kept) \cup (values \ Whole(values)))
             /\ pc' = IF last THEN "append" ELSE "record"
    BY <1>4 DEF ListRecords
  <2> DEFINE kept == {r \in batch : RecordConverts(r)}
             values == PartsOfAll("value", kept)
             new == Rejections((batch \ kept) \cup (values \ Whole(values)))
  <2>2. /\ undelivered' = undelivered \ (batch \cup {}) /\ errors' = errors \cup new
        /\ pc' \in {"record", "append"} /\ (pc' # "record" => batch = AwaitedParts("record", item))
        /\ UNCHANGED <<more, queue, item, reported, pending>>
        /\ built' = built \cup kept \cup Whole(values)
    BY <1>4, <2>1 DEF ListRecords, IsPage, CallAgain
  <2>3. \A y \in batch : y \in world.items /\ y.type = "record"
    BY DEF AwaitedParts, IInv, ItemsInv
  <2>4. values \subseteq world.items /\ kept \subseteq batch
    BY DEF PartsOfAll, Parts
  <2>5. built' \subseteq PartItems
    <3>1. batch \subseteq PartItems /\ kept \subseteq batch
      BY <1>0, PartsOfTheItem
    <3>2. values \subseteq PartItems
      BY <1>0, <3>1, PartsOfTheItem
    <3> HIDE DEF values, kept
    <3> QED
      BY <1>0, <2>2, <2>4, <3>1, <3>2, PartsOfTheItem DEF Whole
  <2>6. ASSUME NEW y \in batch PROVE <<"rejected", y.name, NoId>> \in new \/ Kept(y)
    <3>1. CASE y \notin kept
      BY <3>1 DEF Rejections
    <3>2. CASE y \in kept
      <4>1. ASSUME NEW z \in Wanted, PartOfPart(z, y) PROVE z \in built' \/ Told(z)'
        <5>1. z \in world.items /\ z.type = "value" /\ z.of = y.name
          BY <1>0, <2>3, <4>1, WantedFacts DEF PartOfPart, IsPartOf, Objects
        <5>2. z \in values
          BY <3>2, <5>1 DEF PartsOfAll, Parts
        <5>3. z \in Whole(values) \/ <<"rejected", z.name, NoId>> \in new
          BY <5>2 DEF Rejections
        <5> QED
          BY <2>2, <5>3 DEF Told
      <4> QED
        BY <2>2, <3>2, <4>1 DEF Kept
    <3> QED
      BY <3>1, <3>2
  <2>7. \A x \in world.items : ListOf(x) \notin new
    BY NoListOfParts
  <2> HIDE DEF new, kept, values
  <2>8. PartsRead("record", batch, {}, new)
    BY <1>0, <2>2, <2>5, <2>6, <2>7 DEF PartsRead
  <2> QED
    BY <1>0, <1>1, <1>2, <2>2, <2>8, PartsReadDone
<1> QED
  BY <1>3, <1>4

LEMMA AttachmentsRead == ASSUME IInv, ListAttachments \/ AttachmentsFail PROVE Step
<1>0. Stays /\ pc = "attachment" /\ "attachment" \in PartTypes \cap Building /\ world \in Worlds
  BY GlobalStays DEF IInv, PlaceInv, GlobalNext, ListAttachments, AttachmentsFail, PartTypes, Building
<1>1. pc' = "append" => Advances("attachment")
  BY <1>0, LastListing
<1>2. \A y \in world.items : PartOfRoot(y, item) /\ "attachment" \in PartStages(y.type) => y.type = "attachment"
  BY <1>0, OnlyListing
<1>3. CASE AttachmentsFail
  BY <1>0, <1>1, <1>2, <1>3, PartsFail DEF AttachmentsFail, CallAgain, building
<1>4. CASE ListAttachments
  <2>0. PICK batch \in SUBSET AwaitedParts("attachment", item), last \in BOOLEAN :
          \E failing \in SUBSET Whole(batch) :
          LET documents == PartsOfAll("document", Whole(batch) \ failing)
              found == batch \cup documents
          IN /\ IsPage(batch, AwaitedParts("attachment", item), last)
             /\ undelivered' = undelivered \ found
             /\ built' = built \cup Whole(found)
             /\ errors' = errors \cup Rejections(found \ Whole(found))
                                 \cup {ListError("document", a.name) : a \in failing}
             /\ pc' = IF last THEN "append" ELSE "attachment"
    BY <1>4 DEF ListAttachments
  <2>1. PICK failing \in SUBSET Whole(batch) :
          LET documents == PartsOfAll("document", Whole(batch) \ failing)
              found == batch \cup documents
          IN /\ IsPage(batch, AwaitedParts("attachment", item), last)
             /\ undelivered' = undelivered \ found
             /\ built' = built \cup Whole(found)
             /\ errors' = errors \cup Rejections(found \ Whole(found))
                                 \cup {ListError("document", a.name) : a \in failing}
             /\ pc' = IF last THEN "append" ELSE "attachment"
    BY <2>0
  <2> DEFINE documents == PartsOfAll("document", Whole(batch) \ failing)
             found == batch \cup documents
             told == {ListError("document", a.name) : a \in failing}
             new == Rejections(found \ Whole(found)) \cup told
  <2>2. /\ undelivered' = undelivered \ found /\ errors' = errors \cup new
        /\ pc' \in {"attachment", "append"} /\ (pc' # "attachment" => batch = AwaitedParts("attachment", item))
        /\ UNCHANGED <<more, queue, item, reported, pending>>
        /\ built' = built \cup Whole(found)
    BY <1>4, <2>1 DEF ListAttachments, IsPage, CallAgain
  <2>3. \A y \in batch : y \in world.items /\ y.type = "attachment"
    BY DEF AwaitedParts, IInv, ItemsInv
  <2>4. found \subseteq world.items /\ failing \subseteq batch /\ Whole(batch) \subseteq batch
    BY <2>3 DEF PartsOfAll, Parts, Whole
  <2>5. built' \subseteq PartItems
    <3>1. batch \subseteq PartItems
      BY <1>0, PartsOfTheItem
    <3>2. documents \subseteq PartItems
      BY <1>0, <2>4, <3>1, PartsOfTheItem
    <3> QED
      BY <1>0, <2>2, <3>1, <3>2, PartsOfTheItem DEF Whole
  <2>6. \A y \in found : y \in built' \/ <<"rejected", y.name, NoId>> \in new
    BY <2>2 DEF Rejections
  <2>7. ASSUME NEW y \in batch PROVE <<"rejected", y.name, NoId>> \in new \/ Kept(y)
    <3>1. CASE y \notin Whole(batch)
      BY <3>1 DEF Rejections, Whole
    <3>2. CASE y \in Whole(batch)
      <4>1. y \in built'
        BY <2>2, <3>2 DEF Whole
      <4>2. ASSUME NEW z \in Wanted \cap undelivered, PartOfPart(z, y) PROVE z \in built' \/ Told(z)'
        <5>1. z \in world.items /\ z.type = "document" /\ z.of = y.name /\ z.of # NoId
          BY <1>0, <2>3, <4>2, WantedFacts DEF PartOfPart, IsPartOf, Objects
        <5>2. CASE y \in failing
          <6>1. z \notin batch
            BY <2>3, <5>1
          <6>2. z \notin documents
            BY <1>0, <2>3, <2>4, <5>1, <5>2, NotAmongParts
          <6>3. ListOf(z) = ListError("document", y.name) /\ ListError("document", y.name) \in told
            BY <5>1, <5>2 DEF ListOf
          <6> QED
            BY <2>2, <4>2, <6>1, <6>2, <6>3 DEF Told
        <5>3. CASE y \notin failing
          <6>1. z \in found
            BY <3>2, <5>1, <5>3 DEF PartsOfAll, Parts
          <6> QED
            BY <2>2, <2>6, <6>1 DEF Told
        <5> QED
          BY <5>2, <5>3
      <4> QED
        BY <4>1, <4>2 DEF Kept
    <3> QED
      BY <3>1, <3>2
  <2>8. ASSUME NEW x \in world.items, ListOf(x) \in new PROVE \E y \in batch : x.of = y.name
    <3>1. PICK a \in failing : ListOf(x) = ListError("document", a.name)
      BY <2>8, NoListOfParts
    <3>2. "document" \in PartTypes /\ a \in batch
      BY <2>4 DEF PartTypes
    <3>3. x.of = a.name
      BY <1>0, <3>1, <3>2, PartOfList
    <3> QED
      BY <3>2, <3>3
  <2>9. \A z \in documents \cap undelivered : \E y \in batch : z.of = y.name
    BY <2>4 DEF PartsOfAll, Parts
  <2>10. undelivered' = undelivered \ (batch \cup documents)
    BY <2>2
  <2> HIDE DEF new, documents, found, told
  <2>11. PartsRead("attachment", batch, documents, new)
    BY <1>0, <2>2, <2>5, <2>7, <2>8, <2>9, <2>10 DEF PartsRead
  <2> QED
    BY <1>0, <1>1, <1>2, <2>2, <2>11, PartsReadDone
<1> QED
  BY <1>3, <1>4

LEMMA ListenersAdvance ==
  ASSUME IInv, pc = "listener", pc' = "target group"
  PROVE  Advances("listener")
<1>1. \A y \in world.items : PartOfRoot(y, item) => y.type \in PartTypes
  BY PartsOfItem DEF Building
<1>2. ASSUME NEW y \in world.items, PartOfRoot(y, item)
      PROVE  /\ pc' \in PartStages(y.type) => "listener" \in PartStages(y.type)
             /\ "listener" \in PartStages(y.type) => y.type = "listener" \/ pc' \in PartStages(y.type)
  BY <1>1, <1>2, StagesOfParts
<1>3. pc' \notin PartStages("listener")
  BY PartStagesAre
<1> QED
  BY <1>2, <1>3 DEF Advances, Building, DistributionStages

LEMMA TargetGroupsAdvance ==
  ASSUME IInv, pc = "target group", pc' = "references"
  PROVE  Advances("target group")
<1>1. ASSUME NEW y \in world.items, PartOfRoot(y, item)
      PROVE  y.type \in PartTypes /\ y.type \notin Objects
  <2>1. y.type \in PartTypes /\ IsPartOf(y, item)
    BY <1>1, PartsOfItem DEF Building
  <2>2. Pass = "v2" /\ item.type \in TypesOf(Pass)
    BY StageFacts, ItemKind DEF IInv, Building
  <2> QED
    BY <2>1, <2>2 DEF IsPartOf, Objects, TypesOf, FirstListing, RolePasses
<1>2. ASSUME NEW y \in world.items, PartOfRoot(y, item)
      PROVE  /\ pc' \notin PartStages(y.type)
             /\ "target group" \in PartStages(y.type) => y.type = "target group"
  BY <1>1, <1>2, StagesOfParts
<1>3. pc' \notin PartStages("target group")
  BY PartStagesAre
<1> QED
  BY <1>2, <1>3 DEF Advances, Building, DistributionStages

LEMMA ListenersRead == ASSUME IInv, ListListeners \/ ListenersFail PROVE Step
<1>0. Stays /\ pc = "listener" /\ "listener" \in PartTypes \cap Building /\ world \in Worlds
  BY BalancersStay DEF IInv, PlaceInv, BalancersNext, ListListeners, ListenersFail, PartTypes, Building
<1>1. pc' = "target group" => Advances("listener")
  BY <1>0, ListenersAdvance
<1>2. \A y \in world.items :
        "listener" \in PartStages(y.type) /\ pc' \notin PartStages(y.type) /\ PartOfRoot(y, item) => y.type = "listener"
  <2>1. pc' \in {"listener", "target group"}
    BY DEF ListListeners, ListenersFail
  <2> QED
    BY <1>1, <2>1 DEF Advances
<1>3. CASE ListenersFail
  BY <1>0, <1>1, <1>2, <1>3, PartsFail DEF ListenersFail, CallAgain, building
<1>4. CASE ListListeners
  <2>0. PICK batch \in SUBSET AwaitedParts("listener", item), last \in BOOLEAN :
          LET kept == Whole(batch)
              asked == {l \in kept : Defaults({l}) # {}}
          IN \E failing \in SUBSET asked : \E lost \in SUBSET Others(failing) :
          LET brought == Defaults(kept) \cup (Others(asked) \ lost)
              found == batch \cup brought \cup PartsOfAll("forward", kept)
          IN /\ IsPage(batch, AwaitedParts("listener", item), last)
             /\ undelivered' = undelivered \ (batch \cup brought)
             /\ built' = built \cup Whole(found)
             /\ errors' = errors \cup Rejections(found \ Whole(found))
                                 \cup {ListError("certificate", l.name) : l \in failing}
             /\ pc' = IF last THEN "target group" ELSE "listener"
    BY <1>4 DEF ListListeners
  <2> DEFINE kept == Whole(batch)
             asked == {l \in kept : Defaults({l}) # {}}
  <2>1. PICK failing \in SUBSET asked : \E lost \in SUBSET Others(failing) :
          LET brought == Defaults(kept) \cup (Others(asked) \ lost)
              found == batch \cup brought \cup PartsOfAll("forward", kept)
          IN /\ IsPage(batch, AwaitedParts("listener", item), last)
             /\ undelivered' = undelivered \ (batch \cup brought)
             /\ built' = built \cup Whole(found)
             /\ errors' = errors \cup Rejections(found \ Whole(found))
                                 \cup {ListError("certificate", l.name) : l \in failing}
             /\ pc' = IF last THEN "target group" ELSE "listener"
    BY <2>0
  <2>2. PICK lost \in SUBSET Others(failing) :
          LET brought == Defaults(kept) \cup (Others(asked) \ lost)
              found == batch \cup brought \cup PartsOfAll("forward", kept)
          IN /\ IsPage(batch, AwaitedParts("listener", item), last)
             /\ undelivered' = undelivered \ (batch \cup brought)
             /\ built' = built \cup Whole(found)
             /\ errors' = errors \cup Rejections(found \ Whole(found))
                                 \cup {ListError("certificate", l.name) : l \in failing}
             /\ pc' = IF last THEN "target group" ELSE "listener"
    BY <2>1
  <2> DEFINE brought == Defaults(kept) \cup (Others(asked) \ lost)
             forwards == PartsOfAll("forward", kept)
             found == batch \cup brought \cup forwards
             told == {ListError("certificate", l.name) : l \in failing}
             new == Rejections(found \ Whole(found)) \cup told
  <2>3. /\ undelivered' = undelivered \ (batch \cup brought) /\ errors' = errors \cup new
        /\ pc' \in {"listener", "target group"} /\ (pc' # "listener" => batch = AwaitedParts("listener", item))
        /\ UNCHANGED <<more, queue, item, reported, pending>>
        /\ built' = built \cup Whole(found)
    BY <1>4, <2>2 DEF ListListeners, IsPage, CallAgain
  <2>4. \A y \in batch : y \in world.items /\ y.type = "listener"
    BY DEF AwaitedParts, IInv, ItemsInv
  <2>5. kept \subseteq batch /\ failing \subseteq kept /\ asked \subseteq kept
    BY DEF Whole
  <2>15. \A l \in failing : l \in batch
    BY <2>5
  <2>6. ASSUME NEW z \in brought \cup forwards
        PROVE  z \in world.items /\ \E y \in batch : z.of = y.name
    <3>1. CASE z \in Defaults(kept)
      BY <2>5, <3>1 DEF Defaults, PartsOfAll, Parts
    <3>2. CASE z \in Others(asked)
      BY <2>5, <3>2 DEF Others, PartsOfAll, Parts
    <3>3. CASE z \in forwards
      BY <2>5, <3>3 DEF PartsOfAll, Parts
    <3> QED
      BY <2>6, <3>1, <3>2, <3>3
  <2>7. built' \subseteq PartItems
    <3>1. batch \subseteq PartItems
      BY <1>0, PartsOfTheItem
    <3>2. \A z \in brought \cup forwards : z \in PartItems
      <4> HIDE DEF brought, forwards
      <4> QED
        BY <1>0, <2>4, <2>6, ItemFacts DEF PartItems
    <3> HIDE DEF brought, forwards
    <3> QED
      BY <1>0, <2>3, <3>1, <3>2, PartsOfTheItem DEF Whole
  <2>8. \A y \in found : y \in built' \/ <<"rejected", y.name, NoId>> \in new
    BY <2>3 DEF Rejections
  <2>9. ASSUME NEW y \in batch, y \in kept, NEW z \in Wanted \cap undelivered, PartOfPart(z, y) PROVE z \in built' \/ Told(z)'
    <3>1. z \in world.items /\ z.type \in {"certificate", "forward"} /\ z.of = y.name /\ z.of # NoId
      BY <1>0, <2>4, <2>9, WantedFacts DEF PartOfPart, IsPartOf, Objects
    <3>2. z \in found => z \in built' \/ Told(z)'
      BY <2>3, <2>8 DEF Told
    <3>3. CASE z.type = "forward"
      <4>1. z \in forwards
        BY <2>9, <3>1, <3>3 DEF PartsOfAll, Parts
      <4> QED
        BY <3>2, <4>1
    <3>4. CASE z.type = "certificate" /\ z.default
      <4>1. z \in Defaults(kept)
        BY <2>9, <3>1, <3>4 DEF Defaults, PartsOfAll, Parts
      <4> QED
        BY <3>2, <4>1
    <3>5. CASE z.type = "certificate" /\ ~z.default
      <4>1. PICK c \in world.items : c.type = "certificate" /\ c.of = z.of /\ c.default
        BY <1>0, <3>1, <3>5, WorldAssumption
      <4>2. c \in Defaults({y})
        BY <3>1, <4>1 DEF Defaults, PartsOfAll, Parts
      <4>3. y \in asked
        BY <2>9, <4>2
      <4>4. z \in Others(asked)
        <5>1. z \in Parts("certificate", y)
          BY <3>1, <3>5 DEF Parts
        <5> HIDE DEF asked
        <5> QED
          BY <3>5, <4>3, <5>1 DEF Others, PartsOfAll
      <4>5. CASE z \notin lost
        <5>1. z \in brought
          BY <4>4, <4>5
        <5> QED
          BY <3>2, <5>1
      <4>6. CASE z \in lost
        <5>1. PICK l \in failing : z.of = l.name
          BY <4>6 DEF Others, PartsOfAll, Parts
        <5>2. ListOf(z) = ListError("certificate", l.name) /\ ListOf(z) \in told
          BY <3>1, <3>5, <5>1 DEF ListOf
        <5>3. z \notin batch /\ z \notin brought
          <6>1. z \notin batch
            BY <2>4, <3>5
          <6>2. \A k : z \notin Defaults(k)
            BY <3>5 DEF Defaults
          <6> QED
            BY <4>6, <6>1, <6>2
        <5> QED
          BY <2>3, <2>9, <5>2, <5>3 DEF Told
      <4> QED
        BY <4>5, <4>6
    <3> QED
      BY <3>1, <3>3, <3>4, <3>5
  <2>10. ASSUME NEW y \in batch PROVE <<"rejected", y.name, NoId>> \in new \/ Kept(y)
    <3>1. CASE y \notin kept
      BY <3>1 DEF Rejections, Whole
    <3>2. CASE y \in kept
      <4>1. y \in built'
        BY <2>3, <3>2 DEF Whole
      <4> QED
        BY <2>9, <3>2, <4>1 DEF Kept
    <3> QED
      BY <3>1, <3>2
  <2>11. ASSUME NEW x \in world.items, ListOf(x) \in new PROVE \E y \in batch : x.of = y.name
    <3>1. PICK l \in failing : ListOf(x) = ListError("certificate", l.name)
      BY <2>11, NoListOfParts
    <3> HIDE DEF kept, asked
    <3>2. x.of = l.name
      <4>1. "certificate" \in PartTypes
        BY DEF PartTypes
      <4> QED
        BY <1>0, <3>1, <4>1, ListsOfRoots
    <3> QED
      BY <2>15, <3>2
  <2>12. \A z \in brought \cap undelivered : \E y \in batch : z.of = y.name
    BY <2>6
  <2> HIDE DEF new, brought, forwards, found, told, kept, asked
  <2>13. PartsRead("listener", batch, brought, new)
    BY <1>0, <2>3, <2>7, <2>10, <2>11, <2>12 DEF PartsRead
  <2> QED
    BY <1>0, <1>1, <1>2, <2>3, <2>13, PartsReadDone
<1> QED
  BY <1>3, <1>4

LEMMA TargetGroupsRead == ASSUME IInv, ListTargetGroups \/ TargetGroupsFail PROVE Step
<1>0. Stays /\ pc = "target group" /\ "target group" \in PartTypes \cap Building /\ world \in Worlds
  BY BalancersStay DEF IInv, PlaceInv, BalancersNext, ListTargetGroups, TargetGroupsFail, PartTypes, Building
<1>1. pc' = "references" => Advances("target group")
  BY <1>0, TargetGroupsAdvance
<1>2. \A y \in world.items :
        "target group" \in PartStages(y.type) /\ pc' \notin PartStages(y.type) /\ PartOfRoot(y, item) => y.type = "target group"
  <2>1. pc' \in {"target group", "references"}
    BY DEF ListTargetGroups, TargetGroupsFail
  <2> QED
    BY <1>1, <2>1 DEF Advances
<1>3. CASE TargetGroupsFail
  BY <1>0, <1>1, <1>2, <1>3, PartsFail DEF TargetGroupsFail, CallAgain, building
<1>4. CASE ListTargetGroups
  <2> DEFINE Result(batch, last, failing) ==
               LET brought == PartsOfAll("target", Whole(batch) \ failing)
                   found == batch \cup brought
               IN /\ IsPage(batch, AwaitedParts("target group", item), last)
                  /\ undelivered' = undelivered \ found
                  /\ built' = built \cup Whole(found)
                  /\ errors' = errors \cup Rejections(found \ Whole(found))
                                      \cup {ListError("target", g.name) : g \in failing}
                  /\ pc' = IF last THEN "references" ELSE "target group"
  <2>0. PICK batch \in SUBSET AwaitedParts("target group", item), last \in BOOLEAN :
          \E failing \in SUBSET Whole(batch) : Result(batch, last, failing)
    <3>1. PICK batch \in SUBSET AwaitedParts("target group", item), last \in BOOLEAN :
          \E unhealthy \in SUBSET Whole(batch) :
            Result(batch, last, unhealthy \cup {g \in Whole(batch) : ~g.known /\ Parts("target", g) # {}})
      BY <1>4 DEF ListTargetGroups
    <3>2. PICK unhealthy \in SUBSET Whole(batch) :
            Result(batch, last, unhealthy \cup {g \in Whole(batch) : ~g.known /\ Parts("target", g) # {}})
      BY <3>1
    <3> DEFINE failing == unhealthy \cup {g \in Whole(batch) : ~g.known /\ Parts("target", g) # {}}
    <3>3. failing \in SUBSET Whole(batch) /\ Result(batch, last, failing)
      BY <3>2
    <3> HIDE DEF failing, Result
    <3> QED
      BY <3>3
  <2>1. PICK failing \in SUBSET Whole(batch) : Result(batch, last, failing)
    BY <2>0
  <2> DEFINE brought == PartsOfAll("target", Whole(batch) \ failing)
             found == batch \cup brought
             told == {ListError("target", g.name) : g \in failing}
             new == Rejections(found \ Whole(found)) \cup told
  <2>2. /\ undelivered' = undelivered \ found /\ errors' = errors \cup new
        /\ pc' \in {"target group", "references"} /\ (pc' # "target group" => batch = AwaitedParts("target group", item))
        /\ UNCHANGED <<more, queue, item, reported, pending>>
        /\ built' = built \cup Whole(found)
    BY <1>4, <2>1 DEF ListTargetGroups, IsPage, CallAgain
  <2>3. \A y \in batch : y \in world.items /\ y.type = "target group"
    BY DEF AwaitedParts, IInv, ItemsInv
  <2>4. found \subseteq world.items /\ failing \subseteq batch /\ Whole(batch) \subseteq batch
    BY <2>3 DEF PartsOfAll, Parts, Whole
  <2>5. built' \subseteq PartItems
    <3>1. batch \subseteq PartItems
      BY <1>0, PartsOfTheItem
    <3>2. brought \subseteq PartItems
      BY <1>0, <2>4, <3>1, PartsOfTheItem
    <3> HIDE DEF brought
    <3> QED
      BY <1>0, <2>2, <3>1, <3>2, PartsOfTheItem DEF Whole
  <2>6. \A y \in found : y \in built' \/ <<"rejected", y.name, NoId>> \in new
    BY <2>2 DEF Rejections
  <2>7. ASSUME NEW y \in Whole(batch), NEW z \in Wanted \cap undelivered, PartOfPart(z, y) PROVE z \in built' \/ Told(z)'
    <3>1. z \in world.items /\ z.type = "target" /\ z.of = y.name /\ z.of # NoId
      BY <1>0, <2>3, <2>4, <2>7, WantedFacts DEF PartOfPart, IsPartOf, Objects
    <3>2. CASE y \in failing
      <4>1. z \notin batch
        BY <2>3, <3>1
      <4>2. z \notin brought
        BY <1>0, <2>3, <2>4, <3>1, <3>2, NotAmongParts
      <4>3. ListOf(z) = ListError("target", y.name) /\ ListError("target", y.name) \in told
        BY <3>1, <3>2 DEF ListOf
      <4> QED
        BY <2>2, <2>7, <4>1, <4>2, <4>3 DEF Told
    <3>3. CASE y \notin failing
      <4>1. z \in Parts("target", y) /\ y \in Whole(batch) \ failing
        BY <3>1, <3>3 DEF Parts
      <4>2. z \in brought
        BY <4>1 DEF PartsOfAll
      <4>3. z \in found
        BY <4>2
      <4> QED
        BY <2>2, <2>6, <4>3 DEF Told
    <3> QED
      BY <3>2, <3>3
  <2>8. ASSUME NEW y \in batch PROVE <<"rejected", y.name, NoId>> \in new \/ Kept(y)
    <3>1. CASE y \notin Whole(batch)
      BY <3>1 DEF Rejections, Whole
    <3>2. CASE y \in Whole(batch)
      <4>1. y \in built'
        BY <2>2, <3>2 DEF Whole
      <4> QED
        BY <2>7, <3>2, <4>1 DEF Kept
    <3> QED
      BY <3>1, <3>2
  <2>9. ASSUME NEW x \in world.items, ListOf(x) \in new PROVE \E y \in batch : x.of = y.name
    <3>1. PICK g \in failing : ListOf(x) = ListError("target", g.name)
      BY <2>9, NoListOfParts
    <3>2. "target" \in PartTypes /\ g \in batch
      BY <2>4 DEF PartTypes
    <3>3. x.of = g.name
      BY <1>0, <3>1, <3>2, PartOfList
    <3> QED
      BY <3>2, <3>3
  <2>10. \A z \in brought \cap undelivered : \E y \in batch : z.of = y.name
    BY <2>4 DEF PartsOfAll, Parts
  <2>11. undelivered' = undelivered \ (batch \cup brought)
    BY <2>2
  <2> HIDE DEF new, brought, found, told
  <2>12. PartsRead("target group", batch, brought, new)
    BY <1>0, <2>2, <2>5, <2>8, <2>9, <2>10, <2>11 DEF PartsRead
  <2> QED
    BY <1>0, <1>1, <1>2, <2>2, <2>12, PartsReadDone
<1> QED
  BY <1>3, <1>4

LEMMA OriginsAwaited ==
  ASSUME IInv, pc = "origin"
  PROVE  Parts("origin", item) = AwaitedParts("origin", item)
<1>1. world \in Worlds /\ item \in world.items /\ item.of = NoId /\ undelivered \subseteq world.items
  BY ItemKind DEF Building, IInv, ItemsInv
<1>2. ASSUME NEW o \in Parts("origin", item) PROVE o \in undelivered
  <2>1. o \in world.items /\ o.type = "origin" /\ o.of = item.name
    BY DEF Parts
  <2>2. PartOfRoot(o, item)
    BY <1>1, <2>1, PartsOfItems
  <2>3. PartsToCome(o.type, item)
    BY <2>1, PartStagesAre DEF PartsToCome
  <2> QED
    BY <1>1, <2>1, <2>2, <2>3 DEF IInv, LossInv
<1> QED
  BY <1>1, <1>2 DEF Parts, AwaitedParts

LEMMA OriginsRead == ASSUME IInv, ProcessOrigins PROVE Step
<1>0. Stays /\ pc = "origin" /\ pc' = "append" /\ "origin" \in PartTypes \cap Building /\ world \in Worlds
  BY GlobalStays DEF IInv, PlaceInv, GlobalNext, ProcessOrigins, PartTypes, Building
<1>1. Advances("origin")
  BY <1>0, LastListing
<1>2. \A y \in world.items : PartOfRoot(y, item) /\ "origin" \in PartStages(y.type) => y.type = "origin"
  BY <1>0, OnlyListing
<1> DEFINE given == Parts("origin", item)
           asked == {o \in Whole(given) : Resolvable(o)}
<1>3. PICK failing \in SUBSET {o \in asked : o.kind # "s3"} :
        LET backends == PartsOfAll("backend", asked \ failing)
            missed == failing \cup {o \in asked : Parts("backend", o) = {}}
        IN /\ undelivered' = undelivered \ (given \cup backends)
           /\ built' = built \cup Whole(given \cup backends)
           /\ errors' = errors \cup Rejections((given \cup backends) \ Whole(given \cup backends))
                               \cup {ListError("backend", o.name) : o \in missed}
  BY DEF ProcessOrigins
<1> DEFINE backends == PartsOfAll("backend", asked \ failing)
           missed == failing \cup {o \in asked : Parts("backend", o) = {}}
           found == given \cup backends
           told == {ListError("backend", o.name) : o \in missed}
           new == Rejections(found \ Whole(found)) \cup told
<1>4. /\ undelivered' = undelivered \ (given \cup backends) /\ errors' = errors \cup new
      /\ UNCHANGED <<more, queue, item, reported, pending>>
      /\ built' = built \cup Whole(found)
  BY <1>3 DEF ProcessOrigins, paging
<1>5. given = AwaitedParts("origin", item)
  BY <1>0, OriginsAwaited
<1>6. \A y \in given : y \in world.items /\ y.type = "origin"
  BY DEF Parts
<1>7. found \subseteq world.items /\ failing \subseteq missed /\ missed \subseteq given /\ asked \subseteq given
  BY <1>6 DEF PartsOfAll, Parts, Whole
<1>8. built' \subseteq PartItems
  <2>1. given \subseteq PartItems
    BY <1>0, PartsOfTheItem
  <2>2. asked \ failing \subseteq PartItems
    BY <1>7, <2>1
  <2>3. backends \subseteq PartItems
    <3> HIDE DEF asked
    <3> QED
      BY <1>0, <2>2, PartsOfTheItem
  <2> HIDE DEF given, backends
  <2> QED
    BY <1>0, <1>4, <2>1, <2>3, PartsOfTheItem DEF Whole
<1>9. \A y \in found : y \in built' \/ <<"rejected", y.name, NoId>> \in new
  BY <1>4 DEF Rejections
<1>10. ASSUME NEW y \in Whole(given), NEW z \in Wanted \cap undelivered, PartOfPart(z, y) PROVE z \in built' \/ Told(z)'
  <2>1. y \in given
    BY DEF Whole
  <2>2. z \in world.items /\ z.type = "backend" /\ z.of = y.name /\ z.of # NoId /\ Resolvable(y)
    BY <1>0, <1>6, <1>10, <2>1, WantedFacts DEF PartOfPart, IsPartOf, Objects
  <2>3. y \in asked
    BY <2>2
  <2>4. CASE y \in failing
    <3>1. z \notin given
      BY <1>6, <2>2
    <3>2. z \notin backends
      <4> HIDE DEF asked, given
      <4> QED
        BY <1>0, <1>6, <1>7, <2>1, <2>2, <2>4, NotAmongParts
    <3>3. ListOf(z) = ListError("backend", y.name) /\ ListError("backend", y.name) \in told
      BY <2>2, <2>4 DEF ListOf
    <3> QED
      BY <1>4, <1>10, <3>1, <3>2, <3>3 DEF Told
  <2>5. CASE y \notin failing
    <3>1. z \in Parts("backend", y) /\ y \in asked \ failing
      BY <2>2, <2>3, <2>5 DEF Parts
    <3> HIDE DEF asked, given
    <3>2. z \in backends
      BY <3>1 DEF PartsOfAll
    <3> QED
      BY <1>4, <1>9, <3>2 DEF Told
  <2> QED
    BY <2>4, <2>5
<1>11. ASSUME NEW y \in given PROVE <<"rejected", y.name, NoId>> \in new \/ Kept(y)
  <2>1. CASE y \notin Whole(given)
    BY <2>1 DEF Rejections, Whole
  <2>2. CASE y \in Whole(given)
    <3>1. y \in built'
      BY <1>4, <2>2 DEF Whole
    <3> QED
      BY <1>10, <2>2, <3>1 DEF Kept
  <2> QED
    BY <2>1, <2>2
<1>12. ASSUME NEW x \in world.items, ListOf(x) \in new PROVE \E y \in given : x.of = y.name
  <2>1. PICK o \in missed : ListOf(x) = ListError("backend", o.name)
    BY <1>12, NoListOfParts
  <2>2. o \in given
    BY <1>7
  <2>3. "backend" \in PartTypes
    BY DEF PartTypes
  <2> HIDE DEF given, missed
  <2> QED
    BY <1>0, <2>1, <2>2, <2>3, ListsOfRoots
<1>13. ASSUME NEW z \in backends \cap undelivered PROVE \E y \in given : z.of = y.name
  <2> HIDE DEF asked, given
  <2> QED
    BY <1>7 DEF PartsOfAll, Parts
<1> HIDE DEF new, backends, found, told, missed, asked, given
<1>14. PartsRead("origin", given, backends, new)
  BY <1>0, <1>4, <1>5, <1>8, <1>11, <1>12, <1>13 DEF PartsRead
<1> QED
  BY <1>0, <1>1, <1>2, <1>14, PartsReadDone

(***************************************************************************)
(* Web ACLs.                                                               *)
(***************************************************************************)
LEMMA ACLParts ==
  ASSUME IInv, pc \in {"acl rule", "resources", "distribution"}, NEW y \in world.items, PartOfRoot(y, item)
  PROVE  /\ y.type \in PartTypes
         /\ Pass = "waf" => y.type \in {"acl rule", "load balancer", "stage"}
         /\ Pass = "cloudfront" => y.type \in {"acl rule", "distribution"}
         /\ Pass \in {"waf", "cloudfront"}
<1>1. Pass \in {"waf", "cloudfront"}
  BY StageFacts DEF IInv, DistributionStages
<1>2. /\ y.type \in PartTypes /\ IsPartOf(y, item) /\ world \in Worlds /\ item \in world.items
      /\ item.type \in TypesOf(Pass) /\ Pass \in ListedBy(item)
  BY PartsOfItem, ItemKind DEF Building
<1>3. item.type = "web acl"
  BY <1>1, <1>2 DEF TypesOf, FirstListing, RolePasses
<1>4. item.scope \in {"regional", "global"}
  BY <1>2, <1>3, WorldAssumption
<1>5. Pass = PassOf(item)
  BY <1>2, <1>3 DEF ListedBy
<1>6. (Pass = "waf" => item.scope = "regional") /\ (Pass = "cloudfront" => item.scope = "global")
  BY <1>3, <1>4, <1>5 DEF PassOf
<1> QED
  BY <1>1, <1>2, <1>3, <1>6 DEF IsPartOf, Objects

LEMMA RulesAdvance ==
  ASSUME IInv, pc = "acl rule", RulesRead
  PROVE  Advances("acl rule")
<1>1. (Pass = "waf" /\ pc' = "resources") \/ (Pass = "cloudfront" /\ pc' = "append")
  <2>1. Pass \in {"waf", "cloudfront"}
    BY StageFacts DEF IInv
  <2> QED
    BY <2>1 DEF RulesRead
<1>2. ASSUME NEW y \in world.items, PartOfRoot(y, item)
      PROVE  /\ pc' \in PartStages(y.type) => "acl rule" \in PartStages(y.type)
             /\ "acl rule" \in PartStages(y.type) => y.type = "acl rule" \/ pc' \in PartStages(y.type)
  BY <1>1, <1>2, ACLParts, StagesOfParts
<1>3. pc' \notin PartStages("acl rule")
  BY <1>1, PartStagesAre
<1>4. pending = {}
  BY DEF IInv, TypeInv
<1> QED
  BY <1>1, <1>2, <1>3, <1>4 DEF Advances, Building, DistributionStages

LEMMA ACLRulesRead == ASSUME IInv, GetRules \/ GetRulesFails PROVE Step
<1>0. Stays /\ pc = "acl rule" /\ "acl rule" \in PartTypes \cap Building /\ RulesRead
  BY WafStays DEF IInv, WafNext, GetRules, GetRulesFails, PartTypes, Building
<1>1. Advances("acl rule") /\ pc' # "acl rule"
  BY <1>0, RulesAdvance DEF RulesRead
<1>2. \A y \in world.items :
        "acl rule" \in PartStages(y.type) /\ pc' \notin PartStages(y.type) /\ PartOfRoot(y, item) => y.type = "acl rule"
  BY <1>1 DEF Advances
<1>3. CASE GetRulesFails
  BY <1>0, <1>1, <1>2, <1>3, PartsFail DEF GetRulesFails, paging, building
<1>4. CASE GetRules
  <2> DEFINE given == Parts("acl rule", item)
             read == {r \in given : RuleIsRead(r)}
             new == Rejections(given \ read)
             batch == AwaitedParts("acl rule", item)
  <2>1. /\ undelivered' = undelivered \ given /\ built' = built \cup read /\ errors' = errors \cup new
        /\ UNCHANGED <<more, queue, item, reported, pending>>
    BY <1>4 DEF GetRules, paging
  <2>2. batch \subseteq given /\ undelivered \cap given \subseteq batch
    BY DEF AwaitedParts, Parts, IInv, ItemsInv
  <2>3. undelivered' = undelivered \ (batch \cup {})
    BY <2>1, <2>2
  <2>4. \A y \in given : y \in world.items /\ y.type = "acl rule"
    BY DEF Parts
  <2>5. built' \subseteq PartItems
    BY <1>0, <2>1, PartsOfTheItem
  <2>6. \A y \in batch : <<"rejected", y.name, NoId>> \in new \/ Kept(y)
    BY <2>1, <2>2, <2>4, KeptWhole DEF Rejections
  <2>7. \A x \in world.items : ListOf(x) \notin new
    BY NoListOfParts
  <2> HIDE DEF new, batch, read, given
  <2>8. PartsRead("acl rule", batch, {}, new)
    BY <1>0, <2>1, <2>3, <2>5, <2>6, <2>7 DEF PartsRead, batch
  <2> QED
    BY <1>0, <1>1, <1>2, <2>8, PartsReadDone
<1> QED
  BY <1>3, <1>4

LEMMA DistributionsRead == ASSUME IInv, ListDistributions \/ DistributionsFail PROVE Step
<1>0. Stays /\ pc = "distribution" /\ "distribution" \in PartTypes \cap Building
  BY WafStays DEF IInv, WafNext, ListDistributions, DistributionsFail, PartTypes, Building
<1>1. \A y \in world.items :
        "distribution" \in PartStages(y.type) /\ PartOfRoot(y, item) => y.type = "distribution"
  BY <1>0, ACLParts, StagesOfParts
<1>2. CASE DistributionsFail
  BY <1>0, <1>1, <1>2, PartsFail DEF DistributionsFail, building
<1>3. CASE ListDistributions
  <2>1. PICK batch \in SUBSET AwaitedParts("distribution", item), next \in Given, truncated \in BOOLEAN :
          LET taken == {d \in batch : Protected(d)}
              stuck == truncated /\ next \in {NoId, marker}
          IN /\ ~truncated => batch = AwaitedParts("distribution", item) /\ next = NoId
             /\ undelivered' = undelivered \ batch
             /\ built' = built \cup taken
             /\ errors' = errors \cup Rejections(batch \ taken)
                                 \cup (IF stuck THEN {ListError("distribution", item.name)} ELSE {})
             /\ IF stuck \/ ~truncated THEN marker' = NoId /\ calls' = 0 /\ pc' = "distributed"
                ELSE marker' = next /\ calls' = 1 - calls /\ UNCHANGED pc
    BY <1>3 DEF ListDistributions
  <2> DEFINE taken == {d \in batch : Protected(d)}
             stuck == truncated /\ next \in {NoId, marker}
             new == Rejections(batch \ taken) \cup (IF stuck THEN {ListError("distribution", item.name)} ELSE {})
  <2>2. /\ undelivered' = undelivered \ (batch \cup {}) /\ built' = built \cup taken /\ errors' = errors \cup new
        /\ pc' \in {"distribution", "distributed"}
        /\ pc' # "distribution" => stuck \/ batch = AwaitedParts("distribution", item)
        /\ stuck => pc' # "distribution"
        /\ UNCHANGED <<more, queue, item, reported, pending>>
    BY <1>0, <1>3, <2>1 DEF ListDistributions
  <2>3. \A y \in batch : y \in world.items /\ y.type = "distribution"
    BY DEF AwaitedParts, IInv, ItemsInv
  <2>4. built' \subseteq PartItems
    BY <1>0, <2>2, PartsOfTheItem
  <2>5. \A y \in batch : <<"rejected", y.name, NoId>> \in new \/ Kept(y)
    BY <2>2, <2>3, KeptWhole DEF Rejections
  <2>6. \A x \in world.items : ListOf(x) \in new => stuck /\ ListOf(x) = ListError("distribution", item.name)
    BY NoListOfParts
  <2>7. stuck => ListError("distribution", item.name) \in new
    OBVIOUS
  <2> HIDE DEF new, taken, stuck
  <2>8. PartsRead("distribution", batch, {}, new)
    BY <1>0, <2>2, <2>4, <2>5, <2>6, <2>7 DEF PartsRead
  <2> QED
    BY <1>0, <1>1, <2>2, <2>8, PartsReadDone
<1> QED
  BY <1>2, <1>3

LEMMA ResourcesRead == ASSUME IInv, ListResources PROVE Step
<1>0. Stays /\ pc = "resources" /\ pc' = "append" /\ world \in Worlds /\ item \in world.items /\ item.of = NoId
  BY WafStays, ItemKind DEF IInv, WafNext, ListResources, Building
<1>1. PICK failing \in SUBSET {"load balancer", "stage"} :
        LET brought == UNION {Parts(t, item) : t \in {"load balancer", "stage"} \ failing} IN
        /\ undelivered' = undelivered \ brought
        /\ built' = built \cup Whole(brought)
        /\ errors' = errors \cup Rejections(brought \ Whole(brought))
                            \cup {ListError(t, item.name) : t \in failing}
  BY DEF ListResources
<1> DEFINE brought == UNION {Parts(t, item) : t \in {"load balancer", "stage"} \ failing}
           told == {ListError(t, item.name) : t \in failing}
           new == Rejections(brought \ Whole(brought)) \cup told
<1>2. /\ undelivered' = undelivered \ brought /\ built' = built \cup Whole(brought) /\ errors' = errors \cup new
      /\ UNCHANGED <<more, queue, item, reported, pending>>
  BY <1>1 DEF ListResources, paging
<1>3. \A y \in world.items : PartOfRoot(y, item) => y.type \in PartTypes /\ y.type \in {"acl rule", "load balancer", "stage"}
  BY <1>0, StageFacts, ACLParts DEF IInv
<1>4. \A y : y \in brought <=> \E t \in {"load balancer", "stage"} \ failing : y \in Parts(t, item)
  OBVIOUS
<1>5. \A y \in brought : y \in world.items /\ PartOfRoot(y, item) /\ y.type \in {"load balancer", "stage"}
  <2> HIDE DEF brought
  <2> QED
    BY <1>0, <1>4, PartsOfItems DEF Parts
<1>6. built' \subseteq PartItems
  <2>1. \A y \in brought : y \in PartItems
    BY <1>5 DEF PartOfRoot, PartItems
  <2> QED
    BY <1>2, <2>1 DEF IInv, ItemsInv, Whole
<1>7. \A y \in brought : y \in built' \/ <<"rejected", y.name, NoId>> \in new
  BY <1>2 DEF Rejections
<1>8. ASSUME NEW x \in world.items, ListOf(x) \in new PROVE PartOfRoot(x, item) /\ x.type \in {"load balancer", "stage"}
  <2>1. PICK t \in failing : ListOf(x) = ListError(t, item.name)
    BY <1>8, NoListOfParts
  <2>2. t \in PartTypes
    BY DEF PartTypes
  <2>3. x.type = t /\ x.of = item.name
    <3>1. world \in Worlds /\ x \in world.items
      BY <1>0
    <3> QED
      BY <2>1, <2>2, <3>1, PartOfList
  <2> QED
    BY <1>0, <2>3, PartsOfItems
<1>9. ASSUME NEW y \in world.items, PartOfRoot(y, item), Closes(y, brought) PROVE Told(y)' \/ Kept(y)
  <2>1. y.type \in {"load balancer", "stage"} /\ y \in undelivered /\ y.of = item.name /\ y.of # NoId
    BY <1>0, <1>3, <1>9, StagesOfParts DEF Closes, PartOfRoot
  <2>2. CASE y.type \in failing
    <3>1. y \notin brought
      <4> HIDE DEF brought
      <4> QED
        BY <1>4, <2>2 DEF Parts
    <3>2. ListOf(y) \in told
      BY <2>1, <2>2 DEF ListOf
    <3> QED
      BY <1>2, <2>1, <3>1, <3>2 DEF Told
  <2>3. CASE y.type \notin failing
    <3>1. y \in brought
      <4> HIDE DEF brought
      <4> QED
        BY <1>4, <2>1, <2>3 DEF Parts
    <3> QED
      BY <1>2, <1>7, <2>1, <3>1, KeptWhole DEF Told
  <2> QED
    BY <2>2, <2>3
<1>10. pending = {}
  BY <1>0 DEF IInv, TypeInv
<1>11. \A y \in world.items : PartOfRoot(y, item) =>
         /\ pc' \notin PartStages(y.type)
         /\ y \in brought => pc \in PartStages(y.type)
  BY <1>0, <1>3, <1>5, StagesOfParts
<1> HIDE DEF brought, new, told
<1>12. ReadStep(brought, new)
  BY <1>0, <1>2, <1>5, <1>6, <1>8, <1>9, <1>10, <1>11 DEF ReadStep, Building, DistributionStages
<1> QED
  BY <1>12, ReadStepDone

(***************************************************************************)
(* References and clusters.                                                *)
(***************************************************************************)
LEMMA ReferencesResolved == ASSUME IInv, ResolveReference PROVE Step
<1>0. Stays /\ pc = "references" /\ pc' = "references"
  BY CommonStays DEF IInv, ResolveReference
<1>1. UNCHANGED <<more, queue, item, reported, undelivered, built>>
  BY DEF ResolveReference, paging
<1>2. PICK id \in pending :
        \/ pending' = pending \ {id} /\ UNCHANGED errors
        \/ /\ errors' = errors \cup {<<"unresolved", item.name, id>>}
           /\ pending' = pending \ ({id} \cup (IF id = item.vpc THEN item.subnets ELSE {}))
  BY DEF ResolveReference
<1>3. pending' \subseteq pending
  BY <1>2
<1>4. NoList({}) /\ NoList({<<"unresolved", item.name, id>>})
  BY NoListFacts
<1>5. PICK new : errors' = errors \cup new /\ NoList(new)
  <2>1. errors' = errors \cup {} \/ errors' = errors \cup {<<"unresolved", item.name, id>>}
    BY <1>2
  <2> QED
    BY <1>4, <2>1
<1>6. built \subseteq PartItems
  BY DEF IInv, ItemsInv
<1>7. ReadStep({}, new)
  BY <1>0, <1>1, <1>3, <1>5, <1>6 DEF ReadStep, Building, DistributionStages, NoList, Closes
<1> QED
  BY <1>7, ReadStepDone

LEMMA ReferencesEnd == ASSUME IInv, ReferencesDone PROVE Step
<1>0. Stays /\ pc = "references" /\ pending = {} /\ pc' = (IF Pass = "eks" THEN "kubernetes" ELSE "append")
  BY CommonStays DEF IInv, ReferencesDone
<1>1. UNCHANGED <<more, queue, item, reported, undelivered, built, pending, errors>>
  BY DEF ReferencesDone, paging, building
<1>2. Pass \in {"securitygroup", "v1", "v2", "eks"} /\ item.type \in TypesOf(Pass)
  BY <1>0, StageFacts, ItemKind DEF IInv, Building
<1>3. ASSUME NEW y \in world.items, PartOfRoot(y, item)
      PROVE  pc' \in PartStages(y.type) <=> pc \in PartStages(y.type)
  <2>1. y.type \in PartTypes /\ IsPartOf(y, item)
    BY <1>0, <1>3, PartsOfItem DEF Building
  <2>2. CASE Pass = "eks"
    BY <1>0, <2>1, <2>2, StagesOfParts
  <2>3. CASE Pass # "eks"
    <3>1. item.type \in {"group", "db group", "balancer"}
      BY <1>2, <2>3 DEF TypesOf, FirstListing, RolePasses
    <3>2. y.type \notin Objects /\ y.type # "distribution"
      BY <2>1, <3>1 DEF IsPartOf, Objects
    <3> QED
      BY <1>0, <2>1, <2>3, <3>2, StagesOfParts
  <2> QED
    BY <2>2, <2>3
<1>4. built \subseteq PartItems /\ errors' = errors \cup {}
  BY <1>1 DEF IInv, ItemsInv
<1>5. pc' \in {"kubernetes", "append"}
  BY <1>0
<1>6. ReadStep({}, {})
  BY <1>0, <1>1, <1>3, <1>4, <1>5 DEF ReadStep, Building, DistributionStages, Closes
<1> QED
  BY <1>6, ReadStepDone

LEMMA ClusterParts ==
  ASSUME IInv, pc = "kubernetes", pc' = "append", NEW y \in world.items, PartOfRoot(y, item)
  PROVE  /\ y.type \in Objects /\ y.of = item.name /\ y.of # NoId
         /\ y.type \in {"pod", "node", "service"}
         /\ pc \in PartStages(y.type) /\ pc' \notin PartStages(y.type)
         /\ y \in Wanted => Readable(item)
<1>1. y.type \in PartTypes /\ IsPartOf(y, item) /\ world \in Worlds /\ item \in world.items
  BY PartsOfItem, ItemKind DEF Building
<1>2. Pass = "eks" /\ item.type \in TypesOf(Pass)
  BY StageFacts, ItemKind DEF IInv, Building
<1>3. item.type = "cluster"
  BY <1>2 DEF TypesOf, FirstListing, RolePasses
<1>4. y.type \in Objects
  BY <1>1, <1>3 DEF IsPartOf, Objects
<1>5. Above(y) = {item}
  BY <1>1, PartLine
<1>6. y \in Wanted => Readable(item)
  BY <1>1, <1>4, <1>5, WantedFacts
<1>7. pc \in PartStages(y.type) /\ pc' \notin PartStages(y.type)
  <2>1. y.type # "distribution"
    BY <1>4 DEF Objects
  <2> QED
    BY <1>1, <1>4, <2>1, StagesOfParts
<1> QED
  BY <1>4, <1>6, <1>7 DEF Objects, PartOfRoot

\* A step from the objects of a cluster to its end.
LEMMA ClusterReadDone ==
  ASSUME IInv, Stays, NEW gone, NEW new, pc = "kubernetes", pc' = "append",
         UNCHANGED <<more, queue, item, reported, pending>>,
         built \subseteq built', built' \subseteq PartItems,
         undelivered' = undelivered \ gone, errors' = errors \cup new,
         \A y \in gone : y \in world.items /\ PartOfRoot(y, item),
         \A x \in world.items : ListOf(x) \in new => PartOfRoot(x, item),
         \A y \in world.items : PartOfRoot(y, item) /\ y \in undelivered => Told(y)' \/ Kept(y)
  PROVE  Step
<1>1. pending = {}
  BY DEF IInv, TypeInv
<1>2. \A y \in world.items : PartOfRoot(y, item) => pc \in PartStages(y.type) /\ pc' \notin PartStages(y.type)
  BY ClusterParts
<1>3. ReadStep(gone, new)
  BY <1>1, <1>2 DEF ReadStep, Building, DistributionStages, Closes
<1> QED
  BY <1>3, ReadStepDone

LEMMA ClusterRead == ASSUME IInv, NotReadable \/ ConnectFails \/ ReadObjects PROVE Step
<1>0. Stays /\ pc = "kubernetes" /\ pc' = "append" /\ world \in Worlds /\ item \in world.items /\ item.of = NoId
  BY ClustersStay, ItemKind DEF IInv, ClustersNext, NotReadable, ConnectFails, ReadObjects, Building
<1>1. built \subseteq PartItems
  BY DEF IInv, ItemsInv
<1>2. CASE NotReadable
  <2> DEFINE none == {}
  <2>1. UNCHANGED <<more, queue, item, reported, pending, built>> /\ undelivered' = undelivered \ none /\ errors' = errors \cup none
        /\ ~Readable(item)
    BY <1>2 DEF NotReadable, paging, building
  <2>2. \A y \in world.items : PartOfRoot(y, item) => Kept(y)
    BY <1>0, <2>1, ClusterParts, KeptWhole
  <2>3. /\ built \subseteq built' /\ built' \subseteq PartItems
        /\ \A y \in none : y \in world.items /\ PartOfRoot(y, item)
        /\ \A x \in world.items : ListOf(x) \in none => PartOfRoot(x, item)
    BY <1>1, <2>1
  <2> HIDE DEF none
  <2> QED
    BY <1>0, <2>1, <2>2, <2>3, ClusterReadDone
<1>3. CASE ConnectFails
  <2> DEFINE none == {}
             new == {<<"connect", item.name, NoId>>}
  <2>1. UNCHANGED <<more, queue, item, reported, pending, built>> /\ undelivered' = undelivered \ none /\ errors' = errors \cup new
    BY <1>3 DEF ConnectFails, paging, building
  <2>2. \A y \in world.items : PartOfRoot(y, item) => Told(y)'
    BY <1>0, <2>1, ClusterParts DEF Told
  <2>3. NoList(new)
    BY NoListFacts
  <2> HIDE DEF new
  <2>4. /\ built \subseteq built' /\ built' \subseteq PartItems
        /\ \A y \in none : y \in world.items /\ PartOfRoot(y, item)
        /\ \A x \in world.items : ListOf(x) \in new => PartOfRoot(x, item)
    BY <1>1, <2>1, <2>3 DEF NoList
  <2> HIDE DEF none
  <2> QED
    BY <1>0, <2>1, <2>2, <2>4, ClusterReadDone
<1>4. CASE ReadObjects
  <2>1. PICK failing \in SUBSET Objects :
          LET Listed(t) == IF t \in failing THEN {} ELSE Parts(t, item)
              external == {s \in Listed("service") : External(s)}
              found == Listed("pod") \cup Listed("node") \cup external
          IN /\ undelivered' = undelivered \ found
             /\ built' = built \cup Whole(found)
             /\ errors' = errors \cup Rejections(found \ Whole(found))
                                 \cup {ListError(t, item.name) : t \in failing}
    BY <1>4 DEF ReadObjects
  <2> DEFINE Listed(t) == IF t \in failing THEN {} ELSE Parts(t, item)
             external == {s \in Listed("service") : External(s)}
             found == Listed("pod") \cup Listed("node") \cup external
             told == {ListError(t, item.name) : t \in failing}
             new == Rejections(found \ Whole(found)) \cup told
  <2>2. /\ undelivered' = undelivered \ found /\ built' = built \cup Whole(found) /\ errors' = errors \cup new
        /\ UNCHANGED <<more, queue, item, reported, pending>>
    BY <1>4, <2>1 DEF ReadObjects, paging
  <2>3. \A y \in found : y \in world.items /\ y.of = item.name
    BY DEF Parts
  <2>4. ASSUME NEW y \in world.items, y.of = item.name, y.type \in Objects, y.type \notin failing,
               y.type = "service" => External(y)
        PROVE  y \in found
    BY <2>4 DEF Objects, Parts
  <2>5. \A y \in found : y.type \notin failing
    BY DEF Parts
  <2>6. \A y \in found : y \in built' \/ <<"rejected", y.name, NoId>> \in new
    BY <2>2 DEF Rejections
  <2>7. built' \subseteq PartItems
    <3>1. \A y \in found : y \in PartItems
      BY <1>0, <2>3, ItemFacts DEF PartItems
    <3> QED
      BY <1>1, <2>2, <3>1 DEF Whole
  <2>8. \A t \in failing : ListError(t, item.name) \in new
    OBVIOUS
  <2>9. ASSUME NEW x \in world.items, ListOf(x) \in new PROVE PartOfRoot(x, item)
    <3>1. PICK t \in failing : ListOf(x) = ListError(t, item.name)
      BY <2>9, NoListOfParts
    <3>2. t \in PartTypes
      BY DEF Objects, PartTypes
    <3>3. x.of = item.name
      BY <1>0, <3>1, <3>2, PartOfList
    <3> QED
      BY <1>0, <3>3, PartsOfItems
  <2> HIDE DEF Listed, external, found, told, new
  <2>10. ASSUME NEW y \in world.items, PartOfRoot(y, item), y \in undelivered PROVE Told(y)' \/ Kept(y)
    <3>1. y.type \in Objects /\ y.of = item.name /\ y.of # NoId /\ y.type \in {"pod", "node", "service"}
      BY <1>0, <2>10, ClusterParts
    <3>2. CASE y.type \in failing
      <4>1. y \in undelivered'
        BY <2>2, <2>5, <2>10, <3>2
      <4>2. ListOf(y) = ListError(y.type, item.name)
        BY <3>1 DEF ListOf
      <4> QED
        BY <2>2, <2>8, <3>2, <4>1, <4>2 DEF Told
    <3>3. CASE y \in found
      BY <2>2, <2>6, <3>1, <3>3, KeptWhole DEF Told
    <3>4. CASE y.type \notin failing /\ y \notin found
      <4>1. y.type = "service" /\ ~External(y)
        BY <2>4, <3>1, <3>4
      <4>2. y \notin Wanted
        BY <1>0, <4>1, WantedFacts
      <4> QED
        BY <3>1, <4>2, KeptWhole
    <3> QED
      BY <3>2, <3>3, <3>4
  <2>11. \A y \in found : PartOfRoot(y, item)
    BY <1>0, <2>3, PartsOfItems
  <2> QED
    BY <1>0, <2>2, <2>3, <2>7, <2>9, <2>10, <2>11, ClusterReadDone
<1> QED
  BY <1>2, <1>3, <1>4

(***************************************************************************)
(* Steps that bring nothing.                                               *)
(***************************************************************************)
QuietStep ==
  /\ world' = world /\ UNCHANGED <<undelivered, errors>>
  /\ \A x \in world.items : x \in Held => x \in Held'
  /\ \A p \in world.items : p.of = NoId => (RootOpen(p)' <=> RootOpen(p))
  /\ \A y, p \in world.items : PartOfRoot(y, p) => (PartsToCome(y.type, p)' <=> PartsToCome(y.type, p))

LEMMA QuietStepOrderly ==
  ASSUME IInv, QuietStep
  PROVE  Orderly /\ LossInv'
<1>0. world \in Worlds /\ undelivered \subseteq world.items /\ LossInv
  BY DEF IInv, PlaceInv, ItemsInv
<1>1. \A y, p \in world.items : PartOfRoot(y, p) => (Open(y)' <=> Open(y))
  BY <1>0, OpenPart DEF QuietStep
<1>2. \A x \in Wanted : x \in world.items /\ (x \in Held => Accounted(x)')
  BY <1>0, WantedFacts DEF QuietStep, Accounted
<1>3. undelivered \ undelivered' = {} /\ undelivered' \subseteq undelivered /\ errors \subseteq errors'
      /\ world' = world /\ \A e : e \in errors' => e \in errors
  BY DEF QuietStep
<1>4. Orderly
  BY <1>0, <1>1, <1>2, <1>3, OrderlyFrom DEF QuietStep
<1> QED
  BY <1>0, <1>4, OrderlyKeepsLosses

\* A part is no root.
LEMMA PartItemsAre ==
  ASSUME world \in Worlds, NEW x \in PartItems
  PROVE  x \in world.items /\ ~IsGlobalACL(x)
<1>1. x \in world.items /\ x.of # NoId
  BY DEF PartItems
<1>2. PICK p \in world.items : IsPartOf(x, p)
  BY <1>1, WorldAssumption
<1> QED
  BY <1>1, <1>2 DEF IsPartOf, Objects, IsGlobalACL

\* The one region of CloudFront.
LEMMA GlobalPlace ==
  ASSUME IInv, pc \notin {"region", "done"}, Pass = "cloudfront"
  PROVE  place = 1
<1>1. place \in DOMAIN RegionsOf(world, Pass) /\ Pass \in PassNames /\ world \in Worlds
  BY PassIsNamed DEF IInv, PlaceInv
<1> QED
  BY <1>1, RegionFacts DEF Distinct

LEMMA ItemAppended == ASSUME IInv, AppendItem PROVE Step
<1>0. Stays /\ PlaceInv' /\ pc = "append" /\ pc' = "convert" /\ world \in Worlds /\ item \in world.items
      /\ item.of = NoId /\ Pass \in ListedBy(item) /\ item \notin undelivered /\ item \notin queue /\ item # NoItem
  BY CommonStays, StaysKeepsPlace, ItemKind DEF IInv, AppendItem, Building, ItemsInv
<1>1. /\ UNCHANGED <<where, more, undelivered, queue, pending, errors>> /\ world' = world
      /\ reported' = reported \cup built \cup {item} /\ item' = NoItem /\ built' = {}
  BY DEF AppendItem, paging, where
<1>2. \A p \in world.items : p.of = NoId => (RootOpen(p)' <=> RootOpen(p))
  BY <1>0, <1>1, RootsStay DEF Handling, Building
<1>3. \A x \in built : x \in world.items /\ ~IsGlobalACL(x)
  BY <1>0, PartItemsAre DEF IInv, ItemsInv
<1>4. ASSUME NEW y \in world.items, NEW p \in world.items, PartOfRoot(y, p)
      PROVE  PartsToCome(y.type, p)' <=> PartsToCome(y.type, p)
  <2>1. p.of = NoId /\ p # NoItem /\ (y.type = "distribution" => IsGlobalACL(p)) /\ y.type \in PartTypes
    BY <1>0, <1>4, GlobalParts, ItemFacts, PartsHaveTypes DEF PartOfRoot
  <2>2. "append" \in PartStages(y.type) <=> y.type = "distribution"
    BY <2>1, StagesOfParts
  <2>3. /\ PartsToCome(y.type, p) <=> RootOpen(p) \/ p \in queue \/ (p = item /\ y.type = "distribution")
                                      \/ (y.type = "distribution" /\ p \in reported)
        /\ PartsToCome(y.type, p)' <=> RootOpen(p) \/ p \in queue \/ (y.type = "distribution" /\ p \in reported')
    BY <1>0, <1>1, <1>2, <2>1, <2>2 DEF PartsToCome, DistributionStages, AclStages
  <2> QED
    BY <1>1, <1>3, <2>1, <2>3
<1>5. \A x : x \in Held => x \in Held'
  BY <1>1 DEF Held
<1>6. QuietStep
  BY <1>1, <1>2, <1>4, <1>5 DEF QuietStep
<1>7. Orderly /\ LossInv'
  BY <1>6, QuietStepOrderly
<1>8. \A q : Here(q)' <=> Here(q)
  BY <1>1, PlaceStays
<1>9. Pass' = Pass /\ Region' = Region /\ place' = place
  BY <1>1, PlaceStays DEF where
<1>10. ItemsInv'
  BY <1>0, <1>1, <1>3, <1>8 DEF IInv, ItemsInv, Building, PartItems
<1>11. GlobalInv'
  <2>1. IsGlobalACL(item) => Pass = "cloudfront" /\ place = 1 /\ item.region = Region
    <3>1. Here(item)
      BY <1>0 DEF IInv, ItemsInv
    <3>2. item.region = Region
      BY <1>0, <3>1, HereFacts DEF IInv
    <3>3. IsGlobalACL(item) => Pass = "cloudfront"
      BY <1>0 DEF IsGlobalACL, ListedBy, PassOf
    <3> QED
      BY <1>0, <3>2, <3>3, GlobalPlace
  <2> QED
    BY <1>0, <1>1, <1>3, <1>9, <2>1 DEF IInv, GlobalInv, DistributionStages
<1>12. TypeInv'
  <2>1. pending = {}
    BY <1>0 DEF IInv, TypeInv
  <2> QED
    BY <1>0, <1>1, <2>1 DEF TypeInv, Stays
<1> QED
  BY <1>0, <1>7, <1>10, <1>11, <1>12 DEF IInv, Step

LEMMA DistributionsBegun == ASSUME IInv, NEW x \in queue, BeginDistributions(x) PROVE Step
<1>0. Stays /\ PlaceInv' /\ pc = "distributions" /\ pc' = "distribution" /\ world \in Worlds /\ item = NoItem
      /\ x \in world.items /\ x.of = NoId /\ Here(x) /\ x \notin undelivered /\ x \in reported /\ IsGlobalACL(x)
  <2>1. Stays /\ pc = "distributions" /\ pc' = "distribution"
    BY WafStays DEF IInv, WafNext, BeginDistributions
  <2>2. item = NoItem
    BY <2>1 DEF IInv, ItemsInv, Building
  <2> QED
    BY <2>1, <2>2, StaysKeepsPlace DEF IInv, PlaceInv, ItemsInv, GlobalInv, DistributionStages
<1>1. /\ UNCHANGED <<where, more, undelivered, pending, built, reported, errors>> /\ world' = world
      /\ queue' = queue \ {x} /\ item' = x
  BY DEF BeginDistributions, paging, where
<1>2. \A p \in world.items : p.of = NoId => (RootOpen(p)' <=> RootOpen(p))
  BY <1>0, <1>1, RootsStay DEF Handling, Building, DistributionStages
<1>3. ASSUME NEW y \in world.items, NEW p \in world.items, PartOfRoot(y, p)
      PROVE  PartsToCome(y.type, p)' <=> PartsToCome(y.type, p)
  <2>1. p.of = NoId /\ p # NoItem /\ y.type \in PartTypes
    BY <1>0, <1>3, ItemFacts, PartsHaveTypes DEF PartOfRoot
  <2>2. "distribution" \in PartStages(y.type) <=> y.type = "distribution"
    BY <2>1, StagesOfParts
  <2>3. /\ PartsToCome(y.type, p) <=> RootOpen(p) \/ (p \in queue /\ y.type = "distribution")
        /\ PartsToCome(y.type, p)' <=> RootOpen(p) \/ (p \in queue' /\ y.type = "distribution")
                                       \/ (p = x /\ y.type = "distribution")
    BY <1>0, <1>1, <1>2, <2>1, <2>2 DEF PartsToCome, DistributionStages, AclStages
  <2> QED
    BY <1>1, <2>3
<1>4. \A y \in world.items : y \in Held => y \in Held'
  BY <1>0, <1>1, ItemFacts DEF Held
<1>5. QuietStep
  BY <1>1, <1>2, <1>3, <1>4 DEF QuietStep
<1>6. Orderly /\ LossInv'
  BY <1>5, QuietStepOrderly
<1>7. \A q : Here(q)' <=> Here(q)
  BY <1>1, PlaceStays
<1>8. Pass' = Pass /\ Region' = Region /\ place' = place
  BY <1>1, PlaceStays DEF where
<1>9. ItemsInv'
  <2>1. x # NoItem
    BY <1>0, ItemFacts
  <2> QED
    BY <1>0, <1>1, <1>7, <2>1 DEF IInv, ItemsInv, Building, PartItems
<1>10. GlobalInv'
  BY <1>0, <1>1, <1>8 DEF IInv, GlobalInv, DistributionStages
<1>11. TypeInv'
  <2>1. pending = {}
    BY <1>0 DEF IInv, TypeInv
  <2> QED
    BY <1>0, <1>1, <2>1 DEF TypeInv, Stays
<1> QED
  BY <1>0, <1>6, <1>9, <1>10, <1>11 DEF IInv, Step

LEMMA DistributionsEnded == ASSUME IInv, EndDistributions PROVE Step
<1>0. Stays /\ PlaceInv' /\ pc = "distributed" /\ pc' = "distributions" /\ world \in Worlds /\ item \in world.items
      /\ item.of = NoId /\ item \notin undelivered /\ item \notin queue /\ item # NoItem /\ item \in reported
  <2>1. Stays /\ pc = "distributed" /\ pc' = "distributions"
    BY WafStays DEF IInv, WafNext, EndDistributions
  <2>2. item # NoItem
    BY <2>1 DEF IInv, ItemsInv, Building
  <2> QED
    BY <2>1, <2>2, StaysKeepsPlace DEF IInv, PlaceInv, ItemsInv, GlobalInv, DistributionStages
<1>1. /\ UNCHANGED <<where, more, undelivered, queue, pending, errors>> /\ world' = world
      /\ reported' = reported \cup built /\ item' = NoItem /\ built' = {}
  BY DEF EndDistributions, paging, where
<1>2. \A p \in world.items : p.of = NoId => (RootOpen(p)' <=> RootOpen(p))
  BY <1>0, <1>1, RootsStay DEF Handling, Building, DistributionStages
<1>3. \A x \in built : x \in world.items /\ ~IsGlobalACL(x)
  BY <1>0, PartItemsAre DEF IInv, ItemsInv
<1>4. ASSUME NEW y \in world.items, NEW p \in world.items, PartOfRoot(y, p)
      PROVE  PartsToCome(y.type, p)' <=> PartsToCome(y.type, p)
  <2>1. p.of = NoId /\ p # NoItem /\ y.type \in PartTypes
    BY <1>0, <1>4, ItemFacts, PartsHaveTypes DEF PartOfRoot
  <2>2. "distributed" \notin PartStages(y.type)
    BY <2>1, StagesOfParts
  <2> QED
    BY <1>0, <1>1, <1>2, <2>1, <2>2 DEF PartsToCome, DistributionStages, AclStages
<1>5. \A x \in world.items : x \in Held => x \in Held'
  BY <1>0, <1>1 DEF Held
<1>6. QuietStep
  BY <1>1, <1>2, <1>4, <1>5 DEF QuietStep
<1>7. Orderly /\ LossInv'
  BY <1>6, QuietStepOrderly
<1>8. \A q : Here(q)' <=> Here(q)
  BY <1>1, PlaceStays
<1>9. Pass' = Pass /\ Region' = Region /\ place' = place
  BY <1>1, PlaceStays DEF where
<1>10. ItemsInv'
  BY <1>0, <1>1, <1>3, <1>8 DEF IInv, ItemsInv, Building, PartItems
<1>11. GlobalInv'
  BY <1>0, <1>1, <1>3, <1>9 DEF IInv, GlobalInv, DistributionStages
<1>12. TypeInv'
  <2>1. pending = {}
    BY <1>0 DEF IInv, TypeInv
  <2> QED
    BY <1>0, <1>1, <2>1 DEF TypeInv, Stays
<1> QED
  BY <1>0, <1>7, <1>10, <1>11, <1>12 DEF IInv, Step

(***************************************************************************)
(* The end of a queue, of a region, and of a pass.                         *)
(***************************************************************************)
\* A stage that lists nothing.
Listless(stage) == stage \notin {"vpc", "subnet", "group", "db group", "balancer", "web acl", "cluster", "zone", "role", "cdn", "bucket", "function"}

LEMMA NoListingNow ==
  ASSUME NEW w \in Worlds, NEW p \in w.items, p.of = NoId
  PROVE  (Listless(pc) => (Listing(p) <=> more)) /\ (Listless(pc') => (Listing(p)' <=> more'))
<1>1. p.type \in RootTypes
  BY ItemFacts
<1>2. ListingStages(p.type) \subseteq {"vpc", "subnet", "group", "db group", "balancer", "web acl", "cluster", "zone", "role", "cdn", "bucket", "function"}
  BY <1>1 DEF ListingStages, RootTypes
<1> QED
  BY <1>2 DEF Listing, Listless

\* Without queue and item nothing is to come but with its root.
LEMMA NothingToCome ==
  ASSUME NEW w \in Worlds, NEW p \in w.items, NEW t, queue = {}, item = NoItem
  PROVE  PartsToCome(t, p) <=> RootOpen(p) \/ (t = "distribution" /\ p \in reported /\ pc \in AclStages)
<1>1. p # NoItem
  BY ItemFacts
<1> QED
  BY <1>1 DEF PartsToCome

LEMMA NothingToComeNext ==
  ASSUME NEW w \in Worlds, NEW p \in w.items, NEW t, queue' = {}, item' = NoItem
  PROVE  PartsToCome(t, p)' <=> RootOpen(p)' \/ (t = "distribution" /\ p \in reported' /\ pc' \in AclStages)
<1>1. p # NoItem
  BY ItemFacts
<1> QED
  BY <1>1 DEF PartsToCome

LEMMA QueueEnds == ASSUME IInv, QueueDone, Pass # "cloudfront" PROVE Step
<1>0. Stays /\ PlaceInv' /\ pc = "convert" /\ world \in Worlds /\ item = NoItem /\ built = {} /\ pending = {}
      /\ queue = {} /\ pc' = (IF more THEN FirstListing(Pass) ELSE "region")
  BY CommonStays, StaysKeepsPlace, TakeFacts DEF IInv, QueueDone
<1>1. UNCHANGED <<where, more, undelivered, queue, item, built, pending, reported, errors>> /\ world' = world
  BY DEF QueueDone, paging, building, where
<1>2. more => pc' \in {"balancer", "zone", "function"}
  <2>1. more => Pass \in {"v1", "v2", "route53", "lambda"}
    BY DEF IInv, PlaceInv
  <2> QED
    BY <1>0, <2>1 DEF FirstListing, RolePasses
<1>3. pc' \notin Building \cup AclStages \cup DistributionStages /\ pc' \in {"balancer", "zone", "function", "region"}
  BY <1>0, <1>2 DEF Building, AclStages, DistributionStages
<1>4. ASSUME NEW p \in world.items, p.of = NoId PROVE RootOpen(p)' <=> RootOpen(p)
  <2>1. Listing(p) <=> more
    BY <1>0, <1>4, NoListingNow DEF Listless
  <2>2. Listing(p)' <=> more
    <3>1. CASE more
      BY <1>1, <3>1 DEF Listing
    <3>2. CASE ~more
      BY <1>0, <1>1, <1>4, <3>2, NoListingNow DEF Listless
    <3> QED
      BY <3>1, <3>2
  <2> QED
    BY <1>1, <2>1, <2>2, PlaceStays DEF RootOpen
<1>5. \A p \in reported : ~IsGlobalACL(p)
  BY <1>0 DEF IInv, GlobalInv
<1>6. \A y, p \in world.items : PartOfRoot(y, p) => (PartsToCome(y.type, p)' <=> PartsToCome(y.type, p))
  <2> SUFFICES ASSUME NEW y \in world.items, NEW p \in world.items, PartOfRoot(y, p)
               PROVE  PartsToCome(y.type, p)' <=> PartsToCome(y.type, p)
    OBVIOUS
  <2>1. p.of = NoId /\ ~(y.type = "distribution" /\ p \in reported)
    BY <1>5, GlobalParts DEF PartOfRoot
  <2> QED
    BY <1>0, <1>1, <1>4, <2>1, NothingToCome, NothingToComeNext
<1>7. \A x : x \in Held => x \in Held'
  BY <1>1 DEF Held
<1>8. QuietStep
  BY <1>1, <1>4, <1>6, <1>7 DEF QuietStep
<1>9. Orderly /\ LossInv'
  BY <1>8, QuietStepOrderly
<1>10. ItemsInv'
  BY <1>0, <1>1, <1>3 DEF IInv, ItemsInv, PartItems
<1>11. GlobalInv'
  BY <1>0, <1>1, <1>3, <1>5 DEF GlobalInv
<1>12. TypeInv'
  BY <1>0, <1>1 DEF TypeInv, Stays
<1> QED
  BY <1>0, <1>9, <1>10, <1>11, <1>12 DEF IInv, Step

LEMMA ACLQueueEnds == ASSUME IInv, QueueDone, Pass = "cloudfront" PROVE Step
<1>0. Stays /\ PlaceInv' /\ pc = "convert" /\ world \in Worlds /\ item = NoItem /\ built = {} /\ pending = {}
      /\ queue = {} /\ pc' = "distributions"
  BY CommonStays, StaysKeepsPlace, TakeFacts DEF IInv, QueueDone
<1>1. /\ UNCHANGED <<where, more, undelivered, item, built, pending, reported, errors>> /\ world' = world
      /\ queue' = {x \in reported : IsGlobalACL(x)}
  BY <1>0 DEF QueueDone, paging, building, where, IsGlobalACL
<1>2. \A p \in world.items : p.of = NoId => (RootOpen(p)' <=> RootOpen(p))
  BY <1>0, <1>1, RootsStay DEF Handling, Building, DistributionStages
<1>3. ASSUME NEW y \in world.items, NEW p \in world.items, PartOfRoot(y, p)
      PROVE  PartsToCome(y.type, p)' <=> PartsToCome(y.type, p)
  <2>1. p.of = NoId /\ p # NoItem /\ (y.type = "distribution" => IsGlobalACL(p))
    BY <1>0, <1>3, GlobalParts, ItemFacts DEF PartOfRoot
  <2>2. /\ PartsToCome(y.type, p) <=> RootOpen(p) \/ (y.type = "distribution" /\ p \in reported)
        /\ PartsToCome(y.type, p)' <=> RootOpen(p) \/ (p \in queue' /\ y.type = "distribution")
    BY <1>0, <1>1, <1>2, <2>1 DEF PartsToCome, DistributionStages, AclStages
  <2> QED
    BY <1>1, <2>1, <2>2
<1>4. \A x : x \in Held => x \in Held'
  BY <1>0, <1>1 DEF Held
<1>5. QuietStep
  BY <1>1, <1>2, <1>3, <1>4 DEF QuietStep
<1>6. Orderly /\ LossInv'
  BY <1>5, QuietStepOrderly
<1>7. (\A q : Here(q)' <=> Here(q)) /\ Pass' = Pass /\ Region' = Region /\ place' = place
  BY <1>1, PlaceStays DEF where
<1>8. ASSUME NEW x \in queue' PROVE x \in world.items /\ x \notin undelivered /\ x.of = NoId /\ Here(x) /\ x # NoItem
  <2>1. x \in reported /\ IsGlobalACL(x)
    BY <1>1
  <2>2. x \in world.items /\ x.region = Region /\ x \notin undelivered
    BY <1>0, <2>1 DEF IInv, ItemsInv, GlobalInv
  <2>3. x.of = NoId
    BY <1>0, <2>1, <2>2, PartItemsAre DEF PartItems
  <2>4. Pass \in ListedBy(x)
    BY <2>1 DEF ListedBy, PassOf, IsGlobalACL
  <2> QED
    BY <1>0, <2>2, <2>3, <2>4, HereFacts, ItemFacts DEF IInv
<1>9. ItemsInv'
  BY <1>0, <1>1, <1>7, <1>8 DEF IInv, ItemsInv, PartItems, Building
<1>10. GlobalInv'
  BY <1>0, <1>1, <1>7 DEF IInv, GlobalInv
<1>11. TypeInv'
  BY <1>0, <1>1 DEF TypeInv, Stays
<1> QED
  BY <1>0, <1>6, <1>9, <1>10, <1>11 DEF IInv, Step

LEMMA AllDistributionsDone == ASSUME IInv, DistributionsDone PROVE Step
<1>0. Stays /\ PlaceInv' /\ pc = "distributions" /\ pc' = "region" /\ world \in Worlds /\ item = NoItem /\ queue = {}
      /\ built = {} /\ pending = {}
  <2>1. Stays /\ pc = "distributions" /\ pc' = "region" /\ queue = {}
    BY WafStays DEF IInv, WafNext, DistributionsDone
  <2>2. item = NoItem /\ built = {} /\ pending = {}
    BY <2>1 DEF IInv, ItemsInv, TypeInv, Building
  <2> QED
    BY <2>1, <2>2, StaysKeepsPlace DEF IInv, PlaceInv
<1>1. UNCHANGED <<where, more, undelivered, queue, item, built, pending, reported, errors>> /\ world' = world
  BY DEF DistributionsDone, paging, building, where
<1>2. \A p \in world.items : p.of = NoId => (RootOpen(p)' <=> RootOpen(p))
  BY <1>0, <1>1, NoListingNow, PlaceStays DEF RootOpen, Listless
<1>3. \A y, p \in world.items : PartOfRoot(y, p) => (PartsToCome(y.type, p)' <=> PartsToCome(y.type, p))
  BY <1>0, <1>1, <1>2, NothingToCome, NothingToComeNext DEF PartOfRoot, AclStages
<1>4. \A x : x \in Held => x \in Held'
  BY <1>1 DEF Held
<1>5. QuietStep
  BY <1>1, <1>2, <1>3, <1>4 DEF QuietStep
<1>6. Orderly /\ LossInv'
  BY <1>5, QuietStepOrderly
<1>7. Pass' = Pass /\ Region' = Region /\ place' = place
  BY <1>1, PlaceStays DEF where
<1>8. ItemsInv'
  BY <1>0, <1>1 DEF IInv, ItemsInv, PartItems, Building
<1>9. GlobalInv'
  BY <1>0, <1>1, <1>7 DEF IInv, GlobalInv, DistributionStages
<1>10. TypeInv'
  BY <1>0, <1>1 DEF TypeInv, Stays
<1> QED
  BY <1>0, <1>6, <1>8, <1>9, <1>10 DEF IInv, Step

LEMMA NoneBetweenRegions ==
  ASSUME IInv, pc = "region"
  PROVE  /\ world \in Worlds /\ queue = {} /\ item = NoItem /\ built = {} /\ pending = {} /\ ~more /\ marker = NoId
         /\ turn \in DOMAIN world.passes /\ Pass \in PassNames /\ place \in 0 .. Len(RegionsOf(world, Pass))
         /\ Len(RegionsOf(world, Pass)) \in Nat
         /\ \A t \in DOMAIN world.passes : t \in Nat
         /\ \A p \in world.items : p.of = NoId => (RootOpen(p) <=> p \in undelivered /\ Later(p))
<1>1. world \in Worlds /\ PlaceInv /\ turn \in DOMAIN world.passes /\ Pass \in PassNames /\ place \in Nat
      /\ Len(RegionsOf(world, Pass)) \in Nat /\ place \in 0 .. Len(RegionsOf(world, Pass))
  BY PassIsNamed DEF IInv, PlaceInv
<1>2. \A t \in DOMAIN world.passes : t \in Nat
  BY <1>1, PassFacts DEF WellPassed
<1>3. queue = {} /\ item = NoItem /\ built = {} /\ pending = {} /\ ~more /\ marker = NoId
  BY DEF IInv, PlaceInv, ItemsInv, TypeInv, Building
<1>4. \A p \in world.items : p.of = NoId => (RootOpen(p) <=> p \in undelivered /\ Later(p))
  BY <1>1, <1>3, NoListingNow DEF RootOpen, Listless
<1> QED
  BY <1>1, <1>2, <1>3, <1>4

\* The places that come after a place are the next one and those that come after it.
LEMMA LaterFrom ==
  ASSUME IInv, pc = "region", NEW x
  PROVE  /\ NextRegion => (Later(x) <=> Later(x)' \/ Here(x)')
         /\ NextPass => (Later(x) <=> Later(x)')
<1> SUFFICES ASSUME NextRegion \/ NextPass
             PROVE  /\ NextRegion => (Later(x) <=> Later(x)' \/ Here(x)')
                    /\ NextPass => (Later(x) <=> Later(x)')
  OBVIOUS
<1>0. world' = world
  BY DEF NextRegion, NextPass
<1>1. turn \in Nat /\ place \in Nat /\ world' = world
  BY <1>0, NoneBetweenRegions
<1> DEFINE After(s, j) == \E t \in DOMAIN world.passes : \E i \in DOMAIN RegionsOf(world, world.passes[t]) :
                            Fits(x, t, i) /\ (t > s \/ (t = s /\ i > j))
<1>2. world.passes[turn] = Pass /\ \A t \in DOMAIN world.passes : t \in Nat /\ world.passes[t] \in PassNames
  BY NoneBetweenRegions, PassFacts DEF Pass, WellPassed
<1>3. \A t \in DOMAIN world.passes : \A i \in DOMAIN RegionsOf(world, world.passes[t]) :
        i \in Nat /\ i >= 1 /\ i <= Len(RegionsOf(world, world.passes[t])) /\ Len(RegionsOf(world, world.passes[t])) \in Nat
  BY <1>2, NoneBetweenRegions, RegionFacts DEF Distinct
<1>4. \A t, i : Fits(x, t, i)' <=> Fits(x, t, i)
  BY <1>1 DEF Fits
<1>5. Later(x) <=> After(turn, place)
  BY DEF Later
<1>6. Later(x)' <=> After(turn', place')
  BY <1>1, <1>4 DEF Later
<1>7. Here(x)' <=> Fits(x, turn', place')
  BY <1>4 DEF Here
<1>8. CASE NextRegion
  <2>1. turn' = turn /\ place' = place + 1
    BY <1>8 DEF NextRegion
  <2>2. ASSUME Fits(x, turn, place + 1) PROVE After(turn, place)
    <3>1. turn \in DOMAIN world.passes /\ place + 1 \in DOMAIN RegionsOf(world, world.passes[turn]) /\ place + 1 > place
      BY <1>1, <2>2 DEF Fits
    <3> QED
      BY <2>2, <3>1
  <2>3. After(turn, place) <=> After(turn, place + 1) \/ Fits(x, turn, place + 1)
    <3>1. \A t \in DOMAIN world.passes : \A i \in DOMAIN RegionsOf(world, world.passes[t]) :
            (t > turn \/ (t = turn /\ i > place)) <=>
              (t > turn \/ (t = turn /\ i > place + 1) \/ (t = turn /\ i = place + 1))
      BY <1>1, <1>2, <1>3
    <3> QED
      BY <2>2, <3>1
  <2>4. ~NextPass
    BY <1>8, <1>1 DEF NextRegion, NextPass
  <2> HIDE DEF After
  <2> QED
    BY <1>5, <1>6, <1>7, <2>1, <2>3, <2>4
<1>9. CASE NextPass
  <2>1. turn' = turn + 1 /\ place' = 0 /\ place = Len(RegionsOf(world, Pass))
    BY <1>9 DEF NextPass
  <2>2. \A t \in DOMAIN world.passes : \A i \in DOMAIN RegionsOf(world, world.passes[t]) :
          (t > turn \/ (t = turn /\ i > place)) <=> (t > turn + 1 \/ (t = turn + 1 /\ i > 0))
    BY <1>1, <1>2, <1>3, <2>1
  <2>3. After(turn, place) <=> After(turn + 1, 0)
    BY <2>2
  <2>4. ~NextRegion
    BY <1>9, <1>1 DEF NextRegion, NextPass
  <2> HIDE DEF After
  <2> QED
    BY <1>5, <1>6, <2>1, <2>3, <2>4
<1> QED
  BY <1>8, <1>9

LEMMA RegionEntered == ASSUME IInv, NextRegion PROVE Step
<1>0. /\ pc = "region" /\ turn' = turn /\ place' = place + 1 /\ pc' = FirstListing(Pass)
      /\ place < Len(RegionsOf(world, Pass)) /\ world' = world
      /\ UNCHANGED <<more, marker, calls, undelivered, queue, item, built, pending, reported, errors>>
  BY DEF NextRegion, paging, building
<1>1. /\ world \in Worlds /\ queue = {} /\ item = NoItem /\ built = {} /\ pending = {} /\ ~more /\ marker = NoId
      /\ turn \in DOMAIN world.passes /\ Pass \in PassNames /\ place \in 0 .. Len(RegionsOf(world, Pass))
      /\ Len(RegionsOf(world, Pass)) \in Nat
      /\ \A p \in world.items : p.of = NoId => (RootOpen(p) <=> p \in undelivered /\ Later(p))
  BY <1>0, NoneBetweenRegions
<1>2. Pass' = Pass
  BY <1>0 DEF Pass
<1>3. /\ pc' \in {"vpc", "group", "balancer", "web acl", "cluster", "zone", "role", "cdn", "bucket", "function"}
      /\ pc' \in MayBe(Pass)
  BY <1>0, <1>1, StagesOfPasses DEF FirstListing, PassNames, RolePasses
<1>4. pc' \notin Building \cup AclStages \cup DistributionStages \cup {"region", "done"}
  BY <1>3 DEF Building, AclStages, DistributionStages
<1>5. PlaceInv'
  <2>1. pc' \notin {"region", "done"} /\ ~more'
    BY <1>0, <1>1, <1>4
  <2>2. turn \in 1 .. Len(world.passes)
    BY <1>0 DEF IInv, PlaceInv
  <2>3. place + 1 \in 0 .. Len(RegionsOf(world, Pass)) /\ place + 1 >= 1
    BY <1>0, <1>1
  <2>4. place' \in 0 .. Len(RegionsOf(world', Pass')) /\ place' >= 1 /\ pc' \in MayBe(Pass')
    BY <1>0, <1>2, <1>3, <2>3
  <2>5. world' \in Worlds /\ turn' \in 1 .. Len(world'.passes)
    BY <1>0, <1>1, <2>2
  <2> QED
    BY <2>1, <2>4, <2>5 DEF PlaceInv
<1>6. ASSUME NEW p \in world.items, p.of = NoId PROVE RootOpen(p)' <=> RootOpen(p)
  <2>1. Later(p) <=> Later(p)' \/ Here(p)'
    BY <1>0, LaterFrom
  <2>2. Here(p)' => Listing(p)'
    <3>1. Here(p)' => Pass \in ListedBy(p)
      BY <1>0, <1>2 DEF Here, Fits, Pass
    <3>2. Pass \in ListedBy(p) => p.type \in TypesOf(Pass)
      BY <1>1, <1>6, ListedTypes
    <3>3. p.type \in TypesOf(Pass) => pc' \in ListingStages(p.type)
      <4>1. CASE Pass = "vpc"
        BY <1>0, <4>1 DEF TypesOf, ListingStages, FirstListing, RolePasses
      <4>2. CASE Pass = "securitygroup"
        BY <1>0, <4>2 DEF TypesOf, ListingStages, FirstListing, RolePasses
      <4>3. CASE Pass \notin {"vpc", "securitygroup"}
        <5>1. p.type \in TypesOf(Pass) => p.type = pc'
          BY <1>0, <4>3 DEF TypesOf
        <5>2. pc' \notin {"subnet", "db group"}
          BY <1>3
        <5> QED
          BY <5>1, <5>2 DEF ListingStages
      <4> QED
        BY <4>1, <4>2, <4>3
    <3> QED
      BY <3>1, <3>2, <3>3 DEF Listing
  <2>3. RootOpen(p)' <=> p \in undelivered /\ (Later(p)' \/ Here(p)')
    BY <1>0, <2>2 DEF RootOpen
  <2> QED
    BY <1>1, <1>6, <2>1, <2>3
<1>7. \A p \in reported : ~IsGlobalACL(p)
  <2>1. Pass = "cloudfront" => Len(RegionsOf(world, Pass)) <= 1
    BY <1>1, RegionFacts
  <2> QED
    BY <1>0, <1>1, <2>1 DEF IInv, GlobalInv
<1>8. \A y, p \in world.items : PartOfRoot(y, p) => (PartsToCome(y.type, p)' <=> PartsToCome(y.type, p))
  <2> SUFFICES ASSUME NEW y \in world.items, NEW p \in world.items, PartOfRoot(y, p)
               PROVE  PartsToCome(y.type, p)' <=> PartsToCome(y.type, p)
    OBVIOUS
  <2>1. p.of = NoId /\ ~(y.type = "distribution" /\ p \in reported)
    BY <1>7, GlobalParts DEF PartOfRoot
  <2> QED
    BY <1>0, <1>1, <1>6, <2>1, NothingToCome, NothingToComeNext
<1>9. \A x : x \in Held => x \in Held'
  BY <1>0 DEF Held
<1>10. QuietStep
  BY <1>0, <1>6, <1>8, <1>9 DEF QuietStep
<1>11. Orderly /\ LossInv'
  BY <1>10, QuietStepOrderly
<1>12. ItemsInv'
  BY <1>0, <1>1, <1>4 DEF IInv, ItemsInv, PartItems
<1>13. GlobalInv'
  BY <1>0, <1>4, <1>7 DEF GlobalInv
<1>14. TypeInv'
  BY <1>0, <1>1 DEF IInv, TypeInv
<1> QED
  BY <1>5, <1>11, <1>12, <1>13, <1>14 DEF IInv, Step

LEMMA PassEntered == ASSUME IInv, NextPass PROVE Step
<1>0. /\ pc = "region" /\ turn' = turn + 1 /\ place' = 0 /\ world' = world
      /\ pc' = (IF turn + 1 > Len(world.passes) THEN "done" ELSE "region")
      /\ UNCHANGED <<more, marker, calls, undelivered, queue, item, built, pending, reported, errors>>
  BY DEF NextPass, paging, building
<1>1. /\ world \in Worlds /\ queue = {} /\ item = NoItem /\ built = {} /\ pending = {} /\ ~more /\ marker = NoId
      /\ turn \in DOMAIN world.passes /\ Pass \in PassNames /\ turn \in Nat
      /\ \A p \in world.items : p.of = NoId => (RootOpen(p) <=> p \in undelivered /\ Later(p))
  BY <1>0, NoneBetweenRegions
<1>2. Len(world.passes) \in Nat /\ turn \in 1 .. Len(world.passes)
  BY <1>1, PassFacts DEF WellPassed
<1>3. pc' \in {"region", "done"}
  BY <1>0
<1>4. pc' \notin Building \cup AclStages \cup DistributionStages
  BY <1>3 DEF Building, AclStages, DistributionStages
<1>5. PlaceInv'
  <2>1. CASE pc' = "done"
    BY <1>0, <1>1, <1>2, <2>1 DEF PlaceInv
  <2>2. CASE pc' = "region"
    <3>1. turn + 1 \in 1 .. Len(world.passes)
      BY <1>0, <1>2, <2>2
    <3>2. Pass' \in PassNames
      BY <1>0, <1>1, <3>1, PassFacts DEF Pass, WellPassed
    <3>3. Len(RegionsOf(world, Pass')) \in Nat
      BY <1>1, <3>2, RegionFacts DEF Distinct
    <3>4. 0 \in 0 .. Len(RegionsOf(world, Pass'))
      BY <3>3
    <3> QED
      BY <1>0, <1>1, <2>2, <3>1, <3>4 DEF PlaceInv
  <2> QED
    BY <1>3, <2>1, <2>2
<1>6. ASSUME NEW p \in world.items, p.of = NoId PROVE RootOpen(p)' <=> RootOpen(p)
  <2>1. Later(p) <=> Later(p)'
    BY <1>0, LaterFrom
  <2>2. ~Listing(p)'
    BY <1>0, <1>1, <1>3, <1>6, NoListingNow DEF Listless
  <2> QED
    BY <1>0, <1>1, <1>6, <2>1, <2>2 DEF RootOpen
<1>7. \A p \in reported : IsGlobalACL(p) => pc' = "done"
  <2>1. Pass = "cloudfront" => turn = Len(world.passes)
    BY <1>1, PassFacts DEF WellPassed, Pass
  <2> QED
    BY <1>0, <1>2, <2>1 DEF IInv, GlobalInv
<1>8. \A y, p \in world.items : PartOfRoot(y, p) => (PartsToCome(y.type, p)' <=> PartsToCome(y.type, p))
  BY <1>0, <1>1, <1>4, <1>6, NothingToCome, NothingToComeNext DEF PartOfRoot, AclStages
<1>9. \A x : x \in Held => x \in Held'
  BY <1>0 DEF Held
<1>10. QuietStep
  BY <1>0, <1>6, <1>8, <1>9 DEF QuietStep
<1>11. Orderly /\ LossInv'
  BY <1>10, QuietStepOrderly
<1>12. ItemsInv'
  BY <1>0, <1>1, <1>4 DEF IInv, ItemsInv, PartItems
<1>13. GlobalInv'
  BY <1>0, <1>4, <1>7 DEF GlobalInv
<1>14. TypeInv'
  BY <1>0, <1>1 DEF IInv, TypeInv
<1> QED
  BY <1>5, <1>11, <1>12, <1>13, <1>14 DEF IInv, Step

(***************************************************************************)
(* VPCs and subnets, which are converted as they are listed.               *)
(***************************************************************************)
VpcStep(t, batch, new) ==
  /\ Stays /\ pc = t /\ t \in {"vpc", "subnet"} /\ pc' \in {t, IF t = "vpc" THEN "subnet" ELSE "region"}
  /\ batch \subseteq Awaited(t) /\ undelivered' = undelivered \ batch
  /\ UNCHANGED <<more, queue, built, item, pending>>
  /\ reported \subseteq reported' /\ reported' \subseteq world.items
  /\ \A p \in reported' : p \in reported \/ ~IsGlobalACL(p)
  /\ errors' = errors \cup new
  /\ pc' # t => batch = Awaited(t) \/ ListError(t, Region) \in new
  /\ \A x \in batch :
       \/ <<"rejected", x.name, NoId>> \in new
       \/ /\ x \in reported'
          /\ \A y \in world.items : PartOfRoot(y, x) => y \in reported' \/ <<"rejected", y.name, NoId>> \in new
  /\ \A x \in world.items : ListOf(x) \in new => ListOf(x) = ListError(t, Region) /\ pc' # t

LEMMA VpcStepFacts ==
  ASSUME IInv, NEW t, NEW batch, NEW new, VpcStep(t, batch, new)
  PROVE  /\ world \in Worlds /\ world' = world /\ UNCHANGED where /\ undelivered \subseteq world.items
         /\ Pass = "vpc" /\ ~more /\ ~more' /\ queue = {} /\ queue' = {} /\ item = NoItem /\ item' = NoItem
         /\ built = {} /\ built' = {} /\ pending = {} /\ pending' = {} /\ pc # "done"
         /\ pc \notin {"region", "done"}
         /\ pc \notin Building \cup AclStages \cup DistributionStages
         /\ pc' \notin Building \cup AclStages \cup DistributionStages \cup {"done"}
         /\ \A p \in reported : ~IsGlobalACL(p)
<1>1. pc \in {"vpc", "subnet"} /\ pc' \in {"vpc", "subnet", "region"} /\ world' = world /\ UNCHANGED where
  BY DEF VpcStep, Stays, where
<1>2. Pass = "vpc"
  BY <1>1, StageFacts DEF IInv
<1>3. pc \notin Building \cup AclStages \cup DistributionStages
      /\ pc' \notin Building \cup AclStages \cup DistributionStages \cup {"done"}
  BY <1>1 DEF Building, AclStages, DistributionStages
<1>4. queue = {} /\ item = NoItem /\ built = {} /\ undelivered \subseteq world.items
  BY <1>1, <1>3 DEF IInv, ItemsInv
<1>5. world \in Worlds /\ ~more
  BY <1>2 DEF IInv, PlaceInv
<1>6. pending = {}
  BY <1>1 DEF IInv, TypeInv
<1>7. \A p \in reported : ~IsGlobalACL(p)
  BY <1>1, <1>2 DEF IInv, GlobalInv
<1> QED
  BY <1>1, <1>2, <1>3, <1>4, <1>5, <1>6, <1>7 DEF VpcStep

LEMMA VpcStepRoots ==
  ASSUME IInv, NEW t, NEW batch, NEW new, VpcStep(t, batch, new), NEW p \in world.items, p.of = NoId
  PROVE  /\ RootOpen(p)' => RootOpen(p)
         /\ RootOpen(p) /\ ~RootOpen(p)' => p \in batch \/ (p \in undelivered' /\ ListOf(p) \in errors')
<1>1. /\ (Here(p)' <=> Here(p)) /\ (Later(p)' <=> Later(p))
  BY VpcStepFacts, PlaceStays
<1>2. Here(p) => p.type \in {"vpc", "subnet"} /\ p.region = Region
  <2>1. PlaceInv /\ Pass = "vpc" /\ "vpc" \in PassNames /\ pc \notin {"region", "done"} /\ world \in Worlds
    BY VpcStepFacts DEF IInv, PassNames
  <2>2. Here(p) => Pass \in ListedBy(p) /\ p.region = Region
    BY <2>1, HereFacts
  <2>3. Pass \in ListedBy(p) => p.type \in TypesOf(Pass)
    BY <2>1, ListedTypes
  <2> QED
    BY <2>1, <2>2, <2>3 DEF TypesOf
<1>3. /\ Listing(p) <=> pc \in ListingStages(p.type)
      /\ Listing(p)' <=> pc' \in ListingStages(p.type)
  BY VpcStepFacts DEF Listing
<1>4. /\ p.type = "vpc" => ListingStages(p.type) = {"vpc"}
      /\ p.type = "subnet" => ListingStages(p.type) = {"vpc", "subnet"}
  BY DEF ListingStages
<1>5. ASSUME Here(p) PROVE /\ Listing(p)' => Listing(p)
                           /\ Listing(p) /\ ~Listing(p)' => p.type = t /\ pc' # t
  BY <1>2, <1>3, <1>4, <1>5 DEF VpcStep
<1>6. RootOpen(p)' => RootOpen(p)
  BY <1>1, <1>5 DEF RootOpen, VpcStep
<1>7. ASSUME RootOpen(p), ~RootOpen(p)', p \notin batch PROVE p \in undelivered' /\ ListOf(p) \in errors'
  <2>1. p \in undelivered /\ p \in undelivered'
    BY <1>7 DEF RootOpen, VpcStep
  <2>2. Here(p) /\ Listing(p) /\ ~Listing(p)'
    BY <1>1, <1>7, <2>1 DEF RootOpen
  <2>3. p.type = t /\ pc' # t /\ p \in Awaited(t)
    BY <1>2, <1>5, <2>1, <2>2 DEF Awaited
  <2>4. ListError(t, Region) \in new
    BY <1>7, <2>3 DEF VpcStep
  <2>5. ListOf(p) = ListError(t, Region)
    BY <1>2, <2>2, <2>3 DEF ListOf
  <2> QED
    BY <2>1, <2>4, <2>5 DEF VpcStep
<1> QED
  BY <1>6, <1>7

LEMMA VpcStepOrderly ==
  ASSUME IInv, NEW t, NEW batch, NEW new, VpcStep(t, batch, new)
  PROVE  Orderly
<1>0. /\ world \in Worlds /\ world' = world /\ undelivered \subseteq world.items
      /\ queue = {} /\ queue' = {} /\ item = NoItem /\ item' = NoItem /\ built = {}
      /\ pc \notin AclStages /\ pc' \notin AclStages /\ PlaceInv /\ pc \notin {"region", "done"}
  BY VpcStepFacts DEF IInv
<1>1. /\ errors \subseteq errors' /\ new \subseteq errors' /\ undelivered' = undelivered \ batch
      /\ reported \subseteq reported'
      /\ \A x \in batch : x \in undelivered /\ x.of = NoId /\ x.type = t /\ x.region = Region
  BY DEF VpcStep, Awaited
<1>2. ASSUME NEW x \in batch PROVE RootOpen(x)
  <2>1. x.type \in {"vpc", "subnet"} /\ pc = x.type
    BY <1>1 DEF VpcStep
  <2>2. Here(x)
    <3>1. Pass \in ListedBy(x)
      BY <2>1, VpcStepFacts DEF ListedBy, PassOf
    <3> QED
      BY <1>0, <1>1, <3>1, HereFacts
  <2>3. Listing(x)
    BY <2>1 DEF Listing, ListingStages
  <2> QED
    BY <1>1, <2>2, <2>3 DEF RootOpen
<1>3. \A x \in undelivered \ undelivered' : x \in batch /\ x.of = NoId /\ Open(x)
  BY <1>1, <1>2, OpenRoot
<1>4. \A p \in world.items : p.of = NoId =>
        /\ RootOpen(p)' => RootOpen(p)
        /\ RootOpen(p) /\ ~RootOpen(p)' => p \in batch \/ (p \in undelivered' /\ ListOf(p) \in errors')
  BY VpcStepRoots
<1>5. ASSUME NEW y, NEW p \in world.items
      PROVE  (PartsToCome(y.type, p) <=> RootOpen(p)) /\ (PartsToCome(y.type, p)' <=> RootOpen(p)')
  BY <1>0, NothingToCome, NothingToComeNext
<1>6. ASSUME NEW x \in world.items, Open(x)', ListOf(x) \in errors' PROVE ListOf(x) \in errors
  <2> SUFFICES ASSUME ListOf(x) \in new PROVE FALSE
    BY <1>6 DEF VpcStep
  <2>1. ListOf(x) = ListError(t, Region) /\ pc' # t /\ t \in {"vpc", "subnet"}
    BY DEF VpcStep
  <2>2. x.of = NoId /\ RootName(x) = t /\ x.region = Region
    <3>1. t \in RootNames
      BY <2>1 DEF RootNames
    <3> QED
      BY <1>0, <2>1, <3>1, ListsOfRoots
  <2>3. x.type = t
    BY <2>1, <2>2 DEF RootName, PassOf
  <2>4. Here(x)
    <3>1. Pass \in ListedBy(x)
      BY <2>1, <2>3, VpcStepFacts DEF ListedBy, PassOf
    <3> QED
      BY <1>0, <2>2, <3>1, HereFacts
  <2>5. ~Later(x)'
    BY <1>0, <2>4, HereNotLater, VpcStepFacts, PlaceStays
  <2>6. ~Listing(x)'
    BY <2>1, <2>3, VpcStepFacts DEF Listing, ListingStages, VpcStep
  <2> QED
    BY <1>6, <2>2, <2>5, <2>6, OpenRoot DEF RootOpen
<1>7. \A x \in Wanted : x \in Held => Accounted(x)'
  BY <1>0, <1>1, WantedFacts, ItemFacts DEF Held, Accounted
<1>8. ASSUME NEW p \in world.items, p \in undelivered', ListOf(p) \in errors', NEW x, p \in LineOf[x]
      PROVE  Accounted(x)'
  BY <1>8 DEF Accounted, Excused
<1>9. ASSUME NEW p \in batch
      PROVE  \/ <<"rejected", p.name, NoId>> \in errors'
             \/ /\ p \in Held'
                /\ \A y \in world.items : PartOfRoot(y, p) => y \in Held' \/ <<"rejected", y.name, NoId>> \in errors'
  BY <1>1 DEF VpcStep, Held
<1>10. ASSUME NEW p \in Wanted, p.of = NoId, RootOpen(p), ~RootOpen(p)' PROVE Accounted(p)'
  <2>1. p \in world.items /\ p \in LineOf[p]
    BY <1>0, WantedFacts, LineInWorld
  <2> QED
    BY <1>4, <1>8, <1>9, <1>10, <2>1 DEF Accounted, Excused
<1>11. ASSUME NEW y \in Wanted, NEW p \in world.items, PartOfRoot(y, p), Open(y), ~Open(y)' PROVE Accounted(y)'
  <2>1. y \in world.items /\ p.of = NoId /\ y.of # NoId
    BY <1>0, <1>11, WantedFacts DEF PartOfRoot
  <2>2. y \in LineOf[y] /\ p \in LineOf[y]
    BY <1>0, <1>11, <2>1, PartLine
  <2>3. y \in undelivered /\ y \in undelivered'
    BY <1>0, <1>3, <1>11, <2>1, OpenPart
  <2>4. RootOpen(p) /\ ~RootOpen(p)'
    BY <1>0, <1>5, <1>11, <2>1, <2>3, OpenPart
  <2> QED
    BY <1>4, <1>8, <1>9, <1>11, <2>1, <2>2, <2>4 DEF Accounted, Excused
<1>12. ASSUME NEW z \in Wanted, NEW y \in world.items, NEW p \in world.items,
              PartOfPart(z, y), PartOfRoot(y, p), z \in undelivered, Open(y), ~Open(y)'
       PROVE  Accounted(z)'
  <2>1. z \in world.items /\ p.of = NoId /\ y.of # NoId
    BY <1>0, <1>12, WantedFacts DEF PartOfRoot
  <2>2. p \in LineOf[z]
    BY <1>0, <1>12, <2>1, DeepLine
  <2>3. y \in undelivered /\ y \in undelivered'
    BY <1>0, <1>3, <1>12, <2>1, OpenPart
  <2>4. RootOpen(p) /\ ~RootOpen(p)'
    BY <1>0, <1>5, <1>12, <2>1, <2>3, OpenPart
  <2>5. p \notin batch
    BY <1>1, <1>12 DEF PartOfRoot, PartOfPart, IsPartOf, Objects, VpcStep
  <2> QED
    BY <1>4, <1>8, <2>1, <2>2, <2>4, <2>5
<1>13. /\ \A p \in world.items : p.of = NoId /\ RootOpen(p)' => RootOpen(p)
       /\ \A y, p \in world.items : PartOfRoot(y, p) /\ PartsToCome(y.type, p)' => PartsToCome(y.type, p)
       /\ \A o, p \in world.items :
            PartOfRoot(o, p) /\ o.type = "origin" /\ o \in undelivered \ undelivered' => ~PartsToCome(o.type, p)'
       /\ \A z, y \in world.items : PartOfPart(z, y) /\ z \in undelivered \ undelivered' => ~Open(y)'
  BY <1>3, <1>4, <1>5 DEF PartOfRoot, PartOfPart
<1> QED
  BY <1>0, <1>1, <1>3, <1>6, <1>7, <1>10, <1>11, <1>12, <1>13, OrderlyFrom

LEMMA VpcStepDone ==
  ASSUME IInv, \E t, batch, new : VpcStep(t, batch, new)
  PROVE  Step
<1> PICK t, batch, new : VpcStep(t, batch, new)
  OBVIOUS
<1>0. Orderly /\ PlaceInv' /\ Pass' = Pass
  BY VpcStepOrderly, StaysKeepsPlace, VpcStepFacts, PlaceStays DEF IInv, VpcStep
<1>1. LossInv'
  BY <1>0, VpcStepFacts, OrderlyKeepsLosses DEF IInv
<1>2. ItemsInv'
  <2>1. undelivered' \subseteq world.items /\ reported' \subseteq world.items
    BY VpcStepFacts DEF VpcStep
  <2> QED
    BY <2>1, VpcStepFacts DEF ItemsInv
<1>3. GlobalInv'
  <2>1. \A p \in reported' : ~IsGlobalACL(p)
    BY VpcStepFacts DEF VpcStep
  <2> QED
    BY <2>1, VpcStepFacts DEF GlobalInv
<1>4. TypeInv'
  BY VpcStepFacts DEF TypeInv, VpcStep, Stays
<1> QED
  BY <1>0, <1>1, <1>2, <1>3, <1>4 DEF IInv, Step

LEMMA AssociationsAre ==
  ASSUME world \in Worlds, NEW kept, \A x \in kept : x \in world.items /\ x.type \in {"vpc", "subnet"}
  PROVE  /\ Associations(kept) \subseteq PartItems
         /\ \A x \in kept, y \in world.items : PartOfRoot(y, x) => y \in Associations(kept)
<1>1. Associations(kept) \subseteq PartItems
  BY PartsAre DEF Associations
<1>2. ASSUME NEW x \in kept, NEW y \in world.items, PartOfRoot(y, x) PROVE y \in Parts("association", x)
  <2>1. y.type = "association" /\ y.of = x.name
    BY <1>2 DEF PartOfRoot, IsPartOf, Objects
  <2> QED
    BY <2>1 DEF Parts
<1> QED
  BY <1>1, <1>2 DEF Associations, PartsOfAll

LEMMA VpcsKept ==
  ASSUME IInv, VpcNext, NEW t \in {"vpc", "subnet"}, pc = t, pc' \in {t, IF t = "vpc" THEN "subnet" ELSE "region"},
         NEW batch, NEW kept, NEW told, batch \subseteq Awaited(t), kept \subseteq batch,
         undelivered' = undelivered \ batch, UNCHANGED <<more, queue, built, item, pending>>,
         reported' = reported \cup kept \cup Whole(Associations(kept)), errors' = errors \cup Rejections(told),
         batch \ kept \subseteq told, Associations(kept) \ Whole(Associations(kept)) \subseteq told,
         pc' # t => batch = Awaited(t)
  PROVE  Step
<1>1. world \in Worlds /\ undelivered \subseteq world.items /\ reported \subseteq world.items /\ Stays
  BY VpcStays DEF IInv, PlaceInv, ItemsInv
<1>2. \A x \in batch : x \in world.items /\ x.type = t
  BY <1>1 DEF Awaited
<1>3. /\ Associations(kept) \subseteq PartItems
      /\ \A x \in kept, y \in world.items : PartOfRoot(y, x) => y \in Associations(kept)
  BY <1>1, <1>2, AssociationsAre
<1> DEFINE blocks == Associations(kept)
<1>4. Whole(blocks) \subseteq blocks
  BY DEF Whole
<1> HIDE DEF blocks
<1>5. reported' = reported \cup kept \cup Whole(blocks) /\ blocks \ Whole(blocks) \subseteq told
      /\ blocks \subseteq PartItems /\ \A x \in kept, y \in world.items : PartOfRoot(y, x) => y \in blocks
  BY <1>3 DEF blocks
<1>6. reported' \subseteq world.items
  BY <1>1, <1>2, <1>4, <1>5 DEF PartItems
<1>7. \A p \in reported' : p \in reported \/ ~IsGlobalACL(p)
  BY <1>1, <1>2, <1>4, <1>5, PartItemsAre DEF IsGlobalACL
<1>8. \A y \in told : <<"rejected", y.name, NoId>> \in Rejections(told)
  BY DEF Rejections
<1>9. \A x \in world.items : ListOf(x) \notin Rejections(told)
  BY DEF Rejections, ListOf, ListError
<1>10. VpcStep(t, batch, Rejections(told))
  BY <1>1, <1>5, <1>6, <1>7, <1>8, <1>9 DEF VpcStep
<1> QED
  BY <1>10, VpcStepDone

LEMMA VpcListFails ==
  ASSUME IInv, VpcNext, NEW t \in {"vpc", "subnet"}, pc = t, pc' = (IF t = "vpc" THEN "subnet" ELSE "region"),
         UNCHANGED <<undelivered, more, queue, built, item, pending, reported>>,
         errors' = errors \cup {ListError(t, Region)}
  PROVE  Step
<1>1. reported \subseteq world.items /\ Stays /\ pc' # t
  BY VpcStays DEF IInv, ItemsInv
<1> DEFINE none == {}
<1>2. none \subseteq Awaited(t) /\ undelivered' = undelivered \ none /\ \A x : x \notin none
  OBVIOUS
<1> HIDE DEF none
<1>3. VpcStep(t, none, {ListError(t, Region)})
  BY <1>1, <1>2 DEF VpcStep
<1> QED
  BY <1>3, VpcStepDone

LEMMA VpcsListed == ASSUME IInv, VpcNext PROVE Step
<1>1. CASE ListVpcs
  <2>1. PICK batch \in SUBSET Awaited("vpc"), last \in BOOLEAN :
          LET kept == {x \in batch : Identified(x)}
              found == (batch \ kept) \cup Associations(kept)
          IN /\ IsPage(batch, Awaited("vpc"), last)
             /\ undelivered' = undelivered \ batch
             /\ reported' = reported \cup kept \cup Whole(Associations(kept))
             /\ errors' = errors \cup Rejections(found \ Whole(Associations(kept)))
             /\ pc' = IF last THEN "subnet" ELSE "vpc"
    BY <1>1 DEF ListVpcs
  <2> DEFINE kept == {x \in batch : Identified(x)}
             blocks == Associations(kept)
             told == ((batch \ kept) \cup blocks) \ Whole(blocks)
  <2>2. /\ batch \subseteq Awaited("vpc") /\ kept \subseteq batch /\ undelivered' = undelivered \ batch
        /\ reported' = reported \cup kept \cup Whole(blocks) /\ errors' = errors \cup Rejections(told)
        /\ pc' \in {"vpc", "subnet"} /\ (pc' # "vpc" => batch = Awaited("vpc"))
    BY <2>1 DEF IsPage
  <2>3. world \in Worlds /\ undelivered \subseteq world.items
    BY DEF IInv, PlaceInv, ItemsInv
  <2>4. \A x \in batch : x \in world.items /\ x.type = "vpc" /\ x.of = NoId
    BY <2>2, <2>3 DEF Awaited
  <2>5. blocks \subseteq PartItems
    BY <2>2, <2>3, <2>4, AssociationsAre
  <2>6. Whole(blocks) \subseteq blocks
    BY DEF Whole
  <2>7. UNCHANGED <<more, queue, built, item, pending>> /\ pc = "vpc"
    BY <1>1 DEF ListVpcs, CallAgain, building
  <2> HIDE DEF blocks, kept
  <2>8. batch \ kept \subseteq told /\ blocks \ Whole(blocks) \subseteq told
    BY <2>4, <2>5, <2>6 DEF PartItems
  <2> HIDE DEF told
  <2>9. reported' = reported \cup kept \cup Whole(Associations(kept))
        /\ Associations(kept) \ Whole(Associations(kept)) \subseteq told
    BY <2>2, <2>8 DEF blocks
  <2> QED
    BY <2>2, <2>7, <2>8, <2>9, VpcsKept
<1>2. CASE VpcsFail
  BY <1>2, VpcListFails DEF VpcsFail, CallAgain, building
<1>3. CASE ListSubnets
  <2>1. PICK batch \in SUBSET Awaited("subnet"), last \in BOOLEAN :
          LET kept == {x \in batch : Identified(x)}
              joined == {x \in kept : Collected(x.vpc) # {}}
              blocks == Associations(kept)
          IN /\ IsPage(batch, Awaited("subnet"), last)
             /\ undelivered' = undelivered \ batch
             /\ reported' = reported \cup joined \cup Whole(Associations(joined))
             /\ links' = links \cup {<<"subnet", x.vpc, x.name>> : x \in joined}
             /\ errors' = errors \cup Rejections((batch \ joined) \cup (blocks \ Whole(blocks)))
             /\ pc' = IF last THEN "region" ELSE "subnet"
    BY <1>3 DEF ListSubnets
  <2> DEFINE kept == {x \in batch : Identified(x)}
             joined == {x \in kept : Collected(x.vpc) # {}}
             blocks == Associations(kept)
             told == (batch \ joined) \cup (blocks \ Whole(blocks))
  <2>2. /\ batch \subseteq Awaited("subnet") /\ joined \subseteq batch /\ undelivered' = undelivered \ batch
        /\ reported' = reported \cup joined \cup Whole(Associations(joined)) /\ errors' = errors \cup Rejections(told)
        /\ pc' \in {"subnet", "region"} /\ (pc' # "subnet" => batch = Awaited("subnet")) /\ batch \ joined \subseteq told
    BY <2>1 DEF IsPage
  <2>3. UNCHANGED <<more, queue, built, item, pending>> /\ pc = "subnet"
    BY <1>3 DEF ListSubnets, CallAgain, building
  <2>4. joined \subseteq kept
    OBVIOUS
  <2>5. Associations(joined) \ Whole(Associations(joined)) \subseteq told
    <3> HIDE DEF joined, kept
    <3> QED
      BY <2>4 DEF Associations, PartsOfAll, Whole
  <2> HIDE DEF joined, kept, told, blocks
  <2> QED
    BY <2>2, <2>3, <2>5, VpcsKept
<1>4. CASE SubnetsFail
  BY <1>4, VpcListFails DEF SubnetsFail, CallAgain, building
<1> QED
  BY <1>1, <1>2, <1>3, <1>4 DEF VpcNext

(***************************************************************************)
(* The bucket whose objects are listed.                                    *)
(***************************************************************************)
LEMMA BucketLocated == ASSUME IInv, LocateBucket PROVE Step
<1>1. PICK x \in Awaited("bucket") :
        /\ item' = x /\ undelivered' = undelivered \ {x}
        /\ UNCHANGED errors \/ errors' = errors \cup {<<"locate", x.name, NoId>>}
  BY DEF LocateBucket
<1>2. /\ Stays /\ PlaceInv' /\ pc = "bucket" /\ pc' = "object" /\ UNCHANGED where
      /\ UNCHANGED <<more, queue, built, pending, reported>> /\ world' = world
  BY GlobalStays, StaysKeepsPlace DEF IInv, GlobalNext, LocateBucket, paging, where
<1>3. Pass = "objects" /\ Pass' = Pass /\ PlaceInv /\ pc \notin {"region", "done"}
  BY <1>2, StageFacts, PlaceStays DEF IInv
<1>4. pc \notin Building \cup AclStages \cup DistributionStages /\ pc' \notin AclStages \cup DistributionStages
      /\ pc' \in Building
  BY <1>2 DEF Building, AclStages, DistributionStages
<1>5. queue = {} /\ item = NoItem /\ built = {} /\ pending = {} /\ ~more /\ world \in Worlds
      /\ undelivered \subseteq world.items
  BY <1>2, <1>3, <1>4 DEF IInv, PlaceInv, ItemsInv, TypeInv
<1>6. x \in undelivered /\ x \in world.items /\ x.type = "bucket" /\ x.of = NoId /\ x.region = Region /\ x # NoItem
  BY <1>5, ItemFacts DEF Awaited
<1>7. Here(x) /\ ~Later(x) /\ (\A p : Here(p)' <=> Here(p)) /\ (\A p : Later(p)' <=> Later(p))
  <2>1. Pass \in ListedBy(x)
    BY <1>3, <1>6 DEF ListedBy, PassOf
  <2>2. Here(x)
    BY <1>3, <1>6, <2>1, HereFacts
  <2> QED
    BY <1>2, <1>3, <2>2, HereNotLater, PlaceStays
<1>8. RootOpen(x) /\ ~RootOpen(x)'
  BY <1>1, <1>2, <1>6, <1>7 DEF RootOpen, Listing, ListingStages
<1>9. ASSUME NEW p \in world.items, p.of = NoId, p # x PROVE RootOpen(p)' <=> RootOpen(p)
  <2>1. Listless(pc') /\ ~more'
    BY <1>2, <1>5 DEF Listless
  <2>2. ~Listing(p)'
    BY <1>5, <1>9, <2>1, NoListingNow
  <2>3. Here(p) => ~Listing(p)
    <3> SUFFICES ASSUME Here(p), Listing(p) PROVE FALSE
      OBVIOUS
    <3>1. Pass \in ListedBy(p)
      BY <1>3, HereFacts
    <3>2. p.type \in TypesOf(Pass)
      BY <1>3, <1>5, <1>9, <3>1, ListedTypes DEF PassNames
    <3>3. p.type = "bucket"
      BY <1>3, <3>2 DEF TypesOf, FirstListing, RolePasses
    <3> QED
      BY <1>5, <1>6, <1>9, <3>3, WorldAssumption
  <2> QED
    BY <1>1, <1>7, <1>9, <2>2, <2>3 DEF RootOpen
<1>10. \A p \in reported : ~IsGlobalACL(p)
  BY <1>2, <1>3 DEF IInv, GlobalInv
<1>11. ASSUME NEW y \in world.items, NEW p \in world.items, PartOfRoot(y, p)
       PROVE  PartsToCome(y.type, p)' <=> PartsToCome(y.type, p)
  <2>1. p.of = NoId /\ p # NoItem /\ ~(y.type = "distribution" /\ p \in reported)
    BY <1>5, <1>10, <1>11, GlobalParts, ItemFacts DEF PartOfRoot
  <2>2. PartsToCome(y.type, p) <=> RootOpen(p)
    BY <1>5, <2>1 DEF PartsToCome
  <2>3. PartsToCome(y.type, p)' <=> RootOpen(p)' \/ (p = x /\ pc' \in PartStages(y.type))
    BY <1>1, <1>2, <1>5, <2>1 DEF PartsToCome
  <2>4. CASE p = x
    <3>1. y.type = "object"
      BY <1>6, <1>11, <2>4 DEF PartOfRoot, IsPartOf
    <3> QED
      BY <1>2, <1>8, <2>2, <2>3, <2>4, <3>1, PartStagesAre
  <2>5. CASE p # x
    BY <1>9, <2>1, <2>2, <2>3, <2>5
  <2> QED
    BY <2>4, <2>5
<1>12. /\ errors \subseteq errors'
       /\ \A p : ListOf(p) \in errors' => ListOf(p) \in errors
  BY <1>1 DEF ListOf, ListError
<1>13. Orderly
  <2>1. undelivered' \subseteq undelivered /\ \A z \in undelivered \ undelivered' : z = x
    BY <1>1
  <2>2. \A z \in undelivered \ undelivered' : Open(z) /\ z.of = NoId
    BY <1>6, <1>8, <2>1, OpenRoot
  <2>3. \A p \in world.items : p.of = NoId /\ RootOpen(p)' => RootOpen(p)
    BY <1>8, <1>9
  <2>4. \A z \in Wanted : z \in Held => Accounted(z)'
    BY <1>2, <1>5, WantedFacts, ItemFacts DEF Held, Accounted
  <2>5. ASSUME NEW p \in Wanted, p.of = NoId, RootOpen(p), ~RootOpen(p)' PROVE Accounted(p)'
    <3>1. p \in world.items /\ p # x
      BY <1>5, <1>6, WantedFacts
    <3> QED
      BY <1>9, <2>5, <3>1
  <2>6. ASSUME NEW y \in world.items, NEW p \in world.items, PartOfRoot(y, p) PROVE Open(y)' <=> Open(y)
    BY <1>1, <1>5, <1>6, <1>11, <2>6, OpenPart DEF PartOfRoot
  <2>7. \A y \in Wanted, p \in world.items : PartOfRoot(y, p) /\ Open(y) /\ ~Open(y)' => Accounted(y)'
    BY <1>5, <2>6, WantedFacts
  <2>8. \A z \in Wanted, y, p \in world.items :
          PartOfPart(z, y) /\ PartOfRoot(y, p) /\ z \in undelivered /\ Open(y) /\ ~Open(y)' => Accounted(z)'
    BY <2>6
  <2>9. /\ \A y, p \in world.items : PartOfRoot(y, p) /\ PartsToCome(y.type, p)' => PartsToCome(y.type, p)
        /\ \A o, p \in world.items :
             PartOfRoot(o, p) /\ o.type = "origin" /\ o \in undelivered \ undelivered' => ~PartsToCome(o.type, p)'
        /\ \A z, y \in world.items : PartOfPart(z, y) /\ z \in undelivered \ undelivered' => ~Open(y)'
        /\ \A z \in world.items : Open(z)' /\ ListOf(z) \in errors' => ListOf(z) \in errors
    BY <1>11, <1>12, <2>2 DEF PartOfRoot, PartOfPart
  <2> QED
    BY <1>2, <1>5, <1>12, <2>1, <2>2, <2>3, <2>4, <2>5, <2>7, <2>8, <2>9, OrderlyFrom
<1>14. LossInv'
  BY <1>5, <1>13, OrderlyKeepsLosses DEF IInv
<1>15. ItemsInv'
  <2>1. undelivered' \subseteq world.items /\ x \notin undelivered' /\ reported \subseteq world.items /\ built = {}
    BY <1>1, <1>5 DEF IInv, ItemsInv
  <2>2. pc' \notin {"region", "done", "balancer", "zone", "function", "bucket", "vpc", "subnet"}
    BY <1>2
  <2>3. queue' = {} /\ item' = x /\ item' # NoItem /\ pc' \in Building /\ built' = {} /\ reported' = reported
    BY <1>1, <1>2, <1>4, <1>5, <1>6
  <2>4. item' \in world'.items /\ item' \notin queue' /\ item' \notin undelivered'
    BY <1>2, <1>6, <2>1, <2>3
  <2>5. \A z \in queue' \cup ({item'} \ {NoItem}) : z.of = NoId /\ Here(z)'
    BY <1>6, <1>7, <2>3
  <2> QED
    BY <1>2, <2>1, <2>2, <2>3, <2>4, <2>5 DEF ItemsInv
<1>16. GlobalInv'
  BY <1>2, <1>4, <1>10 DEF GlobalInv
<1>17. TypeInv'
  BY <1>2, <1>5 DEF TypeInv, Stays
<1> QED
  BY <1>2, <1>13, <1>14, <1>15, <1>16, <1>17 DEF IInv, Step

(***************************************************************************)
(* The invariant holds at the start and is kept by every step.             *)
(***************************************************************************)
LEMMA SomePass ==
  ASSUME NEW w \in Worlds
  PROVE  1 \in 1 .. Len(w.passes) /\ 1 \in DOMAIN w.passes
<1>1. w.passes \in Enumerators /\ WellPassed(w.passes)
  BY WorldAssumption, PassFacts
<1>2. Len(w.passes) >= 1
  <2>1. (\E p : w.passes = <<p>>) \/ (\E p, q : w.passes = <<p, q>>)
    BY <1>1 DEF Enumerators
  <2>2. ASSUME NEW p, w.passes = <<p>> PROVE Len(w.passes) = 1
    BY <2>2
  <2>3. ASSUME NEW p, NEW q, w.passes = <<p, q>> PROVE Len(w.passes) = 2
    BY <2>3
  <2> QED
    BY <2>1, <2>2, <2>3
<1> QED
  BY <1>1, <1>2 DEF WellPassed

LEMMA SelectedComes ==
  ASSUME Init, NEW x \in world.items, Selected(world, x)
  PROVE  RootOpen(x)
<1>1. PICK t \in DOMAIN world.passes : world.passes[t] \in Passes(x) /\
        \E i \in DOMAIN RegionsOf(world, world.passes[t]) : RegionsOf(world, world.passes[t])[i] = x.region
  BY DEF Selected
<1>2. PICK i \in DOMAIN RegionsOf(world, world.passes[t]) : RegionsOf(world, world.passes[t])[i] = x.region
  BY <1>1
<1>3. Passes(x) \subseteq ListedBy(x)
  BY DEF Passes, ListedBy, RolePasses
<1>4. Fits(x, t, i)
  BY <1>1, <1>2, <1>3 DEF Fits
<1>5. world \in Worlds /\ turn = 1 /\ place = 0 /\ undelivered = world.items
  BY DEF Init
<1>6. t \in Nat /\ t >= 1 /\ world.passes[t] \in PassNames
  BY <1>5, PassFacts DEF WellPassed
<1>7. i \in Nat /\ i >= 1
  BY <1>5, <1>6, RegionFacts DEF Distinct
<1>8. t > turn \/ (t = turn /\ i > place)
  BY <1>5, <1>6, <1>7
<1> QED
  BY <1>4, <1>5, <1>8 DEF RootOpen, Later

LEMMA WantedAtFirst == ASSUME Init, NEW x \in Wanted PROVE Open(x)
<1>1. world \in Worlds /\ undelivered = world.items /\ x \in world.items
  BY WantedFacts DEF Init
<1>2. \A p \in LineOf[x] : p \in world.items /\ (p.of = NoId => RootOpen(p))
  BY <1>1, WantedFacts, LineInWorld, SelectedComes
<1>3. CASE x.of = NoId
  BY <1>1, <1>2, <1>3, OpenRoot, LineInWorld
<1>4. CASE \E p \in world.items : PartOfRoot(x, p)
  <2>1. PICK p \in world.items : PartOfRoot(x, p)
    BY <1>4
  <2>2. RootOpen(p)
    BY <1>1, <1>2, <2>1, PartLine DEF PartOfRoot
  <2> QED
    BY <1>1, <2>1, <2>2, OpenPart DEF PartsToCome
<1>5. CASE \E y, p \in world.items : PartOfPart(x, y) /\ PartOfRoot(y, p)
  <2>1. PICK y, p \in world.items : PartOfPart(x, y) /\ PartOfRoot(y, p)
    BY <1>5
  <2>2. RootOpen(p)
    BY <1>1, <1>2, <2>1, DeepLine DEF PartOfRoot
  <2>3. Open(y)
    BY <1>1, <2>1, <2>2, OpenPart DEF PartsToCome
  <2> QED
    BY <1>1, <2>1, <2>3, OpenDeep
<1> QED
  BY <1>1, <1>3, <1>4, <1>5, Families

LEMMA InitOrderly == Init => IInv
<1> SUFFICES ASSUME Init PROVE IInv
  OBVIOUS
<1>0. /\ world \in Worlds /\ turn = 1 /\ place = 0 /\ pc = "region" /\ undelivered = world.items /\ more = FALSE
      /\ marker = NoId /\ calls = 0 /\ queue = {} /\ item = NoItem /\ built = {} /\ pending = {}
      /\ reported = {} /\ errors = {}
  BY DEF Init
<1>1. PlaceInv
  <2>1. turn \in 1 .. Len(world.passes) /\ turn \in DOMAIN world.passes
    BY <1>0, SomePass
  <2>2. Pass \in PassNames
    BY <1>0, <2>1, PassFacts DEF Pass, WellPassed
  <2>3. Len(RegionsOf(world, Pass)) \in Nat
    BY <1>0, <2>2, RegionFacts DEF Distinct
  <2>4. place \in 0 .. Len(RegionsOf(world, Pass))
    BY <1>0, <2>3
  <2> QED
    BY <1>0, <2>1, <2>4 DEF PlaceInv
<1>2. TypeInv
  BY <1>0 DEF TypeInv
<1>3. ItemsInv
  BY <1>0 DEF ItemsInv, Building
<1>4. GlobalInv
  BY <1>0 DEF GlobalInv, DistributionStages
<1>5. LossInv
  BY <1>0, WantedAtFirst DEF LossInv
<1> QED
  BY <1>1, <1>2, <1>3, <1>4, <1>5 DEF IInv

LEMMA NothingHappens == ASSUME IInv, UNCHANGED vars PROVE Step
<1>1. /\ UNCHANGED <<where, pc, undelivered, paging, queue, building, reported, errors>>
      /\ UNCHANGED <<turn, place, world, more, marker, calls, item, built, pending>>
  BY DEF vars, where, paging, building
<1>2. /\ \A p : (RootOpen(p)' <=> RootOpen(p))
      /\ \A y, p : (PartsToCome(y.type, p)' <=> PartsToCome(y.type, p))
  <2>1. \A p : Listing(p)' <=> Listing(p)
    BY <1>1 DEF Listing
  <2>2. \A p : (RootOpen(p)' <=> RootOpen(p))
    BY <1>1, <2>1, PlaceStays DEF RootOpen
  <2> QED
    BY <1>1, <2>2 DEF PartsToCome
<1>3. QuietStep
  BY <1>1, <1>2 DEF QuietStep, Held
<1>4. Orderly /\ LossInv'
  BY <1>3, QuietStepOrderly
<1>5. /\ Pass' = Pass /\ Region' = Region
      /\ \A x : Here(x)' <=> Here(x)
  BY <1>1, PlaceStays
<1>6. PlaceInv'
  BY <1>1, <1>5 DEF IInv, PlaceInv
<1>7. TypeInv'
  BY <1>1 DEF IInv, TypeInv
<1>8. ItemsInv'
  BY <1>1, <1>5 DEF IInv, ItemsInv, PartItems
<1>9. GlobalInv'
  BY <1>1, <1>5 DEF IInv, GlobalInv
<1> QED
  BY <1>4, <1>6, <1>7, <1>8, <1>9 DEF IInv, Step

\* Every step keeps the invariant and loses nothing.
LEMMA InvariantIsInductive == ASSUME IInv, [Next]_vars PROVE Step
<1>1. CASE VpcNext
  BY <1>1, VpcsListed
<1>2. CASE GroupsNext
  BY <1>2, GroupListings, GroupTaken, GroupRead DEF GroupsNext
<1>3. CASE BalancersNext
  BY <1>3, BalancerListings, BalancerTaken, ListenersRead, TargetGroupsRead DEF BalancersNext
<1>4. CASE WafNext
  BY <1>4, ACLListings, ACLTaken, DistributionsBegun, ACLRulesRead, ResourcesRead, DistributionsRead, DistributionsEnded,
     AllDistributionsDone DEF WafNext
<1>5. CASE ClustersNext
  BY <1>5, ClusterListings, ClusterTaken, ClusterRead DEF ClustersNext
<1>6. CASE GlobalNext
  BY <1>6, ZoneListings, RecordsRead, RoleListings, AttachmentsRead, CdnListings, OriginsRead, BucketLocated, ObjectsRead,
     GlobalTaken DEF GlobalNext
<1>7. CASE FunctionsNext
  BY <1>7, FunctionListings, FunctionTaken, FunctionRead DEF FunctionsNext
<1>8. CASE NextRegion \/ NextPass
  BY <1>8, RegionEntered, PassEntered
<1>9. CASE ResolveReference \/ ReferencesDone \/ AppendItem \/ QueueDone
  BY <1>9, ReferencesResolved, ReferencesEnd, ItemAppended, QueueEnds, ACLQueueEnds
<1>10. CASE Returned \/ UNCHANGED vars
  BY <1>10, NothingHappens DEF Returned
<1> QED
  BY <1>1, <1>2, <1>3, <1>4, <1>5, <1>6, <1>7, <1>8, <1>9, <1>10 DEF Next

(***************************************************************************)
(* Type correctness.                                                       *)
(***************************************************************************)
\* The inductive invariant holds.
THEOREM ServiceInvariant == Spec => []IInv
<1>1. IInv /\ [Next]_vars => IInv'
  BY InvariantIsInductive DEF Step
<1> QED
  BY InitOrderly, <1>1, PTL DEF Spec

LEMMA StagesListed ==
  ASSUME PlaceInv
  PROVE  pc \in Listings \cup {"region", "convert", "references", "kubernetes", "resources", "origin",
                               "append", "distributions", "distributed", "done"}
<1>1. CASE pc \in {"region", "done"}
  BY <1>1
<1>2. CASE pc \notin {"region", "done"}
  <2>1. pc \in MayBe(Pass) /\ Pass \in PassNames
    BY <1>2, PassIsNamed DEF PlaceInv
  <2>2. CASE Pass = "vpc"
    <3>1. pc \in {"vpc", "subnet"}
      BY <2>1, <2>2, StagesOfPasses
    <3> QED
      BY <3>1 DEF Listings
  <2>3. CASE Pass = "securitygroup"
    <3>1. pc \in {"group", "db group", "convert", "rule", "references", "append"}
      BY <2>1, <2>3, StagesOfPasses
    <3> QED
      BY <3>1 DEF Listings
  <2>4. CASE Pass \in {"v1", "v2"}
    BY <2>1, <2>4, StagesOfPasses DEF Listings
  <2>5. CASE Pass \in {"waf", "cloudfront", "eks", "route53"}
    BY <2>1, <2>5, StagesOfPasses DEF Listings, DistributionStages
  <2>6. CASE Pass \in {"roles", "own roles", "cdn", "objects", "lambda"}
    BY <2>1, <2>6, StagesOfPasses DEF Listings
  <2> QED
    BY <2>1, <2>2, <2>3, <2>4, <2>5, <2>6 DEF PassNames
<1> QED
  BY <1>1, <1>2

LEMMA TypesHold == IInv => TypeOK
<1> SUFFICES ASSUME IInv PROVE TypeOK
  OBVIOUS
<1>1. PlaceInv /\ TypeInv /\ ItemsInv /\ world \in Worlds
  BY DEF IInv, PlaceInv
<1>2. turn \in 1 .. Len(world.passes) + 1
  BY <1>1, PassFacts DEF PlaceInv, WellPassed
<1>3. item # NoItem <=> pc \in {"rule", "references", "listener", "target group", "acl rule", "resources",
                               "kubernetes", "append", "distribution", "distributed",
                               "record", "attachment", "origin", "object", "url"}
  BY <1>1 DEF ItemsInv, Building
<1>4. item # NoItem => item \in world.items /\ item.region = Region
  <2>1. item # NoItem => item \in world.items /\ Here(item) /\ pc \notin {"region", "done"}
    BY <1>1, <1>3 DEF ItemsInv
  <2> QED
    BY <1>1, <2>1, HereFacts
<1>5. item = NoItem => built = {} /\ pending = {}
  BY <1>1, <1>3 DEF ItemsInv, TypeInv
<1> QED
  BY <1>1, <1>2, <1>3, <1>4, <1>5, StagesListed DEF TypeOK, TypeInv, ItemsInv

\* The types hold, and an item is there exactly while one is built, of this
\* region and with parts and open references of its own.
THEOREM ServiceTypeCorrect == Spec => []TypeOK
BY ServiceInvariant, TypesHold, PTL

(***************************************************************************)
(* The contract.                                                           *)
(***************************************************************************)
\* What the report says when it is returned.
NothingMissing == pc = "done" => \A x \in Wanted : x \in reported \/ Excused(x)

LEMMA NothingIsMissing == IInv => NothingMissing
<1> SUFFICES ASSUME IInv, pc = "done", NEW x \in Wanted PROVE x \in reported \/ Excused(x)
  BY DEF NothingMissing
<1>1. /\ world \in Worlds /\ queue = {} /\ item = NoItem /\ built = {} /\ turn = Len(world.passes) + 1
      /\ Len(world.passes) \in Nat /\ DOMAIN world.passes = 1 .. Len(world.passes)
      /\ pc \notin AclStages
  BY PassFacts DEF IInv, PlaceInv, ItemsInv, Building, WellPassed, AclStages
<1>2. \A p : ~RootOpen(p)
  BY <1>1 DEF RootOpen, Later, Here, Fits
<1>3. x \in world.items
  BY <1>1, WantedFacts
<1>4. \A p \in world.items : \A t : ~PartsToCome(t, p)
  BY <1>1, <1>2, NothingToCome
<1>5. ~Open(x)
  BY <1>1, <1>2, <1>3, <1>4, Families, OpenRoot, OpenPart, OpenDeep
<1>6. x # NoItem
  BY <1>1, <1>3, ItemFacts
<1> QED
  BY <1>1, <1>5, <1>6 DEF IInv, LossInv, Held

\* An inventory takes back nothing.
LEMMA ReportGrows == ASSUME Next PROVE reported \subseteq reported'
<1>1. CASE VpcNext
  BY <1>1 DEF VpcNext, ListVpcs, VpcsFail, ListSubnets, SubnetsFail
<1>2. CASE GroupsNext
  BY <1>2 DEF GroupsNext, ListGroups, GroupsFail, RejectGroup, RejectItem, AcceptGroup, AcceptDbGroup, ListRules, RulesFail
<1>3. CASE BalancersNext
  BY <1>3 DEF BalancersNext, ListBalancers, BalancersFail, RejectBalancer, RejectItem, AcceptClassic, AcceptBalancer,
              ListListeners, ListenersFail, ListTargetGroups, TargetGroupsFail
<1>4. CASE WafNext
  BY <1>4 DEF WafNext, ListWebACLs, WebACLsFail, RejectACL, RejectItem, AcceptACL, BeginDistributions, GetRules,
              GetRulesFails, ListResources, ListDistributions, DistributionsFail, EndDistributions, DistributionsDone
<1>5. CASE ClustersNext
  BY <1>5 DEF ClustersNext, ListClusters, ClustersFail, DescribeFails, DescribesNone, RejectItem, DescribeCluster, NotReadable,
              ConnectFails, ReadObjects
<1>6. CASE GlobalNext
  BY <1>6 DEF GlobalNext, ListZones, ZonesFail, ListRecords, RecordsFail, ListRoles, RolesFail, ListAttachments,
              AttachmentsFail, ListCdns, CdnsFail, ProcessOrigins, LocateBucket, ListObjects, ObjectsFail, RejectGlobal,
              RejectItem, AcceptZone, AcceptRole, ProcessDistribution
<1>7. CASE FunctionsNext
  BY <1>7 DEF FunctionsNext, ListFunctions, FunctionsFail, ListURLs, URLsFail, RejectFunction, RejectItem, AcceptFunction
<1>8. CASE NextRegion \/ NextPass
  BY <1>8 DEF NextRegion, NextPass
<1>9. CASE ResolveReference \/ ReferencesDone \/ AppendItem \/ QueueDone
  BY <1>9 DEF ResolveReference, ReferencesDone, AppendItem, QueueDone
<1>10. CASE Returned
  BY <1>10 DEF Returned, vars
<1> QED
  BY <1>1, <1>2, <1>3, <1>4, <1>5, <1>6, <1>7, <1>8, <1>9, <1>10 DEF Next

LEMMA GoesOn ==
  ASSUME IInv, Next, ~Returned, ~NextPass
  PROVE  pc # "done" /\ pc' # "done"
<1>1. CASE NextRegion
  <2>1. pc = "region" /\ pc' = FirstListing(Pass)
    BY <1>1 DEF NextRegion
  <2>2. Pass \in PassNames
    BY <2>1, PassIsNamed DEF IInv
  <2> QED
    BY <2>1, <2>2 DEF FirstListing, PassNames, RolePasses
<1>2. CASE ~NextRegion
  <2>1. Stays
    BY <1>2, VpcStays, GroupsStay, BalancersStay, WafStays, ClustersStay, GlobalStays, FunctionsStay, CommonStays
    DEF Next, IInv
  <2>2. Pass \in PassNames
    BY <2>1, PassIsNamed DEF Stays, IInv
  <2>3. "done" \notin MayBe(Pass)
    BY <2>2 DEF MayBe, PassNames, RolePasses, DistributionStages
  <2> QED
    BY <2>1, <2>3 DEF Stays
<1> QED
  BY <1>1, <1>2

LEMMA ContractStarts == Init => Contract!Init
<1> SUFFICES ASSUME Init PROVE Contract!Init
  OBVIOUS
<1>1. Wanted \subseteq Items
  BY ItemFacts, WantedFacts DEF Init
<1> QED
  BY <1>1 DEF Contract!Init, Init, Excused

LEMMA ContractSteps ==
  ASSUME IInv, NothingMissing', [Next]_vars
  PROVE  [Contract!Next]_Contract!vars
<1>0. world \in Worlds /\ undelivered \subseteq world.items /\ LossInv /\ Orderly /\ world' = world /\ Wanted' = Wanted
  BY InvariantIsInductive, WantedSame DEF IInv, PlaceInv, ItemsInv, Step, Orderly
<1> DEFINE said == {x \in Wanted : Excused(x)}
           held == reported \cap Wanted
<1>1. said \subseteq Wanted /\ said' \subseteq Wanted /\ held \subseteq Wanted /\ held' \subseteq Wanted
  BY <1>0
<1>2. said \subseteq said'
  BY <1>0, ExcusesStay
<1>3. CASE UNCHANGED vars \/ Returned
  <2>1. UNCHANGED <<world, reported, errors, undelivered, pc>>
    BY <1>3 DEF Returned, vars, where
  <2>2. said' = said /\ held' = held /\ (pc = "done")' = (pc = "done")
    BY <1>0, <2>1 DEF Excused
  <2> QED
    BY <1>0, <2>2 DEF Contract!vars
<1>4. CASE NextPass
  <2>1. UNCHANGED <<world, reported, errors, undelivered>> /\ pc = "region"
    BY <1>4 DEF NextPass
  <2>2. said' = said /\ held' = held
    BY <1>0, <2>1 DEF Excused
  <2>3. CASE pc' = "done"
    <3>1. \A x \in Wanted : x \in held' \/ x \in said'
      BY <1>0, <2>3 DEF NothingMissing
    <3>2. Contract!Return
      BY <1>0, <2>1, <2>2, <2>3, <3>1 DEF Contract!Grows, Contract!Return
    <3> QED
      BY <3>2 DEF Contract!Next
  <2>4. CASE pc' # "done"
    BY <1>0, <2>1, <2>2, <2>4 DEF Contract!vars
  <2> QED
    BY <2>3, <2>4
<1>5. CASE Next /\ ~Returned /\ ~NextPass
  <2>1. pc # "done" /\ pc' # "done" /\ held \subseteq held'
    BY <1>0, <1>5, GoesOn, ReportGrows
  <2>2. Contract!Record
    BY <1>0, <1>1, <1>2, <2>1 DEF Contract!Grows, Contract!Record
  <2> QED
    BY <2>2 DEF Contract!Next
<1> QED
  BY <1>3, <1>4, <1>5

\* Each enumerator of services keeps the contract of an inventory: step by step it
\* takes nothing back, and at the return everything of the selected regions, down
\* to the parts, is reported or accounted for by an error.
THEOREM ServiceKeepsContract == Spec => KeepsContract
<1>1. IInv /\ NothingMissing' /\ [Next]_vars => [Contract!Next]_Contract!vars
  BY ContractSteps
<1> QED
  BY ServiceInvariant, NothingIsMissing, ContractStarts, <1>1, PTL DEF Spec, KeepsContract, Contract!Spec

(***************************************************************************)
(* Steps that leave the relations of most types alone.                     *)
(***************************************************************************)
\* New things are of these types, or the item taken up, of whose references none
\* has been asked for; new links are of these kinds.
Changes(types, kinds) ==
  /\ world' = world /\ errors \subseteq errors' /\ reported \subseteq reported'
  /\ Have \subseteq Have' /\ links \subseteq links' /\ \A l \in links' : l \in links \/ l[1] \in kinds
  /\ \A x \in Known' : x \in Known \/ x.type \notin Related \/ x.type \in types
                         \/ (x.type \in Referring /\ x = item' /\ pending' = Asked(x))
  /\ Have \subseteq reported' \/ \A x \in reported' : x \in reported \/ x.type # "origin"

\* What is pending stays, and a function's URLs stay those of a function.
PendingStays == pending = {} \/ (item' = item /\ pending' = pending)
UrlsStay == pc' = "url" => pc = "url" /\ built' = built

Plain == Changes({}, {}) /\ PendingStays /\ UrlsStay

LEMMA KnownFacts ==
  ASSUME IInv
  PROVE  /\ world \in Worlds /\ Known \subseteq world.items /\ Have \subseteq Known
         /\ \A x \in Known : x \in Have \/ x.type \in RootTypes
         /\ \A x, y \in world.items : x.name = y.name => x = y
<1>1. world \in Worlds /\ reported \subseteq world.items /\ built \subseteq world.items
  BY DEF IInv, PlaceInv, ItemsInv, PartItems
<1>2. item # NoItem => item \in world.items /\ item.of = NoId
  BY DEF IInv, ItemsInv
<1>3. item # NoItem => item.type \in RootTypes
  BY <1>1, <1>2, ItemFacts
<1>4. world.items \subseteq Items
  BY <1>1 DEF Items
<1> QED
  BY <1>1, <1>2, <1>3, <1>4, ServiceAssumption DEF Known, Have

LEMMA SubnetsStay ==
  ASSUME SubnetsInv, NEW types, NEW kinds, Changes(types, kinds), "subnet" \notin types
  PROVE  SubnetsInv'
<1> SUFFICES ASSUME NEW s \in Known', s.type = "subnet"
             PROVE  /\ <<"subnet", s.vpc, s.name>> \in links'
                    /\ \E v \in reported' : v.type = "vpc" /\ v.name = s.vpc /\ v.region = s.region
  BY DEF SubnetsInv
<1>1. s \in Known
  BY DEF Changes, Related, Referring
<1> QED
  BY <1>1 DEF SubnetsInv, Changes

LEMMA ObjectsStay ==
  ASSUME ObjectsInv, Orderly, NEW types, NEW kinds, Changes(types, kinds),
         types \cap Objects = {}, kinds \cap ObjectLinks = {}
  PROVE  ObjectsInv'
<1>1. \A l : l \in links' /\ l[1] \in ObjectLinks => l \in links
  BY DEF Changes
<1>2. \A x \in Known' : x.type \in Objects => x \in Known
  BY DEF Changes, Related, Referring, Objects
<1>3. \A o : o.type \in Objects /\ Untouched(o) => Untouched(o)'
  BY <1>1, <1>2 DEF Untouched
<1>4. \A o, p \in world'.items : PartOfRoot(o, p) /\ o.type \in Objects /\ PartsToCome(o.type, p)' => Untouched(o)'
  BY <1>3 DEF ObjectsInv, Orderly
<1>5. \A a, b : /\ <<"targets", a, b>> \in links' <=> <<"targets", a, b>> \in links
                /\ <<"served by", a, b>> \in links' <=> <<"served by", a, b>> \in links
                /\ <<"runs", a, b>> \in links' <=> <<"runs", a, b>> \in links
  <2>1. \A a, b : /\ <<"targets", a, b>>[1] \in ObjectLinks /\ <<"served by", a, b>>[1] \in ObjectLinks
                  /\ <<"runs", a, b>>[1] \in ObjectLinks
    BY DEF ObjectLinks
  <2> QED
    BY <1>1, <2>1 DEF Changes
<1>6. ASSUME NEW s \in Known', NEW p \in Known', s.type = "service", p.type = "pod"
      PROVE  /\ <<"targets", s.name, p.name>> \in links' <=> s.of = p.of /\ Selects(s, p)
             /\ <<"served by", p.name, s.name>> \in links' <=> s.of = p.of /\ Selects(s, p)
  <2>1. s \in Known /\ p \in Known
    BY <1>2, <1>6 DEF Objects
  <2> QED
    BY <1>5, <1>6, <2>1 DEF ObjectsInv
<1>7. ASSUME NEW n \in Known', NEW p \in Known', n.type = "node", p.type = "pod"
      PROVE  <<"runs", n.name, p.name>> \in links' <=> n.of = p.of /\ p.node = n.host
  <2>1. n \in Known /\ p \in Known
    BY <1>2, <1>7 DEF Objects
  <2> QED
    BY <1>5, <1>7, <2>1 DEF ObjectsInv
<1> QED
  BY <1>4, <1>6, <1>7 DEF ObjectsInv

LEMMA EndsStay ==
  ASSUME EndsReported, NEW types, NEW kinds, Changes(types, kinds), kinds \cap {"subnet", "targets", "runs"} = {}
  PROVE  EndsReported'
<1>1. \A l \in links' : l[1] \in {"subnet", "targets", "runs"} => l \in links
  BY DEF Changes
<1>2. \A x \in reported \cup built : x \in reported' \cup built'
  BY DEF Changes, Have
<1> QED
  BY <1>1, <1>2 DEF EndsReported

LEMMA ReferencesStay ==
  ASSUME ReferencesInv, NEW types, NEW kinds, Changes(types, kinds), types \cap Referring = {}, PendingStays
  PROVE  ReferencesInv'
<1> SUFFICES ASSUME NEW x \in Known', x.type \in Referring, NEW id \in Asked(x)
             PROVE  ReferenceTold(x, id)' \/ (x = item' /\ id \in pending')
  BY DEF ReferencesInv, Asked
<1>1. ReferenceTold(x, id) => ReferenceTold(x, id)'
  BY DEF ReferenceTold, Changes
<1>2. x \in Known \/ (x = item' /\ pending' = Asked(x))
  BY DEF Changes, Related
<1>3. x \in Known => ReferenceTold(x, id) \/ (x = item /\ id \in pending)
  BY DEF ReferencesInv
<1> QED
  BY <1>1, <1>2, <1>3 DEF PendingStays

LEMMA OriginsStay ==
  ASSUME IInv, OriginsInv, NEW types, NEW kinds, Changes(types, kinds), "origin" \notin types
  PROVE  OriginsInv'
<1>1. \A o \in Have' \cup reported' : o.type = "origin" => o \in Have
  <2>1. \A o \in Known' : o.type = "origin" => o \in Known
    BY DEF Changes, Related, Referring
  <2>2. \A o \in Known : o.type = "origin" => o \in Have
    BY KnownFacts DEF RootTypes
  <2> QED
    BY <2>1, <2>2 DEF Known, Have
<1>2. ASSUME NEW o, NEW S, NEW T, BackendTold(o, S), S \subseteq T, NEW U, U = T
      PROVE  ListError("backend", o.name) \in errors' \/ \E b \in Parts("backend", o)' : b \in U \/ <<"rejected", b.name, NoId>> \in errors'
  BY <1>2 DEF BackendTold, Changes, Parts
<1>3. ASSUME NEW o \in Have', o.type = "origin", Resolvable(o) PROVE BackendTold(o, Have)'
  <2>1. BackendTold(o, Have)
    BY <1>1, <1>3 DEF OriginsInv
  <2> QED
    BY <1>2, <2>1 DEF BackendTold, Changes
<1>4. ASSUME NEW o \in reported', o.type = "origin", Resolvable(o) PROVE BackendTold(o, reported)'
  <2>1. CASE Have \subseteq reported'
    <3>1. BackendTold(o, Have)
      BY <1>1, <1>4 DEF OriginsInv
    <3> QED
      BY <1>2, <2>1, <3>1 DEF BackendTold
  <2>2. CASE \A x \in reported' : x \in reported \/ x.type # "origin"
    <3>1. BackendTold(o, reported)
      BY <1>4, <2>2 DEF OriginsInv
    <3> QED
      BY <1>2, <3>1 DEF BackendTold, Changes
  <2> QED
    BY <2>1, <2>2 DEF Changes
<1> QED
  BY <1>3, <1>4 DEF OriginsInv

LEMMA PoliciesStay ==
  ASSUME PoliciesInv, NEW types, NEW kinds, Changes(types, kinds), types \cap Targeted = {}, "policy" \notin kinds,
         UrlsStay
  PROVE  PoliciesInv'
<1>1. \A l \in links' : l[1] = "policy" => l \in links
  BY DEF Changes
<1>2. \A x \in Known' : x.type \in Targeted => x \in Known
  BY DEF Changes, Related, Referring, Targeted
<1>3. \A x : PolicyTold(x) => PolicyTold(x)'
  BY DEF PolicyTold, Changes
<1>4. pc' = "url" => \A x \in built' : x.type = "url"
  BY DEF UrlsStay, PoliciesInv
<1> QED
  BY <1>1, <1>2, <1>3, <1>4 DEF PoliciesInv, Changes

LEMMA PlainStep ==
  ASSUME IInv, Orderly, Relations, Plain
  PROVE  Relations'
<1> DEFINE none == {}
<1>1. Changes(none, none) /\ \A x : x \notin none
  BY DEF Plain
<1> HIDE DEF none
<1> QED
  BY <1>1, SubnetsStay, ObjectsStay, EndsStay, ReferencesStay, OriginsStay, PoliciesStay DEF Plain, Relations

\* An item is built, or taken up.
LEMMA PlainBuilding ==
  ASSUME IInv, Orderly, UNCHANGED <<reported, links>>, built \subseteq built',
         \A x \in built' : x \in built \/ x.type \notin Related,
         \/ item' = item /\ pending' = pending
         \/ pending = {} /\ item = NoItem /\ (item'.type \notin Related \/ (item'.type \in Referring /\ pending' = Asked(item'))),
         UrlsStay
  PROVE  Plain
<1>1. \A x \in Known' : x \in Known \/ x.type \notin Related \/ (x.type \in Referring /\ x = item' /\ pending' = Asked(x))
  BY DEF Known, Have
<1> QED
  BY <1>1 DEF Plain, Changes, PendingStays, Orderly, Have

\* The report is extended by what was built, or by things of no relation.
LEMMA PlainReport ==
  ASSUME IInv, Orderly, UNCHANGED <<links, pending>>, pc' # "url",
         \/ /\ pending = {} /\ reported \cup built \subseteq reported' /\ reported' \subseteq Known
            /\ item' = NoItem /\ built' = {}
         \/ /\ reported \subseteq reported' /\ \A x \in reported' : x \in reported \/ x.type \notin Related
            /\ item' = item /\ built' = built
  PROVE  Plain
<1>1. CASE /\ pending = {} /\ reported \cup built \subseteq reported' /\ reported' \subseteq Known
           /\ item' = NoItem /\ built' = {}
  <2>1. Known' \subseteq Known /\ Have \subseteq reported'
    BY <1>1 DEF Known, Have
  <2> QED
    BY <1>1, <2>1 DEF Plain, Changes, PendingStays, UrlsStay, Orderly, Have
<1>2. CASE /\ reported \subseteq reported' /\ \A x \in reported' : x \in reported \/ x.type \notin Related
           /\ item' = item /\ built' = built
  <2>1. \A x \in Known' : x \in Known \/ x.type \notin Related
    BY <1>2 DEF Known, Have
  <2>2. \A x \in reported' : x \in reported \/ x.type # "origin"
    BY <1>2 DEF Related
  <2> QED
    BY <1>2, <2>1, <2>2 DEF Plain, Changes, PendingStays, UrlsStay, Orderly, Have
<1> QED
  BY <1>1, <1>2

LEMMA PlainQuiet ==
  ASSUME IInv, Orderly, UNCHANGED <<reported, links, building>>, pc' = "url" => pc = "url"
  PROVE  Plain
BY PlainBuilding DEF building, UrlsStay

LEMMA PartsOfNoRelation ==
  /\ \A t \in {"rule", "authorization", "listener", "target group", "target", "certificate", "forward", "acl rule",
               "load balancer", "stage", "distribution", "record", "value", "attachment", "document", "object",
               "association", "backend", "vpc", "web acl", "zone", "role", "cdn", "bucket"} : t \notin Related
  /\ Referring \cap (Targeted \cup Objects \cup {"subnet", "origin"}) = {}
BY DEF Related, Objects, Referring, Targeted

LEMMA VpcsPlain == ASSUME IInv, Orderly, ListVpcs \/ VpcsFail \/ SubnetsFail PROVE Plain
<1>1. CASE VpcsFail \/ SubnetsFail
  BY <1>1, PlainQuiet DEF VpcsFail, SubnetsFail
<1>2. CASE ListVpcs
  <2>1. PICK batch \in SUBSET Awaited("vpc"), last \in BOOLEAN :
          LET kept == {x \in batch : Identified(x)} IN
          /\ reported' = reported \cup kept \cup Whole(Associations(kept))
          /\ pc' = IF last THEN "subnet" ELSE "vpc"
    BY <1>2 DEF ListVpcs
  <2> DEFINE kept == {x \in batch : Identified(x)}
  <2>2. reported' = reported \cup kept \cup Whole(Associations(kept)) /\ pc' # "url"
    BY <2>1
  <2>3. \A x \in kept : x.type = "vpc"
    BY DEF Awaited
  <2>4. \A x \in Whole(Associations(kept)) : x.type = "association"
    BY DEF Whole, Associations, PartsOfAll, Parts
  <2>5. \A x \in reported' : x \in reported \/ x.type \notin Related
    BY <2>2, <2>3, <2>4, PartsOfNoRelation
  <2>6. UNCHANGED <<links, building>> /\ reported \subseteq reported'
    BY <1>2, <2>2 DEF ListVpcs
  <2> QED
    BY <2>2, <2>5, <2>6, PlainReport DEF building
<1> QED
  BY <1>1, <1>2

LEMMA GroupsPlain == ASSUME IInv, Orderly, GroupsNext PROVE Plain
<1>1. CASE \/ ListGroups("group", "db group") \/ GroupsFail("group", "db group")
           \/ ListGroups("db group", "convert") \/ GroupsFail("db group", "convert") \/ RulesFail
           \/ \E x \in queue : RejectGroup(x)
  <2>1. UNCHANGED <<reported, links, building>> /\ (pc' = "url" => pc = "url")
    BY <1>1 DEF ListGroups, GroupsFail, RulesFail, RejectGroup, RejectItem, TakeFromQueue
  <2> QED
    BY <2>1, PlainQuiet
<1>2. CASE ListRules
  <2>1. PICK batch \in SUBSET AwaitedParts("rule", item) : built' = built \cup {r \in batch : RuleConverts(r)}
    BY <1>2 DEF ListRules
  <2>2. \A r \in batch : r.type = "rule"
    BY DEF AwaitedParts
  <2>3. UNCHANGED <<reported, links, item, pending>> /\ pc' # "url"
    BY <1>2 DEF ListRules
  <2> QED
    BY <2>1, <2>2, <2>3, PartsOfNoRelation, PlainBuilding DEF UrlsStay
<1>3. ASSUME NEW x \in queue, AcceptGroup(x) \/ AcceptDbGroup(x) PROVE Plain
  <2>1. item = NoItem /\ built = {} /\ pending = {}
    BY <1>3, TakeFacts DEF AcceptGroup, AcceptDbGroup, TakeFromQueue
  <2>2. /\ UNCHANGED <<reported, links>> /\ item' = x /\ pending' = Asked(x) /\ pc' # "url"
        /\ x.type \in Referring
        /\ built' = built \/ built' \subseteq Parts("authorization", x)
    BY <1>3 DEF AcceptGroup, AcceptDbGroup, IsDbGroup, Referring
  <2>3. \A a \in Parts("authorization", x) : a.type \notin Related
    BY PartsOfNoRelation DEF Parts
  <2> QED
    BY <2>1, <2>2, <2>3, PlainBuilding DEF UrlsStay
<1> QED
  BY <1>1, <1>2, <1>3 DEF GroupsNext

LEMMA BalancersPlain == ASSUME IInv, Orderly, BalancersNext PROVE Plain
<1>1. CASE ListBalancers \/ BalancersFail \/ ListenersFail \/ TargetGroupsFail \/ \E x \in queue : RejectBalancer(x)
  <2>1. UNCHANGED <<reported, links, building>> /\ (pc' = "url" => pc = "url")
    BY <1>1 DEF ListBalancers, BalancersFail, ListenersFail, TargetGroupsFail, RejectBalancer, RejectItem, TakeFromQueue
  <2> QED
    BY <2>1, PlainQuiet
<1>2. ASSUME NEW x \in queue, AcceptClassic(x) \/ AcceptBalancer(x) PROVE Plain
  <2>1. item = NoItem /\ built = {} /\ pending = {} /\ x.type \in TypesOf(Pass) /\ Pass \in {"v1", "v2"}
    BY <1>2, TakeFacts, QueuedKind DEF AcceptClassic, AcceptBalancer, TakeFromQueue, IsClassic
  <2>2. /\ UNCHANGED <<reported, links>> /\ item' = x /\ pending' = Asked(x) /\ pc' # "url"
        /\ built' = built \/ built' = Whole(Parts("target", x) \cup Parts("listener", x))
    BY <1>2 DEF AcceptClassic, AcceptBalancer
  <2>3. \A y \in Whole(Parts("target", x) \cup Parts("listener", x)) : y.type \notin Related
    BY PartsOfNoRelation DEF Parts, Whole
  <2>4. x.type \in Referring
    BY <2>1 DEF TypesOf, FirstListing, Referring, RolePasses
  <2> QED
    BY <2>1, <2>2, <2>3, <2>4, PlainBuilding DEF UrlsStay
<1>3. CASE ListListeners
  <2>1. PICK batch \in SUBSET AwaitedParts("listener", item), brought \in SUBSET {c \in world.items : c.type = "certificate"} :
          built' = built \cup Whole(batch \cup brought \cup PartsOfAll("forward", Whole(batch)))
    <3>1. PICK batch \in SUBSET AwaitedParts("listener", item) :
            LET kept == Whole(batch)
                asked == {l \in kept : Defaults({l}) # {}}
            IN \E failing \in SUBSET asked : \E lost \in SUBSET Others(failing) :
                 LET brought == Defaults(kept) \cup (Others(asked) \ lost) IN
                 built' = built \cup Whole(batch \cup brought \cup PartsOfAll("forward", kept))
      BY <1>3 DEF ListListeners
    <3> DEFINE kept == Whole(batch)
               asked == {l \in kept : Defaults({l}) # {}}
    <3>2. PICK lost : built' = built \cup Whole(batch \cup (Defaults(kept) \cup (Others(asked) \ lost)) \cup PartsOfAll("forward", kept))
      BY <3>1
    <3>3. \A S : Defaults(S) \cup Others(S) \subseteq {c \in world.items : c.type = "certificate"}
      BY DEF Defaults, Others, PartsOfAll, Parts
    <3> QED
      BY <3>2, <3>3
  <2>2. \A y \in batch \cup brought \cup PartsOfAll("forward", Whole(batch)) : y.type \in {"listener", "certificate", "forward"}
    BY <2>1 DEF AwaitedParts, PartsOfAll, Parts
  <2>3. \A y \in built' : y \in built \/ y.type \notin Related
    BY <2>1, <2>2, PartsOfNoRelation DEF Whole
  <2>4. UNCHANGED <<reported, links, item, pending>> /\ pc' # "url"
    BY <1>3 DEF ListListeners
  <2> QED
    BY <2>1, <2>3, <2>4, PlainBuilding DEF UrlsStay
<1>4. CASE ListTargetGroups
  <2>1. PICK batch \in SUBSET AwaitedParts("target group", item), asked \in SUBSET AwaitedParts("target group", item) :
          built' = built \cup Whole(batch \cup PartsOfAll("target", asked))
    BY <1>4 DEF ListTargetGroups, Whole
  <2>2. \A y \in batch \cup PartsOfAll("target", asked) : y.type \in {"target group", "target"}
    BY DEF AwaitedParts, PartsOfAll, Parts
  <2>3. \A y \in built' : y \in built \/ y.type \notin Related
    BY <2>1, <2>2, PartsOfNoRelation DEF Whole
  <2>4. UNCHANGED <<reported, links, item, pending>> /\ pc' # "url"
    BY <1>4 DEF ListTargetGroups
  <2> QED
    BY <2>1, <2>3, <2>4, PlainBuilding DEF UrlsStay
<1> QED
  BY <1>1, <1>2, <1>3, <1>4 DEF BalancersNext

LEMMA WafPlain == ASSUME IInv, Orderly, WafNext PROVE Plain
<1>1. CASE \/ ListWebACLs \/ WebACLsFail \/ GetRulesFails \/ DistributionsFail \/ DistributionsDone
           \/ \E x \in queue : RejectACL(x)
  <2>1. UNCHANGED <<reported, links, building>> /\ (pc' = "url" => pc = "url")
    BY <1>1 DEF ListWebACLs, WebACLsFail, GetRulesFails, RulesRead, DistributionsFail, DistributionsDone, RejectACL,
                RejectItem, TakeFromQueue
  <2> QED
    BY <2>1, PlainQuiet
<1>2. ASSUME NEW x \in queue, AcceptACL(x) PROVE Plain
  <2>1. item = NoItem /\ pending = {} /\ x.type \in TypesOf(Pass) /\ Pass \in {"waf", "cloudfront"}
    BY <1>2, TakeFacts, QueuedKind DEF AcceptACL, TakeFromQueue, IsWafPass
  <2>2. UNCHANGED <<reported, links, built>> /\ item' = x /\ pc' # "url"
    BY <1>2 DEF AcceptACL
  <2>3. x.type \notin Related
    BY <2>1, PartsOfNoRelation DEF TypesOf, FirstListing, RolePasses
  <2> QED
    BY <2>1, <2>2, <2>3, PlainBuilding DEF UrlsStay
<1>3. ASSUME NEW x \in queue, BeginDistributions(x) PROVE Plain
  <2>1. pc = "distributions"
    BY <1>3 DEF BeginDistributions
  <2>2. item = NoItem /\ pending = {} /\ x.type = "web acl"
    BY <2>1 DEF IInv, GlobalInv, ItemsInv, TypeInv, Building, DistributionStages, IsGlobalACL
  <2>3. UNCHANGED <<reported, links, built>> /\ item' = x /\ pc' # "url"
    BY <1>3 DEF BeginDistributions
  <2> QED
    BY <2>2, <2>3, PartsOfNoRelation, PlainBuilding DEF UrlsStay
<1>4. CASE GetRules
  <2>1. UNCHANGED <<reported, links, item, pending>> /\ pc' # "url"
    BY <1>4 DEF GetRules, RulesRead
  <2>2. built' = built \cup {r \in Parts("acl rule", item) : RuleIsRead(r)}
    BY <1>4 DEF GetRules
  <2>3. \A y \in built' : y \in built \/ y.type \notin Related
    BY <2>2, PartsOfNoRelation DEF Parts
  <2> QED
    BY <2>1, <2>2, <2>3, PlainBuilding DEF UrlsStay
<1>5. CASE ListResources
  <2>1. UNCHANGED <<reported, links, item, pending>> /\ pc' # "url"
    BY <1>5 DEF ListResources
  <2>2. PICK failing \in SUBSET {"load balancer", "stage"} :
          built' = built \cup Whole(UNION {Parts(t, item) : t \in {"load balancer", "stage"} \ failing})
    BY <1>5 DEF ListResources
  <2>3. \A y \in UNION {Parts(t, item) : t \in {"load balancer", "stage"} \ failing} : y.type \notin Related
    BY PartsOfNoRelation DEF Parts
  <2>4. \A y \in built' : y \in built \/ y.type \notin Related
    BY <2>2, <2>3 DEF Whole
  <2> QED
    BY <2>1, <2>2, <2>4, PlainBuilding DEF UrlsStay
<1>6. CASE ListDistributions
  <2>1. UNCHANGED <<reported, links, item, pending>> /\ pc' # "url"
    BY <1>6 DEF ListDistributions
  <2>2. PICK batch \in SUBSET AwaitedParts("distribution", item) : built' = built \cup {d \in batch : Protected(d)}
    BY <1>6 DEF ListDistributions
  <2>3. \A y \in built' : y \in built \/ y.type \notin Related
    BY <2>2, PartsOfNoRelation DEF AwaitedParts
  <2> QED
    BY <2>1, <2>2, <2>3, PlainBuilding DEF UrlsStay
<1>7. CASE EndDistributions
  <2>1. /\ UNCHANGED <<links, pending>> /\ pc = "distributed" /\ pc' # "url"
        /\ reported' = reported \cup built /\ item' = NoItem /\ built' = {}
    BY <1>7 DEF EndDistributions
  <2>2. pending = {} /\ reported' \subseteq Known
    BY <2>1 DEF IInv, TypeInv, Known, Have
  <2> QED
    BY <2>1, <2>2, PlainReport
<1> QED
  BY <1>1, <1>2, <1>3, <1>4, <1>5, <1>6, <1>7 DEF WafNext

LEMMA ClustersPlain == ASSUME IInv, Orderly, ClustersNext, ~ReadObjects PROVE Plain
<1>1. CASE ListClusters \/ ClustersFail \/ NotReadable \/ ConnectFails \/ \E x \in queue : DescribeFails(x) \/ DescribesNone(x)
  <2>1. UNCHANGED <<reported, links, building>> /\ (pc' = "url" => pc = "url")
    BY <1>1 DEF ListClusters, ClustersFail, NotReadable, ConnectFails, DescribeFails, DescribesNone, RejectItem, TakeFromQueue
  <2> QED
    BY <2>1, PlainQuiet
<1>2. ASSUME NEW x \in queue, DescribeCluster(x) PROVE Plain
  <2>1. item = NoItem /\ pending = {} /\ x.type \in TypesOf(Pass) /\ Pass = "eks"
    BY <1>2, TakeFacts, QueuedKind DEF DescribeCluster, TakeFromQueue
  <2>2. UNCHANGED <<reported, links, built>> /\ item' = x /\ pending' = Asked(x) /\ pc' # "url"
    BY <1>2 DEF DescribeCluster
  <2>3. x.type \in Referring
    BY <2>1 DEF TypesOf, FirstListing, RolePasses, Referring
  <2> QED
    BY <2>1, <2>2, <2>3, PlainBuilding DEF UrlsStay
<1> QED
  BY <1>1, <1>2 DEF ClustersNext

LEMMA GlobalPlain == ASSUME IInv, Orderly, GlobalNext, ~ProcessOrigins PROVE Plain
<1>1. CASE \/ ListZones \/ ZonesFail \/ RecordsFail \/ ListRoles \/ RolesFail \/ AttachmentsFail \/ ListCdns \/ CdnsFail
           \/ ObjectsFail \/ \E x \in queue : RejectGlobal(x)
  <2>1. UNCHANGED <<reported, links, building>> /\ (pc' = "url" => pc = "url")
    BY <1>1 DEF ListZones, ZonesFail, RecordsFail, ListRoles, RolesFail, AttachmentsFail, ListCdns, CdnsFail,
                ObjectsFail, RejectGlobal, RejectItem, TakeFromQueue
  <2> QED
    BY <2>1, PlainQuiet
<1>2. ASSUME NEW x \in queue, AcceptZone(x) \/ AcceptRole(x) \/ ProcessDistribution(x) PROVE Plain
  <2>1. item = NoItem /\ pending = {} /\ x.type \in TypesOf(Pass) /\ Pass \in {"route53", "cdn", "roles", "own roles"}
    BY <1>2, TakeFacts, QueuedKind DEF AcceptZone, AcceptRole, ProcessDistribution, TakeFromQueue, RolePasses
  <2>2. x.type \notin Related
    BY <2>1, PartsOfNoRelation DEF TypesOf, FirstListing, RolePasses
  <2>3. UNCHANGED <<reported, links, built, pending>> /\ item' \in {item, x} /\ pc = "convert" /\ pc' # "url"
    BY <1>2 DEF AcceptZone, AcceptRole, ProcessDistribution, TakeFromQueue
  <2> QED
    BY <2>1, <2>2, <2>3, PlainBuilding DEF UrlsStay
<1>3. CASE LocateBucket
  <2>1. PICK x \in Awaited("bucket") : item' = x
    BY <1>3 DEF LocateBucket
  <2>2. UNCHANGED <<reported, links, built, pending>> /\ pc = "bucket" /\ pc' # "url"
    BY <1>3 DEF LocateBucket
  <2>3. item = NoItem /\ pending = {} /\ x.type = "bucket"
    BY <2>2 DEF IInv, ItemsInv, TypeInv, Building, Awaited
  <2> QED
    BY <2>1, <2>2, <2>3, PartsOfNoRelation, PlainBuilding DEF UrlsStay
<1>4. CASE ListRecords
  <2>1. UNCHANGED <<reported, links, item, pending>> /\ pc' # "url"
    BY <1>4 DEF ListRecords
  <2>2. PICK batch \in SUBSET AwaitedParts("record", item) :
          LET kept == {r \in batch : RecordConverts(r)} IN
          built' = built \cup kept \cup Whole(PartsOfAll("value", kept))
    BY <1>4 DEF ListRecords
  <2> DEFINE kept == {r \in batch : RecordConverts(r)}
  <2>3. built' = built \cup kept \cup Whole(PartsOfAll("value", kept))
    BY <2>2
  <2>4. \A y \in kept \cup Whole(PartsOfAll("value", kept)) : y.type \in {"record", "value"}
    BY DEF AwaitedParts, Whole, PartsOfAll, Parts
  <2>5. \A y \in built' : y \in built \/ y.type \notin Related
    BY <2>3, <2>4, PartsOfNoRelation
  <2> QED
    BY <2>1, <2>3, <2>5, PlainBuilding DEF UrlsStay
<1>5. CASE ListAttachments
  <2>1. UNCHANGED <<reported, links, item, pending>> /\ pc' # "url"
    BY <1>5 DEF ListAttachments
  <2>2. PICK batch \in SUBSET AwaitedParts("attachment", item), read \in SUBSET AwaitedParts("attachment", item) :
          built' = built \cup Whole(batch \cup PartsOfAll("document", read))
    BY <1>5 DEF ListAttachments, Whole
  <2>3. \A y \in batch \cup PartsOfAll("document", read) : y.type \in {"attachment", "document"}
    BY DEF AwaitedParts, PartsOfAll, Parts
  <2>4. \A y \in built' : y \in built \/ y.type \notin Related
    BY <2>2, <2>3, PartsOfNoRelation DEF Whole
  <2> QED
    BY <2>1, <2>2, <2>4, PlainBuilding DEF UrlsStay
<1>6. CASE ListObjects
  <2>1. UNCHANGED <<reported, links, item, pending>> /\ pc' # "url"
    BY <1>6 DEF ListObjects
  <2>2. PICK batch \in SUBSET AwaitedParts("object", item) : built' = built \cup {o \in batch : o.sized}
    BY <1>6 DEF ListObjects
  <2>3. \A y \in built' : y \in built \/ y.type \notin Related
    BY <2>2, PartsOfNoRelation DEF AwaitedParts
  <2> QED
    BY <2>1, <2>2, <2>3, PlainBuilding DEF UrlsStay
<1> QED
  BY <1>1, <1>2, <1>3, <1>4, <1>5, <1>6 DEF GlobalNext

LEMMA FunctionsPlain ==
  ASSUME IInv, Orderly, ListFunctions \/ FunctionsFail \/ URLsFail \/ \E x \in queue : RejectFunction(x)
  PROVE  Plain
<1>1. UNCHANGED <<reported, links, building>> /\ (pc' = "url" => pc = "url")
  BY DEF ListFunctions, FunctionsFail, URLsFail, RejectFunction, RejectItem, TakeFromQueue
<1> QED
  BY <1>1, PlainQuiet

LEMMA CommonPlain ==
  ASSUME IInv, Orderly, NextRegion \/ NextPass \/ ReferencesDone \/ AppendItem \/ QueueDone \/ UNCHANGED vars
  PROVE  Plain
<1>1. CASE ReferencesDone \/ UNCHANGED vars
  BY <1>1, PlainQuiet DEF ReferencesDone, vars
<1>2. CASE NextRegion \/ NextPass
  <2>1. pc = "region" /\ turn <= Len(world.passes)
    BY <1>2 DEF NextRegion, NextPass
  <2>2. Pass \in PassNames
    BY <2>1, PassIsNamed DEF IInv
  <2>3. pc' # "url"
    BY <1>2, <2>2 DEF NextRegion, NextPass, FirstListing, PassNames, RolePasses
  <2> QED
    BY <1>2, <2>3, PlainQuiet DEF NextRegion, NextPass
<1>3. CASE QueueDone
  <2>1. pc = "convert"
    BY <1>3 DEF QueueDone
  <2>2. Pass \in PassNames
    BY <2>1, PassIsNamed DEF IInv
  <2>3. pc' # "url"
    BY <1>3, <2>2 DEF QueueDone, FirstListing, PassNames, RolePasses
  <2> QED
    BY <1>3, <2>3, PlainQuiet DEF QueueDone
<1>4. CASE AppendItem
  <2>1. /\ UNCHANGED <<links, pending>> /\ pc = "append" /\ pc' # "url"
        /\ reported' = reported \cup built \cup {item} /\ item' = NoItem /\ built' = {}
    BY <1>4 DEF AppendItem
  <2>2. pending = {} /\ item # NoItem
    BY <2>1 DEF IInv, TypeInv, ItemsInv, Building
  <2>3. reported' \subseteq Known
    BY <2>1, <2>2 DEF Known, Have
  <2> QED
    BY <2>1, <2>2, <2>3, PlainReport
<1> QED
  BY <1>1, <1>2, <1>3, <1>4

(***************************************************************************)
(* The steps that relate.                                                  *)
(***************************************************************************)
LEMMA SubnetsRelated == ASSUME IInv, Orderly, Relations, ListSubnets PROVE Relations'
<1>1. PICK batch \in SUBSET Awaited("subnet"), last \in BOOLEAN :
        LET kept == {x \in batch : Identified(x)}
            joined == {x \in kept : Collected(x.vpc) # {}}
        IN /\ reported' = reported \cup joined \cup Whole(Associations(joined))
           /\ links' = links \cup {<<"subnet", x.vpc, x.name>> : x \in joined}
           /\ pc' = IF last THEN "region" ELSE "subnet"
  BY DEF ListSubnets
<1> DEFINE joined == {x \in {y \in batch : Identified(y)} : Collected(x.vpc) # {}}
           blocks == Whole(Associations(joined))
           types == {"subnet"}
<1>2. /\ reported' = reported \cup joined \cup blocks /\ pc' # "url"
      /\ links' = links \cup {<<"subnet", x.vpc, x.name>> : x \in joined}
      /\ UNCHANGED <<item, built, pending>>
  BY <1>1 DEF ListSubnets, building
<1>3. \A x \in joined : x.type = "subnet" /\ x.region = Region /\ Collected(x.vpc) # {}
  BY DEF Awaited
<1>4. \A x \in blocks : x.type = "association"
  BY DEF Whole, Associations, PartsOfAll, Parts
<1> HIDE DEF joined, blocks
<1>5. Changes(types, types)
  <2>1. \A x \in Known' : x \in Known \/ x.type \notin Related \/ x.type \in types
    BY <1>2, <1>3, <1>4, PartsOfNoRelation DEF Known, Have
  <2>2. \A x \in reported' : x \in reported \/ x.type # "origin"
    BY <1>2, <1>3, <1>4
  <2>3. \A l \in links' : l \in links \/ l[1] \in types
    BY <1>2
  <2> QED
    BY <1>2, <2>1, <2>2, <2>3 DEF Changes, Orderly, Have
<1>6. SubnetsInv'
  <2> SUFFICES ASSUME NEW s \in Known', s.type = "subnet"
               PROVE  /\ <<"subnet", s.vpc, s.name>> \in links'
                      /\ \E v \in reported' : v.type = "vpc" /\ v.name = s.vpc /\ v.region = s.region
    BY DEF SubnetsInv
  <2>1. CASE s \in Known
    BY <1>2, <2>1 DEF SubnetsInv, Relations
  <2>2. CASE s \in joined
    BY <1>2, <1>3, <2>2 DEF Collected
  <2> QED
    BY <1>2, <1>4, <2>1, <2>2 DEF Known, Have
<1>7. EndsReported'
  <2> SUFFICES ASSUME NEW l \in links', l[1] \in {"subnet", "targets", "runs"}, NEW i \in {2, 3}
               PROVE  \E x \in reported' \cup built' : x.name = l[i]
    BY DEF EndsReported
  <2>1. CASE l \in links
    BY <1>2, <2>1 DEF EndsReported, Relations
  <2>2. CASE l \notin links
    <3>1. PICK x \in joined : l = <<"subnet", x.vpc, x.name>>
      BY <1>2, <2>2
    <3>2. PICK v \in reported : v.name = x.vpc
      BY <1>3 DEF Collected
    <3> QED
      BY <1>2, <3>1, <3>2
  <2> QED
    BY <2>1, <2>2
<1>8. PendingStays /\ UrlsStay
  BY <1>2 DEF PendingStays, UrlsStay
<1>9. /\ types \cap Objects = {} /\ types \cap ObjectLinks = {} /\ types \cap Referring = {} /\ "origin" \notin types
      /\ types \cap Targeted = {} /\ "policy" \notin types
  BY DEF Objects, ObjectLinks, Referring, Targeted
<1> HIDE DEF types
<1> QED
  BY <1>5, <1>6, <1>7, <1>8, <1>9, ObjectsStay, ReferencesStay, OriginsStay, PoliciesStay DEF Relations

LEMMA ReferenceRelated == ASSUME IInv, Orderly, Relations, ResolveReference PROVE Relations'
<1>1. PICK id \in pending, answer \in RegionNames \cup {Failed} :
        IF answer # Failed
        THEN /\ links' = links \cup {<<"refers", item.name, id>>}
             /\ pending' = pending \ {id} /\ UNCHANGED errors
        ELSE /\ errors' = errors \cup {<<"unresolved", item.name, id>>}
             /\ pending' = pending \ ({id} \cup (IF id = item.vpc THEN item.subnets ELSE {}))
             /\ UNCHANGED links
  BY DEF ResolveReference
<1>2. UNCHANGED <<item, built, reported, pc>>
  BY DEF ResolveReference
<1> DEFINE none == {}
           kinds == {"refers"}
<1>3. Changes(none, kinds)
  <2>1. \A l \in links' : l \in links \/ l[1] \in kinds
    BY <1>1
  <2>2. links \subseteq links'
    BY <1>1
  <2> QED
    BY <1>2, <2>1, <2>2 DEF Changes, Orderly, Known, Have
<1>4. ReferencesInv'
  <2> SUFFICES ASSUME NEW x \in Known', x.type \in Referring, NEW i \in Asked(x)
               PROVE  ReferenceTold(x, i)' \/ (x = item' /\ i \in pending')
    BY DEF ReferencesInv, Asked
  <2>1. ReferenceTold(x, i) \/ (x = item /\ i \in pending)
    BY <1>2 DEF Relations, ReferencesInv, Known, Have
  <2>2. ReferenceTold(x, i) => ReferenceTold(x, i)'
    BY <1>3 DEF ReferenceTold, Changes
  <2>3. ASSUME x = item, i \in pending, i \notin pending' PROVE ReferenceTold(x, i)'
    <3>1. CASE i = id
      BY <1>1, <2>3, <3>1 DEF ReferenceTold
    <3>2. CASE i # id
      <4>1. answer = Failed /\ id = item.vpc /\ i \in item.subnets /\ <<"unresolved", item.name, id>> \in errors'
        BY <1>1, <2>3, <3>2
      <4> QED
        BY <2>3, <4>1 DEF ReferenceTold
    <3> QED
      BY <3>1, <3>2
  <2> QED
    BY <1>2, <2>1, <2>2, <2>3
<1>5. UrlsStay
  BY <1>2 DEF UrlsStay
<1>6. /\ \A x : x \notin none
      /\ kinds \cap ObjectLinks = {} /\ kinds \cap {"subnet", "targets", "runs"} = {} /\ "policy" \notin kinds
  BY DEF ObjectLinks
<1> HIDE DEF none, kinds
<1> QED
  BY <1>3, <1>4, <1>5, <1>6, SubnetsStay, ObjectsStay, EndsStay, OriginsStay, PoliciesStay DEF Relations

LEMMA OriginsRelated == ASSUME IInv, Orderly, Relations, ProcessOrigins PROVE Relations'
<1> DEFINE given == Parts("origin", item)
           asked == {o \in Whole(given) : Resolvable(o)}
<1>1. PICK failing \in SUBSET {o \in asked : o.kind # "s3"} :
        LET backends == PartsOfAll("backend", asked \ failing)
            missed == failing \cup {o \in asked : Parts("backend", o) = {}}
        IN /\ built' = built \cup Whole(given \cup backends)
           /\ errors' = errors \cup Rejections((given \cup backends) \ Whole(given \cup backends))
                               \cup {ListError("backend", o.name) : o \in missed}
  BY DEF ProcessOrigins
<1> DEFINE backends == PartsOfAll("backend", asked \ failing)
           missed == failing \cup {o \in asked : Parts("backend", o) = {}}
           found == given \cup backends
<1>2. /\ built' = built \cup Whole(found)
      /\ errors' = errors \cup Rejections(found \ Whole(found)) \cup {ListError("backend", o.name) : o \in missed}
      /\ UNCHANGED <<reported, links, item, pending>> /\ pc' # "url"
  BY <1>1 DEF ProcessOrigins
<1>3. \A y \in found : y.type = "origin" \/ y.type \notin Related
  BY PartsOfNoRelation DEF PartsOfAll, Parts
<1>4. \A o \in asked : ListError("backend", o.name) \in errors' \/ (o \notin failing /\ Parts("backend", o) # {})
  BY <1>2
<1>5. \A o \in asked \ failing : Parts("backend", o) \subseteq found
  BY DEF PartsOfAll
<1>6. \A o : o \in Whole(found) /\ o.type = "origin" /\ Resolvable(o) => o \in asked
  BY DEF Whole, PartsOfAll, Parts
<1>7. \A b \in found : b \in built' \/ <<"rejected", b.name, NoId>> \in errors'
  BY <1>2 DEF Rejections, Whole
<1> HIDE DEF given, asked, backends, missed, found
<1> DEFINE none == {}
           types == {"origin"}
<1>8. Changes(types, none)
  <2>1. \A x \in Known' : x \in Known \/ x.type \notin Related \/ x.type \in types
    BY <1>2, <1>3 DEF Known, Have, Whole
  <2> QED
    BY <1>2, <2>1 DEF Changes, Orderly, Have
<1>9. OriginsInv'
  <2>1. ASSUME NEW o \in reported', o.type = "origin", Resolvable(o) PROVE BackendTold(o, reported)'
    <3>1. BackendTold(o, reported)
      BY <1>2, <2>1 DEF Relations, OriginsInv
    <3> QED
      BY <1>2, <3>1 DEF BackendTold, Parts, Orderly
  <2>2. ASSUME NEW o \in Have', o.type = "origin", Resolvable(o) PROVE BackendTold(o, Have)'
    <3>1. CASE o \in Have
      <4>1. BackendTold(o, Have)
        BY <2>2, <3>1 DEF Relations, OriginsInv
      <4> QED
        BY <1>8, <4>1 DEF BackendTold, Parts, Changes
    <3>2. CASE o \in Whole(found)
      <4>1. o \in asked
        BY <1>6, <2>2, <3>2
      <4>2. CASE ListError("backend", o.name) \in errors'
        BY <4>2 DEF BackendTold
      <4>3. CASE o \notin failing /\ Parts("backend", o) # {}
        <5>1. PICK b \in Parts("backend", o) : b \in found
          BY <1>5, <4>1, <4>3
        <5>2. b \in Parts("backend", o)'
          BY <1>8 DEF Parts, Changes
        <5>3. b \in Have' \/ <<"rejected", b.name, NoId>> \in errors'
          BY <1>7, <5>1 DEF Have
        <5> QED
          BY <5>2, <5>3 DEF BackendTold
      <4> QED
        BY <1>4, <4>1, <4>2, <4>3
    <3> QED
      BY <1>2, <2>2, <3>1, <3>2 DEF Have
  <2> QED
    BY <2>1, <2>2 DEF OriginsInv
<1>10. PendingStays /\ UrlsStay
  BY <1>2 DEF PendingStays, UrlsStay
<1>11. /\ types \cap Objects = {} /\ types \cap Referring = {} /\ "subnet" \notin types
       /\ types \cap Targeted = {} /\ \A x : x \notin none
  BY DEF Objects, Referring, Targeted
<1> HIDE DEF types, none
<1> QED
  BY <1>8, <1>9, <1>10, <1>11, SubnetsStay, ObjectsStay, EndsStay, ReferencesStay, PoliciesStay DEF Relations

\* The objects of the cluster that is described have no relation yet.
LEMMA ObjectsToCome ==
  ASSUME IInv, ObjectsInv, pc = "kubernetes"
  PROVE  \A y \in world.items : y.type \in Objects /\ y.of = item.name => Untouched(y)
<1>1. item \in world.items /\ item.of = NoId /\ world \in Worlds
  BY ItemKind DEF Building
<1> SUFFICES ASSUME NEW y \in world.items, y.type \in Objects, y.of = item.name PROVE Untouched(y)
  OBVIOUS
<1>2. PartOfRoot(y, item)
  BY <1>1, PartsOfItems
<1>3. PartsToCome(y.type, item)
  <2>1. PartStages(y.type) = {"references", "kubernetes"}
    BY PartStagesAre DEF Objects
  <2> QED
    BY <2>1 DEF PartsToCome
<1> QED
  BY <1>1, <1>2, <1>3 DEF ObjectsInv

LEMMA ObjectsCame ==
  ASSUME IInv, Orderly, pc = "kubernetes", pc' = "append", UNCHANGED <<queue, item>>, NEW t \in Objects
  PROVE  ~PartsToCome(t, item)'
<1>1. item \notin queue /\ item \notin undelivered'
  BY DEF IInv, ItemsInv, Building, Orderly
<1>2. PartStages(t) = {"references", "kubernetes"} /\ t # "distribution"
  BY PartStagesAre DEF Objects
<1>3. ~RootOpen(item)'
  BY <1>1 DEF RootOpen
<1> QED
  BY <1>1, <1>2, <1>3 DEF PartsToCome

LEMMA JoinsAre ==
  ASSUME NEW xs, NEW pods
  PROVE  /\ \A j : j \in ServicePods(xs, pods) <=> \E s \in Whole(xs), p \in Whole(pods) : j = <<s, p>> /\ Selects(s, p)
         /\ \A j : j \in NodePods(xs, pods) <=> \E n \in Whole(xs), p \in Whole(pods) : j = <<n, p>> /\ p.node = n.host
BY DEF ServicePods, NodePods

Serving(by, services, pods) == {<<by, j[2].name, j[1].name>> : j \in ServicePods(services, pods)}
Joined(services, pods, external) == {k \in ServicePods(services, pods) : k[1] \in external}
Targeting(services, pods, external) ==
  {<<"targets", j[1].name, j[2].name>> : j \in Joined(services, pods, external)}
Running(nodes, pods) == {<<"runs", j[1].name, j[2].name>> : j \in NodePods(nodes, pods)}

LEMMA ServingIs ==
  ASSUME NEW by, NEW services, NEW pods, NEW l
  PROVE  l \in Serving(by, services, pods) <=>
           \E p \in Whole(pods), s \in Whole(services) : Selects(s, p) /\ l = <<by, p.name, s.name>>
<1>1. ASSUME l \in Serving(by, services, pods)
      PROVE  \E p \in Whole(pods), s \in Whole(services) : Selects(s, p) /\ l = <<by, p.name, s.name>>
  <2>1. PICK j \in ServicePods(services, pods) : l = <<by, j[2].name, j[1].name>>
    BY <1>1 DEF Serving
  <2> QED
    BY <2>1, JoinsAre
<1>2. ASSUME NEW p \in Whole(pods), NEW s \in Whole(services), Selects(s, p), l = <<by, p.name, s.name>>
      PROVE  l \in Serving(by, services, pods)
  <2>1. <<s, p>> \in ServicePods(services, pods)
    BY <1>2, JoinsAre
  <2> QED
    BY <1>2, <2>1 DEF Serving
<1> QED
  BY <1>1, <1>2

LEMMA TargetingIs ==
  ASSUME NEW services, NEW pods, NEW external, NEW l
  PROVE  l \in Targeting(services, pods, external) <=>
           \E s \in Whole(services), p \in Whole(pods) :
             Selects(s, p) /\ s \in external /\ l = <<"targets", s.name, p.name>>
<1>1. ASSUME l \in Targeting(services, pods, external)
      PROVE  \E s \in Whole(services), p \in Whole(pods) :
               Selects(s, p) /\ s \in external /\ l = <<"targets", s.name, p.name>>
  <2>1. PICK j \in Joined(services, pods, external) : l = <<"targets", j[1].name, j[2].name>>
    BY <1>1 DEF Targeting
  <2>2. j \in ServicePods(services, pods) /\ j[1] \in external
    BY DEF Joined
  <2> QED
    BY <2>1, <2>2, JoinsAre
<1>2. ASSUME NEW s \in Whole(services), NEW p \in Whole(pods), Selects(s, p), s \in external, l = <<"targets", s.name, p.name>>
      PROVE  l \in Targeting(services, pods, external)
  <2>1. <<s, p>> \in Joined(services, pods, external)
    BY <1>2, JoinsAre DEF Joined
  <2> QED
    BY <1>2, <2>1 DEF Targeting
<1> QED
  BY <1>1, <1>2

LEMMA RunningIs ==
  ASSUME NEW nodes, NEW pods, NEW l
  PROVE  l \in Running(nodes, pods) <=>
           \E n \in Whole(nodes), p \in Whole(pods) : p.node = n.host /\ l = <<"runs", n.name, p.name>>
<1>1. ASSUME l \in Running(nodes, pods)
      PROVE  \E n \in Whole(nodes), p \in Whole(pods) : p.node = n.host /\ l = <<"runs", n.name, p.name>>
  <2>1. PICK j \in NodePods(nodes, pods) : l = <<"runs", j[1].name, j[2].name>>
    BY <1>1 DEF Running
  <2> QED
    BY <2>1, JoinsAre
<1>2. ASSUME NEW n \in Whole(nodes), NEW p \in Whole(pods), p.node = n.host, l = <<"runs", n.name, p.name>>
      PROVE  l \in Running(nodes, pods)
  <2>1. <<n, p>> \in NodePods(nodes, pods)
    BY <1>2, JoinsAre
  <2> QED
    BY <1>2, <2>1 DEF Running
<1> QED
  BY <1>1, <1>2

LEMMA SomeObjectsRelated == ASSUME IInv, Orderly, Relations, ReadObjects PROVE Relations'
<1> DEFINE Objs == {x \in world.items : x.type \in Objects /\ x.of = item.name}
<1>0. /\ pc = "kubernetes" /\ pc' = "append" /\ world \in Worlds /\ item \in world.items
      /\ UNCHANGED <<queue, item, pending, reported>>
  BY ItemKind DEF ReadObjects, Building
<1>1. PICK failing \in SUBSET Objects :
        LET Listed(t) == IF t \in failing THEN {} ELSE Parts(t, item)
            external == {s \in Listed("service") : External(s)}
            found == Listed("pod") \cup Listed("node") \cup external
            serving == ServicePods(Listed("service"), Listed("pod"))
        IN /\ built' = built \cup Whole(found)
           /\ links' = links
                \cup {<<"served by", j[2].name, j[1].name>> : j \in serving}
                \cup {<<"targets", j[1].name, j[2].name>> : j \in {k \in serving : k[1] \in external}}
                \cup {<<"runs", j[1].name, j[2].name>> : j \in NodePods(Listed("node"), Listed("pod"))}
  BY DEF ReadObjects
<1> DEFINE Listed(t) == IF t \in failing THEN {} ELSE Parts(t, item)
           services == Listed("service")
           pods == Listed("pod")
           nodes == Listed("node")
           external == {s \in services : External(s)}
           found == pods \cup nodes \cup external
           by == "served by"
           served == Serving(by, services, pods)
           targets == Targeting(services, pods, external)
           runs == Running(nodes, pods)
<1>2. built' = built \cup Whole(found) /\ links' = links \cup served \cup targets \cup runs
  BY <1>1 DEF Serving, Targeting, Joined, Running
<1>3. /\ services \cup pods \cup nodes \subseteq Objs /\ external \subseteq services
      /\ \A x \in services : x.type = "service"
      /\ \A x \in pods : x.type = "pod"
      /\ \A x \in nodes : x.type = "node"
  BY DEF Parts, Objects
<1>4. by \notin {"subnet", "targets", "runs", "policy"} /\ by \in ObjectLinks
  BY DEF ObjectLinks
<1> HIDE DEF Listed, by
<1>5. \A l \in served : \E p \in Whole(pods), s \in Whole(services) : Selects(s, p) /\ l = <<by, p.name, s.name>>
  BY ServingIs
<1>6. \A p \in Whole(pods), s \in Whole(services) : Selects(s, p) => <<by, p.name, s.name>> \in served
  BY ServingIs
<1>7. \A l \in targets :
        \E s \in Whole(services), p \in Whole(pods) : Selects(s, p) /\ s \in external /\ l = <<"targets", s.name, p.name>>
  BY TargetingIs
<1>8. \A s \in Whole(services), p \in Whole(pods) : Selects(s, p) /\ s \in external => <<"targets", s.name, p.name>> \in targets
  BY TargetingIs
<1>9. \A l \in runs : \E n \in Whole(nodes), p \in Whole(pods) : p.node = n.host /\ l = <<"runs", n.name, p.name>>
  BY RunningIs
<1>10. \A n \in Whole(nodes), p \in Whole(pods) : p.node = n.host => <<"runs", n.name, p.name>> \in runs
  BY RunningIs
<1> HIDE DEF services, pods, nodes, external, served, targets, runs
<1>11. \A l \in served : l[1] = by
  BY <1>5
<1>12. \A l \in targets : l[1] = "targets"
  BY <1>7
<1>13. \A l \in runs : l[1] = "runs"
  BY <1>9
<1>14. \A y \in Objs : Untouched(y)
  BY <1>0, ObjectsToCome DEF Relations
<1>15. \A x, y \in world.items : x.name = y.name => x = y
  BY KnownFacts
<1>16. ASSUME NEW l \in served \cup targets \cup runs
      PROVE  l[1] \in ObjectLinks /\ \E x, y \in Objs : l[2] = x.name /\ l[3] = y.name
  <2>1. l[1] \in ObjectLinks
    BY <1>11, <1>12, <1>13, <1>4 DEF ObjectLinks
  <2>2. Whole(services) \cup Whole(pods) \cup Whole(nodes) \subseteq Objs
    BY <1>3 DEF Whole
  <2>3. CASE l \in served
    <3>1. PICK p \in Whole(pods), s \in Whole(services) : l = <<by, p.name, s.name>>
      BY <1>5, <2>3
    <3> QED
      BY <2>1, <2>2, <3>1
  <2>4. CASE l \in targets
    <3>1. PICK s \in Whole(services), p \in Whole(pods) : l = <<"targets", s.name, p.name>>
      BY <1>7, <2>4
    <3> QED
      BY <2>1, <2>2, <3>1
  <2>5. CASE l \in runs
    <3>1. PICK s \in Whole(nodes), p \in Whole(pods) : l = <<"runs", s.name, p.name>>
      BY <1>9, <2>5
    <3> QED
      BY <2>1, <2>2, <3>1
  <2> QED
    BY <2>3, <2>4, <2>5
<1> DEFINE kinds == ObjectLinks
           types == Objects
<1>17. Changes(types, kinds)
  <2>1. \A x \in Known' : x \in Known \/ x.type \in types
    BY <1>0, <1>2, <1>3 DEF Known, Have, Whole
  <2>2. \A l \in links' : l \in links \/ l[1] \in kinds
    BY <1>2, <1>16
  <2>3. reported' = reported /\ Have \subseteq Have' /\ links \subseteq links'
    BY <1>0, <1>2 DEF Have
  <2> QED
    BY <2>1, <2>2, <2>3 DEF Changes, Orderly
<1>18. \A o, p \in world'.items : PartOfRoot(o, p) /\ o.type \in Objects /\ PartsToCome(o.type, p)' => Untouched(o)'
  <2> SUFFICES ASSUME NEW o \in world.items, NEW p \in world.items, PartOfRoot(o, p), o.type \in Objects, PartsToCome(o.type, p)'
               PROVE  Untouched(o)'
    BY DEF Orderly
  <2>1. Untouched(o)
    BY DEF Orderly, Relations, ObjectsInv
  <2>2. p # item
    BY <1>0, ObjectsCame
  <2>3. o.of # item.name
    BY <1>0, <1>15, <2>2 DEF PartOfRoot
  <2>4. o \notin Objs
    BY <2>3
  <2>5. o \notin Known'
    BY <1>0, <1>2, <1>3, <2>1, <2>4 DEF Untouched, Known, Have, Whole
  <2>6. \A l \in served \cup targets \cup runs : l[2] # o.name /\ l[3] # o.name
    BY <1>15, <1>16, <2>4
  <2> QED
    BY <1>2, <2>1, <2>5, <2>6 DEF Untouched
<1>19. ASSUME NEW x \in Known', x.type \in Objects
       PROVE  \/ x \in Known /\ x \notin Objs /\ x.of # item.name /\ x \in world.items
              \/ x \in Objs /\ x.of = item.name /\ x \in Whole(found) /\ Untouched(x)
  <2>1. x \in Known \/ x \in Whole(found)
    BY <1>0, <1>2 DEF Known, Have
  <2>2. CASE x \in Known
    <3>1. x \in world.items
      BY <2>2, KnownFacts
    <3>2. x \notin Objs
      BY <1>14, <2>2 DEF Untouched
    <3> QED
      BY <1>19, <2>2, <3>1, <3>2
  <2>3. CASE x \in Whole(found)
    BY <1>3, <1>14, <2>3 DEF Whole
  <2> QED
    BY <2>1, <2>2, <2>3
<1>20. \A s, p \in Known : s.type = "service" /\ p.type = "pod" =>
         /\ <<"targets", s.name, p.name>> \in links <=> s.of = p.of /\ Selects(s, p)
         /\ <<by, p.name, s.name>> \in links <=> s.of = p.of /\ Selects(s, p)
  BY DEF Relations, ObjectsInv, by
<1>21. ASSUME NEW s \in Known', NEW p \in Known', s.type = "service", p.type = "pod"
       PROVE  /\ <<"targets", s.name, p.name>> \in links' <=> s.of = p.of /\ Selects(s, p)
              /\ <<by, p.name, s.name>> \in links' <=> s.of = p.of /\ Selects(s, p)
  <2> DEFINE to == <<"targets", s.name, p.name>>
             back == <<by, p.name, s.name>>
  <2>0. to[1] = "targets" /\ back[1] = by /\ to[2] = s.name /\ to[3] = p.name /\ back[2] = p.name /\ back[3] = s.name
    OBVIOUS
  <2>1. (to \in links' <=> to \in links \/ to \in targets) /\ (back \in links' <=> back \in links \/ back \in served)
    <3>1. to \notin served \cup runs /\ back \notin targets \cup runs
      BY <1>11, <1>12, <1>13, <1>4, <2>0
    <3> QED
      BY <1>2, <3>1
  <2>2. s.type \in Objects /\ p.type \in Objects /\ s \in world.items /\ p \in world.items
    BY <1>19, <1>21 DEF Objects
  <2>3. to \in targets \/ back \in served => s \in Whole(services) /\ p \in Whole(pods) /\ Selects(s, p)
    <3>1. ASSUME to \in targets PROVE s \in Whole(services) /\ p \in Whole(pods) /\ Selects(s, p)
      <4>1. PICK a \in Whole(services), b \in Whole(pods) : Selects(a, b) /\ to = <<"targets", a.name, b.name>>
        BY <1>7, <3>1
      <4>2. a \in world.items /\ b \in world.items /\ a.name = s.name /\ b.name = p.name
        BY <1>3, <2>0, <4>1 DEF Whole
      <4> QED
        BY <1>15, <2>2, <4>1, <4>2
    <3>2. ASSUME back \in served PROVE s \in Whole(services) /\ p \in Whole(pods) /\ Selects(s, p)
      <4>1. PICK b \in Whole(pods), a \in Whole(services) : Selects(a, b) /\ back = <<by, b.name, a.name>>
        BY <1>5, <3>2
      <4>2. a \in world.items /\ b \in world.items /\ a.name = s.name /\ b.name = p.name
        BY <1>3, <2>0, <4>1 DEF Whole
      <4> QED
        BY <1>15, <2>2, <4>1, <4>2
    <3> QED
      BY <3>1, <3>2
  <2>4. Untouched(s) \/ Untouched(p) => to \notin links /\ back \notin links
    BY <1>4, <2>0 DEF Untouched, ObjectLinks
  <2>5. CASE s \in Objs /\ p \in Objs
    <3>1. s.of = p.of /\ s \in Whole(found) /\ p \in Whole(found) /\ Untouched(s)
      BY <1>19, <2>2, <2>5
    <3>2. s \in external /\ s \in Whole(services) /\ p \in Whole(pods)
      BY <1>3, <1>21, <3>1 DEF Whole
    <3>3. Selects(s, p) => to \in targets /\ back \in served
      BY <1>6, <1>8, <3>2
    <3> QED
      BY <2>1, <2>3, <2>4, <3>1, <3>3
  <2>6. CASE ~(s \in Objs /\ p \in Objs)
    <3>1. to \notin targets /\ back \notin served
      BY <1>3, <2>3, <2>6 DEF Whole
    <3>2. CASE s \in Known /\ p \in Known
      BY <1>21, <1>20, <2>1, <3>1, <3>2
    <3>3. CASE ~(s \in Known /\ p \in Known)
      <4>1. (Untouched(s) \/ Untouched(p)) /\ s.of # p.of
        BY <1>19, <2>2, <2>6, <3>3
      <4> QED
        BY <2>1, <2>4, <3>1, <4>1
    <3> QED
      BY <3>2, <3>3
  <2> QED
    BY <2>5, <2>6
<1>22. ASSUME NEW n \in Known', NEW p \in Known', n.type = "node", p.type = "pod"
       PROVE  <<"runs", n.name, p.name>> \in links' <=> n.of = p.of /\ p.node = n.host
  <2> DEFINE on == <<"runs", n.name, p.name>>
  <2>0. on[1] = "runs" /\ on[2] = n.name /\ on[3] = p.name
    OBVIOUS
  <2>1. on \in links' <=> on \in links \/ on \in runs
    <3>1. on \notin served \cup targets
      BY <1>11, <1>12, <1>13, <1>4, <2>0
    <3> QED
      BY <1>2, <3>1
  <2>2. n.type \in Objects /\ p.type \in Objects /\ n \in world.items /\ p \in world.items
    BY <1>19, <1>22 DEF Objects
  <2>3. ASSUME on \in runs PROVE n \in Whole(nodes) /\ p \in Whole(pods) /\ p.node = n.host
    <3>1. PICK a \in Whole(nodes), b \in Whole(pods) : b.node = a.host /\ on = <<"runs", a.name, b.name>>
      BY <1>9, <2>3
    <3>2. a \in world.items /\ b \in world.items /\ a.name = n.name /\ b.name = p.name
      BY <1>3, <2>0, <3>1 DEF Whole
    <3> QED
      BY <1>15, <2>2, <3>1, <3>2
  <2>4. Untouched(n) \/ Untouched(p) => on \notin links
    BY <2>0 DEF Untouched, ObjectLinks
  <2>5. CASE n \in Objs /\ p \in Objs
    <3>1. n.of = p.of /\ n \in Whole(found) /\ p \in Whole(found) /\ Untouched(n)
      BY <1>19, <2>2, <2>5
    <3>2. n \in Whole(nodes) /\ p \in Whole(pods)
      BY <1>3, <1>22, <3>1 DEF Whole
    <3>3. p.node = n.host => on \in runs
      BY <1>10, <3>2
    <3> QED
      BY <2>1, <2>3, <2>4, <3>1, <3>3
  <2>6. CASE ~(n \in Objs /\ p \in Objs)
    <3>1. on \notin runs
      BY <1>3, <2>3, <2>6 DEF Whole
    <3>2. CASE n \in Known /\ p \in Known
      BY <1>22, <2>1, <3>1, <3>2 DEF Relations, ObjectsInv
    <3>3. CASE ~(n \in Known /\ p \in Known)
      <4>1. (Untouched(n) \/ Untouched(p)) /\ n.of # p.of
        BY <1>19, <2>2, <2>6, <3>3
      <4> QED
        BY <2>1, <2>4, <3>1, <4>1
    <3> QED
      BY <3>2, <3>3
  <2> QED
    BY <2>5, <2>6
<1>23. ObjectsInv'
  BY <1>18, <1>21, <1>22 DEF ObjectsInv, by
<1>24. EndsReported'
  <2> SUFFICES ASSUME NEW l \in links', l[1] \in {"subnet", "targets", "runs"}, NEW i \in {2, 3}
               PROVE  \E x \in reported' \cup built' : x.name = l[i]
    BY DEF EndsReported
  <2>1. CASE l \in links
    BY <1>0, <1>2, <2>1 DEF EndsReported, Relations
  <2>2. CASE l \in targets \cup runs
    <3>0. Whole(external) \cup Whole(pods) \cup Whole(nodes) \subseteq Whole(found)
      BY DEF Whole
    <3>1. PICK a \in Whole(found), b \in Whole(found) : l[2] = a.name /\ l[3] = b.name
      <4>1. CASE l \in targets
        <5>1. PICK s \in Whole(services), p \in Whole(pods) : s \in external /\ l = <<"targets", s.name, p.name>>
          BY <1>7, <4>1
        <5>2. s \in Whole(external)
          BY <5>1 DEF Whole
        <5> QED
          BY <3>0, <5>1, <5>2
      <4>2. CASE l \in runs
        <5>1. PICK s \in Whole(nodes), p \in Whole(pods) : l = <<"runs", s.name, p.name>>
          BY <1>9, <4>2
        <5> QED
          BY <3>0, <5>1
      <4> QED
        BY <2>2, <4>1, <4>2
    <3> QED
      BY <1>2, <3>1
  <2>3. l \notin served
    BY <1>11, <1>4
  <2> QED
    BY <1>2, <2>1, <2>2, <2>3
<1>25. PendingStays /\ UrlsStay
  BY <1>0 DEF PendingStays, UrlsStay
<1>26. /\ "subnet" \notin types /\ "origin" \notin types /\ types \cap Referring = {} /\ types \cap Targeted = {}
       /\ "policy" \notin kinds
  BY DEF Objects, ObjectLinks, Referring, Targeted
<1> HIDE DEF types, kinds
<1> QED
  BY <1>17, <1>23, <1>24, <1>25, <1>26, SubnetsStay, ReferencesStay, OriginsStay, PoliciesStay DEF Relations

\* What is documented has a link, what is malformed an error.
LEMMA PoliciesAre ==
  ASSUME NEW xs, NEW failing
  PROVE  /\ \A l \in PolicyLinks(xs) : l[1] = "policy" /\ \E x \in xs : l = <<"policy", x.name, x.policy>>
         /\ \A x \in xs : \/ <<"policy", x.name, x.policy>> \in PolicyLinks(xs) \/ x.policy = "none"
                          \/ <<"policy", x.target, NoId>> \in PolicyErrors(xs, failing)
         /\ \A t \in failing : <<"policy", t, NoId>> \in PolicyErrors(xs, failing)
<1>1. \A l \in PolicyLinks(xs) : l[1] = "policy" /\ \E x \in xs : l = <<"policy", x.name, x.policy>>
  BY DEF PolicyLinks, Documented
<1>2. ASSUME NEW x \in xs, x.policy \notin {"none", "malformed"} PROVE <<"policy", x.name, x.policy>> \in PolicyLinks(xs)
  BY <1>2 DEF PolicyLinks, Documented
<1>3. ASSUME NEW x \in xs, x.policy = "malformed" PROVE <<"policy", x.target, NoId>> \in PolicyErrors(xs, failing)
  BY <1>3 DEF PolicyErrors
<1>4. \A t \in failing : <<"policy", t, NoId>> \in PolicyErrors(xs, failing)
  BY DEF PolicyErrors
<1> QED
  BY <1>1, <1>2, <1>3, <1>4

LEMMA FunctionRelated ==
  ASSUME IInv, Orderly, Relations, NEW x \in queue, AcceptFunction(x)
  PROVE  Relations'
<1>1. /\ pc = "convert" /\ Pass = "lambda" /\ item = NoItem /\ built = {} /\ pending = {} /\ x \in world.items
      /\ x.type \in TypesOf(Pass)
  BY TakeFacts, QueuedKind DEF AcceptFunction, TakeFromQueue
<1>2. x.type = "function"
  BY <1>1 DEF TypesOf, FirstListing, RolePasses
<1>3. /\ UNCHANGED <<built, pending, reported>> /\ item' = x /\ pc' = "url"
      /\ \/ links' = links \cup PolicyLinks({x}) /\ errors' = errors \cup PolicyErrors({x}, {})
         \/ UNCHANGED links /\ errors' = errors \cup PolicyErrors({}, {x.target})
  BY DEF AcceptFunction
<1> DEFINE types == {"function"}
           kinds == {"policy"}
<1>4. \A l \in links' : l \in links \/ l = <<"policy", x.name, x.policy>>
  <2>1. ASSUME NEW l \in PolicyLinks({x}) PROVE l = <<"policy", x.name, x.policy>>
    <3>1. PICK y \in {x} : l = <<"policy", y.name, y.policy>>
      BY PoliciesAre
    <3> QED
      BY <3>1
  <2> QED
    BY <1>3, <2>1
<1>5. Changes(types, kinds)
  <2>1. \A l \in links' : l \in links \/ l[1] \in kinds
    BY <1>4
  <2>2. \A y \in Known' : y \in Known \/ y.type \in types
    BY <1>2, <1>3 DEF Known, Have
  <2> QED
    BY <1>3, <2>1, <2>2 DEF Changes, Orderly, Have
<1>6. PolicyTold(x)'
  <2>1. CASE links' = links \cup PolicyLinks({x}) /\ errors' = errors \cup PolicyErrors({x}, {})
    <3>1. \/ <<"policy", x.name, x.policy>> \in PolicyLinks({x}) \/ x.policy = "none"
          \/ <<"policy", x.target, NoId>> \in PolicyErrors({x}, {})
      BY PoliciesAre
    <3> QED
      BY <2>1, <3>1 DEF PolicyTold
  <2>2. CASE errors' = errors \cup PolicyErrors({}, {x.target})
    <3>1. <<"policy", x.target, NoId>> \in PolicyErrors({}, {x.target})
      BY PoliciesAre
    <3> QED
      BY <2>2, <3>1 DEF PolicyTold
  <2> QED
    BY <1>3, <2>1, <2>2
<1>7. PoliciesInv'
  <2>1. ASSUME NEW l \in links', l[1] = "policy", NEW y \in world.items, y.type \in Targeted, y.name = l[2]
        PROVE  y.policy = l[3]
    <3>1. CASE l \in links
      BY <2>1, <3>1 DEF Relations, PoliciesInv
    <3>2. CASE l = <<"policy", x.name, x.policy>>
      <4>1. y = x
        BY <1>1, <2>1, <3>2, KnownFacts
      <4> QED
        BY <3>2, <4>1
    <3> QED
      BY <1>4, <3>1, <3>2
  <2>2. ASSUME NEW y \in Known', y.type \in Targeted PROVE PolicyTold(y)'
    <3>1. y \in Known \/ y = x
      BY <1>3 DEF Known, Have
    <3>2. PolicyTold(y) => PolicyTold(y)'
      BY <1>5 DEF PolicyTold, Changes
    <3> QED
      BY <1>6, <2>2, <3>1, <3>2 DEF Relations, PoliciesInv
  <2>3. \A y \in built' : y.type = "url"
    BY <1>1, <1>3
  <2> QED
    BY <2>1, <2>2, <2>3 DEF PoliciesInv, Orderly
<1>8. PendingStays
  BY <1>1 DEF PendingStays
<1>9. /\ types \cap Objects = {} /\ types \cap Referring = {} /\ "origin" \notin types /\ "subnet" \notin types
      /\ kinds \cap ObjectLinks = {} /\ kinds \cap {"subnet", "targets", "runs"} = {}
  BY DEF Objects, Referring, ObjectLinks
<1> HIDE DEF types, kinds
<1> QED
  BY <1>5, <1>7, <1>8, <1>9, SubnetsStay, ObjectsStay, EndsStay, ReferencesStay, OriginsStay DEF Relations

LEMMA URLsRelated == ASSUME IInv, Orderly, Relations, ListURLs PROVE Relations'
<1>1. pc = "url" /\ world \in Worlds /\ item \in world.items /\ item.type \in TypesOf(Pass) /\ Pass = "lambda"
  BY ItemKind, StageFacts DEF ListURLs, Building, IInv
<1>2. item.type = "function" /\ item \in Known
  <2>1. item.type = "function"
    BY <1>1 DEF TypesOf, FirstListing, RolePasses
  <2> QED
    BY <1>1, <2>1 DEF IInv, ItemsInv, Building, Known
<1>3. PICK batch \in SUBSET AwaitedParts("url", item), last \in BOOLEAN :
        LET asked == {u \in Whole(batch) : u.target \notin Remembered}
            known == Whole(batch) \ asked
        IN \E failing \in SUBSET {u.target : u \in asked} :
             LET answered == {u \in asked : u.target \notin failing}
             IN /\ built' = built \cup Whole(batch)
                /\ links' = links \cup PolicyLinks(answered)
                                  \cup UNION {{<<"policy", u.name, d>> : d \in Document(u.target)} : u \in known}
                /\ errors' = errors \cup Rejections(batch \ Whole(batch)) \cup PolicyErrors(answered, failing)
                /\ pc' = IF last THEN "append" ELSE "url"
  BY DEF ListURLs
<1> DEFINE asked == {u \in Whole(batch) : u.target \notin Remembered}
           known == Whole(batch) \ asked
<1>4. PICK failing :
        LET answered == {u \in asked : u.target \notin failing}
        IN /\ built' = built \cup Whole(batch)
           /\ links' = links \cup PolicyLinks(answered)
                             \cup UNION {{<<"policy", u.name, d>> : d \in Document(u.target)} : u \in known}
           /\ errors' = errors \cup Rejections(batch \ Whole(batch)) \cup PolicyErrors(answered, failing)
  BY <1>3
<1> DEFINE answered == {u \in asked : u.target \notin failing}
           again == UNION {{<<"policy", u.name, d>> : d \in Document(u.target)} : u \in known}
<1>5. /\ built' = built \cup Whole(batch) /\ links' = links \cup PolicyLinks(answered) \cup again
      /\ errors' = errors \cup Rejections(batch \ Whole(batch)) \cup PolicyErrors(answered, failing)
      /\ UNCHANGED <<item, pending, reported>>
  BY <1>4 DEF ListURLs
<1>6. \A u \in Whole(batch) : u.type = "url" /\ u \in world.items
  BY DEF AwaitedParts, Whole, IInv, ItemsInv
<1>7. answered \subseteq Whole(batch) /\ known \subseteq Whole(batch)
  OBVIOUS
<1>8. \A u \in Whole(batch) : u \in answered \/ u.target \in failing \/ (u \in known /\ u.target \in Remembered)
  OBVIOUS
<1>9. /\ \A l \in again : \E u \in known : \E d \in Document(u.target) : l = <<"policy", u.name, d>>
      /\ \A u \in known : \A d \in Document(u.target) : <<"policy", u.name, d>> \in again
  OBVIOUS
<1>10. ASSUME NEW t, NEW d \in Document(t)
       PROVE  \E m \in links, x \in built \cup {item} : m[1] = "policy" /\ m[2] = x.name /\ m[3] = d /\ x.target = t
  BY DEF Document
<1>11. ASSUME NEW x \in built \cup {item}, NEW d, <<"policy", x.name, d>> \in links
       PROVE  d \in Document(x.target)
  <2> DEFINE m == <<"policy", x.name, d>>
  <2>1. m[1] = "policy" /\ m[2] = x.name /\ m[3] = d /\ m \in links
    BY <1>11
  <2> HIDE DEF m
  <2> QED
    BY <2>1 DEF Document
<1>12. \A x \in built \cup {item} : x \in Known /\ x \in world.items /\ x.type \in {"function", "url"}
  <2>1. \A x \in built : x.type = "url" /\ x \in Known
    BY <1>1 DEF Relations, PoliciesInv, Known, Have
  <2> QED
    BY <1>1, <1>2, <2>1, KnownFacts
<1>13. \A x, y \in world.items : x.name = y.name => x = y
  BY KnownFacts
<1>14. ASSUME NEW u \in Whole(batch), NEW x \in built \cup {item}, x.target = u.target
       PROVE  x.policy = u.policy
  <2>1. {x.type, u.type} \subseteq {"function", "url"} /\ u \in world.items /\ x \in world.items
    BY <1>6, <1>12
  <2>2. \A a, b \in world.items : {a.type, b.type} \subseteq {"function", "url"} => (a.target = b.target => a.policy = b.policy)
    BY <1>1, WorldAssumption
  <2>3. {x.type, u.type} \subseteq {"function", "url"} => (x.target = u.target => x.policy = u.policy)
    BY <2>1, <2>2
  <2> QED
    BY <1>14, <2>1, <2>3
<1> HIDE DEF asked, known, answered, again
<1> DEFINE types == {"url"}
           kinds == {"policy"}
<1>15. \A l \in links' : l \in links \/ \E u \in Whole(batch) : l = <<"policy", u.name, u.policy>>
  <2>1. ASSUME NEW l \in again PROVE \E u \in Whole(batch) : l = <<"policy", u.name, u.policy>>
    <3>1. PICK u \in known : \E d \in Document(u.target) : l = <<"policy", u.name, d>>
      BY <1>9, <2>1
    <3>2. PICK d \in Document(u.target) : l = <<"policy", u.name, d>>
      BY <3>1
    <3>3. PICK m \in links, x \in built \cup {item} : m[1] = "policy" /\ m[2] = x.name /\ m[3] = d /\ x.target = u.target
      BY <1>10
    <3>4. x.policy = d
      BY <1>12, <3>3 DEF Relations, PoliciesInv, Targeted
    <3> QED
      BY <1>7, <1>14, <3>3, <3>4, <3>2
  <2>2. \A l \in PolicyLinks(answered) : \E u \in Whole(batch) : l = <<"policy", u.name, u.policy>>
    BY <1>7, PoliciesAre
  <2> QED
    BY <1>5, <2>1, <2>2
<1>16. Changes(types, kinds)
  <2>1. \A l \in links' : l \in links \/ l[1] \in kinds
    BY <1>15
  <2>2. \A y \in Known' : y \in Known \/ y.type \in types
    BY <1>5, <1>6 DEF Known, Have
  <2> QED
    BY <1>5, <2>1, <2>2 DEF Changes, Orderly, Have
<1>17. ASSUME NEW u \in Whole(batch) PROVE PolicyTold(u)'
  <2>1. CASE u \in answered
    <3>1. \/ <<"policy", u.name, u.policy>> \in PolicyLinks(answered) \/ u.policy = "none"
          \/ <<"policy", u.target, NoId>> \in PolicyErrors(answered, failing)
      BY <2>1, PoliciesAre
    <3> QED
      BY <1>5, <3>1 DEF PolicyTold
  <2>2. CASE u.target \in failing
    <3>1. <<"policy", u.target, NoId>> \in PolicyErrors(answered, failing)
      BY <2>2, PoliciesAre
    <3> QED
      BY <1>5, <3>1 DEF PolicyTold
  <2>3. CASE u \in known /\ u.target \in Remembered
    <3>1. PICK x \in built \cup {item} : x.target = u.target
      BY <2>3 DEF Remembered
    <3>2. PolicyTold(x) /\ x.policy = u.policy
      BY <1>12, <1>14, <3>1 DEF Relations, PoliciesInv, Targeted
    <3>3. CASE <<"policy", x.name, x.policy>> \in links
      <4>1. u.policy \in Document(u.target)
        BY <1>11, <3>1, <3>2, <3>3
      <4> QED
        BY <1>5, <1>9, <2>3, <4>1 DEF PolicyTold
    <3> QED
      BY <1>5, <3>1, <3>2, <3>3 DEF PolicyTold
  <2> QED
    BY <1>8, <2>1, <2>2, <2>3
<1>18. PoliciesInv'
  <2>1. ASSUME NEW l \in links', l[1] = "policy", NEW y \in world.items, y.type \in Targeted, y.name = l[2]
        PROVE  y.policy = l[3]
    <3>1. CASE l \in links
      BY <2>1, <3>1 DEF Relations, PoliciesInv
    <3>2. CASE l \notin links
      <4>1. PICK u \in Whole(batch) : l = <<"policy", u.name, u.policy>>
        BY <1>15, <3>2
      <4>2. y = u
        BY <1>6, <1>13, <2>1, <4>1
      <4> QED
        BY <4>1, <4>2
    <3> QED
      BY <3>1, <3>2
  <2>2. ASSUME NEW y \in Known', y.type \in Targeted PROVE PolicyTold(y)'
    <3>1. y \in Known \/ y \in Whole(batch)
      BY <1>5 DEF Known, Have
    <3>2. PolicyTold(y) => PolicyTold(y)'
      BY <1>16 DEF PolicyTold, Changes
    <3> QED
      BY <1>17, <2>2, <3>1, <3>2 DEF Relations, PoliciesInv
  <2>3. \A y \in built' : y.type = "url"
    BY <1>1, <1>5, <1>6 DEF Relations, PoliciesInv
  <2> QED
    BY <2>1, <2>2, <2>3 DEF PoliciesInv, Orderly
<1>19. PendingStays
  BY <1>5 DEF PendingStays
<1>20. /\ types \cap Objects = {} /\ types \cap Referring = {} /\ "origin" \notin types /\ "subnet" \notin types
       /\ kinds \cap ObjectLinks = {} /\ kinds \cap {"subnet", "targets", "runs"} = {}
  BY DEF Objects, Referring, ObjectLinks
<1> HIDE DEF types, kinds
<1> QED
  BY <1>16, <1>18, <1>19, <1>20, SubnetsStay, ObjectsStay, EndsStay, ReferencesStay, OriginsStay DEF Relations

(***************************************************************************)
(* The relations hold.                                                     *)
(***************************************************************************)
LEMMA RelationsBegin == Init => Relations
<1> SUFFICES ASSUME Init PROVE Relations
  OBVIOUS
<1>1. links = {} /\ Have = {} /\ Known = {} /\ reported = {} /\ pc # "url"
  BY DEF Init, Have, Known
<1> QED
  BY <1>1 DEF Relations, SubnetsInv, ObjectsInv, Untouched, EndsReported, ReferencesInv, OriginsInv, PoliciesInv

LEMMA RelationsKept == ASSUME IInv, Relations, [Next]_vars PROVE Relations'
<1>1. Orderly
  BY InvariantIsInductive DEF Step
<1>2. CASE Plain
  BY <1>1, <1>2, PlainStep
<1>3. CASE VpcNext
  BY <1>1, <1>2, <1>3, VpcsPlain, SubnetsRelated DEF VpcNext
<1>4. CASE GroupsNext \/ BalancersNext \/ WafNext
  BY <1>1, <1>2, <1>4, GroupsPlain, BalancersPlain, WafPlain
<1>5. CASE ClustersNext \/ GlobalNext
  BY <1>1, <1>2, <1>5, ClustersPlain, SomeObjectsRelated, GlobalPlain, OriginsRelated
<1>6. CASE FunctionsNext
  BY <1>1, <1>2, <1>6, FunctionsPlain, FunctionRelated, URLsRelated DEF FunctionsNext
<1>7. CASE NextRegion \/ NextPass \/ ReferencesDone \/ AppendItem \/ QueueDone \/ UNCHANGED vars
  BY <1>1, <1>2, <1>7, CommonPlain
<1>8. CASE ResolveReference
  BY <1>1, <1>8, ReferenceRelated
<1> QED
  BY <1>3, <1>4, <1>5, <1>6, <1>7, <1>8 DEF Next, Returned

\* What is reported does not come again.
NoneTwice == \A x \in reported : x.type \in Referring => x \notin undelivered \cup queue \cup {item}

\* What is queued or taken up came from further up, and what is put away is gone.
ComesOnce ==
  /\ \A x \in queue' \cup {item'} : x \in undelivered \cup queue \cup {item} \/ x = NoItem \/ x.type = "web acl"
  /\ \/ \A x \in reported' : x \in reported \/ x.type \in {"vpc", "subnet", "association"}
     \/ reported' \subseteq reported \cup built \cup {item} /\ item' = NoItem /\ queue' = queue

LEMMA EachComesOnce == ASSUME IInv, [Next]_vars PROVE ComesOnce
<1>1. CASE VpcNext
  <2>1. CASE VpcsFail \/ SubnetsFail
    BY <2>1 DEF VpcsFail, SubnetsFail, building, ComesOnce
  <2>2. CASE ListVpcs \/ ListSubnets
    <3>1. UNCHANGED <<queue, item>>
      BY <2>2 DEF ListVpcs, ListSubnets, building
    <3>2. \A xs : \A x \in Whole(Associations(xs)) : x.type = "association"
      BY DEF Whole, Associations, PartsOfAll, Parts
    <3>3. CASE ListVpcs
      <4>1. PICK batch \in SUBSET Awaited("vpc") :
              LET kept == {x \in batch : Identified(x)} IN
              reported' = reported \cup kept \cup Whole(Associations(kept))
        BY <3>3 DEF ListVpcs
      <4>2. \A x \in batch : x.type = "vpc"
        BY DEF Awaited
      <4>3. \A x \in reported' : x \in reported \/ x.type \in {"vpc", "association"}
        BY <3>2, <4>1, <4>2
      <4> QED
        BY <3>1, <4>3 DEF ComesOnce
    <3>4. CASE ListSubnets
      <4>1. PICK batch \in SUBSET Awaited("subnet") :
              LET joined == {x \in {y \in batch : Identified(y)} : Collected(x.vpc) # {}} IN
              reported' = reported \cup joined \cup Whole(Associations(joined))
        BY <3>4 DEF ListSubnets
      <4>2. \A x \in batch : x.type = "subnet"
        BY DEF Awaited
      <4>3. \A x \in reported' : x \in reported \/ x.type \in {"subnet", "association"}
        BY <3>2, <4>1, <4>2
      <4> QED
        BY <3>1, <4>3 DEF ComesOnce
    <3> QED
      BY <2>2, <3>3, <3>4
  <2> QED
    BY <1>1, <2>1, <2>2 DEF VpcNext
<1>2. CASE GroupsNext
  BY <1>2 DEF GroupsNext, ListGroups, GroupsFail, RejectGroup, RejectItem, TakeFromQueue, AcceptGroup, AcceptDbGroup, ListRules,
              RulesFail, building, Awaited, ComesOnce
<1>3. CASE BalancersNext
  BY <1>3 DEF BalancersNext, ListBalancers, BalancersFail, RejectBalancer, RejectItem, TakeFromQueue, AcceptClassic,
              AcceptBalancer, ListListeners, ListenersFail, ListTargetGroups, TargetGroupsFail, building, AwaitedBalancers,
              Awaited, ComesOnce
<1>4. CASE WafNext
  <2>1. CASE \/ WebACLsFail \/ GetRules \/ GetRulesFails \/ ListResources
             \/ ListDistributions \/ DistributionsFail \/ EndDistributions \/ DistributionsDone
    BY <2>1 DEF WebACLsFail, GetRules, GetRulesFails, ListResources, ListDistributions,
                DistributionsFail, EndDistributions, DistributionsDone, building, ComesOnce
  <2>2. CASE ListWebACLs
    BY <2>2 DEF ListWebACLs, building, AwaitedACLs, Awaited, ComesOnce
  <2>3. CASE \E x \in queue : RejectACL(x) \/ AcceptACL(x) \/ BeginDistributions(x)
    BY <2>3 DEF RejectACL, RejectItem, AcceptACL, TakeFromQueue, BeginDistributions, building, ComesOnce
  <2> QED
    BY <1>4, <2>1, <2>2, <2>3 DEF WafNext
<1>5. CASE ClustersNext
  BY <1>5 DEF ClustersNext, ListClusters, ClustersFail, DescribeFails, DescribesNone, RejectItem, TakeFromQueue, DescribeCluster,
              NotReadable, ConnectFails, ReadObjects, building, Awaited, ComesOnce
<1>6. CASE GlobalNext
  <2>1. CASE ListZones \/ ListCdns \/ LocateBucket
    BY <2>1 DEF ListZones, ListCdns, LocateBucket, building, Awaited, ComesOnce
  <2>2. CASE ListRoles \/ RolesFail
    BY <2>2 DEF ListRoles, RolesFail, KeptRoles, building, Awaited, ComesOnce
  <2>3. CASE ZonesFail \/ ListRecords \/ RecordsFail \/ ListAttachments \/ AttachmentsFail \/ CdnsFail \/ ProcessOrigins
             \/ ListObjects \/ ObjectsFail
    BY <2>3 DEF ZonesFail, ListRecords, RecordsFail, ListAttachments, AttachmentsFail, CdnsFail, ProcessOrigins, ListObjects,
                ObjectsFail, building, ComesOnce
  <2>4. CASE \E x \in queue : RejectGlobal(x) \/ AcceptZone(x) \/ AcceptRole(x) \/ ProcessDistribution(x)
    BY <2>4 DEF RejectGlobal, RejectItem, TakeFromQueue, AcceptZone, AcceptRole, ProcessDistribution, building, ComesOnce
  <2> QED
    BY <1>6, <2>1, <2>2, <2>3, <2>4 DEF GlobalNext
<1>7. CASE FunctionsNext
  BY <1>7 DEF FunctionsNext, ListFunctions, FunctionsFail, ListURLs, URLsFail, RejectFunction, RejectItem, TakeFromQueue,
              AcceptFunction, building, Awaited, ComesOnce
<1>8. CASE NextRegion \/ NextPass \/ ReferencesDone \/ ResolveReference \/ UNCHANGED vars
  BY <1>8 DEF NextRegion, NextPass, ReferencesDone, ResolveReference, vars, building, ComesOnce
<1>9. CASE AppendItem
  BY <1>9 DEF AppendItem, ComesOnce
<1>10. CASE QueueDone
  BY <1>10 DEF QueueDone, building, ComesOnce
<1> QED
  BY <1>1, <1>2, <1>3, <1>4, <1>5, <1>6, <1>7, <1>8, <1>9, <1>10 DEF Next, Returned

LEMMA NoneComesTwice ==
  ASSUME IInv, NoneTwice, [Next]_vars
  PROVE  NoneTwice'
<1>1. Orderly /\ ComesOnce
  BY InvariantIsInductive, EachComesOnce DEF Step
<1>2. world \in Worlds /\ reported' \subseteq world.items /\ built \subseteq PartItems
      /\ (item # NoItem => item \notin queue /\ item \notin undelivered)
  BY <1>1, InvariantIsInductive DEF Step, IInv, PlaceInv, ItemsInv, Orderly
<1> SUFFICES ASSUME NEW x \in reported', x.type \in Referring PROVE x \notin undelivered' \cup queue' \cup {item'}
  BY DEF NoneTwice
<1>3. x # NoItem /\ x.type # "web acl" /\ x.type \notin {"vpc", "subnet", "association"}
  BY <1>2, ItemFacts DEF Referring
<1>4. undelivered' \subseteq undelivered
  BY <1>1 DEF Orderly
<1>5. CASE x \in reported
  <2>1. x \notin undelivered \cup queue \cup {item}
    BY <1>5 DEF NoneTwice
  <2> QED
    BY <1>1, <1>3, <1>4, <2>1 DEF ComesOnce
<1>6. CASE x \notin reported
  <2>1. x \in built \cup {item} /\ item' = NoItem /\ queue' = queue
    BY <1>1, <1>3, <1>6 DEF ComesOnce
  <2>2. x \notin built
    <3>1. ASSUME x \in PartItems PROVE FALSE
      <4>1. PICK p \in world.items : IsPartOf(x, p)
        BY <1>2, <3>1, WorldAssumption DEF PartItems
      <4> QED
        BY <4>1 DEF IsPartOf, Objects, Referring
    <3> QED
      BY <1>2, <3>1
  <2> QED
    BY <1>2, <1>3, <1>4, <2>1, <2>2
<1> QED
  BY <1>5, <1>6

LEMMA RelationsAreThose == IInv /\ Relations /\ NoneTwice => RelationsHold
<1> SUFFICES ASSUME IInv, Relations, NoneTwice PROVE RelationsHold
  OBVIOUS
<1>0. /\ SubnetsInv /\ ObjectsInv /\ EndsReported /\ ReferencesInv /\ OriginsInv /\ PoliciesInv
      /\ reported \subseteq Known /\ reported \subseteq world.items
  BY DEF Relations, IInv, ItemsInv, Known, Have
<1>1. SubnetsJoined
  BY <1>0 DEF SubnetsJoined, SubnetsInv, Of
<1>2. KubernetesAgrees
  <2>1. ASSUME NEW s \in Of("service"), NEW p \in Of("pod")
        PROVE  LET joined == s.of = p.of /\ Selects(s, p) IN
               /\ (<<"targets", s.name, p.name>> \in links) = joined
               /\ (<<"served by", p.name, s.name>> \in links) = joined
    <3>1. s \in Known /\ p \in Known /\ s.type = "service" /\ p.type = "pod"
      BY <1>0 DEF Of
    <3> DEFINE joined == s.of = p.of /\ Selects(s, p)
               to == <<"targets", s.name, p.name>> \in links
               back == <<"served by", p.name, s.name>> \in links
    <3>2. (to <=> joined) /\ (back <=> joined)
      BY <1>0, <3>1 DEF ObjectsInv
    <3>3. to \in BOOLEAN /\ back \in BOOLEAN /\ joined \in BOOLEAN
      BY DEF Selects
    <3> HIDE DEF joined, to, back
    <3>4. to = joined /\ back = joined
      BY <3>2, <3>3
    <3> QED
      BY <3>4 DEF joined, to, back
  <2>2. ASSUME NEW n \in Of("node"), NEW p \in Of("pod")
        PROVE  (<<"runs", n.name, p.name>> \in links) = (n.of = p.of /\ p.node = n.host)
    <3>1. n \in Known /\ p \in Known /\ n.type = "node" /\ p.type = "pod"
      BY <1>0 DEF Of
    <3> DEFINE on == <<"runs", n.name, p.name>> \in links
               there == n.of = p.of /\ p.node = n.host
    <3>2. on <=> there
      BY <1>0, <3>1 DEF ObjectsInv
    <3>3. on \in BOOLEAN /\ there \in BOOLEAN
      OBVIOUS
    <3> HIDE DEF on, there
    <3>4. on = there
      BY <3>2, <3>3
    <3> QED
      BY <3>4 DEF on, there
  <2> QED
    BY <2>1, <2>2 DEF KubernetesAgrees
<1>3. ReferencesTold
  <2> SUFFICES ASSUME NEW x \in reported, x.type \in {"group", "db group", "balancer", "cluster"}, NEW id \in Asked(x)
               PROVE  ReferenceTold(x, id)
    BY DEF ReferencesTold, ReferenceTold
  <2>1. ReferenceTold(x, id) \/ (x = item /\ id \in pending)
    BY <1>0 DEF ReferencesInv, Referring
  <2> QED
    BY <2>1 DEF NoneTwice, Referring
<1>4. OriginsTold
  BY <1>0 DEF OriginsTold, OriginsInv, BackendTold, Of
<1>5. PoliciesTold
  <2> SUFFICES ASSUME NEW x \in Of("function") \cup Of("url")
               PROVE  LET given == {l[3] : l \in {m \in links : m[1] = "policy" /\ m[2] = x.name}} IN
                      /\ given \subseteq {x.policy}
                      /\ x.policy \in given \cup {"none"} \/ <<"policy", x.target, NoId>> \in errors
    BY DEF PoliciesTold
  <2> DEFINE given == {l[3] : l \in {m \in links : m[1] = "policy" /\ m[2] = x.name}}
  <2>1. x \in world.items /\ x.type \in Targeted /\ PolicyTold(x)
    BY <1>0 DEF Of, Targeted, PoliciesInv
  <2>2. given \subseteq {x.policy}
    BY <1>0, <2>1 DEF PoliciesInv
  <2>3. <<"policy", x.name, x.policy>> \in links => x.policy \in given
    <3> DEFINE l == <<"policy", x.name, x.policy>>
    <3>1. l[1] = "policy" /\ l[2] = x.name /\ l[3] = x.policy
      OBVIOUS
    <3> HIDE DEF l
    <3>2. l \in links => x.policy \in given
      BY <3>1
    <3> QED
      BY <3>2 DEF l
  <2> QED
    BY <2>1, <2>2, <2>3 DEF PolicyTold
<1> QED
  BY <1>0, <1>1, <1>2, <1>3, <1>4, <1>5 DEF RelationsHold

\* The relations of a report are those there are between what it holds: subnets in
\* their VPCs, pods under nodes and services, references, backends and policies,
\* or an error says of the very thing that its relation could not be found.
THEOREM ServiceRelationsHold == Spec => []RelationsHold
<1>1. IInv /\ Relations /\ [Next]_vars => Relations'
  BY RelationsKept
<1>2. IInv /\ NoneTwice /\ [Next]_vars => NoneTwice'
  BY NoneComesTwice
<1>3. Init => NoneTwice
  BY DEF Init, NoneTwice
<1> QED
  BY ServiceInvariant, RelationsBegin, RelationsAreThose, <1>1, <1>2, <1>3, PTL DEF Spec
=============================================================================
