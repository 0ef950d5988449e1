-------------------------- MODULE RegionalInventory --------------------------
(***************************************************************************)
(* EnumerateEc2, EnumerateLambda and EnumerateRDS: region by region, page  *)
(* through the resources, convert each, resolve what it refers to, append  *)
(* it to the report.  They differ in what a failed page ends, in what is   *)
(* left out without a word, and in what a failed VPC takes with it.        *)
(*                                                                         *)
(* A resource is a record of what the conversion looks at.  A block of it  *)
(* is a network interface, a VPC configuration or a subnet group with its  *)
(* security groups.  The security groups of an EC2 instance itself are a   *)
(* block of their own that has no VPC.                                     *)
(***************************************************************************)
EXTENDS NetworkReferences, Sequences, FiniteSets

CONSTANTS
  VpcIds, SubnetIds, GroupIds,
  Resources,    \* what may exist
  Regions,      \* config.Regions, in order
  Profiles,     \* ARNs of instance profiles
  ProfileIds,
  NoId,         \* an id that is not given
  NoItem

Blocks ==
  [own : BOOLEAN,                   \* the block can be identified
   network : BOOLEAN,               \* it is to have a VPC
   vpc : VpcIds \cup {NoId}, subnets : SUBSET SubnetIds, groups : SUBSET GroupIds]

ASSUME InventoryAssumption ==
  /\ Regions \in Seq(RegionNames)
  /\ Ids = VpcIds \cup SubnetIds \cup GroupIds
  /\ VpcIds \cap SubnetIds = {} /\ (VpcIds \cup SubnetIds) \cap GroupIds = {}
  /\ \A i, j \in DOMAIN Regions : Regions[i] = Regions[j] => i = j
  /\ NoId \notin Ids /\ Failed \notin RegionNames /\ NoItem \notin Resources
  /\ \A x \in Resources :
       /\ x.region \in RegionNames /\ x.kind \in {"ec2", "lambda", "rds"}
       /\ x.identified \in BOOLEAN /\ x.engine \in {"own", "other"}
       /\ x.blocks \in Seq(Blocks)
       /\ \A i \in DOMAIN x.blocks : ~x.blocks[i].network => x.blocks[i].vpc = NoId /\ x.blocks[i].subnets = {}
       /\ x.profile.arn \in Profiles \cup {NoId, "malformed"} /\ x.profile.id \in ProfileIds \cup {NoId}

VARIABLES
  kind,         \* which of the three runs
  present,      \* the resources there are, hidden but through the listing
  pc,
  place,        \* the index of the region
  undelivered,  \* the resources that were on no page yet
  more,         \* the listing has a next page
  queue,        \* resources listed and not converted
  item,         \* the resource that is converted
  block,        \* the index of its block
  pending,      \* ids of the block still to be resolved
  refs,         \* the references of the item: <<block, id, region>>
  role,         \* of the item: "role", "none"
  profileCache, \* instanceProfileCache: ARN -> <<id, "role" | "none">> or Failed
  reported,     \* the report: [resource, refs, role]
  errors        \* <<what failed, resource, id>> or <<"list", NoItem, region>>

listing == <<undelivered, more, queue>>
building == <<item, block, pending, refs, role>>
vars == <<kind, present, pc, place, listing, building, profileCache, reported, errors, resolverVars>>

Reports(what, id) == errors' = errors \cup {<<what, item, id>>}

Init ==
  /\ kind \in {"ec2", "lambda", "rds"}
  /\ present \in SUBSET {x \in Resources : x.kind = kind}
  /\ pc = "region" /\ place = 0
  /\ undelivered = present /\ more = FALSE /\ queue = {}
  /\ item = NoItem /\ block = 0 /\ pending = {} /\ refs = {} /\ role = "none"
  /\ profileCache = <<>>
  /\ reported = {} /\ errors = {}
  /\ ResolverInit

----------------------------------------------------------------------------
(***************************************************************************)
(* The loop over regions and the paging.                                   *)
(***************************************************************************)
NextRegion ==
  /\ pc = "region" /\ place < Len(Regions)
  /\ place' = place + 1
  /\ NewResolver(Regions[place'])
  /\ more' = TRUE /\ pc' = "list"
  /\ UNCHANGED <<kind, present, undelivered, queue, building, profileCache, reported, errors>>

Finish ==
  /\ pc = "region" /\ place = Len(Regions)
  /\ pc' = "done"
  /\ UNCHANGED <<kind, present, place, listing, building, profileCache, reported, errors, resolverVars>>

Undelivered == {x \in undelivered : x.region = region}

\* Lambda converts each page before it asks for the next; the others convert
\* when the listing has ended.
Page ==
  /\ pc = "list"
  /\ \E batch \in SUBSET Undelivered :
       /\ undelivered' = undelivered \ batch
       /\ queue' = queue \cup batch
       /\ more' \in IF batch = Undelivered THEN BOOLEAN ELSE {TRUE}
       /\ pc' = IF kind = "lambda" \/ ~more' THEN "convert" ELSE "list"
  /\ UNCHANGED <<kind, present, place, building, profileCache, reported, errors, resolverVars>>

\* PageFails that throws away what the pages before have brought.
PageFailsDropsPages ==
  /\ pc = "list"
  /\ errors' = errors \cup {<<"list", NoItem, region>>}
  /\ more' = FALSE /\ pc' = "convert" /\ queue' = {}
  /\ UNCHANGED <<kind, present, place, undelivered, building, profileCache, reported, resolverVars>>

\* What the pages before have brought is converted all the same.
PageFails ==
  /\ pc = "list"
  /\ errors' = errors \cup {<<"list", NoItem, region>>}
  /\ more' = FALSE /\ pc' = "convert"
  /\ UNCHANGED <<kind, present, place, undelivered, queue, building, profileCache, reported,
                 resolverVars>>

PageDone ==
  /\ pc = "convert" /\ queue = {}
  /\ pc' = IF more THEN "list" ELSE "region"
  /\ UNCHANGED <<kind, present, place, listing, building, profileCache, reported, errors, resolverVars>>

----------------------------------------------------------------------------
(***************************************************************************)
(* The conversion of one resource.                                         *)
(***************************************************************************)
\* DescribeDBInstances returns the instances of two more services.
OfOtherService(x) == x.kind = "rds" /\ x.engine = "other"

Take(x) ==
  /\ pc = "convert" /\ x \in queue
  /\ queue' = queue \ {x}
  /\ UNCHANGED <<kind, present, place, undelivered, more, profileCache, reported, resolverVars>>

Skip(x) ==
  /\ Take(x) /\ OfOtherService(x)
  /\ UNCHANGED <<pc, building, errors>>

\* Without name, ARN or owner there is nothing to report but the error.
Reject(x) ==
  /\ Take(x) /\ ~OfOtherService(x) /\ ~x.identified
  /\ errors' = errors \cup {<<"identify", x, NoId>>}
  /\ UNCHANGED <<pc, building>>

Accept(x) ==
  /\ Take(x) /\ ~OfOtherService(x) /\ x.identified
  /\ item' = x /\ block' = 0 /\ pending' = {} /\ refs' = {} /\ role' = "none"
  /\ pc' = "block"
  /\ UNCHANGED errors

Block == item.blocks[block]
NextBlock == item.blocks[block + 1]

\* What of a block is resolved: the shared resolver asks for subnets only after
\* the VPC they are in; rds asks for all there is.
Asked(b) ==
  (IF b.vpc = NoId THEN {} ELSE {b.vpc}) \cup b.groups
  \cup (IF b.vpc = NoId /\ kind # "rds" THEN {} ELSE b.subnets)

\* An interface without owner is left out; a block that lacks its VPC is told,
\* by Lambda only if it has anything else.
BeginBlock ==
  /\ pc = "block" /\ block < Len(item.blocks)
  /\ block' = block + 1
  /\ IF NextBlock.own
     THEN /\ pending' = Asked(NextBlock)
          /\ IF /\ NextBlock.network /\ NextBlock.vpc = NoId
                /\ kind = "lambda" => NextBlock.subnets \cup NextBlock.groups # {}
             THEN Reports("no vpc", NoId) ELSE UNCHANGED errors
          /\ pc' = "resolve"
     ELSE Reports("block", NoId) /\ UNCHANGED <<pc, pending>>
  /\ UNCHANGED <<kind, present, place, listing, item, refs, role, profileCache, reported, resolverVars>>

\* The VPC comes first, then the subnets, then the groups.
InOrder(id) ==
  /\ Block.vpc \in pending => id = Block.vpc
  /\ id \in Block.groups => pending \cap Block.subnets = {}

\* Missed that tells of a failure only when it happens, not when it is met again.
MissedIfNew(id) ==
  IF id \in DOMAIN cache THEN UNCHANGED errors ELSE Reports("unresolved", id)

Missed(id) == Reports("unresolved", id)

ResolveReference ==
  /\ pc = "resolve"
  /\ \E id \in pending, answer \in RegionNames \cup {Failed} :
       /\ InOrder(id) /\ Resolve(id, answer)
       /\ IF answer # Failed
          THEN /\ refs' = refs \cup {<<block, id, answer>>}
               /\ pending' = pending \ {id} /\ UNCHANGED errors
          ELSE /\ pending' = pending \ (IF id = Block.vpc /\ kind # "rds"
                                        THEN {id} \cup Block.subnets ELSE {id})
               /\ Missed(id) /\ UNCHANGED refs
  /\ UNCHANGED <<kind, present, pc, place, listing, item, block, role, profileCache, reported>>

\* An interface of EC2 has its references in a part of the report that it gets
\* only with a VPC.
EndBlock ==
  /\ pc = "resolve" /\ pending = {}
  /\ pc' = "block"
  /\ refs' = IF kind = "ec2" /\ Block.network /\ ~\E t \in refs : t[1] = block /\ t[2] = Block.vpc
             THEN {t \in refs : t[1] # block} ELSE refs
  /\ UNCHANGED <<kind, present, place, listing, item, block, pending, role, profileCache, reported,
                 errors, resolverVars>>

BlocksDone ==
  /\ pc = "block" /\ block = Len(item.blocks)
  /\ pc' = CASE kind = "ec2" /\ item.profile.arn # NoId -> "role"
              [] kind = "lambda" -> "urls"
              [] OTHER -> "append"
  /\ UNCHANGED <<kind, present, place, listing, building, profileCache, reported, errors, resolverVars>>

\* UseProfile that takes the profile's ARN for the profile.
UseProfileByARN(profile) ==
  IF profile = Failed THEN Reports("profile", item.profile.arn) /\ UNCHANGED role
  ELSE role' = profile[2] /\ UNCHANGED errors

\* The profile of the ARN may be another than the one that is attached.
UseProfile(profile) ==
  IF profile = Failed \/ (profile # Failed /\ item.profile.id \notin {NoId, profile[1]})
  THEN Reports("profile", item.profile.arn) /\ UNCHANGED role
  ELSE role' = profile[2] /\ UNCHANGED errors

Keep(arn, profile) ==
  profileCache' = [p \in DOMAIN profileCache \cup {arn} |->
                     IF p = arn THEN profile ELSE profileCache[p]]

ResolveRole ==
  /\ pc = "role" /\ pc' = "append"
  /\ LET arn == item.profile.arn IN
     \/ /\ arn = "malformed"
        /\ Reports("profile", arn) /\ UNCHANGED <<role, profileCache>>
     \/ /\ arn \in DOMAIN profileCache
        /\ UseProfile(profileCache[arn]) /\ UNCHANGED profileCache
     \/ /\ arn \in Profiles \ DOMAIN profileCache
        /\ \E profile \in (ProfileIds \X {"role", "none"}) \cup {Failed} :
             Keep(arn, profile) /\ UseProfile(profile)
  /\ UNCHANGED <<kind, present, place, listing, item, block, pending, refs, reported, resolverVars>>

\* enrichFunctionURLs: the policies and the URLs of a function, told as far as
\* they could not be read.  What it finds is not looked into here.
EnrichFunctionURLs ==
  /\ pc = "urls" /\ pc' = "append"
  /\ UNCHANGED errors \/ Reports("urls", NoId)
  /\ UNCHANGED <<kind, present, place, listing, building, profileCache, reported, resolverVars>>

\* AppendItem that goes on without putting the item away.
AppendItemKeepsIt ==
  /\ pc = "append" /\ pc' = "convert"
  /\ reported' = reported \cup {[resource |-> item, refs |-> refs, role |-> role]}
  /\ UNCHANGED <<kind, present, place, listing, building, profileCache, errors, resolverVars>>

AppendItem ==
  /\ pc = "append" /\ pc' = "convert"
  /\ reported' = reported \cup {[resource |-> item, refs |-> refs, role |-> role]}
  /\ item' = NoItem /\ block' = 0 /\ pending' = {} /\ refs' = {} /\ role' = "none"
  /\ UNCHANGED <<kind, present, place, listing, profileCache, errors, resolverVars>>

\* The report has been returned.
Returned == pc = "done" /\ UNCHANGED vars

Next ==
  \/ NextRegion \/ Finish \/ Page \/ PageFails \/ PageDone
  \/ \E x \in Resources : Skip(x) \/ Reject(x) \/ Accept(x)
  \/ BeginBlock \/ ResolveReference \/ EndBlock \/ BlocksDone
  \/ ResolveRole \/ EnrichFunctionURLs \/ AppendItem
  \/ Returned

Spec == Init /\ [][Next]_vars

----------------------------------------------------------------------------
TypeOK ==
  /\ present \in SUBSET Resources /\ undelivered \subseteq present
  /\ pc \in {"region", "list", "convert", "block", "resolve", "role", "urls", "append", "done"}
  /\ place \in 0 .. Len(Regions)
  /\ more \in BOOLEAN /\ queue \subseteq {x \in present : x.region = region}
  /\ item \in Resources \cup {NoItem}
  /\ item # NoItem <=> pc \in {"block", "resolve", "role", "urls", "append"}
  /\ pending \subseteq Ids
  /\ \A i \in DOMAIN cache : i \in Ids /\ cache[i] \in RegionNames \cup {Failed}

Wanted == {x \in present : ~OfOtherService(x) /\ \E i \in DOMAIN Regions : x.region = Regions[i]}

Excused(x) ==
  \/ <<"identify", x, NoId>> \in errors
  \/ x \in undelivered /\ <<"list", NoItem, x.region>> \in errors

Contract ==
  INSTANCE Inventory WITH
    Items <- Resources,
    present <- Wanted,
    reported <- {r.resource : r \in reported},
    excused <- {x \in Wanted : Excused(x)},
    returned <- pc = "done"

\* Each of the three enumerators keeps the contract of an inventory: what a page
\* brought is reported, or rejected with an error of its own, even when a later
\* page fails; what no page brought is excused by that failure only.
KeepsContract == Contract!Spec

Has(r, b, id) == \E t \in r.refs : t[1] = b /\ t[2] = id

\* What accounts for a missing reference: its own failed look-up, that of the
\* VPC it is in, no VPC to look in, or no owner of the block.  The subnets of
\* rds outlive their VPC, and groups outlive it except in an interface of EC2.
Explained(x, b, id) ==
  LET blk == x.blocks[b]
      dependent == id # blk.vpc /\
        IF id \in SubnetIds THEN kind # "rds" ELSE kind = "ec2" /\ blk.network
  IN \/ <<"unresolved", x, id>> \in errors
     \/ dependent /\ <<"unresolved", x, blk.vpc>> \in errors
     \/ dependent /\ blk.vpc = NoId /\ <<"no vpc", x, NoId>> \in errors
     \/ ~blk.own /\ <<"block", x, NoId>> \in errors

\* Every reference a resource is known to have is in the report, or the report
\* says of this resource why not, also when the failure was met before with
\* another resource.
ReferencesComplete ==
  \A r \in reported : LET x == r.resource IN
    \A b \in DOMAIN x.blocks :
      \A id \in ({x.blocks[b].vpc} \ {NoId}) \cup x.blocks[b].subnets \cup x.blocks[b].groups :
        Has(r, b, id) \/ Explained(x, b, id)

\* References are of the region of the resource, and no resource of a region is
\* told that what another one refers to could not be resolved.
AnswersAgree ==
  \A r \in reported : \A t \in r.refs :
    /\ t[3] = r.resource.region
    /\ \A x \in Resources :
         x.region = r.resource.region => <<"unresolved", x, t[2]>> \notin errors

\* However many resources refer to an id, the service is asked once a region.
LookedUpOnce == \A x \in DOMAIN lookups : lookups[x] <= 1

\* An id has one answer in a region: the first one, for every resource.
OneAnswerPerRegion == AnswersAgree /\ LookedUpOnce

\* A role is reported only of the very profile that is attached, not of another
\* one with the same ARN, and its absence is either so or told.
RoleOfAttachedProfile ==
  \A r \in reported :
    LET p == r.resource.profile
        known == p.arn \in DOMAIN profileCache /\ profileCache[p.arn] # Failed
                 /\ p.id \in {NoId, profileCache[p.arn][1]}
    IN kind = "ec2" /\ p.arn # NoId =>
         \/ known /\ profileCache[p.arn][2] = r.role
         \/ r.role = "none" /\ <<"profile", r.resource, p.arn>> \in errors
=============================================================================
