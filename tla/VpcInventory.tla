----------------------------- MODULE VpcInventory -----------------------------
(***************************************************************************)
(* EnumerateVPC.  The VPCs of a region are listed first, then the subnets, *)
(* each of which joins the VPC it names.  VPCs and subnets have CIDR       *)
(* associations.                                                           *)
(***************************************************************************)
EXTENDS ServiceReport

\* resourceARN: an ARN that is given is the one that id, region and owner make,
\* its own owner if the response has none; else the owner makes the ARN.
Identified(x) == x.whole /\ (x.arn = x.name \/ (x.arn = NoId /\ x.owner # NoId))

Associations(xs) == PartsOfAll("association", xs)

ListVpcs ==
  /\ pc = "vpc"
  /\ \E batch \in SUBSET Awaited("vpc"), last \in BOOLEAN :
       LET kept == {x \in batch : Identified(x)}
           found == (batch \ kept) \cup Associations(kept)
       IN /\ IsPage(batch, Awaited("vpc"), last)
          /\ CallAgain(last)
          /\ undelivered' = undelivered \ batch
          /\ reported' = reported \cup kept \cup Whole(Associations(kept))
          /\ errors' = errors \cup Rejections(found \ Whole(Associations(kept)))
          /\ pc' = IF last THEN "subnet" ELSE "vpc"
  /\ UNCHANGED <<where, queue, building, links, resolverVars>>

\* The subnets are listed all the same.
VpcsFail ==
  /\ pc = "vpc" /\ pc' = "subnet"
  /\ CallAgain(TRUE)
  /\ errors' = errors \cup {ListError("vpc", Region)}
  /\ UNCHANGED <<where, undelivered, queue, building, reported, links, resolverVars>>

\* vpcMap: the VPCs of this region that were collected.
Collected(id) == {v \in reported : v.type = "vpc" /\ v.region = Region /\ v.name = id}

\* ListSubnets that leaves out a subnet without a collected VPC silently.
ListSubnetsDropsOrphans ==
  /\ pc = "subnet"
  /\ \E batch \in SUBSET Awaited("subnet"), last \in BOOLEAN :
       LET kept == {x \in batch : Identified(x)}
           joined == {x \in kept : Collected(x.vpc) # {}}
           blocks == Associations(kept)
       IN /\ IsPage(batch, Awaited("subnet"), last)
          /\ CallAgain(last)
          /\ undelivered' = undelivered \ batch
          /\ reported' = reported \cup joined \cup Whole(Associations(joined))
          /\ links' = links \cup {<<"subnet", x.vpc, x.name>> : x \in joined}
          /\ errors' = errors \cup Rejections((batch \ kept) \cup (blocks \ Whole(blocks)))
          /\ pc' = IF last THEN "region" ELSE "subnet"
  /\ UNCHANGED <<where, queue, building, resolverVars>>

\* A subnet that names no VPC, or one that was not collected, is told.
ListSubnets ==
  /\ pc = "subnet"
  /\ \E batch \in SUBSET Awaited("subnet"), last \in BOOLEAN :
       LET kept == {x \in batch : Identified(x)}
           joined == {x \in kept : Collected(x.vpc) # {}}
           blocks == Associations(kept)
       IN /\ IsPage(batch, Awaited("subnet"), last)
          /\ CallAgain(last)
          /\ undelivered' = undelivered \ batch
          /\ reported' = reported \cup joined \cup Whole(Associations(joined))
          /\ links' = links \cup {<<"subnet", x.vpc, x.name>> : x \in joined}
          /\ errors' = errors \cup Rejections((batch \ joined) \cup (blocks \ Whole(blocks)))
          /\ pc' = IF last THEN "region" ELSE "subnet"
  /\ UNCHANGED <<where, queue, building, resolverVars>>

SubnetsFail ==
  /\ pc = "subnet" /\ pc' = "region"
  /\ CallAgain(TRUE)
  /\ errors' = errors \cup {ListError("subnet", Region)}
  /\ UNCHANGED <<where, undelivered, queue, building, reported, links, resolverVars>>

VpcNext == ListVpcs \/ VpcsFail \/ ListSubnets \/ SubnetsFail
=============================================================================
