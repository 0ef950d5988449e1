------------------------- MODULE MCRegionalInventory -------------------------
(***************************************************************************)
(* Two regions.  In the first, two resources that share a VPC, a subnet    *)
(* and a group; in the second one that refers to the same ids, and one     *)
(* that cannot be identified.  The blocks of a kind are those its code     *)
(* tells apart: with and without a VPC, an interface without an owner, the *)
(* groups of an instance.                                                  *)
(***************************************************************************)
EXTENDS RegionalInventory

MCRegions == <<"r1", "r2">>

Whole == [own |-> TRUE, network |-> TRUE, vpc |-> "v", subnets |-> {"s"}, groups |-> {"g"}]
Rest == [Whole EXCEPT !.vpc = "none"]
Unowned == [Whole EXCEPT !.own = FALSE]
Empty == [Rest EXCEPT !.subnets = {}, !.groups = {}]
Groups == [Empty EXCEPT !.network = FALSE, !.groups = {"g"}]

Resource(k, name, r, blocks, profile) ==
  [kind |-> k, name |-> name, region |-> r, identified |-> TRUE, engine |-> "own",
   blocks |-> blocks, profile |-> profile]
Unprofiled == [arn |-> "none", id |-> "i"]
Unidentified(x) == [x EXCEPT !.identified = FALSE]

MCResources ==
  {Resource("ec2", "a", "r1", <<Whole, Groups>>, [arn |-> "p", id |-> "i"]),
   Resource("ec2", "b", "r1", <<Unowned, Rest>>, [arn |-> "p", id |-> "j"]),
   Resource("ec2", "c", "r2", <<Whole>>, [arn |-> "malformed", id |-> "i"]),
   Resource("ec2", "e", "r2", <<>>, [arn |-> "p", id |-> "none"]),
   Unidentified(Resource("ec2", "d", "r2", <<>>, Unprofiled))}
  \cup UNION {
    {Resource(k, "a", "r1", <<Whole>>, Unprofiled),
     Resource(k, "b", "r1", <<Rest>>, Unprofiled),
     Resource(k, "c", "r2", <<Whole>>, Unprofiled),
     Resource(k, "e", "r2", <<Empty>>, Unprofiled),
     Unidentified(Resource(k, "d", "r2", <<>>, Unprofiled))} : k \in {"lambda", "rds"}}
  \cup {[Resource("rds", "f", "r1", <<>>, Unprofiled) EXCEPT !.engine = "other"]}
=============================================================================
