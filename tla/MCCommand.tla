------------------------------ MODULE MCCommand ------------------------------
(***************************************************************************)
(* Three partitions: commercial, with a region that is in no fallback list *)
(* ("me-south-1"); China, with a fallback list; and one without ("iso").   *)
(***************************************************************************)
EXTENDS Command

MCRegionNames ==
  {"us-east-1", "eu-west-1", "me-south-1", "cn-north-1", "us-iso-east-1", "EU"}
MCPartitions == {"aws", "aws-cn", "aws-iso"}
MCPartition ==
  [r \in MCRegionNames |->
    CASE r \in {"us-east-1", "eu-west-1", "me-south-1"} -> "aws"
      [] r = "cn-north-1" -> "aws-cn"
      [] r = "us-iso-east-1" -> "aws-iso"
      [] r = "EU" -> "malformed"]
MCHomeRegion ==
  [p \in MCPartitions |->
    CASE p = "aws" -> "us-east-1" [] p = "aws-cn" -> "cn-north-1" [] p = "aws-iso" -> "us-iso-east-1"]
MCFallback ==
  [p \in MCPartitions |->
    CASE p = "aws" -> {"us-east-1", "eu-west-1"} [] p = "aws-cn" -> {"cn-north-1"} [] p = "aws-iso" -> {}]

MCSelections ==
  {{}, {"none"}, {"us-east-1"}, {"none", "us-east-1"}, {"eu-west-1", "me-south-1"},
   {"us-east-1", "cn-north-1"}, {"cn-north-1"}, {"us-iso-east-1"}, {"us-east-1", "EU"}}
MCConfigurations == MCRegionNames \cup {"none"}
MCAccounts ==
  {{"us-east-1", "eu-west-1"}, {"us-east-1", "eu-west-1", "me-south-1"},
   {"us-east-1", "me-south-1"}, {"cn-north-1"}, {"us-iso-east-1"}}
=============================================================================
