---------------------------- MODULE MCS3Enumerate ----------------------------
(***************************************************************************)
(* Three buckets with names, in the two regions with historical names and  *)
(* one whose name the code does not accept, and one entry without a name.  *)
(***************************************************************************)
EXTENDS S3Enumerate

MCBuckets == {"old", "european", "odd", "nameless"}
MCNameless == {"nameless"}
MCRegions == {"us-east-1", "eu-west-1"}
MCLocation ==
  [b \in MCBuckets |->
    CASE b \in {"old", "nameless"} -> "us-east-1"
      [] b = "european" -> "eu-west-1"
      [] b = "odd" -> "nowhere"]
MCConstraint ==
  [b \in MCBuckets |->
    CASE b \in {"old", "nameless"} -> ""
      [] b = "european" -> "EU"
      [] b = "odd" -> "nowhere"]
=============================================================================
