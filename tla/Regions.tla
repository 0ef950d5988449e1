------------------------------- MODULE Regions -------------------------------
(***************************************************************************)
(* utils/regions.go: from the regions asked for and the regions AWS says   *)
(* are enabled to the regions a command scans.  The functions that return  *)
(* a list of regions or an error return {} for the error: none of them     *)
(* ever returns an empty list.                                             *)
(***************************************************************************)
CONSTANTS
  RegionNames,     \* the names a user or a configuration may use
  Partition,       \* name -> its partition; NoPartition if it is malformed
  Partitions,
  HomeRegion,      \* partition -> the region asked about that partition
  Fallback,        \* partition -> its list in config/fallback_regions.json
  NoRegion,        \* the empty name
  NoPartition

Commercial == "aws"

ASSUME RegionAssumption ==
  /\ NoRegion \notin RegionNames /\ NoPartition \notin Partitions
  /\ Commercial \in Partitions
  /\ Partition \in [RegionNames -> Partitions \cup {NoPartition}]
  /\ HomeRegion \in [Partitions -> RegionNames]
  /\ \A p \in Partitions : Partition[HomeRegion[p]] = p
  /\ Fallback \in [Partitions -> SUBSET RegionNames]
  /\ \A p \in Partitions : \A r \in Fallback[p] : Partition[r] = p

OnePartition(regions) ==
  \E p \in Partitions : \A r \in regions : Partition[r] = p

\* Empty names are skipped, duplicates merge.
NormalizeSelectedRegions(regions) ==
  IF OnePartition(regions \ {NoRegion}) THEN regions \ {NoRegion} ELSE {}

RegionDiscoveryQueryRegion(configured, selected) ==
  IF selected # {} THEN HomeRegion[CHOOSE p \in Partitions : \A r \in selected : Partition[r] = p]
  ELSE IF configured # NoRegion THEN configured
  ELSE HomeRegion[Commercial]

RegionDiscoveryFallback(configured, selected) ==
  IF selected # {} THEN selected
  ELSE IF configured = NoRegion THEN NormalizeSelectedRegions(Fallback[Commercial])
  ELSE IF Partition[configured] = NoPartition THEN {}
  ELSE NormalizeSelectedRegions(Fallback[Partition[configured]] \cup {configured})

\* EnabledAWSRegions that takes the selection as it is.
EnabledAWSRegionsUnchecked(enabled, selected) ==
  IF selected = {} THEN enabled ELSE selected

\* enabledAWSRegions on an answer: one selected region that is not enabled
\* refuses them all.
EnabledAWSRegions(enabled, selected) ==
  IF selected = {} THEN enabled
  ELSE IF selected \subseteq enabled THEN selected ELSE {}
=============================================================================
