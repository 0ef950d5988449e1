----------------------------- MODULE S3Enumerate -----------------------------
(***************************************************************************)
(* EnumerateS3: list the account's buckets page by page, read the          *)
(* account's Public Access Block, find each bucket's region, then, region  *)
(* by region, ask for the details of each bucket.  Any call may fail; what *)
(* fails is reported and the enumeration goes on.                          *)
(*                                                                         *)
(* The service delivers each bucket on one page and does not end the       *)
(* listing before it has delivered all of them, but nothing keeps it from  *)
(* sending the same continuation token again.                              *)
(***************************************************************************)
EXTENDS FiniteSets, Naturals

CONSTANTS
  Buckets,      \* the entries a listing may have
  Nameless,     \* those that come without a name
  Location,     \* bucket -> the region it is in
  Constraint,   \* bucket -> what GetBucketLocation calls that region
  Regions,      \* the regions whose names the code accepts
  Tokens,       \* continuation tokens
  NoToken,
  NoBucket

ASSUME EnumerateAssumption ==
  /\ Nameless \subseteq Buckets
  /\ NoToken \notin Tokens /\ NoBucket \notin Buckets
  /\ IsFiniteSet(Tokens) /\ IsFiniteSet(Buckets)

\* GetBucketLocation has names of its own for two regions.
ASSUME ConstraintAssumption ==
  \A b \in Buckets :
    \/ Constraint[b] = Location[b] /\ Location[b] \notin {"", "EU"}
    \/ Constraint[b] = "" /\ Location[b] = "us-east-1"
    \/ Constraint[b] = "EU" /\ Location[b] = "eu-west-1"

\* The calls that fill in one bucket's entry.
Details == {"versioning", "encryption", "permissions", "resources"}

VARIABLES
  owned,        \* the buckets the account has
  selected,     \* config.Regions; {} is every region
  pc,
  undelivered,  \* buckets the service has not put on a page yet
  token,        \* input.ContinuationToken
  seen,         \* seenTokens
  listed,       \* result.Buckets
  unplaced,     \* listed buckets the first pass has not looked at
  bucketsByRegion,
  reported,     \* report.Result: <<bucket, region of the client asked, details missing>>
  errors        \* report.Errors: <<what failed, bucket or NoBucket>>

vars == <<owned, selected, pc, undelivered, token, seen, listed, unplaced,
          bucketsByRegion, reported, errors>>

\* Reports that keeps the last error only.
ReportsLast(what, b) == errors' = {<<what, b>>}

\* An error about the bucket b, or about none.
Reports(what, b) == errors' = errors \cup {<<what, b>>}

Init ==
  /\ owned \in SUBSET Buckets
  /\ selected \in SUBSET Regions
  /\ pc = "start"
  /\ undelivered = owned
  /\ token = NoToken /\ seen = {} /\ listed = {}
  /\ unplaced = {}
  /\ bucketsByRegion = [r \in Regions |-> {}]
  /\ reported = {}
  /\ errors = {}

----------------------------------------------------------------------------
(***************************************************************************)
(* Without a region to send the first request to, or with selected regions *)
(* that are malformed or of several partitions, there is only an error.    *)
(***************************************************************************)
Start ==
  /\ pc = "start"
  /\ \/ pc' = "list" /\ UNCHANGED errors
     \/ pc' = "done" /\ Reports("regions", NoBucket)
  /\ UNCHANGED <<owned, selected, undelivered, token, seen, listed, unplaced,
                 bucketsByRegion, reported>>

(***************************************************************************)
(* listBuckets, and what EnumerateS3 makes of its two results.             *)
(***************************************************************************)
\* EndsListing that leaves the last page out of the list.
EndsListingLosesPage(buckets) ==
  /\ pc' = "account"
  /\ unplaced' = buckets
  /\ UNCHANGED <<listed, token, seen>>

EndsListing(buckets) ==
  /\ pc' = "account"
  /\ listed' = buckets /\ unplaced' = buckets
  /\ UNCHANGED <<token, seen>>

\* A call that fails or answers nothing ends the listing with what there is.
ListFails ==
  /\ pc = "list"
  /\ EndsListing(listed)
  /\ Reports("list", NoBucket)
  /\ UNCHANGED <<owned, selected, undelivered, bucketsByRegion, reported>>

LastPage ==
  /\ pc = "list"
  /\ EndsListing(listed \cup undelivered)
  /\ undelivered' = {}
  /\ UNCHANGED <<owned, selected, bucketsByRegion, reported, errors>>

\* Page that follows any token, seen before or not.
PageTrustsToken(batch, next) ==
  /\ undelivered' = undelivered \ batch
  /\ seen' = seen \cup {next} /\ token' = next
  /\ listed' = listed \cup batch
  /\ UNCHANGED <<owned, selected, pc, unplaced, bucketsByRegion, reported, errors>>

Page(batch, next) ==
  /\ undelivered' = undelivered \ batch
  /\ IF next \in seen
     THEN EndsListing(listed \cup batch) /\ Reports("token", NoBucket)
     ELSE /\ seen' = seen \cup {next} /\ token' = next
          /\ listed' = listed \cup batch
          /\ UNCHANGED <<pc, unplaced, errors>>
  /\ UNCHANGED <<owned, selected, bucketsByRegion, reported>>

NextPage ==
  /\ pc = "list"
  /\ \E batch \in SUBSET undelivered, next \in Tokens : Page(batch, next)

GetAccountBlock ==
  /\ pc = "account" /\ pc' = "place"
  /\ Reports("account", NoBucket) \/ UNCHANGED errors
  /\ UNCHANGED <<owned, selected, undelivered, token, seen, listed, unplaced,
                 bucketsByRegion, reported>>

----------------------------------------------------------------------------
(***************************************************************************)
(* First pass: the region of each bucket, from the listing or else from    *)
(* GetBucketLocation, which uses two historical names.                     *)
(***************************************************************************)
\* NormalizeBucketRegion that does not know the European name.
NormalizeBucketRegionUSOnly(location) ==
  IF location = "" THEN "us-east-1" ELSE location

NormalizeBucketRegion(location) ==
  CASE location = "" -> "us-east-1"
    [] location = "EU" -> "eu-west-1"
    [] OTHER -> location

\* Drops that only logs.
DropsSilently(what, b) == UNCHANGED <<errors, bucketsByRegion>>

Drops(what, b) == Reports(what, b) /\ UNCHANGED bucketsByRegion

Places(b, region) ==
  IF region \in Regions
  THEN /\ bucketsByRegion' = [bucketsByRegion EXCEPT ![region] = @ \cup {b}]
       /\ UNCHANGED errors
  ELSE Drops("region", b)

PlaceBucket(b) ==
  /\ unplaced' = unplaced \ {b}
  /\ \/ b \in Nameless /\ Drops("name", NoBucket)
     \/ b \notin Nameless /\ Places(b, Location[b])
     \/ b \notin Nameless /\ Places(b, NormalizeBucketRegion(Constraint[b]))
     \/ b \notin Nameless /\ Drops("location", b)
  /\ UNCHANGED <<owned, selected, pc, undelivered, token, seen, listed, reported>>

FirstPass == pc = "place" /\ \E b \in unplaced : PlaceBucket(b)

RegionsToProcess ==
  IF selected = {} THEN {r \in Regions : bucketsByRegion[r] # {}} ELSE selected

EndFirstPass ==
  /\ pc = "place" /\ unplaced = {}
  /\ pc' = "process"
  /\ UNCHANGED <<owned, selected, undelivered, token, seen, listed, unplaced,
                 bucketsByRegion, reported, errors>>

----------------------------------------------------------------------------
(***************************************************************************)
(* Second pass: each bucket of the regions to process, through a client of *)
(* the region it was grouped in.  A detail that cannot be read is an error *)
(* and the bucket is reported without it.                                  *)
(***************************************************************************)
Processed(b) == \E e \in reported : e[1] = b

ProcessBucket(region, b) ==
  /\ ~Processed(b)
  /\ \E missing \in SUBSET Details :
       /\ reported' = reported \cup {<<b, region, missing>>}
       /\ errors' = errors \cup {<<d, b>> : d \in missing}
  /\ UNCHANGED <<owned, selected, pc, undelivered, token, seen, listed, unplaced, bucketsByRegion>>

SecondPass ==
  /\ pc = "process"
  /\ \E r \in RegionsToProcess : \E b \in bucketsByRegion[r] : ProcessBucket(r, b)

EndSecondPass ==
  /\ pc = "process"
  /\ \A r \in RegionsToProcess : \A b \in bucketsByRegion[r] : Processed(b)
  /\ pc' = "done"
  /\ UNCHANGED <<owned, selected, undelivered, token, seen, listed, unplaced,
                 bucketsByRegion, reported, errors>>

\* The report has been returned.
Returned == pc = "done" /\ UNCHANGED vars

Next ==
  \/ Start \/ ListFails \/ LastPage \/ NextPage
  \/ GetAccountBlock \/ FirstPass \/ EndFirstPass
  \/ SecondPass \/ EndSecondPass \/ Returned

Spec == Init /\ [][Next]_vars

\* Every call returns, with an answer or with an error, and the one thread
\* that makes them goes on.
FairSpec == Spec /\ WF_vars(Next)

----------------------------------------------------------------------------
Errors ==
  ({"regions", "list", "token", "account", "name"} \X {NoBucket})
  \cup (({"region", "location"} \cup Details) \X Buckets)

TypeOK ==
  /\ owned \subseteq Buckets /\ selected \subseteq Regions
  /\ pc \in {"start", "list", "account", "place", "process", "done"}
  /\ undelivered \subseteq owned /\ listed \subseteq owned /\ unplaced \subseteq listed
  /\ token \in Tokens \cup {NoToken} /\ seen \subseteq Tokens
  /\ bucketsByRegion \in [Regions -> SUBSET Buckets]
  /\ reported \subseteq Buckets \X Regions \X SUBSET Details
  /\ errors \subseteq Errors

InSelection(b) == selected = {} \/ Location[b] \in selected

\* A report without errors is complete: every bucket of the account that lies
\* in a selected region is in it, with every detail.  A reader who sees no error
\* may take the absence of a bucket for its absence from the account.
SilenceMeansComplete ==
  pc = "done" /\ errors = {} =>
    {<<b, Location[b], {}>> : b \in {c \in owned : InSelection(c)}} = reported

\* An error names the bucket, or says that the listing was refused, that it was
\* cut short before it brought the bucket, or that it had an entry without a name.
Excused(b) ==
  \/ \E what \in {"location", "region"} : <<what, b>> \in errors
  \/ <<"regions", NoBucket>> \in errors
  \/ b \in undelivered /\ {<<"list", NoBucket>>, <<"token", NoBucket>>} \cap errors # {}
  \/ b \in Nameless /\ <<"name", NoBucket>> \in errors

\* Whatever failed, a bucket is not lost without a trace: it is reported, or it
\* is outside the selection, or an error accounts for it.
NoSilentLoss ==
  pc = "done" => \A b \in owned : Processed(b) \/ ~InSelection(b) \/ Excused(b)

\* What the report leaves out, whatever fails, an error accounts for.
LossesTold == SilenceMeansComplete /\ NoSilentLoss

\* A bucket is reported once, as in the region it is in, after being asked about
\* through that region's client, and never when that region was not selected.
ReportedInItsRegion ==
  \A e \in reported :
    /\ e[2] = Location[e[1]] /\ InSelection(e[1])
    /\ \A f \in reported : f[1] = e[1] => f = e

\* An error about a bucket's place is about a call that failed or a region whose
\* name is not accepted, never about a name GetBucketLocation may use.
PlacedUnlessFailed ==
  \A b \in Buckets : <<"region", b>> \in errors => Location[b] \notin Regions

\* Each bucket is placed in the region it is in, be it under an older name.
PlacedRight == ReportedInItsRegion /\ PlacedUnlessFailed

Wanted == {b \in owned : InSelection(b)}

Contract ==
  INSTANCE Inventory WITH
    Items <- Buckets,
    present <- Wanted,
    reported <- {e[1] : e \in reported},
    excused <- {b \in Wanted : Excused(b)},
    returned <- pc = "done"

\* The enumeration keeps the contract of an inventory at every step: it reports
\* only buckets of the account that were asked for, an error that has accounted
\* for a bucket goes on to do so, and each is accounted for on return.
KeepsContract == Contract!Spec

\* The enumeration ends, whatever tokens the service sends.
Terminates == <>(pc = "done")
=============================================================================
