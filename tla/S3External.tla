------------------------------ MODULE S3External ------------------------------
(***************************************************************************)
(* EnumerateS3 of internal/s3/external: without credentials, find the      *)
(* bucket of a URL, or the buckets whose names derive from a seed, and     *)
(* probe what everyone may do with them.                                   *)
(*                                                                         *)
(* The names of buckets are unique in a partition.  A request to a region  *)
(* is answered about the bucket of its partition, wherever it is.          *)
(***************************************************************************)
EXTENDS BucketURL, Decisions

CONSTANTS
  Inputs,        \* what is asked for: a URL of a bucket, or a seed's variants
  PermutationSuffixes,      \* permutationSuffixes, most valuable first
  Join,          \* <<variant, suffix>> -> the name they make
  ValidNames,    \* the names isValidBucketName accepts
  ReservedNames, \* the names of access points and the like
  Cap,           \* maxCandidatesCap
  Partition,     \* region -> partition; NoPartition if it is malformed
  NoPartition,
  DefaultRegion,
  Selections,    \* the sequences of regions that may be selected
  Worlds,        \* the sets of buckets <<name, region>> that may exist
  Accesses,      \* what everyone may do with them
  None

IsSequence(f) == f \in Seq(ToSet(f))

\* Every label of a host has a partition, if only that of malformed names: it may
\* be taken for a region.
IsInput(x) ==
  \/ /\ x.mode = "url" /\ x.form \in Forms /\ x.region \in SiteRegions
     /\ IsSequence(x.bucket) /\ x.bucket \notin {<<>>, NoName}
     /\ ToSet(URLOf(x.bucket, x.form, x.region).host) \subseteq DOMAIN Partition
  \/ x.mode = "seed" /\ IsSequence(x.variants) /\ x.max \in Int

ASSUME ExternalAssumption ==
  /\ \A x \in Inputs : IsInput(x)
  /\ Cap \in Nat \ {0}
  /\ IsSequence(PermutationSuffixes)
  /\ Selections \subseteq Seq(DOMAIN Partition)
  /\ DefaultRegion \in DOMAIN Partition /\ SiteRegions \subseteq DOMAIN Partition
  /\ \A w \in Worlds : \A a, b \in w :
       a[1] = b[1] /\ Partition[a[2]] = Partition[b[2]] => a = b
  /\ \A a \in Accesses :
       a \in [list : BOOLEAN, objects : {"none", "readable", "some", "unreadable"}, policy : BOOLEAN]

----------------------------------------------------------------------------
(***************************************************************************)
(* candidateNames: every variant with every suffix, suffix by suffix; the  *)
(* first of equal names counts and only if it is valid, up to the cap.     *)
(***************************************************************************)
Clamp(max) == IF max < 1 THEN 1 ELSE IF max > Cap THEN Cap ELSE max

\* PermutedNames variant by variant.
PermutedNamesVariantMajor(variants) ==
  [k \in 1 .. Len(variants) * Len(PermutationSuffixes) |->
    Join[<<variants[((k - 1) \div Len(PermutationSuffixes)) + 1], PermutationSuffixes[((k - 1) % Len(PermutationSuffixes)) + 1]>>]]

PermutedNames(variants) ==
  [k \in 1 .. Len(variants) * Len(PermutationSuffixes) |->
    Join[<<variants[((k - 1) % Len(variants)) + 1], PermutationSuffixes[((k - 1) \div Len(variants)) + 1]>>]]

\* Where a list has a valid name for the first time, and the n-th of these places.
Fresh(list) ==
  {k \in DOMAIN list : list[k] \in ValidNames /\ \A j \in 1 .. k - 1 : list[j] # list[k]}

UpTo(places, k) == Cardinality({j \in places : j <= k})

Nth(places, n) == CHOOSE k \in places : UpTo(places, k) = n

CandidateNames(variants, max) ==
  LET permuted == PermutedNames(variants)
      fresh == Fresh(permuted)
  IN [n \in 1 .. Min({Clamp(max), Cardinality(fresh)}) |-> permuted[Nth(fresh, n)]]

----------------------------------------------------------------------------
VARIABLES
  input,      \* [mode |-> "url", bucket, form, region] or [mode |-> "seed", variants, max]
  selected,   \* config.Regions
  buckets,    \* the buckets that exist, hidden but through the calls
  access,     \* what everyone may do with them, hidden likewise
  pc,
  names,      \* the names still to be looked at, the current one first
  regions,    \* regionsToCheck
  asked,      \* how many of them have been asked about the current name
  finding,    \* the report on the bucket being probed, or None
  reported,   \* result.ExternalBuckets
  errors      \* <<what failed, name or None>>

vars == <<input, selected, buckets, access, pc, names, regions, asked, finding, reported, errors>>
world == <<input, selected, buckets, access>>

Reports(what) == errors' = errors \cup {<<what, names[1]>>}

Init ==
  /\ input \in Inputs
  /\ selected \in Selections
  /\ buckets \in Worlds
  /\ access \in Accesses
  /\ pc = "begin"
  /\ names = <<>> /\ regions = <<>> /\ asked = 0
  /\ finding = None /\ reported = {} /\ errors = {}

RegionsToCheck(hint) ==
  CASE selected # <<>> -> selected
    [] selected = <<>> /\ hint # NoRegion -> <<hint>>
    [] OTHER -> <<DefaultRegion>>

BeginURL ==
  /\ pc = "begin" /\ input.mode = "url"
  /\ LET parsed == ParseBucketURL(URLOf(input.bucket, input.form, input.region)) IN
     names' = <<parsed.bucket>> /\ regions' = RegionsToCheck(parsed.region)
  /\ pc' = "locate"
  /\ UNCHANGED <<world, asked, finding, reported, errors>>

\* A seed without a valid candidate is an error of its own.
BeginSeed ==
  /\ pc = "begin" /\ input.mode = "seed"
  /\ names' = CandidateNames(input.variants, input.max)
  /\ regions' = RegionsToCheck(NoRegion)
  /\ IF names' = <<>> THEN pc' = "done" /\ errors' = {<<"no candidate", None>>}
     ELSE pc' = "locate" /\ UNCHANGED errors
  /\ UNCHANGED <<world, asked, finding, reported>>

----------------------------------------------------------------------------
(***************************************************************************)
(* The loop over names and regions around locateBucket.                    *)
(***************************************************************************)
\* What S3 knows of the current name in the partition of a region.
Located(region) == {b \in buckets : b[1] = names[1] /\ Partition[b[2]] = Partition[region]}

\* Goes on to the next region, or the next name.
NextRegion ==
  /\ asked' = asked + 1
  /\ UNCHANGED <<pc, names, finding>>

\* NextName that forgets to put the finding away.
NextNameKeepsFinding ==
  /\ names' = Tail(names) /\ asked' = 0
  /\ pc' = "locate" /\ UNCHANGED finding

NextName ==
  /\ names' = Tail(names) /\ asked' = 0
  /\ pc' = "locate" /\ finding' = None

\* LocateFails that only logs.
LocateFailsSilently(region) ==
  /\ NextRegion /\ UNCHANGED errors

\* A name the code refuses is an error for every region; so is a failed call,
\* an alias, and an answer without a region.
LocateFails(region) ==
  /\ Reports("locate")
  /\ NextRegion

LocatesNothing(region) ==
  /\ Located(region) = {}
  /\ NextRegion /\ UNCHANGED errors

\* With selected regions a bucket outside them ends the search for its name in
\* seed mode; in URL mode the other regions are still asked.
LocatesUnselected(region, bucket) ==
  /\ bucket \in Located(region)
  /\ selected # <<>> /\ bucket[2] \notin ToSet(selected)
  /\ IF input.mode = "seed" THEN NextName ELSE NextRegion
  /\ UNCHANGED errors

\* LocatesBucket that takes the region asked for the bucket's own.
LocatesBucketWhereAsked(region, bucket) ==
  /\ bucket \in Located(region)
  /\ selected = <<>> \/ bucket[2] \in ToSet(selected)
  /\ pc' = "list"
  /\ finding' = [bucket |-> <<names[1], region>>, list |-> "unknown", read |-> "unknown",
                 policy |-> FALSE, acl |-> FALSE]
  /\ UNCHANGED <<names, asked, errors>>

LocatesBucket(region, bucket) ==
  /\ bucket \in Located(region)
  /\ selected = <<>> \/ bucket[2] \in ToSet(selected)
  /\ pc' = "list"
  /\ finding' = [bucket |-> bucket, list |-> "unknown", read |-> "unknown",
                 policy |-> FALSE, acl |-> FALSE]
  /\ UNCHANGED <<names, asked, errors>>

LocateBucket ==
  /\ pc = "locate" /\ names # <<>> /\ asked < Len(regions)
  /\ LET region == regions[asked + 1] IN
     \/ LocateFails(region)
     \/ /\ names[1] \notin ReservedNames \cup {NoName} /\ Partition[region] # NoPartition
        /\ \/ LocatesNothing(region)
           \/ \E b \in buckets : LocatesUnselected(region, b) \/ LocatesBucket(region, b)
  /\ UNCHANGED <<world, regions, reported>>

\* No region knew the name: an error in URL mode, nothing in seed mode.
NameExhausted ==
  /\ pc = "locate" /\ names # <<>> /\ asked = Len(regions)
  /\ NextName
  /\ IF input.mode = "url" THEN Reports("not found") ELSE UNCHANGED errors
  /\ UNCHANGED <<world, regions, reported>>

\* Seed mode says so when it found nothing at all.
Finish ==
  /\ pc = "locate" /\ names = <<>>
  /\ pc' = "done"
  /\ errors' = IF input.mode = "seed" /\ reported = {}
               THEN errors \cup {<<"not found", None>>} ELSE errors
  /\ UNCHANGED <<world, names, regions, asked, finding, reported>>

----------------------------------------------------------------------------
(***************************************************************************)
(* externalS3Region: the probes of one bucket, each of which may fail.     *)
(***************************************************************************)
\* The client cannot be built: the bucket is not reported, the error is.
SetupFails ==
  /\ pc = "list"
  /\ Reports("setup") /\ NextName
  /\ UNCHANGED <<world, regions, reported>>

CheckListingAllowed ==
  /\ pc = "list"
  /\ \/ /\ finding' = [finding EXCEPT !.list = IF access.list THEN "yes" ELSE "no"]
        /\ pc' = IF access.list THEN "contents" ELSE "policy"
        /\ UNCHANGED errors
     \/ Reports("list") /\ pc' = "policy" /\ UNCHANGED finding
  /\ UNCHANGED <<world, names, regions, asked, reported>>

\* Only the first page is listed, and objects without a key are left out of it.
ListBucketContents ==
  /\ pc = "contents"
  /\ \/ pc' = "read" /\ access.objects # "none" /\ UNCHANGED errors
     \/ pc' = "policy" /\ UNCHANGED errors
     \/ pc' = "policy" /\ Reports("contents")
  /\ UNCHANGED <<world, names, regions, asked, finding, reported>>

\* Reads the first object of the page.  That it is denied says nothing about the
\* others; that its body does not close does not undo that it could be read.
CheckAnonymousReadAllowed ==
  /\ pc = "read" /\ pc' = "policy"
  /\ \/ /\ access.objects \in {"readable", "some"}
        /\ finding' = [finding EXCEPT !.read = "yes"]
        /\ UNCHANGED errors \/ Reports("read")
     \/ access.objects \in {"some", "unreadable"} /\ UNCHANGED <<finding, errors>>
     \/ Reports("read") /\ UNCHANGED finding
  /\ UNCHANGED <<world, names, regions, asked, reported>>

CheckPolicy ==
  /\ pc = "policy" /\ pc' = "acl"
  /\ \/ finding' = [finding EXCEPT !.policy = access.policy] /\ UNCHANGED errors
     \/ Reports("policy") /\ UNCHANGED finding
  /\ UNCHANGED <<world, names, regions, asked, reported>>

CheckACL ==
  /\ pc = "acl" /\ pc' = "append"
  /\ \/ finding' = [finding EXCEPT !.acl = TRUE] /\ UNCHANGED errors
     \/ Reports("acl") /\ UNCHANGED finding
  /\ UNCHANGED <<world, names, regions, asked, reported>>

\* URL mode ends with the first bucket; it has one name.
AppendFinding ==
  /\ pc = "append"
  /\ reported' = reported \cup {finding}
  /\ NextName
  /\ UNCHANGED <<world, regions, errors>>

\* The report has been returned.
Returned == pc = "done" /\ UNCHANGED vars

Next ==
  \/ BeginURL \/ BeginSeed \/ LocateBucket \/ NameExhausted \/ Finish
  \/ SetupFails \/ CheckListingAllowed \/ ListBucketContents
  \/ CheckAnonymousReadAllowed \/ CheckPolicy \/ CheckACL \/ AppendFinding \/ Returned

Spec == Init /\ [][Next]_vars

----------------------------------------------------------------------------
Calls == {"locate", "setup", "list", "contents", "read", "policy", "acl"}
Findings ==
  [bucket : UNION Worlds, list : Decision, read : Decision, policy : BOOLEAN, acl : BOOLEAN]

ASSUME FindingAssumption == None \notin Findings

TypeOK ==
  /\ input \in Inputs /\ selected \in Selections /\ buckets \in Worlds /\ access \in Accesses
  /\ pc \in {"begin", "locate", "list", "contents", "read", "policy", "acl", "append", "done"}
  /\ Len(names) <= Cap
  /\ ToSet(regions) \subseteq DOMAIN Partition /\ asked \in 0 .. Len(regions)
  /\ finding \in Findings \cup {None} /\ (finding # None <=> pc \notin {"begin", "locate", "done"})
  /\ reported \subseteq Findings
  /\ \A e \in errors : e[1] \in Calls \cup {"no candidate", "not found"}

Unambiguous(bucket) == ToSet(bucket) \cap ServiceLabels = {}

\* A URL of any supported form leads to the bucket it names, and to the region
\* it names if none is selected, unless labels of the bucket's own name are
\* those of endpoints.
URLNamesItsBucket ==
  input.mode = "url" /\ names # <<>> /\ Unambiguous(input.bucket) =>
    /\ names = <<input.bucket>>
    /\ selected = <<>> =>
         regions = <<IF input.form \in RegionalForms THEN input.region ELSE DefaultRegion>>

Names(variants) == {Join[<<v, s>>] : v \in ToSet(variants), s \in ToSet(PermutationSuffixes)} \cap ValidNames

Priority(variants, name) ==
  Min({s \in DOMAIN PermutationSuffixes : \E v \in ToSet(variants) : Join[<<v, PermutationSuffixes[s]>>] = name})

\* The cap leaves out a name only when it is full of valid names, none of them
\* twice and none of a less valuable suffix: no variant starves another.
CandidatesWorthProbing ==
  pc = "begin" /\ input.mode = "seed" =>
    LET found == CandidateNames(input.variants, input.max) IN
    /\ ToSet(found) \subseteq Names(input.variants)
    /\ \A i, j \in DOMAIN found : found[i] = found[j] => i = j
    /\ \A n \in Names(input.variants) \ ToSet(found) :
         /\ Len(found) = Clamp(input.max)
         /\ \A c \in ToSet(found) : Priority(input.variants, c) <= Priority(input.variants, n)

\* What the probes found is so: a failed probe is not a denial, and an object
\* that is denied says nothing about the others.
FindingsTrue ==
  \A f \in reported :
    /\ Agrees(f.list, access.list)
    /\ Agrees(f.read, access.list /\ access.objects \in {"readable", "some"})
    /\ f.policy => access.policy

\* What a finding leaves out is absent or an error names the bucket and the call.
OmissionsAreTold ==
  \A f \in reported :
    /\ f.list = "unknown" => <<"list", f.bucket[1]>> \in errors
    /\ ~f.policy /\ access.policy => <<"policy", f.bucket[1]>> \in errors
    /\ ~f.acl => <<"acl", f.bucket[1]>> \in errors

\* A bucket is reported as in the region it is in, whichever region was asked,
\* only if that region was selected, and no name is reported twice.
FoundWhereItIs ==
  \A f \in reported :
    /\ f.bucket \in buckets
    /\ selected # <<>> => f.bucket[2] \in ToSet(selected)
    /\ \A g \in reported : g.bucket[1] = f.bucket[1] => g = f

\* Every finding is true of the bucket and of its place, whichever probes were
\* denied or failed and whichever region was asked.
FindingsHold == FindingsTrue /\ FoundWhereItIs

WantedNames ==
  IF input.mode = "seed" THEN ToSet(CandidateNames(input.variants, input.max))
  ELSE {b \in {input.bucket} : Unambiguous(b)}

\* The regions whose partitions the enumeration is about.
ScopeRegions ==
  IF selected # <<>> THEN ToSet(selected)
  ELSE IF input.mode = "url" /\ input.form \in RegionalForms THEN {input.region}
  ELSE {DefaultRegion}

Wanted(b) ==
  /\ b[1] \in WantedNames
  /\ selected # <<>> => b[2] \in ToSet(selected)
  /\ selected = <<>> => \E r \in ScopeRegions : Partition[b[2]] = Partition[r]

Accounted(b) ==
  (\E f \in reported : f.bucket = b) \/ {<<"locate", b[1]>>, <<"setup", b[1]>>} \cap errors # {}

\* With regions of one partition, every bucket that was asked for is reported,
\* or a failed call is reported under its name.
NoSilentLoss ==
  pc = "done" /\ (\A r, q \in ScopeRegions : Partition[r] = Partition[q]) =>
    \A b \in buckets : Wanted(b) => Accounted(b)

\* An empty result never comes without a word about it.
EmptyIsExplained == pc = "done" /\ reported = {} => errors # {}

\* Neither a bucket that was asked for nor a detail of one is missing without an
\* error, whichever look-ups and probes fail.
LossesTold == OmissionsAreTold /\ NoSilentLoss /\ EmptyIsExplained

\* The --regions flag: "AWS Regions to search for resources.  You can specify
\* multiple regions".  Whatever regions are selected, each is searched.
SelectedRegionsSearched ==
  pc = "done" => \A b \in buckets : Wanted(b) => Accounted(b)
=============================================================================
