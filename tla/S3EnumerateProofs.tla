--------------------------- MODULE S3EnumerateProofs ---------------------------
(***************************************************************************)
(* Theorems about S3Enumerate: for any buckets, regions and tokens, what   *)
(* the report leaves out an error accounts for, and each bucket that is    *)
(* reported is so once, in its own region.                                 *)
(***************************************************************************)
EXTENDS S3Enumerate, TLAPS

Listing == {"start", "list"}
Placing == {"place", "process"}

\* The listing was refused, before the first request.
Refused == <<"regions", NoBucket>> \in errors

CutShort == <<"list", NoBucket>> \in errors \/ <<"token", NoBucket>> \in errors

\* What no page has brought is still to come, or the listing was cut short.
ListInv ==
  /\ owned = undelivered \cup listed
  /\ pc \in Listing => unplaced = {} /\ \A r \in Regions : bucketsByRegion[r] = {}
  /\ pc \notin {"process", "done"} => reported = {}
  /\ pc = "account" => unplaced = listed /\ \A r \in Regions : bucketsByRegion[r] = {}
  /\ pc \notin Listing => undelivered = {} \/ CutShort \/ (pc = "done" /\ Refused)

\* What accounts for a bucket once the first pass has looked at it.
Placed(b) ==
  \/ Location[b] \in Regions /\ b \in bucketsByRegion[Location[b]]
  \/ \E what \in {"location", "region"} : <<what, b>> \in errors
  \/ b \in Nameless /\ <<"name", NoBucket>> \in errors

\* A bucket is grouped in its own region, and none is forgotten.
PlaceInv ==
  /\ \A r \in Regions : \A b \in bucketsByRegion[r] : Location[b] = r /\ b \in listed
  /\ pc \in Placing \cup {"done"} => Refused \/ \A b \in listed \ unplaced : Placed(b)
  /\ pc \in {"process", "done"} => unplaced = {}
  /\ PlacedUnlessFailed

\* A bucket is reported once, from its group, and what is missing of it is told.
ReportInv ==
  /\ \A e \in reported :
       /\ e[2] \in RegionsToProcess /\ e[1] \in bucketsByRegion[e[2]]
       /\ \A d \in e[3] : <<d, e[1]>> \in errors
       /\ \A f \in reported : f[1] = e[1] => f = e
  /\ pc = "done" => Refused \/ \A r \in RegionsToProcess : \A b \in bucketsByRegion[r] : Processed(b)

IInv == TypeOK /\ ListInv /\ PlaceInv /\ ReportInv

----------------------------------------------------------------------------
(***************************************************************************)
(* Type correctness.                                                       *)
(***************************************************************************)
LEMMA EnumerateTypeInductive ==
  ASSUME TypeOK, [Next]_vars
  PROVE  TypeOK'
<1> USE DEF TypeOK, Errors
<1>1. CASE Start
  BY <1>1 DEF Start, Reports
<1>2. CASE ListFails
  BY <1>2 DEF ListFails, EndsListing, Reports
<1>3. CASE LastPage
  BY <1>3 DEF LastPage, EndsListing
<1>4. CASE NextPage
  <2>1. PICK batch \in SUBSET undelivered, next \in Tokens : Page(batch, next)
    BY <1>4 DEF NextPage
  <2>2. CASE next \in seen
    BY <2>1, <2>2 DEF Page, EndsListing, Reports
  <2>3. CASE next \notin seen
    BY <2>1, <2>3 DEF Page
  <2> QED BY <2>2, <2>3
<1>5. CASE GetAccountBlock
  BY <1>5 DEF GetAccountBlock, Reports
<1>6. CASE FirstPass
  <2>1. PICK b \in unplaced : PlaceBucket(b)
    BY <1>6 DEF FirstPass
  <2>2. b \in Buckets
    OBVIOUS
  <2>3. bucketsByRegion' \in [Regions -> SUBSET Buckets] /\ errors' \subseteq Errors
    BY <2>1, <2>2 DEF PlaceBucket, Places, Drops, Reports
  <2> QED BY <2>1, <2>3, <1>6 DEF PlaceBucket, FirstPass
<1>7. CASE EndFirstPass
  BY <1>7 DEF EndFirstPass
<1>8. CASE SecondPass
  <2>1. PICK r \in RegionsToProcess : \E b \in bucketsByRegion[r] : ProcessBucket(r, b)
    BY <1>8 DEF SecondPass
  <2>2. PICK b \in bucketsByRegion[r] : ProcessBucket(r, b)
    BY <2>1
  <2>3. r \in Regions /\ b \in Buckets
    BY DEF RegionsToProcess
  <2>4. PICK missing \in SUBSET Details :
          /\ reported' = reported \cup {<<b, r, missing>>}
          /\ errors' = errors \cup {<<d, b>> : d \in missing}
    BY <2>2 DEF ProcessBucket
  <2>5. reported' \subseteq Buckets \X Regions \X SUBSET Details
    BY <2>3, <2>4
  <2>6. errors' \subseteq Errors
    BY <2>3, <2>4
  <2> QED BY <1>8, <2>2, <2>5, <2>6 DEF SecondPass, ProcessBucket
<1>9. CASE EndSecondPass
  BY <1>9 DEF EndSecondPass
<1>10. CASE UNCHANGED vars
  BY <1>10 DEF vars
<1> QED BY <1>1, <1>2, <1>3, <1>4, <1>5, <1>6, <1>7, <1>8, <1>9, <1>10 DEF Next, Returned

\* The state of the enumeration keeps its type, whatever the service answers.
THEOREM EnumerateTypeCorrect == Spec => []TypeOK
<1>1. Init => TypeOK
  BY DEF Init, TypeOK
<1>2. TypeOK /\ [Next]_vars => TypeOK'
  BY EnumerateTypeInductive
<1> QED BY <1>1, <1>2, PTL DEF Spec

----------------------------------------------------------------------------
(***************************************************************************)
(* The invariant.                                                          *)
(***************************************************************************)
\* No error is ever taken back.
LEMMA ErrorsGrow ==
  ASSUME TypeOK, [Next]_vars
  PROVE  errors \subseteq errors'
<1>1. CASE SecondPass
  BY <1>1 DEF SecondPass, ProcessBucket
<1>2. CASE FirstPass
  BY <1>2 DEF FirstPass, PlaceBucket, Places, Drops, Reports
<1> QED BY <1>1, <1>2 DEF Next, Start, ListFails, LastPage, NextPage, Page, GetAccountBlock, EndFirstPass,
                         EndSecondPass, Returned, EndsListing, Reports, vars

\* Both names that GetBucketLocation has of its own are understood.
LEMMA NormalizedLocation ==
  \A b \in Buckets : NormalizeBucketRegion(Constraint[b]) = Location[b]
BY ConstraintAssumption DEF NormalizeBucketRegion

LEMMA ListInductive ==
  ASSUME TypeOK, ListInv, [Next]_vars
  PROVE  ListInv'
<1> USE DEF ListInv, Listing, Placing, CutShort, Refused
<1>1. CASE Start
  BY <1>1 DEF Start, Reports, TypeOK
<1>2. CASE ListFails
  BY <1>2 DEF ListFails, EndsListing, Reports
<1>3. CASE LastPage
  BY <1>3 DEF LastPage, EndsListing
<1>4. CASE NextPage
  <2>1. PICK batch \in SUBSET undelivered, next \in Tokens : Page(batch, next)
    BY <1>4 DEF NextPage
  <2>2. CASE next \in seen
    BY <1>4, <2>1, <2>2 DEF NextPage, Page, EndsListing, Reports
  <2>3. CASE next \notin seen
    BY <1>4, <2>1, <2>3 DEF NextPage, Page
  <2> QED BY <2>2, <2>3
<1>5. CASE GetAccountBlock
  BY <1>5 DEF GetAccountBlock, Reports
<1>6. CASE FirstPass
  <2>1. /\ pc = "place" /\ pc' = pc /\ UNCHANGED <<owned, undelivered, listed, reported>>
    BY <1>6 DEF FirstPass, PlaceBucket
  <2> QED BY <2>1, ErrorsGrow
<1>7. CASE EndFirstPass
  BY <1>7 DEF EndFirstPass
<1>8. CASE SecondPass
  <2>1. /\ pc = "process" /\ pc' = pc /\ UNCHANGED <<owned, undelivered, listed>>
    BY <1>8 DEF SecondPass, ProcessBucket
  <2> QED BY <2>1, ErrorsGrow
<1>9. CASE EndSecondPass
  BY <1>9 DEF EndSecondPass
<1>10. CASE UNCHANGED vars
  BY <1>10 DEF vars
<1> QED BY <1>1, <1>2, <1>3, <1>4, <1>5, <1>6, <1>7, <1>8, <1>9, <1>10 DEF Next, Returned

\* A step that leaves the groups alone and tells of no place.
LEMMA PlacesKept ==
  ASSUME TypeOK, PlaceInv, errors \subseteq errors', UNCHANGED bucketsByRegion, listed \subseteq listed',
         \A b \in Buckets : <<"region", b>> \in errors' => <<"region", b>> \in errors,
         pc' \in {"process", "done"} => unplaced' = {},
         pc' \in Placing \cup {"done"} =>
           Refused' \/ (listed' = listed /\ unplaced' = unplaced /\ pc \in Placing \cup {"done"})
                   \/ listed' \subseteq unplaced'
  PROVE  PlaceInv'
BY DEF PlaceInv, PlacedUnlessFailed, Placed, Refused

LEMMA PlaceInductive ==
  ASSUME TypeOK, ListInv, PlaceInv, [Next]_vars
  PROVE  PlaceInv'
<1>0. errors \subseteq errors'
  BY ErrorsGrow
<1> USE DEF Placing
<1>1. CASE Start
  <2>1. CASE pc' = "list" /\ UNCHANGED errors
    BY <1>0, <1>1, <2>1, PlacesKept DEF Start
  <2>2. CASE pc' = "done" /\ Reports("regions", NoBucket)
    <3>1. Refused' /\ unplaced' = {}
      BY <1>1, <2>2 DEF Start, Reports, Refused, ListInv, Listing
    <3>2. \A b \in Buckets : <<"region", b>> \in errors' => <<"region", b>> \in errors
      BY <2>2 DEF Reports
    <3> QED BY <1>0, <1>1, <2>2, <3>1, <3>2, PlacesKept DEF Start
  <2> QED BY <1>1, <2>1, <2>2 DEF Start
<1>2. CASE ListFails
  BY <1>0, <1>2, PlacesKept DEF ListFails, EndsListing, Reports
<1>3. CASE LastPage
  BY <1>0, <1>3, PlacesKept DEF LastPage, EndsListing
<1>4. CASE NextPage
  <2>1. PICK batch \in SUBSET undelivered, next \in Tokens : Page(batch, next)
    BY <1>4 DEF NextPage
  <2>2. CASE next \in seen
    BY <1>0, <1>4, <2>1, <2>2, PlacesKept DEF NextPage, Page, EndsListing, Reports
  <2>3. CASE next \notin seen
    BY <1>0, <1>4, <2>1, <2>3, PlacesKept DEF NextPage, Page
  <2> QED BY <2>2, <2>3
<1>5. CASE GetAccountBlock
  <2>1. unplaced = listed
    BY <1>5 DEF GetAccountBlock, ListInv
  <2> QED BY <1>0, <1>5, <2>1, PlacesKept DEF GetAccountBlock, Reports
<1>6. CASE FirstPass
  <2>1. PICK b \in unplaced : PlaceBucket(b)
    BY <1>6 DEF FirstPass
  <2>2. b \in Buckets /\ b \in listed
    BY DEF TypeOK
  <2>3. /\ pc = "place" /\ pc' = "place" /\ listed' = listed /\ unplaced' = unplaced \ {b}
    BY <1>6, <2>1 DEF FirstPass, PlaceBucket
  <2>4. \/ UNCHANGED bucketsByRegion /\ errors' = errors \cup {<<"name", NoBucket>>} /\ b \in Nameless
        \/ UNCHANGED bucketsByRegion /\ errors' = errors \cup {<<"location", b>>}
        \/ UNCHANGED bucketsByRegion /\ errors' = errors \cup {<<"region", b>>} /\ Location[b] \notin Regions
        \/ /\ bucketsByRegion' = [bucketsByRegion EXCEPT ![Location[b]] = @ \cup {b}]
           /\ UNCHANGED errors /\ Location[b] \in Regions
    BY <2>1, <2>2, NormalizedLocation DEF PlaceBucket, Places, Drops, Reports
  <2>5. Placed(b)'
    BY <2>4 DEF Placed, TypeOK
  <2>6. \A c \in Buckets : Placed(c) => Placed(c)'
    BY <1>0, <2>4 DEF Placed, TypeOK
  <2>7. \A r \in Regions : \A c \in bucketsByRegion'[r] : Location[c] = r /\ c \in listed'
    BY <2>2, <2>3, <2>4 DEF PlaceInv, TypeOK
  <2>8. PlacedUnlessFailed'
    BY <2>4 DEF PlaceInv, PlacedUnlessFailed
  <2>9. Refused' \/ \A c \in listed' \ unplaced' : Placed(c)'
    BY <1>0, <2>3, <2>5, <2>6 DEF PlaceInv, TypeOK, Refused
  <2> QED BY <2>3, <2>7, <2>8, <2>9 DEF PlaceInv
<1>7. CASE EndFirstPass
  BY <1>0, <1>7, PlacesKept DEF EndFirstPass
<1>8. CASE SecondPass
  <2>1. \A b \in Buckets : <<"region", b>> \in errors' => <<"region", b>> \in errors
    BY <1>8 DEF SecondPass, ProcessBucket, Details
  <2>2. /\ pc = "process" /\ pc' = "process" /\ UNCHANGED <<listed, unplaced, bucketsByRegion>>
    BY <1>8 DEF SecondPass, ProcessBucket
  <2> QED BY <1>0, <2>1, <2>2, PlacesKept DEF PlaceInv
<1>9. CASE EndSecondPass
  BY <1>0, <1>9, PlacesKept DEF EndSecondPass, PlaceInv
<1>10. CASE UNCHANGED vars
  BY <1>0, <1>10, PlacesKept DEF vars, PlaceInv
<1> QED BY <1>1, <1>2, <1>3, <1>4, <1>5, <1>6, <1>7, <1>8, <1>9, <1>10 DEF Next, Returned

LEMMA ReportInductive ==
  ASSUME TypeOK, ListInv, PlaceInv, ReportInv, [Next]_vars
  PROVE  ReportInv'
<1>0. errors \subseteq errors'
  BY ErrorsGrow
<1>1. CASE SecondPass
  <2>1. PICK r \in RegionsToProcess : \E b \in bucketsByRegion[r] : ProcessBucket(r, b)
    BY <1>1 DEF SecondPass
  <2>2. PICK b \in bucketsByRegion[r] : ProcessBucket(r, b)
    BY <2>1
  <2>3. PICK missing \in SUBSET Details :
          /\ reported' = reported \cup {<<b, r, missing>>}
          /\ errors' = errors \cup {<<d, b>> : d \in missing}
    BY <2>2 DEF ProcessBucket
  <2>4. /\ pc' = "process" /\ UNCHANGED bucketsByRegion /\ RegionsToProcess' = RegionsToProcess
        /\ \A e \in reported : e[1] # b
    BY <1>1, <2>2 DEF SecondPass, ProcessBucket, RegionsToProcess, Processed
  <2>5. ASSUME NEW e \in reported'
        PROVE  /\ e[2] \in RegionsToProcess' /\ e[1] \in bucketsByRegion'[e[2]]
               /\ \A d \in e[3] : <<d, e[1]>> \in errors'
               /\ \A f \in reported' : f[1] = e[1] => f = e
    <3>1. CASE e \in reported
      <4>1. \A f \in reported' : f[1] = e[1] => f = e
        BY <2>3, <2>4, <3>1 DEF ReportInv
      <4> QED BY <1>0, <2>4, <3>1, <4>1 DEF ReportInv
    <3>2. CASE e = <<b, r, missing>>
      <4>1. \A f \in reported' : f[1] = e[1] => f = e
        BY <2>3, <2>4, <3>2
      <4> QED BY <2>1, <2>3, <2>4, <3>2, <4>1
    <3> QED BY <2>3, <3>1, <3>2
  <2> QED BY <2>4, <2>5 DEF ReportInv
<1>2. CASE pc \in {"process", "done"} /\ ~SecondPass
  <2>1. UNCHANGED <<pc, selected, bucketsByRegion, reported, errors>> \/ EndSecondPass
    BY <1>2 DEF Next, Start, ListFails, LastPage, NextPage, GetAccountBlock, FirstPass, EndFirstPass, Returned, vars
  <2>2. CASE EndSecondPass
    BY <2>2 DEF EndSecondPass, ReportInv, RegionsToProcess, Processed
  <2>3. CASE UNCHANGED <<pc, selected, bucketsByRegion, reported, errors>>
    BY <2>3 DEF ReportInv, RegionsToProcess, Processed, Refused
  <2> QED BY <2>1, <2>2, <2>3
<1>3. CASE pc \notin {"process", "done"} /\ ~SecondPass
  <2>1. reported' = {}
    BY <1>3 DEF ListInv, Next, Start, ListFails, LastPage, NextPage, Page, GetAccountBlock, FirstPass, PlaceBucket,
                EndFirstPass, EndSecondPass, Returned, vars
  <2>2. pc' = "done" => Refused'
    BY <1>3 DEF TypeOK, Next, Start, ListFails, LastPage, NextPage, Page, EndsListing, GetAccountBlock, FirstPass,
                PlaceBucket, EndFirstPass, EndSecondPass, Returned, vars, Reports, Refused
  <2> QED BY <2>1, <2>2 DEF ReportInv
<1> QED BY <1>1, <1>2, <1>3

\* The inductive invariant holds.
THEOREM EnumerateInvariant == Spec => []IInv
<1>1. Init => ListInv /\ PlaceInv /\ ReportInv
  BY DEF Init, ListInv, PlaceInv, ReportInv, Listing, Placing, PlacedUnlessFailed
<1>2. TypeOK /\ ListInv /\ PlaceInv /\ ReportInv /\ [Next]_vars => (ListInv /\ PlaceInv /\ ReportInv)'
  BY ListInductive, PlaceInductive, ReportInductive
<1>3. TypeOK /\ ListInv /\ PlaceInv /\ ReportInv => IInv
  BY DEF IInv
<1> QED BY <1>1, <1>2, <1>3, EnumerateTypeCorrect, PTL DEF Spec

----------------------------------------------------------------------------
(***************************************************************************)
(* What follows.                                                           *)
(***************************************************************************)
\* A group is processed exactly if its buckets are in the selection.
LEMMA SelectionProcessed ==
  ASSUME TypeOK, NEW b, Location[b] \in Regions, b \in bucketsByRegion[Location[b]]
  PROVE  InSelection(b) <=> Location[b] \in RegionsToProcess
BY DEF TypeOK, InSelection, RegionsToProcess

LEMMA ReportShape ==
  ASSUME TypeOK, NEW e \in reported
  PROVE  e = <<e[1], e[2], e[3]>> /\ e[1] \in Buckets /\ e[2] \in Regions /\ e[3] \subseteq Details
BY DEF TypeOK

LEMMA NothingLostSilently ==
  ASSUME IInv, pc = "done", NEW b \in owned, InSelection(b)
  PROVE  \/ Processed(b)
         \/ \E what \in {"location", "region"} : <<what, b>> \in errors
         \/ Refused
         \/ b \in undelivered /\ CutShort
         \/ b \in Nameless /\ <<"name", NoBucket>> \in errors
<1>1. CASE b \in undelivered
  BY <1>1 DEF IInv, ListInv, Listing
<1>2. CASE b \in listed /\ ~Refused
  <2>1. Placed(b)
    BY <1>2 DEF IInv, PlaceInv
  <2>2. CASE Location[b] \in Regions /\ b \in bucketsByRegion[Location[b]]
    <3>1. Location[b] \in RegionsToProcess
      BY <2>2, SelectionProcessed DEF IInv
    <3> QED BY <1>2, <2>2, <3>1 DEF IInv, ReportInv
  <2> QED BY <2>1, <2>2 DEF Placed
<1> QED BY <1>1, <1>2 DEF IInv, ListInv

\* Whatever fails, no bucket is missing without an error that accounts for it, and
\* a report without errors is complete.
THEOREM EnumerateTellsLosses == Spec => []LossesTold
<1>1. ASSUME IInv, pc = "done"
      PROVE  \A b \in owned : Processed(b) \/ ~InSelection(b) \/ Excused(b)
  BY <1>1, NothingLostSilently DEF Excused, CutShort, Refused
<1>2. ASSUME IInv, pc = "done", errors = {}
      PROVE  {<<b, Location[b], {}>> : b \in {c \in owned : InSelection(c)}} = reported
  <2>1. ASSUME NEW e \in reported
        PROVE  /\ e = <<e[1], Location[e[1]], {}>>
               /\ e[1] \in {c \in owned : InSelection(c)}
    <3>1. e[2] \in RegionsToProcess /\ e[1] \in bucketsByRegion[e[2]] /\ e[3] = {}
      BY <1>2 DEF IInv, ReportInv
    <3>2. e[2] = Location[e[1]] /\ e[1] \in listed
      BY <1>2, <3>1, ReportShape DEF IInv, PlaceInv
    <3>3. InSelection(e[1])
      BY <1>2, <3>1, <3>2, ReportShape, SelectionProcessed DEF IInv
    <3> QED BY <1>2, <3>1, <3>2, <3>3, ReportShape DEF IInv, ListInv
  <2>2. ASSUME NEW b \in {c \in owned : InSelection(c)}
        PROVE  <<b, Location[b], {}>> \in reported
    <3>1. Processed(b)
      BY <1>2, NothingLostSilently DEF Refused, CutShort
    <3>2. PICK e \in reported : e[1] = b
      BY <3>1 DEF Processed
    <3> QED BY <2>1, <3>2
  <2> QED BY <2>1, <2>2
<1>3. IInv => LossesTold
  BY <1>1, <1>2 DEF LossesTold, SilenceMeansComplete, NoSilentLoss
<1> QED BY <1>3, EnumerateInvariant, PTL

\* A bucket is reported once, in the region it is in, be it under an older name.
THEOREM EnumeratePlacesRight == Spec => []PlacedRight
<1>1. ASSUME IInv, NEW e \in reported
      PROVE  /\ e[2] = Location[e[1]] /\ InSelection(e[1])
             /\ \A f \in reported : f[1] = e[1] => f = e
  <2>1. e[2] \in RegionsToProcess /\ e[1] \in bucketsByRegion[e[2]] /\ e[2] \in Regions
    BY <1>1, ReportShape DEF IInv, ReportInv
  <2>2. e[2] = Location[e[1]]
    BY <1>1, <2>1 DEF IInv, PlaceInv
  <2>3. InSelection(e[1])
    BY <1>1, <2>1, <2>2, SelectionProcessed DEF IInv
  <2> QED BY <1>1, <2>2, <2>3 DEF IInv, ReportInv
<1>2. IInv => PlacedRight
  BY <1>1 DEF PlacedRight, ReportedInItsRegion, IInv, PlaceInv
<1> QED BY <1>2, EnumerateInvariant, PTL
----------------------------------------------------------------------------
(***************************************************************************)
(* The contract of an inventory.                                           *)
(***************************************************************************)
\* Before the listing ends nothing has cut it short.
NotCutShort == pc \in Listing => ~CutShort

LEMMA NotCutShortInductive ==
  ASSUME TypeOK, NotCutShort, [Next]_vars
  PROVE  NotCutShort'
<1> USE DEF NotCutShort, Listing, CutShort
<1>1. CASE Start
  BY <1>1 DEF Start, Reports
<1>2. CASE NextPage
  <2>1. PICK batch \in SUBSET undelivered, next \in Tokens : Page(batch, next)
    BY <1>2 DEF NextPage
  <2> QED BY <1>2, <2>1 DEF NextPage, Page, EndsListing
<1>3. CASE FirstPass
  BY <1>3 DEF FirstPass, PlaceBucket
<1>4. CASE SecondPass
  BY <1>4 DEF SecondPass, ProcessBucket
<1> QED BY <1>1, <1>2, <1>3, <1>4 DEF Next, ListFails, LastPage, EndsListing, GetAccountBlock, EndFirstPass,
                                     EndSecondPass, Returned, vars

Reported == {e[1] : e \in reported}
ExcusedOnes == {b \in Wanted : Excused(b)}

\* What is there and what is wanted of it does not change.
LEMMA WantedKept ==
  ASSUME [Next]_vars
  PROVE  Wanted' = Wanted
<1>1. UNCHANGED <<owned, selected>>
  <2>1. CASE NextPage
    BY <2>1 DEF NextPage, Page
  <2>2. CASE FirstPass
    BY <2>2 DEF FirstPass, PlaceBucket
  <2>3. CASE SecondPass
    BY <2>3 DEF SecondPass, ProcessBucket
  <2> QED BY <2>1, <2>2, <2>3 DEF Next, Start, ListFails, LastPage, GetAccountBlock, EndFirstPass, EndSecondPass,
                                 Returned, vars
<1> QED BY <1>1 DEF Wanted, InSelection

\* An error that has accounted for a bucket goes on to do so: a page takes a
\* bucket away from those to come only while nothing has cut the listing short.
LEMMA ExcusesKept ==
  ASSUME TypeOK, NotCutShort, [Next]_vars, NEW b, Excused(b)
  PROVE  Excused(b)'
<1>1. errors \subseteq errors'
  BY ErrorsGrow
<1>2. ASSUME pc \notin Listing
      PROVE  undelivered' = undelivered
  <2>1. CASE FirstPass
    BY <2>1 DEF FirstPass, PlaceBucket
  <2>2. CASE SecondPass
    BY <2>2 DEF SecondPass, ProcessBucket
  <2> QED BY <1>2, <2>1, <2>2 DEF Listing, Next, Start, ListFails, LastPage, NextPage, GetAccountBlock,
                                 EndFirstPass, EndSecondPass, Returned, vars
<1> QED BY <1>1, <1>2 DEF Excused, NotCutShort, CutShort

\* A report holds only buckets of the account that are in the selection.
LEMMA ReportedWanted ==
  ASSUME IInv
  PROVE  Reported \subseteq Wanted
<1> SUFFICES ASSUME NEW e \in reported PROVE e[1] \in Wanted
  BY DEF Reported
<1>1. e[2] \in RegionsToProcess /\ e[1] \in bucketsByRegion[e[2]] /\ e[2] \in Regions
  BY ReportShape DEF IInv, ReportInv
<1>2. e[2] = Location[e[1]] /\ e[1] \in listed
  BY <1>1 DEF IInv, PlaceInv
<1>3. InSelection(e[1])
  BY <1>1, <1>2, SelectionProcessed DEF IInv
<1> QED BY <1>2, <1>3 DEF IInv, TypeOK, Wanted

LEMMA ReportGrows ==
  ASSUME TypeOK, [Next]_vars
  PROVE  reported \subseteq reported'
<1>1. CASE NextPage
  BY <1>1 DEF NextPage, Page
<1>2. CASE FirstPass
  BY <1>2 DEF FirstPass, PlaceBucket
<1>3. CASE SecondPass
  BY <1>3 DEF SecondPass, ProcessBucket
<1> QED BY <1>1, <1>2, <1>3 DEF Next, Start, ListFails, LastPage, GetAccountBlock, EndFirstPass, EndSecondPass,
                               Returned, vars

LEMMA EnumerateGrows ==
  ASSUME IInv, IInv', NotCutShort, [Next]_vars
  PROVE  Contract!Grows
<1>1. Wanted' = Wanted
  BY WantedKept
<1>2. Reported \subseteq Reported'
  BY ReportGrows DEF Reported, IInv
<1>3. Reported' \subseteq Wanted
  <2>1. (IInv => Reported \subseteq Wanted)'
    BY ReportedWanted, PTL
  <2> QED BY <1>1, <2>1
<1>4. ExcusedOnes \subseteq ExcusedOnes'
  BY <1>1, ExcusesKept DEF ExcusedOnes, IInv
<1>5. ExcusedOnes' \subseteq Wanted
  BY <1>1 DEF ExcusedOnes
<1> QED BY <1>1, <1>2, <1>3, <1>4, <1>5 DEF Contract!Grows, Reported, ExcusedOnes

\* On return each bucket that is wanted is accounted for.
LEMMA AccountedOnReturn ==
  ASSUME IInv, pc = "done"
  PROVE  Wanted \subseteq Reported \cup ExcusedOnes
BY NothingLostSilently DEF Wanted, Reported, ExcusedOnes, Processed, Excused, Refused, CutShort

LEMMA NextRefines ==
  ASSUME IInv, IInv', NotCutShort, [Next]_vars
  PROVE  [Contract!Next]_(Contract!vars)
<1>1. Contract!Grows
  BY EnumerateGrows
<1>2. CASE pc # "done" /\ pc' # "done"
  BY <1>1, <1>2 DEF Contract!Next, Contract!Record
<1>3. CASE pc # "done" /\ pc' = "done"
  <2>1. (IInv /\ pc = "done" => Wanted \subseteq Reported \cup ExcusedOnes)'
    BY AccountedOnReturn, PTL
  <2>2. Wanted' = Wanted
    BY WantedKept
  <2>3. Wanted \subseteq Reported' \cup ExcusedOnes'
    BY <1>3, <2>1, <2>2
  <2> QED BY <1>1, <1>3, <2>3 DEF Contract!Next, Contract!Return, Reported, ExcusedOnes
<1>4. CASE pc = "done"
  <2>1. UNCHANGED vars
    BY <1>4 DEF Next, Start, ListFails, LastPage, NextPage, GetAccountBlock, FirstPass, EndFirstPass, SecondPass,
                EndSecondPass, Returned
  <2>2. UNCHANGED <<pc, Wanted, Reported, ExcusedOnes>>
    BY <2>1 DEF vars, Wanted, InSelection, Reported, ExcusedOnes, Excused
  <2> QED BY <2>2 DEF Contract!vars, Reported, ExcusedOnes
<1> QED BY <1>2, <1>3, <1>4

\* EnumerateS3 implements the inventory: whatever calls fail and however the
\* listing is paged, only buckets that are wanted are reported, no excuse is taken
\* back, and each bucket is reported or excused when the report is returned.
THEOREM EnumerateKeepsContract == Spec => KeepsContract
<1>1. Init => Contract!Init /\ NotCutShort
  BY DEF Init, Contract!Init, Wanted, Excused, NotCutShort, CutShort
<1>2. TypeOK /\ NotCutShort /\ [Next]_vars => NotCutShort'
  BY NotCutShortInductive
<1>3. IInv /\ IInv' /\ NotCutShort /\ [Next]_vars => [Contract!Next]_(Contract!vars)
  BY NextRefines
<1>4. Spec => []NotCutShort
  BY <1>1, <1>2, EnumerateTypeCorrect, PTL DEF Spec
<1> QED BY <1>1, <1>3, <1>4, EnumerateInvariant, PTL DEF Spec, KeepsContract, Contract!Spec
=============================================================================
