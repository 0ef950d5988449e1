----------------------- MODULE RegionalInventoryProofs -----------------------
(***************************************************************************)
(* The regional enumerators keep the contract of an inventory; their       *)
(* resolver asks for each id at most once a region; and of a resource's    *)
(* references each is reported or explained, an id has one answer in a     *)
(* region, and a role is that of the profile that is attached: for any     *)
(* resources, any regions, and any paging of the service.                  *)
(***************************************************************************)
EXTENDS RegionalInventory, TLAPS

Places == 1 .. Len(Regions)
Building == {"block", "resolve", "role", "urls", "append"}

\* The listing of the i-th region is over.
Ended(i) == i < place \/ (i = place /\ ~more)

ListError(r) == <<"list", NoItem, r>>

TypeInv ==
  /\ present \in SUBSET Resources
  /\ undelivered \in SUBSET present /\ queue \in SUBSET present
  /\ pc \in {"region", "list", "convert", "done"} \cup Building
  /\ place \in 0 .. Len(Regions) /\ more \in BOOLEAN

\* Where the enumerator is, and that nothing is left over from the region before.
PlaceInv ==
  /\ pc \in {"region", "done"} => queue = {} /\ ~more
  /\ pc \notin {"region", "done"} => place \in Places /\ region = Regions[place]
  /\ pc = "list" => more
  /\ pc = "done" => place = Len(Regions)
  /\ \A x \in queue : x.region = region

ItemInv ==
  /\ pc \in Building <=> item # NoItem
  /\ item # NoItem => item \in Wanted
  /\ \A r \in reported : r.resource \in Wanted

\* A region's listing has failed only if it is over; what it has not delivered
\* when it is over, it has not because it failed.
ListingInv ==
  \A i \in Places :
    /\ ListError(Regions[i]) \in errors => Ended(i)
    /\ Ended(i) => \A x \in undelivered :
                     x.region = Regions[i] => ListError(Regions[i]) \in errors

Reported == {r.resource : r \in reported}

\* What is wanted is still to come, at work, reported, or rejected.
CoverInv ==
  \A x \in Wanted :
    x \in undelivered \cup queue \cup {item} \cup Reported \/ <<"identify", x, NoId>> \in errors

IInv == TypeInv /\ PlaceInv /\ ItemInv /\ ListingInv /\ CoverInv

(***************************************************************************)
(* The actions that build an item touch nothing the invariant is about but *)
(* the errors, and none of these is of a listing or an identity.           *)
(***************************************************************************)
SameLosses ==
  /\ \A r \in RegionNames : ListError(r) \in errors' <=> ListError(r) \in errors
  /\ \A x \in Resources : <<"identify", x, NoId>> \in errors' <=> <<"identify", x, NoId>> \in errors

BuildStep ==
  /\ pc \in Building /\ pc' \in Building
  /\ UNCHANGED <<kind, present, place, undelivered, more, queue, item, reported, region>>
  /\ SameLosses

LEMMA ReportsKeepsLosses ==
  ASSUME NEW what \in {"block", "no vpc", "unresolved", "profile", "urls"}, NEW id, Reports(what, id)
  PROVE  SameLosses
BY DEF Reports, SameLosses, ListError

LEMMA NoErrorKeepsLosses == UNCHANGED errors => SameLosses
BY DEF SameLosses

LEMMA ResolveKeepsRegion ==
  ASSUME NEW id, NEW answer, Resolve(id, answer)
  PROVE  UNCHANGED region
BY DEF Resolve, Lookup, resolverVars

LEMMA BuildActions ==
  ASSUME BeginBlock \/ ResolveReference \/ EndBlock \/ (BlocksDone /\ pc' \in Building) \/ ResolveRole
           \/ EnrichFunctionURLs
  PROVE  BuildStep
<1>1. CASE BeginBlock
  <2>1. SameLosses
    BY <1>1, ReportsKeepsLosses, NoErrorKeepsLosses DEF BeginBlock
  <2> QED
    BY <1>1, <2>1 DEF BeginBlock, BuildStep, Building, listing, resolverVars
<1>2. CASE ResolveReference
  <2>1. SameLosses
    BY <1>2, ReportsKeepsLosses, NoErrorKeepsLosses DEF ResolveReference, Missed
  <2>2. UNCHANGED region
    BY <1>2, ResolveKeepsRegion DEF ResolveReference
  <2> QED
    BY <1>2, <2>1, <2>2 DEF ResolveReference, BuildStep, Building, listing
<1>3. CASE EndBlock
  <2>1. SameLosses
    BY <1>3, NoErrorKeepsLosses DEF EndBlock
  <2> QED
    BY <1>3, <2>1 DEF EndBlock, BuildStep, Building, listing, resolverVars
<1>4. CASE BlocksDone /\ pc' \in Building
  <2>1. SameLosses
    BY <1>4, NoErrorKeepsLosses DEF BlocksDone
  <2> QED
    BY <1>4, <2>1 DEF BlocksDone, BuildStep, Building, listing, building, resolverVars
<1>5. CASE ResolveRole
  <2>1. SameLosses
    BY <1>5, ReportsKeepsLosses, NoErrorKeepsLosses DEF ResolveRole, UseProfile
  <2> QED
    BY <1>5, <2>1 DEF ResolveRole, BuildStep, Building, listing, resolverVars
<1>6. CASE EnrichFunctionURLs
  <2>1. SameLosses
    BY <1>6, ReportsKeepsLosses, NoErrorKeepsLosses DEF EnrichFunctionURLs
  <2> QED
    BY <1>6, <2>1 DEF EnrichFunctionURLs, BuildStep, Building, listing, building, resolverVars
<1> QED
  BY <1>1, <1>2, <1>3, <1>4, <1>5, <1>6

LEMMA BuildKeepsInvariant ==
  ASSUME IInv, BuildStep
  PROVE  IInv'
<1>1. Regions \in Seq(RegionNames)
  BY InventoryAssumption
<1>2. Wanted' = Wanted
  BY DEF BuildStep, Wanted, OfOtherService
<1>3. TypeInv' /\ PlaceInv'
  BY DEF IInv, TypeInv, PlaceInv, BuildStep, Building, Places
<1>4. ItemInv'
  BY <1>2 DEF IInv, ItemInv, BuildStep
<1>5. ListingInv'
  BY <1>1 DEF IInv, ListingInv, BuildStep, SameLosses, Ended, Places
<1>6. CoverInv'
  <2> SUFFICES ASSUME NEW x \in Wanted
               PROVE  x \in (undelivered \cup queue \cup {item} \cup Reported)' \/ <<"identify", x, NoId>> \in errors'
    BY <1>2 DEF CoverInv
  <2>1. x \in Resources
    BY DEF Wanted, IInv, TypeInv
  <2> QED
    BY <2>1 DEF IInv, CoverInv, BuildStep, SameLosses, Reported
<1> QED
  BY <1>3, <1>4, <1>5, <1>6 DEF IInv

(***************************************************************************)
(* The other actions.                                                      *)
(***************************************************************************)
LEMMA PlacesFacts ==
  /\ Regions \in Seq(RegionNames) /\ Len(Regions) \in Nat
  /\ \A i \in Places : Regions[i] \in RegionNames
  /\ \A i, j \in Places : Regions[i] = Regions[j] => i = j
  /\ \A x \in Resources : x.region \in RegionNames
  /\ NoItem \notin Resources
BY InventoryAssumption DEF Places

LEMMA WantedFacts ==
  ASSUME TypeInv
  PROVE  /\ Wanted \subseteq Resources
         /\ \A x \in Wanted : x \in present /\ ~OfOtherService(x)
         /\ \A x \in Wanted : \E i \in Places : x.region = Regions[i]
BY PlacesFacts DEF Wanted, TypeInv, Places

LEMMA InitEstablishesInvariant == Init => IInv
<1> SUFFICES ASSUME Init PROVE IInv
  OBVIOUS
<1>1. /\ present \subseteq Resources /\ undelivered = present /\ queue = {} /\ ~more
      /\ pc = "region" /\ place = 0 /\ more \in BOOLEAN
      /\ item = NoItem /\ reported = {} /\ errors = {}
  BY DEF Init
<1>2. TypeInv /\ PlaceInv /\ ItemInv
  BY <1>1, PlacesFacts DEF TypeInv, PlaceInv, ItemInv, Building
<1>3. \A i \in Places : ~Ended(i)
  BY <1>1, PlacesFacts DEF Ended, Places
<1>4. ListingInv /\ CoverInv
  BY <1>1, <1>3 DEF ListingInv, CoverInv, Wanted
<1> QED
  BY <1>2, <1>4 DEF IInv

LEMMA NextRegionKeepsInvariant ==
  ASSUME IInv, NextRegion
  PROVE  IInv'
<1>1. /\ place' = place + 1 /\ place' \in Places /\ region' = Regions[place'] /\ more' = TRUE
      /\ UNCHANGED <<present, undelivered, queue, item, reported, errors>>
      /\ pc = "region" /\ pc' = "list" /\ ~more /\ queue = {}
  BY PlacesFacts DEF NextRegion, NewResolver, building, IInv, TypeInv, PlaceInv, Places
<1>2. TypeInv' /\ PlaceInv'
  BY <1>1 DEF IInv, TypeInv, PlaceInv, Places, Building
<1>3. Wanted' = Wanted
  BY <1>1 DEF Wanted, OfOtherService
<1>4. \A i \in Places : Ended(i)' <=> Ended(i)
  BY <1>1, PlacesFacts DEF Ended, Places, IInv, TypeInv
<1>5. ListingInv' /\ ItemInv' /\ CoverInv'
  BY <1>1, <1>3, <1>4 DEF IInv, ListingInv, ItemInv, CoverInv, Building, Reported
<1> QED
  BY <1>2, <1>5 DEF IInv

LEMMA FinishKeepsInvariant ==
  ASSUME IInv, Finish
  PROVE  IInv'
BY PlacesFacts DEF Finish, IInv, TypeInv, PlaceInv, ItemInv, ListingInv, CoverInv, Ended, Places,
                   Building, Wanted, OfOtherService, Reported, listing, building, resolverVars

LEMMA PageKeepsInvariant ==
  ASSUME IInv, Page
  PROVE  IInv'
<1>1. PICK batch \in SUBSET Undelivered :
        /\ undelivered' = undelivered \ batch /\ queue' = queue \cup batch
        /\ more' \in BOOLEAN /\ (~more' => batch = Undelivered)
        /\ pc' \in {"list", "convert"} /\ (pc' = "list" => more')
  BY DEF Page
<1>2. /\ pc = "list" /\ more /\ place \in Places /\ region = Regions[place]
      /\ UNCHANGED <<present, place, item, reported, errors, region>>
  BY DEF Page, building, resolverVars, IInv, PlaceInv
<1>3. TypeInv' /\ PlaceInv'
  BY <1>1, <1>2 DEF IInv, TypeInv, PlaceInv, Building, Undelivered
<1>4. Wanted' = Wanted
  BY <1>2 DEF Wanted, OfOtherService
<1>5. ItemInv' /\ CoverInv'
  BY <1>1, <1>2, <1>4 DEF IInv, ItemInv, CoverInv, Building, Reported
<1>6. ListingInv'
  <2> SUFFICES ASSUME NEW i \in Places
               PROVE  /\ ListError(Regions[i]) \in errors' => Ended(i)'
                      /\ Ended(i)' => \A x \in undelivered' :
                           x.region = Regions[i] => ListError(Regions[i]) \in errors'
    BY DEF ListingInv
  <2>1. Ended(i) => Ended(i)' /\ i # place
    BY <1>2, PlacesFacts DEF Ended, Places
  <2>2. Ended(i)' => Ended(i) \/ (i = place /\ batch = Undelivered)
    BY <1>1, <1>2 DEF Ended
  <2> QED
    BY <1>1, <1>2, <2>1, <2>2 DEF IInv, ListingInv, Undelivered
<1> QED
  BY <1>3, <1>5, <1>6 DEF IInv

LEMMA PageFailsKeepsInvariant ==
  ASSUME IInv, PageFails
  PROVE  IInv'
<1>1. /\ pc = "list" /\ more /\ place \in Places /\ region = Regions[place]
      /\ pc' = "convert" /\ more' = FALSE /\ errors' = errors \cup {ListError(region)}
      /\ UNCHANGED <<present, place, undelivered, queue, item, reported, region>>
  BY DEF PageFails, building, resolverVars, IInv, PlaceInv, ListError
<1>2. TypeInv' /\ PlaceInv'
  BY <1>1 DEF IInv, TypeInv, PlaceInv, Building
<1>3. Wanted' = Wanted
  BY <1>1 DEF Wanted, OfOtherService
<1>4. ItemInv' /\ CoverInv'
  BY <1>1, <1>3 DEF IInv, ItemInv, CoverInv, Building, Reported
<1>5. ListingInv'
  <2> SUFFICES ASSUME NEW i \in Places
               PROVE  /\ ListError(Regions[i]) \in errors' => Ended(i)'
                      /\ Ended(i)' => \A x \in undelivered' :
                           x.region = Regions[i] => ListError(Regions[i]) \in errors'
    BY DEF ListingInv
  <2>1. Ended(i)' <=> Ended(i) \/ i = place
    BY <1>1 DEF Ended
  <2>2. ListError(Regions[i]) \in errors' <=> ListError(Regions[i]) \in errors \/ i = place
    BY <1>1, PlacesFacts DEF ListError
  <2> QED
    BY <1>1, <2>1, <2>2 DEF IInv, ListingInv
<1> QED
  BY <1>2, <1>4, <1>5 DEF IInv

LEMMA PageDoneKeepsInvariant ==
  ASSUME IInv, PageDone
  PROVE  IInv'
BY PlacesFacts DEF PageDone, IInv, TypeInv, PlaceInv, ItemInv, ListingInv, CoverInv, Ended, Places,
                   Building, Wanted, OfOtherService, Reported, listing, building, resolverVars

LEMMA TakeKeepsInvariant ==
  ASSUME IInv, NEW x \in Resources, Skip(x) \/ Reject(x) \/ Accept(x)
  PROVE  IInv'
<1>1. /\ pc = "convert" /\ item = NoItem /\ x \in queue /\ x.region = region /\ x \in present
      /\ queue' = queue \ {x}
      /\ UNCHANGED <<present, place, undelivered, more, reported, region>>
  BY DEF Skip, Reject, Accept, Take, resolverVars, IInv, TypeInv, PlaceInv, ItemInv, Building
<1>2. Wanted' = Wanted
  BY <1>1 DEF Wanted, OfOtherService
<1>3. ~OfOtherService(x) => x \in Wanted
  BY <1>1, PlacesFacts DEF Wanted, IInv, PlaceInv, Places
<1>4. \A r \in RegionNames : ListError(r) \in errors' <=> ListError(r) \in errors
  BY DEF Skip, Reject, Accept, ListError
<1>5. TypeInv' /\ PlaceInv' /\ ItemInv'
  BY <1>1, <1>2, <1>3, PlacesFacts
     DEF Skip, Reject, Accept, building, IInv, TypeInv, PlaceInv, ItemInv, Building
<1>6. ListingInv'
  BY <1>1, <1>4, PlacesFacts DEF IInv, ListingInv, Ended
<1>7. CoverInv'
  <2>1. ~OfOtherService(x) => x = item' \/ <<"identify", x, NoId>> \in errors'
    BY DEF Skip, Reject, Accept
  <2>2. errors \subseteq errors'
    BY DEF Skip, Reject, Accept
  <2> QED
    BY <1>1, <1>2, <2>1, <2>2, PlacesFacts, WantedFacts DEF IInv, CoverInv, Reported
<1> QED
  BY <1>5, <1>6, <1>7 DEF IInv

LEMMA BlocksDoneKeepsInvariant ==
  ASSUME IInv, BlocksDone
  PROVE  IInv'
<1>1. pc' \in Building
  BY DEF BlocksDone, Building
<1> QED
  BY <1>1, BuildActions, BuildKeepsInvariant

LEMMA ReportedGrows ==
  ASSUME NEW new, new.resource = item, reported' = reported \cup {new}
  PROVE  Reported' = Reported \cup {item}
<1>1. \A x : x \in Reported' <=> x \in Reported \/ x = item
  BY DEF Reported
<1> QED
  BY <1>1

LEMMA AppendItemKeepsInvariant ==
  ASSUME IInv, AppendItem
  PROVE  IInv'
<1>1. /\ pc = "append" /\ pc' = "convert" /\ item \in Wanted /\ item' = NoItem
      /\ UNCHANGED <<present, place, undelivered, more, queue, errors, region>>
      /\ reported' = reported \cup {[resource |-> item, refs |-> refs, role |-> role]}
  BY DEF AppendItem, listing, resolverVars, IInv, ItemInv, Building
<1>2. Wanted' = Wanted
  BY <1>1 DEF Wanted, OfOtherService
<1>3. Reported' = Reported \cup {item}
  BY <1>1, ReportedGrows
<1>4. TypeInv' /\ PlaceInv' /\ ItemInv'
  BY <1>1, <1>2 DEF IInv, TypeInv, PlaceInv, ItemInv, Building
<1>5. ListingInv' /\ CoverInv'
  BY <1>1, <1>2, <1>3 DEF IInv, ListingInv, CoverInv, Ended
<1> QED
  BY <1>4, <1>5 DEF IInv

LEMMA InvariantIsInductive == IInv /\ [Next]_vars => IInv'
<1> SUFFICES ASSUME IInv, [Next]_vars PROVE IInv'
  OBVIOUS
<1>1. CASE BeginBlock \/ ResolveReference \/ EndBlock \/ ResolveRole \/ EnrichFunctionURLs
  BY <1>1, BuildActions, BuildKeepsInvariant
<1>2. CASE \E x \in Resources : Skip(x) \/ Reject(x) \/ Accept(x)
  BY <1>2, TakeKeepsInvariant
<1>3. CASE UNCHANGED vars
  BY <1>3 DEF vars, listing, building, resolverVars, IInv, TypeInv, PlaceInv, ItemInv, ListingInv,
              CoverInv, Ended, Wanted, OfOtherService, Reported
<1> QED
  BY <1>1, <1>2, <1>3, NextRegionKeepsInvariant, FinishKeepsInvariant, PageKeepsInvariant,
     PageFailsKeepsInvariant, PageDoneKeepsInvariant, BlocksDoneKeepsInvariant,
     AppendItemKeepsInvariant DEF Next, Returned

LEMMA Invariant == Spec => []IInv
BY InitEstablishesInvariant, InvariantIsInductive, PTL DEF Spec

(***************************************************************************)
(* The steps of the contract.                                              *)
(***************************************************************************)
ExcusedOnes == {x \in Wanted : Excused(x)}

\* Nothing the contract is about changes.
Stutters ==
  /\ Wanted' = Wanted /\ Reported' = Reported /\ ExcusedOnes' = ExcusedOnes
  /\ (pc = "done")' = (pc = "done")

LEMMA StutterAllowed == Stutters => UNCHANGED Contract!vars
BY DEF Contract!vars, Stutters, ExcusedOnes, Reported

LEMMA InitRefines == Init => Contract!Init
<1> SUFFICES ASSUME Init PROVE Contract!Init
  OBVIOUS
<1>1. present \subseteq Resources /\ pc = "region" /\ reported = {} /\ errors = {}
  BY DEF Init
<1> QED
  BY <1>1 DEF Contract!Init, Wanted, Excused

LEMMA BuildStutters ==
  ASSUME IInv, BuildStep
  PROVE  Stutters
<1>1. Wanted' = Wanted
  BY DEF BuildStep, Wanted, OfOtherService
<1>2. \A x \in Wanted : Excused(x)' <=> Excused(x)
  BY PlacesFacts, WantedFacts DEF IInv, BuildStep, SameLosses, Excused, ListError
<1> QED
  BY <1>1, <1>2 DEF BuildStep, Stutters, Reported, ExcusedOnes, Building

LEMMA LoopStutters ==
  ASSUME IInv, NextRegion \/ PageDone
  PROVE  Stutters
BY DEF NextRegion, PageDone, Stutters, Reported, ExcusedOnes, Excused, Wanted, OfOtherService,
       listing, building

\* A page takes away what the failed listing of its region would have excused,
\* but that has not failed.
LEMMA PageStutters ==
  ASSUME IInv, Page
  PROVE  Stutters
<1>1. PICK batch \in SUBSET Undelivered : undelivered' = undelivered \ batch
  BY DEF Page
<1>2. /\ pc = "list" /\ more /\ place \in Places /\ region = Regions[place]
      /\ pc' \in {"list", "convert"}
      /\ UNCHANGED <<kind, present, reported, errors>>
  BY DEF Page, IInv, PlaceInv
<1>3. ListError(region) \notin errors
  BY <1>2, PlacesFacts DEF IInv, ListingInv, Ended, Places
<1>4. Wanted' = Wanted
  BY <1>2 DEF Wanted, OfOtherService
<1>5. \A x \in Wanted : Excused(x)' <=> Excused(x)
  BY <1>1, <1>2, <1>3 DEF Excused, ListError, Undelivered
<1> QED
  BY <1>2, <1>4, <1>5 DEF Stutters, Reported, ExcusedOnes

LEMMA SkipStutters ==
  ASSUME IInv, NEW x \in Resources, Skip(x) \/ Accept(x)
  PROVE  Stutters
BY DEF Skip, Accept, Take, Stutters, Reported, ExcusedOnes, Excused, Wanted, OfOtherService

\* Errors only add to what is excused.
LEMMA ExcusesGrow ==
  ASSUME errors \subseteq errors', UNCHANGED <<present, undelivered, reported>>,
         pc # "done", pc' # "done"
  PROVE  Contract!Record
<1>1. Wanted' = Wanted /\ Reported' = Reported
  BY DEF Wanted, OfOtherService, Reported
<1>2. ExcusedOnes \subseteq ExcusedOnes' /\ ExcusedOnes' \subseteq Wanted
  BY <1>1 DEF ExcusedOnes, Excused
<1> QED
  BY <1>1, <1>2 DEF Contract!Grows, Contract!Record, ExcusedOnes, Reported

LEMMA PageFailsExcuses ==
  ASSUME PageFails
  PROVE  Contract!Record
<1>1. errors \subseteq errors' /\ UNCHANGED <<present, undelivered, reported>>
  BY DEF PageFails
<1>2. pc # "done" /\ pc' # "done"
  BY DEF PageFails
<1> QED
  BY <1>1, <1>2, ExcusesGrow

LEMMA RejectExcuses ==
  ASSUME NEW x \in Resources, Reject(x)
  PROVE  Contract!Record
<1>1. errors \subseteq errors' /\ UNCHANGED <<present, undelivered, reported>>
  BY DEF Reject, Take
<1>2. pc # "done" /\ pc' # "done"
  BY DEF Reject, Take
<1> QED
  BY <1>1, <1>2, ExcusesGrow

LEMMA AppendItemReports ==
  ASSUME IInv, AppendItem
  PROVE  Contract!Record
<1>1. /\ pc = "append" /\ pc' = "convert" /\ item \in Wanted
      /\ UNCHANGED <<present, undelivered, errors>>
      /\ reported' = reported \cup {[resource |-> item, refs |-> refs, role |-> role]}
  BY DEF AppendItem, listing, IInv, ItemInv, Building
<1>2. Wanted' = Wanted
  BY <1>1 DEF Wanted, OfOtherService
<1>3. ExcusedOnes' = ExcusedOnes
  BY <1>1, <1>2 DEF ExcusedOnes, Excused
<1>4. Reported' = Reported \cup {item}
  BY <1>1, ReportedGrows
<1> QED
  BY <1>1, <1>2, <1>3, <1>4 DEF Contract!Grows, Contract!Record, ExcusedOnes, Reported

LEMMA FinishReturns ==
  ASSUME IInv, Finish
  PROVE  Contract!Return
<1>1. /\ pc = "region" /\ pc' = "done" /\ place = Len(Regions) /\ queue = {} /\ ~more
      /\ item = NoItem
      /\ UNCHANGED <<present, undelivered, reported, errors>>
  BY DEF Finish, listing, IInv, PlaceInv, ItemInv, Building
<1>2. \A x \in Wanted : x \in Reported \/ Excused(x)
  <2> SUFFICES ASSUME NEW x \in Wanted, x \in undelivered PROVE Excused(x)
    BY <1>1, PlacesFacts, WantedFacts DEF IInv, CoverInv, Excused
  <2>1. PICK i \in Places : x.region = Regions[i]
    BY WantedFacts DEF IInv
  <2>2. Ended(i)
    BY <1>1, PlacesFacts DEF Ended, Places
  <2> QED
    BY <2>1, <2>2 DEF IInv, ListingInv, Excused, ListError
<1>3. Wanted' = Wanted /\ Reported' = Reported /\ ExcusedOnes' = ExcusedOnes
  BY <1>1 DEF Wanted, OfOtherService, Reported, ExcusedOnes, Excused
<1> QED
  BY <1>1, <1>2, <1>3 DEF Contract!Grows, Contract!Return, ExcusedOnes, Reported

LEMMA NextRefines == IInv /\ [Next]_vars => [Contract!Next]_(Contract!vars)
<1> SUFFICES ASSUME IInv, [Next]_vars
             PROVE  Contract!Next \/ UNCHANGED Contract!vars
  OBVIOUS
<1>1. CASE BeginBlock \/ ResolveReference \/ EndBlock \/ ResolveRole \/ EnrichFunctionURLs
           \/ BlocksDone
  <2>1. BlocksDone => pc' \in Building
    BY DEF BlocksDone, Building
  <2> QED
    BY <1>1, <2>1, BuildActions, BuildStutters, StutterAllowed
<1>2. CASE UNCHANGED vars
  BY <1>2, StutterAllowed
     DEF vars, listing, Stutters, Reported, ExcusedOnes, Excused, Wanted, OfOtherService
<1>3. CASE \E x \in Resources : Skip(x) \/ Reject(x) \/ Accept(x)
  BY <1>3, SkipStutters, RejectExcuses, StutterAllowed DEF Contract!Next
<1> QED
  BY <1>1, <1>2, <1>3, LoopStutters, PageStutters, PageFailsExcuses, AppendItemReports,
     FinishReturns, StutterAllowed DEF Next, Returned, Contract!Next

\* EnumerateEc2, EnumerateLambda and EnumerateRDS implement the inventory: for
\* every set of resources, every list of regions and every paging, each resource
\* is reported, or an error accounts for it, when the report is returned.
THEOREM RegionalInventoryKeepsContract == Spec => KeepsContract
<1>1. Init => Contract!Init
  BY InitRefines
<1>2. IInv /\ [Next]_vars => [Contract!Next]_(Contract!vars)
  BY NextRefines
<1> QED
  BY <1>1, <1>2, Invariant, PTL DEF Spec, KeepsContract, Contract!Spec

(***************************************************************************)
(* The resolver.  It asks for an id that it does not remember, and it      *)
(* remembers what it asked in this region; it has asked nothing in regions *)
(* to come.                                                                *)
(***************************************************************************)
BlockInv ==
  /\ pending \in SUBSET Ids
  /\ item # NoItem => block \in 0 .. Len(item.blocks)

CacheInv ==
  /\ region \in RegionNames
  /\ DOMAIN cache \subseteq Ids
  /\ \A i \in DOMAIN cache : cache[i] \in RegionNames \cup {Failed}

LookupInv ==
  /\ lookups \in [RegionNames \X Ids -> Nat]
  /\ \A r \in RegionNames, i \in Ids : lookups[<<r, i>>] <= 1
  /\ \A i \in Ids \ DOMAIN cache : lookups[<<region, i>>] = 0
  /\ \A p \in Places, i \in Ids : p > place => lookups[<<Regions[p], i>>] = 0

ResolverInv == BlockInv /\ CacheInv /\ LookupInv

LEMMA BlockFacts ==
  ASSUME NEW x \in Resources, NEW b \in 1 .. Len(x.blocks)
  PROVE  /\ x.blocks[b].vpc \in Ids \cup {NoId}
         /\ x.blocks[b].subnets \subseteq Ids /\ x.blocks[b].groups \subseteq Ids
<1>1. x.blocks[b] \in Blocks
  BY InventoryAssumption
<1> QED
  BY <1>1, InventoryAssumption DEF Blocks

LEMMA InitEstablishesResolver == Init => ResolverInv
<1> SUFFICES ASSUME Init PROVE ResolverInv
  OBVIOUS
<1>1. /\ cache = <<>> /\ region \in RegionNames /\ pending = {} /\ item = NoItem
      /\ lookups = [x \in RegionNames \X Ids |-> 0]
  BY DEF Init, ResolverInit
<1>2. DOMAIN cache = {}
  BY <1>1
<1> QED
  BY <1>1, <1>2, PlacesFacts DEF ResolverInv, BlockInv, CacheInv, LookupInv

LEMMA RememberFacts ==
  ASSUME NEW id, NEW answer, Remember(id, answer)
  PROVE  /\ DOMAIN cache' = DOMAIN cache \cup {id}
         /\ cache'[id] = answer
         /\ \A i \in DOMAIN cache : i # id => cache'[i] = cache[i]
BY DEF Remember

LEMMA ResolveKeepsResolver ==
  ASSUME IInv, CacheInv, LookupInv, pc = "resolve", UNCHANGED place,
         NEW id \in Ids, NEW answer, Resolve(id, answer)
  PROVE  CacheInv' /\ LookupInv'
<1>1. CASE UNCHANGED resolverVars
  BY <1>1 DEF resolverVars, CacheInv, LookupInv
<1>2. CASE id \notin DOMAIN cache /\ answer \in {region, Failed} /\ Lookup(id, answer)
  <2>1. /\ Remember(id, answer) /\ region' = region
        /\ lookups' = [lookups EXCEPT ![<<region, id>>] = @ + 1]
    BY <1>2 DEF Lookup
  <2>2. CacheInv'
    <3>1. /\ DOMAIN cache' = DOMAIN cache \cup {id} /\ cache'[id] = answer
          /\ \A i \in DOMAIN cache : i # id => cache'[i] = cache[i]
      BY <2>1, RememberFacts
    <3>2. answer \in RegionNames \cup {Failed}
      BY <1>2 DEF CacheInv
    <3> QED
      BY <2>1, <3>1, <3>2 DEF CacheInv
  <2>3. place \in Places /\ region = Regions[place]
    BY DEF IInv, PlaceInv
  <2>4. lookups[<<region, id>>] = 0 /\ <<region, id>> \in RegionNames \X Ids
    BY <1>2 DEF LookupInv, CacheInv
  <2>5. lookups'[<<region, id>>] = 1
    <3>1. lookups'[<<region, id>>] = lookups[<<region, id>>] + 1
      BY <2>1, <2>4, Zenon DEF LookupInv
    <3> QED
      BY <2>4, <3>1
  <2>6. \A r \in RegionNames, i \in Ids :
          r # region \/ i # id => lookups'[<<r, i>>] = lookups[<<r, i>>]
    BY <2>1 DEF LookupInv
  <2>7. lookups' \in [RegionNames \X Ids -> Nat]
    BY <2>1, <2>4 DEF LookupInv
  <2>8. \A r \in RegionNames, i \in Ids : lookups'[<<r, i>>] <= 1
    <3> SUFFICES ASSUME NEW r \in RegionNames, NEW i \in Ids PROVE lookups'[<<r, i>>] <= 1
      OBVIOUS
    <3>1. CASE r = region /\ i = id
      BY <2>5, <3>1
    <3>2. CASE r # region \/ i # id
      BY <2>6, <3>2 DEF LookupInv
    <3> QED
      BY <3>1, <3>2
  <2>9. \A i \in Ids \ DOMAIN cache' : lookups'[<<region', i>>] = 0
    <3> SUFFICES ASSUME NEW i \in Ids, i \notin DOMAIN cache' PROVE lookups'[<<region', i>>] = 0
      OBVIOUS
    <3>1. i \notin DOMAIN cache /\ i # id
      BY <2>1, RememberFacts
    <3> QED
      BY <2>1, <2>6, <3>1 DEF LookupInv, CacheInv
  <2>10. \A p \in Places, i \in Ids : p > place' => lookups'[<<Regions[p], i>>] = 0
    <3> SUFFICES ASSUME NEW p \in Places, NEW i \in Ids, p > place
                 PROVE  lookups'[<<Regions[p], i>>] = 0
      OBVIOUS
    <3>1. Regions[p] # region
      BY <2>3, PlacesFacts DEF Places
    <3> QED
      BY <2>6, <3>1, PlacesFacts DEF LookupInv
  <2> QED
    BY <2>2, <2>7, <2>8, <2>9, <2>10 DEF LookupInv
<1> QED
  BY <1>1, <1>2 DEF Resolve

LEMMA NextRegionKeepsResolver ==
  ASSUME IInv, ResolverInv, NextRegion
  PROVE  ResolverInv'
<1>1. /\ place' = place + 1 /\ place' \in Places /\ region' = Regions[place'] /\ cache' = <<>>
      /\ UNCHANGED <<lookups, item, block, pending>> /\ place \in Nat
  BY PlacesFacts DEF NextRegion, NewResolver, building, IInv, TypeInv, Places
<1>2. DOMAIN cache' = {}
  BY <1>1
<1>3. \A i \in Ids : lookups[<<Regions[place'], i>>] = 0
  BY <1>1, PlacesFacts DEF ResolverInv, LookupInv, Places
<1>4. \A p \in Places, i \in Ids : p > place' => lookups[<<Regions[p], i>>] = 0
  <2> SUFFICES ASSUME NEW p \in Places, p > place' PROVE p > place
    BY DEF ResolverInv, LookupInv
  <2> QED
    BY <1>1, PlacesFacts DEF Places
<1>5. LookupInv'
  BY <1>1, <1>3, <1>4 DEF ResolverInv, LookupInv
<1>6. CacheInv'
  BY <1>1, <1>2, PlacesFacts DEF CacheInv
<1>7. BlockInv'
  BY <1>1 DEF ResolverInv, BlockInv
<1> QED
  BY <1>5, <1>6, <1>7 DEF ResolverInv

\* The actions that leave the resolver and the blocks alone.
LEMMA OthersKeepResolver ==
  ASSUME ResolverInv, UNCHANGED <<place, resolverVars, item, block, pending>>
  PROVE  ResolverInv'
BY DEF ResolverInv, BlockInv, CacheInv, LookupInv, resolverVars

LEMMA BuildKeepsResolver ==
  ASSUME ResolverInv, UNCHANGED <<place, resolverVars>>, BlockInv'
  PROVE  ResolverInv'
BY DEF ResolverInv, CacheInv, LookupInv, resolverVars

LEMMA BeginBlockKeepsBlocks ==
  ASSUME IInv, ResolverInv, BeginBlock
  PROVE  BlockInv'
<1>1. /\ item \in Resources /\ item' = item /\ block \in 0 .. Len(item.blocks)
      /\ block < Len(item.blocks) /\ block' = block + 1
  BY WantedFacts DEF BeginBlock, IInv, ItemInv, Building, ResolverInv, BlockInv
<1>2. Len(item.blocks) \in Nat
  BY <1>1, InventoryAssumption
<1>3. Asked(NextBlock) \subseteq Ids
  BY <1>1, <1>2, BlockFacts DEF Asked, NextBlock
<1>4. pending' \subseteq Ids
  BY <1>3 DEF BeginBlock, ResolverInv, BlockInv
<1> QED
  BY <1>1, <1>2, <1>4 DEF BlockInv

LEMMA ResolverIsInductive == IInv /\ ResolverInv /\ [Next]_vars => ResolverInv'
<1> SUFFICES ASSUME IInv, ResolverInv, [Next]_vars PROVE ResolverInv'
  OBVIOUS
<1>1. CASE NextRegion
  BY <1>1, NextRegionKeepsResolver
<1>2. CASE Finish \/ Page \/ PageFails \/ PageDone \/ BlocksDone \/ ResolveRole
           \/ EnrichFunctionURLs \/ Returned \/ UNCHANGED vars
  BY <1>2, OthersKeepResolver
     DEF Finish, Page, PageFails, PageDone, BlocksDone, ResolveRole, EnrichFunctionURLs,
         Returned, vars, building
<1>3. CASE \E x \in Resources : Skip(x) \/ Reject(x) \/ Accept(x)
  <2>1. PICK x \in Resources : Skip(x) \/ Reject(x) \/ Accept(x)
    BY <1>3
  <2>2. UNCHANGED <<place, resolverVars>>
    BY <2>1 DEF Skip, Reject, Accept, Take
  <2>3. CASE Skip(x) \/ Reject(x)
    BY <2>2, <2>3, OthersKeepResolver DEF Skip, Reject, building
  <2>4. CASE Accept(x)
    <3>1. item' = x /\ block' = 0 /\ pending' = {} /\ Len(x.blocks) \in Nat
      BY <2>4, InventoryAssumption DEF Accept
    <3> QED
      BY <2>2, <3>1, BuildKeepsResolver DEF BlockInv
  <2> QED
    BY <2>1, <2>3, <2>4
<1>4. CASE BeginBlock
  BY <1>4, BeginBlockKeepsBlocks, BuildKeepsResolver DEF BeginBlock
<1>5. CASE ResolveReference
  <2>1. PICK id \in pending, answer \in RegionNames \cup {Failed} : Resolve(id, answer)
    BY <1>5 DEF ResolveReference
  <2>2. id \in Ids /\ pc = "resolve" /\ UNCHANGED <<place, item, block>> /\ pending' \subseteq pending
    BY <1>5, <2>1 DEF ResolveReference, ResolverInv, BlockInv
  <2> QED
    BY <2>1, <2>2, ResolveKeepsResolver DEF ResolverInv, BlockInv
<1>6. CASE EndBlock
  BY <1>6, OthersKeepResolver DEF EndBlock
<1>7. CASE AppendItem
  BY <1>7, BuildKeepsResolver DEF AppendItem, BlockInv
<1> QED
  BY <1>1, <1>2, <1>3, <1>4, <1>5, <1>6, <1>7 DEF Next

LEMMA ResolverInvariant == Spec => [](IInv /\ ResolverInv)
<1>1. Init => IInv /\ ResolverInv
  BY InitEstablishesInvariant, InitEstablishesResolver
<1>2. IInv /\ ResolverInv /\ [Next]_vars => (IInv /\ ResolverInv)'
  BY InvariantIsInductive, ResolverIsInductive
<1> QED
  BY <1>1, <1>2, PTL DEF Spec

\* Every variable of the regional enumerators keeps its type, and an item is
\* there exactly while one is built.
THEOREM RegionalInventoryTypeCorrect == Spec => []TypeOK
<1>1. IInv /\ ResolverInv => TypeOK
  BY WantedFacts DEF IInv, TypeInv, PlaceInv, ItemInv, ResolverInv, BlockInv, CacheInv, TypeOK, Building
<1> QED
  BY <1>1, ResolverInvariant, PTL

\* However many resources of a region refer to an id, and whatever came of the
\* first look-up, the service is asked about it once in that region.
THEOREM EachIdLookedUpOnce == Spec => []LookedUpOnce
<1>1. IInv /\ ResolverInv => LookedUpOnce
  BY DEF ResolverInv, LookupInv, LookedUpOnce
<1> QED
  BY <1>1, ResolverInvariant, PTL

----------------------------------------------------------------------------
(***************************************************************************)
(* What is said of a resource's references and of its role.                *)
(***************************************************************************)
Visited(r) == \E i \in Places : i <= place /\ r = Regions[i]

\* A failure is told of regions visited only, and in the region at work it is
\* what the cache remembers.
ToldInv ==
  \A x \in Resources, id \in Ids : <<"unresolved", x, id>> \in errors =>
    /\ Visited(x.region)
    /\ x.region = region => id \in DOMAIN cache /\ cache[id] = Failed

\* A reference t is of the region r, where nobody is told that it failed; in the
\* region at work it is what the cache remembers.
Agreed(t, r) ==
  /\ t[2] \in Ids /\ t[3] = r /\ Visited(r)
  /\ \A x \in Resources : x.region = r => <<"unresolved", x, t[2]>> \notin errors
  /\ r = region => t[2] \in DOMAIN cache /\ cache[t[2]] # Failed

AnswerInv ==
  /\ \A id \in DOMAIN cache : cache[id] \in {region, Failed}
  /\ item # NoItem => item.region = region
  /\ item = NoItem => refs = {}
  /\ ToldInv
  /\ \A t \in refs : Agreed(t, region)
  /\ \A r \in reported : \A t \in r.refs : Agreed(t, r.resource.region)

RefersTo(x, b) == ({x.blocks[b].vpc} \ {NoId}) \cup x.blocks[b].subnets \cup x.blocks[b].groups

At(b, id) == \E t \in refs : t[1] = b /\ t[2] = id

CompleteAt(b) == \A id \in RefersTo(item, b) : At(b, id) \/ Explained(item, b, id)

\* The blocks that are done are complete, and what is left of the one at work is
\* pending.
BlocksInv ==
  /\ item # NoItem => \A b \in 1 .. block : (pc = "resolve" /\ b = block) \/ CompleteAt(b)
  /\ pc = "resolve" =>
       /\ block \in 1 .. Len(item.blocks) /\ Block.own
       /\ \A id \in RefersTo(item, block) : id \in pending \/ At(block, id) \/ Explained(item, block, id)
       /\ kind = "ec2" /\ Block.network /\ Block.vpc = NoId => <<"no vpc", item, NoId>> \in errors
  /\ pc \in {"role", "urls", "append"} => block = Len(item.blocks)
  /\ ReferencesComplete

\* The role of a resource x, once it has been resolved.
RoleTold(x, itsRole) ==
  LET p == x.profile
      known == p.arn \in DOMAIN profileCache /\ profileCache[p.arn] # Failed
               /\ p.id \in {NoId, profileCache[p.arn][1]}
  IN kind = "ec2" /\ p.arn # NoId =>
       \/ known /\ profileCache[p.arn][2] = itsRole
       \/ itsRole = "none" /\ <<"profile", x, p.arn>> \in errors

RoleInv ==
  /\ pc \in {"block", "resolve", "role"} => role = "none"
  /\ pc = "urls" => kind = "lambda"
  /\ pc = "append" => RoleTold(item, role)
  /\ RoleOfAttachedProfile

RefInv == AnswerInv /\ BlocksInv /\ RoleInv

(***************************************************************************)
(* Facts about all actions.                                                *)
(***************************************************************************)
LEMMA ErrorsGrow ==
  ASSUME [Next]_vars
  PROVE  errors \subseteq errors' /\ UNCHANGED kind
<1>1. CASE NextRegion \/ Finish \/ Page \/ PageFails \/ PageDone \/ Returned \/ UNCHANGED vars
  BY <1>1 DEF NextRegion, Finish, Page, PageFails, PageDone, Returned, vars
<1>2. CASE \E x \in Resources : Skip(x) \/ Reject(x) \/ Accept(x)
  BY <1>2 DEF Skip, Reject, Accept, Take
<1>3. CASE BeginBlock \/ ResolveReference \/ EndBlock \/ BlocksDone
  BY <1>3 DEF BeginBlock, ResolveReference, Missed, EndBlock, BlocksDone, Reports
<1>4. CASE ResolveRole \/ EnrichFunctionURLs \/ AppendItem
  BY <1>4 DEF ResolveRole, UseProfile, EnrichFunctionURLs, AppendItem, Reports
<1> QED BY <1>1, <1>2, <1>3, <1>4 DEF Next

LEMMA ItemFacts ==
  ASSUME IInv, item # NoItem
  PROVE  item \in Resources /\ item.blocks \in Seq(Blocks) /\ Len(item.blocks) \in Nat
BY WantedFacts, InventoryAssumption DEF IInv, ItemInv

LEMMA ReportedFacts ==
  ASSUME IInv, NEW r \in reported
  PROVE  r.resource \in Resources
BY WantedFacts DEF IInv, ItemInv

----------------------------------------------------------------------------
(***************************************************************************)
(* One answer per region.                                                  *)
(***************************************************************************)
LEMMA AnswerInitially == Init => AnswerInv
BY DEF Init, ResolverInit, AnswerInv, ToldInv

\* No failure to resolve is told, and what is known of references stays.
AnswersKept ==
  /\ UNCHANGED <<place, region, cache>>
  /\ \A x \in Resources, id \in Ids :
       <<"unresolved", x, id>> \in errors' => <<"unresolved", x, id>> \in errors

LEMMA OtherErrorKeepsAnswers ==
  ASSUME UNCHANGED <<place, region, cache>>, NEW what, what # "unresolved", NEW x, NEW id,
         errors' = errors \/ errors' = errors \cup {<<what, x, id>>}
  PROVE  AnswersKept
BY DEF AnswersKept

LEMMA AgreedKept ==
  ASSUME AnswersKept, NEW t, NEW r, Agreed(t, r)
  PROVE  Agreed(t, r)'
BY DEF AnswersKept, Agreed, Visited

LEMMA ToldKept ==
  ASSUME AnswersKept, ToldInv
  PROVE  ToldInv'
BY DEF AnswersKept, ToldInv, Visited

LEMMA AnswerKept ==
  ASSUME AnswerInv, AnswersKept, refs' \subseteq refs,
         item' = NoItem => refs' = {}, item' # NoItem => item'.region = region,
         \A r \in reported' : r \in reported \/ (r.refs = refs /\ r.resource = item /\ item # NoItem)
  PROVE  AnswerInv'
<1>1. ToldInv'
  BY ToldKept DEF AnswerInv
<1>2. \A t \in refs' : Agreed(t, region)'
  BY AgreedKept DEF AnswerInv, AnswersKept
<1>3. \A r \in reported' : \A t \in r.refs : Agreed(t, r.resource.region)'
  BY AgreedKept DEF AnswerInv
<1> QED BY <1>1, <1>2, <1>3 DEF AnswerInv, AnswersKept

LEMMA NextRegionKeepsAnswers ==
  ASSUME IInv, AnswerInv, NextRegion
  PROVE  AnswerInv'
<1>1. /\ place' = place + 1 /\ place \in Nat /\ place' \in Places /\ region' = Regions[place']
      /\ cache' = <<>> /\ item = NoItem /\ UNCHANGED <<item, refs, reported, errors>>
  BY PlacesFacts DEF NextRegion, NewResolver, building, IInv, TypeInv, ItemInv, Building, Places
<1>2. \A r : Visited(r) => Visited(r)' /\ r # region'
  BY <1>1, PlacesFacts DEF Visited, Places
<1>3. ToldInv'
  BY <1>1, <1>2 DEF AnswerInv, ToldInv
<1>4. \A t, r : Agreed(t, r) => Agreed(t, r)'
  BY <1>1, <1>2 DEF Agreed
<1>5. DOMAIN cache' = {}
  BY <1>1
<1> QED BY <1>1, <1>3, <1>4, <1>5 DEF AnswerInv

LEMMA ResolveAnswers ==
  ASSUME IInv, AnswerInv, CacheInv, NEW id \in Ids, NEW answer \in RegionNames \cup {Failed},
         Resolve(id, answer)
  PROVE  /\ region' = region /\ answer \in {region, Failed}
         /\ id \in DOMAIN cache' /\ cache'[id] = answer
         /\ \A i \in DOMAIN cache : i \in DOMAIN cache' /\ cache'[i] = cache[i]
         /\ \A i \in DOMAIN cache' : i \in DOMAIN cache \/ i = id
<1>1. CASE id \in DOMAIN cache /\ answer = cache[id] /\ UNCHANGED resolverVars
  BY <1>1 DEF resolverVars, AnswerInv
<1>2. CASE id \notin DOMAIN cache /\ answer \in {region, Failed} /\ Lookup(id, answer)
  <2>1. Remember(id, answer) /\ region' = region
    BY <1>2 DEF Lookup
  <2>2. /\ DOMAIN cache' = DOMAIN cache \cup {id} /\ cache'[id] = answer
        /\ \A i \in DOMAIN cache : i # id => cache'[i] = cache[i]
    BY <2>1, RememberFacts
  <2> QED BY <1>2, <2>1, <2>2
<1> QED BY <1>1, <1>2 DEF Resolve

\* A failure that is told now is not of an id with an answer.
LEMMA ResolveKeepsAgreed ==
  ASSUME IInv, AnswerInv, CacheInv, NEW id \in Ids, NEW answer \in RegionNames \cup {Failed},
         Resolve(id, answer), UNCHANGED place, item.region = region, item \in Resources,
         errors' = errors \/ (answer = Failed /\ errors' = errors \cup {<<"unresolved", item, id>>}),
         NEW t, NEW r, Agreed(t, r)
  PROVE  Agreed(t, r)'
<1>1. r = region => t[2] \in DOMAIN cache' /\ cache'[t[2]] # Failed
  BY ResolveAnswers DEF Agreed
<1>2. \A x \in Resources : x.region = r => <<"unresolved", x, t[2]>> \notin errors'
  <2> SUFFICES ASSUME NEW x \in Resources, x.region = r, <<"unresolved", x, t[2]>> \in errors',
                      <<"unresolved", x, t[2]>> \notin errors
               PROVE  FALSE
    BY DEF Agreed
  <2>1. answer = Failed /\ x = item /\ t[2] = id
    OBVIOUS
  <2>2. r = region /\ cache'[id] = Failed
    BY <2>1, ResolveAnswers
  <2> QED BY <1>1, <2>1, <2>2
<1> QED BY <1>1, <1>2, ResolveAnswers DEF Agreed, Visited

LEMMA ResolveReferenceKeepsAnswers ==
  ASSUME IInv, ResolverInv, AnswerInv, ResolveReference
  PROVE  AnswerInv'
<1>1. PICK id \in pending, answer \in RegionNames \cup {Failed} :
        /\ Resolve(id, answer)
        /\ IF answer # Failed
           THEN refs' = refs \cup {<<block, id, answer>>} /\ UNCHANGED errors
           ELSE errors' = errors \cup {<<"unresolved", item, id>>} /\ UNCHANGED refs
  BY DEF ResolveReference, Missed, Reports
<1>2. /\ id \in Ids /\ item # NoItem /\ item \in Resources /\ item.region = region
      /\ UNCHANGED <<place, item, reported>> /\ Visited(region) /\ Visited(region)'
  <2>1. pc = "resolve" /\ UNCHANGED <<place, item, reported>>
    BY DEF ResolveReference
  <2>2. item # NoItem /\ place \in Places /\ region = Regions[place]
    BY <2>1 DEF IInv, ItemInv, PlaceInv, Building
  <2>3. Visited(region) /\ Visited(region)'
    BY <1>1, <2>1, <2>2 DEF Visited, Places, Resolve, Lookup, resolverVars
  <2> QED BY <2>1, <2>2, <2>3, ItemFacts DEF AnswerInv, ResolverInv, BlockInv
<1>3. CacheInv
  BY DEF ResolverInv
<1>4. \A t, r : Agreed(t, r) => Agreed(t, r)'
  BY <1>1, <1>2, <1>3, ResolveKeepsAgreed
<1>5. /\ region' = region /\ answer \in {region, Failed}
      /\ id \in DOMAIN cache' /\ cache'[id] = answer
      /\ \A i \in DOMAIN cache : i \in DOMAIN cache' /\ cache'[i] = cache[i]
      /\ \A i \in DOMAIN cache' : i \in DOMAIN cache \/ i = id
  BY <1>1, <1>2, <1>3, ResolveAnswers
<1>6. ToldInv'
  <2> SUFFICES ASSUME NEW x \in Resources, NEW i \in Ids, <<"unresolved", x, i>> \in errors'
               PROVE  /\ Visited(x.region)'
                      /\ x.region = region' => i \in DOMAIN cache' /\ cache'[i] = Failed
    BY DEF ToldInv
  <2>1. CASE <<"unresolved", x, i>> \in errors
    <3>1. Visited(x.region) /\ (x.region = region => i \in DOMAIN cache /\ cache[i] = Failed)
      BY <2>1 DEF AnswerInv, ToldInv
    <3>2. Visited(x.region)'
      BY <3>1, <1>2 DEF Visited
    <3>3. x.region = region' => i \in DOMAIN cache' /\ cache'[i] = Failed
      BY <3>1, <1>5
    <3> QED BY <3>2, <3>3
  <2>2. CASE <<"unresolved", x, i>> \notin errors
    <3>1. answer = Failed /\ x = item /\ i = id
      BY <1>1, <2>2
    <3> QED BY <3>1, <1>2, <1>5
  <2> QED BY <2>1, <2>2
<1>7. \A t \in refs' : Agreed(t, region)'
  <2> SUFFICES ASSUME NEW t \in refs', t \notin refs PROVE Agreed(t, region)'
    BY <1>4, <1>5 DEF AnswerInv
  <2>1. answer # Failed /\ t[2] = id /\ t[3] = answer
    BY <1>1
  <2>2. answer = region /\ errors' = errors
    BY <1>1, <1>5, <2>1
  <2>3. \A x \in Resources : x.region = region => <<"unresolved", x, id>> \notin errors
    <3> SUFFICES ASSUME NEW x \in Resources, x.region = region, <<"unresolved", x, id>> \in errors
                 PROVE  FALSE
      OBVIOUS
    <3>1. id \in DOMAIN cache /\ cache[id] = Failed
      BY <1>2 DEF AnswerInv, ToldInv
    <3> QED BY <3>1, <1>5, <2>1
  <2> QED BY <1>2, <1>5, <2>1, <2>2, <2>3 DEF Agreed
<1>8. \A r \in reported' : \A t \in r.refs : Agreed(t, r.resource.region)'
  BY <1>2, <1>4 DEF AnswerInv
<1>9. \A i \in DOMAIN cache' : cache'[i] \in {region', Failed}
  BY <1>5 DEF AnswerInv
<1>10. (item' # NoItem => item'.region = region') /\ (item' = NoItem => refs' = {})
  BY <1>2, <1>5
<1> QED BY <1>6, <1>7, <1>8, <1>9, <1>10 DEF AnswerInv

LEMMA AnswerInductive ==
  ASSUME IInv, ResolverInv, AnswerInv, [Next]_vars
  PROVE  AnswerInv'
<1>1. CASE Finish \/ Page \/ PageFails \/ PageDone \/ BlocksDone \/ ResolveRole
           \/ EnrichFunctionURLs \/ Returned \/ UNCHANGED vars
  <2>1. UNCHANGED <<place, resolverVars, item, refs, reported>>
    BY <1>1 DEF Finish, Page, PageFails, PageDone, BlocksDone, ResolveRole, EnrichFunctionURLs,
                Returned, vars, building
  <2>2. AnswersKept
    <3>1. UNCHANGED <<place, region, cache>>
      BY <2>1 DEF resolverVars
    <3>2. CASE UNCHANGED errors
      BY <3>1, <3>2 DEF AnswersKept
    <3>3. CASE PageFails
      BY <3>1, <3>3, OtherErrorKeepsAnswers DEF PageFails
    <3>4. CASE ResolveRole
      <4>1. errors' = errors \/ errors' = errors \cup {<<"profile", item, item.profile.arn>>}
        BY <3>4 DEF ResolveRole, UseProfile, Reports
      <4> QED BY <3>1, <4>1, OtherErrorKeepsAnswers
    <3>5. CASE EnrichFunctionURLs
      BY <3>1, <3>5, OtherErrorKeepsAnswers DEF EnrichFunctionURLs, Reports
    <3> QED BY <1>1, <3>2, <3>3, <3>4, <3>5 DEF Finish, Page, PageDone, BlocksDone, Returned, vars
  <2> QED BY <2>1, <2>2, AnswerKept DEF AnswerInv
<1>2. CASE \E x \in Resources : Skip(x) \/ Reject(x) \/ Accept(x)
  <2>1. PICK x \in Resources : Skip(x) \/ Reject(x) \/ Accept(x)
    BY <1>2
  <2>2. x.region = region /\ item = NoItem /\ refs = {} /\ NoItem \notin Resources
    BY <2>1, PlacesFacts DEF Skip, Reject, Accept, Take, IInv, PlaceInv, ItemInv, Building, AnswerInv
  <2>3. AnswersKept /\ UNCHANGED reported
    BY <2>1 DEF Skip, Reject, Accept, Take, AnswersKept, resolverVars
  <2>4. refs' = {} /\ item' \in {x, NoItem}
    BY <2>1, <2>2 DEF Skip, Reject, Accept, building
  <2> QED BY <2>2, <2>3, <2>4, AnswerKept DEF AnswerInv
<1>3. CASE BeginBlock
  <2>1. UNCHANGED <<place, resolverVars, item, refs, reported>>
    BY <1>3 DEF BeginBlock
  <2>2. AnswersKept
    <3>1. UNCHANGED <<place, region, cache>>
      BY <2>1 DEF resolverVars
    <3>2. \/ UNCHANGED errors
          \/ errors' = errors \cup {<<"no vpc", item, NoId>>}
          \/ errors' = errors \cup {<<"block", item, NoId>>}
      BY <1>3 DEF BeginBlock, Reports
    <3>3. CASE UNCHANGED errors
      BY <3>1, <3>3 DEF AnswersKept
    <3>4. CASE errors' = errors \cup {<<"no vpc", item, NoId>>}
      BY <3>1, <3>4, OtherErrorKeepsAnswers
    <3>5. CASE errors' = errors \cup {<<"block", item, NoId>>}
      BY <3>1, <3>5, OtherErrorKeepsAnswers
    <3> QED BY <3>2, <3>3, <3>4, <3>5
  <2> QED BY <2>1, <2>2, AnswerKept DEF AnswerInv
<1>4. CASE EndBlock
  <2>1. UNCHANGED <<place, resolverVars, item, errors, reported>> /\ refs' \subseteq refs
    BY <1>4 DEF EndBlock
  <2>2. AnswersKept
    BY <2>1 DEF AnswersKept, resolverVars
  <2> QED BY <2>1, <2>2, AnswerKept DEF AnswerInv
<1>5. CASE AppendItem
  <2>1. /\ UNCHANGED <<place, resolverVars, errors>> /\ refs' = {} /\ item' = NoItem
        /\ reported' = reported \cup {[resource |-> item, refs |-> refs, role |-> role]}
    BY <1>5 DEF AppendItem
  <2>2. AnswersKept
    BY <2>1 DEF AnswersKept, resolverVars
  <2>3. item # NoItem
    BY <1>5 DEF AppendItem, IInv, ItemInv, Building
  <2> QED BY <2>1, <2>2, <2>3, AnswerKept DEF AnswerInv
<1> QED BY <1>1, <1>2, <1>3, <1>4, <1>5, NextRegionKeepsAnswers, ResolveReferenceKeepsAnswers DEF Next

\* What a resource refers to is of its own region, and the resources of a region
\* agree on which ids could be resolved, whenever each of them asked: there is one
\* answer to an id, and the service is asked for it once.
THEOREM RegionalAnswersAgree == Spec => []OneAnswerPerRegion
<1>1. Init => AnswerInv
  BY AnswerInitially
<1>2. IInv /\ ResolverInv /\ AnswerInv /\ [Next]_vars => AnswerInv'
  BY AnswerInductive
<1>3. AnswerInv => AnswersAgree
  BY DEF AnswerInv, Agreed, AnswersAgree
<1>4. AnswersAgree /\ LookedUpOnce => OneAnswerPerRegion
  BY DEF OneAnswerPerRegion
<1> QED BY <1>1, <1>2, <1>3, <1>4, ResolverInvariant, EachIdLookedUpOnce, PTL DEF Spec

----------------------------------------------------------------------------
(***************************************************************************)
(* The role of an instance.                                                *)
(***************************************************************************)
\* What was told of a role stays true: a profile that is known stays known.
LEMMA RoleToldStays ==
  ASSUME errors \subseteq errors', UNCHANGED kind,
         \A arn \in DOMAIN profileCache : arn \in DOMAIN profileCache' /\ profileCache'[arn] = profileCache[arn],
         NEW x, NEW itsRole, RoleTold(x, itsRole)
  PROVE  RoleTold(x, itsRole)'
BY DEF RoleTold

LEMMA RoleOfReported == RoleOfAttachedProfile <=> \A r \in reported : RoleTold(r.resource, r.role)
BY DEF RoleOfAttachedProfile, RoleTold

LEMMA ProfilesKept ==
  ASSUME [Next]_vars, NEW arn \in DOMAIN profileCache
  PROVE  arn \in DOMAIN profileCache' /\ profileCache'[arn] = profileCache[arn]
<1>1. CASE UNCHANGED profileCache
  BY <1>1
<1>2. CASE ResolveRole /\ profileCache' # profileCache
  <2>1. PICK profile : Keep(item.profile.arn, profile) /\ item.profile.arn \notin DOMAIN profileCache
    BY <1>2 DEF ResolveRole
  <2> QED BY <2>1 DEF Keep
<1>3. ResolveRole \/ UNCHANGED profileCache
  BY DEF Next, vars, NextRegion, Finish, Page, PageFails, PageDone, Skip, Reject, Accept, Take, BeginBlock,
         ResolveReference, EndBlock, BlocksDone, EnrichFunctionURLs, AppendItem, Returned
<1> QED BY <1>1, <1>2, <1>3

LEMMA ResolveRoleTells ==
  ASSUME ResolveRole, role = "none"
  PROVE  RoleTold(item, role)'
<1>1. UNCHANGED <<kind, item>>
  BY DEF ResolveRole
<1>a. ASSUME NEW profile, UseProfile(profile),
             profile # Failed => item.profile.arn \in DOMAIN profileCache' /\ profileCache'[item.profile.arn] = profile
      PROVE  RoleTold(item, role)'
  <2>1. CASE profile = Failed \/ (profile # Failed /\ item.profile.id \notin {NoId, profile[1]})
    BY <1>1, <1>a, <2>1 DEF UseProfile, Reports, RoleTold
  <2>2. CASE profile # Failed /\ item.profile.id \in {NoId, profile[1]}
    BY <1>1, <1>a, <2>2 DEF UseProfile, RoleTold
  <2> QED BY <2>1, <2>2
<1>2. CASE Reports("profile", item.profile.arn) /\ UNCHANGED role
  BY <1>1, <1>2 DEF Reports, RoleTold
<1>3. CASE /\ item.profile.arn \in DOMAIN profileCache
           /\ UseProfile(profileCache[item.profile.arn]) /\ UNCHANGED profileCache
  BY <1>a, <1>3
<1>4. CASE \E profile : Keep(item.profile.arn, profile) /\ UseProfile(profile)
  <2>1. PICK profile : Keep(item.profile.arn, profile) /\ UseProfile(profile)
    BY <1>4
  <2>2. item.profile.arn \in DOMAIN profileCache' /\ profileCache'[item.profile.arn] = profile
    BY <2>1 DEF Keep
  <2> QED BY <1>a, <2>1, <2>2
<1> QED BY <1>2, <1>3, <1>4 DEF ResolveRole

LEMMA RoleInductive ==
  ASSUME RoleInv, [Next]_vars
  PROVE  RoleInv'
<1>0. \A x, itsRole : RoleTold(x, itsRole) => RoleTold(x, itsRole)'
  BY ErrorsGrow, ProfilesKept, RoleToldStays
<1>1. \A r \in reported : RoleTold(r.resource, r.role)'
  BY <1>0, RoleOfReported DEF RoleInv
<1>2. CASE UNCHANGED reported
  <2>1. RoleOfAttachedProfile'
    BY <1>1, <1>2, RoleOfReported DEF RoleOfAttachedProfile, RoleTold
  <2>2. CASE NextRegion \/ Finish \/ Page \/ PageFails \/ PageDone \/ EndBlock
    BY <2>1, <2>2 DEF NextRegion, Finish, Page, PageFails, PageDone, EndBlock, RoleInv
  <2>3. CASE \E x \in Resources : Skip(x) \/ Reject(x) \/ Accept(x)
    BY <2>1, <2>3 DEF Skip, Reject, Accept, Take, RoleInv
  <2>4. CASE BeginBlock \/ ResolveReference
    BY <2>1, <2>4 DEF BeginBlock, ResolveReference, RoleInv
  <2>5. CASE BlocksDone
    <3>1. /\ UNCHANGED <<kind, item, role, profileCache, errors>> /\ role = "none"
          /\ pc' = "role" \/ (pc' = "urls" /\ kind = "lambda")
             \/ (pc' = "append" /\ (kind # "ec2" \/ item.profile.arn = NoId))
      BY <2>5 DEF BlocksDone, building, RoleInv
    <3> QED BY <2>1, <3>1 DEF RoleInv, RoleTold
  <2>6. CASE ResolveRole
    <3>1. RoleTold(item, role)' /\ pc' = "append"
      BY <2>6, ResolveRoleTells DEF ResolveRole, RoleInv
    <3> QED BY <2>1, <3>1 DEF RoleInv
  <2>7. CASE EnrichFunctionURLs
    <3>1. pc' = "append" /\ kind' = "lambda"
      BY <2>7 DEF EnrichFunctionURLs, RoleInv
    <3> QED BY <2>1, <3>1 DEF RoleInv, RoleTold
  <2>8. CASE UNCHANGED vars
    <3>1. UNCHANGED <<pc, kind, role, item>>
      BY <2>8 DEF vars, building
    <3>2. pc' = "append" => RoleTold(item, role)'
      BY <1>0, <3>1 DEF RoleInv
    <3> QED BY <2>1, <3>1, <3>2 DEF RoleInv
  <2>9. CASE AppendItem
    BY <2>1, <2>9 DEF AppendItem, RoleInv
  <2> QED BY <2>2, <2>3, <2>4, <2>5, <2>6, <2>7, <2>8, <2>9 DEF Next, Returned
<1>3. CASE AppendItem
  <2>1. /\ reported' = reported \cup {[resource |-> item, refs |-> refs, role |-> role]}
        /\ pc = "append" /\ pc' = "convert"
    BY <1>3 DEF AppendItem
  <2>2. RoleTold(item, role) /\ \A x, itsRole : RoleTold(x, itsRole) => RoleTold(x, itsRole)'
    BY <1>0, <2>1 DEF RoleInv
  <2>3. \A r \in reported' : RoleTold(r.resource, r.role)'
    <3> SUFFICES ASSUME NEW r \in reported' PROVE RoleTold(r.resource, r.role)'
      OBVIOUS
    <3>1. CASE r \in reported
      BY <1>1, <3>1
    <3>2. CASE r = [resource |-> item, refs |-> refs, role |-> role]
      BY <2>2, <3>2
    <3> QED BY <2>1, <3>1, <3>2
  <2>4. RoleOfAttachedProfile'
    BY <2>3 DEF RoleOfAttachedProfile, RoleTold
  <2> QED BY <2>1, <2>4 DEF RoleInv
<1>4. AppendItem \/ UNCHANGED reported
  BY DEF Next, vars, NextRegion, Finish, Page, PageFails, PageDone, Skip, Reject, Accept, Take, BeginBlock,
         ResolveReference, EndBlock, BlocksDone, ResolveRole, EnrichFunctionURLs, Returned
<1> QED BY <1>2, <1>3, <1>4

\* The role that an instance is reported with is that of the profile attached to
\* it, from a cache that outlives the region, or why there is none is told.
THEOREM RolesAreAttached == Spec => []RoleOfAttachedProfile
<1>1. Init => RoleInv
  BY DEF Init, RoleInv, RoleOfAttachedProfile
<1>2. RoleInv /\ [Next]_vars => RoleInv'
  BY RoleInductive
<1>3. RoleInv => RoleOfAttachedProfile
  BY DEF RoleInv
<1> QED BY <1>1, <1>2, <1>3, PTL DEF Spec

----------------------------------------------------------------------------
(***************************************************************************)
(* The references of a resource.                                           *)
(***************************************************************************)
\* An explanation is not taken back.
LEMMA ExplainedStays ==
  ASSUME [Next]_vars, NEW x, NEW b, NEW id, Explained(x, b, id)
  PROVE  Explained(x, b, id)'
BY ErrorsGrow DEF Explained

LEMMA CompleteStays ==
  ASSUME [Next]_vars, UNCHANGED item, NEW b, CompleteAt(b), \A t \in refs : t[1] = b => t \in refs'
  PROVE  CompleteAt(b)'
<1>1. \A id : Explained(item, b, id) => Explained(item, b, id)'
  <2> SUFFICES ASSUME NEW id, Explained(item, b, id) PROVE Explained(item, b, id)'
    OBVIOUS
  <2> QED BY ErrorsGrow DEF Explained
<1>2. \A id : At(b, id) => At(b, id)'
  BY DEF At
<1> QED BY <1>1, <1>2 DEF CompleteAt, RefersTo

CompleteReport(r) ==
  \A b \in DOMAIN r.resource.blocks : \A id \in RefersTo(r.resource, b) :
    Has(r, b, id) \/ Explained(r.resource, b, id)

LEMMA ReferencesOfReported == ReferencesComplete <=> \A r \in reported : CompleteReport(r)
BY DEF ReferencesComplete, CompleteReport, RefersTo

LEMMA ReportStays ==
  ASSUME [Next]_vars, NEW r, CompleteReport(r)
  PROVE  CompleteReport(r)'
BY ExplainedStays DEF CompleteReport, RefersTo, Has

LEMMA ReportedStaysComplete ==
  ASSUME [Next]_vars, ReferencesComplete, UNCHANGED reported
  PROVE  ReferencesComplete'
<1>1. \A r \in reported' : CompleteReport(r)'
  BY ReportStays, ReferencesOfReported
<1> QED BY <1>1 DEF ReferencesComplete, CompleteReport, RefersTo

\* What a block is made of, and that without a network it has groups only.
LEMMA BlockParts ==
  ASSUME NEW x \in Resources, NEW b \in 1 .. Len(x.blocks)
  PROVE  /\ x.blocks[b].vpc \in VpcIds \cup {NoId}
         /\ x.blocks[b].subnets \subseteq SubnetIds /\ x.blocks[b].groups \subseteq GroupIds
         /\ ~x.blocks[b].network => x.blocks[b].vpc = NoId /\ x.blocks[b].subnets = {}
         /\ x.blocks[b].network \in BOOLEAN /\ x.blocks[b].own \in BOOLEAN
<1>1. x.blocks[b] \in Blocks /\ b \in DOMAIN x.blocks
  BY InventoryAssumption
<1> QED BY <1>1, InventoryAssumption DEF Blocks

LEMMA IdsDiffer ==
  /\ NoId \notin VpcIds \cup SubnetIds \cup GroupIds
  /\ VpcIds \cap SubnetIds = {} /\ VpcIds \cap GroupIds = {} /\ SubnetIds \cap GroupIds = {}
BY InventoryAssumption

\* A block that is begun has all it refers to pending, but for the subnets that
\* are not asked for without a VPC, whose absence is told.
LEMMA BeginBlockKeepsBlocksComplete ==
  ASSUME IInv, ResolverInv, BlocksInv, BeginBlock
  PROVE  BlocksInv'
<1>0. [Next]_vars
  BY DEF Next
<1>1. /\ pc = "block" /\ item # NoItem /\ item \in Resources /\ Len(item.blocks) \in Nat
      /\ block \in Nat /\ block < Len(item.blocks) /\ block' = block + 1
      /\ UNCHANGED <<kind, item, refs, reported>> /\ pc' \in {"block", "resolve"}
  <2>1. /\ pc = "block" /\ block < Len(item.blocks) /\ block' = block + 1
        /\ UNCHANGED <<kind, item, refs, reported>> /\ pc' \in {"block", "resolve"}
    BY DEF BeginBlock
  <2>2. item # NoItem
    BY <2>1 DEF IInv, ItemInv, Building
  <2>3. block \in 0 .. Len(item.blocks)
    BY <2>2 DEF ResolverInv, BlockInv
  <2> QED BY <2>1, <2>2, <2>3, ItemFacts
<1>2. \A b \in 1 .. block : CompleteAt(b)'
  BY <1>0, <1>1, CompleteStays DEF BlocksInv
<1>3. ReferencesComplete'
  BY <1>0, <1>1, ReportedStaysComplete DEF BlocksInv
<1>a. PICK b \in 1 .. Len(item.blocks) : b = block + 1
  BY <1>1
<1> DEFINE new == item.blocks[b]
<1>4. /\ new.vpc \in VpcIds \cup {NoId} /\ new.subnets \subseteq SubnetIds /\ new.groups \subseteq GroupIds
      /\ ~new.network => new.vpc = NoId /\ new.subnets = {}
      /\ new.network \in BOOLEAN /\ new.own \in BOOLEAN
  BY <1>1, BlockParts
<1>b. NextBlock = new
  BY <1>a DEF NextBlock
<1>5. CASE ~new.own
  <2>1. <<"block", item, NoId>> \in errors' /\ pc' = "block"
    BY <1>1, <1>b, <1>5 DEF BeginBlock, Reports
  <2>2. CompleteAt(b)'
    BY <1>1, <1>5, <2>1 DEF CompleteAt, Explained
  <2>3. \A c \in 1 .. block' : CompleteAt(c)'
    BY <1>1, <1>2, <1>a, <2>2
  <2> QED BY <1>1, <1>3, <2>1, <2>3 DEF BlocksInv
<1>6. CASE new.own
  <2>1. /\ pc' = "resolve" /\ pending' = Asked(new)
        /\ new.network /\ new.vpc = NoId /\ (kind = "lambda" => new.subnets \cup new.groups # {})
             => <<"no vpc", item, NoId>> \in errors'
    BY <1>1, <1>b, <1>6 DEF BeginBlock, Reports
  <2>2. \A id \in RefersTo(item, b) : id \in pending' \/ Explained(item, b, id)'
    <3> SUFFICES ASSUME NEW id \in RefersTo(item, b), id \notin pending'
                 PROVE  Explained(item, b, id)'
      OBVIOUS
    <3>1. id \in new.subnets /\ new.vpc = NoId /\ kind # "rds"
      BY <2>1 DEF RefersTo, Asked
    <3>2. <<"no vpc", item, NoId>> \in errors'
      BY <1>4, <2>1, <3>1
    <3>3. id \in SubnetIds /\ id # new.vpc
      BY <1>4, <3>1, IdsDiffer
    <3> QED BY <1>1, <3>1, <3>2, <3>3 DEF Explained
  <2>3. new.network /\ kind = "ec2" /\ new.vpc = NoId => <<"no vpc", item, NoId>> \in errors'
    BY <2>1
  <2>4. \A c \in 1 .. block' : c = block' \/ CompleteAt(c)'
    BY <1>1, <1>2
  <2> HIDE DEF new
  <2>5. block' = b /\ Block' = new
    BY <1>1, <1>a DEF Block, new
  <2>6. \A id \in RefersTo(item, b)' : id \in pending' \/ Explained(item, b, id)'
    BY <1>1, <2>2 DEF RefersTo
  <2> QED BY <1>1, <1>3, <1>6, <2>1, <2>3, <2>4, <2>5, <2>6 DEF BlocksInv
<1> QED BY <1>4, <1>5, <1>6

\* A reference that is no longer pending is known, or its failure or that of its
\* VPC is told.
LEMMA ResolveReferenceKeepsBlocksComplete ==
  ASSUME IInv, ResolverInv, BlocksInv, ResolveReference
  PROVE  BlocksInv'
<1>0. [Next]_vars
  BY DEF Next
<1>1. /\ pc = "resolve" /\ pc' = "resolve" /\ item # NoItem /\ item \in Resources
      /\ UNCHANGED <<kind, item, block, reported>>
  BY ItemFacts DEF ResolveReference, IInv, ItemInv, Building
<1>2. PICK id \in pending, answer \in RegionNames \cup {Failed} :
        IF answer # Failed
        THEN refs' = refs \cup {<<block, id, answer>>} /\ pending' = pending \ {id} /\ UNCHANGED errors
        ELSE /\ pending' = pending \ (IF id = Block.vpc /\ kind # "rds" THEN {id} \cup Block.subnets ELSE {id})
             /\ errors' = errors \cup {<<"unresolved", item, id>>} /\ UNCHANGED refs
  BY DEF ResolveReference, Missed, Reports
<1>3. refs \subseteq refs'
  BY <1>2
<1>4. \A b \in 1 .. block : b = block \/ CompleteAt(b)'
  BY <1>0, <1>1, <1>3, CompleteStays DEF BlocksInv
<1>5. block \in 1 .. Len(item.blocks) /\ Block.own
  BY <1>1 DEF BlocksInv
<1>6. /\ Block.vpc \in VpcIds \cup {NoId} /\ Block.subnets \subseteq SubnetIds
  BY <1>1, <1>5, BlockParts DEF Block
<1>7. \A i \in RefersTo(item, block) : i \in pending' \/ At(block, i)' \/ Explained(item, block, i)'
  <2> SUFFICES ASSUME NEW i \in RefersTo(item, block), i \notin pending'
               PROVE  At(block, i)' \/ Explained(item, block, i)'
    OBVIOUS
  <2>1. CASE i \notin pending
    <3>1. At(block, i) => At(block, i)'
      BY <1>1, <1>3 DEF At
    <3>2. Explained(item, block, i) => Explained(item, block, i)'
      BY <1>0, <1>1, ErrorsGrow DEF Explained
    <3> QED BY <1>1, <2>1, <3>1, <3>2 DEF BlocksInv
  <2>2. CASE i \in pending /\ answer # Failed
    <3>1. i = id /\ <<block, id, answer>> \in refs'
      BY <1>2, <2>2
    <3>2. \E t \in refs' : t[1] = block /\ t[2] = i
      BY <3>1
    <3> QED BY <1>1, <3>2 DEF At
  <2>3. CASE i = id /\ answer = Failed
    BY <1>1, <1>2, <2>3 DEF Explained
  <2>4. CASE i \in Block.subnets /\ i # id /\ id = Block.vpc /\ kind # "rds" /\ answer = Failed
    <3>1. i \in SubnetIds /\ <<"unresolved", item, Block.vpc>> \in errors'
      BY <1>2, <1>6, <2>4
    <3> QED BY <1>1, <2>4, <3>1 DEF Explained, Block
  <2> QED BY <1>2, <2>1, <2>2, <2>3, <2>4
<1>8. kind = "ec2" /\ Block.network /\ Block.vpc = NoId => <<"no vpc", item, NoId>> \in errors'
  BY <1>0, <1>1, ErrorsGrow DEF BlocksInv
<1>9. ReferencesComplete'
  BY <1>0, <1>1, ReportedStaysComplete DEF BlocksInv
<1> QED BY <1>1, <1>4, <1>5, <1>7, <1>8, <1>9 DEF BlocksInv, RefersTo, Block

\* An interface of EC2 that loses its references has told what became of its VPC.
LEMMA EndBlockKeepsBlocksComplete ==
  ASSUME IInv, ResolverInv, BlocksInv, EndBlock
  PROVE  BlocksInv'
<1>0. [Next]_vars
  BY DEF Next
<1>1. /\ pc = "resolve" /\ pc' = "block" /\ pending = {} /\ item # NoItem /\ item \in Resources
      /\ UNCHANGED <<kind, item, block, reported, errors>>
  BY ItemFacts DEF EndBlock, IInv, ItemInv, Building
<1>2. \A t \in refs : t[1] # block => t \in refs'
  BY DEF EndBlock
<1>3. \A b \in 1 .. block : b = block \/ CompleteAt(b)'
  BY <1>0, <1>1, <1>2, CompleteStays DEF BlocksInv
<1>4. block \in 1 .. Len(item.blocks) /\ Block.own
  BY <1>1 DEF BlocksInv
<1>5. /\ Block.vpc \in VpcIds \cup {NoId} /\ Block.subnets \subseteq SubnetIds
      /\ Block.groups \subseteq GroupIds
  BY <1>1, <1>4, BlockParts DEF Block
<1>6. \A i \in RefersTo(item, block) : At(block, i) \/ Explained(item, block, i)
  BY <1>1 DEF BlocksInv
<1>7. CompleteAt(block)'
  <2>1. CASE refs' = refs
    BY <1>1, <1>6, <2>1 DEF CompleteAt, At, RefersTo, Explained
  <2>2. CASE /\ kind = "ec2" /\ Block.network
             /\ ~\E t \in refs : t[1] = block /\ t[2] = Block.vpc
    <3>1. Block.vpc = NoId => <<"no vpc", item, NoId>> \in errors
      BY <1>1, <2>2 DEF BlocksInv
    <3>2. Block.vpc # NoId => <<"unresolved", item, Block.vpc>> \in errors
      <4> SUFFICES ASSUME Block.vpc # NoId PROVE <<"unresolved", item, Block.vpc>> \in errors
        OBVIOUS
      <4>1. Block.vpc \in RefersTo(item, block)
        BY DEF RefersTo, Block
      <4>2. Explained(item, block, Block.vpc)
        BY <1>6, <2>2, <4>1 DEF At
      <4> QED BY <1>4, <4>2 DEF Explained, Block
    <3>3. \A i \in RefersTo(item, block) : Explained(item, block, i)
      <4> SUFFICES ASSUME NEW i \in RefersTo(item, block) PROVE Explained(item, block, i)
        OBVIOUS
      <4>1. CASE i = Block.vpc
        <5>1. i # NoId
          BY <1>5, <4>1, IdsDiffer DEF RefersTo, Block
        <5> QED BY <3>2, <4>1, <5>1 DEF Explained
      <4>2. CASE i # Block.vpc
        BY <2>2, <3>1, <3>2, <4>2 DEF Explained, Block
      <4> QED BY <4>1, <4>2
    <3> QED BY <1>1, <3>3 DEF CompleteAt, Explained, RefersTo
  <2> QED BY <2>1, <2>2 DEF EndBlock
<1>8. ReferencesComplete'
  BY <1>0, <1>1, ReportedStaysComplete DEF BlocksInv
<1> QED BY <1>1, <1>3, <1>7, <1>8 DEF BlocksInv

LEMMA AppendItemKeepsBlocksComplete ==
  ASSUME IInv, BlocksInv, AppendItem
  PROVE  BlocksInv'
<1>0. [Next]_vars
  BY DEF Next
<1> DEFINE new == [resource |-> item, refs |-> refs, role |-> role]
<1>1. /\ pc = "append" /\ pc' = "convert" /\ item' = NoItem /\ reported' = reported \cup {new}
      /\ item # NoItem /\ item.blocks \in Seq(Blocks) /\ block = Len(item.blocks)
  BY ItemFacts DEF AppendItem, IInv, ItemInv, Building, BlocksInv
<1>2. \A b \in DOMAIN item.blocks : CompleteAt(b)
  BY <1>1 DEF BlocksInv
<1>3. CompleteReport(new)
  BY <1>2 DEF CompleteReport, CompleteAt, Has, At
<1>4. \A r \in reported' : CompleteReport(r)'
  <2> SUFFICES ASSUME NEW r \in reported' PROVE CompleteReport(r)
    BY <1>0, ReportStays
  <2> QED BY <1>1, <1>3, ReferencesOfReported DEF BlocksInv
<1>5. ReferencesComplete'
  BY <1>4 DEF ReferencesComplete, CompleteReport, RefersTo
<1> QED BY <1>1, <1>5 DEF BlocksInv

LEMMA BlocksInductive ==
  ASSUME IInv, ResolverInv, BlocksInv, [Next]_vars
  PROVE  BlocksInv'
<1>1. CASE NextRegion \/ Finish \/ Page \/ PageFails \/ PageDone
  <2>1. /\ item = NoItem /\ UNCHANGED <<item, reported>>
        /\ pc' \notin {"resolve", "role", "urls", "append"}
    BY <1>1 DEF NextRegion, Finish, Page, PageFails, PageDone, building, IInv, ItemInv, Building
  <2> QED BY <2>1, ReportedStaysComplete DEF BlocksInv
<1>2. CASE \E x \in Resources : Skip(x) \/ Reject(x) \/ Accept(x)
  <2>1. /\ item' = NoItem \/ block' = 0
        /\ pc' \notin {"resolve", "role", "urls", "append"}
    BY <1>2 DEF Skip, Reject, Accept, Take, building, IInv, ItemInv, Building
  <2>2. UNCHANGED reported
    BY <1>2 DEF Skip, Reject, Accept, Take
  <2>3. ReferencesComplete'
    BY <2>2, ReportedStaysComplete DEF BlocksInv
  <2>4. item' # NoItem => 1 .. block' = {}
    BY <2>1
  <2> QED BY <2>1, <2>3, <2>4 DEF BlocksInv
<1>3. CASE BlocksDone \/ ResolveRole \/ EnrichFunctionURLs
  <2>1. /\ UNCHANGED <<item, block, refs, reported>> /\ pc # "resolve"
        /\ pc' \in {"role", "urls", "append"} /\ block = Len(item.blocks)
    BY <1>3 DEF BlocksDone, ResolveRole, EnrichFunctionURLs, building, BlocksInv
  <2>2. item # NoItem => \A b \in 1 .. block : CompleteAt(b)'
    BY <2>1, CompleteStays DEF BlocksInv
  <2> QED BY <2>1, <2>2, ReportedStaysComplete DEF BlocksInv
<1>4. CASE UNCHANGED vars
  <2>1. UNCHANGED <<pc, kind, item, block, pending, refs, errors, reported>>
    BY <1>4 DEF vars, building
  <2>2. ReferencesComplete'
    BY <2>1, ReportedStaysComplete DEF BlocksInv
  <2>3. item # NoItem => \A b \in 1 .. block : (pc = "resolve" /\ b = block) \/ CompleteAt(b)'
    BY <2>1, CompleteStays DEF BlocksInv
  <2>4. Block' = Block /\ RefersTo(item, block)' = RefersTo(item, block)
    BY <2>1 DEF Block, RefersTo
  <2>5. \A id : At(block, id)' = At(block, id) /\ Explained(item, block, id)' = Explained(item, block, id)
    BY <2>1 DEF At, Explained
  <2> QED BY <2>1, <2>2, <2>3, <2>4, <2>5 DEF BlocksInv
<1> QED BY <1>1, <1>2, <1>3, <1>4, BeginBlockKeepsBlocksComplete, ResolveReferenceKeepsBlocksComplete,
          EndBlockKeepsBlocksComplete, AppendItemKeepsBlocksComplete DEF Next, Returned

\* For any resources, every VPC, subnet and group that a reported resource is
\* known to refer to is reported with it, or it is told why not.
THEOREM RegionalReferencesComplete == Spec => []ReferencesComplete
<1>1. Init => BlocksInv
  BY DEF Init, BlocksInv, ReferencesComplete
<1>2. IInv /\ ResolverInv /\ BlocksInv /\ [Next]_vars => BlocksInv'
  BY BlocksInductive
<1>3. BlocksInv => ReferencesComplete
  BY DEF BlocksInv
<1> QED BY <1>1, <1>2, <1>3, ResolverInvariant, PTL DEF Spec
=============================================================================
