--------------------------- MODULE ApiGatewayProofs ---------------------------
(***************************************************************************)
(* For every account, list of versions and of regions, and every order in  *)
(* which the pages arrive and the calls fail: the report of an API says of *)
(* its access only what is true, loses nothing without a word, and the     *)
(* whole keeps the contract of an inventory.                               *)
(***************************************************************************)
EXTENDS ApiGateway, FiniteSetTheorems, TLAPS

(***************************************************************************)
(* The inductive invariant.  Base: what each place of the code may rely    *)
(* on.  Delivery: where an API that there is has got to.  Draft: what the  *)
(* report of the API under conversion holds, or says it lacks, of all that *)
(* was asked for already.  Of the reports that are complete, the           *)
(* properties themselves.                                                  *)
(***************************************************************************)
Listing == {"region", "list", "convert", "done"}
Converting == {"reference", "backend", "append"}
Gathering == {"begin", "exports", "operations", "routes", "domains"}

Begun(p) == phase \in 1 .. 4 /\ Phases(api.version)[phase] = p
Past(p) == \E i \in 1 .. 4 : i < phase /\ Phases(api.version)[i] = p
Doing(p) == Begun(p) /\ pc # "begin"

Places ==
  /\ present \in Worlds
  /\ turn \in 1 .. Len(Versions) + 1 /\ place \in 0 .. Len(Regions) /\ more \in BOOLEAN
  /\ pc = "region" => ~more
  /\ pc = "list" => more
  /\ more => turn \in DOMAIN Versions /\ place \in DOMAIN Regions
  /\ pc = "done" => turn > Len(Versions)
  /\ undelivered \subseteq present /\ queue \subseteq present \ undelivered

Control ==
  /\ pc \in Listing \cup Gathering \cup Converting
  /\ api = NoApi <=> pc \in Listing
  /\ api = NoApi => built = Nothing /\ todo = {} /\ phase = 0
  /\ api # NoApi => api \in present \ undelivered /\ api.identified /\ phase \in 1 .. 5
  /\ pc = "begin" => todo = {}
  /\ pc \in {"exports", "operations"} => Begun("exports")
  /\ pc = "routes" => Begun("routes")
  /\ pc = "domains" => Begun("certificates")
  /\ pc \in Converting => IF stage = NoStage THEN pc # "reference" /\ Begun("routes") ELSE Begun("exports")

InStage ==
  /\ pc = "operations" => stage # NoStage
  /\ stage # NoStage =>
       /\ pc \in {"operations"} \cup Converting
       /\ stage \in api.stages /\ stage \notin todo
       /\ next \in 1 .. Len(Document.operations) + 1
       /\ pc \in Converting => /\ next \in DOMAIN Document.operations
                               /\ Operation.valid /\ route.name = Operation.name

RouteShape ==
  route = [name |-> route.name, auth |-> route.auth, key |-> route.key, backend |-> route.backend,
           balancers |-> route.balancers, role |-> route.role]

InRoute ==
  /\ route # NoRoute <=> pc \in Converting
  /\ route # NoRoute => RouteShape
  /\ DOMAIN links \subseteq DOMAIN Links
  /\ \A l \in DOMAIN links : links[l] = Links[l]

Shape ==
  /\ built = [stages |-> built.stages, listed |-> built.listed, routes |-> built.routes,
              complete |-> built.complete, certificates |-> built.certificates]
  /\ \A b \in built.stages : b = [name |-> b.of.name, of |-> b.of, url |-> b.url, routes |-> b.routes]
  /\ \A b \in built.stages : api # NoApi /\ b.of \in api.stages

Counted ==
  api # NoApi =>
    /\ built.listed \in 0 .. Cardinality(api.stages)
    /\ api.version = "v1" => built.listed \in {0, Cardinality(api.stages)}

\* An API was delivered and then found unfit, reported, or is on its way there; of
\* one that was not there is an error if its page has been asked for.
Called(i, j) == 
  \/ i < turn
  \/ i = turn /\ j < place
  \/ i = turn /\ j = place /\ ~more

Delivery ==
  /\ \A x \in present \ undelivered :
       \/ x \in queue \/ x = api \/ \E r \in reported : r.api = x
       \/ <<"identify", x.name, "", "">> \in errors
  /\ \A x \in undelivered : \A i \in DOMAIN Versions : \A j \in DOMAIN Regions :
       Called(i, j) /\ x.version = Versions[i] /\ x.region = Regions[j] =>
         <<"list", x.version, x.region, "">> \in errors
  /\ \A i \in DOMAIN Versions : \A j \in DOMAIN Regions :
       <<"list", Versions[i], Regions[j], "">> \in errors => Called(i, j)
  /\ present \ undelivered \subseteq Wanted
  /\ \A r \in reported : r.api \in present \ undelivered
  /\ pc \in {"region", "list", "done"} => queue = {}

----------------------------------------------------------------------------
draft == [api |-> api, stages |-> built.stages, routes |-> built.routes,
          certificates |-> built.certificates]

DraftStages ==
  Past("stages") => \A s \in api.stages : StageListed(draft, s)

DraftExports ==
  /\ Past("exports") => \A b \in built.stages : StageComplete(draft, b)
  /\ Doing("exports") =>
       \A b \in built.stages : b.of \in todo \/ b.of = stage \/ StageComplete(draft, b)
  /\ stage # NoStage =>
       \A b \in built.stages : b.of = stage =>
         \A i \in DOMAIN Document.operations : i < next => OperationComplete(draft, b, Document.operations[i])

\* The route of the operation that is converted.
DraftOperation ==
  stage # NoStage /\ route # NoRoute =>
    LET ends == Ends(Document, Operation.integration) IN
    /\ RouteHonest(draft, stage, route, Operation)
    /\ pc = "reference" => payload = Invalid \/ payload \in Reachable(Document, Operation.integration)
    /\ pc = "backend" => \E p \in ends : payload = Resolved(p, stage.variables)
    /\ pc = "append" =>
         \/ Told("integration", draft, stage.name, route.name)
         \/ Told("backend", draft, stage.name, route.name)
         \/ \E p \in ends : BackendOf(route, Resolved(p, stage.variables))

Operations(doc) == {doc.operations[i] : i \in DOMAIN doc.operations}

DraftHonest ==
  \A b \in built.stages : \A t \in b.routes : \E op \in Operations(b.of.document) :
    op.valid /\ op.name = t.name /\ RouteHonest(draft, b.of, t, op)

\* The route that is converted is the method m of the API itself.
OfTheApi == stage = NoStage /\ route # NoRoute

InProgress(m) ==
  /\ OfTheApi /\ route.name = m.name
  /\ pc = "backend" => payload = m.integration
  /\ pc = "append" => RouteComplete(draft, route, m)

DraftRoutes ==
  /\ Past("routes") => \A m \in api.routes : RouteListed(draft, m)
  /\ Doing("routes") => \A m \in api.routes : RouteListed(draft, m) \/ m \in todo \/ InProgress(m)

DirectRoutes == built.routes \cup {t \in {route} : OfTheApi}

DraftKeys ==
  /\ \A t \in DirectRoutes : t.key = "yes" => \E m \in api.routes : m.key = "yes"
  /\ built.complete =>
       /\ Past("routes") => \A m \in api.routes : \E t \in built.routes : t.key \in {m.key, "unknown"}
       /\ Doing("routes") => \A m \in api.routes :
            m \in todo \/ \E t \in DirectRoutes : t.key \in {m.key, "unknown"}

DraftDomains ==
  /\ Past("certificates") => \A d \in Domains : CertificateListed(draft, d)
  /\ Doing("certificates") => \A d \in Domains : d \in todo \/ CertificateListed(draft, d)

Draft ==
  api # NoApi =>
    DraftStages /\ DraftExports /\ DraftOperation /\ DraftHonest /\ DraftRoutes /\ DraftKeys /\ DraftDomains

\* What is left to ask for is of the API.
Asked ==
  /\ Begun("exports") => todo \subseteq api.stages
  /\ Begun("routes") => todo \subseteq api.routes

\* The steps of the conversion of one API.
Working ==
  \/ ListStages \/ BeginExports \/ ListRoutes \/ ListDomains \/ PhaseDone
  \/ ExportFails \/ ExportStage \/ SkipOperation \/ BeginOperation
  \/ FollowReference \/ IntegrationMissing \/ IntegrationFound \/ OperationsDone
  \/ RouteFails \/ AskRoute \/ Convert \/ ConvertLink \/ AppendRoute \/ AskDomain

Base == Places /\ Control /\ InStage /\ InRoute /\ Shape /\ Counted /\ Asked

IInv == Base /\ Delivery /\ Draft /\ AccessHonest /\ NothingLost

----------------------------------------------------------------------------
(***************************************************************************)
(* The APIs, and the phases of their conversion.                           *)
(***************************************************************************)
LEMMA ApiFields ==
  ASSUME NEW x \in Apis
  PROVE  /\ x # NoApi /\ x.version \in {"v1", "v2"} /\ x.identified \in BOOLEAN
         /\ IsFiniteSet(x.stages) /\ NoStage \notin x.stages
         /\ \A s \in x.stages : IsDocument(s.document)
BY ApiAssumption

LEMMA SequenceFields ==
  ASSUME NEW f, IsSequence(f)
  PROVE  Len(f) \in Nat /\ DOMAIN f = 1 .. Len(f)
BY DEF IsSequence

LEMMA WhatIsAsked ==
  /\ Len(Versions) \in Nat /\ DOMAIN Versions = 1 .. Len(Versions)
  /\ Len(Regions) \in Nat /\ DOMAIN Regions = 1 .. Len(Regions)
BY ApiAssumption, SequenceFields

LEMMA PresentApis ==
  ASSUME Places PROVE present \subseteq Apis
BY DEF Places, Apis

LEMMA CurrentApi ==
  ASSUME Places, Control, api # NoApi
  PROVE  api \in Apis /\ api.version \in {"v1", "v2"} /\ phase \in 1 .. 5
BY PresentApis, ApiFields DEF Control

PhaseNames == {"stages", "exports", "routes", "certificates"}

LEMMA PhasesCases ==
  /\ Phases("v1")[1] = "stages" /\ Phases("v1")[2] = "exports"
  /\ Phases("v1")[3] = "routes" /\ Phases("v1")[4] = "certificates"
  /\ Phases("v2")[1] = "routes" /\ Phases("v2")[2] = "certificates"
  /\ Phases("v2")[3] = "stages" /\ Phases("v2")[4] = "exports"
BY DEF Phases

\* A phase is begun once, and after the last all have been.
LEMMA BegunOnce ==
  ASSUME Places, Control, api # NoApi, NEW p, NEW q, Begun(p)
  PROVE  ~Past(p) /\ (Begun(q) => q = p)
<1>1. api.version \in {"v1", "v2"} /\ phase \in 1 .. 4
  BY CurrentApi DEF Begun
<1>2. \A i, j \in 1 .. 4 : Phases(api.version)[i] = Phases(api.version)[j] => i = j
  BY <1>1, PhasesCases
<1> QED
  BY <1>1, <1>2 DEF Begun, Past

LEMMA AllPast ==
  ASSUME Places, Control, api # NoApi, phase = 5, NEW p \in PhaseNames
  PROVE  Past(p)
<1>1. api.version \in {"v1", "v2"}
  BY CurrentApi
<1>2. \E i \in 1 .. 4 : Phases(api.version)[i] = p
  BY <1>1, PhasesCases DEF PhaseNames
<1> QED
  BY <1>2 DEF Past

\* Exports are read after the stages are listed.
LEMMA StagesBeforeExports ==
  ASSUME Places, Control, api # NoApi, Begun("exports") \/ Past("exports")
  PROVE  Past("stages")
<1>1. api.version \in {"v1", "v2"} /\ phase \in 1 .. 5
  BY CurrentApi
<1>2. CASE api.version = "v1"
  <2>1. phase >= 2
    BY <1>1, <1>2, PhasesCases DEF Begun, Past
  <2> QED
    BY <1>2, <2>1, <1>1, PhasesCases DEF Past
<1>3. CASE api.version = "v2"
  <2>1. phase >= 4
    <3>1. \A i \in 1 .. 4 : Phases(api.version)[i] = "exports" => i = 4
      BY <1>3, PhasesCases
    <3> QED
      BY <3>1, <1>1 DEF Begun, Past
  <2> QED
    BY <1>3, <2>1, <1>1, PhasesCases DEF Past
<1> QED
  BY <1>1, <1>2, <1>3

LEMMA NextPhase ==
  ASSUME Places, Control, api # NoApi, UNCHANGED api, phase' = phase + 1, NEW p, Begun(p), NEW q
  PROVE  Past(q)' <=> Past(q) \/ q = p
<1>1. phase \in 1 .. 4 /\ Phases(api.version)[phase] = p
  BY DEF Begun
<1>2. \A i \in 1 .. 4 : i < phase' <=> i < phase \/ i = phase
  BY <1>1
<1> QED
  BY <1>1, <1>2 DEF Past

LEMMA SamePhase ==
  ASSUME UNCHANGED <<api, phase>>, NEW p
  PROVE  (Past(p)' <=> Past(p)) /\ (Begun(p)' <=> Begun(p))
BY DEF Past, Begun

----------------------------------------------------------------------------
(***************************************************************************)
(* Control, for the pages of a listing.                                    *)
(***************************************************************************)
LEMMA InitBase ==
  ASSUME Init PROVE Base
<1>1. Len(Versions) \in Nat /\ Len(Regions) \in Nat
  BY WhatIsAsked
<1>2. Places
  <2>1. turn = 1 /\ place = 0 /\ more = FALSE
    BY DEF Init
  <2>3. turn \in 1 .. Len(Versions) + 1 /\ place \in 0 .. Len(Regions)
    BY <1>1, <2>1
  <2>4. more \in BOOLEAN /\ ~more
    BY <2>1
  <2>2. present \in Worlds /\ undelivered \subseteq present /\ queue \subseteq present \ undelivered
    BY DEF Init
  <2> QED
    BY <2>2, <2>3, <2>4 DEF Init, Places
<1>3. Control
  BY DEF Init, Control, Listing, Gathering, Converting
<1>4. InStage /\ InRoute
  BY DEF Init, InStage, InRoute, Converting, NoRoute
<1>5. Shape /\ Counted
  BY DEF Init, Shape, Counted, Nothing
<1>6. Asked
  BY DEF Init, Asked
<1> QED
  BY <1>2, <1>3, <1>4, <1>5, <1>6 DEF Base

\* Nothing is converted before and after.
LEMMA ListingBase ==
  ASSUME Base, Places', pc \in Listing, pc' \in Listing, UNCHANGED <<api, phase, todo, converting, links, built>>
  PROVE  Base'
<1> USE DEF converting
<1>1. Control'
  BY DEF Base, Control, Listing, Gathering, Converting
<1>2. InStage' /\ InRoute'
  BY DEF Base, InStage, InRoute, Listing, Converting, RouteShape
<1>3. Shape' /\ Counted'
  BY DEF Base, Shape, Counted
<1>4. Asked'
  BY DEF Base, Asked, Begun, Control
<1> QED
  BY <1>1, <1>2, <1>3, <1>4 DEF Base

LEMMA PagesBase ==
  ASSUME Base, NextRegion \/ Finish \/ Page \/ PageFails \/ PageDone \/ (\E x \in Apis : Reject(x))
  PROVE  Base'
<1>1. Places
  BY DEF Base
<1>2. /\ Len(Versions) \in Nat /\ DOMAIN Versions = 1 .. Len(Versions)
      /\ Len(Regions) \in Nat /\ DOMAIN Regions = 1 .. Len(Regions)
  BY WhatIsAsked
<1>3. CASE NextRegion
  <2>1. /\ \/ pc' = "list" /\ more' = TRUE /\ turn' \in DOMAIN Versions /\ place' \in DOMAIN Regions
           \/ pc' = "region" /\ more' = more
        /\ turn' \in 1 .. Len(Versions) + 1 /\ place' \in 0 .. Len(Regions)
    BY <1>1, <1>2, <1>3 DEF NextRegion, Places
  <2>2. UNCHANGED <<present, undelivered, queue>> /\ pc = "region"
    BY <1>3 DEF NextRegion
  <2>4. pc' = "list" \/ pc' = "region"
    BY <2>1
  <2>5. more' \in BOOLEAN /\ (pc' = "region" => ~more') /\ (pc' = "list" => more')
    <3>1. CASE pc' = "list" /\ more' = TRUE
      BY <3>1
    <3>2. CASE pc' = "region" /\ more' = more
      BY <1>1, <2>2, <3>2 DEF Places
    <3> QED
      BY <2>1, <3>1, <3>2
  <2>6. more' => turn' \in DOMAIN Versions /\ place' \in DOMAIN Regions
    BY <1>1, <2>1, <2>2 DEF Places
  <2>3. Places'
    BY <1>1, <2>1, <2>2, <2>4, <2>5, <2>6 DEF Places
  <2> QED
    BY <1>3, <2>1, <2>3, ListingBase DEF NextRegion, Listing
<1>4. CASE Finish
  <2>1. Places'
    BY <1>1, <1>2, <1>4 DEF Finish, Places, listing
  <2> QED
    BY <1>4, <2>1, ListingBase DEF Finish, Listing
<1>5. CASE Page
  <2>1. PICK batch \in SUBSET Undelivered :
          /\ undelivered' = undelivered \ batch /\ queue' = batch
          /\ more' \in BOOLEAN
    BY <1>5 DEF Page
  <2>2. batch \subseteq present /\ UNCHANGED <<present, turn, place>> /\ pc' = "convert" /\ more
    BY <1>1, <1>5, <2>1 DEF Page, Undelivered, Places
  <2>3. Places'
    BY <1>1, <2>1, <2>2 DEF Places
  <2> QED
    BY <1>5, <2>3, ListingBase DEF Page, Listing
<1>6. CASE PageFails
  <2>1. Places'
    BY <1>1, <1>6 DEF PageFails, Places
  <2> QED
    BY <1>6, <2>1, ListingBase DEF PageFails, Listing
<1>7. CASE PageDone
  <2>1. Places'
    BY <1>1, <1>7 DEF PageDone, Places, listing
  <2> QED
    BY <1>7, <2>1, ListingBase DEF PageDone, Listing
<1>8. CASE \E x \in Apis : Reject(x)
  <2>3. /\ pc = "convert" /\ pc' = "convert" /\ queue' \subseteq queue
        /\ UNCHANGED <<present, turn, place, undelivered, more>>
    BY <1>8 DEF Reject
  <2>1. Places' /\ pc = "convert" /\ pc' = "convert"
    BY <1>1, <2>3 DEF Places
  <2>2. UNCHANGED <<api, phase, todo, converting, links, built>>
    BY <1>8 DEF Reject
  <2> QED
    BY <2>1, <2>2, ListingBase DEF Listing
<1> QED
  BY <1>3, <1>4, <1>5, <1>6, <1>7, <1>8

LEMMA AcceptBase ==
  ASSUME Base, NEW x \in Apis, Accept(x)
  PROVE  Base'
<1>1. /\ pc = "convert" /\ x \in queue /\ x.identified /\ queue' = queue \ {x}
      /\ api' = x /\ phase' = 1 /\ pc' = "begin" /\ built' = Nothing
      /\ UNCHANGED <<present, turn, place, undelivered, more, todo, stage, next, route, payload, seen, links>>
  BY DEF Accept, converting
<1>2. x # NoApi /\ x.version \in {"v1", "v2"} /\ IsFiniteSet(x.stages) /\ x \in present \ undelivered
  BY <1>1, ApiFields DEF Base, Places
<1>3. Places'
  BY <1>1 DEF Base, Places
<1>4. api = NoApi /\ stage = NoStage /\ route = NoRoute /\ todo = {}
  BY <1>1 DEF Base, Control, Listing, InStage, InRoute, Converting
<1>5. Control'
  BY <1>1, <1>2, <1>4 DEF Control, Listing, Gathering, Converting
<1>6. InStage' /\ InRoute'
  BY <1>1, <1>4 DEF Base, InStage, InRoute, Converting, RouteShape
<1>7. Shape'
  BY <1>1 DEF Shape, Nothing
<1>8. Counted'
  <2>1. Cardinality(x.stages) \in Nat
    BY <1>2, FS_CardinalityType
  <2> QED
    BY <1>1, <2>1 DEF Counted, Nothing
<1>9. Asked'
  BY <1>1, <1>4 DEF Asked
<1> QED
  BY <1>3, <1>5, <1>6, <1>7, <1>8, <1>9 DEF Base

----------------------------------------------------------------------------
(***************************************************************************)
(* Control, for the phases of an API.                                      *)
(***************************************************************************)
LEMMA PlacesKept ==
  ASSUME Base, UNCHANGED <<present, listing>>, pc' \notin Listing
  PROVE  Places'
BY DEF Base, Places, listing, Listing

LEMMA RouteKept ==
  ASSUME Base, UNCHANGED <<route, links>>, pc' \in Converting <=> pc \in Converting
  PROVE  InRoute'
BY DEF Base, InRoute, RouteShape

LEMMA BuiltKept ==
  ASSUME Base, UNCHANGED <<api, built>>
  PROVE  Shape' /\ Counted'
BY DEF Base, Shape, Counted

\* Between phases, and in a phase between the items that it asks for.
LEMMA AtRest ==
  ASSUME Base, pc \in {"begin", "exports", "routes", "domains"}
  PROVE  stage = NoStage /\ route = NoRoute /\ api # NoApi /\ pc \notin Listing \cup Converting
BY DEF Base, Control, InStage, InRoute, Converting, Listing

LEMMA ConvertedStages ==
  ASSUME Base, ListStages
  PROVE  /\ pc = "begin" /\ Begun("stages") /\ api # NoApi /\ api \in Apis
         /\ phase' = phase + 1 /\ phase' \in 1 .. 5 /\ links' = <<>>
         /\ UNCHANGED <<present, pc, listing, api, todo, converting, reported>>
         /\ \E got \in SUBSET api.stages, failed \in BOOLEAN :
              /\ failed \/ got = api.stages
              /\ failed /\ api.version = "v1" => got = {}
              /\ errors' = errors \cup (IF failed THEN {<<"GetStages", api.name, "", "">>} ELSE {})
                                  \cup {<<"stage", api.name, s.name, "">> : s \in {t \in got : ~t.valid}}
                                  \cup {<<"settings", api.name, s.name, "">> : s \in {t \in got : t.valid /\ ~t.settings}}
              /\ built' = [built EXCEPT !.listed = Cardinality(got),
                                        !.stages = {[name |-> s.name, of |-> s, url |-> "none", routes |-> {}] :
                                                      s \in {t \in got : t.valid}}]
<1>1. pc = "begin" /\ phase <= 4 /\ Phases(api.version)[phase] = "stages" /\ links' = <<>>
  BY DEF ListStages, Begins
<1>2. api # NoApi /\ phase \in 1 .. 5 /\ api \in Apis
  BY <1>1, AtRest, CurrentApi DEF Base
<1>3. phase' = phase + 1 /\ UNCHANGED <<present, pc, listing, api, todo, converting, reported>>
  BY DEF ListStages
<1>4. Begun("stages") /\ phase' \in 1 .. 5
  BY <1>1, <1>2, <1>3 DEF Begun
<1> QED
  BY <1>1, <1>2, <1>3, <1>4 DEF ListStages

LEMMA ListStagesBase ==
  ASSUME Base, ListStages PROVE Base'
<1>1. PICK got \in SUBSET api.stages, failed \in BOOLEAN :
        /\ failed \/ got = api.stages
        /\ failed /\ api.version = "v1" => got = {}
        /\ built' = [built EXCEPT !.listed = Cardinality(got),
                                  !.stages = {[name |-> s.name, of |-> s, url |-> "none", routes |-> {}] :
                                                s \in {t \in got : t.valid}}]
  BY ConvertedStages
<1>2. /\ pc = "begin" /\ Begun("stages") /\ api # NoApi /\ api \in Apis
      /\ phase' = phase + 1 /\ phase' \in 1 .. 5 /\ links' = <<>>
      /\ UNCHANGED <<present, pc, listing, api, todo, stage, next, route, payload, seen>>
  BY ConvertedStages DEF converting
<1>3. Places'
  BY <1>2, PlacesKept DEF Listing
<1>4. stage = NoStage /\ route = NoRoute /\ todo = {}
  BY <1>2, AtRest DEF Base, Control
<1>5. Control'
  BY <1>2, <1>4 DEF Base, Control, Listing, Gathering, Converting, listing
<1>6. InStage' /\ InRoute'
  BY <1>2, <1>4 DEF Base, InStage, InRoute, RouteShape, Converting
<1>7. DEFINE kept == {[name |-> s.name, of |-> s, url |-> "none", routes |-> {}] : s \in {t \in got : t.valid}}
<1>8. /\ built'.listed = Cardinality(got) /\ built'.stages = kept
      /\ built' = [stages |-> built'.stages, listed |-> built'.listed, routes |-> built'.routes,
                   complete |-> built'.complete, certificates |-> built'.certificates]
  BY <1>1 DEF Base, Shape
<1>9. \A b \in kept : b = [name |-> b.of.name, of |-> b.of, url |-> b.url, routes |-> b.routes] /\ b.of \in api.stages
  OBVIOUS
<1>10. Shape'
  BY <1>2, <1>8, <1>9 DEF Shape
<1>11. Counted'
  <2>1. IsFiniteSet(api.stages) /\ api.version \in {"v1", "v2"}
    BY <1>2, ApiFields
  <2>2. Cardinality(got) \in Nat /\ Cardinality(api.stages) \in Nat /\ Cardinality(got) <= Cardinality(api.stages)
    BY <1>1, <2>1, FS_Subset, FS_CardinalityType
  <2>3. Cardinality({}) = 0
    BY FS_EmptySet
  <2>4. api.version = "v1" => Cardinality(got) \in {0, Cardinality(api.stages)}
    BY <1>1, <2>3
  <2> QED
    BY <1>2, <1>8, <2>2, <2>4 DEF Counted
<1>12. Asked'
  BY <1>2, <1>4 DEF Asked
<1> QED
  BY <1>3, <1>5, <1>6, <1>10, <1>11, <1>12 DEF Base

\* Exports, routes and domains are listed in the same way.
LEMMA PhaseBegins ==
  ASSUME Base, NEW p, Begins(p)
  PROVE  pc = "begin" /\ Begun(p) /\ api # NoApi /\ api \in Apis /\ stage = NoStage /\ route = NoRoute /\ todo = {}
<1>1. pc = "begin" /\ phase <= 4 /\ Phases(api.version)[phase] = p
  BY DEF Begins
<1>2. api # NoApi /\ phase \in 1 .. 5 /\ api \in Apis /\ stage = NoStage /\ route = NoRoute
  BY <1>1, AtRest, CurrentApi DEF Base
<1> QED
  BY <1>1, <1>2 DEF Begun, Base, Control

LEMMA BeginsBase ==
  ASSUME Base, Shape', Counted', Asked',
         \/ Begins("exports") /\ pc' = "exports"
         \/ Begins("routes") /\ pc' = "routes"
         \/ Begins("certificates") /\ pc' = "domains",
         UNCHANGED <<present, listing, api, phase, converting>>
  PROVE  Base'
<1>1. /\ pc = "begin" /\ api # NoApi /\ stage = NoStage /\ route = NoRoute /\ links' = <<>>
      /\ pc' \in {"exports", "routes", "domains"}
      /\ pc' = "exports" => Begun("exports")
      /\ pc' = "routes" => Begun("routes")
      /\ pc' = "domains" => Begun("certificates")
  BY PhaseBegins DEF Begins
<1>2. UNCHANGED <<present, undelivered, api, phase, stage, next, route, payload, seen>>
  BY DEF listing, converting
<1>3. Places'
  BY <1>1, PlacesKept DEF Listing
<1>4. \A p : Begun(p)' <=> Begun(p)
  BY <1>2, SamePhase
<1>5. Control'
  BY <1>1, <1>2, <1>4 DEF Base, Control, Listing, Gathering, Converting
<1>6. InStage' /\ InRoute'
  BY <1>1, <1>2 DEF Base, InStage, InRoute, RouteShape, Converting
<1> QED
  BY <1>3, <1>5, <1>6 DEF Base

LEMMA BeginExportsBase ==
  ASSUME Base, BeginExports PROVE Base'
<1>1. /\ Begins("exports") /\ pc' = "exports" /\ todo' = {s.of : s \in built.stages}
      /\ UNCHANGED <<present, listing, api, phase, converting, built>>
  BY DEF BeginExports
<1>2. Shape' /\ Counted'
  BY <1>1, BuiltKept
<1>3. Asked'
  <2>1. Begun("exports") /\ ~Begun("routes") /\ api # NoApi
    BY <1>1, PhaseBegins, BegunOnce DEF Base
  <2>2. ~Begun("routes")'
    BY <1>1, <2>1, SamePhase
  <2>3. todo' \subseteq api.stages
    BY <1>1 DEF Base, Shape
  <2> QED
    BY <1>1, <2>2, <2>3 DEF Asked
<1> QED
  BY <1>1, <1>2, <1>3, BeginsBase

LEMMA ListRoutesBase ==
  ASSUME Base, ListRoutes PROVE Base'
<1>1. PICK failed \in BOOLEAN : Lists(api.routes, "GetRoutes", failed) /\ built' = [built EXCEPT !.complete = ~failed]
  BY DEF ListRoutes
<1>2. /\ Begins("routes") /\ pc' = "routes" /\ todo' \subseteq api.routes
      /\ UNCHANGED <<present, listing, api, phase, converting>>
  BY <1>1 DEF ListRoutes, Lists
<1>3. Shape'
  <2>2. /\ built' = [stages |-> built'.stages, listed |-> built'.listed, routes |-> built'.routes,
                   complete |-> built'.complete, certificates |-> built'.certificates]
        /\ built'.stages = built.stages
    BY <1>1 DEF Base, Shape
  <2> QED
    BY <1>2, <2>2 DEF Base, Shape
<1>4. Counted'
  BY <1>1, <1>2 DEF Base, Shape, Counted
<1>5. Asked'
  <2>1. Begun("routes") /\ ~Begun("exports") /\ api # NoApi
    BY <1>2, PhaseBegins, BegunOnce DEF Base
  <2>2. ~Begun("exports")'
    BY <1>2, <2>1, SamePhase
  <2> QED
    BY <1>2, <2>2 DEF Asked
<1> QED
  BY <1>2, <1>3, <1>4, <1>5, BeginsBase

LEMMA ListDomainsBase ==
  ASSUME Base, ListDomains PROVE Base'
<1>1. /\ Begins("certificates") /\ pc' = "domains"
      /\ UNCHANGED <<present, listing, api, phase, converting, built>>
  BY DEF ListDomains
<1>2. Shape' /\ Counted'
  BY <1>1, BuiltKept
<1>3. Asked'
  <2>1. Begun("certificates") /\ ~Begun("routes") /\ ~Begun("exports")
    BY <1>1, PhaseBegins, BegunOnce DEF Base
  <2>2. ~Begun("routes")' /\ ~Begun("exports")'
    BY <1>1, <2>1, SamePhase
  <2> QED
    BY <2>2 DEF Asked
<1> QED
  BY <1>1, <1>2, <1>3, BeginsBase

LEMMA PhaseDoneFacts ==
  ASSUME Base, PhaseDone
  PROVE  /\ api # NoApi /\ stage = NoStage /\ route = NoRoute /\ todo = {} /\ pc' = "begin"
         /\ pc \in {"exports", "routes", "domains"}
         /\ pc = "exports" => Begun("exports")
         /\ pc = "routes" => Begun("routes")
         /\ pc = "domains" => Begun("certificates")
         /\ phase' = phase + 1 /\ phase' \in 1 .. 5
<1>1. pc \in {"exports", "routes", "domains"} /\ todo = {} /\ pc' = "begin" /\ phase' = phase + 1
  BY DEF PhaseDone
<1>2. stage = NoStage /\ route = NoRoute /\ api # NoApi
  BY <1>1, AtRest
<1>3. /\ pc = "exports" => Begun("exports")
      /\ pc = "routes" => Begun("routes")
      /\ pc = "domains" => Begun("certificates")
  BY <1>1 DEF Base, Control
<1>4. phase \in 1 .. 4
  BY <1>1, <1>3 DEF Begun
<1> QED
  BY <1>1, <1>2, <1>3, <1>4

LEMMA PhaseDoneBase ==
  ASSUME Base, PhaseDone PROVE Base'
<1>1. /\ UNCHANGED <<present, undelivered, listing, api, todo, stage, next, route, payload, seen, built>> /\ links' = <<>>
  BY DEF PhaseDone, converting, listing
<1>2. Places'
  BY <1>1, PhaseDoneFacts, PlacesKept DEF Listing
<1>3. Control'
  BY <1>1, PhaseDoneFacts DEF Base, Control, Listing, Gathering, Converting
<1>4. InStage' /\ InRoute'
  BY <1>1, PhaseDoneFacts DEF Base, InStage, InRoute, RouteShape, Converting
<1>5. Shape' /\ Counted'
  BY <1>1, BuiltKept
<1>6. Asked'
  BY <1>1, PhaseDoneFacts DEF Asked
<1> QED
  BY <1>2, <1>3, <1>4, <1>5, <1>6 DEF Base

----------------------------------------------------------------------------
(***************************************************************************)
(* Control, for the exports of stages.                                     *)
(***************************************************************************)
LEMMA Updated ==
  ASSUME Base, NEW s, NEW url, NEW routes, Update(s, url, routes), UNCHANGED api
  PROVE  /\ Shape' /\ Counted'
         /\ built'.routes = built.routes /\ built'.complete = built.complete /\ built'.listed = built.listed
         /\ built'.certificates = built.certificates
         /\ \A b \in built.stages : \E c \in built'.stages : c.of = b.of
         /\ \A c \in built'.stages : \E b \in built.stages :
              c.of = b.of /\ c.routes = IF b.of = s THEN b.routes \cup routes ELSE b.routes
<1> DEFINE New(t) == IF t.of = s THEN [t EXCEPT !.url = IF url = "" THEN @ ELSE url, !.routes = @ \cup routes] ELSE t
<1>1. built' = [built EXCEPT !.stages = {New(t) : t \in built.stages}]
  BY DEF Update
<1>2. /\ built = [stages |-> built.stages, listed |-> built.listed, routes |-> built.routes,
                  complete |-> built.complete, certificates |-> built.certificates]
      /\ \A b \in built.stages : b = [name |-> b.of.name, of |-> b.of, url |-> b.url, routes |-> b.routes]
      /\ \A b \in built.stages : api # NoApi /\ b.of \in api.stages
  BY DEF Base, Shape
<1>3. /\ built'.stages = {New(t) : t \in built.stages}
      /\ built'.routes = built.routes /\ built'.complete = built.complete /\ built'.listed = built.listed
      /\ built'.certificates = built.certificates
      /\ built' = [stages |-> built'.stages, listed |-> built'.listed, routes |-> built'.routes,
                   complete |-> built'.complete, certificates |-> built'.certificates]
  BY <1>1, <1>2
<1>4. ASSUME NEW b \in built.stages
      PROVE  /\ New(b).of = b.of
             /\ New(b).routes = IF b.of = s THEN b.routes \cup routes ELSE b.routes
             /\ New(b) = [name |-> New(b).of.name, of |-> New(b).of, url |-> New(b).url, routes |-> New(b).routes]
  <2>1. b = [name |-> b.of.name, of |-> b.of, url |-> b.url, routes |-> b.routes]
    BY <1>2
  <2>2. CASE b.of = s
    <3>1. PICK c : c = New(b)
      OBVIOUS
    <3>2. c = [b EXCEPT !.url = IF url = "" THEN @ ELSE url, !.routes = @ \cup routes]
      BY <2>2, <3>1
    <3>3. /\ c.of = b.of /\ c.routes = b.routes \cup routes
          /\ c = [name |-> c.of.name, of |-> c.of, url |-> c.url, routes |-> c.routes]
      <4>1. PICK u, o, n, w : b = [name |-> n, of |-> o, url |-> u, routes |-> w]
        BY <2>1
      <4>2. b.name = n /\ b.of = o /\ b.url = u /\ b.routes = w /\ n = o.name
        BY <2>1, <4>1
      <4>3. PICK v : c = [name |-> n, of |-> o, url |-> v, routes |-> w \cup routes]
        BY <3>2, <4>1
      <4> QED
        BY <4>2, <4>3
    <3> HIDE DEF New
    <3> QED
      BY <2>2, <3>1, <3>3
  <2>3. CASE b.of # s
    BY <2>1, <2>3
  <2> QED
    BY <2>2, <2>3
<1> HIDE DEF New
<1>5. \A b \in built.stages : \E c \in built'.stages : c.of = b.of
  BY <1>3, <1>4
<1>6. \A c \in built'.stages : \E b \in built.stages :
        c.of = b.of /\ c.routes = IF b.of = s THEN b.routes \cup routes ELSE b.routes
  BY <1>3, <1>4
<1>7. \A c \in built'.stages : c = [name |-> c.of.name, of |-> c.of, url |-> c.url, routes |-> c.routes]
  BY <1>3, <1>4
<1>8. Shape'
  <2>1. \A c \in built'.stages : api # NoApi /\ c.of \in api.stages
    BY <1>2, <1>6
  <2> QED
    BY <1>3, <1>7, <2>1 DEF Shape
<1>9. Counted'
  BY <1>3 DEF Base, Counted
<1> QED
  BY <1>3, <1>5, <1>6, <1>8, <1>9

LEMMA Moves ==
  ASSUME Base, UNCHANGED <<present, listing, api, phase>>, api # NoApi, todo' \subseteq todo,
         pc' \in Converting \cup {"exports", "operations", "routes", "domains"},
         pc' \in {"exports", "operations"} => Begun("exports"),
         pc' = "routes" => Begun("routes"),
         pc' = "domains" => Begun("certificates"),
         pc' \in Converting => IF stage' = NoStage THEN pc' # "reference" /\ Begun("routes") ELSE Begun("exports")
  PROVE  Places' /\ Control' /\ Asked'
<1>1. \A p : Begun(p)' <=> Begun(p)
  BY SamePhase
<1>2. Places'
  BY PlacesKept DEF Converting, Listing
<1>3. Control'
  BY <1>1 DEF Base, Control, listing, Converting, Listing, Gathering
<1>4. Asked'
  BY <1>1 DEF Base, Asked
<1> QED
  BY <1>2, <1>3, <1>4

LEMMA ExportsFacts ==
  ASSUME Base, pc = "exports"
  PROVE  /\ Begun("exports") /\ api # NoApi /\ stage = NoStage /\ route = NoRoute
         /\ \A s \in todo : s \in api.stages /\ s # NoStage /\ IsDocument(s.document)
         /\ \A s \in todo : Len(s.document.operations) \in Nat /\ DOMAIN s.document.operations = 1 .. Len(s.document.operations)
<1>1. Begun("exports") /\ stage = NoStage /\ route = NoRoute /\ api # NoApi
  BY AtRest DEF Base, Control
<1>2. api \in Apis /\ todo \subseteq api.stages
  BY <1>1, CurrentApi DEF Base, Asked
<1>3. \A s \in todo : s \in api.stages /\ s # NoStage /\ IsDocument(s.document)
  BY <1>2, ApiFields
<1>4. \A s \in todo : Len(s.document.operations) \in Nat /\ DOMAIN s.document.operations = 1 .. Len(s.document.operations)
  BY <1>3, SequenceFields DEF IsDocument
<1> QED
  BY <1>1, <1>3, <1>4

LEMMA ExportFailsBase ==
  ASSUME Base, ExportFails PROVE Base'
<1>1. PICK s \in todo : todo' = todo \ {s}
  BY DEF ExportFails
<1>2. pc = "exports" /\ UNCHANGED <<present, pc, listing, api, phase, stage, next, route, payload, seen, links, built>>
  BY DEF ExportFails, converting
<1>3. Places' /\ Control' /\ Asked'
  BY <1>1, <1>2, ExportsFacts, Moves DEF Converting
<1>4. InStage' /\ InRoute' /\ Shape' /\ Counted'
  BY <1>2, ExportsFacts, RouteKept, BuiltKept DEF InStage
<1> QED
  BY <1>3, <1>4 DEF Base

LEMMA ExportStageFacts ==
  ASSUME Base, ExportStage
  PROVE  /\ pc = "exports" /\ UNCHANGED <<present, listing, api, phase, route, payload, seen, links, reported>>
         /\ \E s \in todo :
              /\ todo' = todo \ {s}
              /\ \/ /\ ~s.document.valid /\ Tell("document", s.name, "")
                    /\ UNCHANGED <<pc, stage, next, built>>
                 \/ /\ pc' = "operations" /\ stage' = s /\ next' = 1
                    /\ TellIf(s.document.server = "open", "url", s.name, "")
                    /\ \E url : Update(s, url, {})
BY DEF ExportStage

LEMMA ExportStageBase ==
  ASSUME Base, ExportStage PROVE Base'
<1>1. pc = "exports" /\ UNCHANGED <<present, listing, api, phase, route, payload, seen, links>>
  BY ExportStageFacts
<1>2. PICK s \in todo :
        /\ todo' = todo \ {s}
        /\ \/ UNCHANGED <<pc, stage, next, built>>
           \/ pc' = "operations" /\ stage' = s /\ next' = 1 /\ \E url : Update(s, url, {})
  BY ExportStageFacts
<1>3. Places' /\ Control' /\ Asked'
  BY <1>1, <1>2, ExportsFacts, Moves DEF Converting
<1>4. InRoute'
  BY <1>1, <1>2, RouteKept DEF Converting
<1>5. CASE UNCHANGED <<pc, stage, next, built>>
  <2>1. InStage' /\ Shape' /\ Counted'
    BY <1>1, <1>5, ExportsFacts, BuiltKept DEF InStage
  <2> QED
    BY <1>3, <1>4, <2>1 DEF Base
<1>6. CASE pc' = "operations" /\ stage' = s /\ next' = 1 /\ \E url : Update(s, url, {})
  <2>1. Shape' /\ Counted'
    BY <1>1, <1>6, Updated
  <2>2. InStage'
    BY <1>1, <1>2, <1>6, ExportsFacts DEF InStage, Converting, Document
  <2> QED
    BY <1>3, <1>4, <2>1, <2>2 DEF Base
<1> QED
  BY <1>2, <1>5, <1>6

LEMMA StageFacts ==
  ASSUME Base, stage # NoStage
  PROVE  /\ api # NoApi /\ Begun("exports") /\ stage \in api.stages /\ IsDocument(Document)
         /\ Len(Document.operations) \in Nat /\ DOMAIN Document.operations = 1 .. Len(Document.operations)
         /\ next \in 1 .. Len(Document.operations) + 1
         /\ pc \in {"operations"} \cup Converting
<1>1. /\ pc \in {"operations"} \cup Converting /\ stage \in api.stages
      /\ next \in 1 .. Len(Document.operations) + 1
  BY DEF Base, InStage
<1>2. api # NoApi /\ Begun("exports")
  BY <1>1 DEF Base, Control, Listing, Converting
<1>3. IsDocument(Document)
  BY <1>1, <1>2, CurrentApi, ApiFields DEF Base, Document
<1>4. Len(Document.operations) \in Nat /\ DOMAIN Document.operations = 1 .. Len(Document.operations)
  BY <1>3, SequenceFields DEF IsDocument
<1> QED
  BY <1>1, <1>2, <1>3, <1>4

LEMMA OperationsFacts ==
  ASSUME Base, pc = "operations"
  PROVE  stage # NoStage /\ route = NoRoute
BY DEF Base, InStage, InRoute, Converting

LEMMA SkipOperationBase ==
  ASSUME Base, SkipOperation PROVE Base'
<1>1. /\ pc = "operations" /\ next <= Len(Document.operations) /\ next' = next + 1
      /\ UNCHANGED <<present, pc, listing, api, phase, todo, stage, route, payload, seen, links, built>>
  BY DEF SkipOperation
<1>2. Places' /\ Control' /\ Asked'
  BY <1>1, OperationsFacts, StageFacts, Moves DEF Converting
<1>3. InRoute' /\ Shape' /\ Counted'
  BY <1>1, RouteKept, BuiltKept
<1>4. InStage'
  BY <1>1, OperationsFacts, StageFacts DEF InStage, Base, Document, Converting
<1> QED
  BY <1>2, <1>3, <1>4 DEF Base

LEMMA BeginOperationFacts ==
  ASSUME Base, BeginOperation
  PROVE  /\ pc = "operations" /\ pc' = "reference" /\ stage # NoStage
         /\ next \in DOMAIN Document.operations /\ Operation.valid
         /\ payload' = Operation.integration
         /\ UNCHANGED <<present, listing, api, phase, todo, stage, next, links, built, reported>>
         /\ LET security == EffectiveSecurity(Document, Operation)
                known == Representable(Document, security)
                access == IF known THEN Authorization(Document, security) ELSE Unknown
            IN /\ route' = NewRoute(Operation.name, access)
               /\ TellIf(~known, "authorization", stage.name, Operation.name)
<1>1. pc = "operations" /\ next <= Len(Document.operations)
  BY DEF BeginOperation
<1>2. next \in DOMAIN Document.operations /\ stage # NoStage
  BY <1>1, OperationsFacts, StageFacts
<1> QED
  BY <1>1, <1>2 DEF BeginOperation

LEMMA NewRouteFacts ==
  ASSUME NEW name, NEW access
  PROVE  LET r == NewRoute(name, access) IN
         /\ r = [name |-> r.name, auth |-> r.auth, key |-> r.key, backend |-> r.backend,
                 balancers |-> r.balancers, role |-> r.role]
         /\ r.name = name /\ r.auth = access.auth /\ r.key = access.key
BY DEF NewRoute

LEMMA RouteOrNone ==
  ASSUME NEW r, r = [name |-> r.name, auth |-> r.auth, key |-> r.key, backend |-> r.backend,
                     balancers |-> r.balancers, role |-> r.role]
  PROVE  r # NoRoute
<1>1. "name" \in DOMAIN r
  OBVIOUS
<1>2. "name" \notin DOMAIN <<>>
  OBVIOUS
<1> QED
  BY <1>1, <1>2 DEF NoRoute

LEMMA BeginOperationBase ==
  ASSUME Base, BeginOperation PROVE Base'
<1>1. /\ pc = "operations" /\ pc' = "reference" /\ stage # NoStage
      /\ next \in DOMAIN Document.operations /\ Operation.valid
      /\ UNCHANGED <<present, listing, api, phase, todo, stage, next, links, built>>
  BY BeginOperationFacts
<1>2. PICK access : route' = NewRoute(Operation.name, access)
  BY BeginOperationFacts
<1>3. Places' /\ Control' /\ Asked'
  BY <1>1, StageFacts, Moves DEF Converting
<1>4. RouteShape' /\ route'.name = Operation.name /\ route' # NoRoute
  BY <1>2, NewRouteFacts, RouteOrNone DEF RouteShape
<1>5. InRoute'
  BY <1>1, <1>4 DEF Base, InRoute, Converting
<1>6. InStage'
  BY <1>1, <1>4 DEF Base, InStage, Converting, Document, Operation
<1>7. Shape' /\ Counted'
  BY <1>1, BuiltKept
<1> QED
  BY <1>3, <1>5, <1>6, <1>7 DEF Base

LEMMA OperationsDoneBase ==
  ASSUME Base, OperationsDone PROVE Base'
<1>1. /\ pc = "operations" /\ pc' = "exports" /\ stage' = NoStage
      /\ UNCHANGED <<present, listing, api, phase, todo, route, payload, seen, links, built>>
  BY DEF OperationsDone
<1>2. Places' /\ Control' /\ Asked'
  BY <1>1, OperationsFacts, StageFacts, Moves DEF Converting
<1>3. InRoute' /\ Shape' /\ Counted' /\ InStage'
  BY <1>1, RouteKept, BuiltKept DEF Converting, InStage
<1> QED
  BY <1>2, <1>3 DEF Base

----------------------------------------------------------------------------
(***************************************************************************)
(* Control, for the routes and their integrations.                         *)
(***************************************************************************)
LEMMA ConvertingFacts ==
  ASSUME Base, pc \in Converting
  PROVE  /\ api # NoApi /\ route # NoRoute /\ RouteShape
         /\ IF stage = NoStage THEN pc # "reference" /\ Begun("routes") ELSE Begun("exports")
         /\ stage # NoStage => /\ next \in DOMAIN Document.operations
                               /\ Operation.valid /\ route.name = Operation.name
BY DEF Base, Control, InStage, InRoute, Converting, Listing

\* Only the integration is looked into.
LEMMA LookBase ==
  ASSUME Base, pc \in Converting, pc' \in Converting, pc = "reference",
         UNCHANGED <<present, listing, api, phase, todo, stage, next, route, links, built>>
  PROVE  Base'
<1>1. Places' /\ Control' /\ Asked'
  BY ConvertingFacts, Moves DEF Converting
<1>2. InRoute' /\ Shape' /\ Counted'
  BY RouteKept, BuiltKept
<1>3. InStage'
  BY DEF Base, InStage, Document, Operation, Converting
<1> QED
  BY <1>1, <1>2, <1>3 DEF Base

LEMMA ReferenceBase ==
  ASSUME Base, FollowReference \/ IntegrationMissing \/ IntegrationFound
  PROVE  Base'
<1>1. /\ pc = "reference" /\ pc' \in Converting
      /\ UNCHANGED <<present, listing, api, phase, todo, stage, next, route, links, built>>
  BY DEF FollowReference, IntegrationMissing, IntegrationFound, Converting, converting
<1> QED
  BY <1>1, LookBase DEF Converting

LEMMA Finished ==
  ASSUME Base, pc = "backend", NEW backend, NEW balancers, NEW told, FinishRoute(backend, balancers, told)
  PROVE  /\ pc' = "append" /\ RouteShape' /\ route' # NoRoute
         /\ route'.name = route.name /\ route'.auth = route.auth /\ route'.key = route.key
         /\ route'.backend = backend /\ route'.balancers = balancers
         /\ errors \subseteq errors'
         /\ told => <<"backend", api.name, StageName, route.name>> \in errors'
<1>1. RouteShape
  BY ConvertingFacts DEF Converting
<1>2. /\ route' = [route EXCEPT !.backend = backend, !.balancers = balancers, !.role = RoleOf(payload)]
      /\ pc' = "append"
  BY DEF FinishRoute
<1>3. PICK a, b, c, d, e, f :
        route = [name |-> a, auth |-> b, key |-> c, backend |-> d, balancers |-> e, role |-> f]
  BY <1>1 DEF RouteShape
<1>4. PICK g : route' = [name |-> a, auth |-> b, key |-> c, backend |-> backend, balancers |-> balancers, role |-> g]
  BY <1>2, <1>3
<1>5. RouteShape' /\ route'.name = route.name /\ route'.auth = route.auth /\ route'.key = route.key
      /\ route'.backend = backend /\ route'.balancers = balancers
  BY <1>3, <1>4 DEF RouteShape
<1>6. route' # NoRoute
  BY <1>5, RouteOrNone DEF RouteShape
<1>7. errors \subseteq errors' /\ (told => <<"backend", api.name, StageName, route.name>> \in errors')
  BY DEF FinishRoute
<1> QED
  BY <1>2, <1>5, <1>6, <1>7

\* However the link was looked up, the route is finished, and what is remembered
\* of links is true.
LEMMA ConvertFacts ==
  ASSUME Base, Convert \/ ConvertLink
  PROVE  /\ pc = "backend" /\ UNCHANGED <<present, listing, api, phase, todo, stage, next, payload, seen, built, reported>>
         /\ DOMAIN links' \subseteq DOMAIN Links
         /\ \A l \in DOMAIN links' : links'[l] = Links[l]
         /\ \E backend, balancers, told :
              /\ FinishRoute(backend, balancers, told)
              /\ \/ told
                 \/ backend = <<"vpc_link", payload.connection>> /\ balancers = Links[payload.connection]
                 \/ backend = Converted /\ backend # NoBackend /\ balancers = {} /\ ~ByLinkCall
<1>1. DOMAIN links \subseteq DOMAIN Links /\ \A l \in DOMAIN links : links[l] = Links[l]
  BY DEF Base, InRoute
<1>2. CASE Convert
  <2>1. FinishRoute(Converted, {}, Converted = NoBackend) /\ ~ByLinkCall /\ UNCHANGED links
    BY <1>2 DEF Convert
  <2>2. pc = "backend" /\ UNCHANGED <<present, listing, api, phase, todo, stage, next, payload, seen, built, reported>>
    BY <1>2 DEF Convert
  <2>3. \E backend, balancers, told :
              /\ FinishRoute(backend, balancers, told)
              /\ \/ told
                 \/ backend = Converted /\ backend # NoBackend /\ balancers = {} /\ ~ByLinkCall
    BY <2>1
  <2> QED
    BY <1>1, <2>1, <2>2, <2>3
<1>3. CASE ConvertLink
  <2>1. pc = "backend" /\ UNCHANGED <<present, listing, api, phase, todo, stage, next, payload, seen, built, reported>>
    BY <1>3 DEF ConvertLink
  <2> DEFINE link == payload.connection
  <2>2. \/ FinishRoute(NoBackend, {}, TRUE) /\ UNCHANGED links
        \/ link \in DOMAIN links /\ FinishRoute(<<"vpc_link", link>>, links[link], FALSE) /\ UNCHANGED links
        \/ /\ link \in DOMAIN Links
           /\ links' = [l \in DOMAIN links \cup {link} |-> Links[l]]
           /\ FinishRoute(<<"vpc_link", link>>, Links[link], FALSE)
        \/ FinishRoute(IF stage = NoStage THEN <<"vpc_link", link>> ELSE NoBackend, {}, TRUE) /\ UNCHANGED links
    BY <1>3 DEF ConvertLink
  <2>3. CASE FinishRoute(NoBackend, {}, TRUE) /\ UNCHANGED links
    BY <1>1, <2>1, <2>3
  <2>4. CASE link \in DOMAIN links /\ FinishRoute(<<"vpc_link", link>>, links[link], FALSE) /\ UNCHANGED links
    <3>1. FinishRoute(<<"vpc_link", link>>, Links[link], FALSE)
      BY <1>1, <2>4
    <3> QED
      BY <1>1, <2>1, <2>4, <3>1
  <2>5. CASE /\ link \in DOMAIN Links
             /\ links' = [l \in DOMAIN links \cup {link} |-> Links[l]]
             /\ FinishRoute(<<"vpc_link", link>>, Links[link], FALSE)
    BY <1>1, <2>1, <2>5
  <2>6. CASE FinishRoute(IF stage = NoStage THEN <<"vpc_link", link>> ELSE NoBackend, {}, TRUE) /\ UNCHANGED links
    BY <1>1, <2>1, <2>6
  <2> QED
    BY <2>2, <2>3, <2>4, <2>5, <2>6
<1> QED
  BY <1>2, <1>3

LEMMA ConvertBase ==
  ASSUME Base, Convert \/ ConvertLink PROVE Base'
<1>1. /\ pc = "backend" /\ UNCHANGED <<present, listing, api, phase, todo, stage, next, built>>
      /\ DOMAIN links' \subseteq DOMAIN Links
      /\ \A l \in DOMAIN links' : links'[l] = Links[l]
  BY ConvertFacts
<1>2. pc' = "append" /\ RouteShape' /\ route' # NoRoute /\ route'.name = route.name
  BY ConvertFacts, Finished
<1>3. Places' /\ Control' /\ Asked'
  BY <1>1, <1>2, ConvertingFacts, Moves DEF Converting
<1>4. InRoute'
  BY <1>1, <1>2 DEF InRoute, Converting
<1>5. InStage'
  BY <1>1, <1>2 DEF Base, InStage, Document, Operation, Converting
<1>6. Shape' /\ Counted'
  BY <1>1, BuiltKept
<1> QED
  BY <1>3, <1>4, <1>5, <1>6 DEF Base

LEMMA RoutesFacts ==
  ASSUME Base, pc = "routes"
  PROVE  /\ Begun("routes") /\ api # NoApi /\ stage = NoStage /\ route = NoRoute /\ todo \subseteq api.routes
BY AtRest DEF Base, Control, Asked

LEMMA RouteFailsBase ==
  ASSUME Base, RouteFails PROVE Base'
<1>1. PICK r \in todo : todo' = todo \ {r}
  BY DEF RouteFails
<1>2. /\ pc = "routes" /\ built' = [built EXCEPT !.complete = FALSE]
      /\ UNCHANGED <<present, pc, listing, api, phase, stage, next, route, payload, seen, links>>
  BY DEF RouteFails, converting
<1>3. Places' /\ Control' /\ Asked'
  BY <1>1, <1>2, RoutesFacts, Moves DEF Converting
<1>4. InStage' /\ InRoute'
  BY <1>2, RoutesFacts, RouteKept DEF InStage
<1>5. Shape' /\ Counted'
  BY <1>2 DEF Base, Shape, Counted
<1> QED
  BY <1>3, <1>4, <1>5 DEF Base

LEMMA AskRouteFacts ==
  ASSUME Base, AskRoute
  PROVE  /\ pc = "routes" /\ UNCHANGED <<present, listing, api, phase, stage, next, seen, links, built, reported>>
         /\ route' # NoRoute /\ RouteShape'
         /\ \E r \in todo :
              /\ todo' = todo \ {r} /\ route'.name = r.name /\ route'.key \in {r.key, "unknown"}
              /\ \/ r.integration = Invalid /\ pc' = "append" /\ UNCHANGED errors
                 \/ pc' = "backend" /\ payload' = r.integration /\ UNCHANGED errors
                 \/ pc' = "append" /\ Tell("integration", "", r.name)
<1>1. pc = "routes" /\ UNCHANGED <<present, listing, api, phase, stage, next, seen, links, built, reported>>
  BY DEF AskRoute
<1>2. PICK r \in todo :
              /\ todo' = todo \ {r}
              /\ \E access : route' = NewRoute(r.name, access) /\ access.key \in {r.key, "unknown"}
              /\ \/ r.integration = Invalid /\ pc' = "append" /\ UNCHANGED errors
                 \/ pc' = "backend" /\ payload' = r.integration /\ UNCHANGED errors
                 \/ pc' = "append" /\ Tell("integration", "", r.name)
  <2>1. PICK r \in todo :
       /\ todo' = todo \ {r}
       /\ route' = NewRoute(r.name,
            [auth |-> IF r.auth \in (IF api.version = "v1" THEN Methods \ {"JWT"}
                                     ELSE {"NONE", "AWS_IAM", "JWT"}) THEN r.auth ELSE "unknown",
             key |-> IF api.version = "v1" THEN r.key ELSE "unknown"])
       /\ IF r.integration = Invalid
          THEN pc' = "append" /\ UNCHANGED <<payload, errors>>
          ELSE \/ pc' = "backend" /\ payload' = r.integration /\ UNCHANGED errors
               \/ /\ api.version = "v2" /\ pc' = "append"
                  /\ Tell("integration", "", r.name) /\ UNCHANGED payload
    BY DEF AskRoute
  <2>2. \E access : route' = NewRoute(r.name, access) /\ access.key \in {r.key, "unknown"}
    <3>1. PICK a : route' = NewRoute(r.name, [auth |-> a, key |-> IF api.version = "v1" THEN r.key ELSE "unknown"])
      BY <2>1
    <3> QED
      BY <3>1
  <2> QED
    BY <2>1, <2>2
<1>3. route' # NoRoute /\ RouteShape' /\ route'.name = r.name /\ route'.key \in {r.key, "unknown"}
  <2>1. PICK access : route' = NewRoute(r.name, access) /\ access.key \in {r.key, "unknown"}
    BY <1>2
  <2>2. RouteShape' /\ route'.name = r.name /\ route'.key = access.key
    BY <2>1, NewRouteFacts DEF RouteShape
  <2>3. route' # NoRoute
    BY <2>2, RouteOrNone DEF RouteShape
  <2> QED
    BY <2>1, <2>2, <2>3
<1> QED
  BY <1>1, <1>2, <1>3

LEMMA AskRouteBase ==
  ASSUME Base, AskRoute PROVE Base'
<1>1. /\ pc = "routes" /\ UNCHANGED <<present, listing, api, phase, stage, next, seen, links, built>>
      /\ route' # NoRoute /\ RouteShape' /\ todo' \subseteq todo /\ pc' \in {"backend", "append"}
  BY AskRouteFacts
<1>2. Places' /\ Control' /\ Asked'
  BY <1>1, RoutesFacts, Moves DEF Converting
<1>3. InStage' /\ InRoute'
  BY <1>1, RoutesFacts DEF InStage, InRoute, Base, Converting
<1>4. Shape' /\ Counted'
  BY <1>1, BuiltKept
<1> QED
  BY <1>2, <1>3, <1>4 DEF Base

LEMMA AppendRouteBase ==
  ASSUME Base, AppendRoute PROVE Base'
<1>1. /\ pc = "append" /\ route' = NoRoute
      /\ UNCHANGED <<present, listing, api, phase, todo, stage, links>>
  BY DEF AppendRoute
<1>2. CASE stage = NoStage
  <2>1. built' = [built EXCEPT !.routes = @ \cup {route}] /\ pc' = "routes" /\ UNCHANGED next
    BY <1>2 DEF AppendRoute
  <2>2. Places' /\ Control' /\ Asked'
    BY <1>1, <1>2, <2>1, ConvertingFacts, Moves DEF Converting
  <2>3. InStage' /\ InRoute'
    BY <1>1, <1>2, <2>1 DEF InStage, InRoute, Base, Converting
  <2>4. Shape' /\ Counted'
    BY <1>1, <2>1 DEF Base, Shape, Counted
  <2> QED
    BY <2>2, <2>3, <2>4 DEF Base
<1>3. CASE stage # NoStage
  <2>1. Update(stage, "", {route}) /\ pc' = "operations" /\ next' = next + 1
    BY <1>3 DEF AppendRoute
  <2>2. Places' /\ Control' /\ Asked'
    BY <1>1, <1>3, <2>1, ConvertingFacts, Moves DEF Converting
  <2>3. InRoute'
    BY <1>1, <2>1 DEF InRoute, Base, Converting
  <2>4. Shape' /\ Counted'
    BY <1>1, <2>1, Updated
  <2>5. next \in DOMAIN Document.operations
    BY <1>1, <1>3, ConvertingFacts DEF Converting
  <2>7. next' \in 1 .. Len(Document.operations) + 1 /\ stage \in api.stages /\ stage \notin todo
    <3>1. Len(Document.operations) \in Nat /\ next \in 1 .. Len(Document.operations)
      BY <1>3, <2>5, StageFacts
    <3> DEFINE L == Len(Document.operations)
    <3> HIDE DEF L
    <3>3. next' = next + 1
      BY <2>1
    <3>4. L \in Nat /\ next \in 1 .. L
      BY <3>1 DEF L
    <3>5. next' \in 1 .. L + 1
      BY <3>3, <3>4
    <3>2. next' \in 1 .. Len(Document.operations) + 1
      BY <3>5 DEF L
    <3> QED
      BY <1>3, <3>2 DEF Base, InStage
  <2>6. InStage'
    BY <1>1, <1>3, <2>1, <2>7 DEF InStage, Document, Converting
  <2> QED
    BY <2>2, <2>3, <2>4, <2>6 DEF Base
<1> QED
  BY <1>2, <1>3

LEMMA AskDomainBase ==
  ASSUME Base, AskDomain PROVE Base'
<1>1. /\ pc = "domains" /\ todo' \subseteq todo
      /\ UNCHANGED <<present, pc, listing, api, phase, stage, next, route, payload, seen, links>>
      /\ \/ UNCHANGED built
         \/ \E d : built' = [built EXCEPT !.certificates = @ \cup {d}]
  BY DEF AskDomain, converting
<1>2. Begun("certificates") /\ api # NoApi /\ stage = NoStage /\ route = NoRoute
  BY <1>1, AtRest DEF Base, Control
<1>3. Places' /\ Control' /\ Asked'
  BY <1>1, <1>2, Moves DEF Converting
<1>4. InStage' /\ InRoute'
  BY <1>1, <1>2, RouteKept DEF InStage
<1>5. Shape' /\ Counted'
  BY <1>1, BuiltKept DEF Base, Shape, Counted
<1> QED
  BY <1>3, <1>4, <1>5 DEF Base

LEMMA AppendApiBase ==
  ASSUME Base, AppendApi PROVE Base'
<1>1. /\ pc = "begin" /\ pc' = "convert" /\ api' = NoApi /\ phase' = 0 /\ built' = Nothing
      /\ UNCHANGED <<present, turn, place, undelivered, more, queue, todo, stage, next, route, payload, seen, links>>
  BY DEF AppendApi, listing, converting
<1>2. stage = NoStage /\ route = NoRoute /\ todo = {}
  BY <1>1, AtRest DEF Base, Control
<1>3. Places'
  BY <1>1 DEF Base, Places
<1>4. Control'
  BY <1>1, <1>2 DEF Base, Control, Listing, Gathering, Converting
<1>5. InStage' /\ InRoute'
  BY <1>1, <1>2 DEF Base, InStage, InRoute, Converting
<1>6. Shape' /\ Counted' /\ Asked'
  BY <1>1, <1>2 DEF Shape, Counted, Asked, Nothing
<1> QED
  BY <1>3, <1>4, <1>5, <1>6 DEF Base

LEMMA NextBase ==
  ASSUME Base, [Next]_vars PROVE Base'
<1>1. CASE UNCHANGED vars
  BY <1>1 DEF Base, Places, Control, InStage, InRoute, RouteShape, Shape, Counted, Asked, Begun, Document, Operation,
              vars, listing, converting
<1>2. CASE \E x \in Apis : Reject(x) \/ Accept(x)
  BY <1>2, PagesBase, AcceptBase
<1> QED
  BY <1>1, <1>2, PagesBase, ListStagesBase, BeginExportsBase, ListRoutesBase, ListDomainsBase, PhaseDoneBase,
     ExportFailsBase, ExportStageBase, SkipOperationBase, BeginOperationBase, OperationsDoneBase, ReferenceBase,
     RouteFailsBase, AskRouteBase, ConvertBase, AppendRouteBase, AskDomainBase, AppendApiBase DEF Next, Returned

----------------------------------------------------------------------------
(***************************************************************************)
(* Delivery.                                                               *)
(***************************************************************************)
\* No error is taken back, and none of a listing of APIs is added.
ErrorsAdded ==
  errors \subseteq errors' /\ \A v, r : <<"list", v, r, "">> \in errors' => <<"list", v, r, "">> \in errors

LEMMA ErrorsKept ==
  ASSUME UNCHANGED errors PROVE ErrorsAdded
BY DEF ErrorsAdded

LEMMA ErrorsTold ==
  ASSUME NEW what, what # "list", NEW s, NEW subject, UNCHANGED errors \/ Tell(what, s, subject)
  PROVE  ErrorsAdded
BY DEF ErrorsAdded, Tell

LEMMA Tells ==
  ASSUME NEW what, NEW s, NEW subject, NEW condition, TellIf(condition, what, s, subject)
  PROVE  UNCHANGED errors \/ Tell(what, s, subject)
BY DEF TellIf

LEMMA StagesErrors ==
  ASSUME Base, ListStages PROVE ErrorsAdded
<1>1. PICK got \in SUBSET api.stages, failed \in BOOLEAN :
        errors' = errors \cup (IF failed THEN {<<"GetStages", api.name, "", "">>} ELSE {})
                         \cup {<<"stage", api.name, s.name, "">> : s \in {t \in got : ~t.valid}}
                         \cup {<<"settings", api.name, s.name, "">> : s \in {t \in got : t.valid /\ ~t.settings}}
  BY DEF ListStages
<1>2. \A v, r : /\ <<"list", v, r, "">> # <<"GetStages", api.name, "", "">>
                /\ <<"list", v, r, "">> \notin {<<"stage", api.name, s.name, "">> : s \in {t \in got : ~t.valid}}
                /\ <<"list", v, r, "">> \notin {<<"settings", api.name, s.name, "">> : s \in {t \in got : t.valid /\ ~t.settings}}
  OBVIOUS
<1> QED
  BY <1>1, <1>2 DEF ErrorsAdded

LEMMA WorkingErrors ==
  ASSUME Base, Working PROVE ErrorsAdded
<1>1. CASE ListStages
  BY <1>1, StagesErrors
<1>2. CASE BeginExports \/ PhaseDone \/ FollowReference \/ IntegrationFound \/ OperationsDone \/ AppendRoute
  BY <1>2, ErrorsKept DEF BeginExports, PhaseDone, FollowReference, IntegrationFound, OperationsDone, AppendRoute
<1>3. CASE ListRoutes \/ ListDomains
  <2>1. \E failed \in BOOLEAN : \E what \in {"GetRoutes", "GetDomainNames"} : TellIf(failed, what, "", "")
    BY <1>3 DEF ListRoutes, ListDomains, Lists
  <2> QED
    BY <2>1, ErrorsTold, Tells
<1>4. CASE ExportFails \/ SkipOperation \/ IntegrationMissing
  <2>1. \E s, subject : \E what \in {"export", "operation", "integration"} : Tell(what, s, subject)
    BY <1>4 DEF ExportFails, SkipOperation, IntegrationMissing
  <2> QED
    BY <2>1, ErrorsTold
<1>5. CASE ExportStage
  <2>1. \E s \in todo : Tell("document", s.name, "") \/ TellIf(s.document.server = "open", "url", s.name, "")
    BY <1>5, ExportStageFacts
  <2> QED
    BY <2>1, ErrorsTold, Tells
<1>6. CASE BeginOperation
  <2>1. UNCHANGED errors \/ Tell("authorization", stage.name, Operation.name)
    BY <1>6, BeginOperationFacts DEF TellIf
  <2> QED
    BY <2>1, ErrorsTold
<1>7. CASE RouteFails \/ AskRoute
  <2>1. UNCHANGED errors \/ \E s, subject : \E what \in {"route", "integration"} : Tell(what, s, subject)
    BY <1>7, AskRouteFacts DEF RouteFails
  <2> QED
    BY <2>1, ErrorsTold, ErrorsKept
<1>8. CASE Convert \/ ConvertLink
  <2>1. PICK backend, balancers, told : FinishRoute(backend, balancers, told)
    BY <1>8, ConvertFacts
  <2>2. errors' = errors \cup (IF told THEN {<<"backend", api.name, StageName, route.name>>} ELSE {})
                      \cup (IF RoleValid(payload) THEN {} ELSE {<<"role", api.name, StageName, route.name>>})
    BY <2>1 DEF FinishRoute
  <2> QED
    BY <2>2 DEF ErrorsAdded
<1>9. CASE AskDomain
  <2>1. \E condition, subject : TellIf(condition, "domain", "", subject)
    BY <1>9 DEF AskDomain
  <2>2. PICK condition, subject : TellIf(condition, "domain", "", subject)
    BY <2>1
  <2>3. UNCHANGED errors \/ Tell("domain", "", subject)
    BY <2>2 DEF TellIf
  <2> QED
    BY <2>3, ErrorsTold
<1> QED
  BY <1>1, <1>2, <1>3, <1>4, <1>5, <1>6, <1>7, <1>8, <1>9 DEF Working

LEMMA WorkingFrame ==
  ASSUME Base, Working
  PROVE  /\ UNCHANGED <<present, turn, place, undelivered, more, queue, api, reported>>
         /\ api # NoApi /\ pc \notin Listing /\ pc' \notin Listing
<1>1. UNCHANGED <<present, turn, place, undelivered, more, queue, api, reported>>
  <2>1. CASE ListStages \/ BeginExports \/ ListRoutes \/ ListDomains \/ PhaseDone
    BY <2>1 DEF listing, ListStages, BeginExports, ListRoutes, ListDomains, PhaseDone
  <2>2. CASE ExportFails \/ ExportStage \/ SkipOperation \/ BeginOperation \/ OperationsDone
    BY <2>2 DEF listing, ExportFails, ExportStage, SkipOperation, BeginOperation, OperationsDone
  <2>3. CASE FollowReference \/ IntegrationMissing \/ IntegrationFound
    BY <2>3 DEF listing, FollowReference, IntegrationMissing, IntegrationFound
  <2>4. CASE RouteFails \/ AskRoute \/ AppendRoute \/ AskDomain
    BY <2>4 DEF listing, RouteFails, AskRoute, AppendRoute, AskDomain
  <2>5. CASE Convert \/ ConvertLink
    BY <2>5 DEF listing, Convert, ConvertLink
  <2> QED
    BY <2>1, <2>2, <2>3, <2>4, <2>5 DEF Working
<1>2. pc \notin Listing
  <2>1. CASE ListStages \/ BeginExports \/ ListRoutes \/ ListDomains \/ PhaseDone
    BY <2>1 DEF Begins, ListStages, BeginExports, ListRoutes, ListDomains, PhaseDone, Listing
  <2>2. CASE ExportFails \/ ExportStage \/ SkipOperation \/ BeginOperation \/ OperationsDone
    BY <2>2 DEF ExportFails, ExportStage, SkipOperation, BeginOperation, OperationsDone, Listing
  <2>3. CASE FollowReference \/ IntegrationMissing \/ IntegrationFound
    BY <2>3 DEF FollowReference, IntegrationMissing, IntegrationFound, Listing
  <2>4. CASE RouteFails \/ AskRoute \/ AppendRoute \/ AskDomain
    BY <2>4 DEF RouteFails, AskRoute, AppendRoute, AskDomain, Listing
  <2>5. CASE Convert \/ ConvertLink
    BY <2>5 DEF Convert, ConvertLink, Listing
  <2> QED
    BY <2>1, <2>2, <2>3, <2>4, <2>5 DEF Working
<1>3. api # NoApi
  BY <1>2 DEF Base, Control
<1>4. Base'
  BY NextBase DEF Working, Next
<1> QED
  BY <1>1, <1>2, <1>3, <1>4 DEF Base, Control

LEMMA WorkingDelivery ==
  ASSUME Base, Delivery, Working PROVE Delivery'
<1>1. /\ UNCHANGED <<present, turn, place, undelivered, more, queue, api, reported>>
      /\ pc \notin Listing /\ pc' \notin Listing
  BY WorkingFrame
<1>2. errors \subseteq errors' /\ \A v, r : <<"list", v, r, "">> \in errors' => <<"list", v, r, "">> \in errors
  BY WorkingErrors DEF ErrorsAdded
<1>3. \A x \in present' \ undelivered' :
       \/ x \in queue' \/ x = api' \/ \E r \in reported' : r.api = x
       \/ <<"identify", x.name, "", "">> \in errors'
  BY <1>1, <1>2 DEF Delivery
<1>4. \A i, j : Called(i, j)' <=> Called(i, j)
  BY <1>1 DEF Called
<1>5. \A x \in undelivered' : \A i \in DOMAIN Versions : \A j \in DOMAIN Regions :
       Called(i, j)' /\ x.version = Versions[i] /\ x.region = Regions[j] =>
         <<"list", x.version, x.region, "">> \in errors'
  BY <1>1, <1>2, <1>4 DEF Delivery
<1>6. \A i \in DOMAIN Versions : \A j \in DOMAIN Regions :
       <<"list", Versions[i], Regions[j], "">> \in errors' => Called(i, j)'
  BY <1>1, <1>2, <1>4 DEF Delivery
<1>7. /\ present' \ undelivered' \subseteq Wanted'
      /\ \A r \in reported' : r.api \in present' \ undelivered'
  BY <1>1 DEF Delivery, Wanted
<1>8. pc' \in {"region", "list", "done"} => queue' = {}
  BY <1>1 DEF Listing
<1> QED
  BY <1>3, <1>5, <1>6, <1>7, <1>8 DEF Delivery

\* The steps of a listing: Delivery is what they are about.
LEMMA InitDelivery ==
  ASSUME Init PROVE Delivery
<1>1. /\ undelivered = present /\ turn = 1 /\ place = 0 /\ queue = {} /\ reported = {} /\ errors = {}
  BY DEF Init
<1>2. \A i \in DOMAIN Versions : \A j \in DOMAIN Regions : ~Called(i, j)
  <2>1. \A i \in DOMAIN Versions : \A j \in DOMAIN Regions : i >= 1 /\ j >= 1 /\ i \in Nat /\ j \in Nat
    BY WhatIsAsked
  <2> QED
    BY <1>1, <2>1 DEF Called
<1> QED
  BY <1>1, <1>2 DEF Delivery

LEMMA PlaceTypes ==
  ASSUME Base
  PROVE  /\ turn \in Nat /\ place \in Nat
         /\ \A i \in DOMAIN Versions : i \in Nat /\ i >= 1 /\ i <= Len(Versions)
         /\ \A j \in DOMAIN Regions : j \in Nat /\ j >= 1 /\ j <= Len(Regions)
         /\ Len(Versions) \in Nat /\ Len(Regions) \in Nat
BY WhatIsAsked DEF Base, Places

\* What has been called for stays the same, and so has what is delivered.
LEMMA SameDelivery ==
  ASSUME Base, Delivery, UNCHANGED <<present, undelivered, reported>>,
         \A i \in DOMAIN Versions : \A j \in DOMAIN Regions : Called(i, j)' <=> Called(i, j),
         pc' \in {"region", "list", "done"} => queue' = {},
         ErrorsAdded,
         \A x \in present \ undelivered : x \in queue \/ x = api =>
           x \in queue' \/ x = api' \/ <<"identify", x.name, "", "">> \in errors'
  PROVE  Delivery'
<1>1. \A x \in present' \ undelivered' :
       \/ x \in queue' \/ x = api' \/ \E r \in reported' : r.api = x
       \/ <<"identify", x.name, "", "">> \in errors'
  BY DEF Delivery, ErrorsAdded
<1>2. \A x \in undelivered' : \A i \in DOMAIN Versions : \A j \in DOMAIN Regions :
       Called(i, j)' /\ x.version = Versions[i] /\ x.region = Regions[j] =>
         <<"list", x.version, x.region, "">> \in errors'
  BY DEF Delivery, ErrorsAdded
<1>3. \A i \in DOMAIN Versions : \A j \in DOMAIN Regions :
       <<"list", Versions[i], Regions[j], "">> \in errors' => Called(i, j)'
  BY DEF Delivery, ErrorsAdded
<1>4. /\ present' \ undelivered' \subseteq Wanted'
      /\ \A r \in reported' : r.api \in present' \ undelivered'
  BY DEF Delivery, Wanted
<1> QED
  BY <1>1, <1>2, <1>3, <1>4 DEF Delivery

LEMMA NextRegionDelivery ==
  ASSUME Base, Delivery, NextRegion PROVE Delivery'
<1>1. /\ pc = "region" /\ UNCHANGED <<present, undelivered, queue, api, reported, errors>> /\ ~more
      /\ \/ place' = place + 1 /\ turn' = turn /\ more' = TRUE
         \/ place' = 0 /\ turn' = turn + 1 /\ more' = more /\ ~(place < Len(Regions))
  BY DEF NextRegion, Base, Places
<1>2. ASSUME NEW i \in DOMAIN Versions, NEW j \in DOMAIN Regions
      PROVE  Called(i, j)' <=> Called(i, j)
  <2>1. /\ i \in Nat /\ j \in Nat /\ j >= 1 /\ j <= Len(Regions) /\ turn \in Nat /\ place \in Nat
        /\ Len(Regions) \in Nat
    BY PlaceTypes
  <2>2. CASE place' = place + 1 /\ turn' = turn /\ more' = TRUE
    <3>1. j < place' <=> j < place \/ j = place
      BY <2>1, <2>2
    <3>2. ~(~more')
      BY <2>2
    <3> QED
      BY <1>1, <2>2, <3>1, <3>2 DEF Called
  <2>3. CASE place' = 0 /\ turn' = turn + 1 /\ more' = more /\ ~(place < Len(Regions))
    <3>1. i < turn' <=> i < turn \/ i = turn
      BY <2>1, <2>3
    <3>2. j < place \/ j = place
      BY <2>1, <2>3
    <3>3. ~(j < place') /\ j # place'
      BY <2>1, <2>3
    <3> QED
      BY <1>1, <2>3, <3>1, <3>2, <3>3 DEF Called
  <2> QED
    BY <1>1, <2>2, <2>3
<1>3. queue' = {}
  BY <1>1 DEF Delivery
<1>4. ErrorsAdded
  BY <1>1, ErrorsKept
<1> QED
  BY <1>1, <1>2, <1>3, <1>4, SameDelivery

LEMMA QuietDelivery ==
  ASSUME Base, Delivery, Finish \/ PageDone \/ (\E x \in Apis : Reject(x) \/ Accept(x))
  PROVE  Delivery'
<1>1. UNCHANGED <<present, undelivered, turn, place, more, reported>>
  BY DEF Finish, PageDone, Reject, Accept, listing
<1>2. \A i, j : Called(i, j)' <=> Called(i, j)
  BY <1>1 DEF Called
<1>3. CASE Finish \/ PageDone
  <2>1. queue = {} /\ UNCHANGED <<queue, api, errors>>
    BY <1>3 DEF Finish, PageDone, listing, Delivery
  <2>2. ErrorsAdded
    BY <2>1, ErrorsKept
  <2> QED
    BY <1>1, <1>2, <2>1, <2>2, SameDelivery
<1>4. ASSUME NEW x \in Apis, Reject(x) PROVE Delivery'
  <2>1. queue' = queue \ {x} /\ UNCHANGED <<pc, api>> /\ pc = "convert"
        /\ errors' = errors \cup {<<"identify", x.name, "", "">>}
    BY <1>4 DEF Reject
  <2>2. ErrorsAdded
    BY <2>1 DEF ErrorsAdded
  <2> QED
    BY <1>1, <1>2, <2>1, <2>2, SameDelivery
<1>5. ASSUME NEW x \in Apis, Accept(x) PROVE Delivery'
  <2>1. queue' = queue \ {x} /\ api' = x /\ pc' = "begin" /\ pc = "convert" /\ UNCHANGED errors
    BY <1>5 DEF Accept
  <2>2. api \notin present
    <3>1. api = NoApi
      BY <2>1 DEF Base, Control, Listing
    <3> QED
      BY <3>1, PresentApis, ApiFields DEF Base
  <2>3. ErrorsAdded
    BY <2>1, ErrorsKept
  <2> QED
    BY <1>1, <1>2, <2>1, <2>2, <2>3, SameDelivery
<1> QED
  BY <1>3, <1>4, <1>5

LEMMA AppendApiDelivery ==
  ASSUME Base, Delivery, AppendApi PROVE Delivery'
<1>1. /\ pc = "begin" /\ pc' = "convert" /\ api' = NoApi
      /\ UNCHANGED <<present, undelivered, turn, place, more, queue, errors>>
      /\ \E r : r.api = api /\ reported' = reported \cup {r}
  BY DEF AppendApi, listing
<1>2. api \in present \ undelivered
  BY <1>1 DEF Base, Control, Listing
<1>3. \A i, j : Called(i, j)' <=> Called(i, j)
  BY <1>1 DEF Called
<1>4. \A x \in present' \ undelivered' :
       \/ x \in queue' \/ x = api' \/ \E r \in reported' : r.api = x
       \/ <<"identify", x.name, "", "">> \in errors'
  BY <1>1 DEF Delivery
<1>5. \A r \in reported' : r.api \in present' \ undelivered'
  BY <1>1, <1>2 DEF Delivery
<1> QED
  BY <1>1, <1>3, <1>4, <1>5 DEF Delivery, Wanted

LEMMA PageDelivery ==
  ASSUME Base, Delivery, Page PROVE Delivery'
<1>1. PICK batch \in SUBSET Undelivered :
        /\ undelivered' = undelivered \ batch /\ queue' = batch
        /\ more' \in BOOLEAN
        /\ more' \/ batch = Undelivered
  BY DEF Page
<1>2. /\ pc = "list" /\ more /\ pc' = "convert"
      /\ UNCHANGED <<present, turn, place, api, reported, errors>>
  BY DEF Page
<1>3. turn \in DOMAIN Versions /\ place \in DOMAIN Regions /\ queue = {} /\ undelivered \subseteq present
  BY <1>2 DEF Base, Places, Delivery
<1>4. \A x \in batch : x \in undelivered /\ x.version = Versions[turn] /\ x.region = Regions[place]
  BY DEF Undelivered
<1>5. \A x \in present' \ undelivered' :
       \/ x \in queue' \/ x = api' \/ \E r \in reported' : r.api = x
       \/ <<"identify", x.name, "", "">> \in errors'
  BY <1>1, <1>2, <1>3 DEF Delivery
<1>6. \A i, j : Called(i, j)' <=> Called(i, j) \/ (i = turn /\ j = place /\ ~more')
  BY <1>2 DEF Called
<1>7. \A x \in undelivered' : \A i \in DOMAIN Versions : \A j \in DOMAIN Regions :
       Called(i, j)' /\ x.version = Versions[i] /\ x.region = Regions[j] =>
         <<"list", x.version, x.region, "">> \in errors'
  <2> SUFFICES ASSUME NEW x \in undelivered', NEW i \in DOMAIN Versions, NEW j \in DOMAIN Regions,
                      Called(i, j)', x.version = Versions[i], x.region = Regions[j]
               PROVE  <<"list", x.version, x.region, "">> \in errors'
    OBVIOUS
  <2>1. x \in undelivered /\ x \notin batch
    BY <1>1
  <2>2. CASE Called(i, j)
    BY <1>2, <2>1, <2>2 DEF Delivery
  <2>3. CASE i = turn /\ j = place /\ ~more'
    <3>1. x \in Undelivered
      BY <2>1, <2>3 DEF Undelivered
    <3> QED
      BY <1>1, <2>1, <2>3, <3>1
  <2> QED
    BY <1>6, <2>2, <2>3
<1>8. \A i \in DOMAIN Versions : \A j \in DOMAIN Regions :
       <<"list", Versions[i], Regions[j], "">> \in errors' => Called(i, j)'
  BY <1>2, <1>6 DEF Delivery
<1>9. present' \ undelivered' \subseteq Wanted'
  BY <1>1, <1>2, <1>3, <1>4 DEF Delivery, Wanted
<1>10. \A r \in reported' : r.api \in present' \ undelivered'
  BY <1>1, <1>2 DEF Delivery
<1> QED
  BY <1>2, <1>5, <1>7, <1>8, <1>9, <1>10 DEF Delivery

LEMMA PageFailsDelivery ==
  ASSUME Base, Delivery, PageFails PROVE Delivery'
<1>1. /\ pc = "list" /\ more /\ pc' = "convert" /\ more' = FALSE
      /\ errors' = errors \cup {<<"list", Versions[turn], Regions[place], "">>}
      /\ UNCHANGED <<present, turn, place, undelivered, queue, api, reported>>
  BY DEF PageFails
<1>2. turn \in DOMAIN Versions /\ place \in DOMAIN Regions
  BY <1>1 DEF Base, Places
<1>3. ~more'
  BY <1>1
<1>4. \A i, j : Called(i, j)' <=> Called(i, j) \/ (i = turn /\ j = place)
  BY <1>1, <1>3 DEF Called
<1>5. \A x \in present' \ undelivered' :
       \/ x \in queue' \/ x = api' \/ \E r \in reported' : r.api = x
       \/ <<"identify", x.name, "", "">> \in errors'
  BY <1>1 DEF Delivery
<1>6. \A x \in undelivered' : \A i \in DOMAIN Versions : \A j \in DOMAIN Regions :
       Called(i, j)' /\ x.version = Versions[i] /\ x.region = Regions[j] =>
         <<"list", x.version, x.region, "">> \in errors'
  BY <1>1, <1>4 DEF Delivery
<1>7. ASSUME NEW i \in DOMAIN Versions, NEW j \in DOMAIN Regions, <<"list", Versions[i], Regions[j], "">> \in errors'
      PROVE  Called(i, j)'
  <2>1. CASE <<"list", Versions[i], Regions[j], "">> \in errors
    BY <1>4, <2>1 DEF Delivery
  <2>2. CASE Versions[i] = Versions[turn] /\ Regions[j] = Regions[place]
    <3>1. i = turn /\ j = place
      BY <1>2, <2>2, ApiAssumption
    <3> QED
      BY <1>4, <3>1
  <2> QED
    BY <1>1, <1>7, <2>1, <2>2
<1> QED
  BY <1>1, <1>5, <1>6, <1>7 DEF Delivery, Wanted

LEMMA NextDelivery ==
  ASSUME Base, Delivery, [Next]_vars PROVE Delivery'
<1>1. CASE UNCHANGED vars
  BY <1>1 DEF Delivery, Called, Wanted, vars, listing
<1> QED
  BY <1>1, NextRegionDelivery, QuietDelivery, PageDelivery, PageFailsDelivery, AppendApiDelivery, WorkingDelivery
  DEF Next, Working, Returned

----------------------------------------------------------------------------
(***************************************************************************)
(* The contract of an inventory: a step records, returns or is not seen.   *)
(***************************************************************************)
ReportedApis == {r.api : r \in reported}
ExcusedApis == {x \in Wanted : Excused(x)}

LEMMA RecordStep ==
  ASSUME UNCHANGED present, pc # "done", pc' # "done", ErrorsAdded,
         reported \subseteq reported',
         \A r \in reported' : r.api \in Wanted,
         \A x \in undelivered : x \in undelivered' \/ <<"list", x.version, x.region, "">> \notin errors
  PROVE  Contract!Record
<1>1. Wanted' = Wanted
  BY DEF Wanted
<1>2. ReportedApis \subseteq ReportedApis' /\ ReportedApis' \ ReportedApis \subseteq Wanted
  BY DEF ReportedApis
<1>3. \A x : Excused(x) => Excused(x)'
  BY DEF Excused, ErrorsAdded
<1>4. ExcusedApis \subseteq ExcusedApis' /\ ExcusedApis' \ ExcusedApis \subseteq Wanted
  BY <1>1, <1>3 DEF ExcusedApis
<1>5. (pc = "done")' = (pc = "done") /\ ~(pc = "done")
  OBVIOUS
<1> QED
  BY <1>1, <1>2, <1>4, <1>5 DEF Contract!Grows, Contract!Record, ReportedApis, ExcusedApis

LEMMA ReportedWanted ==
  ASSUME Delivery PROVE \A r \in reported : r.api \in Wanted
BY DEF Delivery

LEMMA WorkingRecords ==
  ASSUME Base, Delivery, Working PROVE Contract!Record
<1>1. /\ UNCHANGED <<present, undelivered, reported>>
      /\ pc # "done" /\ pc' # "done"
  BY WorkingFrame DEF Listing
<1> QED
  BY <1>1, WorkingErrors, ReportedWanted, RecordStep

LEMMA ListingRecords ==
  ASSUME Base, Delivery,
         \/ NextRegion \/ Page \/ PageFails \/ PageDone \/ AppendApi
         \/ \E x \in Apis : Reject(x) \/ Accept(x)
  PROVE  Contract!Record
<1>1. CASE NextRegion \/ PageDone \/ \E x \in Apis : Accept(x)
  <2>1. UNCHANGED <<present, undelivered, reported, errors>> /\ pc # "done" /\ pc' # "done"
    <3>1. CASE NextRegion
      BY <3>1 DEF NextRegion
    <3>2. CASE PageDone
      BY <3>2 DEF PageDone, listing
    <3>3. CASE \E x \in Apis : Accept(x)
      BY <3>3 DEF Accept
    <3> QED
      BY <1>1, <3>1, <3>2, <3>3
  <2> QED
    BY <2>1, ErrorsKept, ReportedWanted, RecordStep
<1>2. ASSUME NEW x \in Apis, Reject(x) PROVE Contract!Record
  <2>1. /\ UNCHANGED <<present, undelivered, reported, pc>> /\ pc = "convert"
        /\ errors' = errors \cup {<<"identify", x.name, "", "">>}
    BY <1>2 DEF Reject
  <2>2. ErrorsAdded
    BY <2>1 DEF ErrorsAdded
  <2> QED
    BY <2>1, <2>2, ReportedWanted, RecordStep
<1>3. CASE Page
  <2>1. /\ pc = "list" /\ pc' = "convert" /\ more /\ UNCHANGED <<present, reported, errors>>
        /\ \A x \in undelivered : x \in undelivered' \/ x \in Undelivered
    BY <1>3 DEF Page
  <2>2. turn \in DOMAIN Versions /\ place \in DOMAIN Regions /\ turn \in Nat /\ place \in Nat
    BY <2>1, PlaceTypes DEF Base, Places
  <2>3. ~Called(turn, place)
    BY <2>1, <2>2 DEF Called
  <2>4. <<"list", Versions[turn], Regions[place], "">> \notin errors
    BY <2>2, <2>3 DEF Delivery
  <2>5. \A x \in Undelivered : <<"list", x.version, x.region, "">> \notin errors
    BY <2>4 DEF Undelivered
  <2> QED
    BY <2>1, <2>5, ErrorsKept, ReportedWanted, RecordStep
<1>4. CASE PageFails
  <2>1. /\ UNCHANGED <<present, undelivered, reported>> /\ pc # "done" /\ pc' # "done" /\ errors \subseteq errors'
    BY <1>4 DEF PageFails
  <2>2. Wanted' = Wanted /\ (pc = "done")' = (pc = "done") /\ ~(pc = "done")
    BY <2>1 DEF Wanted
  <2>3. ReportedApis' = ReportedApis
    BY <2>1 DEF ReportedApis
  <2>4. \A x : Excused(x) => Excused(x)'
    BY <2>1 DEF Excused
  <2>5. ExcusedApis \subseteq ExcusedApis' /\ ExcusedApis' \ ExcusedApis \subseteq Wanted
    BY <2>2, <2>4 DEF ExcusedApis
  <2> QED
    BY <2>2, <2>3, <2>5 DEF Contract!Grows, Contract!Record, ReportedApis, ExcusedApis
<1>5. CASE AppendApi
  <2>1. /\ pc = "begin" /\ pc' = "convert" /\ UNCHANGED <<present, undelivered, errors>>
        /\ \E r : r.api = api /\ reported' = reported \cup {r}
    BY <1>5 DEF AppendApi, listing
  <2>2. api \in present \ undelivered
    BY <2>1 DEF Base, Control, Listing
  <2>3. \A r \in reported' : r.api \in Wanted
    BY <2>1, <2>2, ReportedWanted DEF Delivery
  <2> QED
    BY <2>1, <2>3, ErrorsKept, RecordStep
<1> QED
  BY <1>1, <1>2, <1>3, <1>4, <1>5

LEMMA FinishReturns ==
  ASSUME Base, Delivery, Finish PROVE Contract!Return
<1>1. /\ pc = "region" /\ pc' = "done" /\ turn > Len(Versions)
      /\ UNCHANGED <<present, undelivered, api, reported, errors>>
  BY DEF Finish, listing
<1>2. queue = {} /\ api = NoApi
  BY <1>1 DEF Delivery, Base, Control, Listing
<1>3. ASSUME NEW x \in Wanted PROVE x \in ReportedApis \cup ExcusedApis
  <2>1. x \in present /\ x # NoApi
    BY PresentApis, ApiFields DEF Wanted, Base
  <2>2. CASE x \notin undelivered
    <3>1. (\E r \in reported : r.api = x) \/ <<"identify", x.name, "", "">> \in errors
      BY <1>2, <2>1, <2>2 DEF Delivery
    <3> QED
      BY <3>1, <1>3 DEF ReportedApis, ExcusedApis, Excused
  <2>3. CASE x \in undelivered
    <3>1. PICK i \in DOMAIN Versions, j \in DOMAIN Regions : x.version = Versions[i] /\ x.region = Regions[j]
      BY DEF Wanted
    <3>2. Called(i, j)
      BY <1>1, PlaceTypes DEF Called
    <3>3. <<"list", x.version, x.region, "">> \in errors
      BY <2>3, <3>1, <3>2 DEF Delivery
    <3> QED
      BY <2>3, <3>3, <1>3 DEF ExcusedApis, Excused
  <2> QED
    BY <2>2, <2>3
<1>4. Wanted' = Wanted
  BY <1>1 DEF Wanted
<1>5. ReportedApis' = ReportedApis
  BY <1>1 DEF ReportedApis
<1>6. ExcusedApis' = ExcusedApis
  <2>1. \A x : Excused(x)' <=> Excused(x)
    BY <1>1 DEF Excused
  <2> QED
    BY <1>4, <2>1 DEF ExcusedApis
<1>7. ~(pc = "done") /\ (pc = "done")' = TRUE
  BY <1>1
<1>8. Wanted \subseteq ReportedApis \cup ExcusedApis
  BY <1>3
<1> QED
  BY <1>4, <1>5, <1>6, <1>7, <1>8 DEF Contract!Grows, Contract!Return, ReportedApis, ExcusedApis

LEMMA NextKeepsContract ==
  ASSUME Base, Delivery, [Next]_vars PROVE [Contract!Next]_(Contract!vars)
<1>1. CASE UNCHANGED vars
  <2>1. Wanted' = Wanted /\ ReportedApis' = ReportedApis /\ ExcusedApis' = ExcusedApis /\ (pc = "done")' = (pc = "done")
    BY <1>1 DEF vars, listing, Wanted, ReportedApis, ExcusedApis, Excused
  <2> QED
    BY <2>1 DEF Contract!vars, ReportedApis, ExcusedApis
<1>2. CASE Working
  BY <1>2, WorkingRecords DEF Contract!Next
<1>3. CASE \/ NextRegion \/ Page \/ PageFails \/ PageDone \/ AppendApi
           \/ \E x \in Apis : Reject(x) \/ Accept(x)
  BY <1>3, ListingRecords DEF Contract!Next
<1>4. CASE Finish
  BY <1>4, FinishReturns DEF Contract!Next
<1> QED
  BY <1>1, <1>2, <1>3, <1>4 DEF Next, Working, Returned

LEMMA InitKeepsContract ==
  ASSUME Init PROVE Contract!Init
<1>1. present \in Worlds /\ reported = {} /\ errors = {} /\ pc = "region"
  BY DEF Init
<1>2. Wanted \in SUBSET Apis
  BY <1>1 DEF Wanted, Apis
<1>3. ReportedApis = {} /\ ExcusedApis = {}
  BY <1>1 DEF ReportedApis, ExcusedApis, Excused
<1>4. (pc = "done") = FALSE
  BY <1>1
<1> QED
  BY <1>2, <1>3, <1>4 DEF Contract!Init, ReportedApis, ExcusedApis

\* Type correctness, of the listing and of the conversion of each API.
THEOREM GatewayTypeCorrect == Spec => []TypeOK
<1>1. Init => Base
  BY InitBase
<1>2. Base /\ [Next]_vars => Base'
  BY NextBase
<1>3. Base => TypeOK
  <2> SUFFICES ASSUME Base PROVE TypeOK
    OBVIOUS
  <2>1. /\ pc \in {"region", "list", "convert", "begin", "exports", "operations", "reference", "backend",
                   "append", "routes", "domains", "done"}
        /\ turn \in 1 .. Len(Versions) + 1 /\ place \in 0 .. Len(Regions) /\ phase \in 0 .. 5
        /\ undelivered \subseteq present /\ queue \subseteq present \ undelivered
    BY DEF Base, Places, Control, Listing, Gathering, Converting
  <2>2. (api = NoApi) = (pc \in {"region", "list", "convert", "done"})
    BY DEF Base, Control, Listing
  <2>3. api = NoApi => built = Nothing /\ todo = {}
    BY DEF Base, Control
  <2>4. stage # NoStage => stage \in api.stages \ todo /\ next \in 1 .. Len(Document.operations) + 1
    BY DEF Base, InStage
  <2>5. (route # NoRoute) = (pc \in {"reference", "backend", "append"})
    BY DEF Base, InRoute, Converting
  <2>6. DOMAIN links \subseteq DOMAIN Links
    BY DEF Base, InRoute
  <2>7. api # NoApi => built.listed <= Cardinality(api.stages)
    <3> SUFFICES ASSUME api # NoApi PROVE built.listed <= Cardinality(api.stages)
      OBVIOUS
    <3>1. Cardinality(api.stages) \in Nat
      BY CurrentApi, ApiFields, FS_CardinalityType DEF Base
    <3> QED
      BY <3>1 DEF Base, Counted
  <2> QED
    BY <2>1, <2>2, <2>3, <2>4, <2>5, <2>6, <2>7 DEF TypeOK
<1> QED
  BY <1>1, <1>2, <1>3, PTL DEF Spec

\* The inventory of APIs keeps the contract of an inventory, however the regions,
\* versions and pages fail.
THEOREM GatewayKeepsContract == Spec => KeepsContract
<1>1. Init => Base /\ Delivery /\ Contract!Init
  BY InitBase, InitDelivery, InitKeepsContract
<1>2. Base /\ Delivery /\ [Next]_vars => Base' /\ Delivery' /\ [Contract!Next]_(Contract!vars)
  BY NextBase, NextDelivery, NextKeepsContract
<1> QED
  BY <1>1, <1>2, PTL DEF Spec, KeepsContract, Contract!Spec

----------------------------------------------------------------------------
(***************************************************************************)
(* What a draft holds, or says that it lacks, stays so.                    *)
(***************************************************************************)
LEMMA ToldKept ==
  ASSUME UNCHANGED api, ErrorsAdded, NEW what, NEW s, NEW subject, Told(what, draft, s, subject)
  PROVE  Told(what, draft, s, subject)'
BY DEF Told, draft, ErrorsAdded

LEMMA OperationKept ==
  ASSUME UNCHANGED api, ErrorsAdded, NEW b, NEW c, c.of = b.of, b.routes \subseteq c.routes, NEW op,
         OperationComplete(draft, b, op)
  PROVE  OperationComplete(draft, c, op)'
<1>1. CASE Told("operation", draft, b.of.name, op.name)
  BY <1>1, ToldKept DEF OperationComplete
<1>2. ASSUME NEW t \in b.routes, t.name = op.name,
             \/ Told("integration", draft, b.of.name, op.name) \/ Told("backend", draft, b.of.name, op.name)
             \/ \E p \in Ends(b.of.document, op.integration) : BackendOf(t, Resolved(p, b.of.variables))
      PROVE  OperationComplete(draft, c, op)'
  <2>1. t \in c.routes
    BY <1>2
  <2> QED
    BY <1>2, <2>1, ToldKept DEF OperationComplete
<1> QED
  BY <1>1, <1>2 DEF OperationComplete

LEMMA StageKept ==
  ASSUME UNCHANGED api, ErrorsAdded, NEW b, NEW c, c.of = b.of, b.routes \subseteq c.routes, StageComplete(draft, b)
  PROVE  StageComplete(draft, c)'
BY ToldKept, OperationKept DEF StageComplete

LEMMA HonestKept ==
  ASSUME UNCHANGED api, ErrorsAdded, NEW s, NEW t, NEW op, RouteHonest(draft, s, t, op)
  PROVE  RouteHonest(draft, s, t, op)'
BY ToldKept DEF RouteHonest

LEMMA StageListedKept ==
  ASSUME UNCHANGED api, ErrorsAdded, \A b \in built.stages : \E c \in built'.stages : c.of = b.of,
         NEW s, StageListed(draft, s)
  PROVE  StageListed(draft, s)'
<1>1. CASE \E b \in draft.stages : b.of = s
  BY <1>1 DEF StageListed, draft
<1> QED
  BY <1>1, ToldKept DEF StageListed

LEMMA RouteCompleteKept ==
  ASSUME UNCHANGED api, ErrorsAdded, NEW t, NEW m, RouteComplete(draft, t, m)
  PROVE  RouteComplete(draft, t, m)'
BY ToldKept DEF RouteComplete

LEMMA RouteListedKept ==
  ASSUME UNCHANGED api, ErrorsAdded, built.routes \subseteq built'.routes, NEW m, RouteListed(draft, m)
  PROVE  RouteListed(draft, m)'
<1>1. ASSUME NEW t \in built.routes, RouteComplete(draft, t, m) PROVE RouteListed(draft, m)'
  <2>1. t \in built'.routes /\ RouteComplete(draft, t, m)'
    BY <1>1, RouteCompleteKept
  <2> QED
    BY <2>1 DEF RouteListed, draft
<1>2. CASE Told("GetRoutes", draft, "", "") \/ Told("route", draft, "", m.name)
  BY <1>2, ToldKept DEF RouteListed
<1>3. Told("GetRoutes", draft, "", "") \/ Told("route", draft, "", m.name) \/ \E t \in built.routes : RouteComplete(draft, t, m)
  BY DEF RouteListed, draft
<1> QED
  BY <1>1, <1>2, <1>3

LEMMA CertificateKept ==
  ASSUME UNCHANGED api, ErrorsAdded, built.certificates \subseteq built'.certificates, NEW d, CertificateListed(draft, d)
  PROVE  CertificateListed(draft, d)'
<1>1. CASE d.name \in built.certificates
  BY <1>1 DEF CertificateListed, draft
<1>2. CASE Told("GetDomainNames", draft, "", "") \/ Told("domain", draft, "", d.name)
  BY <1>2, ToldKept DEF CertificateListed
<1>3. CASE ~(d.named /\ d.certificate /\ draft.api.name \in d.apis)
  BY <1>3 DEF CertificateListed, draft
<1> QED
  BY <1>1, <1>2, <1>3 DEF CertificateListed, draft

----------------------------------------------------------------------------
(***************************************************************************)
(* A phase does not touch what the others have gathered.                   *)
(***************************************************************************)
LEMMA StagesStay ==
  ASSUME Base, Draft, api # NoApi, UNCHANGED <<api, phase>>, ErrorsAdded,
         \A b \in built.stages : \E c \in built'.stages : c.of = b.of
  PROVE  DraftStages'
<1>1. Past("stages")' <=> Past("stages")
  BY SamePhase
<1> QED
  BY <1>1, StageListedKept DEF Draft, DraftStages

LEMMA HonestStays ==
  ASSUME Base, Draft, api # NoApi, UNCHANGED api, ErrorsAdded, built'.stages = built.stages
  PROVE  DraftHonest'
<1>1. \A b \in built'.stages : \A t \in b.routes : \E op \in Operations(b.of.document) :
        op.valid /\ op.name = t.name /\ RouteHonest(draft, b.of, t, op)
  BY DEF Draft, DraftHonest
<1>2. \A b \in built'.stages : \A t \in b.routes : \E op \in Operations(b.of.document) :
        op.valid /\ op.name = t.name /\ RouteHonest(draft, b.of, t, op)'
  BY <1>1, HonestKept
<1> QED
  BY <1>2 DEF DraftHonest, Operations

LEMMA ExportsStay ==
  ASSUME Base, Draft, api # NoApi, UNCHANGED <<api, phase>>, ErrorsAdded, ~Begun("exports"),
         stage' = NoStage, built'.stages = built.stages
  PROVE  DraftExports' /\ DraftOperation' /\ DraftHonest'
<1>1. (Past("exports")' <=> Past("exports")) /\ ~Begun("exports")'
  BY SamePhase
<1>2. ASSUME Past("exports") PROVE \A b \in built'.stages : StageComplete(draft, b)'
  BY <1>2, StageKept DEF Draft, DraftExports
<1>3. DraftExports'
  BY <1>1, <1>2 DEF DraftExports, Doing
<1>4. DraftOperation'
  BY DEF DraftOperation
<1> QED
  BY <1>3, <1>4, HonestStays

LEMMA RoutesStay ==
  ASSUME Base, Draft, api # NoApi, UNCHANGED <<api, phase>>, ErrorsAdded, ~Begun("routes"),
         ~OfTheApi', built'.routes = built.routes, built'.complete = built.complete
  PROVE  DraftRoutes' /\ DraftKeys'
<1>1. (Past("routes")' <=> Past("routes")) /\ ~Begun("routes")'
  BY SamePhase
<1>2. ASSUME Past("routes") PROVE \A m \in api.routes : RouteListed(draft, m)'
  BY <1>2, RouteListedKept DEF Draft, DraftRoutes
<1>3. DraftRoutes'
  BY <1>1, <1>2 DEF DraftRoutes, Doing
<1>4. DirectRoutes' \subseteq DirectRoutes
  BY DEF DirectRoutes
<1>5. DraftKeys'
  BY <1>1, <1>4 DEF Draft, DraftKeys, Doing
<1> QED
  BY <1>3, <1>5

LEMMA DomainsStay ==
  ASSUME Base, Draft, api # NoApi, UNCHANGED <<api, phase>>, ErrorsAdded, ~Begun("certificates"),
         built'.certificates = built.certificates
  PROVE  DraftDomains'
<1>1. (Past("certificates")' <=> Past("certificates")) /\ ~Begun("certificates")'
  BY SamePhase
<1> QED
  BY <1>1, CertificateKept DEF Draft, DraftDomains, Doing

----------------------------------------------------------------------------
(***************************************************************************)
(* What an operation demands.                                              *)
(***************************************************************************)
LEMMA SecurityOf ==
  ASSUME NEW doc, IsDocument(doc), NEW i \in DOMAIN doc.operations
  PROVE  IsSequence(EffectiveSecurity(doc, doc.operations[i]))
BY DEF IsDocument, EffectiveSecurity

LEMMA DemandedIsSchemes ==
  ASSUME NEW doc, IsDocument(doc), NEW i \in DOMAIN doc.operations,
         Representable(doc, EffectiveSecurity(doc, doc.operations[i]))
  PROVE  Demanded(doc, doc.operations[i]) = Schemes(doc, EffectiveSecurity(doc, doc.operations[i]))
<1> DEFINE security == EffectiveSecurity(doc, doc.operations[i])
<1>1. IsSequence(security) /\ Len(security) \in Nat /\ DOMAIN security = 1 .. Len(security)
  BY SecurityOf, SequenceFields
<1>2. /\ Len(security) <= 1
      /\ \A k \in DOMAIN security : security[k] \subseteq DOMAIN doc.schemes
      /\ "unsupported" \notin Schemes(doc, security)
  BY DEF Representable
<1>3. Demanded(doc, doc.operations[i]) =
        {x \in Methods \cup {"key"} :
           security # <<>> /\ \A k \in DOMAIN security : \E n \in security[k] :
             n \in DOMAIN doc.schemes /\ doc.schemes[n] = x}
  BY DEF Demanded
<1> HIDE DEF security
<1>4. CASE security = <<>>
  <2>1. Schemes(doc, security) = {} /\ Demanded(doc, doc.operations[i]) = {}
    BY <1>3, <1>4 DEF Schemes
  <2> QED
    BY <2>1 DEF security
<1>5. CASE security # <<>>
  <2>1. Len(security) # 0
    <3>1. security \in Seq({security[k] : k \in DOMAIN security})
      BY <1>1 DEF IsSequence
    <3> QED
      BY <1>5, <3>1
  <2>2. DOMAIN security = {1}
    BY <1>1, <1>2, <2>1
  <2>3. Schemes(doc, security) = {doc.schemes[n] : n \in security[1]}
    BY <1>5 DEF Schemes
  <2>4. \A n \in security[1] : n \in DOMAIN doc.schemes /\ doc.schemes[n] \in Methods \cup {"key"}
    <3>1. \A n \in security[1] : n \in DOMAIN doc.schemes
      BY <1>2, <2>2
    <3>2. \A n \in DOMAIN doc.schemes : doc.schemes[n] \in (Methods \ {"NONE"}) \cup {"key", "unsupported"}
      BY DEF IsDocument
    <3>3. \A n \in security[1] : doc.schemes[n] # "unsupported"
      BY <1>2, <2>3
    <3> QED
      BY <3>1, <3>2, <3>3
  <2>5. Demanded(doc, doc.operations[i]) = {x \in Methods \cup {"key"} : \E n \in security[1] : doc.schemes[n] = x}
    BY <1>3, <1>5, <2>2, <2>4
  <2> QED
    BY <2>3, <2>4, <2>5 DEF security
<1> QED
  BY <1>4, <1>5 DEF security

LEMMA AuthorizationHonest ==
  ASSUME NEW doc, IsDocument(doc), NEW i \in DOMAIN doc.operations,
         Representable(doc, EffectiveSecurity(doc, doc.operations[i]))
  PROVE  LET demanded == Demanded(doc, doc.operations[i])
             access == Authorization(doc, EffectiveSecurity(doc, doc.operations[i]))
         IN /\ access.auth # "unknown"
            /\ access.auth = "NONE" <=> demanded \subseteq {"key"}
            /\ access.auth # "NONE" => access.auth \in demanded
            /\ access.key = Known("key" \in demanded)
<1> DEFINE schemes == Schemes(doc, EffectiveSecurity(doc, doc.operations[i]))
           mechanisms == schemes \ {"key"}
           auth == IF mechanisms = {} THEN "NONE" ELSE CHOOSE m \in mechanisms : TRUE
<1>1. Demanded(doc, doc.operations[i]) = schemes
  BY DemandedIsSchemes
<1>2. /\ Authorization(doc, EffectiveSecurity(doc, doc.operations[i])).auth = auth
      /\ Authorization(doc, EffectiveSecurity(doc, doc.operations[i])).key = Known("key" \in schemes)
  BY DEF Authorization
<1>3. schemes \subseteq (Methods \ {"NONE"}) \cup {"key"}
  <2>1. schemes \subseteq Methods \cup {"key"}
    BY <1>1 DEF Demanded
  <2>2. "NONE" \notin schemes
    <3> SUFFICES ASSUME "NONE" \in schemes PROVE FALSE
      OBVIOUS
    <3>1. PICK k : k \in DOMAIN doc.schemes /\ doc.schemes[k] = "NONE"
      <4>1. "NONE" \in Demanded(doc, doc.operations[i])
        BY <1>1
      <4>2. LET security == EffectiveSecurity(doc, doc.operations[i]) IN
            security # <<>> /\ \A j \in DOMAIN security : \E n \in security[j] : n \in DOMAIN doc.schemes /\ doc.schemes[n] = "NONE"
        BY <4>1 DEF Demanded
      <4>3. \E j : j \in DOMAIN EffectiveSecurity(doc, doc.operations[i])
        <5>1. IsSequence(EffectiveSecurity(doc, doc.operations[i]))
          BY SecurityOf
        <5> QED
          BY <4>2, <5>1 DEF IsSequence
      <4> QED
        BY <4>2, <4>3
    <3> QED
      BY <3>1 DEF IsDocument
  <2> QED
    BY <2>1, <2>2
<1> HIDE DEF schemes
<1>4. mechanisms # {} => auth \in mechanisms
  OBVIOUS
<1>5. auth # "unknown" /\ (auth = "NONE" <=> schemes \subseteq {"key"}) /\ (auth # "NONE" => auth \in schemes)
  BY <1>3, <1>4 DEF Methods
<1> QED
  BY <1>1, <1>2, <1>5

----------------------------------------------------------------------------
(***************************************************************************)
(* The integrations a payload leads to.                                    *)
(***************************************************************************)
LEMMA ReachableFromItself ==
  ASSUME NEW doc, NEW p PROVE p \in Reachable(doc, p)
BY DEF Reachable

LEMMA ReachableByReference ==
  ASSUME NEW doc, NEW p, NEW q \in Reachable(doc, p), q # Invalid, q.ref \in DOMAIN doc.components
  PROVE  doc.components[q.ref] \in Reachable(doc, p)
<1> DEFINE components == {doc.components[n] : n \in DOMAIN doc.components}
           IsClosed(S) == \A r \in S \ {Invalid} : r.ref \in DOMAIN doc.components => doc.components[r.ref] \in S
<1>1. \A S \in SUBSET (components \cup {p}) : p \in S /\ IsClosed(S) => q \in S
  BY DEF Reachable
<1>2. \A S \in SUBSET (components \cup {p}) : p \in S /\ IsClosed(S) => doc.components[q.ref] \in S
  BY <1>1
<1>3. doc.components[q.ref] \in components \cup {p}
  OBVIOUS
<1> QED
  BY <1>2, <1>3 DEF Reachable

----------------------------------------------------------------------------
(***************************************************************************)
(* The draft, while the exports of stages are read.                        *)
(***************************************************************************)
LEMMA ExportsDraft ==
  ASSUME Base, Base', Draft, api # NoApi, UNCHANGED <<api, phase>>, ErrorsAdded, Begun("exports"),
         \A b \in built.stages : \E c \in built'.stages : c.of = b.of,
         built'.routes = built.routes, built'.complete = built.complete, built'.certificates = built.certificates,
         DraftExports', DraftOperation', DraftHonest'
  PROVE  Draft'
<1>1. ~Begun("routes") /\ ~Begun("certificates")
  BY BegunOnce DEF Base
<1>2. ~OfTheApi'
  <2>1. ~Begun("routes")'
    BY <1>1, SamePhase
  <2>2. route' # NoRoute => pc' \in Converting
    BY DEF Base, InRoute
  <2>3. pc' \in Converting /\ stage' = NoStage => Begun("routes")'
    BY DEF Base, Control
  <2> QED
    BY <2>1, <2>2, <2>3 DEF OfTheApi
<1>3. DraftStages' /\ DraftRoutes' /\ DraftKeys' /\ DraftDomains'
  BY <1>1, <1>2, StagesStay, RoutesStay, DomainsStay
<1> QED
  BY <1>3 DEF Draft

\* Of the stages those that are not read, or read, are no matter of this step.
LEMMA ExportsStep ==
  ASSUME Base, Draft, api # NoApi, UNCHANGED <<api, phase>>, ErrorsAdded, Begun("exports"),
         \A c \in built'.stages : \E b \in built.stages : c.of = b.of /\ b.routes \subseteq c.routes,
         \A c \in built'.stages : c.of \in todo' \/ c.of = stage' \/ StageComplete(draft, c)'
                                  \/ \E b \in built.stages : c.of = b.of /\ StageComplete(draft, b)
                                                             /\ b.routes \subseteq c.routes,
         stage' # NoStage =>
           \A c \in built'.stages : c.of = stage' =>
             \A i \in DOMAIN Document'.operations : i < next' => OperationComplete(draft, c, Document.operations[i])'
  PROVE  DraftExports'
<1>1. ~Past("exports") /\ ~Past("exports")'
  BY BegunOnce, SamePhase DEF Base
<1>2. \A c \in built'.stages : c.of \in todo' \/ c.of = stage' \/ StageComplete(draft, c)'
  BY StageKept
<1> QED
  BY <1>1, <1>2 DEF DraftExports

LEMMA BeginExportsDraft ==
  ASSUME Base, Draft, BeginExports PROVE Draft'
<1>1. /\ Begins("exports") /\ pc' = "exports" /\ todo' = {s.of : s \in built.stages}
      /\ UNCHANGED <<api, phase, stage, next, route, payload, built, errors>>
  BY DEF BeginExports, converting
<1>2. Begun("exports") /\ api # NoApi /\ stage = NoStage
  BY <1>1, PhaseBegins
<1>3. Base' /\ ErrorsAdded
  BY BeginExportsBase, <1>1, ErrorsKept
<1>4. DraftExports'
  BY <1>1, <1>2, <1>3, ExportsStep
<1>5. DraftOperation'
  BY <1>1, <1>2 DEF DraftOperation
<1>6. DraftHonest'
  BY <1>1, <1>2, <1>3, HonestStays
<1> QED
  BY <1>1, <1>2, <1>3, <1>4, <1>5, <1>6, ExportsDraft

LEMMA ExportFailsDraft ==
  ASSUME Base, Draft, ExportFails PROVE Draft'
<1>1. PICK s \in todo : todo' = todo \ {s} /\ Tell("export", s.name, "")
  BY DEF ExportFails
<1>2. pc = "exports" /\ UNCHANGED <<pc, api, phase, stage, next, route, payload, built>>
  BY DEF ExportFails, converting
<1>3. Begun("exports") /\ api # NoApi /\ stage = NoStage
  BY <1>2, ExportsFacts
<1>4. Base' /\ ErrorsAdded
  BY ExportFailsBase, WorkingErrors DEF Working
<1>5. \A b \in built.stages : b.of \in todo \/ b.of = stage \/ StageComplete(draft, b)
  BY <1>2, <1>3 DEF Draft, DraftExports, Doing
<1>6. \A b \in built.stages : b.of = s => StageComplete(draft, b)'
  <2>1. Told("export", draft, s.name, "")'
    BY <1>1, <1>2 DEF Told, Tell, draft
  <2> QED
    BY <2>1 DEF StageComplete
<1>7. DraftExports'
  BY <1>1, <1>2, <1>3, <1>4, <1>5, <1>6, ExportsStep
<1>8. DraftOperation'
  BY <1>2, <1>3 DEF DraftOperation
<1>9. DraftHonest'
  BY <1>2, <1>3, <1>4, HonestStays
<1> QED
  BY <1>2, <1>3, <1>4, <1>7, <1>8, <1>9, ExportsDraft

\* A stage gets routes: what it had stays, and the new ones are honest.
LEMMA WiderHonest ==
  ASSUME Base, Draft, api # NoApi, UNCHANGED api, ErrorsAdded, NEW s, NEW routes,
         \A c \in built'.stages : \E b \in built.stages :
              c.of = b.of /\ c.routes = IF b.of = s THEN b.routes \cup routes ELSE b.routes,
         \A t \in routes : \E op \in Operations(s.document) :
           op.valid /\ op.name = t.name /\ RouteHonest(draft, s, t, op)'
  PROVE  DraftHonest'
<1> SUFFICES ASSUME NEW c \in built'.stages, NEW t \in c.routes
             PROVE  \E op \in Operations(c.of.document) :
                      op.valid /\ op.name = t.name /\ RouteHonest(draft, c.of, t, op)'
  BY DEF DraftHonest, Operations
<1>1. PICK b \in built.stages : c.of = b.of /\ c.routes = IF b.of = s THEN b.routes \cup routes ELSE b.routes
  OBVIOUS
<1>2. CASE t \in b.routes
  <2>1. PICK op \in Operations(b.of.document) : op.valid /\ op.name = t.name /\ RouteHonest(draft, b.of, t, op)
    BY <1>2 DEF Draft, DraftHonest
  <2> QED
    BY <1>1, <2>1, HonestKept
<1>3. CASE b.of = s /\ t \in routes
  BY <1>1, <1>3
<1> QED
  BY <1>1, <1>2, <1>3

LEMMA ExportStageDraft ==
  ASSUME Base, Draft, ExportStage PROVE Draft'
<1>1. pc = "exports" /\ UNCHANGED <<api, phase, route, payload>>
  BY ExportStageFacts
<1>2. PICK s \in todo :
        /\ todo' = todo \ {s}
        /\ \/ /\ Tell("document", s.name, "")
              /\ UNCHANGED <<pc, stage, next, built>>
           \/ /\ pc' = "operations" /\ stage' = s /\ next' = 1
              /\ \E url : Update(s, url, {})
  BY ExportStageFacts
<1>3. Begun("exports") /\ api # NoApi /\ stage = NoStage /\ route = NoRoute
  BY <1>1, ExportsFacts
<1>4. Base' /\ ErrorsAdded
  BY ExportStageBase, WorkingErrors DEF Working
<1>5. \A b \in built.stages : b.of \in todo \/ StageComplete(draft, b)
  <2>1. \A b \in built.stages : b.of # stage
    BY <1>3, CurrentApi, ApiFields DEF Base, Shape
  <2> QED
    BY <1>1, <1>3, <2>1 DEF Draft, DraftExports, Doing
<1>6. DraftOperation'
  BY <1>1, <1>3 DEF DraftOperation
<1>7. CASE Tell("document", s.name, "") /\ UNCHANGED <<pc, stage, next, built>>
  <2>1. \A b \in built.stages : b.of = s => StageComplete(draft, b)'
    <3>1. Told("document", draft, s.name, "")'
      BY <1>1, <1>7 DEF Told, Tell, draft
    <3> QED
      BY <3>1 DEF StageComplete
  <2>2. DraftExports'
    BY <1>1, <1>2, <1>3, <1>4, <1>5, <1>7, <2>1, ExportsStep
  <2>3. DraftHonest'
    BY <1>1, <1>3, <1>4, <1>7, HonestStays
  <2> QED
    BY <1>1, <1>3, <1>4, <1>6, <1>7, <2>2, <2>3, ExportsDraft
<1>8. CASE pc' = "operations" /\ stage' = s /\ next' = 1 /\ \E url : Update(s, url, {})
  <2>1. /\ built'.routes = built.routes /\ built'.complete = built.complete
        /\ built'.certificates = built.certificates
        /\ \A b \in built.stages : \E c \in built'.stages : c.of = b.of
        /\ \A c \in built'.stages : \E b \in built.stages :
             c.of = b.of /\ c.routes = IF b.of = s THEN b.routes \cup {} ELSE b.routes
    BY <1>1, <1>8, Updated
  <2>2. \A c \in built'.stages : \E b \in built.stages : c.of = b.of /\ b.routes \subseteq c.routes
                                                          /\ (b.of \in todo \/ StageComplete(draft, b))
    BY <1>5, <2>1
  <2>3. \A c \in built'.stages : c.of \in todo' \/ c.of = stage' \/ StageComplete(draft, c)'
                                  \/ \E b \in built.stages : c.of = b.of /\ StageComplete(draft, b)
                                                             /\ b.routes \subseteq c.routes
    BY <1>2, <1>8, <2>2
  <2>4. \A i \in DOMAIN Document'.operations : ~(i < next')
    <3>1. stage' # NoStage /\ IsDocument(s.document)
      BY <1>1, <1>8, ExportsFacts
    <3>2. DOMAIN s.document.operations = 1 .. Len(s.document.operations) /\ Len(s.document.operations) \in Nat
      BY <1>1, ExportsFacts
    <3>3. \A i \in DOMAIN s.document.operations : ~(i < 1)
      BY <3>2
    <3> QED
      BY <1>8, <3>3 DEF Document
  <2>5. DraftExports'
    BY <1>1, <1>3, <1>4, <2>2, <2>3, <2>4, ExportsStep
  <2>6. DraftHonest'
    <3> DEFINE none == {}
    <3>1. \A c \in built'.stages : \E b \in built.stages :
            c.of = b.of /\ c.routes = IF b.of = s THEN b.routes \cup none ELSE b.routes
      BY <2>1
    <3>2. \A t \in none : \E op \in Operations(s.document) :
            op.valid /\ op.name = t.name /\ RouteHonest(draft, s, t, op)'
      OBVIOUS
    <3> HIDE DEF none
    <3> QED
      BY <1>1, <1>3, <1>4, <3>1, <3>2, WiderHonest
  <2> QED
    BY <1>1, <1>3, <1>4, <1>6, <2>1, <2>5, <2>6, ExportsDraft
<1> QED
  BY <1>2, <1>7, <1>8

----------------------------------------------------------------------------
(***************************************************************************)
(* The draft, while the operations of a stage are converted.               *)
(***************************************************************************)
LEMMA StageStep ==
  ASSUME Base, Base', Draft, UNCHANGED <<api, phase, todo, stage>>, ErrorsAdded, stage # NoStage,
         NEW op, op = Operation,
         \A c \in built'.stages : \E b \in built.stages : c.of = b.of /\ b.routes \subseteq c.routes,
         \A b \in built.stages : \E c \in built'.stages : c.of = b.of,
         built'.routes = built.routes, built'.complete = built.complete, built'.certificates = built.certificates,
         \/ next' = next
         \/ /\ next' = next + 1
            /\ \A c \in built'.stages : c.of = stage => OperationComplete(draft, c, op)',
         DraftOperation', DraftHonest'
  PROVE  Draft'
<1>1. /\ api # NoApi /\ Begun("exports") /\ next \in Nat /\ Document' = Document
      /\ \A i \in DOMAIN Document.operations : i \in Nat
      /\ pc \in {"operations"} \cup Converting
  BY StageFacts DEF Document
<1>2. \A b \in built.stages : b.of \in todo \/ b.of = stage \/ StageComplete(draft, b)
  BY <1>1 DEF Draft, DraftExports, Doing, Converting
<1>3. \A c \in built'.stages : c.of \in todo' \/ c.of = stage' \/ StageComplete(draft, c)'
                                  \/ \E b \in built.stages : c.of = b.of /\ StageComplete(draft, b)
                                                             /\ b.routes \subseteq c.routes
  BY <1>2
<1>4. ASSUME NEW c \in built'.stages, c.of = stage, NEW i \in DOMAIN Document.operations, i < next'
      PROVE  OperationComplete(draft, c, Document.operations[i])'
  <2>1. CASE i < next
    <3>1. PICK b \in built.stages : c.of = b.of /\ b.routes \subseteq c.routes
      OBVIOUS
    <3>2. OperationComplete(draft, b, Document.operations[i])
      BY <1>1, <1>4, <2>1, <3>1 DEF Draft, DraftExports
    <3>3. OperationComplete(draft, c, Document.operations[i])'
      <4>1. PICK earlier : earlier = Document.operations[i] /\ earlier = Document'.operations[i]
        BY <1>1
      <4>2. OperationComplete(draft, c, earlier)'
        BY <3>1, <3>2, <4>1, OperationKept
      <4> QED
        BY <4>1, <4>2
    <3> QED
      BY <3>3
  <2>2. CASE ~(i < next)
    <3>1. next' = next + 1 /\ i = next
      BY <1>1, <1>4, <2>2
    <3>2. op = Document'.operations[i] /\ OperationComplete(draft, c, op)'
      BY <1>1, <1>4, <3>1 DEF Operation
    <3> QED
      BY <3>2
  <2> QED
    BY <2>1, <2>2
<1>5. DraftExports'
  BY <1>1, <1>3, <1>4, ExportsStep
<1> QED
  BY <1>1, <1>5, ExportsDraft

\* Nothing is added to the report before the route is appended.
LEMMA OperationStep ==
  ASSUME Base, Base', Draft, UNCHANGED <<api, phase, todo, stage, next, built>>, ErrorsAdded, stage # NoStage,
         DraftOperation'
  PROVE  Draft'
<1>1. DraftHonest'
  BY StageFacts, HonestStays
<1>2. PICK op : op = Operation
  OBVIOUS
<1> QED
  BY <1>1, <1>2, StageStep

LEMMA SkipOperationDraft ==
  ASSUME Base, Draft, SkipOperation PROVE Draft'
<1>1. /\ pc = "operations" /\ Tell("operation", stage.name, Operation.name) /\ next' = next + 1
      /\ UNCHANGED <<pc, api, phase, todo, stage, route, payload, built>>
  BY DEF SkipOperation
<1>2. stage # NoStage /\ route = NoRoute /\ api # NoApi
  BY <1>1, OperationsFacts, StageFacts
<1>3. Base' /\ ErrorsAdded
  BY SkipOperationBase, WorkingErrors DEF Working
<1>4. PICK op : op = Operation
  OBVIOUS
<1>5. \A c \in built'.stages : c.of = stage => OperationComplete(draft, c, op)'
  <2>1. <<"operation", api'.name, stage.name, op.name>> \in errors'
    BY <1>1, <1>4 DEF Tell
  <2> QED
    BY <2>1 DEF OperationComplete, Told, draft
<1>6. DraftOperation'
  BY <1>1, <1>2 DEF DraftOperation
<1>7. DraftHonest'
  BY <1>1, <1>2, <1>3, HonestStays
<1> QED
  BY <1>1, <1>2, <1>3, <1>4, <1>5, <1>6, <1>7, StageStep

LEMMA OperationsDoneDraft ==
  ASSUME Base, Draft, OperationsDone PROVE Draft'
<1>1. /\ pc = "operations" /\ next > Len(Document.operations) /\ pc' = "exports" /\ stage' = NoStage
      /\ UNCHANGED <<api, phase, todo, route, payload, built, errors>>
  BY DEF OperationsDone
<1>2. stage # NoStage /\ route = NoRoute /\ api # NoApi /\ Begun("exports")
  BY <1>1, OperationsFacts, StageFacts
<1>3. Base' /\ ErrorsAdded
  BY OperationsDoneBase, <1>1, ErrorsKept
<1>4. \A i \in DOMAIN Document.operations : i < next
  <2>1. /\ Len(Document.operations) \in Nat /\ DOMAIN Document.operations = 1 .. Len(Document.operations)
        /\ next \in 1 .. Len(Document.operations) + 1
    BY <1>2, StageFacts
  <2> DEFINE L == Len(Document.operations)
  <2>2. L \in Nat /\ next \in 1 .. L + 1 /\ next > L
    BY <1>1, <2>1
  <2> HIDE DEF L
  <2>3. \A i \in 1 .. L : i < next
    BY <2>2
  <2> QED
    BY <2>1, <2>3 DEF L
<1>5. \A b \in built.stages : b.of = stage => StageComplete(draft, b)
  BY <1>2, <1>4 DEF Draft, DraftExports, StageComplete, Document
<1>6. \A b \in built.stages : b.of \in todo \/ StageComplete(draft, b)
  BY <1>1, <1>2, <1>5 DEF Draft, DraftExports, Doing
<1>7. DraftExports'
  BY <1>1, <1>2, <1>3, <1>6, ExportsStep
<1>8. DraftOperation'
  BY <1>1 DEF DraftOperation
<1>9. DraftHonest'
  BY <1>1, <1>2, <1>3, HonestStays
<1> QED
  BY <1>1, <1>2, <1>3, <1>7, <1>8, <1>9, ExportsDraft

LEMMA BeginOperationDraft ==
  ASSUME Base, Draft, BeginOperation PROVE Draft'
<1>1. /\ pc = "operations" /\ pc' = "reference" /\ stage # NoStage
      /\ next \in DOMAIN Document.operations /\ Operation.valid
      /\ payload' = Operation.integration
      /\ UNCHANGED <<api, phase, todo, stage, next, built>>
  BY BeginOperationFacts
<1> DEFINE security == EffectiveSecurity(Document, Operation)
           known == Representable(Document, security)
           access == IF known THEN Authorization(Document, security) ELSE Unknown
<1>2. /\ route' = NewRoute(Operation.name, access)
      /\ TellIf(~known, "authorization", stage.name, Operation.name)
  BY BeginOperationFacts
<1>3. Base' /\ ErrorsAdded /\ api # NoApi /\ IsDocument(Document)
  BY <1>1, BeginOperationBase, WorkingErrors, StageFacts DEF Working
<1>4. Operation' = Operation /\ Document' = Document
  BY <1>1 DEF Operation, Document
<1>5. route'.name = Operation.name /\ route'.auth = access.auth /\ route'.key = access.key
  <2> HIDE DEF access
  <2> QED
    BY <1>2, NewRouteFacts
<1>6. RouteHonest(draft, stage, route, Operation)'
  <2>1. CASE known
    <3> DEFINE demanded == Demanded(Document, Operation)
    <3>1. /\ access.auth # "unknown"
          /\ access.auth = "NONE" <=> demanded \subseteq {"key"}
          /\ access.auth # "NONE" => access.auth \in demanded
          /\ access.key = Known("key" \in demanded)
      BY <1>1, <1>3, <2>1, AuthorizationHonest DEF Operation
    <3> HIDE DEF access, demanded
    <3>2. /\ route'.auth # "unknown"
          /\ route'.auth = "NONE" <=> demanded \subseteq {"key"}
          /\ route'.auth # "NONE" => route'.auth \in demanded
          /\ route'.key = Known("key" \in demanded)
      BY <1>5, <3>1
    <3>3. demanded = Demanded(stage'.document, Operation')
      BY <1>1, <1>4 DEF demanded, Document
    <3> QED
      BY <3>2, <3>3 DEF RouteHonest
  <2>2. CASE ~known
    <3>1. route'.auth = "unknown"
      BY <1>5, <2>2 DEF Unknown
    <3>2. Told("authorization", draft, stage.name, route.name)'
      BY <1>1, <1>2, <1>5, <2>2 DEF Told, TellIf, Tell, draft
    <3> QED
      BY <3>1, <3>2 DEF RouteHonest
  <2> QED
    BY <2>1, <2>2
<1>7. payload' \in Reachable(Document', Operation'.integration)
  BY <1>1, <1>4, ReachableFromItself
<1>8. DraftOperation'
  BY <1>1, <1>6, <1>7 DEF DraftOperation
<1> QED
  BY <1>1, <1>3, <1>8, OperationStep

\* The integration of an operation is looked for; its access stays what it is.
LEMMA LookStep ==
  ASSUME Base, Draft, pc = "reference",
         FollowReference \/ IntegrationMissing \/ IntegrationFound,
         pc' = "reference" => payload' = Invalid \/ payload' \in Reachable(Document, Operation.integration),
         pc' = "backend" => \E p \in Ends(Document, Operation.integration) : payload' = Resolved(p, stage.variables),
         pc' = "append" => Told("integration", draft, stage.name, route.name)'
  PROVE  Draft'
<1>1. UNCHANGED <<api, phase, todo, stage, next, built, route>> /\ Base' /\ ErrorsAdded
  BY ReferenceBase, WorkingErrors DEF FollowReference, IntegrationMissing, IntegrationFound, converting, Working
<1>2. stage # NoStage /\ route # NoRoute /\ api # NoApi
  BY ConvertingFacts DEF Converting
<1>3. Operation' = Operation /\ Document' = Document
  BY <1>1 DEF Operation, Document
<1>4. RouteHonest(draft, stage, route, Operation)
  BY <1>2 DEF Draft, DraftOperation
<1>5. RouteHonest(draft, stage, route, Operation)'
  <2>1. PICK s, t, op : s = stage /\ t = route /\ op = Operation
    OBVIOUS
  <2>2. RouteHonest(draft, s, t, op)'
    BY <1>1, <1>4, <2>1, HonestKept
  <2> QED
    BY <1>1, <1>3, <2>1, <2>2
<1>6. DraftOperation'
  BY <1>1, <1>3, <1>5 DEF DraftOperation
<1> QED
  BY <1>1, <1>2, <1>6, OperationStep

LEMMA FollowReferenceDraft ==
  ASSUME Base, Draft, FollowReference PROVE Draft'
<1>1. /\ pc = "reference" /\ UNCHANGED pc /\ payload # Invalid
      /\ payload' = IF payload.ref \in DOMAIN Document.components \ seen
                    THEN Document.components[payload.ref] ELSE Invalid
  BY DEF FollowReference
<1>2. stage # NoStage /\ route # NoRoute /\ api # NoApi
  BY <1>1, ConvertingFacts DEF Converting
<1>3. payload \in Reachable(Document, Operation.integration)
  BY <1>1, <1>2 DEF Draft, DraftOperation
<1>4. payload' = Invalid \/ payload' \in Reachable(Document, Operation.integration)
  BY <1>1, <1>3, ReachableByReference
<1> QED
  BY <1>1, <1>4, LookStep

LEMMA IntegrationMissingDraft ==
  ASSUME Base, Draft, IntegrationMissing PROVE Draft'
<1>1. pc = "reference" /\ pc' = "append" /\ Tell("integration", stage.name, route.name) /\ UNCHANGED <<api, stage, route>>
  BY DEF IntegrationMissing, converting
<1>2. Told("integration", draft, stage.name, route.name)'
  BY <1>1 DEF Told, Tell, draft
<1> QED
  BY <1>1, <1>2, LookStep

LEMMA IntegrationFoundDraft ==
  ASSUME Base, Draft, IntegrationFound PROVE Draft'
<1>1. /\ pc = "reference" /\ pc' = "backend" /\ payload # Invalid /\ payload.ref = ""
      /\ payload' = Resolved(payload, stage.variables)
  BY DEF IntegrationFound
<1>2. stage # NoStage /\ route # NoRoute /\ api # NoApi
  BY <1>1, ConvertingFacts DEF Converting
<1>3. payload \in Reachable(Document, Operation.integration)
  BY <1>1, <1>2 DEF Draft, DraftOperation
<1>4. payload \in Ends(Document, Operation.integration)
  BY <1>1, <1>3 DEF Ends
<1> QED
  BY <1>1, <1>4, LookStep

\* A conversion that finds a backend finds that of the integration.
LEMMA ConvertedBackend ==
  ASSUME Converted # NoBackend, NEW t, t.backend = Converted, t.balancers = {}
  PROVE  BackendOf(t, payload)
<1> USE DEF BackendOf
<1>1. \A uri, connection : VpcLinkBackend(uri, connection) # NoBackend => VpcLinkBackend(uri, connection) = <<"vpc_link", uri>>
  BY DEF VpcLinkBackend
<1>2. CASE Converted = VpcLinkBackend(payload.target, payload.connection)
  BY <1>1, <1>2
<1>3. CASE Converted = VpcLinkBackend(payload.uri, payload.connection)
  BY <1>1, <1>3
<1>4. CASE Converted = Backend(payload)
  <2>1. \/ Backend(payload) = <<payload.type, payload.uri>>
        \/ Backend(payload) = <<"lambda", payload.uri>>
        \/ payload.type = "mock" /\ Backend(payload) = <<"mock", "">>
        \/ Backend(payload) = NoBackend
    <3>1. CASE IsHttp(payload)
      BY <3>1 DEF Backend, IsHttp
    <3>2. CASE payload.type = "aws"
      BY <3>2 DEF Backend, IsHttp
    <3>3. CASE payload.type = "aws_proxy"
      BY <3>3 DEF Backend, IsHttp
    <3>4. CASE payload.type = "mock"
      BY <3>4 DEF Backend, IsHttp
    <3>5. CASE payload.type \notin {"aws", "aws_proxy", "mock"} /\ ~IsHttp(payload)
      BY <3>5 DEF Backend
    <3> QED
      BY <3>1, <3>2, <3>3, <3>4, <3>5
  <2> QED
    BY <1>4, <2>1
<1>5. \/ Converted = VpcLinkBackend(payload.target, payload.connection)
      \/ Converted = VpcLinkBackend(payload.uri, payload.connection)
      \/ Converted = Backend(payload) \/ Converted = NoBackend
  BY DEF Converted, ConvertV2Integration
<1> QED
  BY <1>2, <1>3, <1>4, <1>5

LEMMA ConvertOutcome ==
  ASSUME Base, Convert \/ ConvertLink
  PROVE  /\ pc = "backend" /\ pc' = "append" /\ route' # NoRoute
         /\ UNCHANGED <<api, phase, todo, stage, next, built>>
         /\ route'.name = route.name /\ route'.auth = route.auth /\ route'.key = route.key
         /\ BackendOf(route', payload) \/ <<"backend", api.name, StageName, route.name>> \in errors'
<1>1. pc = "backend" /\ UNCHANGED <<api, phase, todo, stage, next, built>>
  BY ConvertFacts
<1>2. PICK backend, balancers, told :
         /\ FinishRoute(backend, balancers, told)
         /\ \/ told
            \/ backend = <<"vpc_link", payload.connection>> /\ balancers = Links[payload.connection]
            \/ backend = Converted /\ backend # NoBackend /\ balancers = {} /\ ~ByLinkCall
  BY ConvertFacts
<1>3. /\ pc' = "append" /\ route' # NoRoute
      /\ route'.name = route.name /\ route'.auth = route.auth /\ route'.key = route.key
      /\ route'.backend = backend /\ route'.balancers = balancers
      /\ told => <<"backend", api.name, StageName, route.name>> \in errors'
  BY <1>1, <1>2, Finished
<1>4. CASE backend = <<"vpc_link", payload.connection>> /\ balancers = Links[payload.connection]
  BY <1>1, <1>3, <1>4 DEF BackendOf
<1>5. CASE backend = Converted /\ backend # NoBackend /\ balancers = {}
  BY <1>1, <1>3, <1>5, ConvertedBackend
<1> QED
  BY <1>1, <1>2, <1>3, <1>4, <1>5

LEMMA ConvertInStage ==
  ASSUME Base, Draft, Convert \/ ConvertLink, stage # NoStage PROVE Draft'
<1>1. /\ pc = "backend" /\ pc' = "append" /\ route' # NoRoute
      /\ UNCHANGED <<api, phase, todo, stage, next, built>>
      /\ route'.name = route.name /\ route'.auth = route.auth /\ route'.key = route.key
      /\ BackendOf(route', payload) \/ <<"backend", api.name, StageName, route.name>> \in errors'
  BY ConvertOutcome
<1>2. Base' /\ ErrorsAdded /\ route # NoRoute /\ api # NoApi
  BY <1>1, ConvertBase, WorkingErrors, ConvertingFacts DEF Working, Converting
<1>3. Operation' = Operation /\ Document' = Document
  BY <1>1 DEF Operation, Document
<1>4. RouteHonest(draft, stage, route, Operation) /\ \E p \in Ends(Document, Operation.integration) : payload = Resolved(p, stage.variables)
  BY <1>1, <1>2 DEF Draft, DraftOperation
<1>5. RouteHonest(draft, stage, route, Operation)'
  <2>1. PICK s, t, op : s = stage /\ t = route /\ op = Operation
    OBVIOUS
  <2>2. RouteHonest(draft, s, t, op)'
    BY <1>1, <1>2, <1>4, <2>1, HonestKept
  <2>3. PICK u : u = route'
    OBVIOUS
  <2>4. RouteHonest(draft, s, u, op)'
    BY <1>1, <2>1, <2>2, <2>3 DEF RouteHonest
  <2> QED
    BY <1>1, <1>3, <2>1, <2>3, <2>4
<1>6. \/ Told("backend", draft, stage.name, route.name)'
      \/ \E p \in Ends(Document, Operation.integration) : BackendOf(route', Resolved(p, stage.variables))
  BY <1>1, <1>4 DEF Told, draft, StageName
<1>7. DraftOperation'
  BY <1>1, <1>3, <1>5, <1>6 DEF DraftOperation
<1> QED
  BY <1>1, <1>2, <1>7, OperationStep

LEMMA AppendInStage ==
  ASSUME Base, Draft, AppendRoute, stage # NoStage PROVE Draft'
<1>1. /\ pc = "append" /\ pc' = "operations" /\ route' = NoRoute /\ next' = next + 1 /\ Update(stage, "", {route})
      /\ UNCHANGED <<api, phase, todo, stage, errors>>
  BY DEF AppendRoute
<1>2. /\ Base' /\ ErrorsAdded /\ route # NoRoute /\ api # NoApi
      /\ next \in DOMAIN Document.operations /\ Operation.valid /\ route.name = Operation.name
  BY <1>1, AppendRouteBase, ErrorsKept, ConvertingFacts DEF Converting
<1>3. PICK s, t, op, ts : s = stage /\ t = route /\ op = Operation /\ ts = {route}
  OBVIOUS
<1>4. /\ built'.routes = built.routes /\ built'.complete = built.complete
      /\ built'.certificates = built.certificates
      /\ \A b \in built.stages : \E c \in built'.stages : c.of = b.of
      /\ \A c \in built'.stages : \E b \in built.stages :
           c.of = b.of /\ c.routes = IF b.of = s THEN b.routes \cup ts ELSE b.routes
  <2>1. PICK url : Update(s, url, ts)
    BY <1>1, <1>3
  <2>2. UNCHANGED api
    BY <1>1
  <2> QED
    BY <2>1, <2>2, Updated
<1>5. /\ RouteHonest(draft, s, t, op)
      /\ \/ Told("integration", draft, s.name, t.name)
         \/ Told("backend", draft, s.name, t.name)
         \/ \E p \in Ends(s.document, op.integration) : BackendOf(t, Resolved(p, s.variables))
  BY <1>1, <1>2, <1>3 DEF Draft, DraftOperation, Document
<1>6. DraftHonest'
  <2>1. op \in Operations(s.document) /\ op.valid /\ op.name = t.name /\ RouteHonest(draft, s, t, op)'
    BY <1>1, <1>2, <1>3, <1>5, HonestKept DEF Operations, Operation, Document
  <2>2. \A u \in ts : \E o \in Operations(s.document) : o.valid /\ o.name = u.name /\ RouteHonest(draft, s, u, o)'
    BY <1>3, <2>1
  <2> QED
    BY <1>1, <1>2, <1>4, <2>2, WiderHonest
<1>7. \A c \in built'.stages : c.of = stage => OperationComplete(draft, c, op)'
  <2> SUFFICES ASSUME NEW c \in built'.stages, c.of = stage PROVE OperationComplete(draft, c, op)'
    OBVIOUS
  <2>1. t \in c.routes /\ c.of = s /\ t.name = op.name
    BY <1>2, <1>3, <1>4
  <2>2. \/ Told("integration", draft, s.name, t.name)' \/ Told("backend", draft, s.name, t.name)'
        \/ \E p \in Ends(s.document, op.integration) : BackendOf(t, Resolved(p, s.variables))
    BY <1>1, <1>2, <1>5, ToldKept
  <2> QED
    BY <2>1, <2>2 DEF OperationComplete
<1>8. DraftOperation'
  BY <1>1 DEF DraftOperation
<1>9. \A c \in built'.stages : \E b \in built.stages : c.of = b.of /\ b.routes \subseteq c.routes
  BY <1>4
<1> QED
  BY <1>1, <1>2, <1>3, <1>4, <1>6, <1>7, <1>8, <1>9, StageStep

----------------------------------------------------------------------------
(***************************************************************************)
(* The draft, while the routes of the API itself are read.                 *)
(***************************************************************************)
LEMMA RoutesDraft ==
  ASSUME Base, Draft, api # NoApi, UNCHANGED <<api, phase>>, ErrorsAdded, Begun("routes"), stage' = NoStage,
         built'.stages = built.stages, built'.certificates = built.certificates, DraftRoutes', DraftKeys'
  PROVE  Draft'
<1>1. ~Begun("exports") /\ ~Begun("certificates")
  BY BegunOnce DEF Base
<1>2. DraftStages'
  BY StagesStay
<1>3. DraftExports' /\ DraftOperation' /\ DraftHonest' /\ DraftDomains'
  BY <1>1, ExportsStay, DomainsStay
<1> QED
  BY <1>2, <1>3 DEF Draft

LEMMA ListRoutesDraft ==
  ASSUME Base, Draft, ListRoutes PROVE Draft'
<1>1. PICK failed \in BOOLEAN : Lists(api.routes, "GetRoutes", failed) /\ built' = [built EXCEPT !.complete = ~failed]
  BY DEF ListRoutes
<1>2. /\ Begins("routes") /\ pc' = "routes" /\ UNCHANGED <<api, phase, stage, route>>
  BY DEF ListRoutes, converting
<1>3. PICK got \in SUBSET api.routes :
        (failed \/ got = api.routes) /\ todo' = got /\ TellIf(failed, "GetRoutes", "", "")
  BY <1>1 DEF Lists
<1>4. pc = "begin" /\ Begun("routes") /\ api # NoApi /\ stage = NoStage /\ route = NoRoute
  BY <1>2, PhaseBegins
<1>5. ErrorsAdded
  BY WorkingErrors DEF Working
<1>6. /\ built'.stages = built.stages /\ built'.certificates = built.certificates /\ built'.routes = built.routes
      /\ built'.complete = ~failed
  BY <1>1 DEF Base, Shape
<1>7. ~Past("routes") /\ ~Past("routes")' /\ ~OfTheApi' /\ ~OfTheApi
  BY <1>2, <1>4, BegunOnce, SamePhase DEF Base, OfTheApi
<1>8. DraftRoutes'
  <2>1. failed => \A m \in api.routes : RouteListed(draft, m)'
    <3>1. failed => Told("GetRoutes", draft, "", "")'
      BY <1>2, <1>3 DEF Told, TellIf, Tell, draft
    <3> QED
      BY <3>1 DEF RouteListed
  <2>2. ~failed => \A m \in api.routes : m \in todo'
    BY <1>3
  <2> QED
    BY <1>2, <1>7, <2>1, <2>2 DEF DraftRoutes
<1>9. DraftKeys'
  <2>1. DirectRoutes' = DirectRoutes
    BY <1>6, <1>7 DEF DirectRoutes
  <2>2. built'.complete => \A m \in api.routes : m \in todo'
    BY <1>3, <1>6
  <2> QED
    BY <1>2, <1>4, <1>7, <2>1, <2>2 DEF Draft, DraftKeys
<1> QED
  BY <1>2, <1>4, <1>5, <1>6, <1>8, <1>9, RoutesDraft

LEMMA RouteFailsDraft ==
  ASSUME Base, Draft, RouteFails PROVE Draft'
<1>1. PICK r \in todo : todo' = todo \ {r} /\ Tell("route", "", r.name)
  BY DEF RouteFails
<1>2. /\ pc = "routes" /\ built' = [built EXCEPT !.complete = FALSE]
      /\ UNCHANGED <<pc, api, phase, stage, route>>
  BY DEF RouteFails, converting
<1>3. Begun("routes") /\ api # NoApi /\ stage = NoStage /\ route = NoRoute /\ todo \subseteq api.routes
  BY <1>2, RoutesFacts
<1>4. ErrorsAdded
  BY WorkingErrors DEF Working
<1>5. /\ built'.stages = built.stages /\ built'.certificates = built.certificates /\ built'.routes = built.routes
      /\ ~built'.complete
  BY <1>2 DEF Base, Shape
<1>6. ~Past("routes") /\ ~Past("routes")' /\ ~OfTheApi' /\ ~OfTheApi
  BY <1>2, <1>3, BegunOnce, SamePhase DEF Base, OfTheApi
<1>7. DraftRoutes'
  <2>1. RouteListed(draft, r)'
    BY <1>1, <1>2 DEF RouteListed, Told, Tell, draft
  <2>2. \A m \in api.routes : RouteListed(draft, m) \/ m \in todo
    BY <1>2, <1>3, <1>6 DEF Draft, DraftRoutes, Doing, InProgress
  <2>3. \A m \in api.routes : RouteListed(draft, m) => RouteListed(draft, m)'
    BY <1>2, <1>4, <1>5, RouteListedKept
  <2> QED
    BY <1>1, <1>2, <1>6, <2>1, <2>2, <2>3 DEF DraftRoutes
<1>8. DraftKeys'
  <2>1. DirectRoutes' = DirectRoutes
    BY <1>5, <1>6 DEF DirectRoutes
  <2> QED
    BY <1>2, <1>3, <1>5, <2>1 DEF Draft, DraftKeys
<1> QED
  BY <1>2, <1>3, <1>4, <1>5, <1>7, <1>8, RoutesDraft

LEMMA AskRouteDraft ==
  ASSUME Base, Draft, AskRoute PROVE Draft'
<1>1. /\ pc = "routes" /\ UNCHANGED <<api, phase, stage, built>> /\ route' # NoRoute
  BY AskRouteFacts
<1>2. PICK r \in todo :
              /\ todo' = todo \ {r} /\ route'.name = r.name /\ route'.key \in {r.key, "unknown"}
              /\ \/ r.integration = Invalid /\ pc' = "append" /\ UNCHANGED errors
                 \/ pc' = "backend" /\ payload' = r.integration /\ UNCHANGED errors
                 \/ pc' = "append" /\ Tell("integration", "", r.name)
  BY AskRouteFacts
<1>3. Begun("routes") /\ api # NoApi /\ stage = NoStage /\ route = NoRoute /\ todo \subseteq api.routes
  BY <1>1, RoutesFacts
<1>4. ErrorsAdded
  BY WorkingErrors DEF Working
<1>5. ~Past("routes") /\ ~Past("routes")' /\ OfTheApi' /\ ~OfTheApi
  BY <1>1, <1>3, BegunOnce, SamePhase DEF Base, OfTheApi
<1>6. DraftRoutes'
  <2>1. InProgress(r)'
    <3>1. r.integration = Invalid \/ Tell("integration", "", r.name) => RouteComplete(draft, route, r)'
      BY <1>1, <1>2 DEF RouteComplete, Told, Tell, draft
    <3> QED
      BY <1>2, <1>5, <3>1 DEF InProgress
  <2>2. \A m \in api.routes : RouteListed(draft, m) \/ m \in todo
    BY <1>1, <1>3, <1>5 DEF Draft, DraftRoutes, Doing, InProgress
  <2>3. \A m \in api.routes : RouteListed(draft, m) => RouteListed(draft, m)'
    BY <1>1, <1>4, RouteListedKept
  <2> QED
    BY <1>1, <1>2, <1>5, <2>1, <2>2, <2>3 DEF DraftRoutes
<1>7. DraftKeys'
  <2>1. DirectRoutes' = DirectRoutes \cup {route'} /\ route' \in DirectRoutes'
    BY <1>1, <1>5 DEF DirectRoutes
  <2>2. \A t \in DirectRoutes' : t.key = "yes" => \E m \in api.routes : m.key = "yes"
    <3>1. \A t \in DirectRoutes : t.key = "yes" => \E m \in api.routes : m.key = "yes"
      BY <1>3 DEF Draft, DraftKeys
    <3>2. route'.key = "yes" => r.key = "yes" /\ r \in api.routes
      BY <1>2, <1>3
    <3> QED
      BY <2>1, <3>1, <3>2
  <2>3. built.complete => \A m \in api.routes : m \in todo' \/ \E t \in DirectRoutes' : t.key \in {m.key, "unknown"}
    <3>1. built.complete => \A m \in api.routes : m \in todo \/ \E t \in DirectRoutes : t.key \in {m.key, "unknown"}
      BY <1>1, <1>3 DEF Draft, DraftKeys, Doing
    <3>2. \E t \in DirectRoutes' : t.key \in {r.key, "unknown"}
      BY <1>2, <2>1
    <3> QED
      BY <1>2, <2>1, <3>1, <3>2
  <2> QED
    BY <1>1, <1>5, <2>2, <2>3 DEF DraftKeys
<1> QED
  BY <1>1, <1>3, <1>4, <1>6, <1>7, RoutesDraft

LEMMA ConvertDirect ==
  ASSUME Base, Draft, Convert \/ ConvertLink, stage = NoStage PROVE Draft'
<1>1. /\ pc = "backend" /\ pc' = "append" /\ route' # NoRoute
      /\ UNCHANGED <<api, phase, todo, stage, next, built>>
      /\ route'.name = route.name /\ route'.auth = route.auth /\ route'.key = route.key
      /\ BackendOf(route', payload) \/ <<"backend", api.name, StageName, route.name>> \in errors'
  BY ConvertOutcome
<1>2. ErrorsAdded /\ route # NoRoute /\ api # NoApi /\ Begun("routes")
  BY <1>1, WorkingErrors, ConvertingFacts DEF Working, Converting
<1>3. ~Past("routes") /\ ~Past("routes")' /\ OfTheApi' /\ OfTheApi
  BY <1>1, <1>2, BegunOnce, SamePhase DEF Base, OfTheApi
<1>4. DraftRoutes'
  <2>1. \A m \in api.routes : InProgress(m) => InProgress(m)'
    <3> SUFFICES ASSUME NEW m \in api.routes, InProgress(m) PROVE InProgress(m)'
      OBVIOUS
    <3>1. route'.name = m.name /\ payload = m.integration
      BY <1>1 DEF InProgress
    <3>2. BackendOf(route', m.integration) \/ Told("backend", draft, "", m.name)'
      BY <1>1, <3>1 DEF Told, draft, StageName, InProgress
    <3>3. RouteComplete(draft, route, m)'
      BY <3>1, <3>2 DEF RouteComplete
    <3> QED
      BY <1>1, <1>3, <3>1, <3>3 DEF InProgress
  <2>2. \A m \in api.routes : RouteListed(draft, m) \/ m \in todo \/ InProgress(m)
    BY <1>1, <1>2 DEF Draft, DraftRoutes, Doing
  <2>3. \A m \in api.routes : RouteListed(draft, m) => RouteListed(draft, m)'
    BY <1>1, <1>2, RouteListedKept
  <2> QED
    BY <1>1, <1>3, <2>1, <2>2, <2>3 DEF DraftRoutes
<1>5. DraftKeys'
  <2>1. DirectRoutes' = built.routes \cup {route'} /\ DirectRoutes = built.routes \cup {route}
    BY <1>1, <1>3 DEF DirectRoutes
  <2>2. \A t \in DirectRoutes' : \E u \in DirectRoutes : u.key = t.key
    BY <1>1, <2>1
  <2>3. \A t \in DirectRoutes : \E u \in DirectRoutes' : u.key = t.key
    BY <1>1, <2>1
  <2>4. \A t \in DirectRoutes' : t.key = "yes" => \E m \in api.routes : m.key = "yes"
    <3>1. \A t \in DirectRoutes : t.key = "yes" => \E m \in api.routes : m.key = "yes"
      BY <1>2 DEF Draft, DraftKeys
    <3> QED
      BY <2>2, <3>1
  <2>5. built.complete => \A m \in api.routes : m \in todo' \/ \E t \in DirectRoutes' : t.key \in {m.key, "unknown"}
    <3>1. built.complete => \A m \in api.routes : m \in todo \/ \E t \in DirectRoutes : t.key \in {m.key, "unknown"}
      BY <1>1, <1>2 DEF Draft, DraftKeys, Doing
    <3> QED
      BY <1>1, <2>3, <3>1
  <2> QED
    BY <1>1, <1>3, <2>4, <2>5 DEF DraftKeys
<1> QED
  BY <1>1, <1>2, <1>4, <1>5, RoutesDraft

LEMMA AppendDirect ==
  ASSUME Base, Draft, AppendRoute, stage = NoStage PROVE Draft'
<1>1. /\ pc = "append" /\ pc' = "routes" /\ route' = NoRoute
      /\ built' = [built EXCEPT !.routes = @ \cup {route}]
      /\ UNCHANGED <<api, phase, todo, stage, errors>>
  BY DEF AppendRoute
<1>2. ErrorsAdded /\ route # NoRoute /\ api # NoApi /\ Begun("routes")
  BY <1>1, ErrorsKept, ConvertingFacts DEF Converting
<1>3. ~Past("routes") /\ ~Past("routes")' /\ ~OfTheApi' /\ OfTheApi
  BY <1>1, <1>2, BegunOnce, SamePhase DEF Base, OfTheApi
<1>4. /\ built'.stages = built.stages /\ built'.certificates = built.certificates
      /\ built'.routes = built.routes \cup {route} /\ built'.complete = built.complete
  BY <1>1 DEF Base, Shape
<1>5. DraftRoutes'
  <2>1. \A m \in api.routes : InProgress(m) => RouteListed(draft, m)'
    <3> SUFFICES ASSUME NEW m \in api.routes, InProgress(m) PROVE RouteListed(draft, m)'
      OBVIOUS
    <3>1. PICK t : t = route
      OBVIOUS
    <3>2. RouteComplete(draft, t, m)
      BY <1>1, <3>1 DEF InProgress
    <3>3. RouteComplete(draft, t, m)' /\ t \in built'.routes
      BY <1>1, <1>2, <1>4, <3>1, <3>2, RouteCompleteKept
    <3> QED
      BY <3>3 DEF RouteListed, draft
  <2>2. \A m \in api.routes : RouteListed(draft, m) \/ m \in todo \/ InProgress(m)
    BY <1>1, <1>2 DEF Draft, DraftRoutes, Doing
  <2>3. \A m \in api.routes : RouteListed(draft, m) => RouteListed(draft, m)'
    BY <1>1, <1>2, <1>4, RouteListedKept
  <2> QED
    BY <1>1, <1>3, <2>1, <2>2, <2>3 DEF DraftRoutes
<1>6. DraftKeys'
  <2>1. DirectRoutes' = DirectRoutes
    BY <1>3, <1>4 DEF DirectRoutes
  <2> QED
    BY <1>1, <1>2, <1>3, <1>4, <2>1 DEF Draft, DraftKeys, Doing
<1> QED
  BY <1>1, <1>2, <1>4, <1>5, <1>6, RoutesDraft

----------------------------------------------------------------------------
(***************************************************************************)
(* The draft, while domains are read and from phase to phase.              *)
(***************************************************************************)
LEMMA DomainsDraft ==
  ASSUME Base, Base', Draft, api # NoApi, UNCHANGED <<api, phase>>, ErrorsAdded, Begun("certificates"),
         stage' = NoStage, route' = NoRoute,
         built'.stages = built.stages, built'.routes = built.routes, built'.complete = built.complete,
         DraftDomains'
  PROVE  Draft'
<1>1. ~Begun("exports") /\ ~Begun("routes") /\ ~OfTheApi'
  BY BegunOnce DEF Base, OfTheApi
<1>2. DraftStages'
  BY StagesStay
<1>3. DraftExports' /\ DraftOperation' /\ DraftHonest'
  BY <1>1, ExportsStay
<1>4. DraftRoutes' /\ DraftKeys'
  BY <1>1, RoutesStay
<1> QED
  BY <1>2, <1>3, <1>4 DEF Draft

LEMMA ListDomainsDraft ==
  ASSUME Base, Draft, ListDomains PROVE Draft'
<1>1. PICK failed \in BOOLEAN : Lists(Domains, "GetDomainNames", failed)
  BY DEF ListDomains
<1>2. /\ Begins("certificates") /\ pc' = "domains" /\ UNCHANGED <<api, phase, stage, route, built>>
  BY DEF ListDomains, converting
<1>3. PICK got \in SUBSET Domains :
        (failed \/ got = Domains) /\ todo' = got /\ TellIf(failed, "GetDomainNames", "", "")
  BY <1>1 DEF Lists
<1>4. pc = "begin" /\ Begun("certificates") /\ api # NoApi /\ stage = NoStage /\ route = NoRoute
  BY <1>2, PhaseBegins
<1>5. ErrorsAdded /\ Base'
  BY WorkingErrors, ListDomainsBase DEF Working
<1>6. ~Past("certificates") /\ ~Past("certificates")'
  BY <1>2, <1>4, BegunOnce, SamePhase DEF Base
<1>7. DraftDomains'
  <2>1. failed => \A d \in Domains : CertificateListed(draft, d)'
    <3>1. failed => Told("GetDomainNames", draft, "", "")'
      BY <1>2, <1>3 DEF Told, TellIf, Tell, draft
    <3> QED
      BY <3>1 DEF CertificateListed
  <2>2. ~failed => \A d \in Domains : d \in todo'
    BY <1>3
  <2> QED
    BY <1>6, <2>1, <2>2 DEF DraftDomains
<1> QED
  BY <1>2, <1>4, <1>5, <1>7, DomainsDraft

LEMMA AskDomainDraft ==
  ASSUME Base, Draft, AskDomain PROVE Draft'
<1>1. PICK d \in todo, failed \in BOOLEAN, found \in BOOLEAN :
       /\ todo' = todo \ {d}
       /\ d.named /\ ~failed => found = (api.name \in d.apis)
       /\ built' = IF found /\ d.certificate THEN [built EXCEPT !.certificates = @ \cup {d.name}] ELSE built
       /\ TellIf(failed \/ (api.version = "v2" /\ (~d.named \/ (found /\ ~d.certificate))), "domain", "", d.name)
  BY DEF AskDomain
<1>2. pc = "domains" /\ UNCHANGED <<pc, api, phase, stage, route>>
  BY DEF AskDomain, converting
<1>3. Begun("certificates") /\ api # NoApi /\ stage = NoStage /\ route = NoRoute
  BY <1>2, AtRest DEF Base, Control
<1>4. ErrorsAdded /\ Base'
  BY WorkingErrors, AskDomainBase DEF Working
<1>5. /\ built'.stages = built.stages /\ built'.routes = built.routes /\ built'.complete = built.complete
      /\ built.certificates \subseteq built'.certificates
      /\ found /\ d.certificate => d.name \in built'.certificates
  BY <1>1 DEF Base, Shape
<1>6. ~Past("certificates") /\ ~Past("certificates")'
  BY <1>2, <1>3, BegunOnce, SamePhase DEF Base
<1>7. CertificateListed(draft, d)'
  <2>1. CASE failed
    <3>1. Tell("domain", "", d.name)
      BY <1>1, <2>1 DEF TellIf
    <3>2. Told("domain", draft, "", d.name)'
      BY <1>2, <3>1 DEF Told, Tell, draft
    <3> QED
      BY <3>2 DEF CertificateListed
  <2>2. CASE ~failed
    BY <1>1, <1>2, <1>5, <2>2 DEF CertificateListed, draft
  <2> QED
    BY <2>1, <2>2
<1>8. DraftDomains'
  <2>1. \A e \in Domains : e \in todo \/ CertificateListed(draft, e)
    BY <1>2, <1>3 DEF Draft, DraftDomains, Doing
  <2>2. \A e \in Domains : CertificateListed(draft, e) => CertificateListed(draft, e)'
    BY <1>2, <1>4, <1>5, CertificateKept
  <2> QED
    BY <1>1, <1>6, <1>7, <2>1, <2>2 DEF DraftDomains
<1> QED
  BY <1>2, <1>3, <1>4, <1>5, <1>8, DomainsDraft

LEMMA ListStagesDraft ==
  ASSUME Base, Draft, ListStages PROVE Draft'
<1>1. PICK got \in SUBSET api.stages, failed \in BOOLEAN :
        /\ failed \/ got = api.stages
        /\ errors' = errors \cup (IF failed THEN {<<"GetStages", api.name, "", "">>} ELSE {})
                            \cup {<<"stage", api.name, s.name, "">> : s \in {t \in got : ~t.valid}}
                            \cup {<<"settings", api.name, s.name, "">> : s \in {t \in got : t.valid /\ ~t.settings}}
        /\ built' = [built EXCEPT !.listed = Cardinality(got),
                                  !.stages = {[name |-> s.name, of |-> s, url |-> "none", routes |-> {}] :
                                                s \in {t \in got : t.valid}}]
  BY ConvertedStages
<1>2. /\ pc = "begin" /\ Begun("stages") /\ api # NoApi
      /\ phase' = phase + 1
      /\ UNCHANGED <<pc, api, stage, route>>
  BY ConvertedStages DEF converting
<1>3. stage = NoStage /\ route = NoRoute
  BY <1>2, AtRest
<1>4. \A q : Past(q)' <=> Past(q) \/ q = "stages"
  BY <1>2, NextPhase DEF Base
<1>5. ~Past("exports")'
  <2>1. ~Past("stages")
    BY <1>2, BegunOnce DEF Base
  <2>2. ~Past("exports")
    BY <1>2, <2>1, StagesBeforeExports DEF Base
  <2> QED
    BY <1>4, <2>2
<1>6. /\ built'.routes = built.routes /\ built'.complete = built.complete /\ built'.certificates = built.certificates
      /\ built'.stages = {[name |-> s.name, of |-> s, url |-> "none", routes |-> {}] : s \in {t \in got : t.valid}}
  BY <1>1 DEF Base, Shape
<1>7. ErrorsAdded
  BY WorkingErrors DEF Working
<1>8. DraftStages'
  <2> SUFFICES ASSUME NEW s \in api.stages PROVE StageListed(draft, s)'
    BY <1>2 DEF DraftStages
  <2>1. CASE s \notin got
    <3>1. Told("GetStages", draft, "", "")'
      BY <1>1, <1>2, <2>1 DEF Told, draft
    <3> QED
      BY <3>1 DEF StageListed
  <2>2. CASE s \in got /\ ~s.valid
    <3>1. Told("stage", draft, s.name, "")'
      BY <1>1, <1>2, <2>2 DEF Told, draft
    <3> QED
      BY <3>1 DEF StageListed
  <2>3. CASE s \in got /\ s.valid
    <3>1. \E b \in built'.stages : b.of = s
      <4>1. [name |-> s.name, of |-> s, url |-> "none", routes |-> {}] \in built'.stages
        BY <1>6, <2>3
      <4>2. [name |-> s.name, of |-> s, url |-> "none", routes |-> {}].of = s
        OBVIOUS
      <4> QED
        BY <4>1, <4>2
    <3> QED
      BY <3>1 DEF StageListed, draft
  <2> QED
    BY <2>1, <2>2, <2>3
<1>9. DraftExports' /\ DraftOperation'
  BY <1>2, <1>3, <1>5 DEF DraftExports, DraftOperation, Doing
<1>10. DraftHonest'
  BY <1>6 DEF DraftHonest
<1>11. DraftRoutes' /\ DraftDomains'
  <2>1. Past("routes") => \A m \in api.routes : RouteListed(draft, m)'
    BY <1>2, <1>6, <1>7, RouteListedKept DEF Draft, DraftRoutes
  <2>2. Past("certificates") => \A d \in Domains : CertificateListed(draft, d)'
    BY <1>2, <1>6, <1>7, CertificateKept DEF Draft, DraftDomains
  <2> QED
    BY <1>2, <1>4, <2>1, <2>2 DEF DraftRoutes, DraftDomains, Doing
<1>12. DraftKeys'
  <2>1. DirectRoutes' = DirectRoutes
    BY <1>2, <1>6 DEF DirectRoutes, OfTheApi
  <2> QED
    BY <1>2, <1>4, <1>6, <2>1 DEF Draft, DraftKeys, Doing
<1> QED
  BY <1>8, <1>9, <1>10, <1>11, <1>12 DEF Draft

LEMMA PhaseDoneDraft ==
  ASSUME Base, Draft, PhaseDone PROVE Draft'
<1>1. /\ api # NoApi /\ stage = NoStage /\ route = NoRoute /\ todo = {} /\ pc' = "begin"
      /\ pc \in {"exports", "routes", "domains"}
      /\ phase' = phase + 1
      /\ UNCHANGED <<api, stage, route, built, errors>>
  BY PhaseDoneFacts DEF PhaseDone, converting
<1>2. PICK p : /\ Begun(p) /\ Doing(p)
               /\ p \in {"exports", "routes", "certificates"}
  BY <1>1, PhaseDoneFacts DEF Doing
<1>3. \A q : Past(q)' <=> Past(q) \/ q = p
  BY <1>1, <1>2, NextPhase DEF Base
<1>4. draft' = draft /\ \A what, r, s, subject : Told(what, r, s, subject)' <=> Told(what, r, s, subject)
  BY <1>1 DEF draft, Told
<1>5. ErrorsAdded
  BY <1>1, ErrorsKept
<1>6. DraftStages'
  <2>1. Past("stages") => \A s \in api.stages : StageListed(draft, s)'
    BY <1>1, <1>5, StageListedKept DEF Draft, DraftStages
  <2> QED
    BY <1>1, <1>2, <1>3, <2>1 DEF DraftStages
<1>7. DraftExports'
  <2>1. \A b \in built.stages : b.of # stage
    BY <1>1, CurrentApi, ApiFields DEF Base, Shape
  <2>2. Past("exports") \/ p = "exports" => \A b \in built.stages : StageComplete(draft, b)
    BY <1>1, <1>2, <2>1 DEF Draft, DraftExports
  <2>3. Past("exports") \/ p = "exports" => \A b \in built.stages : StageComplete(draft, b)'
    BY <1>1, <1>5, <2>2, StageKept
  <2> QED
    BY <1>1, <1>3, <2>3 DEF DraftExports, Doing
<1>8. DraftOperation'
  BY <1>1 DEF DraftOperation
<1>9. DraftHonest'
  BY <1>1, <1>5, HonestStays
<1>10. DraftRoutes'
  <2>1. Past("routes") \/ p = "routes" => \A m \in api.routes : RouteListed(draft, m)
    BY <1>1, <1>2 DEF Draft, DraftRoutes, InProgress, OfTheApi
  <2>2. Past("routes") \/ p = "routes" => \A m \in api.routes : RouteListed(draft, m)'
    BY <1>1, <1>5, <2>1, RouteListedKept
  <2> QED
    BY <1>1, <1>3, <2>2 DEF DraftRoutes, Doing
<1>11. DraftKeys'
  <2>1. DirectRoutes = built.routes /\ DirectRoutes' = built'.routes
    BY <1>1 DEF DirectRoutes, OfTheApi
  <2>2. built.complete => (Past("routes") \/ p = "routes" =>
          \A m \in api.routes : \E t \in built.routes : t.key \in {m.key, "unknown"})
    BY <1>1, <1>2, <2>1 DEF Draft, DraftKeys
  <2> QED
    BY <1>1, <1>3, <2>1, <2>2 DEF Draft, DraftKeys, Doing
<1>12. DraftDomains'
  <2>1. Past("certificates") \/ p = "certificates" => \A d \in Domains : CertificateListed(draft, d)
    BY <1>1, <1>2 DEF Draft, DraftDomains
  <2>2. Past("certificates") \/ p = "certificates" => \A d \in Domains : CertificateListed(draft, d)'
    BY <1>1, <1>5, <2>1, CertificateKept
  <2> QED
    BY <1>1, <1>3, <2>2 DEF DraftDomains, Doing
<1> QED
  BY <1>6, <1>7, <1>8, <1>9, <1>10, <1>11, <1>12 DEF Draft

\* An API that is taken up has nothing asked for yet.
LEMMA AcceptDraft ==
  ASSUME Base, NEW x \in Apis, Accept(x) PROVE Draft'
<1>1. /\ api' = x /\ phase' = 1 /\ pc' = "begin" /\ built' = Nothing /\ pc = "convert"
      /\ UNCHANGED <<stage, route>>
  BY DEF Accept, converting
<1>2. stage = NoStage /\ route = NoRoute
  BY <1>1 DEF Base, InStage, InRoute, Converting
<1>3. \A q : ~Past(q)' /\ ~Doing(q)'
  BY <1>1 DEF Past, Doing
<1>4. DirectRoutes' = {} /\ built'.stages = {} /\ built'.routes = {}
  BY <1>1, <1>2 DEF DirectRoutes, OfTheApi, Nothing
<1>5. DraftStages' /\ DraftExports' /\ DraftRoutes' /\ DraftDomains'
  BY <1>1, <1>2, <1>3 DEF DraftStages, DraftExports, DraftRoutes, DraftDomains
<1>6. DraftOperation' /\ DraftHonest' /\ DraftKeys'
  BY <1>1, <1>2, <1>3, <1>4 DEF DraftOperation, DraftHonest, DraftKeys
<1> QED
  BY <1>5, <1>6 DEF Draft

LEMMA WorkingDraft ==
  ASSUME Base, Draft, Working PROVE Draft'
<1>1. CASE Convert \/ ConvertLink
  BY <1>1, ConvertInStage, ConvertDirect
<1>2. CASE AppendRoute
  BY <1>2, AppendInStage, AppendDirect
<1> QED
  BY <1>1, <1>2, ListStagesDraft, BeginExportsDraft, ListRoutesDraft, ListDomainsDraft, PhaseDoneDraft,
     ExportFailsDraft, ExportStageDraft, SkipOperationDraft, BeginOperationDraft, FollowReferenceDraft,
     IntegrationMissingDraft, IntegrationFoundDraft, OperationsDoneDraft, RouteFailsDraft, AskRouteDraft,
     AskDomainDraft DEF Working

\* A step that does nothing.
LEMMA StutterDraft ==
  ASSUME Base, Draft, UNCHANGED vars PROVE Draft'
<1> SUFFICES ASSUME api # NoApi PROVE Draft'
  BY DEF Draft, vars
<1>1. /\ UNCHANGED <<pc, api, phase, todo, stage, next, route, payload, built, errors>>
      /\ Operation' = Operation /\ Document' = Document
  BY DEF vars, converting, Operation, Document
<1>2. ErrorsAdded
  BY <1>1, ErrorsKept
<1>3. \A p : (Past(p)' <=> Past(p)) /\ (Doing(p)' <=> Doing(p))
  BY <1>1, SamePhase DEF Doing
<1>4. DraftStages'
  BY <1>1, <1>2, StagesStay
<1>5. DraftHonest'
  BY <1>1, <1>2, HonestStays
<1>6. DraftExports'
  <2>1. \A b \in built.stages : StageComplete(draft, b) => StageComplete(draft, b)'
    BY <1>1, <1>2, StageKept
  <2>2. \A b \in built.stages : \A op : OperationComplete(draft, b, op) => OperationComplete(draft, b, op)'
    BY <1>1, <1>2, OperationKept
  <2>3. stage # NoStage =>
          \A b \in built.stages : b.of = stage =>
            \A i \in DOMAIN Document.operations : i < next => OperationComplete(draft, b, Document.operations[i])
    BY DEF Draft, DraftExports
  <2>4. stage' # NoStage =>
          \A b \in built'.stages : b.of = stage' =>
            \A i \in DOMAIN Document'.operations : i < next' => OperationComplete(draft, b, Document.operations[i])'
    <3> SUFFICES ASSUME stage # NoStage, NEW b \in built.stages, b.of = stage, NEW i \in DOMAIN Document.operations, i < next
                 PROVE  OperationComplete(draft, b, Document.operations[i])'
      BY <1>1
    <3>1. PICK op : op = Document.operations[i] /\ op = Document'.operations[i]
      BY <1>1
    <3>2. OperationComplete(draft, b, op)'
      BY <2>2, <2>3, <3>1
    <3> QED
      BY <3>1, <3>2
  <2> QED
    BY <1>1, <1>3, <2>1, <2>4 DEF Draft, DraftExports
<1>7. DraftOperation'
  BY <1>1 DEF Draft, DraftOperation, RouteHonest, Told, draft
<1>8. DraftRoutes'
  BY <1>1, <1>2, <1>3, RouteListedKept DEF Draft, DraftRoutes, InProgress, OfTheApi, RouteComplete, Told, draft
<1>9. DraftKeys'
  BY <1>1, <1>3 DEF Draft, DraftKeys, DirectRoutes, OfTheApi
<1>10. DraftDomains'
  BY <1>1, <1>2, <1>3, CertificateKept DEF Draft, DraftDomains
<1> QED
  BY <1>4, <1>5, <1>6, <1>7, <1>8, <1>9, <1>10 DEF Draft

LEMMA InitDraft ==
  ASSUME Init PROVE Draft
BY DEF Init, Draft

LEMMA NextDraft ==
  ASSUME Base, Draft, [Next]_vars PROVE Draft'
<1>1. CASE NextRegion \/ Finish \/ Page \/ PageFails \/ PageDone
  <2>1. UNCHANGED api /\ pc \in Listing
    BY <1>1 DEF NextRegion, Finish, Page, PageFails, PageDone, Listing
  <2>2. api' = NoApi
    BY <2>1 DEF Base, Control
  <2> QED
    BY <2>2 DEF Draft
<1>2. ASSUME NEW x \in Apis, Reject(x) PROVE Draft'
  <2>1. UNCHANGED api /\ pc \in Listing
    BY <1>2 DEF Reject, Listing
  <2>2. api' = NoApi
    BY <2>1 DEF Base, Control
  <2> QED
    BY <2>2 DEF Draft
<1>3. CASE AppendApi
  BY <1>3 DEF AppendApi, Draft
<1> QED
  BY <1>1, <1>2, <1>3, AcceptDraft, WorkingDraft, StutterDraft DEF Next, Working, Returned

----------------------------------------------------------------------------
(***************************************************************************)
(* From the draft to the report, and the report as errors are added.       *)
(***************************************************************************)
Honest(r) == StagesHonest(r) /\ KeysHonest(r) /\ URLHonest(r)

Whole(r) ==
  /\ \A s \in r.api.stages : StageListed(r, s)
  /\ \A b \in r.stages : StageComplete(r, b)
  /\ \A m \in r.api.routes : RouteListed(r, m)
  /\ \A d \in Domains : CertificateListed(r, d)

FinalReport ==
  [api |-> api, url |-> BaseURL, stages |-> built.stages, routes |-> built.routes,
   security |-> Security(built.routes, built.complete), certificates |-> built.certificates]

LEMMA FinalFields ==
  ASSUME NEW r, r = FinalReport
  PROVE  /\ r.api = draft.api /\ r.stages = draft.stages /\ r.routes = draft.routes
         /\ r.certificates = draft.certificates /\ r.url = BaseURL
         /\ r.security = Security(built.routes, built.complete)
BY DEF FinalReport, draft

LEMMA FinalTold ==
  ASSUME NEW r, r = FinalReport, NEW what, NEW s, NEW subject
  PROVE  Told(what, r, s, subject) <=> Told(what, draft, s, subject)
BY FinalFields DEF Told

LEMMA FinalWhole ==
  ASSUME Base, Draft, pc = "begin", phase = 5, NEW r, r = FinalReport
  PROVE  Whole(r)
<1>1. api # NoApi /\ draft.api = api /\ draft.stages = built.stages
  BY AtRest DEF draft
<1>2. Past("stages") /\ Past("exports") /\ Past("routes") /\ Past("certificates")
  BY <1>1, AllPast DEF PhaseNames, Base
<1>3. ASSUME NEW s \in api.stages PROVE StageListed(r, s)
  <2>1. StageListed(draft, s)
    BY <1>1, <1>2 DEF Draft, DraftStages
  <2> QED
    BY <2>1, FinalTold, FinalFields DEF StageListed
<1>4. ASSUME NEW b \in built.stages PROVE StageComplete(r, b)
  <2>1. StageComplete(draft, b)
    BY <1>1, <1>2 DEF Draft, DraftExports
  <2>2. \A op : OperationComplete(draft, b, op) => OperationComplete(r, b, op)
    BY FinalTold DEF OperationComplete
  <2> QED
    BY <2>1, <2>2, FinalTold DEF StageComplete
<1>5. ASSUME NEW m \in api.routes PROVE RouteListed(r, m)
  <2>1. RouteListed(draft, m)
    BY <1>1, <1>2 DEF Draft, DraftRoutes
  <2>2. \A t : RouteComplete(draft, t, m) => RouteComplete(r, t, m)
    BY FinalTold DEF RouteComplete
  <2> QED
    BY <2>1, <2>2, FinalTold, FinalFields DEF RouteListed
<1>6. ASSUME NEW d \in Domains PROVE CertificateListed(r, d)
  <2>1. CertificateListed(draft, d)
    BY <1>1, <1>2 DEF Draft, DraftDomains
  <2> QED
    BY <2>1, FinalTold, FinalFields DEF CertificateListed
<1> QED
  BY <1>1, <1>3, <1>4, <1>5, <1>6, FinalFields DEF Whole

LEMMA FinalStagesHonest ==
  ASSUME Base, Draft, pc = "begin", NEW r, r = FinalReport
  PROVE  StagesHonest(r)
<1>1. api # NoApi /\ api \in Apis /\ r.stages = built.stages
  BY AtRest, CurrentApi, FinalFields DEF draft, Base
<1> SUFFICES ASSUME NEW b \in built.stages, NEW t \in b.routes
             PROVE  RouteHonest(r, b.of, t, CHOOSE o \in {b.of.document.operations[i] : i \in DOMAIN b.of.document.operations} :
                                              o.valid /\ o.name = t.name)
  BY <1>1 DEF StagesHonest
<1> DEFINE doc == b.of.document
           ops == {doc.operations[i] : i \in DOMAIN doc.operations}
<1>2. PICK op \in ops : op.valid /\ op.name = t.name /\ RouteHonest(draft, b.of, t, op)
  BY <1>1 DEF Draft, DraftHonest, Operations
<1>3. IsDocument(doc)
  BY <1>1, ApiFields DEF Base, Shape
<1>4. \A o \in ops : o.valid /\ o.name = t.name => o = op
  BY <1>2, <1>3 DEF IsDocument
<1>5. RouteHonest(r, b.of, t, op)
  BY <1>2, FinalTold DEF RouteHonest
<1> HIDE DEF ops
<1>6. (CHOOSE o \in ops : o.valid /\ o.name = t.name) = op
  BY <1>2, <1>4
<1>7. RouteHonest(r, b.of, t, CHOOSE o \in ops : o.valid /\ o.name = t.name)
  BY <1>5, <1>6
<1> QED
  BY <1>7 DEF ops

LEMMA SecurityKeys ==
  ASSUME NEW routes, NEW complete
  PROVE  Security(routes, complete).keys =
           IF complete \/ ApiKeysRequired(routes) = "yes" THEN ApiKeysRequired(routes) ELSE "unknown"
<1> DEFINE keys == IF complete \/ ApiKeysRequired(routes) = "yes" THEN ApiKeysRequired(routes) ELSE "unknown"
           methods == {r.auth : r \in routes} \ {"unknown"}
<1>1. Security(routes, complete) = [known |-> routes # {}, keys |-> keys, methods |-> methods]
  BY DEF Security
<1> HIDE DEF keys, methods
<1>2. Security(routes, complete).keys = keys
  BY <1>1
<1> QED
  BY <1>2 DEF keys

LEMMA FinalKeysHonest ==
  ASSUME Base, Draft, pc = "begin", phase = 5, NEW r, r = FinalReport
  PROVE  KeysHonest(r)
<1>1. api # NoApi /\ r.api = api
  BY AtRest, FinalFields DEF draft
<1>2. Past("routes")
  BY <1>1, AllPast DEF PhaseNames, Base
<1>3. r.security.keys = IF built.complete \/ ApiKeysRequired(built.routes) = "yes" THEN ApiKeysRequired(built.routes) ELSE "unknown"
  <2>1. r.security = Security(built.routes, built.complete)
    BY FinalFields
  <2> QED
    BY <2>1, SecurityKeys
<1>4. ASSUME r.security.keys = "yes" PROVE \E m \in api.routes : m.key = "yes"
  <2>1. ApiKeysRequired(built.routes) = "yes"
    BY <1>3, <1>4
  <2>2. \E t \in built.routes : t.key = "yes"
    BY <2>1 DEF ApiKeysRequired
  <2> QED
    BY <1>1, <2>2 DEF Draft, DraftKeys, DirectRoutes
<1>5. ASSUME r.security.keys = "no" PROVE \A m \in api.routes : m.key = "no"
  <2>1. built.complete /\ ApiKeysRequired(built.routes) = "no"
    BY <1>3, <1>5
  <2>2. \A t \in built.routes : t.key = "no"
    BY <2>1 DEF ApiKeysRequired
  <2>3. \A m \in api.routes : \E t \in built.routes : t.key \in {m.key, "unknown"}
    BY <1>1, <1>2, <2>1 DEF Draft, DraftKeys
  <2> QED
    BY <2>2, <2>3
<1> QED
  BY <1>1, <1>4, <1>5 DEF KeysHonest

LEMMA OnlyMember ==
  ASSUME NEW S, IsFiniteSet(S), Cardinality(S) = 1
  PROVE  \E x : S = {x}
BY FS_Singleton

LEMMA FinalURLHonest ==
  ASSUME Base, pc = "begin", NEW r, r = FinalReport
  PROVE  URLHonest(r)
<1>1. /\ api # NoApi /\ api \in Apis /\ api.version \in {"v1", "v2"} /\ r.api = api /\ r.url = BaseURL
      /\ IsFiniteSet(api.stages)
  BY AtRest, CurrentApi, ApiFields, FinalFields DEF draft, Base
<1> SUFFICES ASSUME BaseURL \notin {"none", "endpoint"} PROVE {s.name : s \in api.stages} = {BaseURL}
  BY <1>1 DEF URLHonest
<1>2. /\ api.version = "v1" /\ built.listed = 1 /\ Cardinality(built.stages) = 1
      /\ BaseURL = (CHOOSE s \in built.stages : TRUE).name
  BY <1>1 DEF BaseURL
<1>3. Cardinality(api.stages) = 1
  BY <1>1, <1>2 DEF Base, Counted
<1>4. PICK x : api.stages = {x}
  BY <1>1, <1>3, OnlyMember
<1>5. built.stages # {}
  BY <1>2, FS_EmptySet
<1>6. PICK b \in built.stages : b = CHOOSE s \in built.stages : TRUE
  BY <1>5
<1>7. b.name = b.of.name /\ b.of \in api.stages
  BY DEF Base, Shape
<1>8. BaseURL = x.name
  BY <1>2, <1>4, <1>6, <1>7
<1> QED
  BY <1>4, <1>8

LEMMA HonestLater ==
  ASSUME errors \subseteq errors', NEW r, Honest(r)
  PROVE  Honest(r)'
<1>1. \A what, s, subject : Told(what, r, s, subject) => Told(what, r, s, subject)'
  BY DEF Told
<1>2. \A s, t, op : RouteHonest(r, s, t, op) => RouteHonest(r, s, t, op)'
  BY <1>1 DEF RouteHonest
<1>3. StagesHonest(r)'
  BY <1>2 DEF Honest, StagesHonest
<1>4. KeysHonest(r)' /\ URLHonest(r)'
  BY DEF Honest, KeysHonest, URLHonest
<1> QED
  BY <1>3, <1>4 DEF Honest

LEMMA WholeLater ==
  ASSUME errors \subseteq errors', NEW r, Whole(r)
  PROVE  Whole(r)'
<1>1. \A what, s, subject : Told(what, r, s, subject) => Told(what, r, s, subject)'
  BY DEF Told
<1>2. \A b, op : OperationComplete(r, b, op) => OperationComplete(r, b, op)'
  BY <1>1 DEF OperationComplete
<1>3. \A b : StageComplete(r, b) => StageComplete(r, b)'
  BY <1>1, <1>2 DEF StageComplete
<1>4. \A s : StageListed(r, s) => StageListed(r, s)'
  BY <1>1 DEF StageListed
<1>5. \A t, m : RouteComplete(r, t, m) => RouteComplete(r, t, m)'
  BY <1>1 DEF RouteComplete
<1>6. \A m : RouteListed(r, m) => RouteListed(r, m)'
  BY <1>1, <1>5 DEF RouteListed
<1>7. \A d : CertificateListed(r, d) => CertificateListed(r, d)'
  BY <1>1 DEF CertificateListed
<1> QED
  BY <1>3, <1>4, <1>6, <1>7 DEF Whole

\* A step adds at most the report of the draft, and takes no error back.
LEMMA NextReported ==
  ASSUME Base, [Next]_vars
  PROVE  /\ errors \subseteq errors'
         /\ \/ UNCHANGED reported
            \/ pc = "begin" /\ phase = 5 /\ UNCHANGED errors /\ reported' = reported \cup {FinalReport}
<1>1. CASE NextRegion \/ Finish \/ Page \/ PageFails \/ PageDone
  BY <1>1 DEF NextRegion, Finish, Page, PageFails, PageDone
<1>2. CASE \E x \in Apis : Reject(x) \/ Accept(x)
  BY <1>2 DEF Reject, Accept
<1>3. CASE AppendApi
  BY <1>3 DEF AppendApi, FinalReport
<1>4. CASE Working
  BY <1>4, WorkingFrame, WorkingErrors DEF ErrorsAdded
<1>5. CASE UNCHANGED vars
  BY <1>5 DEF vars
<1> QED
  BY <1>1, <1>2, <1>3, <1>4, <1>5 DEF Next, Working, Returned

LEMMA NextHonest ==
  ASSUME Base, Draft, AccessHonest, [Next]_vars PROVE AccessHonest'
<1>1. \A r \in reported : Honest(r)'
  BY NextReported, HonestLater DEF AccessHonest, Honest
<1>2. ASSUME pc = "begin", phase = 5, UNCHANGED errors, NEW r, r = FinalReport
      PROVE  Honest(r)'
  <2>1. Honest(r)
    BY <1>2, FinalStagesHonest, FinalKeysHonest, FinalURLHonest DEF Honest
  <2> QED
    BY <1>2, <2>1, HonestLater
<1> QED
  BY <1>1, <1>2, NextReported DEF AccessHonest, Honest

LEMMA NextWhole ==
  ASSUME Base, Draft, NothingLost, [Next]_vars PROVE NothingLost'
<1>1. \A r \in reported : Whole(r)'
  BY NextReported, WholeLater DEF NothingLost, Whole
<1>2. ASSUME pc = "begin", phase = 5, UNCHANGED errors, NEW r, r = FinalReport
      PROVE  Whole(r)'
  BY <1>2, FinalWhole, WholeLater
<1> QED
  BY <1>1, <1>2, NextReported DEF NothingLost, Whole

\* The inductive invariant: where the code is, what has been delivered, what the
\* draft of the API under conversion holds, and the reports so far.
THEOREM GatewayInvariant == Spec => []IInv
<1>1. Init => IInv
  <2> SUFFICES ASSUME Init PROVE IInv
    OBVIOUS
  <2>1. reported = {}
    BY DEF Init
  <2>2. AccessHonest /\ NothingLost
    BY <2>1 DEF AccessHonest, NothingLost
  <2> QED
    BY <2>2, InitBase, InitDelivery, InitDraft DEF IInv
<1>2. IInv /\ [Next]_vars => IInv'
  BY NextBase, NextDelivery, NextDraft, NextHonest, NextWhole DEF IInv
<1> QED
  BY <1>1, <1>2, PTL DEF Spec

\* A report never says that a route, a stage or an API is open, or guarded, that is
\* not; what it cannot say it does not say.
THEOREM GatewayAccessHonest == Spec => []AccessHonest
<1>1. IInv => AccessHonest
  BY DEF IInv
<1> QED
  BY <1>1, GatewayInvariant, PTL

\* Each stage, exported operation, route, integration and certificate of an API that
\* is reported is there, or told to be missing.
THEOREM GatewayNothingLost == Spec => []NothingLost
<1>1. IInv => NothingLost
  BY DEF IInv
<1> QED
  BY <1>1, GatewayInvariant, PTL

=============================================================================
