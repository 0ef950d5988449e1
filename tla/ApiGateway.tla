------------------------------ MODULE ApiGateway ------------------------------
(***************************************************************************)
(* EnumerateAPIGateway: REST (v1) and HTTP (v2) APIs, region by region.    *)
(* Of each API it reads the routes, the stages with the routes that each   *)
(* of them exports, and the certificates of the domains mapped to it.  The *)
(* two versions do this in different orders.                               *)
(*                                                                         *)
(* An API is a record of its version, region, whether it has an id, its    *)
(* stages and its direct routes (methods of v1).  An error is a tuple      *)
(* <<what, api, stage, subject>>.                                          *)
(***************************************************************************)
EXTENDS StageRoutes

CONSTANTS
  Worlds,        \* sets of APIs that may exist together
  Versions,      \* config.Versions, in order
  Regions,       \* config.Regions, in order
  Domains,       \* domain names of the account
  Links,         \* VPC link -> the load balancers it leads to
  NoApi, NoStage

Apis == UNION Worlds

\* No version and no region is asked for twice.
ASSUME ApiAssumption ==
  /\ Versions \in Seq({"v1", "v2"}) /\ IsSequence(Regions)
  /\ \A i, j \in DOMAIN Versions : Versions[i] = Versions[j] => i = j
  /\ \A i, j \in DOMAIN Regions : Regions[i] = Regions[j] => i = j
  /\ NoApi \notin Apis
  /\ \A x \in Apis :
       /\ x.version \in {"v1", "v2"} /\ x.identified \in BOOLEAN
       /\ IsFiniteSet(x.stages) /\ NoStage \notin x.stages
       /\ \A s \in x.stages : IsDocument(s.document)

VARIABLES
  present, pc, turn, place, undelivered, more, queue,
  api,           \* the API that is converted
  phase,         \* index into the phases of its version
  todo,          \* the stages, routes or domains of the phase still to be asked for
  stage,         \* the stage whose export is read
  next,          \* index of the operation of the export
  route,         \* the route under conversion
  payload,       \* its integration, as far as references were followed
  seen,          \* the references followed
  links,         \* vpcLinkTargets of the phase: link -> load balancers
  built,         \* what there is of the report of the API
  reported, errors

listing == <<turn, place, undelivered, more, queue>>
converting == <<stage, next, route, payload, seen>>
vars == <<present, pc, listing, api, phase, todo, converting, links, built, reported, errors>>

\* No route is under conversion.
NoRoute == <<>>

Nothing == [stages |-> {}, listed |-> 0, routes |-> {}, complete |-> TRUE, certificates |-> {}]

Init ==
  /\ present \in Worlds /\ undelivered = present
  /\ pc = "region" /\ turn = 1 /\ place = 0 /\ more = FALSE /\ queue = {}
  /\ api = NoApi /\ phase = 0 /\ todo = {} /\ links = <<>> /\ built = Nothing
  /\ stage = NoStage /\ next = 0 /\ route = NoRoute /\ payload = Invalid /\ seen = {}
  /\ reported = {} /\ errors = {}

Tell(what, s, subject) == errors' = errors \cup {<<what, api.name, s, subject>>}
TellIf(condition, what, s, subject) ==
  IF condition THEN Tell(what, s, subject) ELSE UNCHANGED errors

----------------------------------------------------------------------------
(***************************************************************************)
(* Versions, regions and pages of APIs.                                    *)
(***************************************************************************)
NextRegion ==
  /\ pc = "region" /\ turn <= Len(Versions)
  /\ IF place < Len(Regions)
     THEN place' = place + 1 /\ more' = TRUE /\ pc' = "list" /\ UNCHANGED turn
     ELSE place' = 0 /\ turn' = turn + 1 /\ UNCHANGED <<more, pc>>
  /\ UNCHANGED <<present, undelivered, queue, api, phase, todo, converting, links, built, reported, errors>>

Finish ==
  /\ pc = "region" /\ turn > Len(Versions) /\ pc' = "done"
  /\ UNCHANGED <<present, listing, api, phase, todo, converting, links, built, reported, errors>>

Undelivered == {x \in undelivered : x.version = Versions[turn] /\ x.region = Regions[place]}

\* An empty page that is not the last changes nothing and is left out.
Page ==
  /\ pc = "list" /\ more
  /\ \E batch \in SUBSET Undelivered :
       /\ undelivered' = undelivered \ batch /\ queue' = batch
       /\ more' \in IF batch = {} THEN {FALSE} ELSE BOOLEAN
       /\ more' \/ batch = Undelivered
  /\ pc' = "convert"
  /\ UNCHANGED <<present, turn, place, api, phase, todo, converting, links, built, reported, errors>>

\* PageFails that does not tell of a failure after the first page.
PageFailsSilently ==
  /\ pc = "list" /\ more
  /\ IF \E r \in reported : r.api.region = Regions[place] THEN UNCHANGED errors
     ELSE errors' = errors \cup {<<"list", Versions[turn], Regions[place], "">>}
  /\ more' = FALSE /\ pc' = "convert"
  /\ UNCHANGED <<present, turn, place, undelivered, queue, api, phase, todo, converting, links, built,
                 reported>>

PageFails ==
  /\ pc = "list" /\ more
  /\ errors' = errors \cup {<<"list", Versions[turn], Regions[place], "">>}
  /\ more' = FALSE /\ pc' = "convert"
  /\ UNCHANGED <<present, turn, place, undelivered, queue, api, phase, todo, converting, links, built,
                 reported>>

PageDone ==
  /\ pc = "convert" /\ queue = {}
  /\ pc' = IF more THEN "list" ELSE "region"
  /\ UNCHANGED <<present, listing, api, phase, todo, converting, links, built, reported, errors>>

Reject(x) ==
  /\ pc = "convert" /\ x \in queue /\ ~x.identified
  /\ queue' = queue \ {x}
  /\ errors' = errors \cup {<<"identify", x.name, "", "">>}
  /\ UNCHANGED <<present, pc, turn, place, undelivered, more, api, phase, todo, converting, links, built,
                 reported>>

Accept(x) ==
  /\ pc = "convert" /\ x \in queue /\ x.identified
  /\ queue' = queue \ {x}
  /\ api' = x /\ phase' = 1 /\ pc' = "begin" /\ built' = Nothing
  /\ UNCHANGED <<present, turn, place, undelivered, more, todo, converting, links, reported, errors>>

----------------------------------------------------------------------------
(***************************************************************************)
(* The phases of one API.  A list that breaks off is told, and goes on     *)
(* with what it brought.                                                   *)
(***************************************************************************)
Phases(version) ==
  IF version = "v1" THEN <<"stages", "exports", "routes", "certificates">>
  ELSE <<"routes", "certificates", "stages", "exports">>

Begins(p) ==
  /\ pc = "begin" /\ phase <= 4 /\ Phases(api.version)[phase] = p
  /\ links' = <<>>

\* GetStages of v1 has no pages; a stage without a valid name is told and left
\* out, one with a Web ACL or logs that are not valid is kept without them.
ListStages ==
  /\ Begins("stages")
  /\ \E got \in SUBSET api.stages, failed \in BOOLEAN :
       /\ failed \/ got = api.stages
       /\ failed /\ api.version = "v1" => got = {}
       /\ errors' = errors \cup (IF failed THEN {<<"GetStages", api.name, "", "">>} ELSE {})
                           \cup {<<"stage", api.name, s.name, "">> : s \in {t \in got : ~t.valid}}
                           \cup {<<"settings", api.name, s.name, "">> : s \in {t \in got : t.valid /\ ~t.settings}}
       /\ built' = [built EXCEPT !.listed = Cardinality(got),
                                 !.stages = {[name |-> s.name, of |-> s, url |-> "none", routes |-> {}] :
                                               s \in {t \in got : t.valid}}]
  /\ phase' = phase + 1
  /\ UNCHANGED <<present, pc, listing, api, todo, converting, reported>>

BeginExports ==
  /\ Begins("exports") /\ pc' = "exports"
  /\ todo' = {s.of : s \in built.stages}
  /\ UNCHANGED <<present, listing, api, phase, converting, built, reported, errors>>

\* A listing brings all, or fails with a part of it.
Lists(all, what, failed) ==
  \E got \in SUBSET all :
    /\ failed \/ got = all
    /\ todo' = got /\ TellIf(failed, what, "", "")

\* ListRoutes that takes the routes of a listing that failed for all of them.
ListRoutesStaysComplete ==
  /\ Begins("routes") /\ pc' = "routes"
  /\ \E failed \in BOOLEAN : Lists(api.routes, "GetRoutes", failed)
  /\ UNCHANGED <<present, listing, api, phase, converting, built, reported>>

ListRoutes ==
  /\ Begins("routes") /\ pc' = "routes"
  /\ \E failed \in BOOLEAN :
       Lists(api.routes, "GetRoutes", failed) /\ built' = [built EXCEPT !.complete = ~failed]
  /\ UNCHANGED <<present, listing, api, phase, converting, reported>>

ListDomains ==
  /\ Begins("certificates") /\ pc' = "domains"
  /\ \E failed \in BOOLEAN : Lists(Domains, "GetDomainNames", failed)
  /\ UNCHANGED <<present, listing, api, phase, converting, built, reported>>

PhaseDone ==
  /\ pc \in {"exports", "routes", "domains"} /\ todo = {}
  /\ phase' = phase + 1 /\ pc' = "begin" /\ links' = <<>>
  /\ UNCHANGED <<present, listing, api, todo, converting, built, reported, errors>>

----------------------------------------------------------------------------
(***************************************************************************)
(* The export of a stage.                                                  *)
(***************************************************************************)
Update(s, url, routes) ==
  built' = [built EXCEPT !.stages =
              {IF t.of = s THEN [t EXCEPT !.url = IF url = "" THEN @ ELSE url, !.routes = @ \cup routes]
               ELSE t : t \in @}]

ExportFails ==
  /\ pc = "exports"
  /\ \E s \in todo : todo' = todo \ {s} /\ Tell("export", s.name, "")
  /\ UNCHANGED <<present, pc, listing, api, phase, converting, links, built, reported>>

\* A server that is not a concrete URL is told; none, or several, is not.
ExportStage ==
  /\ pc = "exports"
  /\ \E s \in todo :
       /\ todo' = todo \ {s}
       /\ IF ~s.document.valid
          THEN Tell("document", s.name, "") /\ UNCHANGED <<pc, stage, next, built>>
          ELSE /\ pc' = "operations" /\ stage' = s /\ next' = 1
               /\ TellIf(s.document.server = "open", "url", s.name, "")
               /\ Update(s, IF s.document.server = "concrete" THEN "url" ELSE "none", {})
  /\ UNCHANGED <<present, listing, api, phase, route, payload, seen, links, reported>>

Document == stage.document
Operation == Document.operations[next]

\* A path or an operation that is not valid is told and left out.
SkipOperation ==
  /\ pc = "operations" /\ next <= Len(Document.operations) /\ ~Operation.valid
  /\ Tell("operation", stage.name, Operation.name) /\ next' = next + 1
  /\ UNCHANGED <<present, pc, listing, api, phase, todo, stage, route, payload, seen, links, built, reported>>

NewRoute(name, access) ==
  [name |-> name, auth |-> access.auth, key |-> access.key, backend |-> NoBackend,
   balancers |-> {}, role |-> "none"]

Unknown == [auth |-> "unknown", key |-> "unknown"]

BeginOperation ==
  /\ pc = "operations" /\ next <= Len(Document.operations) /\ Operation.valid
  /\ LET security == EffectiveSecurity(Document, Operation)
         known == Representable(Document, security)
         access == IF known THEN Authorization(Document, security) ELSE Unknown
     IN /\ route' = NewRoute(Operation.name, access)
        /\ TellIf(~known, "authorization", stage.name, Operation.name)
  /\ payload' = Operation.integration /\ seen' = {} /\ pc' = "reference"
  /\ UNCHANGED <<present, listing, api, phase, todo, stage, next, links, built, reported>>

\* FollowReference that does not remember where it has been.
FollowReferenceForgets ==
  /\ pc = "reference" /\ payload # Invalid /\ payload.ref # ""
  /\ payload' = IF payload.ref \in DOMAIN Document.components
                THEN Document.components[payload.ref] ELSE Invalid
  /\ UNCHANGED <<present, pc, listing, api, phase, todo, stage, next, route, seen, links, built, reported,
                 errors>>

\* A reference out of the components, or met before, ends the search.
FollowReference ==
  /\ pc = "reference" /\ payload # Invalid /\ payload.ref # ""
  /\ payload' = IF payload.ref \in DOMAIN Document.components \ seen
                THEN Document.components[payload.ref] ELSE Invalid
  /\ seen' = seen \cup {payload.ref}
  /\ UNCHANGED <<present, pc, listing, api, phase, todo, stage, next, route, links, built, reported, errors>>

IntegrationMissing ==
  /\ pc = "reference"
  /\ \/ payload = Invalid
     \/ payload # Invalid /\ payload.ref = "" /\ ~IsComplete(Resolved(payload, stage.variables))
  /\ Tell("integration", stage.name, route.name) /\ pc' = "append"
  /\ UNCHANGED <<present, listing, api, phase, todo, converting, links, built, reported>>

IntegrationFound ==
  /\ pc = "reference" /\ payload # Invalid /\ payload.ref = ""
  /\ IsComplete(Resolved(payload, stage.variables))
  /\ payload' = Resolved(payload, stage.variables) /\ pc' = "backend"
  /\ UNCHANGED <<present, listing, api, phase, todo, stage, next, route, seen, links, built, reported, errors>>

OperationsDone ==
  /\ pc = "operations" /\ next > Len(Document.operations)
  /\ pc' = "exports" /\ stage' = NoStage /\ next' = 0
  /\ UNCHANGED <<present, listing, api, phase, todo, route, payload, seen, links, built, reported, errors>>

----------------------------------------------------------------------------
(***************************************************************************)
(* The routes of the API itself.                                           *)
(***************************************************************************)
\* A call for the method of v1 that fails loses the route.
RouteFails ==
  /\ pc = "routes"
  /\ \E r \in todo :
       /\ todo' = todo \ {r}
       /\ ~r.identified \/ api.version = "v1"
       /\ Tell("route", "", r.name)
  /\ built' = [built EXCEPT !.complete = FALSE]
  /\ UNCHANGED <<present, pc, listing, api, phase, converting, links, reported>>

\* v2 knows neither keys nor custom authorizers, and reads the integration of a
\* target; when that fails the route stays without.
AskRoute ==
  /\ pc = "routes"
  /\ \E r \in todo :
       /\ todo' = todo \ {r} /\ r.identified
       /\ route' = NewRoute(r.name,
            [auth |-> IF r.auth \in (IF api.version = "v1" THEN Methods \ {"JWT"}
                                     ELSE {"NONE", "AWS_IAM", "JWT"}) THEN r.auth ELSE "unknown",
             key |-> IF api.version = "v1" THEN r.key ELSE "unknown"])
       /\ IF r.integration = Invalid
          THEN pc' = "append" /\ UNCHANGED <<payload, errors>>
          ELSE \/ pc' = "backend" /\ payload' = r.integration /\ UNCHANGED errors
               \/ /\ api.version = "v2" /\ pc' = "append"
                  /\ Tell("integration", "", r.name) /\ UNCHANGED payload
  /\ UNCHANGED <<present, listing, api, phase, stage, next, seen, links, built, reported>>

----------------------------------------------------------------------------
(***************************************************************************)
(* From the integration to the backend.                                    *)
(***************************************************************************)
StageName == IF stage = NoStage THEN "" ELSE stage.name

ByLinkCall ==
  /\ api.version = "v1" /\ UsesVpcLink(payload)
  /\ ~(stage # NoStage /\ IsListenerIntegration(payload))

Converted ==
  IF api.version = "v1" /\ stage # NoStage /\ IsListenerIntegration(payload)
  THEN VpcLinkBackend(payload.target, payload.connection)
  ELSE IF api.version = "v2" THEN IF stage # NoStage /\ payload.subtype # "" THEN NoBackend
                                  ELSE ConvertV2Integration(payload)
  ELSE IF payload.uri = "" /\ payload.type # "mock" THEN NoBackend ELSE Backend(payload)

\* The credentials of a direct route of v2 are read although its integration
\* could not be converted.
FinishRoute(backend, balancers, told) ==
  /\ route' = [route EXCEPT !.backend = backend, !.balancers = balancers, !.role = RoleOf(payload)]
  /\ errors' = errors \cup (IF told THEN {<<"backend", api.name, StageName, route.name>>} ELSE {})
                      \cup (IF RoleValid(payload) THEN {} ELSE {<<"role", api.name, StageName, route.name>>})
  /\ pc' = "append"

Convert ==
  /\ pc = "backend" /\ ~ByLinkCall
  /\ FinishRoute(Converted, {}, Converted = NoBackend)
  /\ UNCHANGED <<present, listing, api, phase, todo, stage, next, payload, seen, links, built, reported>>

\* ConvertLink that keeps a failed look-up as one that found nothing.
ConvertLinkKeepsFailure ==
  /\ pc = "backend" /\ ByLinkCall
  /\ LET link == payload.connection IN
     \/ /\ link \in DOMAIN links
        /\ FinishRoute(<<"vpc_link", link>>, links[link], FALSE) /\ UNCHANGED links
     \/ /\ link \notin DOMAIN links
        /\ links' = [l \in DOMAIN links \cup {link} |-> IF l = link THEN {} ELSE links[l]]
        /\ FinishRoute(NoBackend, {}, TRUE)
  /\ UNCHANGED <<present, listing, api, phase, todo, stage, next, payload, seen, built, reported>>

\* createV1LoadBalancerBackend: only an answer is cached.  Without one the route
\* of the API keeps a backend that has no load balancer, that of a stage none.
ConvertLink ==
  /\ pc = "backend" /\ ByLinkCall
  /\ LET link == payload.connection IN
     \/ /\ payload.uri = ""
        /\ FinishRoute(NoBackend, {}, TRUE) /\ UNCHANGED links
     \/ /\ payload.uri # "" /\ link \in DOMAIN links
        /\ FinishRoute(<<"vpc_link", link>>, links[link], FALSE) /\ UNCHANGED links
     \/ /\ payload.uri # "" /\ link \in DOMAIN Links \ DOMAIN links /\ Links[link] # {}
        /\ links' = [l \in DOMAIN links \cup {link} |-> Links[l]]
        /\ FinishRoute(<<"vpc_link", link>>, Links[link], FALSE)
     \/ /\ payload.uri # "" /\ link \notin DOMAIN links
        /\ FinishRoute(IF stage = NoStage THEN <<"vpc_link", link>> ELSE NoBackend, {}, TRUE)
        /\ UNCHANGED links
  /\ UNCHANGED <<present, listing, api, phase, todo, stage, next, payload, seen, built, reported>>

\* AppendRoute that goes on with the route it has appended.
AppendRouteKeepsIt ==
  /\ pc = "append"
  /\ IF stage = NoStage
     THEN /\ built' = [built EXCEPT !.routes = @ \cup {route}]
          /\ pc' = "routes" /\ UNCHANGED next
     ELSE /\ Update(stage, "", {route})
          /\ pc' = "operations" /\ next' = next + 1
  /\ UNCHANGED <<present, listing, api, phase, todo, stage, route, payload, seen, links, reported, errors>>

AppendRoute ==
  /\ pc = "append"
  /\ IF stage = NoStage
     THEN /\ built' = [built EXCEPT !.routes = @ \cup {route}]
          /\ pc' = "routes" /\ UNCHANGED next
     ELSE /\ Update(stage, "", {route})
          /\ pc' = "operations" /\ next' = next + 1
  /\ route' = NoRoute /\ payload' = Invalid /\ seen' = {}
  /\ UNCHANGED <<present, listing, api, phase, todo, stage, links, reported, errors>>

----------------------------------------------------------------------------
(***************************************************************************)
(* Certificates, and the report of the API.                                *)
(***************************************************************************)
\* v1 stops at the first mapping to the API, v2 goes on and may fail after it.
AskDomain ==
  /\ pc = "domains"
  /\ \E d \in todo, failed \in BOOLEAN, found \in BOOLEAN :
       /\ todo' = todo \ {d}
       /\ found => d.named /\ api.name \in d.apis
       /\ d.named /\ ~failed => found = (api.name \in d.apis)
       /\ failed => d.named /\ (found => api.version = "v2")
       /\ built' = IF found /\ d.certificate THEN [built EXCEPT !.certificates = @ \cup {d.name}] ELSE built
       /\ TellIf(failed \/ (api.version = "v2" /\ (~d.named \/ (found /\ ~d.certificate))), "domain", "", d.name)
  /\ UNCHANGED <<present, pc, listing, api, phase, converting, links, reported>>

\* analyzeAPISecurity: there is nothing to analyze without a route.
ApiKeysRequired(routes) ==
  IF \E r \in routes : r.key = "yes" THEN "yes"
  ELSE IF routes # {} /\ \A r \in routes : r.key = "no" THEN "no" ELSE "unknown"

Security(routes, complete) ==
  [known |-> routes # {},
   keys |-> IF complete \/ ApiKeysRequired(routes) = "yes" THEN ApiKeysRequired(routes) ELSE "unknown",
   methods |-> {r.auth : r \in routes} \ {"unknown"}]

\* With one stage the API has that URL; an HTTP API has one of its own.
BaseURL ==
  IF api.version = "v2" THEN "endpoint"
  ELSE IF built.listed = 1 /\ Cardinality(built.stages) = 1 THEN (CHOOSE s \in built.stages : TRUE).name
  ELSE "none"

AppendApi ==
  /\ pc = "begin" /\ phase = 5
  /\ reported' = reported \cup
       {[api |-> api, url |-> BaseURL, stages |-> built.stages, routes |-> built.routes,
         security |-> Security(built.routes, built.complete), certificates |-> built.certificates]}
  /\ pc' = "convert" /\ api' = NoApi /\ phase' = 0 /\ built' = Nothing
  /\ UNCHANGED <<present, listing, todo, converting, links, errors>>

\* The report has been returned.
Returned == pc = "done" /\ UNCHANGED vars

Next ==
  \/ NextRegion \/ Finish \/ Page \/ PageFails \/ PageDone
  \/ \E x \in Apis : Reject(x) \/ Accept(x)
  \/ ListStages \/ BeginExports \/ ListRoutes \/ ListDomains \/ PhaseDone
  \/ ExportFails \/ ExportStage \/ SkipOperation \/ BeginOperation
  \/ FollowReference \/ IntegrationMissing \/ IntegrationFound \/ OperationsDone
  \/ RouteFails \/ AskRoute \/ Convert \/ ConvertLink \/ AppendRoute
  \/ AskDomain \/ AppendApi
  \/ Returned

Spec == Init /\ [][Next]_vars /\ WF_vars(Next)

----------------------------------------------------------------------------
TypeOK ==
  /\ pc \in {"region", "list", "convert", "begin", "exports", "operations", "reference", "backend",
             "append", "routes", "domains", "done"}
  /\ turn \in 1 .. Len(Versions) + 1 /\ place \in 0 .. Len(Regions) /\ phase \in 0 .. 5
  /\ undelivered \subseteq present /\ queue \subseteq present \ undelivered
  /\ (api = NoApi) = (pc \in {"region", "list", "convert", "done"})
  /\ api = NoApi => built = Nothing /\ todo = {}
  /\ stage # NoStage => stage \in api.stages \ todo /\ next \in 1 .. Len(Document.operations) + 1
  /\ (route # NoRoute) = (pc \in {"reference", "backend", "append"})
  /\ DOMAIN links \subseteq DOMAIN Links
  /\ api # NoApi => built.listed <= Cardinality(api.stages)

Wanted ==
  {x \in present : /\ \E i \in DOMAIN Versions : x.version = Versions[i]
                   /\ \E i \in DOMAIN Regions : x.region = Regions[i]}

Excused(x) ==
  \/ <<"identify", x.name, "", "">> \in errors
  \/ x \in undelivered /\ <<"list", x.version, x.region, "">> \in errors

Contract ==
  INSTANCE Inventory WITH
    Items <- Apis,
    present <- Wanted,
    reported <- {r.api : r \in reported},
    excused <- {x \in Wanted : Excused(x)},
    returned <- pc = "done"

\* Both versions keep the contract of an inventory: an API that a page brought is
\* reported, whatever of its stages, routes and domains could not be read.
KeepsContract == Contract!Spec

Told(what, r, s, subject) == <<what, r.api.name, s, subject>> \in errors

\* What every way into an operation demands, by the meaning of its security: one
\* of the alternatives, with all that it names.
Demanded(doc, op) ==
  LET security == EffectiveSecurity(doc, op) IN
  {x \in Methods \cup {"key"} :
     security # <<>> /\ \A i \in DOMAIN security : \E n \in security[i] :
       n \in DOMAIN doc.schemes /\ doc.schemes[n] = x}

RouteHonest(r, s, t, op) ==
  LET demanded == Demanded(s.document, op) IN
  IF t.auth = "unknown" THEN Told("authorization", r, s.name, t.name)
  ELSE /\ t.auth = "NONE" <=> demanded \subseteq {"key"}
       /\ t.auth # "NONE" => t.auth \in demanded
       /\ t.key = Known("key" \in demanded)

StagesHonest(r) ==
  \A s \in r.stages : \A t \in s.routes :
    RouteHonest(r, s.of, t, CHOOSE o \in {s.of.document.operations[i] : i \in DOMAIN s.of.document.operations} :
                              o.valid /\ o.name = t.name)

KeysHonest(r) ==
  /\ r.security.keys = "yes" => \E m \in r.api.routes : m.key = "yes"
  /\ r.security.keys = "no" => \A m \in r.api.routes : m.key = "no"

URLHonest(r) == r.url \notin {"none", "endpoint"} => {s.name : s \in r.api.stages} = {r.url}

\* Nothing is reported to be open, or guarded, that is not.  A route of a stage
\* demands what it says, by the security of the operation or else the document;
\* what cannot be said is told.  Keys are said not to be required only if none
\* of the API's methods asks for one, those not listed included.  The URL of a
\* stage stands for an API only if that has no other.
AccessHonest == \A r \in reported : StagesHonest(r) /\ KeysHonest(r) /\ URLHonest(r)

\* The integrations a payload leads to, by any number of references.
Reachable(doc, p) ==
  LET components == {doc.components[n] : n \in DOMAIN doc.components}
      IsClosed(S) == \A q \in S \ {Invalid} :
                       q.ref \in DOMAIN doc.components => doc.components[q.ref] \in S
  IN {q \in components \cup {p} : \A S \in SUBSET (components \cup {p}) : p \in S /\ IsClosed(S) => q \in S}

Ends(doc, p) == {q \in Reachable(doc, p) \ {Invalid} : q.ref = ""}

\* The backend is that of the integration, and the load balancers those of its link.
BackendOf(t, p) ==
  \/ t.backend = <<"vpc_link", p.connection>> /\ t.balancers = Links[p.connection]
  \/ t.backend \in {<<p.type, p.uri>>, <<"lambda", p.uri>>, <<"vpc_link", p.uri>>, <<"vpc_link", p.target>>}
     /\ t.balancers = {}
  \/ p.type = "mock" /\ t.backend = <<"mock", "">> /\ t.balancers = {}

OperationComplete(r, b, op) ==
  \/ Told("operation", r, b.of.name, op.name)
  \/ \E t \in b.routes : t.name = op.name /\
       \/ Told("integration", r, b.of.name, op.name)
       \/ Told("backend", r, b.of.name, op.name)
       \/ \E p \in Ends(b.of.document, op.integration) : BackendOf(t, Resolved(p, b.of.variables))

StageComplete(r, b) ==
  \/ Told("export", r, b.of.name, "") \/ Told("document", r, b.of.name, "")
  \/ \A i \in DOMAIN b.of.document.operations : OperationComplete(r, b, b.of.document.operations[i])

StageListed(r, s) ==
  Told("GetStages", r, "", "") \/ Told("stage", r, s.name, "") \/ \E b \in r.stages : b.of = s

RouteComplete(r, t, m) ==
  t.name = m.name /\
    \/ m.integration = Invalid \/ Told("integration", r, "", m.name)
    \/ Told("backend", r, "", m.name) \/ BackendOf(t, m.integration)

RouteListed(r, m) ==
  \/ Told("GetRoutes", r, "", "") \/ Told("route", r, "", m.name)
  \/ \E t \in r.routes : RouteComplete(r, t, m)

CertificateListed(r, d) ==
  d.named /\ d.certificate /\ r.api.name \in d.apis =>
    d.name \in r.certificates \/ Told("GetDomainNames", r, "", "") \/ Told("domain", r, "", d.name)

\* Of each API every stage and exported operation, every route, its integration
\* through references and stage variables, and every certificate, is reported
\* as it is, or told to be missing.
NothingLost ==
  \A r \in reported :
    /\ \A s \in r.api.stages : StageListed(r, s)
    /\ \A b \in r.stages : StageComplete(r, b)
    /\ \A m \in r.api.routes : RouteListed(r, m)
    /\ \A d \in Domains : CertificateListed(r, d)

\* The report is returned, however the references between integrations run.
Terminates == <>(pc = "done")
=============================================================================
