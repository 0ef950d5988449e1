------------------------------ MODULE StageRoutes ------------------------------
(***************************************************************************)
(* What internal/apigateway/enumerate reads from the OpenAPI document that *)
(* a stage exports, and what it makes of an integration.                   *)
(*                                                                         *)
(* A document is a record:                                                 *)
(*   valid       it decodes, is OpenAPI 3 and has paths                    *)
(*   server      "none", "many", "concrete" or "open": what exportedStageURL *)
(*               makes of the list of servers                              *)
(*   security    alternatives, each a set of names of schemes              *)
(*   schemes     name -> "AWS_IAM", "JWT", ..., "key" or "unsupported"     *)
(*   components  name -> integration                                       *)
(*   operations  in the order of the paths and methods                     *)
(* An integration has a reference or is one itself.  Its texts are classes: *)
(* "" is missing, "lambda", "service", "listener" and "discovery" are ARNs *)
(* of that, "role" and "caller" are credentials, anything else is opaque.  *)
(***************************************************************************)
EXTENDS Naturals, Sequences, FiniteSets, Decisions

CONSTANTS
  Unresolved,      \* a text with a variable that has no value
  NotGiven,        \* security that an operation leaves to its document
  Invalid,         \* an operation or integration that does not decode
  NoBackend,
  StageVariables,  \* texts that are a variable of the stage
  OtherVariables   \* texts with any other ${...}

Methods == {"NONE", "AWS_IAM", "JWT", "CUSTOM", "COGNITO_USER_POOLS"}

IsSequence(f) == f \in Seq({f[i] : i \in DOMAIN f})

\* A document that can be read: its operations are the methods of its paths, so
\* that a valid one is named once, and a scheme is of one of the kinds.
IsDocument(doc) ==
  /\ IsSequence(doc.operations) /\ IsSequence(doc.security)
  /\ \A n \in DOMAIN doc.schemes : doc.schemes[n] \in (Methods \ {"NONE"}) \cup {"key", "unsupported"}
  /\ \A i \in DOMAIN doc.operations :
       LET op == doc.operations[i] IN
       /\ op.valid \in BOOLEAN
       /\ op.security = NotGiven \/ IsSequence(op.security)
       /\ \A j \in DOMAIN doc.operations :
            LET other == doc.operations[j] IN
            op.valid /\ other.valid /\ other.name = op.name => other = op

----------------------------------------------------------------------------
(***************************************************************************)
(* Authorization.                                                          *)
(***************************************************************************)
EffectiveSecurity(doc, op) == IF op.security = NotGiven THEN doc.security ELSE op.security

Schemes(doc, security) == IF security = <<>> THEN {} ELSE {doc.schemes[n] : n \in security[1]}

\* Alternatives, missing or unsupported schemes and several mechanisms are not
\* representable, in whatever order the map of the requirement is read.
Representable(doc, security) ==
  /\ Len(security) <= 1
  /\ \A i \in DOMAIN security : security[i] \subseteq DOMAIN doc.schemes
  /\ "unsupported" \notin Schemes(doc, security)
  /\ Cardinality(Schemes(doc, security) \ {"key"}) <= 1

Authorization(doc, security) ==
  LET mechanisms == Schemes(doc, security) \ {"key"} IN
  [auth |-> IF mechanisms = {} THEN "NONE" ELSE CHOOSE m \in mechanisms : TRUE,
   key |-> Known("key" \in Schemes(doc, security))]

----------------------------------------------------------------------------
(***************************************************************************)
(* Integrations.                                                           *)
(***************************************************************************)
ResolveStageVariables(text, variables) ==
  LET value == IF text \in StageVariables /\ text \in DOMAIN variables THEN variables[text] ELSE text
  IN IF value \in StageVariables \cup OtherVariables THEN Unresolved ELSE value

Resolved(p, variables) ==
  [p EXCEPT !.uri = ResolveStageVariables(@, variables),
            !.credentials = ResolveStageVariables(@, variables),
            !.connection = ResolveStageVariables(@, variables),
            !.target = ResolveStageVariables(@, variables)]

IsComplete(p) ==
  /\ Unresolved \notin {p.uri, p.credentials, p.connection, p.target}
  /\ p.type # "mock" => p.uri # ""
  /\ p.connectionType = "VPC_LINK" => p.connection # ""

IsHttp(p) == p.type \in {"http", "http_proxy"}
UsesVpcLink(p) == IsHttp(p) /\ p.connectionType = "VPC_LINK" /\ p.connection # ""

\* convertV1Integration and convertV2Integration agree but for VPC links.
Backend(p) ==
  CASE IsHttp(p) -> <<p.type, p.uri>>
    [] p.type = "aws" /\ p.uri = "service" -> <<"aws", p.uri>>
    [] p.type = "aws_proxy" /\ p.uri = "lambda" -> <<"lambda", p.uri>>
    [] p.type = "mock" -> <<"mock", "">>
    [] OTHER -> NoBackend

\* createV2VpcLinkBackend: the listener or the service is the URI.
VpcLinkBackend(uri, connection) ==
  IF connection # "" /\ uri \in {"listener", "discovery"} THEN <<"vpc_link", uri>> ELSE NoBackend

ConvertV2Integration(p) ==
  IF UsesVpcLink(p) THEN VpcLinkBackend(p.uri, p.connection) ELSE Backend(p)

\* An exported REST integration may name the listener behind its VPC link.
IsListenerIntegration(p) == p.target # "" /\ p.connectionType = "VPC_LINK"

\* executionRoleFromCredentials: the caller's own identity is no role.
RoleValid(p) == p.credentials \in {"", "role", "caller"}
RoleOf(p) == IF p.credentials = "role" THEN "role" ELSE "none"
=============================================================================
