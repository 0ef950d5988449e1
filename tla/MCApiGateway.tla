----------------------------- MODULE MCApiGateway -----------------------------
(***************************************************************************)
(* A REST API with an export that has every kind of operation, the same as *)
(* an HTTP API, one with two stages whose exports share the cache of links, *)
(* others that lack an id, a valid stage name, a document or an answer of  *)
(* their link, and two of both versions in two regions.                    *)
(***************************************************************************)
EXTENDS ApiGateway

MCVersions == <<"v1", "v2">>
MCRegions == <<"r1", "r2">>
MCLinks == [l \in {"link", "gone"} |-> IF l = "link" THEN {"lb1", "lb2"} ELSE {}]

Integration(type, uri) ==
  [ref |-> "", type |-> type, uri |-> uri, credentials |-> "", connectionType |-> "", connection |-> "",
   target |-> "", subtype |-> ""]
Ref(name) == [Integration("", "") EXCEPT !.ref = name]
Linked(link) ==
  [Integration("http_proxy", "listener") EXCEPT !.connectionType = "VPC_LINK", !.connection = link]
Lambda == [Integration("aws_proxy", "lambda") EXCEPT !.credentials = "role"]

Op(name, security, integration) ==
  [name |-> name, valid |-> TRUE, security |-> security, integration |-> integration]

Schemes5 == [n \in {"iam", "jwt", "key", "odd"} |->
  CASE n = "iam" -> "AWS_IAM" [] n = "jwt" -> "JWT" [] n = "key" -> "key" [] n = "odd" -> "unsupported"]
Components == [n \in {"first", "second", "loop", "pool"} |->
  CASE n = "first" -> Ref("second") [] n = "second" -> Linked("${stageVariables.link}")
    [] n = "loop" -> Ref("pool") [] n = "pool" -> Ref("loop")]

Document1 ==
  [valid |-> TRUE, server |-> "concrete", security |-> <<{"iam"}>>, schemes |-> Schemes5,
   components |-> Components,
   operations |->
     <<Op("a", NotGiven, Ref("first")), Op("b", <<>>, Lambda), Op("c", <<{"jwt", "key"}>>, Ref("loop")),
       Op("d", <<{"iam"}, {"jwt"}>>, [Lambda EXCEPT !.target = "listener", !.connectionType = "VPC_LINK",
                                                    !.connection = "link"]),
       [Op("e", NotGiven, Invalid) EXCEPT !.valid = FALSE], Op("f", <<{"iam", "jwt"}>>, Linked("gone")),
       Op("g", <<{"key"}>>, Integration("http", "${other}"))>>]
Document2 ==
  [Document1 EXCEPT !.server = "open", !.security = <<>>,
     !.operations = <<Op("a", NotGiven, [Integration("mock", "") EXCEPT !.credentials = "bad"]),
                      Op("b", <<{"odd"}>>, [Integration("aws", "service") EXCEPT !.subtype = "sqs"]),
                      Op("c", <<{"absent"}>>, Linked("link"))>>]
NoDocument == [Document2 EXCEPT !.valid = FALSE, !.operations = <<>>]

Named(name, document) ==
  [name |-> name, valid |-> TRUE, settings |-> TRUE, document |-> document,
   variables |-> [v \in {"${stageVariables.link}"} |-> "link"]]

Direct(name, auth, key, integration) ==
  [name |-> name, identified |-> TRUE, auth |-> auth, key |-> key, integration |-> integration]

Api(name, version, region, stages, routes) ==
  [name |-> name, version |-> version, region |-> region, identified |-> TRUE, stages |-> stages,
   routes |-> routes]

Rest == Api("rest", "v1", "r1", {Named("dev", Document1)},
            {Direct("x", "NONE", "no", Linked("link")), Direct("y", "AWS_IAM", "yes", Lambda)})
Pair == Api("pair", "v1", "r1",
            {Named("dev", [Document2 EXCEPT !.operations = <<Op("a", <<>>, Linked("link"))>>]),
             Named("prod", Document2)}, {})
Plain == Api("plain", "v1", "r1",
             {Named("only", NoDocument), [Named("bad", Document2) EXCEPT !.valid = FALSE]},
             {Direct("x", "COGNITO_USER_POOLS", "no", Linked("gone")),
              Direct("z", "NONE", "unknown", [Linked("link") EXCEPT !.uri = ""]),
              [Direct("y", "NONE", "no", Invalid) EXCEPT !.identified = FALSE]})
Small == Api("small", "v2", "r2", {[Named("only", Document2) EXCEPT !.settings = FALSE]},
             {Direct("x", "NONE", "no", [Lambda EXCEPT !.uri = "queue"]),
              [Direct("y", "NONE", "no", Invalid) EXCEPT !.identified = FALSE]})
Http == [Rest EXCEPT !.name = "http", !.version = "v2",
           !.routes = {Direct("x", "JWT", "no", Linked("link")), Direct("y", "CUSTOM", "no", Lambda)}]
Lone == Api("lone", "v1", "r1", {}, {})
Bare == Api("bare", "v2", "r2", {}, {})
Nameless(x) == [x EXCEPT !.identified = FALSE, !.name = "nameless"]

MCWorlds ==
  {{}, {Rest}, {Pair}, {Plain}, {Http}, {Small}, {Lone, Nameless(Rest)}, {Bare, Nameless(Http)},
   {Lone, Bare}}

Domain(name, apis, certificate) ==
  [name |-> name, named |-> name # "", apis |-> apis, certificate |-> certificate]
MCDomains == {Domain("a.example", {"rest", "http"}, TRUE), Domain("b.example", {"small"}, FALSE)}
=============================================================================
