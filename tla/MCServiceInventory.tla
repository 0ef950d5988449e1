-------------------------- MODULE MCServiceInventory --------------------------
(***************************************************************************)
(* One or two worlds for each enumerator, in two regions, where items that *)
(* are whole stand beside those that each check of the code rejects, and   *)
(* things of another region, namespace or cluster have what would match.   *)
(***************************************************************************)
EXTENDS ServiceInventory, TLC

Thing(t, name, r) == [type |-> t, name |-> name, region |-> r, of |-> "none", whole |-> TRUE]
Part(t, name, of) == [type |-> t, name |-> name, region |-> "none", of |-> of, whole |-> TRUE]
Broken(x) == [x EXCEPT !.whole = FALSE]
With(x, fields) == fields @@ x
Attached(x) == With(x, [vpc |-> "v", subnets |-> {"s"}, groups |-> {"g"}])
Grouped(x) == With(x, [vpc |-> "none", subnets |-> {"s"}, groups |-> {"g"}])
InVpc(x) == With(x, [vpc |-> "v", subnets |-> {}, groups |-> {}])

Owned(x) == With(x, [owner |-> "o", arn |-> x.name])
InNet(x, vpc) == With(Owned(x), [vpc |-> vpc])

VpcWorld ==
  [passes |-> <<"vpc">>, regions |-> <<"r1", "r2">>, home |-> "r1", items |->
    {Owned(Thing("vpc", "v1", "r1")), With(Thing("vpc", "v2", "r1"), [owner |-> "none", arn |-> "none"]),
     Owned(Thing("vpc", "v3", "r2")),
     InNet(Thing("subnet", "s1", "r1"), "v1"), InNet(Thing("subnet", "s2", "r1"), "v2"),
     InNet(Thing("subnet", "s3", "r1"), "none"), InNet(Thing("subnet", "s4", "r2"), "v1"),
     [InNet(Thing("subnet", "s5", "r2"), "v3") EXCEPT !.arn = "other"],
     [InNet(Thing("subnet", "s6", "r2"), "v3") EXCEPT !.owner = "none"],
     Part("association", "a1", "v1"), Broken(Part("association", "a2", "v1")),
     Part("association", "a3", "s1"), Part("association", "a4", "s4")}]

Rule(name, of, group, direction, peers) ==
  With(Part("rule", name, of), [group |-> group, direction |-> direction, peers |-> peers])
Authorization(name, of, named) == With(Part("authorization", name, of), [named |-> named])

GroupWorld ==
  [passes |-> <<"securitygroup">>, regions |-> <<"r1", "r2">>, home |-> "r1", items |->
    {InVpc(Thing("group", "sgg1", "r1")), InVpc(Thing("group", "sgg2", "r2")), Broken(InVpc(Thing("group", "sgg3", "r1"))),
     InVpc(Thing("db group", "sgd1", "r1")), Broken(InVpc(Thing("db group", "sgd2", "r2"))),
     Rule("sgu1", "sgg1", "sgg1", "ingress", 1), Rule("sgu2", "sgg1", "sgg2", "ingress", 1),
     Rule("sgu3", "sgg1", "none", "none", 1), Rule("sgu4", "sgg2", "none", "egress", 2),
     Rule("sgu5", "sgg2", "none", "egress", 1),
     Authorization("sgz1", "sgd1", FALSE), Broken(Authorization("sgz2", "sgd1", TRUE)),
     Broken(Authorization("sgz3", "sgd1", FALSE))}]

Balancer(name, r, classic, kind) == With(Thing("balancer", name, r), [classic |-> classic, kind |-> kind])
Certificate(name, of, default) == With(Part("certificate", name, of), [default |-> default])
TargetGroup(name, of, known) == With(Part("target group", name, of), [known |-> known])

ClassicWorld ==
  [passes |-> <<"v1", "v2">>, regions |-> <<"r1", "r2">>, home |-> "r1", items |->
    {Attached(Balancer("clc1", "r1", TRUE, "none")), Grouped(Balancer("clc2", "r1", TRUE, "none")),
     Broken(Attached(Balancer("clc3", "r2", TRUE, "none"))), Grouped(Balancer("clb1", "r1", FALSE, "network")),
     Part("target", "clt1", "clc1"), Broken(Part("target", "clt2", "clc1")),
     Part("listener", "cll1", "clc1"), Broken(Part("listener", "cll2", "clc2"))}]

BalancerWorld ==
  [passes |-> <<"v2">>, regions |-> <<"r1">>, home |-> "r1", items |->
    {Attached(Balancer("lbb1", "r1", FALSE, "application")), Grouped(Balancer("lbb2", "r1", FALSE, "odd")),
     Part("listener", "lbl1", "lbb1"), Part("listener", "lbl2", "lbb1"), Broken(Part("listener", "lbl3", "lbb1")),
     Certificate("lbk1", "lbl1", TRUE), Certificate("lbk2", "lbl1", FALSE), Broken(Certificate("lbk3", "lbl1", FALSE)),
     Part("forward", "lbf1", "lbl2"), Broken(Part("forward", "lbf2", "lbl2")),
     TargetGroup("lbh1", "lbb1", TRUE), TargetGroup("lbh2", "lbb1", FALSE), Broken(TargetGroup("lbh3", "lbb1", TRUE)),
     Part("target", "lbt1", "lbh1"), Broken(Part("target", "lbt2", "lbh1")), Part("target", "lbt3", "lbh2")}]

ACL(name, r, scope) == With(Thing("web acl", name, r), [scope |-> scope])
ACLRule(name, of, statement, action, override) ==
  With(Part("acl rule", name, of), [statement |-> statement, action |-> action, override |-> override])
Distribution(name, of, acl) == With(Part("distribution", name, of), [acl |-> acl])

WebACLs ==
  {ACL("wafw1", "us-east-1", "regional"), Broken(ACL("wafw2", "us-east-1", "regional")),
   ACL("wafw3", "us-east-1", "global"), ACL("wafw4", "gov", "regional"),
   ACLRule("wafu1", "wafw1", "plain", "one", "absent"), ACLRule("wafu2", "wafw1", "group", "absent", "one"),
   ACLRule("wafu3", "wafw1", "group", "one", "absent"), ACLRule("wafu4", "wafw3", "none", "one", "absent"),
   ACLRule("wafu5", "wafw3", "plain", "other", "absent"),
   Part("load balancer", "wafx1", "wafw1"), Broken(Part("load balancer", "wafx2", "wafw1")), Part("stage", "wafx3", "wafw1"),
   Distribution("wafy1", "wafw3", "none"), Distribution("wafy2", "wafw3", "wafw1"), Broken(Distribution("wafy3", "wafw3", "wafw3"))}

WafWorld(regions) ==
  [passes |-> <<"waf", "cloudfront">>, regions |-> regions, home |-> "us-east-1", items |-> WebACLs]

Cluster(name, r, active) == With(Attached(Thing("cluster", name, r)), [active |-> active])
Pod(name, of, ns, node) ==
  With(Part("pod", name, of), [namespace |-> ns, labels |-> {"a"}, node |-> node])
Node(name, of, host) == With(Part("node", name, of), [host |-> host])
Service(name, of, ns, kind, selector) ==
  With(Part("service", name, of),
       [namespace |-> ns, kind |-> kind, selector |-> selector, external |-> kind = "ExternalName"])

ClusterWorld ==
  [passes |-> <<"eks">>, regions |-> <<"r1", "r2">>, home |-> "r1", items |->
    {Cluster("eksk1", "r1", TRUE), Cluster("eksk2", "r1", FALSE), Broken(Cluster("eksk3", "r2", TRUE)),
     Cluster("eksk4", "r2", TRUE),
     Pod("eksp1", "eksk1", "n1", "h1"), Pod("eksp2", "eksk1", "n2", "none"), Broken(Pod("eksp3", "eksk1", "n1", "h1")),
     Pod("eksp4", "eksk4", "n1", "h1"), Pod("eksp5", "eksk2", "n1", "h1"),
     Node("eksm1", "eksk1", "h1"), Broken(Node("eksm2", "eksk1", "h2")), Node("eksm3", "eksk4", "h1"),
     Service("ekse1", "eksk1", "n1", "LoadBalancer", {"a"}), Service("ekse2", "eksk1", "n1", "ClusterIP", {"a"}),
     Service("ekse3", "eksk1", "n1", "ExternalName", {"a"}), Service("ekse4", "eksk1", "n2", "NodePort", {}),
     Broken(Service("ekse5", "eksk1", "n2", "NodePort", {"a"})), Service("ekse6", "eksk4", "n1", "NodePort", {"a", "b"})}]

Record(name, of, routed, identifier) ==
  With(Part("record", name, of), [routed |-> routed, identifier |-> identifier])

ZoneWorld ==
  [passes |-> <<"route53">>, regions |-> <<>>, home |-> "r1", items |->
    {Thing("zone", "dnsz1", "r1"), Thing("zone", "dnsz2", "r1"), Broken(Thing("zone", "dnsz3", "r1")),
     Record("dnsr1", "dnsz1", FALSE, "none"), Record("dnsr2", "dnsz1", TRUE, "none"),
     Record("dnsr3", "dnsz2", TRUE, "given"), Record("dnsr4", "dnsz2", FALSE, "empty"),
     Broken(Record("dnsr5", "dnsz1", FALSE, "none")),
     Part("value", "dnsv1", "dnsr1"), Broken(Part("value", "dnsv2", "dnsr1")), Part("value", "dnsv3", "dnsr2")}]

Role(name, marks) == With(Thing("role", name, "r1"), [marks |-> marks])

RoleWorld(pass) ==
  [passes |-> <<pass>>, regions |-> <<>>, home |-> "r1", items |->
    {Role("iamr1", {}), Broken(Role("iamr2", {})), Role("iamr3", {"service path"}),
     Part("attachment", "iama1", "iamr1"), Part("attachment", "iama2", "iamr1"),
     Broken(Part("attachment", "iama3", "iamr1")), Part("attachment", "iama4", "iamr3"),
     Part("document", "iamd1", "iama1"), Broken(Part("document", "iamd2", "iama2")), Part("document", "iamd3", "iama4")}]

Cdn(name, detailed, summed) ==
  With(Thing("cdn", name, "us-east-1"), [detailed |-> detailed, summed |-> summed])
Origin(name, of, kind) == With(Part("origin", name, of), [kind |-> kind])

CdnWorld ==
  [passes |-> <<"cdn">>, regions |-> <<>>, home |-> "r1", items |->
    {Cdn("cdnd1", TRUE, TRUE), Cdn("cdnd2", FALSE, TRUE), Cdn("cdnd3", TRUE, FALSE), Broken(Cdn("cdnd4", TRUE, TRUE)),
     Origin("cdno1", "cdnd1", "s3"), Origin("cdno2", "cdnd1", "load balancer"), Origin("cdno3", "cdnd2", "ec2"),
     Origin("cdno4", "cdnd2", "custom"), Broken(Origin("cdno5", "cdnd3", "s3")), Origin("cdno6", "cdnd3", "api gateway"),
     Origin("cdno7", "cdnd1", "s3"),
     Part("backend", "cdnb1", "cdno1"), Part("backend", "cdnb2", "cdno2"), Broken(Part("backend", "cdnb3", "cdno3")),
     Part("backend", "cdnb6", "cdno6")}]

Object(name, of, sized) == With(Part("object", name, of), [sized |-> sized])

ObjectWorld(bucket, r) ==
  [passes |-> <<"objects">>, regions |-> <<>>, home |-> "r1", items |->
    {With(Thing("bucket", bucket, "r1"), [place |-> r]), Object(bucket \o "o1", bucket, TRUE),
     Object(bucket \o "o2", bucket, TRUE), Object(bucket \o "o3", bucket, FALSE)}]

Leading(x, target, policy) == With(x, [target |-> target, policy |-> policy])
URL(name, of, target, policy) == Leading(Part("url", name, of), target, policy)

FunctionWorld ==
  [passes |-> <<"lambda">>, regions |-> <<"r1", "r2">>, home |-> "r1", items |->
    {Leading(Thing("function", "lamf1", "r1"), "lamf1", "own"),
     Leading(Thing("function", "lamf2", "r1"), "lamf2", "malformed"),
     Broken(Leading(Thing("function", "lamf3", "r1"), "lamf3", "none")),
     Leading(Thing("function", "lamf4", "r2"), "lamf4", "none"),
     URL("lamu1", "lamf1", "lamf1", "own"), URL("lamu2", "lamf1", "live", "alias"), URL("lamu3", "lamf1", "live", "alias"),
     Broken(URL("lamu4", "lamf1", "other", "none")), URL("lamu5", "lamf2", "lamf2", "malformed"), URL("lamu7", "lamf4", "gamma", "malformed")}]

MCWorlds ==
  {VpcWorld, GroupWorld, ClassicWorld, BalancerWorld, ClusterWorld,
   ZoneWorld, RoleWorld("roles"), RoleWorld("own roles"), CdnWorld, FunctionWorld, ObjectWorld("buck1", "r1"), ObjectWorld("buck2", "r2"),
   WafWorld(<<"us-east-1">>), WafWorld(<<"gov">>), WafWorld(<<>>)}
=============================================================================
