-------------------------- MODULE MCPolicyConditions --------------------------
(***************************************************************************)
(* Conditions of up to two entries: each operator, set prefix and IfExists *)
(* on a trusted key and on the account, transport conditions, and source   *)
(* addresses of three and two bits, where a prefix of less than two and    *)
(* one bits is wide.                                                       *)
(***************************************************************************)
EXTENDS PolicyConditions

MCWidth == [f \in Families |-> IF f = "v4" THEN 3 ELSE 2]
MCWideBelow == [f \in Families |-> IF f = "v4" THEN 2 ELSE 1]

Entry(key, op, values) ==
  [key |-> key, op |-> op, set |-> "", exists |-> FALSE, values |-> values]
Quantified(e, set, exists) == [e EXCEPT !.set = set, !.exists = exists]
Variants(e) == {Quantified(e, set, exists) : set \in {"", "any", "all"}, exists \in BOOLEAN}

TextEntries ==
  UNION {Variants(Entry("trusted", op, {"fixed"})) : op \in {"equals", "notLike"}}
  \cup UNION {Variants(Entry("account", op, {"fixed"})) : op \in {"like", "notEquals"}}
  \cup {Entry("account", op, values) :
          op \in {"equals", "like", "notLike"},
          values \in {{"anonymous"}, {"any*", "fixed"}, {"none*"}, {}, Malformed}}
  \cup {Entry("arn", op, values) :
          op \in {"like", "notEquals"}, values \in {{"${v}"}, {"fixed", "any*"}, {}, Malformed}}
  \cup {Entry(key, "null", values) :
          key \in {"account", "arn", "trusted"},
          values \in {{"true"}, {"false"}, {"true", "false"}, Malformed}}
  \cup {Entry("trusted", "other", {"fixed"}), Entry("account", "other", {"fixed"}),
        Quantified(Entry("trusted", "null", {"true"}), "", TRUE)}

TransportEntries ==
  {Entry("secure", "bool", {"true"}), Entry("secure", "bool", {"false"}),
   Quantified(Entry("secure", "bool", {"false"}), "", TRUE),
   Entry("secure", "bool", {"true", "false"}), Entry("secure", "bool", Malformed),
   Entry("tls", "less", {12}), Entry("tls", "less", {12, 14}), Entry("tls", "less", {13}),
   Entry("tls", "less", {}), Entry("tls", "less", Malformed),
   Entry("free", "like", {"fixed"}), Entry("other", "equals", {"fixed"})}

\* The two halves of a family, one of them in parts, and one of them with less.
V4 == {<<"v4", <<0>>>>, <<"v4", <<1, 0>>>>, <<"v4", <<1, 1, 0>>>>, <<"v4", <<1, 1, 1>>>>}
V6 == {<<"v6", <<0>>>>, <<"v6", <<1, 0>>>>, <<"v6", <<1, 1>>>>}
Ranges ==
  {V4 \cup V6, V4, V6, (V4 \cup V6) \ {<<"v4", <<1, 1, 0>>>>}, (V4 \cup V6) \ {<<"v6", <<1, 0>>>>},
   {<<"v4", <<>>>>, <<"v6", <<>>>>}, V4 \cup {<<"v6", <<>>>>, <<"v6", <<0, 1>>>>},
   {<<"v4", <<0, 0>>>>, <<"v4", <<0, 1>>>>, <<"v4", <<1, 0>>>>, <<"v4", <<1, 1>>>>},
   {<<"v4", <<0, 0>>>>, <<"v6", <<1>>>>}, {<<"v6", <<1>>>>}, {}, Malformed}
AddressEntries ==
  {Entry("ip", op, values) : op \in {"ip", "notIp"}, values \in Ranges}
  \cup {Quantified(Entry("ip", "notIp", V4 \cup V6), "", TRUE), Entry("ip", "equals", {<<"v4", <<0, 0>>>>})}

Entries == TextEntries \cup TransportEntries \cup AddressEntries

\* With each entry, alone or beside one of a few others of every kind.
Companions ==
  {Entry("trusted", "equals", {"fixed"}), Entry("arn", "like", {"${v}"}),
   Entry("account", "equals", {"anonymous"}), Entry("secure", "bool", {"false"}),
   Entry("tls", "less", {13}), Entry("other", "equals", {"fixed"}),
   Entry("ip", "notIp", V4 \cup V6), Entry("ip", "ip", {<<"v4", <<0>>>>})}
MCConditions == {{}} \cup {{e} : e \in Entries} \cup {{e, d} : e \in Entries, d \in Companions}

P(form, values, entries) == [form |-> form, values |-> values, entries |-> entries]
Named(type, values) == [type |-> type, values |-> values]
MCPrincipals ==
  {P("absent", {}, {}), P("not", {}, {}), P("malformed", {}, {}), P("text", {"*"}, {}), P("text", {"arn"}, {})}
  \cup {P("map", {}, entries) :
          entries \in SUBSET {Named("AWS", {"arn", "*"}), Named("AWS", {"arn"}), Named("AWS", Malformed),
                              Named("Service", {"*"})}}
=============================================================================
