---------------------------- MODULE MCS3External ----------------------------
(***************************************************************************)
(* Two regions of a partition and one of another; two buckets of a seed's  *)
(* names, one of which exists in both partitions; a bucket with a dot and  *)
(* one whose name holds a label of S3's own; one reserved name.            *)
(***************************************************************************)
EXTENDS S3External

MCWebsiteLabel == [r \in {"us", "cn"} |-> IF r = "us" THEN "s3-website-us" ELSE "s3-website-cn"]
MCMalformed ==
  {"bad", "s3", "s3-dualstack", "s3-accelerate", "s3-website", "dualstack", "s3-website-us",
   "s3-website-cn", "acme", "www"}
MCPartition ==
  [r \in {"us", "eu", "cn"} \cup MCMalformed |->
    IF r \in MCMalformed THEN "malformed" ELSE IF r = "cn" THEN "aws-cn" ELSE "aws"]

Acme == <<"acme">>
Prod == <<"acme-prod">>
Site == <<"www", "acme">>
Odd == <<"acme", "s3">>
Short == <<"a">>
Alias == <<"acme-s3alias">>

MCPermutationSuffixes == <<"", "-prod", "-s3alias">>
MCJoin ==
  [x \in {"acme", "acme-prod", "a"} \X {"", "-prod", "-s3alias"} |->
    CASE x = <<"acme", "">> -> Acme
      [] x \in {<<"acme", "-prod">>, <<"acme-prod", "">>} -> Prod
      [] x = <<"acme", "-s3alias">> -> Alias
      [] x = <<"a", "">> -> Short
      [] x[1] = "a" -> <<"a" \o x[2]>>
      [] OTHER -> <<"acme-prod" \o x[2]>>]
MCValidNames == {MCJoin[x] : x \in DOMAIN MCJoin} \ {Short}
MCReservedNames == {Alias, <<"a-s3alias">>, <<"acme-prod-s3alias">>}

MCInputs ==
  {[mode |-> "url", bucket |-> b, form |-> f, region |-> r] :
     b \in {Acme, Site, Odd}, f \in Forms, r \in {"us", "cn"}}
  \cup {[mode |-> "seed", variants |-> v, max |-> m] :
          v \in {<<>>, <<"a">>, <<"acme">>, <<"acme", "acme-prod">>, <<"a", "acme">>}, m \in {0, 2, 9}}

MCSelections == {<<>>, <<"us">>, <<"eu", "us">>, <<"us", "cn">>, <<"bad", "us">>}
MCWorlds ==
  {{}, {<<Acme, "us">>}, {<<Acme, "eu">>, <<Acme, "cn">>, <<Prod, "us">>},
   {<<Prod, "eu">>, <<Site, "eu">>, <<Odd, "us">>, <<Acme, "cn">>}}
MCAccesses ==
  {[list |-> l, objects |-> o, policy |-> l] : l \in BOOLEAN, o \in {"none"}}
  \cup {[list |-> TRUE, objects |-> o, policy |-> o = "readable"] :
          o \in {"readable", "some", "unreadable"}}
=============================================================================
