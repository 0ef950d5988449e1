------------------------------ MODULE BucketURL ------------------------------
(***************************************************************************)
(* parseBucketURL of internal/s3/external: which bucket, and which region  *)
(* if it says, a URL is about.  The text of a host name is the sequence of *)
(* its labels, without the suffix of AWS; the name of a bucket is the      *)
(* sequence of its labels as well.                                         *)
(***************************************************************************)
EXTENDS Naturals, Sequences, SequencesExt, FiniteSetsExt

CONSTANTS
  WebsiteLabel,   \* region -> the label "s3-website-<region>"
  NoRegion,       \* the URL does not say
  NoName,         \* the URL is not recognized
  Unrecognized

SiteRegions == DOMAIN WebsiteLabel

FixedLabels == {"s3", "s3-external-1", "s3-dualstack", "s3-website", "s3-accelerate", "dualstack"}

\* The labels of website endpoints tell their regions apart, and what stands for
\* no region is none.
ASSUME LabelAssumption ==
  /\ \A r \in SiteRegions : WebsiteLabel[r] \notin FixedLabels
  /\ \A r, q \in SiteRegions : WebsiteLabel[r] = WebsiteLabel[q] => r = q
  /\ NoRegion # Unrecognized /\ {NoRegion, Unrecognized} \cap SiteRegions = {}

(***************************************************************************)
(* The URLs of a bucket: one per form of endpoint.  A URL is what the code *)
(* sees of it: the host, whether the host ends in AWS's suffix, and the    *)
(* first segment of the path.                                              *)
(***************************************************************************)
GlobalForms == {"virtual global", "accelerate", "accelerate dualstack", "path global", "custom"}
RegionalForms ==
  {"virtual", "virtual dualstack", "website dot", "website hyphen",
   "path", "path dualstack", "path legacy dualstack"}
Forms == GlobalForms \cup RegionalForms

Virtual(labels) == [host |-> labels, aws |-> TRUE, path |-> NoName]
PathStyle(labels, bucket) == [host |-> labels, aws |-> TRUE, path |-> bucket]

URLOf(bucket, form, region) ==
  CASE form = "virtual global" -> Virtual(bucket \o <<"s3">>)
    [] form = "virtual" -> Virtual(bucket \o <<"s3", region>>)
    [] form = "virtual dualstack" -> Virtual(bucket \o <<"s3", "dualstack", region>>)
    [] form = "website dot" -> Virtual(bucket \o <<"s3-website", region>>)
    [] form = "website hyphen" -> Virtual(bucket \o <<WebsiteLabel[region]>>)
    [] form = "accelerate" -> Virtual(bucket \o <<"s3-accelerate">>)
    [] form = "accelerate dualstack" -> Virtual(bucket \o <<"s3-accelerate", "dualstack">>)
    [] form = "path global" -> PathStyle(<<"s3">>, bucket)
    [] form = "path" -> PathStyle(<<"s3", region>>, bucket)
    [] form = "path dualstack" -> PathStyle(<<"s3", "dualstack", region>>, bucket)
    [] form = "path legacy dualstack" -> PathStyle(<<"s3-dualstack", region>>, bucket)
    [] form = "custom" -> [host |-> bucket, aws |-> FALSE, path |-> NoName]

ServiceLabels == FixedLabels \cup {WebsiteLabel[r] : r \in SiteRegions}

----------------------------------------------------------------------------
PathStyleRegion(labels) ==
  CASE labels \in {<<"s3">>, <<"s3-external-1">>} -> NoRegion
    [] Len(labels) = 2 /\ labels[1] \in {"s3", "s3-dualstack"} -> labels[2]
    [] Len(labels) = 3 /\ labels[1] = "s3" /\ labels[2] = "dualstack" -> labels[3]
    [] OTHER -> Unrecognized

VirtualHostedRegion(label, trailing) ==
  CASE label \in {"s3", "s3-accelerate"} /\ trailing = <<>> -> NoRegion
    [] label \in {"s3", "s3-website"} /\ Len(trailing) = 1 -> trailing[1]
    [] label = "s3" /\ Len(trailing) = 2 /\ trailing[1] = "dualstack" -> trailing[2]
    [] label = "s3-accelerate" /\ trailing = <<"dualstack">> -> NoRegion
    [] trailing = <<>> /\ \E r \in SiteRegions : label = WebsiteLabel[r] ->
         CHOOSE r \in SiteRegions : label = WebsiteLabel[r]
    [] OTHER -> Unrecognized

\* The places after the first label where the rest of the host is an endpoint.
EndpointsIn(labels) ==
  {i \in 2 .. Len(labels) :
     VirtualHostedRegion(labels[i], SubSeq(labels, i + 1, Len(labels))) # Unrecognized}

Nothing == [bucket |-> NoName, region |-> NoRegion]

ParsePathStyle(url) ==
  IF url.path = NoName \/ PathStyleRegion(url.host) = Unrecognized THEN Nothing
  ELSE [bucket |-> url.path, region |-> PathStyleRegion(url.host)]

\* ParseVirtualHosted that expects the name of a bucket to be one label.
ParseVirtualHostedFirstLabel(url) ==
  [bucket |-> SubSeq(url.host, 1, 1),
   region |-> VirtualHostedRegion(url.host[2], SubSeq(url.host, 3, Len(url.host)))]

ParseVirtualHosted(url) ==
  IF EndpointsIn(url.host) = {} THEN Nothing
  ELSE LET i == Min(EndpointsIn(url.host)) IN
       [bucket |-> SubSeq(url.host, 1, i - 1),
        region |-> VirtualHostedRegion(url.host[i], SubSeq(url.host, i + 1, Len(url.host)))]

ParseBucketURL(url) ==
  CASE ~url.aws -> [bucket |-> url.host, region |-> NoRegion]
    [] url.aws /\ url.host[1] \in {"s3", "s3-external-1", "s3-dualstack"} -> ParsePathStyle(url)
    [] OTHER -> ParseVirtualHosted(url)
=============================================================================
