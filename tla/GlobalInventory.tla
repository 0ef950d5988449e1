--------------------------- MODULE GlobalInventory ---------------------------
(***************************************************************************)
(* The enumerations of global services: EnumerateRoute53, EnumerateIam and *)
(* GatherCloudFrontInfo, and ListS3Bucket, that of one bucket's objects.   *)
(***************************************************************************)
EXTENDS ServiceReport

----------------------------------------------------------------------------
(***************************************************************************)
(* Hosted zones, converted page by page, their records and what these hold.*)
(***************************************************************************)
ListZones ==
  /\ pc = "zone" /\ pc' = "convert"
  /\ \E batch \in SUBSET Awaited("zone"), last \in BOOLEAN :
       /\ IsPage(batch, Awaited("zone"), last)
       /\ undelivered' = undelivered \ batch
       /\ queue' = batch /\ more' = ~last
  /\ UNCHANGED <<where, marker, calls, building, reported, links, errors, resolverVars>>

ZonesFail ==
  /\ pc = "zone" /\ pc' = "region" /\ more' = FALSE
  /\ errors' = errors \cup {ListError("zone", Region)}
  /\ UNCHANGED <<where, undelivered, marker, calls, queue, building, reported, links, resolverVars>>

RejectGlobal(x) == Pass \in {"route53", "cdn"} \cup RolePasses /\ x \in queue /\ ~x.whole /\ RejectItem(x)

AcceptZone(x) ==
  /\ Pass = "route53" /\ TakeFromQueue(x) /\ x.whole
  /\ item' = x /\ pc' = "record"
  /\ UNCHANGED <<where, undelivered, paging, built, pending, reported, links, errors, resolverVars>>

\* A record that is one of several of its name and type needs an identifier.
RecordConverts(r) == r.whole /\ r.identifier # "empty" /\ (r.routed => r.identifier = "given")

ListRecords ==
  /\ pc = "record"
  /\ \E batch \in SUBSET AwaitedParts("record", item), last \in BOOLEAN :
       LET kept == {r \in batch : RecordConverts(r)}
           values == PartsOfAll("value", kept)
       IN /\ IsPage(batch, AwaitedParts("record", item), last)
          /\ CallAgain(last)
          /\ undelivered' = undelivered \ batch
          /\ built' = built \cup kept \cup Whole(values)
          /\ errors' = errors \cup Rejections((batch \ kept) \cup (values \ Whole(values)))
          /\ pc' = IF last THEN "append" ELSE "record"
  /\ UNCHANGED <<where, queue, item, pending, reported, links, resolverVars>>

RecordsFail ==
  /\ pc = "record" /\ pc' = "append"
  /\ CallAgain(TRUE)
  /\ errors' = errors \cup {ListError("record", item.name)}
  /\ UNCHANGED <<where, undelivered, queue, building, reported, links, resolverVars>>

----------------------------------------------------------------------------
(***************************************************************************)
(* IAM roles, the policies that are attached and the documents of these.   *)
(***************************************************************************)
\* isAWSManagedRole: any mark of path, ARN or name tells.
KeptRoles(xs) == IF Pass = "own roles" THEN {x \in xs : x.marks = {}} ELSE xs

ListRoles ==
  /\ pc = "role"
  /\ \E batch \in SUBSET Awaited("role"), last \in BOOLEAN :
       /\ IsPage(batch, Awaited("role"), last)
       /\ CallAgain(last)
       /\ undelivered' = undelivered \ batch
       /\ queue' = IF last THEN KeptRoles(queue \cup batch) ELSE queue \cup batch
       /\ pc' = IF last THEN "convert" ELSE "role"
  /\ UNCHANGED <<where, building, reported, links, errors, resolverVars>>

RolesFail ==
  /\ pc = "role" /\ pc' = "convert" /\ queue' = KeptRoles(queue)
  /\ CallAgain(TRUE)
  /\ errors' = errors \cup {ListError("role", Region)}
  /\ UNCHANGED <<where, undelivered, building, reported, links, resolverVars>>

AcceptRole(x) ==
  /\ Pass \in RolePasses /\ TakeFromQueue(x) /\ x.whole
  /\ item' = x /\ pc' = "attachment"
  /\ UNCHANGED <<where, undelivered, paging, built, pending, reported, links, errors, resolverVars>>

\* GetPolicy or GetPolicyVersion may fail, or bring what cannot be decoded: then
\* the policy is reported without its document.
ListAttachments ==
  /\ pc = "attachment"
  /\ \E batch \in SUBSET AwaitedParts("attachment", item), last \in BOOLEAN :
     \E failing \in SUBSET Whole(batch) :
       LET documents == PartsOfAll("document", Whole(batch) \ failing)
           found == batch \cup documents
       IN /\ IsPage(batch, AwaitedParts("attachment", item), last)
          /\ CallAgain(last)
          /\ undelivered' = undelivered \ found
          /\ built' = built \cup Whole(found)
          /\ errors' = errors \cup Rejections(found \ Whole(found))
                              \cup {ListError("document", a.name) : a \in failing}
          /\ pc' = IF last THEN "append" ELSE "attachment"
  /\ UNCHANGED <<where, queue, item, pending, reported, links, resolverVars>>

AttachmentsFail ==
  /\ pc = "attachment" /\ pc' = "append"
  /\ CallAgain(TRUE)
  /\ errors' = errors \cup {ListError("attachment", item.name)}
  /\ UNCHANGED <<where, undelivered, queue, building, reported, links, resolverVars>>

----------------------------------------------------------------------------
(***************************************************************************)
(* CloudFront distributions, their origins and what is behind these.       *)
(***************************************************************************)
ListCdns ==
  /\ pc = "cdn"
  /\ \E batch \in SUBSET Awaited("cdn"), last \in BOOLEAN :
       /\ IsPage(batch, Awaited("cdn"), last)
       /\ CallAgain(last)
       /\ undelivered' = undelivered \ batch
       /\ queue' = queue \cup batch
       /\ pc' = IF last THEN "convert" ELSE "cdn"
  /\ UNCHANGED <<where, building, reported, links, errors, resolverVars>>

\* The distributions of the pages before are processed.
CdnsFail ==
  /\ pc = "cdn" /\ pc' = "convert"
  /\ CallAgain(TRUE)
  /\ errors' = errors \cup {ListError("cdn", Region)}
  /\ UNCHANGED <<where, undelivered, queue, building, reported, links, resolverVars>>

\* When the details fail, or lack what is needed, the summary is used, if it
\* says whether the distribution is enabled.
ProcessDistribution(x) ==
  /\ Pass = "cdn" /\ TakeFromQueue(x) /\ x.whole
  /\ \/ /\ x.detailed /\ UNCHANGED errors /\ item' = x /\ pc' = "origin"
     \/ /\ x.summed /\ errors' = errors \cup {<<"details", x.name, NoId>>}
        /\ item' = x /\ pc' = "origin"
     \/ /\ ~x.summed /\ errors' = errors \cup {<<"details", x.name, NoId>>} \cup Rejections({x})
        /\ UNCHANGED <<item, pc>>
  /\ UNCHANGED <<where, undelivered, paging, built, pending, reported, links, resolverVars>>

\* classifyOriginType: an origin in a VPC and a name of one's own have no
\* backend that is looked for.
Resolvable(o) == o.kind \in {"s3", "load balancer", "ec2", "api gateway"}

\* resolveOriginBackend.  The look-ups of a backend may fail, but for that of a
\* bucket, which only a definite answer says is not there.
ProcessOrigins ==
  /\ pc = "origin" /\ pc' = "append"
  /\ LET given == Parts("origin", item)
         asked == {o \in Whole(given) : Resolvable(o)}
     IN \E failing \in SUBSET {o \in asked : o.kind # "s3"} :
          LET backends == PartsOfAll("backend", asked \ failing)
              missed == failing \cup {o \in asked : Parts("backend", o) = {}}
          IN /\ undelivered' = undelivered \ (given \cup backends)
             /\ built' = built \cup Whole(given \cup backends)
             /\ errors' = errors \cup Rejections((given \cup backends) \ Whole(given \cup backends))
                                 \cup {ListError("backend", o.name) : o \in missed}
  /\ UNCHANGED <<where, paging, queue, item, pending, reported, links, resolverVars>>

----------------------------------------------------------------------------
(***************************************************************************)
(* The objects of a bucket.                                                *)
(***************************************************************************)
\* bucketRegion.  The listing is tried all the same when it fails.
LocateBucket ==
  /\ pc = "bucket" /\ pc' = "object"
  /\ \E x \in Awaited("bucket") :
       /\ item' = x /\ undelivered' = undelivered \ {x}
       /\ UNCHANGED errors \/ errors' = errors \cup {<<"locate", x.name, NoId>>}
  /\ UNCHANGED <<where, paging, queue, built, pending, reported, links, resolverVars>>

\* The region of the client: where the bucket is, or where the caller is.
ClientRegion == IF <<"locate", item.name, NoId>> \in errors THEN world.home ELSE item.place

\* S3 serves a bucket in its own region.  Objects without a size are left out.
ListObjects ==
  /\ pc = "object" /\ ClientRegion = item.place
  /\ \E batch \in SUBSET AwaitedParts("object", item), last \in BOOLEAN :
       /\ IsPage(batch, AwaitedParts("object", item), last)
       /\ CallAgain(last)
       /\ undelivered' = undelivered \ batch
       /\ built' = built \cup {o \in batch : o.sized}
       /\ pc' = IF last THEN "append" ELSE "object"
  /\ UNCHANGED <<where, queue, item, pending, reported, links, errors, resolverVars>>

ObjectsFail ==
  /\ pc = "object" /\ pc' = "append"
  /\ CallAgain(TRUE)
  /\ errors' = errors \cup {ListError("object", item.name)}
  /\ UNCHANGED <<where, undelivered, queue, building, reported, links, resolverVars>>

GlobalNext ==
  \/ ListZones \/ ZonesFail \/ ListRecords \/ RecordsFail
  \/ ListRoles \/ RolesFail \/ ListAttachments \/ AttachmentsFail
  \/ ListCdns \/ CdnsFail \/ ProcessOrigins
  \/ LocateBucket \/ ListObjects \/ ObjectsFail
  \/ \E x \in queue : RejectGlobal(x) \/ AcceptZone(x) \/ AcceptRole(x) \/ ProcessDistribution(x)
=============================================================================
