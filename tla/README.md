# methodaws in TLA+

A verification project for `methodaws`, a command line program that scans an AWS
account (or, anonymously, public S3 buckets) and writes one report. The modules are
translated from `src/cmd`, `src/internal` and `src/utils`; `PROJECT.json` maps every
definition to its lines.

The program is one thread. Nothing is persisted and nothing runs in parallel. What
makes it hard to get right is that every fact it reports comes from a remote call that
may fail, answer in part, or answer in pages, and that the report must say neither
more nor less than the calls established.

## The system

| Part | Source | State it keeps | Operations | What makes it correct |
|---|---|---|---|---|
| Command life cycle | `cmd/root.go`, `cmd/*.go`, `main.go` | flags, AWS configuration, regions, the output signal, `outputWritten` | parse twice (package flag, cobra), set up, discover regions, run, write, exit | one output at most, a failure of `Execute` is serialized once, exit code 2 means nothing was done, exit code 0 means a report |
| Regions | `utils/regions.go`, `utils/arn.go` | none (pure) | normalise, query region, enabled regions, fallback | never two partitions in one scan, never a selection changed silently |
| S3 enumeration | `internal/s3/enumerate/enumerate.go`, `resources.go` | page token, seen tokens, buckets by region, report, errors | list, place, group, process | no bucket lost without an error; each reported once, in its region |
| Bucket access evaluation | `internal/s3/enumerate/access_control.go` and the calls in `enumerate.go` | what is known of the policy, the ACL, two blocks | four calls, one evaluation | no claim that is not so; nothing unknown without a cause |
| Bucket policy evaluation | `internal/s3/enumerate/policy.go` | flags of two nested loops | scan statements, try probes, combine answers | definite answers are true of the policy |
| Policy conditions | `policy.go` (classifiers) | none (pure) | classify condition blocks, principals, address ranges | a condition called public admits everyone |
| S3 object listing | `internal/s3/list/list.go` | page token, objects | find the region, page | complete unless an error is told |
| S3 external | `internal/s3/external/*.go` | candidates, findings | locate, probe anonymously | tri-state answers; the same bucket gets the same answer in both modes |
| Reference resolver | `internal/networkreferences/resolver.go` | cache of VPCs, subnets, security groups | look up, fill caches, resolve | a cache changes cost, never answers |
| EC2, Lambda, RDS | `internal/{ec2,lambda,rds}` | pages, references, caches | one loop per region, page, resource and reference | whatever exists is reported or an error says why not; every missing reference is told |
| VPC, security groups, load balancers | `internal/{vpc,securitygroup,loadbalancer}` | pages, parts, joins | list, read the parts of each, join | the same, and no relation to what is not reported |
| EKS | `internal/eks` | clusters, nodes, pods, services | list, describe, join | the same |
| API Gateway | `internal/apigateway` | APIs, stages, routes, VPC link cache | two generations of the service, exported documents | a summary over partial data is unknown; nothing listed is lost |
| WAF, CloudFront, Route 53, IAM | `internal/{waf,cloudfront,route53,iam}` | page markers | page, read the parts | a listing that ends is complete or told to be broken off; a repeated marker ends it |

**Interactions.** `Command` calls one enumerator with the regions it discovered. Inside
S3, `S3Enumerate` calls the four detail calls of a bucket, `BucketAccess` evaluates what
they answered, and in it `BucketPolicy` answers questions about the policy document.
Values flow up by return; errors flow up as lists that are appended to the report. Errors
of the report never change the signal's status, by design.

**Hard behaviours.** Any call of any step may fail (partial failure everywhere); services
may repeat a continuation token; region discovery may be incomplete; an error may come
before, inside, or after the hook that writes the output; a nil answer must stay nil
through a chain of boolean combinations; a policy is judged by trying a few sample keys.

## Modules

| Module | What it is |
|---|---|
| `Decisions` | The nil-able booleans and the loops that combine them. |
| `BucketPolicy` | What `policy.go` concludes from a policy, as operators, and the reference it is measured against: what a policy *surely* and *possibly* says. |
| `PolicyScan` | The two pairs of nested loops as a state machine: one action per branch of the loop bodies, early returns included. |
| `BucketAccess` | The calls of one bucket, each of which may fail, and `evaluateS3Access`. Uses `BucketPolicy`'s operators, which `PolicyScan` shows the loops to compute. |
| `S3Enumerate` | `EnumerateS3` as a whole, the details of a bucket being one step. Implements `Inventory`. |
| `Regions` | The pure functions of `utils/regions.go`. |
| `Command` | One invocation of the program; uses `Regions`. |
| `BucketURL` | `parseBucketURL`: which bucket, and which region, a URL is about. |
| `S3External` | `EnumerateS3` of the anonymous scan: from a URL or a seed to candidate names, to located buckets, to probes. Uses `BucketURL` and `Decisions`. |
| `Inventory` | The contract of an enumerator: whatever there is, is reported, or an error accounts for it, when the report is returned. |
| `NetworkReferences` | The resolver of references and its cache, one per region. |
| `RegionalInventory` | The enumerators of EC2, Lambda and RDS, which differ in a few conditions. Extends `NetworkReferences`, implements `Inventory`. |
| `PolicyConditions` | The classifiers of principals, conditions and address ranges, whose outcomes are constants of `BucketPolicy`. |
| `StageRoutes` | What an exported OpenAPI document and an integration say, as operators. |
| `ApiGateway` | `EnumerateAPIGateway`: both versions, region by region. Uses `StageRoutes`, implements `Inventory`. |
| `ServiceReport` | What the enumerators below have in common: a pass over regions, a queue, an item under construction. |
| `VpcInventory`, `SecurityGroupInventory`, `LoadBalancerInventory`, `WafInventory`, `ClusterInventory`, `FunctionURLs`, `GlobalInventory` | One enumerator each; the last holds Route 53, IAM, CloudFront and the objects of a bucket. All extend `ServiceReport`. |
| `ServiceInventory` | Their composition, which implements `Inventory`. |
| `BucketAccessProofs`, `RegionalInventoryProofs`, `CommandProofs`, `S3EnumerateProofs`, `S3ExternalProofs`, `PolicyConditionsProofs`, `ServiceInventoryProofs`, `ApiGatewayProofs` | Theorems. |
| `MC*` | Instances for TLC. `MCBucketPolicy` is the universe of patterns and statements that two instances share. |

An operator whose name is that of another with a suffix that says what is wrong
(`ListFailsSilently`, `PageTrustsToken`) is a faulty variant. Nothing uses it: put in
place of the operator of that name it breaks a property, and shows that the property is
about the code.

### BucketPolicy and PolicyScan

A `*bool` of the code is "yes", "no" or "unknown". A statement is abstracted to the
outcomes of the code's own classifiers (does it name everyone, does it match the action,
is its condition public); a resource pattern is an opaque value, and constants say what it
matches and what the code's textual tests say about it (the probe `objectResourceProbe`
builds, the patterns `resourcePatternCovers` accepts). `TextAssumption` states what is
assumed of these tests: a probe is a key of its pattern, covering is inclusion, a whole
pattern has every key.

`PolicyScan` has one action per branch: `NextTask` and `Exhausted` are the outer loops,
`UnmatchedStatement` .. `OtherStatement` the body of `evaluatePolicyOperation`,
`IrrelevantDeny` .. `RelevantDeny` that of `evaluatePolicyOperationDeny`, `EndScan` and
`EndScanDeny` what follows the loops, `Return` what the outer loop does with an answer.
The outer loop takes operations in any order, a superset of the code's fixed order. The
specification is `ScanSpec`: it shares no variable with `BucketAccess`, so that one module of
proofs extends both.

`MCPolicyScan` asks every question of `analyzeBucketPolicy` about every policy of one or
two of about forty statements: a plain public Allow or Deny and everything that differs from it in one
respect, over the kinds of patterns that `policy_test.go` uses: "*", a bucket, a prefix
with and without slash, a key, "?", a variable. Two statements are enough for what
statements do to each other, an Allow against a Deny in either order, and two probes that
collide; three add no new pair. Keys are those the patterns tell apart.

### PolicyConditions

`BucketPolicy` takes what a condition does to a statement from constants; this module is
where the code computes it. A condition is a set of entries of classes of key, operator,
quantifier and values. `ReadPrincipal` .. `PrincipalsVisited` are the classifier of principals; `ReadCondition`,
`VisitEntry` and `VisitSourceIP` the body of the loop over the entries of an Allow, `EntriesVisited`
what follows it; `InsertCoveredPrefix` and `FamilyInserted` build the tree of address prefixes
(`prefixCoverageNode`); `ClassifyDenyCondition` is the classifier of a Deny, which has no loop of
more than one entry. Go visits a map in random order, so `left` is emptied in any order,
with the early returns where the code has them.

The reference is an evaluation of the condition over requests: `AllowVerdict` says that a
condition called public is met by some anonymous request, that one called restricted is met by
none (or by a narrow range of addresses only), and that an entry no anonymous request meets
decides in every order; `DenyVerdict` that a deny called blocking is met by every request of the
kind of principal and one called passing is not; `PrincipalVerdict` is about the
principal block. A requester chooses what `publicConditionKeys` hold, so the public claim is made of
conditions whose chosen keys do not contradict each other, and of at most one address entry: two are
judged one by one by the code, which says so. `CoverageExact` is about the tree alone: a
family is covered when and only when its prefixes hold every address. An `IpAddress` entry
counts as public by the width of one prefix, a `NotIpAddress` one by exact coverage; both
are as in the code. Values of account conditions are compared as text, also with a variable
in them, so no such value is used as one.

Instance: addresses of three and of two bits, of which a prefix below two and one bits counts as
wide, where the code has 32 and 128, 8 and 32: the tree is the same at every depth. Conditions of one entry
of each kind, or of one beside one of eight others of every kind.

### BucketAccess

`world` is what AWS holds. Each of the four calls answers from it or fails; block answers
may leave flags out. `Evaluate` is `evaluateS3Access` after `parsePolicy`. The properties
compare the report with `Surely` and `Possibly`, which compute access from the world
without the code's tri-state logic. Policies: every statement of the shared universe alone, and each
Allow against a plain Deny and the reverse; ACLs of at most one public group; blocks with at most one of
the two flags that count.

### S3Enumerate

The service may deliver any part of the undelivered buckets on a page, with any token,
also one it sent before. `Start` is the choice of the region of the first request, `ListFails`,
`LastPage`, `NextPage` are `listBuckets`, `FirstPass` is the loop that places buckets by
the listing's region or by `GetBucketLocation`, `SecondPass` the loop over regions and
buckets. Details are one step, since each of the four goes on after the failure of another.
Instance: two buckets in the regions with historical names, one in a region whose name the
code refuses, one entry without a name, two tokens: every branch of the loops is taken.

`Contract` is `Inventory` with the buckets as items, those of the account in a selected region
as the ones there are, and `Excused` as the errors that account for one. A listing that was
cut short excuses only what no page had brought. It is one contract for the program, so it
allows what only some enumerators do: a refused selection is told as the report is returned,
in one step (`Inventory!Return`).

**Fairness.** `FairSpec` adds `WF_vars(Next)`: there is one thread, and the SDK returns
from every call, with an answer or with an error. Nothing is assumed about *what* the
service answers. The listing ends because each page either fails, is the last, repeats a
token (and the code stops), or uses up one of finitely many tokens.

### Regions and Command

A command is one of six kinds, by what its methods do with the regions: scan each
discovered one, need at most one, hand them on, need no credentials, set no report (cobra's
own help and completion commands, which inherit the hooks), print the version.
`ParseStandardFlags` is the `flag.Parse` of `main`, which runs before cobra: no flag is
defined there, so a flag in front of the subcommand ends the process, with status 2 or, for
help, 0, and without a signal. `ParseFlags` is cobra's parsing, `SetupOutput` ..
`DiscoverRegions` are the pre-run hook, `Run` is the command,
`PersistentPostRun` and `ExecuteWritesFailure` the two places that write. The functions of
`Regions` that may return an error return the empty set for it; none returns an empty list.
Instance: three partitions (with, with a smaller, and without a fallback list), a region
in no list, a malformed name, nine selections, five accounts.

### BucketURL and S3External

Both modes of the scan are one loop over names and regions around `locateBucket`; a URL
gives one name, a seed gives `CandidateNames`, and they differ where the code does: what a
bucket outside the selected regions does to the search, and what is said when nothing was
found. The state `buckets` and `access` is what exists; the code learns of it only through
the calls, each of which may answer or fail, and the properties compare the report with it.
A host name is the sequence of its labels, so that a bucket with a dot in its name, or with
a label that is also one of S3's own, is a case like any other.

`URLNamesItsBucket` is claimed of buckets none of whose labels is a label of an endpoint
(`Unambiguous`): the host `a.s3.s3.amazonaws.com` of a bucket `a.s3` can be read in two
ways, and the code takes the first. `NoSilentLoss` is claimed when the regions in question
are of one partition; of several see the third disagreement below.

Instance: two regions of a partition and one of another, every form of URL, a bucket of
one label, one with a dot, one that holds the label "s3"; seeds of no, one and two variants
whose names collide, are invalid, or are reserved; requested maxima below, inside and above
the cap of three; selections that are empty, single, ordered against the default, across
partitions, and with a malformed name.

### Inventory, NetworkReferences and RegionalInventory

`RegionalInventory` is one loop over regions, one over pages, one over resources, one over
the blocks of a resource (network interfaces, a VPC configuration, a subnet group) and one over the
references of a block. `kind` says which of the three programs it is: Lambda converts page
by page where the others first list them all; RDS leaves out the engines of two other
services; the resolver that EC2 and Lambda share drops the subnets of a VPC it cannot
resolve, RDS has a copy that does not; an EC2 interface without a VPC loses its groups as
well. A page, a look-up of a reference and a look-up of an instance profile may each fail.
`lookups` is a history variable that counts the requests of the resolver. The attributes of
a resource that refer to nothing are left out: what is wrong with one of them is an error
beside the resource, never instead of it. So is what the URLs of a function hold, which is the step
`EnrichFunctionURLs` here and the module `FunctionURLs` in detail.

`Contract` is `Inventory` with the wanted resources of the regions as items. An error of
the listing of a region excuses only what no page had brought: pages before the failure
count. The map is the identity on what is reported.

Instance: two regions; of each kind two resources in the first that share a VPC, a subnet
and a group, and in the second one with the same ids, one without references and one that cannot be
identified; interfaces without owner or VPC; profiles that are absent, malformed, and of an
ARN that was used before. One VPC, subnet and group are enough for what a failure does to
the rest of its block, and two regions for what a cache may carry over.

### StageRoutes and ApiGateway

An API is converted in phases (`Phases`: stages, exports, routes, certificates), in another order
by each version. A stage's export is read operation by operation (`BeginOperation` and what
follows it), an integration is followed through the references of the document, and a VPC
link is looked up in the cache of the phase, which keeps successes only. `AccessHonest`:
a route is said to be open, or guarded, only if its security says so; the summary of an API says that keys
are required, or not, only if its methods settle it, those not listed included. `NothingLost`: every route, stage, certificate
and load balancer that exists is in the report or has an error that names it. `KeepsContract`
is `Inventory` with the APIs as items. `Terminates`: a document whose references form a cycle
does not keep the walk going.

Left out: endpoint types, log formats, CORS, and pages that are empty and not the last: the loops
of `apigwv1.go` and `apigwv2.go` follow any token, a repeated one too, so `Terminates` rests on the
service ending its listings, and is about the walks of the program itself. An
API is `identified` when it has an id and its ARN can be built. Instance: a document with
every kind of operation (missing, unsupported and alternative schemes, references that
chain, cycle and lead nowhere, stage variables with and without a value, each kind of
target), exported by both versions; two stages that share the cache of links; and APIs
without stages, routes, a document, a valid name or an id. One API at a time, but for the
pairs that show what one does to another and to the other region.

### ServiceReport and its enumerators

An item is a record of its type, name, region and what it is a part of; `whole` says that
it has what its conversion asks for. A *pass* is one enumerator in its list of regions
(or in the one home region), `Awaited` what a listing has still to bring, `IsPage` any page of it. An enumerator adds
the actions of its listing (`ListVpcs`, `ListRules`, ...), one that fails for each, one that
accepts and one that rejects an item of the queue, and the calls that bring parts. References into
the network go through `NetworkReferences`, as in `RegionalInventory`.

- `VpcInventory`: VPCs, then subnets, joined to the VPCs of the region that were read.
- `SecurityGroupInventory`: groups with their rules, then the groups of the classic databases.
- `LoadBalancerInventory`: classic ones with what the listing holds; those of version 2 with listeners,
  certificates, forwards, target groups and their targets by further calls.
- `WafInventory`: regional web ACLs and those of CloudFront, with rules and what they protect;
  the loops that follow markers by themselves. A first region outside the commercial partition
  skips CloudFront.
- `ClusterInventory`: clusters, then nodes, pods and services by three calls that may each
  fail, and the relations between them. Its listing follows any token. The error about a cluster that
  comes without its identity names none (`Nameless`): the contract lets it stand for every cluster
  that cannot be described whole, and for no other.
- `FunctionURLs`: the URLs of Lambda functions and the policies of what they lead to, with the
  cache of these (`Remembered`, `Document`).
- `GlobalInventory`: hosted zones with records and values, roles with attached policies and
  documents, distributions with origins and what is behind these (`origin`, from the details
  or, when these fail, from the summary), and the objects of one bucket, listed by the client
  of the bucket's own region.

`KeepsContract` refines `Inventory`: any item that is wanted is reported, or an error about
it, about what it is a part of, or about the listing that should have brought it is told.
`RelationsHold`: subnets are joined to their VPC, Kubernetes objects to those of their own cluster
and namespace, both ways (`KubernetesAgrees`); no relation has an end that the report lacks
(`EndsReported`); and a reference, an origin's backend or a URL's policy is there or told
to be missing (`ReferencesTold`, `OriginsTold`, `PoliciesTold`).
`Ends`: every enumeration returns, unless the service announces pages for ever. Two things are
meant by that, both named in the property. The paginators of the SDK and the loop of the clusters
follow any token that is not empty (no call sets `StopOnDuplicateToken`), so a page may be empty and
not the last, and such listings may go on (`Followed`, `AnotherPage`; `calls` tells one call
from the next). The loops of WAF compare a marker with the last one, so that only markers that
change each time keep them going: a repeated one, which the instance has, ends them. What is left,
and what `Ends` shows, is that nothing else keeps an enumeration going: not the queue, references,
passes, regions, nor any failure. The listings that are made whole
within one step (the certificates of a listener, what is behind an origin) are taken to end.

The contract leaves out objects without a size, which the code skips without an error, and
the bucket itself. Regions without a name and errors about attributes of an item that is
reported are left out. Names are unique across worlds, so an error names one item.

Instance: one or two worlds for each enumerator, never two enumerators in one, since they
share nothing but the report: items that are whole beside one that each check of the code
rejects, and things of another region, namespace or cluster that would match.

**Fairness.** As for `S3Enumerate`, `WF_vars(Next)`: one thread whose calls return.

## Runs

| Run | Shows |
|---|---|
| `policy_scan` | `ScanComputesAnswer`: early returns, flags and order change no answer. `PublicVerdictSound`, `DenyVerdictSound`: a definite answer is true of the policy whatever its doubts. `CertainPolicyIsDecided`: nothing stays unknown without a doubt, be it that each deny takes all of an allowed pattern or none of it. |
| `policy_scan_probe` | A violation, see below. |
| `bucket_access` | `AccessSound`: no claim that is not so. `EvidenceCounts`: what partial evidence says agrees with the whole, and complete evidence decides every field; whichever calls fail. |
| `s3_enumerate` | `LossesTold`: no bucket is missing without an error, and a report without errors is complete. `PlacedRight`: each bucket is reported once, in its region, and has one unless the call for it failed. `KeepsContract`: the refinement of `Inventory`. `Terminates`. |
| `command` | `OutcomeTold`: a failure of `Execute` is serialized once, the exit code 2 of `flag.Parse` leaves nothing written, opened or scanned, exit code 0 means a report or a text that was asked for. `RegionsHonoured`: the selection is scanned as given, an answer of the discovery is not overruled, a fallback stays in its partition. |
| `command_blank` | A violation, see below. |
| `s3_external` | `URLNamesItsBucket`: each form of URL leads to its bucket and region. `CandidatesWorthProbing`: the cap starves no variant and wastes no place. `FindingsHold`: what is reported is so, once, in its own region, and a failed probe is no denial. `LossesTold`: an omission, a bucket that exists and was asked for, or an empty report has an error that explains it. |
| `s3_external_partitions` | A violation, see below. |
| `regional_inventory` | `KeepsContract`: the refinement of `Inventory`. `ReferencesComplete`: every missing reference is told of its resource, also when the failure comes from the cache. `OneAnswerPerRegion`: what the cache may and must do (one look-up, one answer, no other region's). `RoleOfAttachedProfile`: the profile cache, which outlives regions, gives no role of another profile with the same ARN. |
| `policy_conditions` | `PrincipalVerdict`, `AllowVerdict`, `DenyVerdict`: a definite class is true of the requests there can be, in whatever order the map is visited. `CoverageExact`: the tree is full exactly when its prefixes are everything. |
| `api_gateway` | `AccessHonest`, `NothingLost`, `KeepsContract`, `Terminates`. |
| `service_inventory` | `RelationsHold`, `KeepsContract`, `Ends`. |

Properties made of named parts (`LossesTold`, `PlacedRight`, `OutcomeTold`, `RegionsHonoured`,
`OneAnswerPerRegion`, `FindingsHold`, `EvidenceCounts`, `RelationsHold`, `AccessHonest`) are
conjunctions; TLC names the property, the part is seen in the state.

No run turns deadlock checking off: what stops, stops in an action that says so.

### Disagreements met

- `policy_scan_probe`: a test promises that a deny on the key that is probed does not hide
  a broader public prefix. For a pattern without a slash, such as `bucket*`, no probe is
  built, so the base key is the only one tried and a deny of that key hides the rest.
  `PublicVerdictSound` therefore claims "no" only of policies whose patterns have probes
  of their own (`Probed`).
- `command_blank`: the flag says that a blank `--regions` searches all regions. When the
  discovery fails, the fallback list is scanned instead and nothing in the output says so.

- `s3_external_partitions`: the `--regions` flag promises that several regions can be
  searched. A name is dropped as soon as one region knows a bucket of that name outside the
  selection, or located in it, so that a bucket of the same name in the partition of a later
  selected region is never looked for.

## Proofs

The TLAPS proofs hold for all values of the constants that satisfy the assumptions named
below, all of which TLC evaluates on the instances. The two policy modules need
`KeyAssumption`, `PatternAssumption`, `TextAssumption` and `PoliciesAssumption`.

`BucketAccessProofs` has three parts. The first proves sound the formula of a policy's answers: the lemmas reduce "yes" and "no" of the
combining loops to facts about single operations, and the theorems relate those to
`SurelyPublic`, `PossiblyPublic`, `SurelyDenies` and `PossiblyDenies`. The "no" of a
capability needs `Probed`, and its proof shows where: a granted key must lie in the pattern
whose own probe was tried and denied by a statement that covers the pattern.
`CertainCapability` and `CertainDeny` are the converse, from which it follows that a
certain policy is decided (`CertainPolicyDecided`): a pattern that is probed is listed by an
Allow, so in a `CertainPolicy` every deny covers it or spares it (another operation, other
principals or disjoint resources); a deny that spares it does not match its probe.

The second part carries this to the report of a bucket (`AccessReportSound`), from
`AccessAssumption` beside those of the policy. The invariant is `EvidenceInv`: what is known of
the policy, the ACL and the blocks is what AWS holds, with flags left out perhaps, or nothing.
Each part of an answer then says what is so, if it says anything: a flag of the merged blocks
(`MergeSound`), a capability the policy opens (`OpenedSound`), a permission it denies
(`DeniedSound`), a grant of the ACL (`AclSound`), and the fields made of these
(`AccessFieldSound`). Full control is where yes and no differ: one operation denied takes it
away. The "no" of reading and writing rests on `Probed`, as above. `AccessEvidenceCounts` adds
both directions of doubt: each operator is monotone in what is unknown (`DecisionsRefine`), so
less evidence makes a field unknown at most (`AccessRefines`); and none of them makes an
unknown of known arguments (`AccessDecided`). For the latter `ProgressInv` says that, while no
call has failed, what has been asked for is known; and `ReportAssumption`, that a report is not
mistaken for none.

The third part proves of `PolicyScan` that it is type correct (`ScanTypeCorrect`), that
its answer is the formula of the policy (`ScanAnswerIsFormula`), and that definite answers
are sound (`PublicAnswerSound`, `DenyAnswerSound`). The answer alone is not inductive: the
invariant `ScanInv` adds what the code keeps in its flags. `TaskInv`: the tasks
left are tasks of the question. `FlagsInv`: in the middle of a scan the flags say exactly
what the statements passed hold, and none of them was a settling one. `DoneInv`: none of the tasks done
had a settling answer, and the outer flag tells whether one was unknown. From `DoneInv` at
`Exhausted`, and from `FlagsInv` at `EndScan` or an early return, the answer follows.

`RegionalInventoryProofs` proves of any resources and regions that satisfy
`InventoryAssumption` (the regions are distinct, ids of different kinds differ) that the
enumerators implement the contract (`RegionalInventoryKeepsContract`), that they are type
correct, and that an id is looked up once a region. The contract needs an invariant because
what excuses a resource is an error told long before the return: `CoverInv` says where a
wanted resource can be (on no page yet, queued, in conversion, reported, rejected),
`ListingInv` that a region's listing has an error only if it is over and that what is
undelivered then has one, and `PlaceInv` that nothing is left of a region when the next
begins. A page then takes nothing away from what is excused, since the listing it belongs to
has not failed. `LookupInv` adds that the count of an id is zero until the cache of the
region knows it, and zero in all regions to come.

Its second part adds what the report says of a resource: its references are complete
or explained (`RegionalReferencesComplete`), a region has one answer for an id
(`RegionalAnswersAgree`), and a role is that of the attached profile (`RolesAreAttached`). The
invariants are `BlocksInv` (the blocks that are done are complete; what is missing of the one
at work is pending), `AnswerInv` (a failure is told only of regions visited, and in the region
at work exactly of what the cache remembers as failed, so a fresh resolver for each region is
what keeps the regions apart) and `RoleInv`. The completeness of references needs of
`InventoryAssumption` that a block without a network, the groups of an instance, has neither
VPC nor subnets: the resolver would leave such subnets out without a word.

`CommandProofs` proves, from `RegionAssumption` and `CommandAssumption`, that a command is
type correct, that its exit code agrees with what was written (`CommandTellsOutcome`), and
that what is scanned is what was asked for (`CommandHonoursRegions`). Both properties speak
of the end, so the invariants say what holds on the way. `WritesInv`: nothing is written
before the command has returned or failed, a failure is in the signal by then, and what has
been written was the signal; what `flag.Parse` ends has not begun. A panic and a signal of
the operating system are no ends of the model. `RegionsInv`: the regions are the selection until the discovery,
and after it those that have to be scanned (`Honoured`); the report is about these. Where no
discovery answers, the proof needs of the fallback lists that each is of its own partition.

`S3EnumerateProofs` proves, from `EnumerateAssumption` and `ConstraintAssumption` (the two
historical names that GetBucketLocation answers), that the enumeration is type correct, that an
error accounts for every bucket the report leaves out (`EnumerateTellsLosses`), and that each
reported bucket is reported once, in its own region (`EnumeratePlacesRight`), and that the
enumeration implements the contract (`EnumerateKeepsContract`). The invariant follows a bucket
from one place to the next. `ListInv`: what no page has brought is still to come, or an error has
cut the listing short. `PlaceInv`: a bucket the first pass has looked at is in the group of its
region, or an error names it. `ReportInv`: what is reported comes from a group of a region to
process, once, and when all is done no member of such a group is left out. The refinement needs
one more fact: an excuse that rests on what no page had brought must not go when a page brings
it. It does not, for pages come only while nothing has cut the listing short (`NotCutShort`,
`ExcusesKept`).

`S3ExternalProofs` proves the five invariants of `S3External`, for any buckets, names, regions and
selections. It needs `LabelAssumption` (the labels of website endpoints tell regions apart and are
not the fixed labels), `ExternalAssumption` (in a world, a name has one bucket in a partition; what
is asked for is well-formed, `IsInput`) and `FindingAssumption` (a report is not mistaken for none).
Two of the properties are about pure functions. `candidateNames` numbers its candidates by
counting the places of the list where a valid name comes for the first time (`Fresh`, `UpTo`,
`Nth`); the proof shows that counting to the n-th such place and taking it are inverse
(`NthFacts`, `NthOf`), so what the cap leaves out lies behind all that it lets in (`LeftOutFacts`),
and, the list being sorted by suffix, has no better one (`CandidatesMostValuable`). `parseBucketURL`
takes the first place where the rest of a host is an endpoint: no label of an unambiguous bucket
starts one, and what the form adds does (`VirtualHostedBucket`, `ParsedURL`).

For the other three the invariant `ExternalInvariant` follows a name from being ahead to being put
aside. `WhatIsAhead`: the names ahead are distinct and asked for, none has been reported, and the
regions are those of the selection or the URL. `ProbedWhereItIs` and `ProbesSoFar`: the bucket at
work is where it was found, and what its finding lacks, of the probes that are over, an error
says. `NothingDropped`: a wanted bucket is ahead or accounted for; while its name is the current one, every
region asked so far has failed and said so, or it is the one being probed. This holds because, in
one partition, every region to check knows a wanted bucket and no other of its name
(`WantedLocated`), which is also where the proof needs a single partition: of several, the claim is false,
as the run `s3_external_partitions` shows.

`PolicyConditionsProofs` proves the five invariants of the classifiers for conditions with any
number of entries and for prefixes of any width. It needs `WidthAssumption` (a width of at least one
bit), `ConditionAssumption` (a condition is a finite set of entries with finite sets of values,
of the kind their key has) and `PrincipalAssumption`. The tree of prefixes comes first
(`PrefixTreeExact`): its nodes are an antichain, cover the addresses of what was inserted and
no others, and the root is covered exactly if every address is. What a node covers is
a recursive function in the code; the proof gives the level at which the collapse of two
halves ends in closed form and shows by minimal counterexample that the function finds it.
Principals are a small invariant of their own (`PrincipalsJudgedRight`). For an Allow
(`AllowConditionsJudgedRight`) the loop may have read any subset of the entries in any order:
`EntriesInv` says that no entry read so far excludes the public, that the flags tell which of
them restrict or cannot be judged, and that the tree holds the addresses of the positive source
entry, if it was read. When the loop ends, a condition called public needs one request that
meets all entries at once: the proof puts it together from an address the tree leaves and
from one value for each key. `DenyConditionsJudgedRight` reasons the other way about, every request
of the public being blocked, and `ConditionsTypeCorrect` closes the module.

`ServiceInventoryProofs` proves the safety properties of `ServiceInventory`: its types, that it
implements the contract (`ServiceKeepsContract`), and that the relations hold
(`ServiceRelationsHold`), for any worlds, with any number of passes' regions, items and pages.
It needs `ServiceAssumption` (names are unique, regions distinct) and `WorldAssumption`, which
says what AWS and the callers make of a world: the passes are those that the commands start; an
item that is part of another is of a type that the other has; a listener that has certificates has a
default one; targets that are the same have the same policy. The code reads each of these off one
response or passes it on as it came, and the proof fails without them.

The contract cannot be proved from what is held alone: an item may be missing without an
error as long as a call that brings it is still to come. `Open` says that it is, from the pass and
the region down to the stage of its item. `LossInv` has two halves that need each other: what is
wanted is held, open or excused; and no listing has an error while something it should bring is
open. The second half is why an excuse, once valid, remains so when the item arrives after
all. A step that keeps both is `Orderly`, and the actions, of which there are about sixty, are
of few kinds: a page of roots (`ListStep`), an item of the queue refused or taken up (`RejectStep`,
`AcceptStep`), parts of an item read (`ReadStep`, `PartsRead`), the VPC command (`VpcStep`), and
steps that bring nothing (`QuietStep`). Each kind is shown to be orderly once.

`Relations` is the invariant behind `RelationsHold`, about what is known, not only what is
reported: an object that is still to come has no relation yet (`Untouched`), so that the joins of
one cluster cannot reach into another; what an item refers to is linked, told, or pending;
origins have their backends before and after both are put away; a URL has the policy that
its target had when it was first asked for. All but six actions add nothing that takes part in a
relation (`Plain`). `NoneTwice`, that what is reported does not come again, closes the gap for
items with references.

`ApiGatewayProofs` proves the safety properties of `ApiGateway`: its types, the contract
(`GatewayKeepsContract`), and that a report is honest (`GatewayAccessHonest`) and complete or
explained (`GatewayNothingLost`). It needs `ApiAssumption`: no version and no region is asked
for twice, as the command fixes the first and normalises the second, the stages of an API
are finite, and each exported document is one that the code can decode (`IsDocument`): its
operations are the methods of its paths, so that a valid one is named once, and a scheme is
of one of the kinds the export knows. The contract is carried by `Delivery`, which follows an API from the page
it was on to its report, and ties each error of a listing to a region that has been called:
while APIs of a region may still come, no error excuses them.

The two properties speak of reports that are complete, so the invariant says the same of the one in the
making. `Draft` says, for each phase, what holds of all that was asked for already: in the
middle of the exports, of each stage but those in `todo` and the one at work; in the middle of a
stage, of its operations before `next` (`DraftExports`); in the middle of an operation, that
the payload is one its references lead to and the route one its security allows
(`DraftOperation`). The order of the phases differs by version, and `Past` and `Doing` say
of a phase that it is over or at work without naming its place. What a draft holds or says it lacks
remains so (`OperationKept`, `StageKept`, `HonestKept`), since errors and routes are only added
and an update of a stage replaces it by one that has all its routes. The summary of keys
needs more than the routes listed: `DraftKeys` says that, as long as `complete` holds, each method has a
route whose answer is its own or unknown, so that a "no" of the summary is a "no" of every
method. Reachability through references is stated by closed sets rather than by a walk
(`Reachable`), which makes a step of the walk a matter of one set.

Only model-checked: termination, that of `S3Enumerate` and of the inventories (liveness under
fairness is out of the prover's reach).

## Not modelled

- Text: names, ARNs, JSON, the wording of errors. Where a textual test decides something, its
  outcome is part of the instance (`TextAssumption`, `whole`, `identified`).
- Anonymous policy variables within values (`resolveAnonymousPolicyVariables`) and ARN
  patterns within condition values.
- Attributes of a resource that lead to no other resource and no early return: tags, sizes, KMS keys, logging
  options, roles of clusters and databases, endpoint types, CORS. A failure about one adds an
  error beside the item, never instead of it.
- What the calls for one bucket fill in beside its access (`configuredBucketResources`).
- The credentials command of EKS, the proxy configuration of HTTP clients, logging, the
  account id: one call each, without state that outlives it.
- The generated report types and vendored code: no logic of this program.
