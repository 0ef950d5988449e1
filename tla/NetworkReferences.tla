-------------------------- MODULE NetworkReferences --------------------------
(***************************************************************************)
(* The resolver of references to VPCs, subnets and security groups: one    *)
(* per region, each id looked up when first met, and what came of it, a    *)
(* failure included, kept for the next time.                               *)
(***************************************************************************)
EXTENDS Naturals

CONSTANTS
  Ids,          \* the ids of network resources
  RegionNames,
  Failed        \* what is known of an id whose look-up failed

VARIABLES
  cache,        \* Resolver.cache: id -> the region of the reference, or Failed
  region,       \* Resolver.region
  lookups       \* <<region, id>> -> how often the service was asked (history)

resolverVars == <<cache, region, lookups>>

ResolverInit ==
  /\ cache = <<>>
  /\ region \in RegionNames
  /\ lookups = [x \in RegionNames \X Ids |-> 0]

\* New that passes the cache on.
NewResolverKeepsCache(r) ==
  /\ region' = r
  /\ UNCHANGED <<cache, lookups>>

NewResolver(r) ==
  /\ cache' = <<>> /\ region' = r
  /\ UNCHANGED lookups

Remember(id, answer) ==
  cache' = [i \in DOMAIN cache \cup {id} |-> IF i = id THEN answer ELSE cache[i]]

\* Lookup that remembers only what it found.
LookupForgetsFailure(id, answer) ==
  /\ IF answer = Failed THEN UNCHANGED cache ELSE Remember(id, answer)
  /\ lookups' = [lookups EXCEPT ![<<region, id>>] = @ + 1]
  /\ UNCHANGED region

\* A call that fails, or whose answer is not the resource with an owner or has
\* another ARN, gives no reference.
Lookup(id, answer) ==
  /\ Remember(id, answer)
  /\ lookups' = [lookups EXCEPT ![<<region, id>>] = @ + 1]
  /\ UNCHANGED region

\* resolve: the answer is that of the cache, or of a look-up.
Resolve(id, answer) ==
  \/ id \in DOMAIN cache /\ answer = cache[id] /\ UNCHANGED resolverVars
  \/ id \notin DOMAIN cache /\ answer \in {region, Failed} /\ Lookup(id, answer)
=============================================================================
