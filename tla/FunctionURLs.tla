----------------------------- MODULE FunctionURLs -----------------------------
(***************************************************************************)
(* enrichFunctionURLs: the URLs of a Lambda function and the resource      *)
(* policies of what they lead to, the function itself or one of its        *)
(* aliases.  What else EnumerateLambda does is in RegionalInventory.       *)
(*                                                                         *)
(* A function and a URL have a target, the function or an alias, and the   *)
(* policy of that: a document, "none" or "malformed".                      *)
(***************************************************************************)
EXTENDS ServiceReport

ListFunctions ==
  /\ pc = "function" /\ pc' = "convert"
  /\ \E batch \in SUBSET Awaited("function"), last \in BOOLEAN :
       /\ IsPage(batch, Awaited("function"), last)
       /\ undelivered' = undelivered \ batch
       /\ queue' = batch /\ more' = ~last
  /\ UNCHANGED <<where, marker, calls, building, reported, links, errors, resolverVars>>

FunctionsFail ==
  /\ pc = "function" /\ pc' = "region" /\ more' = FALSE
  /\ errors' = errors \cup {ListError("function", Region)}
  /\ UNCHANGED <<where, undelivered, marker, calls, queue, building, reported, links, resolverVars>>

RejectFunction(x) == Pass = "lambda" /\ x \in queue /\ ~x.whole /\ RejectItem(x)

----------------------------------------------------------------------------
(***************************************************************************)
(* Policies.                                                               *)
(***************************************************************************)
Documented(xs) == {x \in xs : x.policy \notin {"none", "malformed"}}

PolicyLinks(xs) == {<<"policy", x.name, x.policy>> : x \in Documented(xs)}

\* What is told of targets, of which some calls fail and some bring no object.
PolicyErrors(xs, failing) ==
  {<<"policy", t, NoId>> : t \in failing \cup {x.target : x \in {y \in xs : y.policy = "malformed"}}}

\* The function's own policy comes first.
AcceptFunction(x) ==
  /\ Pass = "lambda" /\ TakeFromQueue(x) /\ x.whole
  /\ item' = x /\ pc' = "url"
  /\ \/ links' = links \cup PolicyLinks({x}) /\ errors' = errors \cup PolicyErrors({x}, {})
     \/ UNCHANGED links /\ errors' = errors \cup PolicyErrors({}, {x.target})
  /\ UNCHANGED <<where, undelivered, paging, built, pending, reported, resolverVars>>

\* The targets whose answer is in the map policies, a failed one as nothing.
Remembered == {x.target : x \in built \cup {item}}
Document(t) ==
  {l[3] : l \in {m \in links : m[1] = "policy" /\ \E x \in built \cup {item} : x.target = t /\ m[2] = x.name}}

\* A URL that leads to something else, or is none, is told and left out.
ListURLs ==
  /\ pc = "url"
  /\ \E batch \in SUBSET AwaitedParts("url", item), last \in BOOLEAN :
       LET asked == {u \in Whole(batch) : u.target \notin Remembered}
           known == Whole(batch) \ asked
       IN \E failing \in SUBSET {u.target : u \in asked} :
            LET answered == {u \in asked : u.target \notin failing}
            IN /\ IsPage(batch, AwaitedParts("url", item), last)
               /\ CallAgain(last)
               /\ undelivered' = undelivered \ batch
               /\ built' = built \cup Whole(batch)
               /\ links' = links \cup PolicyLinks(answered)
                                 \cup UNION {{<<"policy", u.name, d>> : d \in Document(u.target)} : u \in known}
               /\ errors' = errors \cup Rejections(batch \ Whole(batch)) \cup PolicyErrors(answered, failing)
               /\ pc' = IF last THEN "append" ELSE "url"
  /\ UNCHANGED <<where, queue, item, pending, reported, resolverVars>>

URLsFail ==
  /\ pc = "url" /\ pc' = "append"
  /\ CallAgain(TRUE)
  /\ errors' = errors \cup {ListError("url", item.name)}
  /\ UNCHANGED <<where, undelivered, queue, building, reported, links, resolverVars>>

FunctionsNext ==
  \/ ListFunctions \/ FunctionsFail \/ ListURLs \/ URLsFail
  \/ \E x \in queue : RejectFunction(x) \/ AcceptFunction(x)
=============================================================================
