------------------------------ MODULE Compare ------------------------------
(***************************************************************************)
(* The Compare endpoints: app/routers/compare.py, the search stage of      *)
(* workflows/compare_workflow.py and services/compare_cache.py.            *)
(*                                                                         *)
(* A request is answered from the cache, or searches its outlets side by   *)
(* side under a semaphore, extracts and reviews claims, and answers.  The  *)
(* JSON endpoint runs the graph; the stream endpoint runs its stages       *)
(* itself and reports each outlet as it ends.  Every await ends a step.    *)
(*                                                                         *)
(* What a search finds and what the claims say is left out; that every     *)
(* paid call is admitted and settled is module PaidCalls.                  *)
(***************************************************************************)
EXTENDS Integers, FiniteSets, Sequences, SequencesExt

CONSTANTS
    Sources,      \* the outlets a request names
    Keys,         \* cache keys: topic and outlets
    Requests,
    Streams,      \* the requests made to /compare/stream
    MaxEntries    \* MAX_ENTRIES

ASSUME CompareAssumption ==
    /\ IsFiniteSet(Sources) /\ Keys # {}
    /\ Streams \subseteq Requests /\ MaxEntries \in Nat \ {0}

VARIABLES
    req,       \* the requests
    cache      \* _cache, least recently used first

vars == <<req, cache>>

\* "capacity" is AI_BUDGET_EXCEEDED, "unavailable" any other BudgetUnavailable.
Outcomes == {"found", "missing", "capacity", "unavailable"}
Finished == Outcomes \cup {"cancelled"}

Unfinished == {"queued", "running"}

NoSearch == [s \in {} |-> "queued"]
Idle     == [pc |-> "idle", key |-> "none", permits |-> 0, search |-> NoSearch, told |-> {},
             claims |-> "none", answer |-> "none"]

InitCompare == req = [r \in Requests |-> Idle] /\ cache = <<>>

At(r, pc)   == req[r].pc = pc
Searched(r) == DOMAIN req[r].search
Ended(r, o) == {s \in Searched(r) : req[r].search[s] = o}
AllEnded(r) == \A s \in Searched(r) : req[r].search[s] \in Finished

Goes(r, pc)     == req' = [req EXCEPT ![r].pc = pc]

\* A request that has its answer leaves only the searches not yet finished.
Answers(r, a) ==
    req' = [req EXCEPT ![r] = [Idle EXCEPT !.pc = "closing", !.answer = a,
              !.search = Restrict(req[r].search, Ended(r, "queued") \cup Ended(r, "running"))]]

-----------------------------------------------------------------------------
(* services/compare_cache.py                                                *)

Places(key)  == {i \in DOMAIN cache : cache[i].key = key}
Cached(key)  == {cache[i] : i \in Places(key)}
Without(key) ==
    IF Places(key) = {} THEN cache ELSE RemoveAt(cache, CHOOSE i \in Places(key) : TRUE)

Stored(e) ==
    LET others == Without(e.key)
    IN  IF Len(others) = MaxEntries THEN Append(Tail(others), e) ELSE Append(others, e)

\* The five minutes of an entry are over.
Expire ==
    /\ \E i \in DOMAIN cache : cache[i].fresh /\ cache' = [cache EXCEPT ![i].fresh = FALSE]
    /\ UNCHANGED req

-----------------------------------------------------------------------------
(* Up to the search.                                                        *)

\* get_comparison: a hit moves to the end, an expired entry goes.
Ask(r, key) ==
    /\ At(r, "idle")
    /\ \/ \E e \in Cached(key) :
             /\ e.fresh
             /\ cache' = Append(Without(key), e)
             /\ Answers(r, "cached")
       \/ /\ \A e \in Cached(key) : ~e.fresh
          /\ cache' = Without(key)
          /\ req' = [req EXCEPT ![r].pc = "admitting", ![r].key = key]

\* check_budget
Admit(r) ==
    /\ At(r, "admitting")
    /\ Goes(r, "listing") \/ Answers(r, "error")
    /\ UNCHANGED cache

\* load_allowed_sources.  Nothing allowed is an error on both endpoints: the
\* graph goes through its nodes with nothing, to NO_COVERAGE.
List(r) ==
    /\ At(r, "listing")
    /\ \E S \in SUBSET Sources :
          IF S = {} THEN Answers(r, "error")
          ELSE req' = [req EXCEPT ![r].pc = "sizing", ![r].search = [s \in S |-> "queued"]]
    /\ UNCHANGED cache

\* compare_search_parallelism
Size(r) ==
    /\ At(r, "sizing")
    /\ \/ \E n \in 1 .. Cardinality(Searched(r)) :
             req' = [req EXCEPT ![r].pc = "searching", ![r].permits = n]
       \/ Answers(r, "error")
    /\ UNCHANGED cache

-----------------------------------------------------------------------------
(* The searches.                                                            *)

\* Mutant of Holding: an outlet that was turned away keeps its place.
HoldingOn(r) == Ended(r, "running") \cup Ended(r, "capacity") \cup Ended(r, "unavailable")

\* The tasks inside the semaphore.
Holding(r) == Ended(r, "running")

SearchStarts(r, s) ==
    /\ s \in Ended(r, "queued") /\ Cardinality(Holding(r)) < req[r].permits
    /\ req' = [req EXCEPT ![r].search[s] = "running"]
    /\ UNCHANGED cache

SearchEnds(r, s) ==
    /\ s \in Ended(r, "running")
    /\ \E o \in Outcomes : req' = [req EXCEPT ![r].search[s] = o]
    /\ UNCHANGED cache

\* search_sources_node gathers: a budget that cannot be verified ends the
\* request, one that is spent does so only when nothing was found.
Gather(r) ==
    /\ At(r, "searching") /\ r \notin Streams /\ AllEnded(r)
    /\ IF Ended(r, "unavailable") # {} THEN Answers(r, "error")
       ELSE IF Ended(r, "found") # {} THEN Goes(r, "extracting")
       ELSE IF Ended(r, "capacity") # {} THEN Answers(r, "capacity")
       ELSE Answers(r, "error")
    /\ UNCHANGED cache

\* The stream takes the searches as they complete and sends source-done.
Tell(r, s) ==
    /\ At(r, "searching") /\ r \in Streams
    /\ s \notin req[r].told /\ req[r].search[s] \in Outcomes
    /\ IF req[r].search[s] = "unavailable" THEN Goes(r, "draining")
       ELSE req' = [req EXCEPT ![r].told = @ \cup {s}]
    /\ UNCHANGED cache

Told(r) ==
    /\ At(r, "searching") /\ r \in Streams /\ Searched(r) \subseteq req[r].told
    /\ IF Ended(r, "found") # {} THEN Goes(r, "extracting")
       ELSE IF Ended(r, "capacity") # {} THEN Goes(r, "draining")
       ELSE Answers(r, "error")
    /\ UNCHANGED cache

\* except BudgetUnavailable: the other tasks are awaited, no longer under the
\* timeout, before the error is sent.
Drain(r) ==
    /\ At(r, "draining") /\ AllEnded(r)
    /\ Answers(r, IF Ended(r, "unavailable") = {} THEN "capacity" ELSE "error")
    /\ UNCHANGED cache

-----------------------------------------------------------------------------
(* Claims and the answer.                                                   *)

\* extract_and_compare_node: claims reviewed as a whole or in part, an answer
\* that does not parse, a call that is refused or fails.  An unparsed answer
\* has no analyzed outlet: the JSON endpoint takes it for an error.
Extract(r) ==
    /\ At(r, "extracting")
    /\ \/ \E claims \in {"whole", "limited", "unparsed"} :
             IF claims = "unparsed" /\ r \notin Streams THEN Answers(r, "error")
             ELSE req' = [req EXCEPT ![r].pc = "answering", ![r].claims = claims]
       \/ Answers(r, "capacity") \/ Answers(r, "error")
    /\ UNCHANGED cache

Entry(r) == [key |-> req[r].key, fresh |-> TRUE, unreviewed |-> req[r].claims = "limited"]

\* What keeps a comparison out of the cache: the JSON endpoint looks at the
\* workflow's capacity_limited, the stream at its own capacity_errors.
Limited(r) ==
    \/ Ended(r, "capacity") # {}
    \/ r \notin Streams /\ req[r].claims = "limited"

\* store_comparison keeps only comparisons with claims and analyzed outlets;
\* format_response_node may have dropped every claim.
Answer(r) ==
    /\ At(r, "answering")
    /\ \/ UNCHANGED cache
       \/ ~Limited(r) /\ req[r].claims # "unparsed" /\ cache' = Stored(Entry(r))
    /\ Answers(r, "results")

-----------------------------------------------------------------------------
(* The end.                                                                 *)

Timed == {"listing", "sizing", "searching", "extracting"}

\* COMPARE_TIMEOUT
Timeout(r) ==
    /\ req[r].pc \in Timed
    /\ Answers(r, "error")
    /\ UNCHANGED cache

\* The reader of a stream goes away, or the time is up while an event is being
\* sent: nothing more is sent.
Disconnect(r) ==
    /\ r \in Streams /\ req[r].pc \in Timed \cup {"draining", "answering"}
    /\ Answers(r, "broken")
    /\ UNCHANGED cache

\* Mutant of Cancelled: only tasks that have started are cancelled.
CancelledRunning(o) == IF o = "running" THEN "cancelled" ELSE o

Cancelled(o) == IF o \in Unfinished THEN "cancelled" ELSE o

\* finally: unfinished searches are cancelled and awaited.  The JSON endpoint's
\* wait_for does the same through the graph.
Close(r) ==
    /\ At(r, "closing")
    /\ LET left == {s \in Searched(r) : Cancelled(req[r].search[s]) \in Unfinished}
       IN  req' = [req EXCEPT ![r] = [Idle EXCEPT !.pc = "closed",
                                        !.search = Restrict(req[r].search, left)]]
    /\ UNCHANGED cache

Done ==
    /\ \A r \in Requests : At(r, "closed")
    /\ UNCHANGED vars

Step(r) ==
    \/ Admit(r) \/ List(r) \/ Size(r)
    \/ (\E s \in Searched(r) : SearchStarts(r, s) \/ SearchEnds(r, s) \/ Tell(r, s))
    \/ Gather(r) \/ Told(r) \/ Drain(r) \/ Extract(r) \/ Answer(r) \/ Close(r)

Next ==
    \/ \E r \in Requests :
          \/ \E key \in Keys : Ask(r, key)
          \/ Step(r) \/ Timeout(r) \/ Disconnect(r)
    \/ Expire \/ Done

Spec == InitCompare /\ [][Next]_vars

\* The event loop takes every step, and every call to a provider or a publisher
\* has a timeout of its own.
FairSpec == Spec /\ \A r \in Requests : WF_vars(Step(r))

-----------------------------------------------------------------------------
Stages == {"idle", "admitting", "listing", "sizing", "searching", "draining", "extracting",
           "answering", "closing", "closed"}

Searches == UNION {[S -> Finished \cup Unfinished] : S \in SUBSET Sources}

Request ==
    [pc : Stages, key : Keys \cup {"none"}, permits : Nat, search : Searches,
     told : SUBSET Sources, claims : {"none", "whole", "limited", "unparsed"},
     answer : {"none", "cached", "results", "capacity", "error", "broken"}]

CachedEntry == [key : Keys \cup {"none"}, fresh : BOOLEAN, unreviewed : BOOLEAN]

CacheTypeOK ==
    /\ cache \in Seq(CachedEntry) /\ Len(cache) <= MaxEntries
    /\ \A i, j \in DOMAIN cache : cache[i].key = cache[j].key => i = j

CompareTypeOK == req \in [Requests -> Request] /\ CacheTypeOK

(* "Never cache errors, placeholder prose, or an uncompleted extraction"      *)
(* (store_comparison).                                                        *)
UnreviewedIsNotReused == \A e \in ToSet(cache) : ~e.unreviewed

(* No search goes on, and spends, for a request that is over: timed out,      *)
(* abandoned by its reader, or failed while others were searching.            *)
NoSearchOutlivesItsRequest ==
    \A r \in Requests : At(r, "closed") => Searched(r) = {}

(* Claims are extracted from all that was found: on the stream too, which     *)
(* counts the searches it has told of, none is still under way by then.       *)
ClaimsFollowSearches ==
    \A r \in Requests :
        /\ \A s \in req[r].told : s \in Searched(r) /\ req[r].search[s] \in Outcomes
        /\ req[r].pc \in {"extracting", "answering"} => AllEnded(r)

(* Requests and the cache are well formed (one entry per key, no more than it *)
(* has room for), claims wait for the searches, and nothing is searched for a *)
(* closed request.                                                            *)
CompareInv == CompareTypeOK /\ ClaimsFollowSearches /\ NoSearchOutlivesItsRequest

(* A request that was asked ends, without help from the fifty seconds: also   *)
(* one that waits, outside of them, for the searches of a failed stream.      *)
EveryRequestEnds == \A r \in Requests : ~At(r, "idle") ~> At(r, "closed")
=============================================================================
