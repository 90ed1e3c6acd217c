------------------------------- MODULE Ingest -------------------------------
(***************************************************************************)
(* The article pipeline: workflows/pipeline_workflow.py with               *)
(* services/deduplicator.py and services/generation_recovery.py, and what  *)
(* the batch handlers of context_generator and primer_generator write back *)
(* to the rows.                                                            *)
(*                                                                         *)
(* A run fetches the feeds, keeps what is new or still owed a summary,     *)
(* summarises it, submits the context and primer batches, upserts one row  *)
(* per URL and threads.  Every await ends a step: batch results and other  *)
(* runs come in between.                                                   *)
(*                                                                         *)
(* An article is a headline or a full text, and its content hash is its    *)
(* text in that form; what summaries say is left out.  A batch is taken    *)
(* apart into the updates of its single articles.  Module Batches says how *)
(* batches reach their handlers, module Threading which rows threading     *)
(* takes; embeddings and entities, which only threading reads, are left to *)
(* it, and rows of searches are left out.                                  *)
(***************************************************************************)
EXTENDS Integers, FiniteSets

CONSTANTS
    Urls,         \* the source_urls
    Texts,        \* syndicated copies share their text
    Runs,         \* pipeline runs that may be under way together
    RetryLimit,   \* RETRY_LIMIT
    MaxJobs,      \* bound: updates in flight of one kind for one article
    Unfiltered,   \* whether runs are forced, or their deduplication fails
    Rewrites      \* whether publishers replace the text of a stored article

ASSUME IngestAssumption ==
    /\ IsFiniteSet(Urls) /\ Texts # {}
    /\ RetryLimit \in Nat \ {0} /\ MaxJobs \in Nat
    /\ Unfiltered \in BOOLEAN /\ Rewrites \in BOOLEAN

Kinds == {"context", "primer"}

VARIABLES
    rows,      \* articles: from the stored URLs to their rows
    order,     \* pairs of them, by generation_attempted_at
    jobs,      \* batch results still to come, by kind and URL
    run,       \* what each run holds in memory
    stable     \* the process is not restarted any more

vars == <<rows, order, jobs, run, stable>>

Article == [url : Urls, text : Texts, full : BOOLEAN]

Row == [status : {"pending", "complete", "unavailable"}, text : Texts, full : BOOLEAN,
        scored : BOOLEAN, primer : BOOLEAN, threaded : BOOLEAN]

Idle == [pc |-> "idle", fetched |-> {}, retries |-> {}, new |-> {},
         good |-> {}, unavailable |-> {}]

InitIngest ==
    /\ rows = <<>> /\ order = {}
    /\ jobs = [k \in Kinds |-> [u \in Urls |-> 0]]
    /\ run = [r \in Runs |-> Idle]
    /\ stable = FALSE

Stored     == DOMAIN rows
In(status) == {u \in Stored : rows[u].status = status}
Hash(a)    == <<a.text, a.full>>
UrlsOf(A)  == {a.url : a \in A}
OneEach(A) == \A a, b \in A : a.url = b.url => a = b

-----------------------------------------------------------------------------
(* Up to the deduplicator.                                                  *)

At(r, pc) == run[r].pc = pc

OnlyRun == UNCHANGED <<rows, order, jobs, stable>>

\* Entries come, go, and gain or lose their body between runs, and feeds that
\* cannot be fetched contribute nothing.
Fetch(r) ==
    /\ At(r, "idle")
    /\ \E A \in SUBSET Article :
          /\ OneEach(A)
          /\ Rewrites \/ \A a \in A : a.url \in Stored => a.text = rows[a.url].text
          /\ run' = [run EXCEPT ![r].pc = "fetched", ![r].fetched = A]
    /\ OnlyRun

\* pending_articles: ORDER BY generation_attempted_at LIMIT RETRY_LIMIT.
Oldest == {U \in SUBSET In("pending") :
             /\ Cardinality(U) <= RetryLimit
             /\ Cardinality(U) < RetryLimit => U = In("pending")
             /\ \A u \in U, v \in In("pending") \ U : <<u, v>> \in order}

ReadPending(r) ==
    /\ At(r, "fetched")
    /\ \E U \in Oldest :
          run' = [run EXCEPT ![r].pc = "deduplicating", ![r].retries = U]
    /\ OnlyRun

\* It raises, and with it the run.
ReadPendingFails(r) ==
    /\ At(r, "fetched")
    /\ run' = [run EXCEPT ![r] = Idle]
    /\ OnlyRun

\* A row without a usable source whose publisher has added a body since.
Changed(a) == a.full /\ Hash(a) # Hash(rows[a.url]) /\ a.url \in In("unavailable")

\* Mutant of Unseen: an entry that lost its body is a new article.
UnseenByHash(A) == {a \in A : Hash(a) \notin {Hash(rows[u]) : u \in Stored}}

Unseen(A) ==
    {a \in A : /\ a.url \notin Stored \/ Changed(a)
               /\ Hash(a) \notin {Hash(rows[u]) : u \in Stored}}

\* Mutant of Survivors: copies are told from each other only by the database.
AllSurvive(A) == {Unseen(A)}

\* Of the copies of one text in one run the first is kept; any may be first.
Survivors(A) ==
    {S \in SUBSET Unseen(A) :
        \A a \in Unseen(A) : \E first \in S : {b \in S : Hash(b) = Hash(a)} = {first}}

\* A retry takes its entry in the feeds when that has a body, and else the body
\* in its row.
Fresh(r) == {a \in run[r].fetched : a.full /\ a.url \in run[r].retries}

Recovered(u) == [url |-> u, text |-> rows[u].text, full |-> TRUE]

Retried(r) == Fresh(r) \cup {Recovered(u) : u \in run[r].retries \ UrlsOf(Fresh(r))}

Proceed(r, A) == run' = [run EXCEPT ![r] = [Idle EXCEPT !.pc = "summarizing", !.new = A]]

Deduplicate(r) ==
    /\ At(r, "deduplicating")
    /\ \E S \in Survivors(run[r].fetched) :
          Proceed(r, {a \in S : a.url \notin run[r].retries} \cup Retried(r))
    /\ OnlyRun

\* Forced, or the deduplicator raised: all that was fetched, and no retries.
KeepAll(r) ==
    /\ Unfiltered /\ At(r, "deduplicating")
    /\ Proceed(r, run[r].fetched)
    /\ OnlyRun

-----------------------------------------------------------------------------
(* Up to the store.                                                         *)

Full(r) == UrlsOf({a \in run[r].new : a.full})

\* summarize_articles skips entries without a body, and for each of the others
\* ends with a reviewed summary, "no usable source", or the degraded fallback.
Summarize(r) ==
    /\ At(r, "summarizing")
    /\ \E good \in SUBSET Full(r), unusable \in SUBSET Full(r) :
          /\ good \cap unusable = {}
          /\ run' = [run EXCEPT ![r].pc = "context", ![r].good = good,
                       ![r].unavailable = unusable \cup (UrlsOf(run[r].new) \ Full(r))]
    /\ OnlyRun

\* A batch for the articles with a summary, unless the budget or the provider
\* turns it away.
Submit(r, kind) ==
    \/ /\ \A u \in run[r].good : jobs[kind][u] < MaxJobs
       /\ jobs' = [jobs EXCEPT ![kind] =
                     [u \in Urls |-> @[u] + (IF u \in run[r].good THEN 1 ELSE 0)]]
    \/ UNCHANGED jobs

Context(r) ==
    /\ At(r, "context") /\ Submit(r, "context")
    /\ run' = [run EXCEPT ![r].pc = "primer"]
    /\ UNCHANGED <<rows, order, stable>>

\* Embedding follows, and stores nothing.
Primer(r) ==
    /\ At(r, "primer") /\ Submit(r, "primer")
    /\ run' = [run EXCEPT ![r].pc = "storing"]
    /\ UNCHANGED <<rows, order, stable>>

-----------------------------------------------------------------------------
(* store_node.                                                              *)

Status(r, u) ==
    IF u \in run[r].good THEN "complete"
    ELSE IF u \in run[r].unavailable THEN "unavailable" ELSE "pending"

\* Mutant of Attempted: the time of the first attempt is kept.
AttemptedOnce(u) ==
    order' = IF u \in Stored THEN order ELSE order \cup {<<v, u>> : v \in Stored}

\* generation_attempted_at = NOW()
Attempted(u) ==
    order' = {p \in order : u \notin {p[1], p[2]}} \cup {<<v, u>> : v \in Stored \ {u}}

\* Mutant of StillThreaded: only a row that never had a source is threaded anew.
KeepThreaded(old) == old.threaded /\ old.status # "unavailable"

\* threaded_at is reset on a row that had no summary.
StillThreaded(old) == old.threaded /\ old.status = "complete"

\* INSERT ... ON CONFLICT (source_url) DO UPDATE.  No run has notes or scores at
\* hand, so those are nulled; the primer is not touched.
Stores(r, a) ==
    LET old == IF a.url \in Stored THEN rows[a.url]
               ELSE [status |-> "complete", primer |-> FALSE, threaded |-> FALSE]
    IN  [status |-> Status(r, a.url), text |-> a.text, full |-> a.full,
         scored |-> FALSE, primer |-> old.primer, threaded |-> StillThreaded(old)]

Upsert(r, a) ==
    /\ At(r, "storing") /\ a \in run[r].new
    /\ rows' = [u \in Stored \cup {a.url} |-> IF u = a.url THEN Stores(r, a) ELSE rows[u]]
    /\ Attempted(a.url)
    /\ run' = [run EXCEPT ![r].new = @ \ {a}]
    /\ UNCHANGED <<jobs, stable>>

UpsertFails(r, a) ==
    /\ At(r, "storing") /\ a \in run[r].new
    /\ run' = [run EXCEPT ![r].new = @ \ {a}]
    /\ OnlyRun

\* The end of store_node: run_incremental_threading decides on some of its queue.
Thread(r) ==
    /\ At(r, "storing") /\ run[r].new = {}
    /\ \E S \in SUBSET Stored :
          rows' = [u \in Stored |-> IF u \in S THEN [rows[u] EXCEPT !.threaded = TRUE]
                                   ELSE rows[u]]
    /\ run' = [run EXCEPT ![r] = Idle]
    /\ UNCHANGED <<order, jobs, stable>>

-----------------------------------------------------------------------------
(* The batch handlers, article by article.                                  *)

Result(kind, u) ==
    /\ jobs[kind][u] > 0
    /\ jobs' = [jobs EXCEPT ![kind][u] = @ - 1]
    /\ UNCHANGED <<order, run, stable>>

\* An errored, misaligned or unusable result, or an UPDATE that failed.
NoResult(kind, u) == Result(kind, u) /\ UNCHANGED rows

\* A row that is not there is not updated.
ApplyContext(u) ==
    /\ Result("context", u)
    /\ rows' = IF u \in Stored THEN [rows EXCEPT ![u].scored = TRUE] ELSE rows

\* Mutant of Primable: the WHERE names only the URL.
PrimableByUrl == Stored

Primable == In("complete")

ApplyPrimer(u) ==
    /\ Result("primer", u)
    /\ rows' = IF u \in Primable THEN [rows EXCEPT ![u].primer = TRUE] ELSE rows

-----------------------------------------------------------------------------
\* The process dies, and with it its runs.
Crash ==
    /\ ~stable
    /\ run' = [r \in Runs |-> Idle]
    /\ OnlyRun

Stabilise ==
    /\ ~stable /\ stable' = TRUE
    /\ UNCHANGED <<rows, order, jobs, run>>

RunStep(r) ==
    \/ Fetch(r) \/ ReadPending(r) \/ ReadPendingFails(r) \/ Deduplicate(r) \/ KeepAll(r)
    \/ Summarize(r) \/ Context(r) \/ Primer(r)
    \/ (\E a \in run[r].new : Upsert(r, a) \/ UpsertFails(r, a))
    \/ Thread(r)

HandlerStep ==
    \E u \in Urls :
        \/ \E kind \in Kinds : NoResult(kind, u)
        \/ ApplyContext(u) \/ ApplyPrimer(u)

Next ==
    \/ \E r \in Runs : RunStep(r)
    \/ HandlerStep
    \/ Crash \/ Stabilise

Spec == InitIngest /\ [][Next]_vars

StoresUrl(r, u) == \E a \in run[r].new : a.url = u /\ Upsert(r, a)

\* The scheduler starts runs and the event loop takes their steps; runs are not
\* all forced, and the database does not fail the same statement for ever.
FairSpec ==
    /\ Spec /\ WF_vars(Stabilise)
    /\ \A r \in Runs :
         /\ WF_vars(RunStep(r))
         /\ SF_vars(ReadPending(r)) /\ SF_vars(Deduplicate(r))
         /\ \A u \in Urls : SF_vars(StoresUrl(r, u))

-----------------------------------------------------------------------------
RunState ==
    [pc : {"idle", "fetched", "deduplicating", "summarizing", "context", "primer", "storing"},
     fetched : SUBSET Article, retries : SUBSET Urls, new : SUBSET Article,
     good : SUBSET Urls, unavailable : SUBSET Urls]

RowsTypeOK ==
    /\ rows \in [Stored -> Row] /\ Stored \subseteq Urls
    /\ order \subseteq Stored \X Stored

IngestTypeOK ==
    /\ RowsTypeOK
    /\ jobs \in [Kinds -> [Urls -> 0 .. MaxJobs]]
    /\ run \in [Runs -> RunState] /\ stable \in BOOLEAN

\* The order the retries are taken in leaves out and repeats none.
OrderIsTotal ==
    \A u, v \in Stored : u # v <=> (<<u, v>> \in order <=> <<v, u>> \notin order)

\* What a run that is alone holds, of the URLs: the retries are still pending, and
\* none of the articles it works on has been published.
UrlsInHand(r) ==
    /\ run[r].retries \subseteq In("pending")
    /\ ~At(r, "deduplicating") => run[r].retries = {}
    /\ OneEach(run[r].fetched) /\ OneEach(run[r].new)
    /\ run[r].pc \in {"idle", "fetched", "deduplicating"} => run[r].new = {}
    /\ UrlsOf(run[r].new) \cap In("complete") = {}

\* And of the texts: a retry is its row's text, and what is new is like no row but
\* its own.
TextsInHand(r) ==
    /\ run[r].pc \notin {"fetched", "deduplicating"} => run[r].fetched = {}
    /\ \A a \in run[r].fetched : a.url \in Stored => a.text = rows[a.url].text
    /\ \A a, b \in run[r].new : Hash(a) = Hash(b) => a = b
    /\ \A a \in run[r].new, v \in Stored : v # a.url => Hash(rows[v]) # Hash(a)
    /\ run[r].pc \in {"context", "primer", "storing"} =>
          \A a \in run[r].new : a.full \/ a.url \in run[r].unavailable

\* Only an article with a body is retried, so a retry needs no feed entry.
PendingIsFull == \A u \in In("pending") : rows[u].full

(* A published article is final: once a row is complete no run replaces its   *)
(* summary, takes its classification away or re-queues it for threading,      *)
(* whatever becomes of its entry in the feeds and whichever retries come up   *)
(* (deduplicate drops stored URLs, pending_articles reads only pending rows). *)
PublishedStays ==
    [][\A u \in In("complete") :
          /\ \A f \in {"status", "text", "full"} : rows'[u][f] = rows[u][f]
          /\ \A mark \in {"scored", "primer", "threaded"} : rows[u][mark] => rows'[u][mark]]_vars

(* Syndicated copies end up in one row: within a run, across runs, through    *)
(* retries and through entries that gain a body later ("Drop articles already *)
(* in the DB by source_url OR content_hash").                                 *)
OneRowPerCopy ==
    \A u, v \in Stored : Hash(rows[u]) = Hash(rows[v]) => u = v

(* The rows are well formed and ordered, no run takes more retries than the   *)
(* limit, what a run holds agrees with the rows, and a copy is stored once.   *)
IngestInv ==
    /\ IngestTypeOK /\ OrderIsTotal
    /\ \A r \in Runs : Cardinality(run[r].retries) <= RetryLimit
    /\ \A r \in Runs : UrlsInHand(r) /\ TextsInHand(r)
    /\ PendingIsFull /\ OneRowPerCopy

(* A fallback carries no paid background note, although a batch result may    *)
(* come in at any time ("RSS fallback rows ... skip paid enrichment").        *)
NoPrimerOnFallback ==
    \A u \in Stored : rows[u].primer => u \in In("complete")

(* An article that had lost its summary is threaded anew when it has one      *)
(* again ("Successful retries reset the threading marker").                   *)
RecoveredIsQueued ==
    [][\A u \in Stored \ In("complete") :
          rows'[u].status = "complete" => ~rows'[u].threaded]_vars

(* No pending article is starved by others that keep failing: each is taken   *)
(* up by a run again and again, with or without its entry in the feeds.       *)
PendingIsRetried ==
    \A u \in Urls : []<>(u \notin In("pending") \/ \E r \in Runs : u \in UrlsOf(run[r].new))
=============================================================================
