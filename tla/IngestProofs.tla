---------------------------- MODULE IngestProofs ----------------------------
(***************************************************************************)
(* Theorems about Ingest.                                                  *)
(***************************************************************************)
EXTENDS Ingest, FiniteSetTheorems, TLAPS

InvOfMany ==
    /\ IngestTypeOK /\ OrderIsTotal
    /\ \A r \in Runs : /\ Cardinality(run[r].retries) <= RetryLimit
                       /\ run[r].retries \subseteq Stored

-----------------------------------------------------------------------------
(* The rows.                                                                *)

\* What every step but the store's does to the rows: marks are set, a primer only
\* on a published article.
RowsAreMarked ==
    /\ Stored' = Stored
    /\ \A u \in Stored :
          /\ rows'[u].status = rows[u].status /\ rows'[u].text = rows[u].text
          /\ rows'[u].full = rows[u].full
          /\ rows'[u].primer => rows[u].primer \/ rows[u].status = "complete"
          /\ rows[u].scored => rows'[u].scored
          /\ rows[u].primer => rows'[u].primer
          /\ rows[u].threaded => rows'[u].threaded

\* What leaves the rows alone keeps what is known of them.
LEMMA RowsUnchanged ==
  ASSUME RowsTypeOK, OrderIsTotal, UNCHANGED <<rows, order>>
  PROVE  RowsTypeOK' /\ OrderIsTotal' /\ RowsAreMarked
BY DEF RowsTypeOK, OrderIsTotal, RowsAreMarked, Stored

\* Setting a mark, a primer's on published rows only, rewrites nothing.
LEMMA MarksKeepRows ==
  ASSUME RowsTypeOK, OrderIsTotal, order' = order,
         NEW mark \in {"scored", "primer", "threaded"},
         NEW M, mark = "primer" => M \subseteq In("complete"),
         rows' = [u \in Stored |-> IF u \in M THEN [rows[u] EXCEPT ![mark] = TRUE]
                                  ELSE rows[u]]
  PROVE  RowsTypeOK' /\ OrderIsTotal' /\ RowsAreMarked
<1>1. Stored' = Stored
  BY DEF Stored
<1>2. ASSUME NEW u \in Stored
      PROVE  /\ rows'[u] = IF u \in M THEN [rows[u] EXCEPT ![mark] = TRUE] ELSE rows[u]
             /\ rows[u] \in Row
  BY DEF RowsTypeOK
<1>3. ASSUME NEW u \in Stored
      PROVE  /\ rows'[u] \in Row
             /\ rows'[u].status = rows[u].status /\ rows'[u].text = rows[u].text
             /\ rows'[u].full = rows[u].full
             /\ rows[u].scored => rows'[u].scored
             /\ rows[u].primer => rows'[u].primer
             /\ rows[u].threaded => rows'[u].threaded
             /\ rows'[u].primer => rows[u].primer \/ rows[u].status = "complete"
  BY <1>2 DEF Row, In
<1>4. rows' \in [Stored -> Row]
  BY <1>3
<1>5. RowsTypeOK' /\ OrderIsTotal'
  BY <1>1, <1>4 DEF RowsTypeOK, OrderIsTotal
<1> QED
  BY <1>1, <1>3, <1>5 DEF RowsAreMarked

\* What the store does: it writes the row of one article, and that becomes the
\* one attempted last.
LEMMA UpsertWritesRow ==
  ASSUME IngestTypeOK, OrderIsTotal, NEW r \in Runs, NEW a, Upsert(r, a)
  PROVE  /\ a \in Article /\ Stored' = Stored \cup {a.url}
         /\ rows'[a.url] = Stores(r, a)
         /\ \A u \in Stored \ {a.url} : rows'[u] = rows[u]
         /\ RowsTypeOK' /\ OrderIsTotal'
<1>1. run[r] \in RunState /\ a \in run[r].new
  BY DEF IngestTypeOK, Upsert
<1>2. a \in Article
  BY <1>1 DEF RunState
<1>3. a.url \in Urls /\ a.text \in Texts /\ a.full \in BOOLEAN
  BY <1>2 DEF Article
<1>4. Stored' = Stored \cup {a.url}
  BY DEF Upsert, Stored
<1>5. \A u \in Stored' : rows'[u] = IF u = a.url THEN Stores(r, a) ELSE rows[u]
  BY <1>4 DEF Upsert
<1>6. Stores(r, a) \in Row
  <2>1. Status(r, a.url) \in {"pending", "complete", "unavailable"}
    BY DEF Status
  <2>2. a.url \in Stored => rows[a.url] \in Row
    BY DEF IngestTypeOK, RowsTypeOK
  <2>3. CASE a.url \in Stored
    BY <1>3, <2>1, <2>2, <2>3 DEF Stores, StillThreaded, Row
  <2>4. CASE a.url \notin Stored
    BY <1>3, <2>1, <2>4 DEF Stores, StillThreaded, Row
  <2> QED
    BY <2>3, <2>4
<1>7. RowsTypeOK'
  BY <1>3, <1>4, <1>5, <1>6 DEF IngestTypeOK, RowsTypeOK, Upsert, Attempted
<1>8. OrderIsTotal'
  <2>1. order' = {p \in order : a.url \notin {p[1], p[2]}}
                   \cup {<<v, a.url>> : v \in Stored \ {a.url}}
    BY DEF Upsert, Attempted
  <2>2. \A u, v : <<u, v>> \in order' <=>
           \/ <<u, v>> \in order /\ u # a.url /\ v # a.url
           \/ v = a.url /\ u \in Stored \ {a.url}
    BY <2>1
  <2> QED
    BY <1>4, <2>2 DEF OrderIsTotal
<1> QED
  BY <1>2, <1>4, <1>5, <1>7, <1>8

-----------------------------------------------------------------------------
(* Any number of runs, forced or not, and publishers that replace texts.    *)

\* A step of one run leaves the others as they are.
LEMMA RunMoves ==
  ASSUME InvOfMany, NEW r \in Runs, NEW new \in RunState, run' = [run EXCEPT ![r] = new],
         Cardinality(new.retries) <= RetryLimit, new.retries \subseteq Stored,
         Stored \subseteq Stored', RowsTypeOK', OrderIsTotal', jobs' \in [Kinds -> [Urls -> 0 .. MaxJobs]],
         stable' = stable
  PROVE  InvOfMany' /\ run'[r] = new /\ \A q \in Runs \ {r} : run'[q] = run[q]
<1>1. /\ run' \in [Runs -> RunState] /\ run'[r] = new
      /\ \A q \in Runs \ {r} : run'[q] = run[q]
  BY DEF InvOfMany, IngestTypeOK
<1> QED
  BY <1>1 DEF InvOfMany, IngestTypeOK

\* To retry nothing is within every limit.
LEMMA NoRetries == Cardinality({}) <= RetryLimit
BY FS_EmptySet, IngestAssumption

\* Articles have URLs that there are.
LEMMA UrlsOfArticles ==
  ASSUME NEW A, A \subseteq Article
  PROVE  UrlsOf(A) \subseteq Urls
BY DEF UrlsOf, Article

\* What is stored is a text under a URL that there is.
LEMMA RowTexts ==
  ASSUME IngestTypeOK
  PROVE  \A u \in Stored : rows[u] \in Row /\ rows[u].text \in Texts /\ u \in Urls
BY DEF IngestTypeOK, RowsTypeOK, Row

\* What a run has once it knows what is new.
LEMMA ProceedType ==
  ASSUME NEW A, A \subseteq Article
  PROVE  [Idle EXCEPT !.pc = "summarizing", !.new = A] \in RunState
BY DEF Idle, RunState

\* What goes on from deduplication are articles.
LEMMA DeduplicatedAreArticles ==
  ASSUME IngestTypeOK, NEW r \in Runs, NEW S \in Survivors(run[r].fetched),
         run[r].retries \subseteq Stored
  PROVE  {a \in S : a.url \notin run[r].retries} \cup Retried(r) \subseteq Article
<1>1. run[r].fetched \subseteq Article /\ run[r].retries \subseteq Urls
  BY DEF IngestTypeOK, RunState
<1>2. S \subseteq Article
  BY <1>1 DEF Survivors, Unseen
<1>3. \A u \in run[r].retries : Recovered(u) \in Article
  BY <1>1, RowTexts DEF Article, Recovered
<1> QED
  BY <1>1, <1>2, <1>3 DEF Retried, Fresh

\* A batch's results do no more to rows than mark them.
LEMMA HandlersMark ==
  ASSUME IngestTypeOK, OrderIsTotal, HandlerStep
  PROVE  /\ RowsTypeOK' /\ OrderIsTotal' /\ RowsAreMarked /\ Stored \subseteq Stored'
         /\ jobs' \in [Kinds -> [Urls -> 0 .. MaxJobs]]
         /\ run' = run /\ stable' = stable /\ stable' \in BOOLEAN
<1>1. RowsTypeOK
  BY DEF IngestTypeOK
<1>2. ASSUME NEW kind \in Kinds, NEW u \in Urls, Result(kind, u)
      PROVE  /\ jobs' \in [Kinds -> [Urls -> 0 .. MaxJobs]]
             /\ order' = order /\ run' = run /\ stable' = stable
  <2>1. jobs[kind] \in [Urls -> 0 .. MaxJobs] /\ jobs[kind][u] - 1 \in 0 .. MaxJobs
    BY <1>2, IngestAssumption DEF IngestTypeOK, Result
  <2> QED
    BY <1>2, <2>1 DEF Result, IngestTypeOK
<1>3. ASSUME NEW mark \in {"scored", "primer", "threaded"}, NEW u, order' = order,
             mark = "primer" => u \in In("complete"), u \in Stored,
             rows' = [rows EXCEPT ![u][mark] = TRUE]
      PROVE  RowsTypeOK' /\ OrderIsTotal' /\ RowsAreMarked
  <2>1. rows' = [v \in Stored |-> IF v \in {u} THEN [rows[v] EXCEPT ![mark] = TRUE] ELSE rows[v]]
    BY <1>1, <1>3 DEF RowsTypeOK
  <2>2. mark = "primer" => {u} \subseteq In("complete")
    BY <1>3
  <2> QED
    BY <1>1, <1>3, <2>1, <2>2, MarksKeepRows
<1>4. PICK u \in Urls : (\E kind \in Kinds : NoResult(kind, u)) \/ ApplyContext(u) \/ ApplyPrimer(u)
  BY DEF HandlerStep
<1>5. CASE \E kind \in Kinds : NoResult(kind, u)
  <2>1. RowsTypeOK' /\ OrderIsTotal' /\ RowsAreMarked
    BY <1>1, <1>2, <1>5, RowsUnchanged DEF NoResult
  <2> QED
    BY <1>2, <1>5, <2>1 DEF NoResult, RowsAreMarked, IngestTypeOK
<1>6. CASE ApplyContext(u)
  <2>1. /\ jobs' \in [Kinds -> [Urls -> 0 .. MaxJobs]]
        /\ order' = order /\ run' = run /\ stable' = stable
    BY <1>2, <1>6 DEF ApplyContext, Kinds
  <2>2. RowsTypeOK' /\ OrderIsTotal' /\ RowsAreMarked
    <3>1. CASE u \in Stored
      BY <1>3, <1>6, <2>1, <3>1 DEF ApplyContext
    <3>2. CASE u \notin Stored
      BY <1>1, <1>6, <2>1, <3>2, RowsUnchanged DEF ApplyContext
    <3> QED
      BY <3>1, <3>2
  <2> QED
    BY <2>1, <2>2 DEF RowsAreMarked, IngestTypeOK
<1>7. CASE ApplyPrimer(u)
  <2>1. /\ jobs' \in [Kinds -> [Urls -> 0 .. MaxJobs]]
        /\ order' = order /\ run' = run /\ stable' = stable
    BY <1>2, <1>7 DEF ApplyPrimer, Kinds
  <2>2. RowsTypeOK' /\ OrderIsTotal' /\ RowsAreMarked
    <3>1. CASE u \in Primable
      BY <1>3, <1>7, <2>1, <3>1 DEF ApplyPrimer, Primable, In
    <3>2. CASE u \notin Primable
      BY <1>1, <1>7, <2>1, <3>2, RowsUnchanged DEF ApplyPrimer
    <3> QED
      BY <3>1, <3>2
  <2> QED
    BY <2>1, <2>2 DEF RowsAreMarked, IngestTypeOK
<1> QED
  BY <1>4, <1>5, <1>6, <1>7

\* Every step, with any number of runs.
LEMMA StepKeepsMany ==
  ASSUME InvOfMany, [Next]_vars
  PROVE  InvOfMany'
<1>1. IngestTypeOK /\ OrderIsTotal /\ RowsTypeOK
  BY DEF InvOfMany, IngestTypeOK
<1>2. ASSUME NEW r \in Runs, RunStep(r) PROVE InvOfMany'
  <2>1. /\ run[r] \in RunState /\ jobs \in [Kinds -> [Urls -> 0 .. MaxJobs]]
        /\ Cardinality(run[r].retries) <= RetryLimit /\ run[r].retries \subseteq Stored
    BY DEF InvOfMany, IngestTypeOK
  <2>2. ASSUME OnlyRun, NEW new \in RunState, run' = [run EXCEPT ![r] = new],
               Cardinality(new.retries) <= RetryLimit, new.retries \subseteq Stored
        PROVE  InvOfMany'
    <3>1. RowsTypeOK' /\ OrderIsTotal' /\ Stored' = Stored
      BY <1>1, <2>2, RowsUnchanged DEF OnlyRun, RowsAreMarked
    <3> QED
      BY <2>1, <2>2, <3>1, RunMoves DEF OnlyRun
  <2>3. Idle \in RunState /\ Cardinality(Idle.retries) <= RetryLimit /\ Idle.retries = {}
    BY NoRetries DEF Idle, RunState
  <2>4. CASE Fetch(r)
    <3>1. PICK A \in SUBSET Article :
             run' = [run EXCEPT ![r].pc = "fetched", ![r].fetched = A]
      BY <2>4 DEF Fetch
    <3>2. run' = [run EXCEPT ![r] = [run[r] EXCEPT !.pc = "fetched", !.fetched = A]]
      BY <1>1, <3>1 DEF IngestTypeOK
    <3>3. /\ [run[r] EXCEPT !.pc = "fetched", !.fetched = A] \in RunState
          /\ [run[r] EXCEPT !.pc = "fetched", !.fetched = A].retries = run[r].retries
      BY <2>1 DEF RunState
    <3> QED
      BY <2>1, <2>2, <2>4, <3>2, <3>3 DEF Fetch
  <2>5. CASE ReadPending(r)
    <3>1. PICK U \in Oldest :
             run' = [run EXCEPT ![r].pc = "deduplicating", ![r].retries = U]
      BY <2>5 DEF ReadPending
    <3>2. U \subseteq Stored /\ Stored \subseteq Urls /\ Cardinality(U) <= RetryLimit
      BY <1>1 DEF Oldest, In, RowsTypeOK
    <3>3. run' = [run EXCEPT ![r] = [run[r] EXCEPT !.pc = "deduplicating", !.retries = U]]
      BY <1>1, <3>1 DEF IngestTypeOK
    <3>4. [run[r] EXCEPT !.pc = "deduplicating", !.retries = U] \in RunState
      BY <2>1, <3>2 DEF RunState
    <3>5. [run[r] EXCEPT !.pc = "deduplicating", !.retries = U].retries = U
      BY <2>1 DEF RunState
    <3> QED
      BY <2>2, <2>5, <3>2, <3>3, <3>4, <3>5 DEF ReadPending
  <2>6. CASE ReadPendingFails(r)
    BY <2>2, <2>3, <2>6 DEF ReadPendingFails
  <2>7. ASSUME NEW A, A \subseteq Article, Proceed(r, A), OnlyRun PROVE InvOfMany'
    <3>1. [Idle EXCEPT !.pc = "summarizing", !.new = A].retries = {}
      BY DEF Idle
    <3> QED
      BY <2>2, <2>7, <3>1, NoRetries, ProceedType DEF Proceed
  <2>8. CASE Deduplicate(r)
    BY <1>1, <2>1, <2>7, <2>8, DeduplicatedAreArticles DEF Deduplicate
  <2>9. CASE KeepAll(r)
    BY <2>1, <2>7, <2>9 DEF KeepAll, RunState
  <2>10. CASE Summarize(r)
    <3>1. PICK good \in SUBSET Full(r), unusable \in SUBSET Full(r) :
             run' = [run EXCEPT ![r].pc = "context", ![r].good = good,
                       ![r].unavailable = unusable \cup (UrlsOf(run[r].new) \ Full(r))]
      BY <2>10 DEF Summarize
    <3>2. Full(r) \subseteq Urls /\ UrlsOf(run[r].new) \subseteq Urls
      BY <2>1, UrlsOfArticles DEF Full, RunState
    <3> DEFINE new == [run[r] EXCEPT !.pc = "context", !.good = good,
                         !.unavailable = unusable \cup (UrlsOf(run[r].new) \ Full(r))]
    <3>3. run' = [run EXCEPT ![r] = new]
      BY <1>1, <3>1 DEF IngestTypeOK
    <3>4. new \in RunState /\ new.retries = run[r].retries
      BY <2>1, <3>2 DEF RunState
    <3> QED
      BY <2>1, <2>2, <2>10, <3>3, <3>4 DEF Summarize
  <2>11. ASSUME NEW kind \in Kinds, Submit(r, kind)
         PROVE  jobs' \in [Kinds -> [Urls -> 0 .. MaxJobs]]
    <3>1. CASE UNCHANGED jobs
      BY <2>1, <3>1
    <3>2. CASE /\ \A u \in run[r].good : jobs[kind][u] < MaxJobs
               /\ jobs' = [jobs EXCEPT ![kind] =
                             [u \in Urls |-> @[u] + (IF u \in run[r].good THEN 1 ELSE 0)]]
      <4>1. \A u \in Urls : jobs[kind][u] + (IF u \in run[r].good THEN 1 ELSE 0) \in 0 .. MaxJobs
        BY <2>1, <3>2, IngestAssumption
      <4>2. [u \in Urls |-> jobs[kind][u] + (IF u \in run[r].good THEN 1 ELSE 0)]
               \in [Urls -> 0 .. MaxJobs]
        BY <4>1
      <4> QED
        BY <2>1, <3>2, <4>2
    <3> QED
      BY <2>11, <3>1, <3>2 DEF Submit
  <2>12. ASSUME NEW pc \in {"primer", "storing"}, run' = [run EXCEPT ![r].pc = pc],
                UNCHANGED <<rows, order, stable>>,
                jobs' \in [Kinds -> [Urls -> 0 .. MaxJobs]]
         PROVE  InvOfMany'
    <3>1. run' = [run EXCEPT ![r] = [run[r] EXCEPT !.pc = pc]]
      BY <1>1, <2>12 DEF IngestTypeOK
    <3>2. /\ [run[r] EXCEPT !.pc = pc] \in RunState
          /\ [run[r] EXCEPT !.pc = pc].retries = run[r].retries
      BY <2>1, <2>12 DEF RunState
    <3>3. RowsTypeOK' /\ OrderIsTotal' /\ Stored' = Stored
      BY <1>1, <2>12, RowsUnchanged DEF RowsAreMarked
    <3> QED
      BY <2>1, <2>12, <3>1, <3>2, <3>3, RunMoves
  <2>13. CASE Context(r)
    BY <2>11, <2>12, <2>13 DEF Context, Kinds
  <2>14. CASE Primer(r)
    BY <2>11, <2>12, <2>14 DEF Primer, Kinds
  <2>15. ASSUME NEW a, run' = [run EXCEPT ![r].new = @ \ {a}]
         PROVE  \E new \in RunState : /\ run' = [run EXCEPT ![r] = new]
                                      /\ new.retries = run[r].retries
    <3>1. run' = [run EXCEPT ![r] = [run[r] EXCEPT !.new = @ \ {a}]]
      BY <1>1, <2>15 DEF IngestTypeOK
    <3>2. /\ [run[r] EXCEPT !.new = @ \ {a}] \in RunState
          /\ [run[r] EXCEPT !.new = @ \ {a}].retries = run[r].retries
      BY <2>1 DEF RunState
    <3> QED
      BY <3>1, <3>2
  <2>16. CASE \E a \in run[r].new : Upsert(r, a)
    <3>1. PICK a \in run[r].new : Upsert(r, a)
      BY <2>16
    <3>2. RowsTypeOK' /\ OrderIsTotal' /\ Stored \subseteq Stored'
      BY <1>1, <3>1, UpsertWritesRow
    <3> QED
      BY <2>1, <2>15, <3>1, <3>2, RunMoves DEF Upsert
  <2>17. CASE \E a \in run[r].new : UpsertFails(r, a)
    BY <2>1, <2>2, <2>15, <2>17 DEF UpsertFails
  <2>18. CASE Thread(r)
    <3>1. RowsTypeOK' /\ OrderIsTotal' /\ Stored' = Stored
      BY <1>1, <2>18, MarksKeepRows DEF Thread, RowsAreMarked
    <3> QED
      BY <2>1, <2>3, <2>18, <3>1, RunMoves DEF Thread
  <2> QED
    BY <1>2, <2>4, <2>5, <2>6, <2>8, <2>9, <2>10, <2>13, <2>14, <2>16, <2>17, <2>18
    DEF RunStep
<1>3. ASSUME RowsTypeOK', OrderIsTotal', Stored \subseteq Stored',
             jobs' \in [Kinds -> [Urls -> 0 .. MaxJobs]],
             run' = run, stable' \in BOOLEAN
      PROVE  InvOfMany'
  BY <1>3 DEF InvOfMany, IngestTypeOK
<1>4. CASE HandlerStep
  BY <1>1, <1>3, <1>4, HandlersMark
<1>5. CASE Crash
  <2>1. RowsTypeOK' /\ OrderIsTotal' /\ Stored' = Stored
    BY <1>1, <1>5, RowsUnchanged DEF Crash, OnlyRun, RowsAreMarked
  <2>2. Idle \in RunState /\ Cardinality(Idle.retries) <= RetryLimit /\ Idle.retries = {}
    BY NoRetries DEF Idle, RunState
  <2>3. run' \in [Runs -> RunState] /\ \A r \in Runs : run'[r] = Idle
    BY <1>5, <2>2 DEF Crash
  <2>4. IngestTypeOK'
    BY <1>1, <1>5, <2>1, <2>3 DEF IngestTypeOK, Crash, OnlyRun
  <2>5. \A r \in Runs : /\ Cardinality(run'[r].retries) <= RetryLimit
                        /\ run'[r].retries \subseteq Stored'
    BY <2>2, <2>3
  <2> QED
    BY <2>1, <2>4, <2>5 DEF InvOfMany
<1>6. CASE Stabilise \/ UNCHANGED vars
  <2>1. RowsTypeOK' /\ OrderIsTotal' /\ Stored' = Stored
    BY <1>1, <1>6, RowsUnchanged DEF Stabilise, vars, RowsAreMarked
  <2> QED
    BY <1>1, <1>3, <1>6, <2>1 DEF Stabilise, vars, IngestTypeOK
<1> QED
  BY <1>2, <1>4, <1>5, <1>6 DEF Next

\* Only the store changes more of a row than its marks.
LEMMA RowsChange ==
  ASSUME InvOfMany, [Next]_vars
  PROVE  RowsAreMarked \/ \E r \in Runs : \E a \in run[r].new : Upsert(r, a)
<1>1. IngestTypeOK /\ OrderIsTotal /\ RowsTypeOK
  BY DEF InvOfMany, IngestTypeOK
<1>2. ASSUME NEW r \in Runs, RunStep(r), ~\E a \in run[r].new : Upsert(r, a)
      PROVE  RowsAreMarked
  <2>1. CASE UNCHANGED <<rows, order>>
    BY <1>1, <2>1, RowsUnchanged
  <2>2. CASE Thread(r)
    <3>1. PICK S \in SUBSET Stored :
             rows' = [u \in Stored |-> IF u \in S THEN [rows[u] EXCEPT !.threaded = TRUE]
                                      ELSE rows[u]]
      BY <2>2 DEF Thread
    <3> QED
      BY <1>1, <2>2, <3>1, MarksKeepRows DEF Thread
  <2> QED
    BY <1>2, <2>1, <2>2
    DEF RunStep, Fetch, ReadPending, ReadPendingFails, Deduplicate, KeepAll, Summarize,
        Context, Primer, UpsertFails, OnlyRun
<1>3. CASE HandlerStep
  BY <1>1, <1>3, HandlersMark
<1>4. CASE Crash \/ Stabilise \/ UNCHANGED vars
  BY <1>1, <1>4, RowsUnchanged DEF Crash, Stabilise, OnlyRun, vars
<1> QED
  BY <1>2, <1>3, <1>4 DEF Next

\* The empty table.
LEMMA InitIsMany == InitIngest => InvOfMany
<1> SUFFICES ASSUME InitIngest PROVE InvOfMany
  OBVIOUS
<1>1. Stored = {}
  BY DEF InitIngest, Stored
<1>2. RowsTypeOK /\ OrderIsTotal
  BY <1>1 DEF InitIngest, RowsTypeOK, OrderIsTotal
<1>3. Idle \in RunState /\ Cardinality(Idle.retries) <= RetryLimit /\ Idle.retries = {}
  BY NoRetries DEF Idle, RunState
<1>4. \A r \in Runs : run[r] = Idle
  BY DEF InitIngest
<1>5. jobs \in [Kinds -> [Urls -> 0 .. MaxJobs]]
  BY IngestAssumption DEF InitIngest
<1>6. run \in [Runs -> RunState] /\ stable \in BOOLEAN
  BY <1>3 DEF InitIngest
<1> QED
  BY <1>2, <1>3, <1>4, <1>5, <1>6 DEF InvOfMany, IngestTypeOK

\* The rows stay well formed and totally ordered by their last attempt, and no run
\* takes more retries than RETRY_LIMIT, whatever runs overlap (store_node,
\* pending_articles).
THEOREM RowsStayOrdered == Spec => []InvOfMany
<1>1. InitIngest => InvOfMany
  BY InitIsMany
<1>2. InvOfMany /\ [Next]_vars => InvOfMany'
  BY StepKeepsMany
<1> QED
  BY <1>1, <1>2, PTL DEF Spec

\* An article that gets back its summary is threaded anew, whichever of several
\* runs stores it and however it was deduplicated (the CASE on threaded_at in
\* store_node's upsert).
THEOREM RecoveredAreQueued == Spec => RecoveredIsQueued
<1>1. ASSUME InvOfMany, [Next]_vars, NEW u \in Stored \ In("complete"),
             rows'[u].status = "complete"
      PROVE  ~rows'[u].threaded
  <2>1. rows[u].status # "complete"
    BY DEF In
  <2>2. PICK r \in Runs : \E a \in run[r].new : Upsert(r, a)
    BY <1>1, <2>1, RowsChange DEF RowsAreMarked
  <2>3. PICK a \in run[r].new : Upsert(r, a)
    BY <2>2
  <2>4. /\ rows'[a.url] = Stores(r, a)
        /\ \A v \in Stored \ {a.url} : rows'[v] = rows[v]
    BY <1>1, <2>3, UpsertWritesRow DEF InvOfMany
  <2>5. u = a.url
    BY <1>1, <2>1, <2>4
  <2>6. rows'[u].threaded = StillThreaded(rows[u])
    BY <2>4, <2>5 DEF Stores
  <2>7. ~StillThreaded(rows[u])
    BY <2>1 DEF StillThreaded
  <2> QED
    BY <2>6, <2>7
<1>2. InvOfMany /\ [Next]_vars
         => [\A u \in Stored \ In("complete") :
                rows'[u].status = "complete" => ~rows'[u].threaded]_vars
  BY <1>1
<1> QED
  BY <1>2, RowsStayOrdered, PTL DEF Spec, RecoveredIsQueued

-----------------------------------------------------------------------------
(* One run at a time, and deduplication that is neither skipped nor fails.  *)

Alone == \A q, r \in Runs : q = r

InvOfOne ==
    /\ InvOfMany /\ NoPrimerOnFallback
    /\ \A r \in Runs : UrlsInHand(r)

\* Marking publishes nothing and takes nothing back.
LEMMA MarksKeepStatus ==
  ASSUME RowsAreMarked
  PROVE  In("pending")' = In("pending") /\ In("complete")' = In("complete")
BY DEF RowsAreMarked, In

\* While the rows only gain marks, a run's hold on them is good.
LEMMA MarksKeepUrls ==
  ASSUME RowsAreMarked, NEW r, UrlsInHand(r), run'[r] = run[r]
  PROVE  UrlsInHand(r)'
<1>1. In("pending")' = In("pending") /\ In("complete")' = In("complete")
  BY MarksKeepStatus
<1> QED
  BY <1>1 DEF UrlsInHand, At, UrlsOf, OneEach

\* Marking gives no fallback a primer.
LEMMA MarksKeepPrimers ==
  ASSUME NoPrimerOnFallback, RowsAreMarked
  PROVE  NoPrimerOnFallback'
BY DEF NoPrimerOnFallback, RowsAreMarked, In

\* A retry is its entry in the feeds, or else what its row says.
LEMMA RetriedIs ==
  ASSUME NEW r, NEW a \in Retried(r)
  PROVE  /\ a.url \in run[r].retries
         /\ a.full
         /\ \/ a \in Fresh(r) /\ a \in run[r].fetched
            \/ a = Recovered(a.url) /\ a.url \notin UrlsOf(Fresh(r))
<1>1. CASE a \in Fresh(r)
  BY <1>1 DEF Fresh
<1>2. CASE a \notin Fresh(r)
  <2>1. PICK u \in run[r].retries \ UrlsOf(Fresh(r)) : a = Recovered(u)
    BY <1>2 DEF Retried
  <2>2. a.url = u /\ a.full
    BY <2>1 DEF Recovered
  <2> QED
    BY <2>1, <2>2
<1> QED
  BY <1>1, <1>2

\* The articles that pass the deduplicator: one per URL, none of them published.
LEMMA DeduplicatedByUrl ==
  ASSUME IngestTypeOK, NEW r \in Runs, UrlsInHand(r), NEW S \in Survivors(run[r].fetched),
         NEW A, A = {a \in S : a.url \notin run[r].retries} \cup Retried(r)
  PROVE  OneEach(A) /\ UrlsOf(A) \cap In("complete") = {}
<1>1. S \subseteq run[r].fetched /\ OneEach(run[r].fetched)
  BY DEF Survivors, Unseen, UrlsInHand
<1>2. \A a \in Retried(r) : a.url \in run[r].retries
  BY RetriedIs
<1>3. OneEach(Retried(r))
  <2>1. OneEach(Fresh(r))
    BY <1>1 DEF OneEach, Fresh
  <2>2. \A a \in Fresh(r) : a.url \in UrlsOf(Fresh(r))
    BY DEF UrlsOf
  <2> QED
    BY <2>1, <2>2, RetriedIs DEF OneEach
<1>4. OneEach(A)
  BY <1>1, <1>2, <1>3 DEF OneEach
<1>5. \A a \in S : a.url \notin Stored \/ a.url \in In("unavailable")
  BY DEF Survivors, Unseen, Changed
<1>6. \A a \in A : a.url \notin In("complete")
  BY <1>2, <1>5 DEF In, UrlsInHand
<1> QED
  BY <1>4, <1>6 DEF UrlsOf

\* A run at rest has nothing in hand.
LEMMA IdleHoldsNoUrls ==
  ASSUME NEW r, run'[r] = Idle
  PROVE  UrlsInHand(r)'
BY DEF UrlsInHand, Idle, At, OneEach, UrlsOf

\* The steps of the only run, up to the store.
LEMMA RunKeepsUrls ==
  ASSUME InvOfOne, ~Unfiltered, NEW r \in Runs, RunStep(r), RowsAreMarked,
         ~\E a \in run[r].new : Upsert(r, a)
  PROVE  UrlsInHand(r)'
<1>1. /\ run \in [Runs -> RunState] /\ run[r] \in RunState
      /\ IngestTypeOK /\ UrlsInHand(r)
  BY DEF InvOfOne, InvOfMany, IngestTypeOK
<1>2. In("pending")' = In("pending") /\ In("complete")' = In("complete")
  BY MarksKeepStatus
<1>3. CASE Fetch(r)
  <2>1. PICK A \in SUBSET Article :
           /\ OneEach(A)
           /\ run' = [run EXCEPT ![r].pc = "fetched", ![r].fetched = A]
    BY <1>3 DEF Fetch
  <2>2. /\ run'[r].pc = "fetched" /\ run'[r].fetched = A
        /\ run'[r].retries = run[r].retries /\ run'[r].new = run[r].new
    BY <1>1, <2>1 DEF RunState
  <2>3. run[r].pc = "idle"
    BY <1>3 DEF Fetch, At
  <2> QED
    BY <1>1, <1>2, <2>1, <2>2, <2>3 DEF UrlsInHand, At, OneEach, UrlsOf
<1>4. CASE ReadPending(r)
  <2>1. PICK U \in Oldest : run' = [run EXCEPT ![r].pc = "deduplicating", ![r].retries = U]
    BY <1>4 DEF ReadPending
  <2>2. /\ run'[r].pc = "deduplicating" /\ run'[r].retries = U
        /\ run'[r].fetched = run[r].fetched /\ run'[r].new = run[r].new
    BY <1>1, <2>1 DEF RunState
  <2>3. run[r].pc = "fetched" /\ U \subseteq In("pending")
    BY <1>4 DEF ReadPending, At, Oldest
  <2> QED
    BY <1>1, <1>2, <2>2, <2>3 DEF UrlsInHand, At, OneEach, UrlsOf
<1>5. CASE Deduplicate(r)
  <2>1. PICK S \in Survivors(run[r].fetched) :
           Proceed(r, {a \in S : a.url \notin run[r].retries} \cup Retried(r))
    BY <1>5 DEF Deduplicate
  <2>2. PICK A : /\ A = {a \in S : a.url \notin run[r].retries} \cup Retried(r)
                 /\ Proceed(r, A)
    BY <2>1
  <2>3. OneEach(A) /\ UrlsOf(A) \cap In("complete") = {}
    BY <1>1, <2>2, DeduplicatedByUrl
  <2>4. /\ run'[r].pc = "summarizing" /\ run'[r].retries = {} /\ run'[r].fetched = {}
        /\ run'[r].new = A
    BY <1>1, <2>2 DEF Proceed, Idle
  <2> QED
    BY <1>2, <2>3, <2>4 DEF UrlsInHand, At, OneEach, UrlsOf
<1>6. ASSUME run[r].pc \in {"summarizing", "context", "primer"},
             run'[r].pc \in {"context", "primer", "storing"},
             run'[r].retries = run[r].retries, run'[r].fetched = run[r].fetched,
             run'[r].new = run[r].new
      PROVE  UrlsInHand(r)'
  BY <1>1, <1>2, <1>6 DEF UrlsInHand, At, OneEach, UrlsOf
<1>7. CASE Summarize(r)
  <2>1. PICK good, unavailable :
           run' = [run EXCEPT ![r].pc = "context", ![r].good = good,
                              ![r].unavailable = unavailable]
    BY <1>7 DEF Summarize
  <2> QED
    BY <1>1, <1>6, <1>7, <2>1 DEF Summarize, At, RunState
<1>8. CASE Context(r) \/ Primer(r)
  BY <1>1, <1>6, <1>8 DEF Context, Primer, At, RunState
<1>9. CASE \E a \in run[r].new : UpsertFails(r, a)
  <2>1. PICK a \in run[r].new : UpsertFails(r, a)
    BY <1>9
  <2>2. /\ run[r].pc = "storing" /\ run'[r].pc = "storing"
        /\ run'[r].retries = run[r].retries
        /\ run'[r].fetched = run[r].fetched /\ run'[r].new = run[r].new \ {a}
    BY <1>1, <2>1 DEF UpsertFails, At, RunState
  <2> QED
    BY <1>1, <1>2, <2>2 DEF UrlsInHand, At, OneEach, UrlsOf
<1>10. CASE ReadPendingFails(r) \/ Thread(r)
  BY <1>1, <1>10, IdleHoldsNoUrls DEF ReadPendingFails, Thread
<1> QED
  BY <1>3, <1>4, <1>5, <1>7, <1>8, <1>9, <1>10 DEF RunStep, KeepAll

\* And the store: it writes an article that was not published.
LEMMA UpsertKeepsUrls ==
  ASSUME InvOfOne, NEW r \in Runs, NEW a \in run[r].new, Upsert(r, a)
  PROVE  /\ UrlsInHand(r)' /\ NoPrimerOnFallback'
         /\ a.url \notin In("complete")
         /\ \A u \in Stored \ {a.url} : rows'[u] = rows[u]
<1>1. /\ run \in [Runs -> RunState] /\ run[r] \in RunState
      /\ IngestTypeOK /\ OrderIsTotal /\ UrlsInHand(r) /\ NoPrimerOnFallback
  BY DEF InvOfOne, InvOfMany, IngestTypeOK
<1>2. /\ Stored' = Stored \cup {a.url} /\ rows'[a.url] = Stores(r, a)
      /\ \A u \in Stored \ {a.url} : rows'[u] = rows[u]
  BY <1>1, UpsertWritesRow
<1>3. a.url \notin In("complete")
  BY <1>1 DEF UrlsInHand, UrlsOf
<1>4. /\ run[r].pc = "storing" /\ run'[r].pc = "storing"
      /\ run'[r].retries = run[r].retries
      /\ run'[r].fetched = run[r].fetched /\ run'[r].new = run[r].new \ {a}
  BY <1>1 DEF Upsert, At, RunState
<1>5. In("complete")' \subseteq In("complete") \cup {a.url}
  BY <1>2 DEF In
<1>6. UrlsOf(run[r].new \ {a}) \cap In("complete")' = {}
  BY <1>1, <1>5 DEF UrlsInHand, UrlsOf, OneEach
<1>7. UrlsInHand(r)'
  BY <1>1, <1>4, <1>6 DEF UrlsInHand, At, OneEach, UrlsOf
<1>8. ~rows'[a.url].primer
  <2>1. CASE a.url \in Stored
    BY <1>1, <1>2, <1>3, <2>1 DEF Stores, NoPrimerOnFallback
  <2>2. CASE a.url \notin Stored
    BY <1>2, <2>2 DEF Stores
  <2> QED
    BY <2>1, <2>2
<1>9. NoPrimerOnFallback'
  BY <1>1, <1>2, <1>8 DEF NoPrimerOnFallback, In
<1> QED
  BY <1>2, <1>3, <1>7, <1>9

\* Every step of a run that is alone.
LEMMA StepKeepsOne ==
  ASSUME Alone, ~Unfiltered, InvOfOne, [Next]_vars
  PROVE  InvOfOne'
<1>1. InvOfMany' /\ InvOfMany
  BY StepKeepsMany DEF InvOfOne
<1>2. CASE \E r \in Runs : \E a \in run[r].new : Upsert(r, a)
  BY <1>1, <1>2, UpsertKeepsUrls DEF InvOfOne, Alone
<1>3. CASE ~\E r \in Runs : \E a \in run[r].new : Upsert(r, a)
  <2>1. RowsAreMarked
    BY <1>1, <1>3, RowsChange
  <2>2. NoPrimerOnFallback'
    BY <2>1, MarksKeepPrimers DEF InvOfOne
  <2>3. CASE \E r \in Runs : RunStep(r)
    BY <1>1, <1>3, <2>1, <2>2, <2>3, RunKeepsUrls DEF InvOfOne, Alone
  <2>4. CASE UNCHANGED run
    BY <1>1, <2>1, <2>2, <2>4, MarksKeepUrls DEF InvOfOne
  <2>5. CASE Crash
    BY <1>1, <2>2, <2>5, IdleHoldsNoUrls DEF InvOfOne, Crash
  <2>6. CASE HandlerStep
    BY <1>1, <2>4, <2>6, HandlersMark DEF InvOfMany
  <2> QED
    BY <2>3, <2>4, <2>5, <2>6 DEF Next, Stabilise, vars
<1> QED
  BY <1>2, <1>3

\* The empty table, and nothing in hand.
LEMMA InitIsOne == InitIngest => InvOfOne
<1> SUFFICES ASSUME InitIngest PROVE InvOfOne
  OBVIOUS
<1>1. Stored = {} /\ \A r \in Runs : run[r] = Idle
  BY DEF InitIngest, Stored
<1>2. \A r \in Runs : UrlsInHand(r)
  BY <1>1 DEF UrlsInHand, Idle, At, OneEach, UrlsOf
<1> QED
  BY <1>1, <1>2, InitIsMany DEF InvOfOne, NoPrimerOnFallback

\* While runs follow one another and are not forced, what each holds agrees with
\* the rows.
LEMMA RunsFollowRows == ASSUME Alone, ~Unfiltered PROVE Spec => []InvOfOne
<1>1. InitIngest => InvOfOne
  BY InitIsOne
<1>2. InvOfOne /\ [Next]_vars => InvOfOne'
  BY StepKeepsOne
<1> QED
  BY <1>1, <1>2, PTL DEF Spec

\* A fallback never carries a paid note, whenever its batch result comes in
\* (primer_generator's UPDATE ... WHERE, and the upsert that turns a row into one).
THEOREM FallbacksCarryNoPrimer == ASSUME Alone, ~Unfiltered PROVE Spec => []NoPrimerOnFallback
<1>1. InvOfOne => NoPrimerOnFallback
  BY DEF InvOfOne
<1> QED
  BY <1>1, RunsFollowRows, PTL

\* A published article is final: no later run, retry or batch result takes back
\* what its row says (deduplicate, pending_articles, store_node).
THEOREM PublishedAreFinal == ASSUME Alone, ~Unfiltered PROVE Spec => PublishedStays
<1>1. ASSUME InvOfOne, [Next]_vars, NEW u \in In("complete")
      PROVE  /\ \A f \in {"status", "text", "full"} : rows'[u][f] = rows[u][f]
             /\ \A mark \in {"scored", "primer", "threaded"} :
                   rows[u][mark] => rows'[u][mark]
  <2>1. u \in Stored
    BY DEF In
  <2>2. CASE RowsAreMarked
    BY <2>1, <2>2 DEF RowsAreMarked
  <2>3. CASE \E r \in Runs : \E a \in run[r].new : Upsert(r, a)
    <3>1. PICK r \in Runs : \E a \in run[r].new : Upsert(r, a)
      BY <2>3
    <3>2. PICK a \in run[r].new : Upsert(r, a)
      BY <3>1
    <3>3. u \in Stored \ {a.url} /\ rows'[u] = rows[u]
      BY <1>1, <2>1, <3>2, UpsertKeepsUrls
    <3> QED
      BY <3>3
  <2> QED
    BY <1>1, <2>2, <2>3, RowsChange DEF InvOfOne
<1>2. InvOfOne /\ [Next]_vars
         => [\A u \in In("complete") :
                /\ \A f \in {"status", "text", "full"} : rows'[u][f] = rows[u][f]
                /\ \A mark \in {"scored", "primer", "threaded"} :
                      rows[u][mark] => rows'[u][mark]]_vars
  BY <1>1
<1> QED
  BY <1>2, RunsFollowRows, PTL DEF Spec, PublishedStays

-----------------------------------------------------------------------------
(* And publishers that leave the text of a stored article as it is.         *)

InvOfTexts ==
    /\ InvOfOne /\ PendingIsFull /\ OneRowPerCopy
    /\ \A r \in Runs : TextsInHand(r)

\* Marking leaves what a run knows of the stored texts true.
LEMMA MarksKeepTexts ==
  ASSUME RowsAreMarked, IngestTypeOK, NEW r, TextsInHand(r), run'[r] = run[r]
  PROVE  TextsInHand(r)'
<1>1. Stored' = Stored /\ \A u \in Stored : rows'[u].text = rows[u].text
  BY DEF RowsAreMarked
<1>2. \A u \in Stored : Hash(rows'[u]) = Hash(rows[u])
  BY DEF RowsAreMarked, Hash
<1> QED
  BY <1>1, <1>2 DEF TextsInHand

\* Marking makes no copies.
LEMMA MarksKeepCopies ==
  ASSUME RowsAreMarked, PendingIsFull, OneRowPerCopy
  PROVE  PendingIsFull' /\ OneRowPerCopy'
<1>1. \A u \in Stored : Hash(rows'[u]) = Hash(rows[u])
  BY DEF RowsAreMarked, Hash
<1>2. In("pending")' = In("pending")
  BY MarksKeepStatus
<1> QED
  BY <1>1, <1>2 DEF PendingIsFull, OneRowPerCopy, RowsAreMarked, In

\* What passes the deduplicator: no two copies of one text, and a copy of no row
\* but its own.
LEMMA DeduplicatedByHash ==
  ASSUME InvOfTexts, NEW r \in Runs, At(r, "deduplicating"),
         NEW S \in Survivors(run[r].fetched),
         NEW A, A = {a \in S : a.url \notin run[r].retries} \cup Retried(r)
  PROVE  /\ \A a, b \in A : Hash(a) = Hash(b) => a = b
         /\ \A a \in A, v \in Stored : v # a.url => Hash(rows[v]) # Hash(a)
<1>1. /\ UrlsInHand(r) /\ TextsInHand(r) /\ PendingIsFull /\ OneRowPerCopy
      /\ IngestTypeOK
  BY DEF InvOfTexts, InvOfOne, InvOfMany
<1>2. S \subseteq Unseen(run[r].fetched)
  BY DEF Survivors
<1>3. ASSUME NEW a \in S, NEW v \in Stored PROVE Hash(rows[v]) # Hash(a)
  BY <1>2 DEF Unseen
<1>4. ASSUME NEW a \in S, NEW b \in S, Hash(a) = Hash(b) PROVE a = b
  <2>1. PICK first \in S : {c \in S : Hash(c) = Hash(a)} = {first}
    BY <1>2 DEF Survivors
  <2> QED
    BY <1>4, <2>1
<1>5. ASSUME NEW a \in Retried(r)
      PROVE  a.url \in Stored /\ Hash(a) = Hash(rows[a.url])
  <2>1. a.url \in run[r].retries /\ a.full
    BY RetriedIs
  <2>2. a.url \in In("pending")
    BY <1>1, <2>1 DEF UrlsInHand
  <2>3. a.url \in Stored /\ rows[a.url].full /\ rows[a.url].full \in BOOLEAN
    BY <1>1, <2>2, RowTexts DEF In, PendingIsFull, Row
  <2>4. a.text = rows[a.url].text /\ a.full \in BOOLEAN
    <3>1. CASE a \in run[r].fetched
      <4>1. a.text = rows[a.url].text
        BY <1>1, <2>3, <3>1 DEF TextsInHand
      <4>2. run[r] \in RunState
        BY <1>1 DEF IngestTypeOK
      <4>3. a \in Article
        BY <3>1, <4>2 DEF RunState
      <4>4. a.full \in BOOLEAN
        BY <4>3 DEF Article
      <4> QED
        BY <4>1, <4>4
    <3>2. CASE a = Recovered(a.url)
      <4>1. PICK u : u = a.url /\ a = [url |-> u, text |-> rows[u].text, full |-> TRUE]
        BY <3>2 DEF Recovered
      <4>2. a.text = rows[u].text /\ a.full = TRUE
        BY <4>1
      <4> QED
        BY <4>1, <4>2
    <3> QED
      BY <3>1, <3>2, RetriedIs
  <2>5. a.full = rows[a.url].full
    BY <2>1, <2>3, <2>4
  <2> QED
    BY <2>3, <2>4, <2>5 DEF Hash
<1>6. OneEach(A)
  BY <1>1, DeduplicatedByUrl
<1>7. ASSUME NEW a \in A, NEW b \in A, Hash(a) = Hash(b) PROVE a = b
  <2>1. CASE a \in S /\ b \in S
    BY <1>4, <1>7, <2>1
  <2>2. CASE a \in Retried(r) /\ b \in Retried(r)
    BY <1>1, <1>5, <1>6, <1>7, <2>2 DEF OneRowPerCopy, OneEach
  <2>3. CASE a \in S /\ b \in Retried(r)
    BY <1>3, <1>5, <1>7, <2>3
  <2>4. CASE a \in Retried(r) /\ b \in S
    BY <1>3, <1>5, <1>7, <2>4
  <2> QED
    BY <2>1, <2>2, <2>3, <2>4
<1>8. ASSUME NEW a \in A, NEW v \in Stored, v # a.url PROVE Hash(rows[v]) # Hash(a)
  <2>1. CASE a \in S
    BY <1>3, <2>1
  <2>2. CASE a \in Retried(r)
    BY <1>1, <1>5, <1>8, <2>2 DEF OneRowPerCopy
  <2> QED
    BY <2>1, <2>2
<1> QED
  BY <1>7, <1>8

\* Nor has a run at rest any text in hand.
LEMMA IdleHoldsNoTexts ==
  ASSUME NEW r, run'[r] = Idle
  PROVE  TextsInHand(r)'
BY DEF TextsInHand, Idle

\* The steps of the only run, up to the store.
LEMMA RunKeepsTexts ==
  ASSUME InvOfTexts, ~Unfiltered, ~Rewrites, NEW r \in Runs, RunStep(r), RowsAreMarked,
         ~\E a \in run[r].new : Upsert(r, a)
  PROVE  TextsInHand(r)'
<1>1. /\ run \in [Runs -> RunState] /\ run[r] \in RunState
      /\ IngestTypeOK /\ UrlsInHand(r) /\ TextsInHand(r)
  BY DEF InvOfTexts, InvOfOne, InvOfMany, IngestTypeOK
<1>2. Stored' = Stored /\ \A u \in Stored : rows'[u].text = rows[u].text
  BY DEF RowsAreMarked
<1>3. \A u \in Stored : Hash(rows'[u]) = Hash(rows[u])
  BY DEF RowsAreMarked, Hash
<1>4. CASE Fetch(r)
  <2>1. PICK A \in SUBSET Article :
           /\ \A a \in A : a.url \in Stored => a.text = rows[a.url].text
           /\ run' = [run EXCEPT ![r].pc = "fetched", ![r].fetched = A]
    BY <1>4 DEF Fetch
  <2>2. /\ run'[r].pc = "fetched" /\ run'[r].fetched = A
        /\ run'[r].new = run[r].new
    BY <1>1, <2>1 DEF RunState
  <2>3. run[r].new = {}
    BY <1>1, <1>4 DEF Fetch, At, UrlsInHand
  <2> QED
    BY <1>2, <2>1, <2>2, <2>3 DEF TextsInHand
<1>5. CASE ReadPending(r)
  <2>1. PICK U : run' = [run EXCEPT ![r].pc = "deduplicating", ![r].retries = U]
    BY <1>5 DEF ReadPending
  <2>2. /\ run'[r].pc = "deduplicating"
        /\ run'[r].fetched = run[r].fetched /\ run'[r].new = run[r].new
    BY <1>1, <2>1 DEF RunState
  <2>3. run[r].new = {}
    BY <1>1, <1>5 DEF ReadPending, At, UrlsInHand
  <2> QED
    BY <1>1, <1>2, <2>2, <2>3 DEF TextsInHand
<1>6. CASE Deduplicate(r)
  <2>1. PICK S \in Survivors(run[r].fetched) :
           Proceed(r, {a \in S : a.url \notin run[r].retries} \cup Retried(r))
    BY <1>6 DEF Deduplicate
  <2>2. PICK A : /\ A = {a \in S : a.url \notin run[r].retries} \cup Retried(r)
                 /\ Proceed(r, A)
    BY <2>1
  <2>3. /\ \A a, b \in A : Hash(a) = Hash(b) => a = b
        /\ \A a \in A, v \in Stored : v # a.url => Hash(rows[v]) # Hash(a)
    BY <1>6, <2>2, DeduplicatedByHash DEF Deduplicate
  <2>4. /\ run'[r].pc = "summarizing" /\ run'[r].fetched = {} /\ run'[r].new = A
    BY <1>1, <2>2 DEF Proceed, Idle
  <2> QED
    BY <1>2, <1>3, <2>3, <2>4 DEF TextsInHand
<1>7. CASE Summarize(r)
  <2>1. PICK good \in SUBSET Full(r), unusable \in SUBSET Full(r) :
           run' = [run EXCEPT ![r].pc = "context", ![r].good = good,
                     ![r].unavailable = unusable \cup (UrlsOf(run[r].new) \ Full(r))]
    BY <1>7 DEF Summarize
  <2>2. /\ run[r].pc = "summarizing" /\ run'[r].pc = "context"
        /\ run'[r].fetched = run[r].fetched /\ run'[r].new = run[r].new
        /\ run'[r].unavailable = unusable \cup (UrlsOf(run[r].new) \ Full(r))
    BY <1>1, <1>7, <2>1 DEF Summarize, At, RunState
  <2>3. ASSUME NEW a \in run[r].new, a.url \in Full(r) PROVE a.full
    BY <1>1, <2>3 DEF Full, UrlsOf, UrlsInHand, OneEach
  <2>4. \A a \in run[r].new : a.full \/ a.url \in run'[r].unavailable
    BY <2>2, <2>3 DEF UrlsOf
  <2> QED
    BY <1>1, <1>2, <1>3, <2>2, <2>4 DEF TextsInHand
<1>8. CASE Context(r) \/ Primer(r)
  <2>1. /\ run[r].pc \in {"context", "primer"} /\ run'[r].pc \in {"primer", "storing"}
        /\ run'[r].fetched = run[r].fetched /\ run'[r].new = run[r].new
        /\ run'[r].unavailable = run[r].unavailable
    BY <1>1, <1>8 DEF Context, Primer, At, RunState
  <2> QED
    BY <1>1, <1>2, <1>3, <2>1 DEF TextsInHand
<1>9. CASE \E a \in run[r].new : UpsertFails(r, a)
  <2>1. PICK a \in run[r].new : UpsertFails(r, a)
    BY <1>9
  <2>2. /\ run[r].pc = "storing" /\ run'[r].pc = "storing"
        /\ run'[r].fetched = run[r].fetched /\ run'[r].new = run[r].new \ {a}
        /\ run'[r].unavailable = run[r].unavailable
    BY <1>1, <2>1 DEF UpsertFails, At, RunState
  <2> QED
    BY <1>1, <1>2, <1>3, <2>2 DEF TextsInHand
<1>10. CASE ReadPendingFails(r) \/ Thread(r)
  BY <1>1, <1>10, IdleHoldsNoTexts DEF ReadPendingFails, Thread
<1> QED
  BY <1>4, <1>5, <1>6, <1>7, <1>8, <1>9, <1>10 DEF RunStep, KeepAll

\* And the store: what it writes is like no other row, and has a body if a later
\* run is to retry it.
LEMMA UpsertKeepsTexts ==
  ASSUME InvOfTexts, NEW r \in Runs, NEW a \in run[r].new, Upsert(r, a)
  PROVE  TextsInHand(r)' /\ PendingIsFull' /\ OneRowPerCopy'
<1>1. /\ run \in [Runs -> RunState] /\ run[r] \in RunState
      /\ IngestTypeOK /\ OrderIsTotal /\ UrlsInHand(r) /\ TextsInHand(r)
      /\ PendingIsFull /\ OneRowPerCopy
  BY DEF InvOfTexts, InvOfOne, InvOfMany, IngestTypeOK
<1>2. /\ Stored' = Stored \cup {a.url} /\ rows'[a.url] = Stores(r, a)
      /\ \A u \in Stored \ {a.url} : rows'[u] = rows[u]
  BY <1>1, UpsertWritesRow
<1>3. /\ run[r].pc = "storing" /\ run'[r].pc = "storing"
      /\ run'[r].fetched = run[r].fetched /\ run'[r].new = run[r].new \ {a}
      /\ run'[r].unavailable = run[r].unavailable
  BY <1>1 DEF Upsert, At, RunState
<1>4. Hash(rows'[a.url]) = Hash(a) /\ rows'[a.url].full = a.full
  BY <1>2 DEF Hash, Stores
<1>5. \A u \in Stored \ {a.url} : Hash(rows'[u]) = Hash(rows[u]) /\ Hash(rows[u]) # Hash(a)
  BY <1>1, <1>2 DEF TextsInHand
<1>6. OneRowPerCopy'
  <2>1. ASSUME NEW u \in Stored', NEW v \in Stored', Hash(rows'[u]) = Hash(rows'[v])
        PROVE  u = v
    BY <1>1, <1>2, <1>4, <1>5, <2>1 DEF OneRowPerCopy
  <2> QED
    BY <2>1 DEF OneRowPerCopy
<1>7. rows'[a.url].status = "pending" => a.full
  <2>1. rows'[a.url].status = Status(r, a.url)
    BY <1>2 DEF Stores
  <2>2. Status(r, a.url) = "pending" => a.url \notin run[r].unavailable
    BY DEF Status
  <2> QED
    BY <1>1, <1>3, <2>1, <2>2 DEF TextsInHand
<1>8. PendingIsFull'
  BY <1>1, <1>2, <1>4, <1>7 DEF PendingIsFull, In
<1>9. run[r].fetched = {}
  BY <1>1, <1>3 DEF TextsInHand
<1>10. ASSUME NEW b \in run[r].new \ {a}, NEW v \in Stored', v # b.url
       PROVE  Hash(rows'[v]) # Hash(b)
  <2>1. CASE v = a.url
    BY <1>1, <1>4, <2>1 DEF TextsInHand
  <2>2. CASE v # a.url
    BY <1>1, <1>2, <1>5, <1>10, <2>2 DEF TextsInHand
  <2> QED
    BY <2>1, <2>2
<1>11. TextsInHand(r)'
  BY <1>1, <1>3, <1>9, <1>10 DEF TextsInHand
<1> QED
  BY <1>6, <1>8, <1>11

\* Every step of a run that is alone, where no text is rewritten.
LEMMA StepKeepsTexts ==
  ASSUME Alone, ~Unfiltered, ~Rewrites, InvOfTexts, [Next]_vars
  PROVE  InvOfTexts'
<1>1. InvOfOne' /\ InvOfOne /\ InvOfMany /\ IngestTypeOK
  BY StepKeepsOne DEF InvOfTexts, InvOfOne, InvOfMany
<1>2. CASE \E r \in Runs : \E a \in run[r].new : Upsert(r, a)
  BY <1>1, <1>2, UpsertKeepsTexts DEF InvOfTexts, Alone
<1>3. CASE ~\E r \in Runs : \E a \in run[r].new : Upsert(r, a)
  <2>1. RowsAreMarked
    BY <1>1, <1>3, RowsChange
  <2>2. PendingIsFull' /\ OneRowPerCopy'
    BY <2>1, MarksKeepCopies DEF InvOfTexts
  <2>3. CASE \E r \in Runs : RunStep(r)
    BY <1>1, <1>3, <2>1, <2>2, <2>3, RunKeepsTexts DEF InvOfTexts, Alone
  <2>4. CASE UNCHANGED run
    BY <1>1, <2>1, <2>2, <2>4, MarksKeepTexts DEF InvOfTexts
  <2>5. CASE Crash
    BY <1>1, <2>2, <2>5, IdleHoldsNoTexts DEF InvOfTexts, Crash
  <2>6. CASE HandlerStep
    BY <1>1, <2>4, <2>6, HandlersMark DEF InvOfMany
  <2> QED
    BY <2>3, <2>4, <2>5, <2>6 DEF Next, Stabilise, vars
<1> QED
  BY <1>2, <1>3

\* One row per text: copies of a text that several feeds carry, in one run or over
\* time, with or without their bodies and through retries, end up in one row
\* (deduplicate, store_node's upsert by source_url).
THEOREM CopiesAreStoredOnce ==
  ASSUME Alone, ~Unfiltered, ~Rewrites
  PROVE  Spec => []IngestInv
<1>1. InitIngest => InvOfTexts
  <2> SUFFICES ASSUME InitIngest PROVE InvOfTexts
    OBVIOUS
  <2>1. Stored = {} /\ \A r \in Runs : run[r] = Idle
    BY DEF InitIngest, Stored
  <2>2. \A r \in Runs : TextsInHand(r)
    BY <2>1 DEF TextsInHand, Idle
  <2> QED
    BY <2>1, <2>2, InitIsOne DEF InvOfTexts, PendingIsFull, OneRowPerCopy, In
<1>2. InvOfTexts /\ [Next]_vars => InvOfTexts'
  BY StepKeepsTexts
<1>3. InvOfTexts => IngestInv
  BY DEF InvOfTexts, InvOfOne, InvOfMany, IngestInv
<1> QED
  BY <1>1, <1>2, <1>3, PTL DEF Spec
=============================================================================
