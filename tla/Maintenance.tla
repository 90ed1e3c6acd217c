---------------------------- MODULE Maintenance ----------------------------
(***************************************************************************)
(* Maintenance: the scripts that correct stored summaries beside a running *)
(* service -- scripts/regate_summaries.py, repair_misaligned_summaries.py, *)
(* backfill_context.py and src/backfill_embeddings.py -- the summary gate  *)
(* of services/quality_gate.py they share with the pipeline, and as much   *)
(* of the pipeline and of threading as they meet in the articles table.    *)
(*                                                                         *)
(* A summary is its sequence of sentences, and a sentence what the gate    *)
(* makes of it:                                                            *)
(*   "report"   reporting of ten words or more                             *)
(*   "terse"    reporting of fewer                                         *)
(*   "tailed"   a report that ends in ", highlighting broader tensions ..." *)
(*   "vague"    finding-free filler, "preview" a guide to an event,        *)
(*   "closer"   generic significance, "refusal" the model's own apology    *)
(***************************************************************************)
EXTENDS Integers, Sequences, FiniteSets, SequencesExt

CONSTANTS
    Stored,     \* the articles
    Generated   \* what the model may answer for one: sequences of sentences

ASSUME MaintenanceAssumption == \A t \in Generated : t \in Seq(STRING) /\ t # <<>>

VARIABLES
    art,     \* article -> its row: text, the answer it was gated from in so many passes,
             \* what was derived from it, and whether a script has cleared that
    window,  \* articles of the last 48 hours
    plan     \* what regate_summaries has decided and not yet written: [pc, trims, blanks]

maintVars == <<art, window, plan>>

Unstored == [text |-> <<>>, answer |-> <<>>, passes |-> 0, status |-> "absent", vector |-> FALSE,
             scored |-> FALSE, entities |-> FALSE, threaded |-> FALSE, cleared |-> FALSE]

NoPlan == [pc |-> "idle", trims |-> {}, blanks |-> {}]

InitMaintenance ==
    /\ art = [u \in Stored |-> Unstored] /\ window = Stored /\ plan = NoPlan

-----------------------------------------------------------------------------
(* The summary gate.                                                        *)

Without(s, kinds) == SelectSeq(s, LAMBDA x : x \notin kinds)

\* The significance tail is looked for at the end of the whole text only.
Untailed(s) ==
    IF s # <<>> /\ Last(s) = "tailed" THEN [s EXCEPT ![Len(s)] = "report"] ELSE s

\* MIN_SUMMARY_WORDS: ten words, which two terse sentences make up.
LongEnough(s) ==
    \/ \E i \in DOMAIN s : s[i] \in {"report", "tailed"}
    \/ Cardinality({i \in DOMAIN s : s[i] = "terse"}) >= 2

Filler == {"vague", "preview", "closer"}

\* Mutant of GateSummary: the length floor holds for every summary.
GateByLength(s) ==
    LET kept == Without(Untailed(s), Filler \cup {"refusal"})
    IN  IF LongEnough(kept) THEN kept ELSE <<>>

\* gate_summary: filler goes, and where the model apologised its apologies, with
\* the rest when fewer than ten words are left.
GateSummary(s) ==
    LET t    == Without(Untailed(s), Filler)
        kept == Without(t, {"refusal"})
    IN  IF kept = t THEN t ELSE IF LongEnough(kept) THEN kept ELSE <<>>

-----------------------------------------------------------------------------
(* The pipeline and threading.                                              *)

Row(answer, passes, status) ==
    [Unstored EXCEPT !.text = IF passes = 0 THEN answer ELSE GateSummary(answer),
                     !.answer = answer, !.passes = passes, !.status = status, !.vector = TRUE]

\* store_node: summarised and gated, with something left.
StoreArticle(u) ==
    /\ art[u].status = "absent"
    /\ \E t \in Generated :
         /\ GateSummary(t) # <<>>
         /\ art' = [art EXCEPT ![u] = Row(t, 1, "complete")]
    /\ UNCHANGED <<window, plan>>

\* No usable summary: the start of the feed's own text, which no gate has seen,
\* until a retry.
StoreFallback(u) ==
    /\ art[u].status = "absent"
    /\ \E t \in Generated : art' = [art EXCEPT ![u] = Row(t, 0, "pending")]
    /\ UNCHANGED <<window, plan>>

\* A row stored before the gate existed, or before it knew these sentences.
StoreUngated(u) ==
    /\ art[u].status = "absent"
    /\ \E t \in Generated : art' = [art EXCEPT ![u] = Row(t, 0, "complete")]
    /\ UNCHANGED <<window, plan>>

\* The retry of a pending row: the upsert replaces its text and queues it again.
StoreRetry(u) ==
    /\ art[u].status = "pending"
    /\ \E t \in Generated :
         /\ GateSummary(t) # <<>>
         /\ art' = [art EXCEPT ![u] = [Row(t, 1, "complete") EXCEPT !.entities = art[u].entities]]
    /\ UNCHANGED <<window, plan>>

\* The enrichment of stored text, by batches submitted in the run that stores it.
EnrichRow(u) ==
    /\ art[u].status = "complete" /\ art[u].text # <<>> /\ ~art[u].cleared
    /\ ~art[u].entities
    /\ art' = [art EXCEPT ![u].scored = TRUE, ![u].entities = TRUE]
    /\ UNCHANGED <<window, plan>>

\* fetch_queue: not threaded yet, in the window, embedded, its entities an object.
Queued(u) ==
    /\ u \in window /\ ~art[u].threaded /\ art[u].vector /\ art[u].entities

\* A threading run decides on its queue and marks it.
ThreadQueue ==
    /\ \E u \in Stored : Queued(u)
    /\ art' = [u \in Stored |->
                 IF Queued(u) THEN [art[u] EXCEPT !.threaded = TRUE, !.cleared = FALSE]
                 ELSE art[u]]
    /\ UNCHANGED <<window, plan>>

LeavesWindow(u) ==
    /\ u \in window /\ window' = window \ {u} /\ UNCHANGED <<art, plan>>

-----------------------------------------------------------------------------
(* The scripts.                                                             *)

\* What a row loses with its summary: scores, entities, links, story and vector.
\* threaded_at is not among them.
Cleared(row, text) ==
    [row EXCEPT !.text = text, !.scored = FALSE, !.entities = FALSE, !.vector = FALSE,
                !.cleared = TRUE]

\* regate_summaries reads every summary there is and sorts what its gate changes.
RegateScan ==
    /\ plan.pc = "idle"
    /\ LET changed == {u \in Stored : GateSummary(art[u].text) # art[u].text}
           as(u)   == [url |-> u, text |-> GateSummary(art[u].text),
                       answer |-> art[u].answer, passes |-> art[u].passes + 1]
       IN  /\ changed # {}
           /\ plan' = [pc     |-> "trimming",
                       trims  |-> {as(u) : u \in {v \in changed : GateSummary(art[v].text) # <<>>}},
                       blanks |-> {as(u) : u \in {v \in changed : GateSummary(art[v].text) = <<>>}}]
    /\ UNCHANGED <<art, window>>

\* One UPDATE by URL for each trimmed summary, whatever the row holds by then.
RegateTrim ==
    /\ plan.pc = "trimming"
    /\ \E t \in plan.trims :
         /\ art' = [art EXCEPT ![t.url].text = t.text, ![t.url].answer = t.answer,
                               ![t.url].passes = t.passes]
         /\ plan' = [plan EXCEPT !.trims = @ \ {t}]
    /\ UNCHANGED window

\* Then one for all the blanked.
RegateBlank ==
    /\ plan.pc = "trimming" /\ plan.trims = {}
    /\ art' = [u \in Stored |->
                 IF \E b \in plan.blanks : b.url = u
                 THEN [Cleared(art[u], <<>>) EXCEPT
                         !.answer = (CHOOSE b \in plan.blanks : b.url = u).answer]
                 ELSE art[u]]
    /\ plan' = NoPlan
    /\ UNCHANGED window

\* The script is stopped, or a statement of it fails.
RegateDies ==
    /\ plan.pc = "trimming" /\ plan' = NoPlan /\ UNCHANGED <<art, window>>

\* repair_misaligned_summaries on a confirmed row: summarised anew from the
\* outlet's feed and embedded, or blanked.
Repair(u) ==
    /\ art[u].status # "absent" /\ ~art[u].cleared
    /\ \/ art' = [art EXCEPT ![u] = [Cleared(@, <<>>) EXCEPT !.answer = <<>>]]
       \/ \E t \in Generated, embedded \in BOOLEAN :
            /\ GateSummary(t) # <<>>
            /\ art' = [art EXCEPT ![u] =
                         [Cleared(@, GateSummary(t)) EXCEPT !.answer = t, !.passes = 1,
                                                            !.vector = embedded]]
    /\ UNCHANGED <<window, plan>>

\* backfill_embeddings: every row without a vector whose summary is not NULL.
BackfillVectors ==
    /\ \E u \in Stored : art[u].status # "absent" /\ ~art[u].vector
    /\ art' = [u \in Stored |-> [art[u] EXCEPT !.vector = @ \/ art[u].status # "absent"]]
    /\ UNCHANGED <<window, plan>>

\* backfill_context: every row without a score that has a summary.
BackfillScores ==
    /\ \E u \in Stored : art[u].text # <<>> /\ ~art[u].scored
    /\ art' = [u \in Stored |-> [art[u] EXCEPT !.scored = @ \/ art[u].text # <<>>]]
    /\ UNCHANGED <<window, plan>>

MaintNext ==
    \/ \E u \in Stored :
         \/ StoreArticle(u) \/ StoreFallback(u) \/ StoreUngated(u) \/ StoreRetry(u) \/ EnrichRow(u)
         \/ LeavesWindow(u) \/ Repair(u)
    \/ ThreadQueue
    \/ RegateScan \/ RegateTrim \/ RegateBlank \/ RegateDies
    \/ BackfillVectors \/ BackfillScores

\* The pipeline's runs and the backfills the scripts ask for do take place.
MaintFairness ==
    /\ WF_maintVars(ThreadQueue) /\ WF_maintVars(BackfillVectors) /\ WF_maintVars(BackfillScores)
    /\ \A u \in Stored : WF_maintVars(EnrichRow(u))

MaintSpec == InitMaintenance /\ [][MaintNext]_maintVars /\ MaintFairness

-----------------------------------------------------------------------------
(* Properties.                                                              *)

Reporting(s) == Len(SelectSeq(s, LAMBDA x : x \in {"report", "terse", "tailed"}))

\* Whichever way a stored summary was gated and gated again, every sentence of
\* reporting in the answer it came from is still there -- unless the model
\* apologised and left fewer than ten words: "MIN_SUMMARY_WORDS must never touch a
\* summary that was fine".
ReportingSurvives ==
    \A u \in Stored :
        \/ Reporting(art[u].text) = Reporting(art[u].answer)
        \/ /\ art[u].text = <<>> /\ ~LongEnough(Without(art[u].answer, {"refusal"}))
           /\ \E i \in DOMAIN art[u].answer : art[u].answer[i] = "refusal"

\* Two passes settle a summary: a third finds nothing to change.  (One does not: a
\* tail comes into reach when the first pass drops the closer or apology after it.)
RegateSettles ==
    \A u \in Stored : art[u].passes >= 2 => GateSummary(art[u].text) = art[u].text

\* "each repaired row has its derived fields cleared; the backfill scripts ... and
\* the next threading run regenerate them": a cleared row is considered by
\* threading again while it is recent enough to be.
ClearedIsReconsidered ==
    \A u \in Stored : (art[u].cleared /\ art[u].text # <<>>) ~> (~art[u].cleared \/ u \notin window)

\* Gating a stored summary again loses no reporting, and comes to an end.
GateIsSafe == ReportingSurvives /\ RegateSettles
=============================================================================
