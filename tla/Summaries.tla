----------------------------- MODULE Summaries -----------------------------
(***************************************************************************)
(* Summaries: services/summarizer.py, index_alignment.py and               *)
(* source_review.py.                                                       *)
(*                                                                         *)
(* One batch is asked for, asked for again while the answer cannot be      *)
(* proven aligned, reviewed against its sources, repaired once and         *)
(* reviewed again.  A text is the call it came from; what it says is left  *)
(* out, and the model, the reviewer and the budget answer as they like.    *)
(***************************************************************************)
EXTENDS Integers, FiniteSets

CONSTANTS
    Batch,              \* the articles of a batch
    Bodyless,           \* those whose RSS entry is a headline and nothing else
    MaxBatchAttempts    \* MAX_BATCH_ATTEMPTS

ASSUME SummariesAssumption == Bodyless \subseteq Batch /\ MaxBatchAttempts \in Nat \ {0}

VARIABLES
    sumPc,
    attempt,     \* attempts of the call under way
    alone,       \* articles still to be asked for one by one
    result,      \* results: article -> [text, mark]
    verdict,     \* verdicts: article -> "pass", "retry", "unavailable" or "error"
    judged,      \* the text that verdict is about
    repaired     \* articles with a second text to review

sumVars == <<sumPc, attempt, alone, result, verdict, judged, repaired>>

InitSummaries ==
    /\ sumPc = "idle" /\ attempt = 1 /\ alone = {} /\ repaired = {}
    /\ result = [a \in {} |-> 0] /\ verdict = [a \in {} |-> ""] /\ judged = [a \in {} |-> ""]

Puts(new)    == result' = [a \in DOMAIN result \cup DOMAIN new |->
                              IF a \in DOMAIN new THEN new[a] ELSE result[a]]
Raw(as)      == [a \in as |-> [text |-> "raw", mark |-> "degraded"]]
Unreviewed   == UNCHANGED <<verdict, judged, repaired>>
Summarizable == Batch \ Bodyless

\* What _parse_summaries makes of an aligned answer without a copy defect: an
\* article the model calls unavailable, or whose text the gate empties, is "".
Parsed(text, empty, as) ==
    [a \in as |-> IF a \in empty THEN [text |-> "", mark |-> "unavailable"]
                                 ELSE [text |-> text, mark |-> "none"]]

-----------------------------------------------------------------------------
(* summarize_articles.                                                      *)

\* One check for the set: when it is refused every row keeps its RSS text.
SumBegin ==
    /\ sumPc = "idle"
    /\ \/ sumPc' = "batch" /\ UNCHANGED result
       \/ sumPc' = "done" /\ Puts(Raw(Summarizable))
    /\ UNCHANGED <<attempt, alone>> /\ Unreviewed

\* with_alignment_retry around _summarize_batch: only a misaligned answer, or
\* one whose copy changes a fact, is asked for again.
BatchAnswers ==
    /\ sumPc = "batch"
    /\ \/ \E empty \in SUBSET Summarizable :
            Puts(Parsed("batch", empty, Summarizable)) /\ sumPc' = "review" /\ UNCHANGED <<attempt, alone>>
       \/ /\ attempt < MaxBatchAttempts /\ attempt' = attempt + 1
          /\ UNCHANGED <<sumPc, alone, result>>
       \/ /\ attempt = MaxBatchAttempts
          /\ sumPc' = "alone" /\ alone' = Summarizable /\ UNCHANGED <<attempt, result>>
       \/ Puts(Raw(Summarizable)) /\ sumPc' = "review" /\ UNCHANGED <<attempt, alone>>
    /\ Unreviewed

\* After a copy defect each article gets a check, and attempts, of its own.
AloneAnswers(a) ==
    /\ sumPc = "alone" /\ a \in alone
    /\ \/ Puts(Raw({a}))
       \/ \E empty \in SUBSET {a} : Puts(Parsed("alone", empty, {a}))
    /\ alone' = alone \ {a}
    /\ UNCHANGED <<sumPc, attempt>> /\ Unreviewed

AloneEnds == sumPc = "alone" /\ alone = {} /\ sumPc' = "review" /\ UNCHANGED <<attempt, alone, result>> /\ Unreviewed

-----------------------------------------------------------------------------
(* _review_article_results.                                                 *)

Items == {a \in DOMAIN result : result[a].mark # "degraded"}

\* assess_copy: an unusable answer, an error or a refused check leaves a whole
\* chunk "error", and an empty copy cannot pass.  The gate may empty a copy the
\* reviewer is about to see, and then it cannot pass either.
Assessed(as, text) ==
    {v \in [as -> {"pass", "retry", "unavailable", "error"}] :
        /\ \A a \in as : v[a] = "pass" => text[a] # ""
        /\ (\E a \in as : v[a] = "error" /\ text[a] # "") => \A a \in as : v[a] = "error"}

SumReview ==
    /\ sumPc = "review"
    /\ judged' = [a \in Items |-> result[a].text]
    /\ verdict' \in Assessed(Items, judged')
    /\ sumPc' = "repair"
    /\ UNCHANGED <<attempt, alone, result, repaired>>

\* One rewrite of a repairable candidate; a refused check, an error, an empty
\* answer or the same text again leaves it as it is.
SumRepair(a) ==
    /\ sumPc = "repair" /\ a \in DOMAIN verdict /\ verdict[a] = "retry"
    /\ a \notin repaired
    /\ Puts([x \in {a} |-> [text |-> "repair", mark |-> "none"]])
    /\ repaired' = repaired \cup {a}
    /\ UNCHANGED <<sumPc, attempt, alone, verdict, judged>>

\* The two reviews may not disagree on whether the source is usable.
Fresh(v) == IF v = "unavailable" THEN "error" ELSE v

SumReviewAgain ==
    /\ sumPc = "repair"
    /\ IF repaired = {} THEN UNCHANGED <<verdict, judged>>
       ELSE \E v \in Assessed(repaired, [a \in repaired |-> result[a].text]) :
              /\ verdict' = [a \in DOMAIN verdict |-> IF a \in repaired THEN Fresh(v[a]) ELSE verdict[a]]
              /\ judged' = [a \in DOMAIN judged |-> IF a \in repaired THEN result[a].text ELSE judged[a]]
    /\ sumPc' = "withhold"
    /\ UNCHANGED <<attempt, alone, result, repaired>>

\* Mutant of Withheld: a candidate that should be repaired is published as is.
WithheldUnlessRetry(v) == v \in {"unavailable", "error"}

Withheld(v) == v # "pass"

SumWithhold ==
    /\ sumPc = "withhold"
    /\ Puts([a \in {x \in DOMAIN verdict : Withheld(verdict[x])} |->
               [text |-> "", mark |-> IF verdict[a] = "unavailable" THEN "unavailable" ELSE "degraded"]])
    /\ sumPc' = "done"
    /\ UNCHANGED <<attempt, alone>> /\ Unreviewed

SumNext ==
    \/ SumBegin \/ BatchAnswers \/ AloneEnds \/ SumReview \/ SumReviewAgain \/ SumWithhold
    \/ \E a \in Batch : AloneAnswers(a) \/ SumRepair(a)

SummariesSpec == InitSummaries /\ [][SumNext]_sumVars

-----------------------------------------------------------------------------
(* Properties.                                                              *)

\* "Unknown verdicts never authorize publication": a summary that goes out as
\* complete is the very text a review passed.
PublishedWasReviewed ==
    sumPc = "done" =>
        \A a \in DOMAIN result : result[a].mark = "none" =>
            /\ a \in DOMAIN verdict /\ verdict[a] = "pass"
            /\ judged[a] = result[a].text /\ result[a].text # ""

\* An article is never given up once a review found something in its source to
\* summarise, and its row never stays blank: every summarizable article has an
\* entry, and one without copy is pending or unavailable.
UsableIsNotGivenUp ==
    sumPc = "done" =>
        /\ DOMAIN result = Summarizable
        /\ \A a \in repaired : result[a].mark # "unavailable"

\* Reviews decide what is published and nothing else does: neither an outage nor a
\* rejection publishes a text, or gives up an article.
ReviewDecides == PublishedWasReviewed /\ UsableIsNotGivenUp
=============================================================================
