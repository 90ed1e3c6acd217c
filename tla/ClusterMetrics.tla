--------------------------- MODULE ClusterMetrics ---------------------------
(***************************************************************************)
(* ClusterMetrics: services/cluster_metrics.py, which scores the stories a *)
(* clusterer proposes against labelled ones.  Scores are kept as integer   *)
(* numerators and denominators; V-measure's logarithms are left out.       *)
(***************************************************************************)
EXTENDS Integers, Sequences, FiniteSets, SequencesExt, FiniteSetsExt

CONSTANTS
    Scored,      \* outlet of each article, a sequence: the articles that are offered
    Proposed,    \* what the clusterer may return: sequences of groups of 1-based indices
    Labelled     \* ground truths: event of each article, "" for none

ASSUME ClusterMetricsAssumption == \A t \in Labelled : DOMAIN t = DOMAIN Scored

VARIABLES bench   \* [pc, groups, events, pairs, ari, served] of the batch being scored

benchVars == bench

NoBatch == [pc |-> "idle", groups |-> <<>>, events |-> <<>>, pairs |-> <<0, 0, 0>>,
            served |-> <<0, 0, 0>>, ari |-> <<0, 1>>]

InitBench == bench = NoBatch

-----------------------------------------------------------------------------
(* Partitions: article -> label.                                            *)

\* partition_from_groups: the last group an article is in; an article in none has a
\* label of its own.  Indices that are out of range are passed over.
FromGroups(groups) ==
    [a \in DOMAIN Scored |->
       LET g == {i \in DOMAIN groups : a \in ToSet(groups[i])}
       IN  IF g = {} THEN Len(groups) + a ELSE Max(g)]

\* partition_from_event_ids: an article of no event has a label of its own.
FromEvents(events) ==
    [a \in DOMAIN events |->
       IF events[a] = "" THEN <<"own", a>> ELSE <<"event", events[a]>>]

\* multi_outlet_partition: a cluster of fewer than two outlets falls apart.
MultiOutlet(labels) ==
    [a \in DOMAIN labels |->
       IF Cardinality({Scored[b] : b \in {c \in DOMAIN labels : labels[c] = labels[a]}}) >= 2
       THEN <<"story", labels[a]>> ELSE <<"solo", a>>]

-----------------------------------------------------------------------------
(* Scores.                                                                  *)

\* pairwise_scores: true positives, false positives, false negatives, over the
\* unordered pairs of articles.
Pairwise(true, pred) ==
    LET pairs == {p \in (DOMAIN Scored) \X (DOMAIN Scored) : p[1] < p[2]}
        truly == {p \in pairs : true[p[1]] = true[p[2]]}
        found == {p \in pairs : pred[p[1]] = pred[p[2]]}
    IN  <<Cardinality(found \cap truly), Cardinality(found \ truly), Cardinality(truly \ found)>>

Comb2(n) == (n * (n - 1)) \div 2

\* The articles that share a label, and those that share a pair of labels.
Blocks(labels) == {{b \in DOMAIN labels : labels[b] = labels[a]} : a \in DOMAIN labels}

\* Mutant of Contingency: the two partitions' blocks are counted one beside the other.
ContingencyOfEither(true, pred) == Blocks(true) \cup Blocks(pred)

Contingency(true, pred) == Blocks([a \in DOMAIN true |-> <<true[a], pred[a]>>])

PairsIn(blocks) == MapThenSumSet(LAMBDA b : Comb2(Cardinality(b)), blocks)

\* adjusted_rand_index as a fraction: (index - expected) / (max_index - expected),
\* both times twice the number of pairs.
AdjustedRand(true, pred) ==
    LET index == PairsIn(Contingency(true, pred))
        a     == PairsIn(Blocks(true))
        b     == PairsIn(Blocks(pred))
        total == Comb2(Len(Scored))
        denom == total * (a + b) - 2 * a * b
    IN  IF Len(Scored) < 2 THEN <<1, 1>>
        ELSE IF denom = 0 THEN IF a = b THEN <<1, 1>> ELSE <<0, 1>>
        ELSE <<2 * (total * index - a * b), denom>>

\* A batch of the corpus with what the clusterer returned for it.
Offer ==
    /\ bench.pc = "idle"
    /\ \E groups \in Proposed, events \in Labelled :
         bench' = [NoBatch EXCEPT !.pc = "offered", !.groups = groups, !.events = events]

\* evaluate.
Evaluate ==
    /\ bench.pc = "offered"
    /\ LET true == FromEvents(bench.events)
           pred == FromGroups(bench.groups)
       IN  bench' = [bench EXCEPT !.pc = "scored", !.pairs = Pairwise(true, pred),
                                  !.served = Pairwise(MultiOutlet(true), MultiOutlet(pred)),
                                  !.ari = AdjustedRand(true, pred)]

BenchNext == Offer \/ Evaluate

-----------------------------------------------------------------------------
(* Properties.                                                              *)

\* The adjusted Rand index, which the code counts from the contingency table, is
\* the one the pairwise counts give: 2 (TP TN - FN FP) over
\* (TP+FN)(FN+TN) + (TP+FP)(FP+TN), and 1 where that is 0/0.
RandAgreesWithPairs ==
    LET tp  == bench.pairs[1]  fp == bench.pairs[2]  fn == bench.pairs[3]
        tn  == Comb2(Len(Scored)) - tp - fp - fn
        num == 2 * (tp * tn - fn * fp)
        den == (tp + fn) * (fn + tn) + (tp + fp) * (fp + tn)
    IN  bench.pc = "scored" =>
          IF den = 0 THEN bench.ari = <<1, 1>> ELSE bench.ari[1] * den = num * bench.ari[2]
=============================================================================
