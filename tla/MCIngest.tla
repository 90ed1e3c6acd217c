------------------------------ MODULE MCIngest ------------------------------
(* Ingest on two articles, which may carry one text, and one run at a time. *)
EXTENDS Ingest, TLC

CONSTANTS a1, a2, AP, own, r1

MCUrls  == {a1, a2}
MCTexts == {AP, own}
MCRuns  == {r1}

Symmetry == Permutations(MCUrls) \cup Permutations(MCTexts)
=============================================================================
