---------------------------- MODULE MCThreading ----------------------------
(* Threading on articles of two outlets. *)
EXTENDS Threading, TLC

CONSTANTS x1, x2, x3, y1, y2, r1, r2

Two   == {x1, y1}
Three == {x1, x2, y1}
MCOutlet == [a \in {x1, x2, x3, y1, y2} |-> IF a \in {y1, y2} THEN "Y" ELSE "X"]
OneRun  == {r1}
TwoRuns == {r1, r2}
Alike == Permutations({x1, x2, x3}) \cup Permutations({y1, y2})
=============================================================================
