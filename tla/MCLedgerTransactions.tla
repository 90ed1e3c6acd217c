------------------------ MODULE MCLedgerTransactions ------------------------
(* LedgerTransactions with two sessions, three holds, and a deployment that  *)
(* halves the limit under a running transaction.                             *)
EXTENDS LedgerTransactions, TLC

CONSTANTS h1, h2, h3, t1, t2

MCHolds     == {h1, h2, h3}
MCSessions  == {t1, t2}
MCSettings  == {[enabled |-> TRUE, limit |-> 2, background |-> 1],
                [enabled |-> TRUE, limit |-> 1, background |-> 0]}
Alike       == Permutations(MCHolds) \cup Permutations(MCSessions)
=============================================================================
