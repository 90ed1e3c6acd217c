----------------------------- MODULE MCPaidCalls -----------------------------
(* PaidCalls on three calls: background and Compare Messages calls and one  *)
(* embedding, competing for a budget two of them can exhaust.               *)
EXTENDS PaidCalls

CONSTANTS summarize, search, embed

MCHolds     == {summarize, search, embed}
MCKind      == [c \in Holds |-> IF c = embed THEN "embedding" ELSE "message"]
MCCallScope == [c \in Holds |-> IF c = search THEN "compare" ELSE "background"]
MCSettings  == {[enabled |-> TRUE, limit |-> 4, background |-> 3],
                [enabled |-> TRUE, limit |-> 2, background |-> 1]}
=============================================================================
