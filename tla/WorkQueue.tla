------------------------------ MODULE WorkQueue ------------------------------
(***************************************************************************)
(* What threading promises its articles: the queue is the items that have  *)
(* arrived and are not marked.  An item leaves it only after a decision    *)
(* about it was reached, and for good; whatever runs, failures and crashes *)
(* do in between, an item that was not decided is found again.             *)
(***************************************************************************)
CONSTANT Items

VARIABLES
    arrived,   \* eligible items
    decided,   \* items somebody has reached a decision on
    marked     \* items that are out of the queue

queueVars == <<arrived, decided, marked>>

InitQueue == arrived = {} /\ decided = {} /\ marked = {}

Arrive ==
    \E i \in Items \ arrived : arrived' = arrived \cup {i} /\ UNCHANGED <<decided, marked>>

\* A decision may settle items besides the one it was asked about, and some that
\* have not arrived yet.
Conclude ==
    \E S \in SUBSET Items : decided' = decided \cup S /\ UNCHANGED <<arrived, marked>>

\* A run marks what it took from the queue and was decided, by it or another.
Mark ==
    \E S \in SUBSET (arrived \cap decided) : marked' = marked \cup S /\ UNCHANGED <<arrived, decided>>

QueueNext == Arrive \/ Conclude \/ Mark

QueueSpec == InitQueue /\ [][QueueNext]_queueVars
=============================================================================
