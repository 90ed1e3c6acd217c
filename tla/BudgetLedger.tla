---------------------------- MODULE BudgetLedger ----------------------------
(***************************************************************************)
(* The shared AI budget as the PostgreSQL schema sees it: the policy row,  *)
(* the daily usage ledger and the table of holds, with one action for each *)
(* transaction the code runs against them.                                 *)
(*                                                                         *)
(*   reserve  sift_reserve_ai_budget       migrations/036_compare_budget   *)
(*   settle   record_usage(reservation_id) services/cost_guard.py          *)
(*   release  release_budget               services/cost_guard.py          *)
(*   deploy   the policy upsert of startup app/db.py                       *)
(*                                                                         *)
(* Each is atomic here; LedgerTransactions splits reserve and settle into  *)
(* the statements they consist of and shows the advisory lock makes them   *)
(* so.  Money is counted in whole units.  The provider is part of the      *)
(* module: what it decides about a request, and what it bills, is the      *)
(* truth the ledger has to account for.                                    *)
(*                                                                         *)
(* A definition whose comment starts with "Mutant of" is a plausible bug   *)
(* that some property has to notice; no specification uses it.             *)
(***************************************************************************)
EXTENDS Integers, FiniteSets

CONSTANTS
    Holds,        \* ids of the holds (uuid4, one per paid request)
    MaxBound,     \* bound: the largest amount one request may reserve
    LastDay,      \* bound: the last UTC day of the model
    UnreservedCap,\* bound: the usage recorded without a reservation, per day
    Settings,     \* budget settings an operator may start a process with
    Production    \* settings.environment = "production"

Scopes  == {"background", "compare"}
Days    == 0 .. LastDay
Amounts == 0 .. MaxBound
NoDay   == -1

\* limit is daily_limit_usd; background is daily_limit_usd * (1 - compare_share).
SettingsRow == [enabled : BOOLEAN, limit : Nat, background : Nat]

ASSUME LedgerAssumption ==
    /\ IsFiniteSet(Holds)
    /\ MaxBound \in Nat /\ LastDay \in Nat /\ UnreservedCap \in Nat
    /\ Production \in BOOLEAN
    /\ Settings # {} /\ Settings \subseteq SettingsRow
    /\ \A p \in Settings : p.background <= p.limit

VARIABLES
    today,       \* (NOW() AT TIME ZONE 'UTC')::date
    policy,      \* the singleton row of ai_budget_policy
    spent,       \* ai_usage_daily: spent[day][scope], summed over its other keys,
    unreserved,  \*   and its part written with no reservation to settle
    status,      \* ai_budget_holds: "absent", "open" (settled_at IS NULL), "settled"
    scope,       \*   its scope column
    remaining,   \*   its remaining_usd column
    settledOn,   \*   its settled_at column, to the day
    verdict,     \* the provider on the request of a hold
    bill         \* what the provider charges for it

holdVars   == <<status, scope, remaining, settledOn>>
worldVars  == <<verdict, bill>>
usageVars  == <<spent, unreserved>>
ledgerVars == <<today, policy, usageVars, holdVars, worldVars>>

-----------------------------------------------------------------------------
(* SUM(remaining_usd) and its like.  An amount is a column of units, so a   *)
(* sum over a set of holds is the number of units in their columns.         *)
Units(S, amount) == {u \in S \X (1 .. MaxBound) : u[2] <= amount[u[1]]}
Total(S, amount) == Cardinality(Units(S, amount))

Open             == {h \in Holds : status[h] = "open"}
OpenOf(s)        == {h \in Open : scope[h] = s}
SettledOf(d, s)  == {h \in Holds : settledOn[h] = d /\ scope[h] = s}

Held         == Total(Open, remaining)
HeldBy(s)    == Total(OpenOf(s), remaining)
Settled(d)   == spent[d]["background"] + spent[d]["compare"]
SpentOn(d)   == Settled(d) + unreserved[d]
Committed    == SpentOn(today) + Held

\* Mutant of Ceiling: no share is kept for Compare.
CeilingUnshared(s) == policy.limit

Ceiling(s) == IF s = "background" THEN policy.background ELSE policy.limit

\* An amount of 0 stands for every amount the function rejects: not positive,
\* infinite (a model or tool without a price) or NaN.
Admissible(s, a) ==
    /\ a > 0
    /\ (policy.enabled /\ policy.limit > 0) => Committed + a <= Ceiling(s)

-----------------------------------------------------------------------------
Init ==
    /\ today = 0
    /\ policy \in Settings
    /\ spent = [d \in Days |-> [s \in Scopes |-> 0]]
    /\ unreserved = [d \in Days |-> 0]
    /\ status = [h \in Holds |-> "absent"]
    /\ scope = [h \in Holds |-> "background"]
    /\ remaining = [h \in Holds |-> 0]
    /\ settledOn = [h \in Holds |-> NoDay]
    /\ verdict = [h \in Holds |-> "none"]
    /\ bill = [h \in Holds |-> 0]

\* INSERT INTO ai_budget_holds: a new id, unsettled.
InsertHold(h, s, a) ==
    /\ status[h] = "absent"
    /\ status' = [status EXCEPT ![h] = "open"]
    /\ scope' = [scope EXCEPT ![h] = s]
    /\ remaining' = [remaining EXCEPT ![h] = a]
    /\ UNCHANGED <<today, policy, usageVars, settledOn, worldVars>>

\* sift_reserve_ai_budget returning TRUE.
Reserve(h, s, a) == Admissible(s, a) /\ InsertHold(h, s, a)

\* Mutant of Book: settled_at is not set.
BookOnly(h, cost) ==
    /\ spent' = [spent EXCEPT ![today][scope[h]] = @ + cost]
    /\ remaining' = [remaining EXCEPT ![h] = 0]
    /\ UNCHANGED <<today, policy, unreserved, status, scope, settledOn, worldVars>>

\* The writes of record_usage: the ledger row and the hold.
Book(h, cost) ==
    /\ spent' = [spent EXCEPT ![today][scope[h]] = @ + cost]
    /\ status' = [status EXCEPT ![h] = "settled"]
    /\ remaining' = [remaining EXCEPT ![h] = 0]
    /\ settledOn' = [settledOn EXCEPT ![h] = today]
    /\ UNCHANGED <<today, policy, unreserved, scope, worldVars>>

\* record_usage with a reservation whose hold is still open: ledger row and hold
\* change in one transaction.  (An absent hold returns False and a settled one
\* True, and neither writes anything.)
Settle(h, cost) == status[h] = "open" /\ Book(h, cost)

\* record_usage without a reservation: an upsert of its own, no hold, no check.
RecordUnreserved(cost) ==
    /\ unreserved[today] + cost <= UnreservedCap
    /\ unreserved' = [unreserved EXCEPT ![today] = @ + cost]
    /\ UNCHANGED <<today, policy, spent, holdVars, worldVars>>

\* release_budget: an UPDATE by id that looks at nothing else.
Release(h) ==
    /\ status[h] # "absent"
    /\ status' = [status EXCEPT ![h] = "settled"]
    /\ remaining' = [remaining EXCEPT ![h] = 0]
    /\ settledOn' = [settledOn EXCEPT ![h] = today]
    /\ UNCHANGED <<today, policy, usageVars, scope, worldVars>>

\* Startup publishes the settings; only production replaces an existing row.
Deploy(p) ==
    /\ policy' = IF Production THEN p ELSE policy
    /\ UNCHANGED <<today, usageVars, holdVars, worldVars>>

NextDay ==
    /\ today < LastDay
    /\ today' = today + 1
    /\ UNCHANGED <<policy, usageVars, holdVars, worldVars>>

\* The provider accepts the request of a hold and bills it: at most the bound
\* that was reserved for it (message_bound is conservative).
Bill(h, cost) ==
    /\ status[h] = "open" /\ verdict[h] = "none"
    /\ cost <= remaining[h]
    /\ verdict' = [verdict EXCEPT ![h] = "billed"]
    /\ bill' = [bill EXCEPT ![h] = cost]
    /\ UNCHANGED <<today, policy, usageVars, holdVars>>

\* The provider turns the request down for good: nothing will be billed.
Refuse(h) ==
    /\ status[h] = "open" /\ verdict[h] = "none"
    /\ verdict' = [verdict EXCEPT ![h] = "refused"]
    /\ UNCHANGED <<today, policy, usageVars, holdVars, bill>>

\* How the callers may use the ledger: a hold is settled with what its request
\* was billed and released only when its request was turned down.
LedgerNext ==
    \/ \E h \in Holds, s \in Scopes, a \in Amounts : Reserve(h, s, a)
    \/ \E h \in Holds : verdict[h] = "billed" /\ Settle(h, bill[h])
    \/ \E c \in Amounts : RecordUnreserved(c)
    \/ \E h \in Holds : verdict[h] = "refused" /\ status[h] = "open" /\ Release(h)
    \/ \E h \in Holds, c \in Amounts : Bill(h, c)
    \/ \E h \in Holds : Refuse(h)
    \/ \E p \in Settings : Deploy(p)
    \/ NextDay

LedgerSpec == Init /\ [][LedgerNext]_ledgerVars

-----------------------------------------------------------------------------
TypeOK ==
    /\ today \in Days
    /\ policy \in Settings
    /\ spent \in [Days -> [Scopes -> Nat]]
    /\ unreserved \in [Days -> Nat]
    /\ status \in [Holds -> {"absent", "open", "settled"}]
    /\ scope \in [Holds -> Scopes]
    /\ remaining \in [Holds -> Amounts]
    /\ settledOn \in [Holds -> Days \cup {NoDay}]
    /\ verdict \in [Holds -> {"none", "refused", "billed"}]
    /\ bill \in [Holds -> Amounts]

\* The ceiling is enforced: the policy row is on and has a limit, whichever of
\* the settings is deployed.
GuardAlwaysOn == \A p \in Settings : p.enabled /\ p.limit > 0

(* What was settled today and what is still held, holds of earlier days      *)
(* included, never exceeds a daily limit the operator has configured         *)
(* (sift_reserve_ai_budget, with settlement moving money from hold to row).  *)
CeilingHolds ==
    GuardAlwaysOn => \E p \in Settings : Settled(today) + Held <= p.limit

(* Background work never eats into the share protected for Compare: what it  *)
(* spent today and still holds stays under its own ceiling, however the      *)
(* reader-requested comparisons interleave with it.                          *)
CompareShareProtected ==
    GuardAlwaysOn =>
        \E p \in Settings :
            spent[today]["background"] + HeldBy("background") <= p.background

(* The ledger is exact: a day's row for a scope is the sum of what the       *)
(* provider billed for the holds of that scope settled on that day - no cost *)
(* twice, none lost, none on another day than the hold's settled_at.         *)
LedgerIsExact ==
    \A d \in Days, s \in Scopes : spent[d][s] = Total(SettledOf(d, s), bill)

(* Every cost the provider has incurred is accounted for: a billed request   *)
(* has its hold open with enough left to pay for it, or settled.  A hold is  *)
(* never closed while its request may still be billed.                       *)
NothingUnaccounted ==
    \A h \in Holds :
        /\ status[h] = "absent"  => verdict[h] = "none"
        /\ status[h] = "open"    => bill[h] <= remaining[h]
        /\ status[h] = "settled" => verdict[h] # "none"

\* The rows of ai_budget_holds and the provider's verdicts belong together.
HoldsConsistent ==
    \A h \in Holds :
        /\ status[h] = "absent" =>
              remaining[h] = 0 /\ settledOn[h] = NoDay /\ verdict[h] = "none"
        /\ status[h] = "open" => settledOn[h] = NoDay /\ bill[h] <= remaining[h]
        /\ status[h] = "settled" =>
              remaining[h] = 0 /\ settledOn[h] \in 0 .. today /\ verdict[h] # "none"
        /\ verdict[h] # "billed" => bill[h] = 0

FutureUnspent == \A d \in Days, s \in Scopes : d > today => spent[d][s] = 0

\* The inductive invariant of BudgetLedgerProofs.
IInv ==
    /\ TypeOK /\ HoldsConsistent /\ FutureUnspent
    /\ CeilingHolds /\ CompareShareProtected /\ LedgerIsExact

(* Once a hold is settled nothing about it changes, and its cost is final.   *)
SettledIsFinal ==
    [][\A h \in Holds : status[h] = "settled" =>
          /\ status'[h] = "settled" /\ settledOn'[h] = settledOn[h]
          /\ bill'[h] = bill[h]]_ledgerVars
=============================================================================
