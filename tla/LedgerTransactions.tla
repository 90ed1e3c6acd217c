------------------------- MODULE LedgerTransactions -------------------------
(***************************************************************************)
(* The ledger's two multi-statement transactions, statement by statement,  *)
(* on concurrent database sessions.  PostgreSQL runs them READ COMMITTED:  *)
(* every statement sees what was committed when that statement began, and  *)
(* writes become visible together at commit.  Both transactions take       *)
(* pg_advisory_xact_lock(73482691) first and give it back when they end;   *)
(* release_budget, the policy upsert and usage recorded without a          *)
(* reservation take no lock.                                               *)
(*                                                                         *)
(* Two sessions may settle the same hold at once: while a deployment hands *)
(* over, the old and the new process both poll the same message batches.   *)
(*                                                                         *)
(* Assumed: a transaction does not straddle midnight UTC (its NOW() is the *)
(* time it began), so NextDay waits for open transactions.                 *)
(***************************************************************************)
EXTENDS BudgetLedger

CONSTANTS Sessions, Nobody

ASSUME SessionsAssumption == Nobody \notin Sessions \cup Holds

VARIABLES
    lock,    \* the session that holds the advisory lock, or Nobody
    stage,   \* stage[t]: the statement session t is about to run
    job,     \* job[t]: the hold, scope and amount its transaction is about
    seen     \* seen[t]: what its SELECTs returned so far

txVars == <<lock, stage, job, seen>>
vars   == <<ledgerVars, txVars>>

Stages == {"idle", "reserve", "select policy", "sum usage", "sum holds",
           "insert", "settle", "select hold", "write"}

NoJob  == [hold |-> Nobody, scope |-> "background", amount |-> 0]
NoRead == [ceiling |-> 0, capped |-> FALSE, committed |-> 0]

InitTx ==
    /\ Init
    /\ lock = Nobody
    /\ stage = [t \in Sessions |-> "idle"]
    /\ job = [t \in Sessions |-> NoJob]
    /\ seen = [t \in Sessions |-> NoRead]

At(t, here, next) == stage[t] = here /\ stage' = [stage EXCEPT ![t] = next]

\* COMMIT, ROLLBACK or a broken connection: the advisory lock is released.
End(t) ==
    /\ stage' = [stage EXCEPT ![t] = "idle"]
    /\ job' = [job EXCEPT ![t] = NoJob]
    /\ seen' = [seen EXCEPT ![t] = NoRead]
    /\ lock' = IF lock = t THEN Nobody ELSE lock

Acquire(t) == lock = Nobody /\ lock' = t

-----------------------------------------------------------------------------
(* SELECT sift_reserve_ai_budget(hold, amount, scope)                       *)

BeginReserve(t, h, s, a) ==
    /\ At(t, "idle", "reserve")
    /\ status[h] = "absent"
    /\ \A u \in Sessions : job[u].hold # h
    /\ job' = [job EXCEPT ![t] = [hold |-> h, scope |-> s, amount |-> a]]
    /\ UNCHANGED <<ledgerVars, lock, seen>>

\* Mutant of LockForReserve: admission does not lock.
ReserveUnlocked(t) ==
    At(t, "reserve", "select policy") /\ UNCHANGED <<ledgerVars, lock, job, seen>>

LockForReserve(t) ==
    /\ At(t, "reserve", "select policy")
    /\ Acquire(t)
    /\ UNCHANGED <<ledgerVars, job, seen>>

\* Reads the policy, then rejects an amount that is not a positive number.
SelectPolicy(t) ==
    /\ stage[t] = "select policy"
    /\ IF job[t].amount > 0
       THEN /\ At(t, "select policy", "sum usage")
            /\ seen' = [seen EXCEPT ![t] =
                           [ceiling   |-> Ceiling(job[t].scope),
                            capped    |-> policy.enabled /\ policy.limit > 0,
                            committed |-> 0]]
            /\ UNCHANGED <<lock, job>>
       ELSE End(t)
    /\ UNCHANGED ledgerVars

SumUsage(t) ==
    /\ At(t, "sum usage", "sum holds")
    /\ seen' = [seen EXCEPT ![t].committed = SpentOn(today)]
    /\ UNCHANGED <<ledgerVars, lock, job>>

SumHolds(t) ==
    /\ At(t, "sum holds", "insert")
    /\ seen' = [seen EXCEPT ![t].committed = @ + Held]
    /\ UNCHANGED <<ledgerVars, lock, job>>

Fits(t) == seen[t].capped => seen[t].committed + job[t].amount <= seen[t].ceiling

Admit(t) ==
    /\ stage[t] = "insert" /\ Fits(t)
    /\ InsertHold(job[t].hold, job[t].scope, job[t].amount)
    /\ End(t)

Deny(t) == stage[t] = "insert" /\ ~Fits(t) /\ End(t) /\ UNCHANGED ledgerVars

-----------------------------------------------------------------------------
(* record_usage(..., reservation_id = hold) for a request the provider      *)
(* billed; its cost travels with the call.                                  *)

BeginSettle(t, h) ==
    /\ At(t, "idle", "settle")
    /\ verdict[h] = "billed"
    /\ job' = [job EXCEPT ![t] = [NoJob EXCEPT !.hold = h, !.amount = bill[h]]]
    /\ UNCHANGED <<ledgerVars, lock, seen>>

\* Mutant of LockForSettle: only admission locks.
SettleUnlocked(t) ==
    At(t, "settle", "select hold") /\ UNCHANGED <<ledgerVars, lock, job, seen>>

LockForSettle(t) ==
    /\ At(t, "settle", "select hold")
    /\ Acquire(t)
    /\ UNCHANGED <<ledgerVars, job, seen>>

\* Mutant of SelectHold: any hold that is found is settled.
SelectHoldAgain(t) ==
    At(t, "select hold", "write") /\ UNCHANGED <<ledgerVars, lock, job, seen>>

\* A hold that is settled already ends the call with True and no write.
SelectHold(t) ==
    /\ stage[t] = "select hold"
    /\ IF status[job[t].hold] = "open"
       THEN At(t, "select hold", "write") /\ UNCHANGED <<lock, job, seen>>
       ELSE End(t)
    /\ UNCHANGED ledgerVars

\* The upsert into ai_usage_daily and the UPDATE of the hold, committed.
WriteAndCommit(t) ==
    /\ stage[t] = "write"
    /\ Book(job[t].hold, job[t].amount)
    /\ End(t)

-----------------------------------------------------------------------------
Abort(t) == stage[t] # "idle" /\ End(t) /\ UNCHANGED ledgerVars

ReserveStep(t) ==
    \/ \E h \in Holds, s \in Scopes, a \in Amounts : BeginReserve(t, h, s, a)
    \/ LockForReserve(t) \/ SelectPolicy(t) \/ SumUsage(t) \/ SumHolds(t)
    \/ Admit(t) \/ Deny(t)

SettleStep(t) ==
    \/ \E h \in Holds : BeginSettle(t, h)
    \/ LockForSettle(t) \/ SelectHold(t) \/ WriteAndCommit(t)

\* Single statements and the provider: as in BudgetLedger.
OtherStep ==
    \/ \E h \in Holds : verdict[h] = "refused" /\ status[h] = "open" /\ Release(h)
    \/ \E h \in Holds, c \in Amounts : Bill(h, c)
    \/ \E h \in Holds : Refuse(h)
    \/ \E c \in Amounts : RecordUnreserved(c)
    \/ \E p \in Settings : Deploy(p)
    \/ (\A t \in Sessions : stage[t] = "idle") /\ NextDay

Next ==
    \/ \E t \in Sessions : ReserveStep(t) \/ SettleStep(t) \/ Abort(t)
    \/ OtherStep /\ UNCHANGED txVars

Spec == InitTx /\ [][Next]_vars

-----------------------------------------------------------------------------
TxTypeOK ==
    /\ TypeOK
    /\ lock \in Sessions \cup {Nobody}
    /\ stage \in [Sessions -> Stages]
    /\ job \in [Sessions -> [hold : Holds \cup {Nobody}, scope : Scopes,
                             amount : Amounts]]
    /\ seen \in [Sessions -> [ceiling : Nat, capped : BOOLEAN, committed : Nat]]

Reserving(t) == stage[t] \in {"reserve", "select policy", "sum usage", "sum holds", "insert"}
Settling(t)  == stage[t] \in {"settle", "select hold", "write"}
Locking(t)   == stage[t] \notin {"idle", "reserve", "settle"}

\* What t has read is the ceiling policy p grants its scope.
ReadFrom(t, p) ==
    /\ seen[t].capped = (p.enabled /\ p.limit > 0)
    /\ seen[t].ceiling = IF job[t].scope = "background" THEN p.background ELSE p.limit

SessionConsistent(t) ==
    /\ Locking(t) => lock = t
    /\ stage[t] # "idle" => job[t].hold \in Holds
    /\ Reserving(t) => status[job[t].hold] = "absent"
    /\ Settling(t) => verdict[job[t].hold] = "billed" /\ job[t].amount = bill[job[t].hold]
    /\ stage[t] = "write" => status[job[t].hold] = "open"
    /\ stage[t] \in {"sum usage", "sum holds", "insert"} =>
          job[t].amount > 0 /\ \E p \in Settings : ReadFrom(t, p)

(* A transaction reads and writes only under the lock, a hold being inserted  *)
(* is new and nobody else's, and one about to be written was found open,      *)
(* billed at the cost the call carries, and is still so.                      *)
SessionsConsistent ==
    /\ \A t \in Sessions : SessionConsistent(t)
    /\ \A t, u \in Sessions :
          Reserving(t) /\ Reserving(u) /\ job[t].hold = job[u].hold => t = u

(* What a reservation has read still bounds what is settled and held when it *)
(* inserts: of the writers in between only release, which frees money, and   *)
(* usage recorded without a reservation go past the lock.                    *)
ReadsStayValid ==
    \A t \in Sessions :
        /\ stage[t] = "sum holds" => Settled(today) <= seen[t].committed
        /\ stage[t] = "insert" => Settled(today) + Held <= seen[t].committed

(* The sessions are well formed, and a reservation is decided on what is so.  *)
TxInv == TxTypeOK /\ SessionsConsistent /\ ReadsStayValid

AdmittedAsRead(t) ==
    /\ stage[t] = "insert"
    /\ InsertHold(job[t].hold, job[t].scope, job[t].amount)
    /\ seen[t].capped => Settled(today) + Held + job[t].amount <= seen[t].ceiling

(* The interleaved transactions implement the atomic ledger, but for one      *)
(* step: between a reservation's reads and its insertion a deployment may     *)
(* publish a policy and usage without a reservation may be recorded, neither  *)
(* of which takes the lock.  The insertion then fits the policy it read.      *)
LedgerUpToPolicy ==
    Init /\ [][LedgerNext \/ \E t \in Sessions : AdmittedAsRead(t)]_ledgerVars
=============================================================================
