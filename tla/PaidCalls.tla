------------------------------ MODULE PaidCalls ------------------------------
(***************************************************************************)
(* The paid requests that run inside a coroutine of the API process:       *)
(* budgeted_message (services/paid_calls.py) for Messages calls, and the   *)
(* reserving loop of embed_texts (services/embedder.py) for embeddings.    *)
(* Both reserve a hold, contact the provider and settle the hold with the  *)
(* usage the provider reports.  Calls interleave freely at every await,    *)
(* and at every await a call may be cancelled or die with the process.     *)
(*                                                                         *)
(* The process runs with ai_cost_guard_enabled; without it none of these   *)
(* steps touches the ledger.  Every call has the id of its own hold.       *)
(***************************************************************************)
EXTENDS BudgetLedger

CONSTANTS
    Kind,       \* Kind[c]: "message" or "embedding"
    CallScope   \* CallScope[c]: the budget_scope the call runs in

ASSUME CallsAssumption ==
    /\ Kind \in [Holds -> {"message", "embedding"}]
    /\ CallScope \in [Holds -> Scopes]
    \* embed_texts reserves without naming a scope
    /\ \A c \in Holds : Kind[c] = "embedding" => CallScope[c] = "background"

VARIABLE pc     \* pc[c]: where the coroutine of call c stands

vars == <<ledgerVars, pc>>

\* idle       not started             answered  response with its usage in hand
\* reserving  awaiting admission      rejected  about to release the hold
\* calling    awaiting the provider   settling  awaiting record_usage
Working  == {"reserving", "calling", "answered", "rejected", "settling"}
\* blocked: no paid call was made; released, settled: the hold is closed;
\* held: the call ended with an error and left its hold for reconciliation.
Finished == {"blocked", "released", "settled", "held"}
Stages   == {"idle"} \cup Working \cup Finished

InitCalls == Init /\ pc = [c \in Holds |-> "idle"]

Go(c, from, to) == pc[c] = from /\ pc' = [pc EXCEPT ![c] = to]

-----------------------------------------------------------------------------
Begin(c) == Go(c, "idle", "reserving") /\ UNCHANGED ledgerVars

Admit(c) ==
    /\ Go(c, "reserving", "calling")
    /\ \E a \in Amounts : Reserve(c, CallScope[c], a)

\* The insert commits but its answer never arrives (lost connection, cancelled
\* caller): reserve_budget logs the exception and returns None.
AdmitAnswerLost(c) ==
    /\ Go(c, "reserving", "blocked")
    /\ \E a \in Amounts : Reserve(c, CallScope[c], a)

\* The function returns FALSE and the call is not made.
RefuseAdmission(c) ==
    /\ Go(c, "reserving", "blocked")
    /\ \E a \in Amounts : ~Admissible(CallScope[c], a)
    /\ UNCHANGED ledgerVars

\* Mutant of AdmissionUnavailable: without an answer the call goes out.
AdmissionFailsOpen(c) == Go(c, "reserving", "calling") /\ UNCHANGED ledgerVars

\* The admission transaction fails: closed, never open.
AdmissionUnavailable(c) ==
    /\ Go(c, "reserving", "blocked")
    /\ UNCHANGED ledgerVars

\* A response arrives.  Messages without usage end the call with the hold kept
\* (MissingUsage); otherwise the cost is logged and about to be recorded.
Respond(c) ==
    /\ verdict[c] = "billed"
    /\ Go(c, "calling", "answered")
    /\ UNCHANGED ledgerVars

\* An APIStatusError with a definitive status.  Only Messages calls look at it.
ReceiveRejection(c) ==
    /\ Kind[c] = "message" /\ verdict[c] = "refused"
    /\ Go(c, "calling", "rejected")
    /\ UNCHANGED ledgerVars

\* Mutant of Uncertain: the hold is given back as for a rejection.
UncertainReleases(c) == Go(c, "calling", "held") /\ Release(c)

\* Mutant of Uncertain: a client that waits for the provider without a timeout.
UncertainOnAnswer(c) ==
    /\ verdict[c] # "none"
    /\ Go(c, "calling", "held") /\ UNCHANGED ledgerVars

\* Any other end of the provider call: a timeout, a transport or server error,
\* a cancellation.  The request may yet be billed; its hold is retained.
Uncertain(c) == Go(c, "calling", "held") /\ UNCHANGED ledgerVars

ReleaseHold(c) == Go(c, "rejected", "released") /\ Release(c)

\* The UPDATE raises; whether or not it took effect, the exception ends the call.
ReleaseFails(c) ==
    /\ Go(c, "rejected", "held")
    /\ Release(c) \/ UNCHANGED ledgerVars

\* usage (or an int total_tokens) is missing from the response, or logging it
\* yielded no payload.
MissingUsage(c) == Go(c, "answered", "held") /\ UNCHANGED ledgerVars

RecordUsage(c) == Go(c, "answered", "settling") /\ UNCHANGED ledgerVars

SettleHold(c) == Go(c, "settling", "settled") /\ Settle(c, bill[c])

\* record_usage returns False after an exception: the transaction was rolled
\* back, or it committed and only the acknowledgement was lost.
SettleFails(c) ==
    /\ Go(c, "settling", "held")
    /\ Settle(c, bill[c]) \/ UNCHANGED ledgerVars

\* The provider decides on a request it has received - whether or not the
\* caller still waits for the answer.
Requested(c) == pc[c] \in {"calling", "held"}

ProviderBills(c) ==
    /\ Requested(c)
    /\ \E cost \in Amounts : Bill(c, cost)
    /\ UNCHANGED pc

ProviderRefuses(c) == Requested(c) /\ Refuse(c) /\ UNCHANGED pc

\* A new process takes over: its startup publishes the policy and the calls of
\* the old one die wherever they stand, keeping what they have reserved.
Redeploy(p) ==
    /\ Deploy(p)
    /\ pc' = [c \in Holds |-> IF pc[c] \in Working THEN "held" ELSE pc[c]]

CallStep(c) ==
    \/ Begin(c) \/ Admit(c) \/ AdmitAnswerLost(c) \/ RefuseAdmission(c)
    \/ AdmissionUnavailable(c) \/ Respond(c) \/ ReceiveRejection(c)
    \/ Uncertain(c) \/ ReleaseHold(c) \/ ReleaseFails(c) \/ MissingUsage(c)
    \/ RecordUsage(c) \/ SettleHold(c) \/ SettleFails(c)

ProviderStep(c) == ProviderBills(c) \/ ProviderRefuses(c)

Next ==
    \/ \E c \in Holds : CallStep(c) \/ ProviderStep(c)
    \/ \E p \in Settings : Redeploy(p)
    \/ NextDay /\ UNCHANGED pc

Spec == InitCalls /\ [][Next]_vars

\* Coroutines that can run do run and clients time out, so a started call does
\* not stay where it is.  Nothing is assumed of the provider.
FairSpec == Spec /\ \A c \in Holds : WF_vars(CallStep(c))

-----------------------------------------------------------------------------
CallsTypeOK == TypeOK /\ pc \in [Holds -> Stages]

KnowsItsHold(c) ==
    /\ pc[c] \in {"idle", "reserving"}     => status[c] = "absent"
    /\ pc[c] \in Working \ {"reserving"}   => status[c] = "open"
    /\ pc[c] = "blocked"                   => verdict[c] = "none"
    /\ pc[c] \in {"answered", "settling", "settled"} => verdict[c] = "billed"
    /\ pc[c] \in {"rejected", "released"}  => verdict[c] = "refused"
    /\ pc[c] \in {"settled", "released"}   => status[c] = "settled"

(* The provider is only ever contacted under an open hold, a call that was   *)
(* blocked is never billed, and what a call reports of its hold at its end   *)
(* is so: a response is handed on only after its cost is in the ledger       *)
(* (budgeted_message), and a hold is given back only for a refused request.  *)
CallersAgreeWithLedger == \A c \in Holds : KnowsItsHold(c)

(* The ledger's and the calls' states are well formed, and callers know what  *)
(* became of their holds.                                                     *)
CallsInv == CallsTypeOK /\ CallersAgreeWithLedger

(* A call that has started ends, although its provider may never answer and  *)
(* any transaction may fail: none is at work for ever.                       *)
CallsEnd == \A c \in Holds : []<>(pc[c] \notin Working)
=============================================================================
