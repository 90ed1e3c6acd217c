--------------------------- MODULE PaidCallsProofs ---------------------------
(***************************************************************************)
(* Theorems about PaidCalls: calls that interleave, fail and die at every  *)
(* await use the ledger only as BudgetLedger allows, and know what became  *)
(* of their holds.                                                         *)
(***************************************************************************)
EXTENDS PaidCalls, BudgetLedgerProofs

CallersInv == pc \in [Holds -> Stages] /\ CallersAgreeWithLedger

\* Nobody has called.
LEMMA InitCallers == InitCalls => CallersInv
BY DEF InitCalls, Init, CallersInv, CallersAgreeWithLedger, KnowsItsHold, Stages, Working, Finished

\* What a call does to the ledger is a step of the ledger: it releases only the
\* open hold of a refused request and settles only that of a billed one.
LEMMA CallIsLedgerStep ==
  ASSUME TypeOK, CallersInv, NEW c \in Holds, CallStep(c) \/ ProviderStep(c)
  PROVE  [LedgerNext]_ledgerVars
<1> USE DEF Go
<1>1. CASE Begin(c) \/ RefuseAdmission(c) \/ AdmissionUnavailable(c) \/ Respond(c)
           \/ ReceiveRejection(c) \/ Uncertain(c) \/ MissingUsage(c) \/ RecordUsage(c)
  BY <1>1 DEF Begin, RefuseAdmission, AdmissionUnavailable, Respond, ReceiveRejection,
              Uncertain, MissingUsage, RecordUsage
<1>2. CASE Admit(c) \/ AdmitAnswerLost(c)
  BY <1>2, CallsAssumption DEF Admit, AdmitAnswerLost, LedgerNext
<1>3. CASE ReleaseHold(c) \/ ReleaseFails(c)
  <2>1. status[c] = "open" /\ verdict[c] = "refused"
    BY <1>3 DEF ReleaseHold, ReleaseFails, CallersInv, CallersAgreeWithLedger, KnowsItsHold, Working
  <2> QED
    BY <1>3, <2>1 DEF ReleaseHold, ReleaseFails, LedgerNext
<1>4. CASE SettleHold(c) \/ SettleFails(c)
  <2>1. verdict[c] = "billed"
    BY <1>4 DEF SettleHold, SettleFails, CallersInv, CallersAgreeWithLedger, KnowsItsHold
  <2> QED
    BY <1>4, <2>1 DEF SettleHold, SettleFails, LedgerNext
<1>5. CASE ProviderStep(c)
  BY <1>5 DEF ProviderStep, ProviderBills, ProviderRefuses, LedgerNext
<1> QED
  BY <1>1, <1>2, <1>3, <1>4, <1>5 DEF CallStep

\* Every await is a step of the ledger or none.
LEMMA NextIsLedgerStep ==
  ASSUME TypeOK, CallersInv, [Next]_vars
  PROVE  [LedgerNext]_ledgerVars
<1>1. CASE \E c \in Holds : CallStep(c) \/ ProviderStep(c)
  BY <1>1, CallIsLedgerStep
<1>2. CASE \E p \in Settings : Redeploy(p)
  BY <1>2 DEF Redeploy, LedgerNext
<1>3. CASE NextDay \/ UNCHANGED vars
  BY <1>3 DEF vars, LedgerNext
<1> QED
  BY <1>1, <1>2, <1>3 DEF Next

-----------------------------------------------------------------------------
(* The callers' invariant.                                                   *)

\* A step that moves one call on, and changes at most its hold.
LEMMA OneCallMoves ==
  ASSUME TypeOK, CallersInv, NEW c \in Holds, NEW to \in Stages,
         pc' = [pc EXCEPT ![c] = to],
         \A d \in Holds \ {c} : status'[d] = status[d] /\ verdict'[d] = verdict[d],
         KnowsItsHold(c)'
  PROVE  CallersInv'
<1>1. pc' \in [Holds -> Stages]
  BY DEF CallersInv
<1>2. ASSUME NEW d \in Holds \ {c} PROVE KnowsItsHold(d)'
  <2>1. pc'[d] = pc[d]
    BY DEF CallersInv
  <2> QED
    BY <2>1 DEF CallersInv, CallersAgreeWithLedger, KnowsItsHold
<1> QED
  BY <1>1, <1>2 DEF CallersInv, CallersAgreeWithLedger

\* A step of one call keeps what its stage says of its hold.
LEMMA CallKeepsCallers ==
  ASSUME TypeOK, HoldsConsistent, CallersInv,
         NEW c \in Holds, CallStep(c) \/ ProviderStep(c)
  PROVE  CallersInv'
<1>0. KnowsItsHold(c) /\ pc \in [Holds -> Stages]
  BY DEF CallersInv, CallersAgreeWithLedger
<1>1. CASE Begin(c)
  BY <1>0, <1>1, OneCallMoves
     DEF Begin, Go, KnowsItsHold, Stages, Working, Finished, ledgerVars, holdVars, worldVars
<1>2. CASE RefuseAdmission(c) \/ AdmissionUnavailable(c)
  <2>1. Go(c, "reserving", "blocked") /\ UNCHANGED <<status, verdict>>
    BY <1>2 DEF RefuseAdmission, AdmissionUnavailable, ledgerVars, holdVars, worldVars
  <2>2. verdict[c] = "none"
    BY <1>0, <2>1 DEF Go, KnowsItsHold, HoldsConsistent
  <2> QED
    BY <1>0, <2>1, <2>2, OneCallMoves DEF Go, KnowsItsHold, Stages, Working, Finished
<1>3. CASE Respond(c) \/ ReceiveRejection(c) \/ Uncertain(c) \/ MissingUsage(c) \/ RecordUsage(c)
  BY <1>0, <1>3, OneCallMoves
     DEF Respond, ReceiveRejection, Uncertain, MissingUsage, RecordUsage, Go, KnowsItsHold,
         Stages, Working, Finished, ledgerVars, holdVars, worldVars
<1>4. CASE Admit(c) \/ AdmitAnswerLost(c)
  <2>1. PICK to \in {"calling", "blocked"} : Go(c, "reserving", to)
    BY <1>4 DEF Admit, AdmitAnswerLost
  <2>2. /\ status[c] = "absent" /\ verdict[c] = "none"
        /\ status' = [status EXCEPT ![c] = "open"] /\ verdict' = verdict
    BY <1>4 DEF HoldsConsistent, Admit, AdmitAnswerLost, Reserve, InsertHold, worldVars
  <2>3. status'[c] = "open" /\ \A d \in Holds \ {c} : status'[d] = status[d]
    BY <2>2 DEF TypeOK
  <2> QED
    BY <1>0, <2>1, <2>2, <2>3, OneCallMoves DEF Go, KnowsItsHold, Stages, Working, Finished
<1>5. CASE ReleaseHold(c) \/ ReleaseFails(c)
  <2>1. /\ verdict' = verdict /\ \A d \in Holds \ {c} : status'[d] = status[d]
        /\ ReleaseHold(c) => status'[c] = "settled"
    BY <1>5 DEF TypeOK, ReleaseHold, ReleaseFails, Release, ledgerVars, holdVars, worldVars
  <2> QED
    BY <1>0, <1>5, <2>1, OneCallMoves
       DEF ReleaseHold, ReleaseFails, Go, KnowsItsHold, Stages, Working, Finished
<1>6. CASE SettleHold(c) \/ SettleFails(c)
  <2>1. /\ verdict' = verdict /\ \A d \in Holds \ {c} : status'[d] = status[d]
        /\ SettleHold(c) => status'[c] = "settled"
    BY <1>6 DEF TypeOK, SettleHold, SettleFails, Settle, Book, ledgerVars, holdVars, worldVars
  <2> QED
    BY <1>0, <1>6, <2>1, OneCallMoves
       DEF SettleHold, SettleFails, Go, KnowsItsHold, Stages, Working, Finished
<1>7. CASE ProviderStep(c)
  <2>1. /\ pc' = pc /\ status' = status /\ pc[c] \in {"calling", "held"}
        /\ \A d \in Holds \ {c} : verdict'[d] = verdict[d]
    BY <1>7 DEF TypeOK, ProviderStep, ProviderBills, ProviderRefuses, Requested, Bill, Refuse, holdVars
  <2> QED
    BY <1>0, <2>1 DEF CallersInv, CallersAgreeWithLedger, KnowsItsHold
<1> QED
  BY <1>1, <1>2, <1>3, <1>4, <1>5, <1>6, <1>7 DEF CallStep

\* And what callers know of their holds stays true.
LEMMA NextKeepsCallers ==
  ASSUME TypeOK, HoldsConsistent, CallersInv, [Next]_vars
  PROVE  CallersInv'
<1>1. CASE \E c \in Holds : CallStep(c) \/ ProviderStep(c)
  BY <1>1, CallKeepsCallers
<1>2. CASE \E p \in Settings : Redeploy(p)
  BY <1>2 DEF Redeploy, Deploy, holdVars, worldVars, CallersInv, CallersAgreeWithLedger,
              KnowsItsHold, Stages, Working, Finished
<1>3. CASE (NextDay /\ UNCHANGED pc) \/ UNCHANGED vars
  BY <1>3 DEF NextDay, vars, ledgerVars, holdVars, worldVars, CallersInv,
              CallersAgreeWithLedger, KnowsItsHold
<1> QED
  BY <1>1, <1>2, <1>3 DEF Next

\* The inductive invariant: the ledger's own, and what each call knows of its hold.
LEMMA CallsSafe == Spec => [](IInv /\ CallersInv)
<1>1. InitCalls => IInv /\ CallersInv
  BY InitIInv, InitCallers DEF InitCalls
<1>2. IInv /\ CallersInv /\ [Next]_vars => (IInv /\ CallersInv)'
  <2> SUFFICES ASSUME IInv, CallersInv, [Next]_vars
               PROVE  IInv' /\ CallersInv'
    OBVIOUS
  <2>1. TypeOK /\ HoldsConsistent
    BY DEF IInv
  <2>2. IInv'
    BY <2>1, NextIsLedgerStep, LedgerStepKeepsIInv
  <2>3. CallersInv'
    BY <2>1, NextKeepsCallers
  <2> QED
    BY <2>2, <2>3
<1> QED
  BY <1>1, <1>2, PTL DEF Spec

-----------------------------------------------------------------------------
(* Theorems.                                                                *)

\* A call reaches the provider only under an open hold, hands a response on only
\* when its cost is recorded, and gives a hold back only when its request was
\* refused, whatever fails at its awaits and however often the process is replaced.
THEOREM CallersKnowTheirHolds == Spec => []CallsInv
<1>1. IInv /\ CallersInv => CallsInv
  BY DEF IInv, CallersInv, CallsInv, CallsTypeOK
<1> QED
  BY <1>1, CallsSafe, PTL

\* PaidCalls implements BudgetLedger: every await of budgeted_message and of
\* embed_texts is a step of the ledger or leaves it alone.
THEOREM CallsUseLedgerAsSpecified == Spec => LedgerSpec
<1>1. InitCalls => Init
  BY DEF InitCalls
<1>2. IInv /\ CallersInv /\ [Next]_vars => [LedgerNext]_ledgerVars
  BY NextIsLedgerStep DEF IInv
<1> QED
  BY <1>1, <1>2, CallsSafe, PTL DEF Spec, LedgerSpec

\* What the ledger guarantees therefore holds of the calls: they stay within the
\* ceilings, and every cost of theirs is in the ledger once.
THEOREM CallsStayInBudget ==
  Spec => [](CeilingHolds /\ CompareShareProtected /\ LedgerIsExact /\ NothingUnaccounted)
<1>1. IInv => CeilingHolds /\ CompareShareProtected /\ LedgerIsExact /\ NothingUnaccounted
  BY DEF IInv, HoldsConsistent, NothingUnaccounted
<1> QED
  BY <1>1, CallsSafe, PTL
=============================================================================
