----------------------- MODULE LedgerTransactionsProofs -----------------------
(***************************************************************************)
(* Theorems about LedgerTransactions: the statements of any number of      *)
(* concurrent sessions keep the ledger's invariant, and add up to steps of *)
(* the atomic ledger but for a policy published under an admission.        *)
(***************************************************************************)
EXTENDS LedgerTransactions, BudgetLedgerProofs

TxIInv == IInv /\ TxInv

-----------------------------------------------------------------------------
(* The steps seen from the ledger.                                          *)

\* What was read still bounds the ledger when the hold is inserted.
LEMMA AdmitIsAsRead ==
  ASSUME TxIInv, NEW t \in Sessions, Admit(t)
  PROVE  AdmittedAsRead(t)
<1>1. /\ stage[t] = "insert" /\ InsertHold(job[t].hold, job[t].scope, job[t].amount)
      /\ seen[t].capped => seen[t].committed + job[t].amount <= seen[t].ceiling
  BY DEF Admit, Fits
<1>2. TypeOK /\ Settled(today) + Held <= seen[t].committed
  BY <1>1 DEF TxIInv, TxInv, TxTypeOK, ReadsStayValid
<1>3. seen[t].committed \in Nat /\ seen[t].ceiling \in Nat /\ job[t].amount \in Nat
  BY LedgerAssumption DEF TxIInv, TxInv, TxTypeOK, Amounts
<1>4. Settled(today) \in Nat /\ Held \in Nat
  BY <1>2, SumsType
<1> QED
  BY <1>1, <1>2, <1>3, <1>4 DEF AdmittedAsRead

\* Every statement is a step of the ledger, an admission as it was read, or none.
LEMMA NextIsLedgerStep ==
  ASSUME TxIInv, [Next]_vars
  PROVE  [LedgerNext]_ledgerVars \/ \E t \in Sessions : AdmittedAsRead(t)
<1>1. ASSUME NEW t \in Sessions, ReserveStep(t) \/ Abort(t)
      PROVE  UNCHANGED ledgerVars \/ AdmittedAsRead(t)
  BY <1>1, AdmitIsAsRead
     DEF ReserveStep, BeginReserve, LockForReserve, SelectPolicy, SumUsage, SumHolds, Deny, Abort
<1>2. ASSUME NEW t \in Sessions, SettleStep(t) PROVE [LedgerNext]_ledgerVars
  <2>1. CASE WriteAndCommit(t)
    <3>1. /\ stage[t] = "write" /\ Book(job[t].hold, job[t].amount)
      BY <2>1 DEF WriteAndCommit
    <3>2. /\ job[t].hold \in Holds /\ verdict[job[t].hold] = "billed"
          /\ job[t].amount = bill[job[t].hold] /\ status[job[t].hold] = "open"
      BY <3>1 DEF TxIInv, TxInv, SessionsConsistent, SessionConsistent, Settling
    <3> QED
      BY <3>1, <3>2 DEF Settle, LedgerNext
  <2> QED
    BY <1>2, <2>1 DEF SettleStep, BeginSettle, LockForSettle, SelectHold
<1>3. CASE OtherStep
  BY <1>3 DEF OtherStep, LedgerNext
<1> QED
  BY <1>1, <1>2, <1>3 DEF Next, vars

\* An admission against a policy that has been replaced meanwhile stays under the
\* ceiling of the one it read.
LEMMA AdmissionKeepsIInv ==
  ASSUME TxIInv, NEW t \in Sessions, AdmittedAsRead(t)
  PROVE  IInv'
<1>1. PICK p \in Settings : ReadFrom(t, p)
  BY DEF AdmittedAsRead, TxIInv, TxInv, SessionsConsistent, SessionConsistent
<1>2. job[t].hold \in Holds /\ job[t].scope \in Scopes /\ job[t].amount \in Amounts
  BY DEF AdmittedAsRead, TxIInv, TxInv, TxTypeOK, SessionsConsistent, SessionConsistent
<1>3. GuardAlwaysOn => Settled(today) + Held + job[t].amount
                          <= IF job[t].scope = "background" THEN p.background ELSE p.limit
  BY <1>1 DEF AdmittedAsRead, ReadFrom, GuardAlwaysOn
<1> QED
  BY <1>2, <1>3, InsertKeepsIInv DEF AdmittedAsRead, TxIInv

\* So the ledger's invariant survives it.
LEMMA StepKeepsIInv ==
  ASSUME TxIInv, [Next]_vars
  PROVE  IInv'
BY NextIsLedgerStep, LedgerStepKeepsIInv, AdmissionKeepsIInv DEF TxIInv

-----------------------------------------------------------------------------
(* The sessions' part of the invariant.                                     *)

\* A step of one session, as the others see it.
LEMMA OneSessionMoves ==
  ASSUME SessionsConsistent, NEW t \in Sessions,
         \A u \in Sessions \ {t} :
             /\ stage'[u] = stage[u] /\ job'[u] = job[u] /\ seen'[u] = seen[u]
             /\ lock = u => lock' = u
             /\ Reserving(u) => status'[job[u].hold] = "absent"
             /\ Settling(u) => /\ verdict'[job[u].hold] = "billed"
                               /\ bill'[job[u].hold] = bill[job[u].hold]
             /\ stage[u] = "write" => status'[job[u].hold] = "open"
             /\ Reserving(u) /\ Reserving(t)' => job[u].hold # job'[t].hold,
         SessionConsistent(t)'
  PROVE  SessionsConsistent'
<1>1. ASSUME NEW u \in Sessions \ {t} PROVE SessionConsistent(u)' /\ (Reserving(u)' <=> Reserving(u))
  <2>1. SessionConsistent(u)
    BY DEF SessionsConsistent
  <2>2. (Reserving(u)' <=> Reserving(u)) /\ (Settling(u)' <=> Settling(u)) /\ (Locking(u)' <=> Locking(u))
    BY DEF Reserving, Settling, Locking
  <2>3. (\E p \in Settings : ReadFrom(u, p)) => (\E p \in Settings : ReadFrom(u, p))'
    BY DEF ReadFrom
  <2>4. (Locking(u) => lock = u)' /\ (stage[u] # "idle" => job[u].hold \in Holds)'
    BY <2>1, <2>2 DEF SessionConsistent
  <2>5. (Reserving(u) => status[job[u].hold] = "absent")'
    BY <2>1, <2>2 DEF SessionConsistent
  <2>6. (Settling(u) => verdict[job[u].hold] = "billed" /\ job[u].amount = bill[job[u].hold])'
    BY <2>1, <2>2 DEF SessionConsistent
  <2>7. (stage[u] = "write" => status[job[u].hold] = "open")'
    BY <2>1, <2>2 DEF SessionConsistent
  <2>8. (stage[u] \in {"sum usage", "sum holds", "insert"} =>
          job[u].amount > 0 /\ \E p \in Settings : ReadFrom(u, p))'
    BY <2>1, <2>2, <2>3 DEF SessionConsistent
  <2> QED
    BY <2>2, <2>4, <2>5, <2>6, <2>7, <2>8 DEF SessionConsistent
<1> QED
  BY <1>1 DEF SessionsConsistent

\* The end of a transaction.
LEMMA EndKeepsSession ==
  ASSUME TxTypeOK, NEW t \in Sessions, End(t)
  PROVE  /\ SessionConsistent(t)' /\ ~Reserving(t)' /\ stage'[t] = "idle"
         /\ \A u \in Sessions \ {t} :
               stage'[u] = stage[u] /\ job'[u] = job[u] /\ seen'[u] = seen[u] /\ (lock = u => lock' = u)
         /\ stage' \in [Sessions -> Stages] /\ lock' \in Sessions \cup {Nobody}
         /\ job' \in [Sessions -> [hold : Holds \cup {Nobody}, scope : Scopes, amount : Amounts]]
         /\ seen' \in [Sessions -> [ceiling : Nat, capped : BOOLEAN, committed : Nat]]
<1>1. /\ NoJob \in [hold : Holds \cup {Nobody}, scope : Scopes, amount : Amounts]
      /\ NoRead \in [ceiling : Nat, capped : BOOLEAN, committed : Nat]
      /\ "idle" \in Stages
  BY LedgerAssumption DEF NoJob, NoRead, Scopes, Amounts, Stages
<1>2. stage'[t] = "idle"
  BY DEF TxTypeOK, End
<1>3. SessionConsistent(t)' /\ ~Reserving(t)'
  BY <1>2 DEF SessionConsistent, Reserving, Settling, Locking
<1> QED
  BY <1>1, <1>2, <1>3 DEF TxTypeOK, End

\* A statement that writes nothing concerns its own session only.
LEMMA QuietStep ==
  ASSUME SessionsConsistent, NEW t \in Sessions, UNCHANGED ledgerVars,
         \A u \in Sessions \ {t} :
             /\ stage'[u] = stage[u] /\ job'[u] = job[u] /\ seen'[u] = seen[u]
             /\ lock = u => lock' = u
             /\ Reserving(u) /\ Reserving(t)' => job[u].hold # job'[t].hold,
         SessionConsistent(t)'
  PROVE  SessionsConsistent'
<1>1. UNCHANGED <<status, verdict, bill>>
  BY DEF ledgerVars, holdVars, worldVars
<1>2. \A u \in Sessions : SessionConsistent(u)
  BY DEF SessionsConsistent
<1>3. \A u \in Sessions \ {t} :
         /\ Reserving(u) => status'[job[u].hold] = "absent"
         /\ Settling(u) => /\ verdict'[job[u].hold] = "billed"
                           /\ bill'[job[u].hold] = bill[job[u].hold]
         /\ stage[u] = "write" => status'[job[u].hold] = "open"
  BY <1>1, <1>2 DEF SessionConsistent
<1> QED
  BY <1>3, OneSessionMoves

\* What is settled and held stands still while the ledger does.
LEMMA SumsFrame ==
  ASSUME UNCHANGED ledgerVars
  PROVE  Settled(today)' = Settled(today) /\ Held' = Held /\ SpentOn(today)' = SpentOn(today)
<1>1. Open' = Open
  BY DEF ledgerVars, holdVars, Open
<1> QED
  BY <1>1 DEF ledgerVars, usageVars, holdVars, Settled, SpentOn, Held

\* The lock keeps every other reader out while one session writes.
LEMMA ReadsFrame ==
  ASSUME SessionsConsistent, ReadsStayValid, NEW t \in Sessions,
         \A u \in Sessions \ {t} : stage'[u] = stage[u] /\ seen'[u] = seen[u],
         UNCHANGED ledgerVars \/ lock = t,
         (stage[t] = "sum holds" => Settled(today) <= seen[t].committed)',
         (stage[t] = "insert" => Settled(today) + Held <= seen[t].committed)'
  PROVE  ReadsStayValid'
<1>1. ASSUME NEW u \in Sessions \ {t}
      PROVE  /\ (stage[u] = "sum holds" => Settled(today) <= seen[u].committed)'
             /\ (stage[u] = "insert" => Settled(today) + Held <= seen[u].committed)'
  <2>1. stage[u] \in {"sum holds", "insert"} => lock = u
    BY DEF SessionsConsistent, SessionConsistent, Locking
  <2>2. CASE UNCHANGED ledgerVars
    BY <2>2, SumsFrame DEF ReadsStayValid
  <2>3. CASE lock = t
    BY <2>1, <2>3
  <2> QED
    BY <2>2, <2>3
<1> QED
  BY <1>1 DEF ReadsStayValid

SessionTypes ==
    /\ lock \in Sessions \cup {Nobody}
    /\ stage \in [Sessions -> Stages]
    /\ job \in [Sessions -> [hold : Holds \cup {Nobody}, scope : Scopes, amount : Amounts]]
    /\ seen \in [Sessions -> [ceiling : Nat, capped : BOOLEAN, committed : Nat]]

\* A transaction that ends without a write.
LEMMA QuietEnd ==
  ASSUME TxIInv, NEW t \in Sessions, End(t), UNCHANGED ledgerVars
  PROVE  SessionTypes' /\ SessionsConsistent' /\ ReadsStayValid'
<1>0. TxTypeOK /\ SessionsConsistent /\ ReadsStayValid
  BY DEF TxIInv, TxInv
<1>1. SessionTypes'
  BY <1>0, EndKeepsSession DEF SessionTypes
<1>2. /\ SessionConsistent(t)' /\ ~Reserving(t)' /\ stage'[t] = "idle"
      /\ \A u \in Sessions \ {t} :
            stage'[u] = stage[u] /\ job'[u] = job[u] /\ seen'[u] = seen[u] /\ (lock = u => lock' = u)
  BY <1>0, EndKeepsSession
<1>3. SessionsConsistent'
  BY <1>0, <1>2, QuietStep
<1>4. ReadsStayValid'
  BY <1>0, <1>2, ReadsFrame
<1> QED
  BY <1>1, <1>3, <1>4

\* The statements of an admission before it inserts.
LEMMA ReserveKeepsSessions ==
  ASSUME TxIInv, NEW t \in Sessions, ReserveStep(t), ~Admit(t)
  PROVE  SessionTypes' /\ SessionsConsistent' /\ ReadsStayValid'
<1>0. /\ TxTypeOK /\ SessionTypes /\ SessionsConsistent /\ ReadsStayValid /\ TypeOK
      /\ \A u \in Sessions : SessionConsistent(u)
      /\ \A u \in Sessions \ {t} : Reserving(u) /\ Reserving(t) => job[u].hold # job[t].hold
  BY DEF TxIInv, TxInv, TxTypeOK, SessionsConsistent, SessionTypes
<1>1. ASSUME NEW h \in Holds, NEW s \in Scopes, NEW a \in Amounts, BeginReserve(t, h, s, a)
      PROVE  SessionTypes' /\ SessionsConsistent' /\ ReadsStayValid'
  <2>1. /\ stage' = [stage EXCEPT ![t] = "reserve"] /\ UNCHANGED <<ledgerVars, lock, seen>>
        /\ job' = [job EXCEPT ![t] = [hold |-> h, scope |-> s, amount |-> a]]
        /\ status[h] = "absent" /\ \A u \in Sessions : job[u].hold # h
    BY <1>1 DEF BeginReserve, At
  <2>2. SessionTypes'
    BY <1>0, <2>1 DEF SessionTypes, Stages
  <2>3. stage'[t] = "reserve" /\ job'[t].hold = h /\ status' = status
    BY <1>0, <2>1 DEF SessionTypes, ledgerVars, holdVars
  <2>4. SessionConsistent(t)'
    BY <2>1, <2>3 DEF SessionConsistent, Reserving, Settling, Locking
  <2>5. SessionsConsistent'
    BY <1>0, <2>1, <2>3, <2>4, QuietStep DEF SessionTypes
  <2>6. ReadsStayValid'
    BY <1>0, <2>1, <2>3, ReadsFrame DEF SessionTypes
  <2> QED
    BY <2>2, <2>5, <2>6
<1>2. CASE LockForReserve(t)
  <2>1. /\ stage[t] = "reserve" /\ stage' = [stage EXCEPT ![t] = "select policy"]
        /\ lock = Nobody /\ lock' = t /\ UNCHANGED <<ledgerVars, job, seen>>
    BY <1>2 DEF LockForReserve, At, Acquire
  <2>2. SessionTypes'
    BY <1>0, <2>1 DEF SessionTypes, Stages
  <2>3. stage'[t] = "select policy" /\ status' = status
    BY <1>0, <2>1 DEF SessionTypes, ledgerVars, holdVars
  <2>4. SessionConsistent(t)' /\ Reserving(t)
    BY <1>0, <2>1, <2>3 DEF SessionConsistent, Reserving, Settling, Locking
  <2>5. SessionsConsistent'
    BY <1>0, <2>1, <2>3, <2>4, QuietStep, SessionsAssumption DEF SessionTypes
  <2>6. ReadsStayValid'
    BY <1>0, <2>1, <2>3, ReadsFrame DEF SessionTypes
  <2> QED
    BY <2>2, <2>5, <2>6
<1>3. CASE Deny(t) \/ (SelectPolicy(t) /\ End(t))
  BY <1>3, QuietEnd DEF Deny, SelectPolicy
<1>4. CASE SelectPolicy(t) /\ ~End(t)
  <2>1. /\ stage[t] = "select policy" /\ stage' = [stage EXCEPT ![t] = "sum usage"]
        /\ job[t].amount > 0 /\ UNCHANGED <<ledgerVars, lock, job>>
        /\ seen' = [seen EXCEPT ![t] = [ceiling   |-> Ceiling(job[t].scope),
                                        capped    |-> policy.enabled /\ policy.limit > 0,
                                        committed |-> 0]]
    BY <1>4 DEF SelectPolicy, At
  <2>2. policy \in Settings /\ policy.limit \in Nat /\ policy.background \in Nat /\ policy.enabled \in BOOLEAN
    BY <1>0, LedgerAssumption DEF TypeOK, SettingsRow
  <2>3. SessionTypes'
    BY <1>0, <2>1, <2>2 DEF SessionTypes, Stages, Ceiling
  <2>4. stage'[t] = "sum usage" /\ status' = status /\ ReadFrom(t, policy)' /\ policy' = policy
    BY <1>0, <2>1 DEF SessionTypes, ledgerVars, holdVars, ReadFrom, Ceiling
  <2>5. SessionConsistent(t)' /\ Reserving(t)
    BY <1>0, <2>1, <2>2, <2>4 DEF SessionConsistent, Reserving, Settling, Locking
  <2>6. SessionsConsistent'
    BY <1>0, <2>1, <2>4, <2>5, QuietStep DEF SessionTypes
  <2>7. ReadsStayValid'
    BY <1>0, <2>1, <2>4, ReadsFrame DEF SessionTypes
  <2> QED
    BY <2>3, <2>6, <2>7
<1>5. CASE SumUsage(t) \/ SumHolds(t)
  <2>0. SpentOn(today) \in Nat /\ Held \in Nat /\ seen[t].committed \in Nat /\ Settled(today) <= SpentOn(today)
    BY <1>0, SumsType DEF SpentOn, SessionTypes
  <2>a. PICK n \in Nat :
           n = IF stage[t] = "sum usage" THEN SpentOn(today) ELSE seen[t].committed + Held
    <3>1. seen[t].committed + Held \in Nat
      BY <2>0
    <3> QED
      BY <2>0, <3>1
  <2>1. seen' = [seen EXCEPT ![t].committed = n]
    <3>1. CASE SumUsage(t)
      BY <2>a, <3>1 DEF SumUsage, At
    <3>2. CASE SumHolds(t)
      BY <2>a, <3>2 DEF SumHolds, At
    <3> QED
      BY <1>5, <3>1, <3>2
  <2>2. PICK next \in {"sum holds", "insert"} : stage' = [stage EXCEPT ![t] = next]
    BY <1>5 DEF SumUsage, SumHolds, At
  <2>3. /\ stage[t] \in {"sum usage", "sum holds"} /\ UNCHANGED <<ledgerVars, lock, job>>
        /\ next = "sum holds" <=> stage[t] = "sum usage"
    BY <1>0, <1>5, <2>2 DEF SumUsage, SumHolds, At, SessionTypes
  <2>4. /\ stage'[t] = next /\ seen'[t].committed = n /\ UNCHANGED <<status, verdict, bill>>
        /\ seen'[t].capped = seen[t].capped /\ seen'[t].ceiling = seen[t].ceiling
    BY <1>0, <2>1, <2>2, <2>3 DEF SessionTypes, ledgerVars, holdVars, worldVars
  <2>5. SessionTypes'
    BY <1>0, <2>1, <2>2, <2>3 DEF SessionTypes, Stages
  <2>6. (\E p \in Settings : ReadFrom(t, p))'
    BY <1>0, <2>3, <2>4 DEF SessionConsistent, ReadFrom
  <2>7. SessionConsistent(t)' /\ Reserving(t)
    BY <1>0, <2>3, <2>4, <2>6 DEF SessionConsistent, Reserving, Settling, Locking
  <2>8. SessionsConsistent'
    BY <1>0, <2>1, <2>2, <2>3, <2>7, QuietStep DEF SessionTypes
  <2>9. (stage[t] = "sum holds" => Settled(today) <= seen[t].committed)'
    BY <2>0, <2>a, <2>3, <2>4, SumsFrame
  <2>10. (stage[t] = "insert" => Settled(today) + Held <= seen[t].committed)'
    <3>1. Settled(today) \in Nat
      BY <1>0, SumsType
    <3>2. next = "insert" => Settled(today) <= seen[t].committed /\ n = seen[t].committed + Held
      BY <1>0, <2>a, <2>2, <2>3 DEF ReadsStayValid
    <3>3. next = "insert" => Settled(today) + Held <= n
      BY <2>0, <3>1, <3>2
    <3> QED
      BY <2>4, <3>3, <2>3, SumsFrame
  <2>11. ReadsStayValid'
    BY <1>0, <2>1, <2>2, <2>3, <2>9, <2>10, ReadsFrame DEF SessionTypes
  <2> QED
    BY <2>5, <2>8, <2>11
<1> QED
  BY <1>1, <1>2, <1>3, <1>4, <1>5 DEF ReserveStep

\* The statements of a settlement before it writes.
LEMMA SettleKeepsSessions ==
  ASSUME TxIInv, NEW t \in Sessions, SettleStep(t), ~WriteAndCommit(t)
  PROVE  SessionTypes' /\ SessionsConsistent' /\ ReadsStayValid'
<1>0. /\ SessionTypes /\ SessionsConsistent /\ ReadsStayValid /\ TypeOK
      /\ SessionConsistent(t)
  BY DEF TxIInv, TxInv, TxTypeOK, SessionsConsistent, SessionTypes
<1>1. ASSUME NEW h \in Holds, BeginSettle(t, h)
      PROVE  SessionTypes' /\ SessionsConsistent' /\ ReadsStayValid'
  <2>1. /\ stage' = [stage EXCEPT ![t] = "settle"] /\ UNCHANGED <<ledgerVars, lock, seen>>
        /\ job' = [job EXCEPT ![t] = [NoJob EXCEPT !.hold = h, !.amount = bill[h]]]
        /\ verdict[h] = "billed"
    BY <1>1 DEF BeginSettle, At
  <2>2. SessionTypes'
    <3>1. [NoJob EXCEPT !.hold = h, !.amount = bill[h]]
             \in [hold : Holds \cup {Nobody}, scope : Scopes, amount : Amounts]
      BY <1>0 DEF TypeOK, Scopes, NoJob
    <3> QED
      BY <1>0, <2>1, <3>1 DEF SessionTypes, Stages
  <2>3. /\ stage'[t] = "settle" /\ job'[t].hold = h /\ job'[t].amount = bill[h]
        /\ verdict' = verdict /\ bill' = bill
    BY <1>0, <2>1 DEF SessionTypes, ledgerVars, worldVars, NoJob
  <2>4. SessionConsistent(t)' /\ ~Reserving(t)'
    BY <2>1, <2>3 DEF SessionConsistent, Reserving, Settling, Locking
  <2>5. SessionsConsistent'
    BY <1>0, <2>1, <2>4, QuietStep DEF SessionTypes
  <2>6. ReadsStayValid'
    BY <1>0, <2>1, <2>3, ReadsFrame DEF SessionTypes
  <2> QED
    BY <2>2, <2>5, <2>6
<1>2. CASE LockForSettle(t) \/ (SelectHold(t) /\ ~End(t))
  <2>1. /\ UNCHANGED <<ledgerVars, job, seen>>
        /\ \/ /\ stage[t] = "settle" /\ stage' = [stage EXCEPT ![t] = "select hold"]
              /\ lock = Nobody /\ lock' = t
           \/ /\ stage[t] = "select hold" /\ stage' = [stage EXCEPT ![t] = "write"]
              /\ status[job[t].hold] = "open" /\ lock' = lock
    BY <1>2 DEF LockForSettle, SelectHold, At, Acquire
  <2>2. SessionTypes'
    BY <1>0, <2>1 DEF SessionTypes, Stages
  <2>3. /\ stage'[t] \in {"select hold", "write"} /\ UNCHANGED <<status, verdict, bill>>
        /\ stage'[t] = "write" => status'[job[t].hold] = "open"
        /\ lock' = t
    BY <1>0, <2>1 DEF SessionTypes, ledgerVars, holdVars, worldVars, SessionConsistent, Locking
  <2>4. SessionConsistent(t)' /\ ~Reserving(t)'
    BY <1>0, <2>1, <2>3 DEF SessionConsistent, Reserving, Settling, Locking
  <2>5. \A u \in Sessions \ {t} : stage'[u] = stage[u] /\ (lock = u => lock' = u)
    BY <1>0, <2>1, SessionsAssumption DEF SessionTypes
  <2>6. SessionsConsistent'
    BY <1>0, <2>1, <2>4, <2>5, QuietStep
  <2>7. ReadsStayValid'
    BY <1>0, <2>1, <2>3, <2>5, ReadsFrame
  <2> QED
    BY <2>2, <2>6, <2>7
<1>3. CASE SelectHold(t) /\ End(t)
  BY <1>3, QuietEnd DEF SelectHold
<1> QED
  BY <1>1, <1>2, <1>3 DEF SettleStep

\* The two writes: an insertion makes its own hold open, a settlement closes one
\* that was billed, and neither is the hold of another session's reservation.
LEMMA WriteKeepsSessions ==
  ASSUME TxIInv, NEW t \in Sessions, Admit(t) \/ WriteAndCommit(t)
  PROVE  SessionTypes' /\ SessionsConsistent' /\ ReadsStayValid'
<1>0. /\ TxTypeOK /\ SessionTypes /\ SessionsConsistent /\ ReadsStayValid /\ TypeOK /\ HoldsConsistent
      /\ \A u \in Sessions : SessionConsistent(u)
      /\ \A u \in Sessions \ {t} : Reserving(u) /\ Reserving(t) => job[u].hold # job[t].hold
  BY DEF TxIInv, IInv, TxInv, TxTypeOK, SessionsConsistent, SessionTypes
<1>1. /\ End(t) /\ Locking(t) /\ UNCHANGED <<verdict, bill>>
      /\ \/ /\ Reserving(t) /\ status' = [status EXCEPT ![job[t].hold] = "open"]
         \/ /\ status[job[t].hold] = "open" /\ status' = [status EXCEPT ![job[t].hold] = "settled"]
  BY <1>0 DEF Admit, InsertHold, WriteAndCommit, Book, Locking, Reserving, SessionConsistent, worldVars
<1>2. lock = t /\ job[t].hold \in Holds
  BY <1>0, <1>1 DEF SessionConsistent, Locking
<1>3. /\ SessionConsistent(t)' /\ ~Reserving(t)' /\ stage'[t] = "idle"
      /\ \A u \in Sessions \ {t} :
            stage'[u] = stage[u] /\ job'[u] = job[u] /\ seen'[u] = seen[u] /\ (lock = u => lock' = u)
  BY <1>0, <1>1, EndKeepsSession
<1>4. SessionTypes'
  BY <1>0, <1>1, EndKeepsSession DEF SessionTypes
<1>5. ASSUME NEW u \in Sessions \ {t}
      PROVE  /\ Reserving(u) => status'[job[u].hold] = "absent"
             /\ Settling(u) => /\ verdict'[job[u].hold] = "billed"
                               /\ bill'[job[u].hold] = bill[job[u].hold]
             /\ stage[u] = "write" => status'[job[u].hold] = "open"
  <2>1. SessionConsistent(u) /\ ~Locking(u)
    BY <1>0, <1>2 DEF SessionConsistent
  <2>2. Reserving(u) => job[u].hold # job[t].hold /\ job[u].hold \in Holds /\ status[job[u].hold] = "absent"
    BY <1>0, <1>1, <2>1 DEF SessionConsistent, Reserving
  <2>3. Reserving(u) => status'[job[u].hold] = "absent"
    BY <1>0, <1>1, <2>2 DEF TypeOK
  <2> QED
    BY <1>1, <2>1, <2>3 DEF SessionConsistent, Locking
<1>6. SessionsConsistent'
  BY <1>0, <1>3, <1>5, OneSessionMoves
<1>7. ReadsStayValid'
  BY <1>0, <1>2, <1>3, ReadsFrame
<1> QED
  BY <1>4, <1>6, <1>7

\* What goes on outside the lock leaves an absent hold absent and a billed one as it is.
LEMMA OtherEffect ==
  ASSUME TypeOK, OtherStep, NEW k \in Holds
  PROVE  /\ status[k] = "absent" => status'[k] = "absent"
         /\ verdict[k] = "billed" =>
               verdict'[k] = "billed" /\ bill'[k] = bill[k] /\ status'[k] = status[k]
<1>1. CASE \E h \in Holds : verdict[h] = "refused" /\ status[h] = "open" /\ Release(h)
  BY <1>1 DEF Release, worldVars, TypeOK
<1>2. CASE \E h \in Holds : Refuse(h) \/ \E c \in Amounts : Bill(h, c)
  BY <1>2 DEF Bill, Refuse, holdVars, TypeOK
<1>3. CASE \/ \E c \in Amounts : RecordUnreserved(c)
           \/ \E p \in Settings : Deploy(p)
           \/ NextDay
  BY <1>3 DEF RecordUnreserved, Deploy, NextDay, holdVars, worldVars
<1> QED
  BY <1>1, <1>2, <1>3 DEF OtherStep

\* And it only ever frees money, unless the day ends between transactions.
LEMMA OtherFrees ==
  ASSUME TypeOK, OtherStep \/ UNCHANGED ledgerVars
  PROVE  \/ Settled(today)' = Settled(today) /\ Held' \in Nat /\ Held' <= Held
         \/ \A t \in Sessions : stage[t] = "idle"
<1>0. Held \in Nat
  BY SumsType
<1>1. CASE UNCHANGED <<today, spent, status, remaining>>
  <2>1. Open' = Open
    BY <1>1 DEF Open
  <2> QED
    BY <1>0, <1>1, <2>1 DEF Settled, Held
<1>2. ASSUME NEW h \in Holds, status[h] = "open", Release(h)
      PROVE  Settled(today)' = Settled(today) /\ Held' \in Nat /\ Held' <= Held
  <2>1. /\ status' = [status EXCEPT ![h] = "settled"] /\ remaining' = [remaining EXCEPT ![h] = 0]
        /\ UNCHANGED <<scope, today, spent>>
    BY <1>2 DEF Release, usageVars
  <2>2. Held = Held' + remaining[h] /\ Held' \in Nat
    BY <1>2, <2>1, CloseSums
  <2>3. remaining[h] \in Nat
    BY LedgerAssumption DEF TypeOK, Amounts
  <2> QED
    BY <1>0, <2>1, <2>2, <2>3 DEF Settled
<1>3. CASE \/ \E h \in Holds : Refuse(h) \/ \E c \in Amounts : Bill(h, c)
           \/ \E c \in Amounts : RecordUnreserved(c)
           \/ \E p \in Settings : Deploy(p)
           \/ UNCHANGED ledgerVars
  BY <1>1, <1>3 DEF Bill, Refuse, RecordUnreserved, Deploy, ledgerVars, usageVars, holdVars
<1> QED
  BY <1>2, <1>3 DEF OtherStep

\* What goes past the lock takes nothing of what sessions rely on.
LEMMA OtherKeepsSessions ==
  ASSUME TxIInv, (OtherStep /\ UNCHANGED txVars) \/ UNCHANGED vars
  PROVE  SessionTypes' /\ SessionsConsistent' /\ ReadsStayValid'
<1>0. /\ SessionTypes /\ ReadsStayValid /\ TypeOK
      /\ \A u \in Sessions : SessionConsistent(u)
      /\ \A t, u \in Sessions : Reserving(t) /\ Reserving(u) /\ job[t].hold = job[u].hold => t = u
  BY DEF TxIInv, TxInv, TxTypeOK, SessionsConsistent, SessionTypes
<1>1. UNCHANGED <<lock, stage, job, seen>>
  BY DEF txVars, vars
<1>2. \A k \in Holds :
         /\ status[k] = "absent" => status'[k] = "absent"
         /\ verdict[k] = "billed" =>
               verdict'[k] = "billed" /\ bill'[k] = bill[k] /\ status'[k] = status[k]
  BY <1>0, OtherEffect DEF vars, ledgerVars, holdVars, worldVars
<1>3. ASSUME NEW u \in Sessions PROVE SessionConsistent(u)' /\ (Reserving(u)' <=> Reserving(u))
  <2>1. SessionConsistent(u)
    BY <1>0
  <2>2. (Reserving(u)' <=> Reserving(u)) /\ (Settling(u)' <=> Settling(u)) /\ (Locking(u)' <=> Locking(u))
    BY <1>1 DEF Reserving, Settling, Locking
  <2>3. (\E p \in Settings : ReadFrom(u, p)) => (\E p \in Settings : ReadFrom(u, p))'
    BY <1>1 DEF ReadFrom
  <2>4. (Locking(u) => lock = u)' /\ (stage[u] # "idle" => job[u].hold \in Holds)'
    BY <1>1, <2>1, <2>2 DEF SessionConsistent
  <2>5. (Reserving(u) => status[job[u].hold] = "absent")'
    BY <1>1, <1>2, <2>1, <2>2 DEF SessionConsistent, Reserving
  <2>6. (Settling(u) => verdict[job[u].hold] = "billed" /\ job[u].amount = bill[job[u].hold])'
    BY <1>1, <1>2, <2>1, <2>2 DEF SessionConsistent, Settling
  <2>7. (stage[u] = "write" => status[job[u].hold] = "open")'
    BY <1>1, <1>2, <2>1, <2>2 DEF SessionConsistent, Settling
  <2>8. (stage[u] \in {"sum usage", "sum holds", "insert"} =>
          job[u].amount > 0 /\ \E p \in Settings : ReadFrom(u, p))'
    BY <1>1, <2>1, <2>2, <2>3 DEF SessionConsistent
  <2> QED
    BY <2>2, <2>4, <2>5, <2>6, <2>7, <2>8 DEF SessionConsistent
<1>4. SessionsConsistent'
  BY <1>0, <1>1, <1>3 DEF SessionsConsistent
<1>5. ReadsStayValid'
  <2>1. CASE Settled(today)' = Settled(today) /\ Held' \in Nat /\ Held' <= Held
    <3> SUFFICES ASSUME NEW t \in Sessions
                 PROVE  /\ (stage[t] = "sum holds" => Settled(today) <= seen[t].committed)'
                        /\ (stage[t] = "insert" => Settled(today) + Held <= seen[t].committed)'
      BY DEF ReadsStayValid
    <3>1. seen'[t] = seen[t] /\ stage'[t] = stage[t] /\ seen[t].committed \in Nat
      BY <1>0, <1>1 DEF SessionTypes
    <3>2. /\ stage[t] = "sum holds" => Settled(today) <= seen[t].committed
          /\ stage[t] = "insert" => Settled(today) + Held <= seen[t].committed
      BY <1>0 DEF ReadsStayValid
    <3>3. Held \in Nat /\ Settled(today) \in Nat
      BY <1>0, SumsType
    <3>4. stage[t] = "insert" => Settled(today)' + Held' <= seen[t].committed
      BY <2>1, <3>1, <3>2, <3>3
    <3> QED
      BY <2>1, <3>1, <3>2, <3>4
  <2>2. CASE \A t \in Sessions : stage[t] = "idle"
    BY <1>1, <2>2 DEF ReadsStayValid
  <2> QED
    BY <1>0, <2>1, <2>2, OtherFrees DEF vars
<1> QED
  BY <1>0, <1>1, <1>4, <1>5 DEF SessionTypes

\* Every statement of every session.
LEMMA StepKeepsTxIInv ==
  ASSUME TxIInv, [Next]_vars
  PROVE  TxIInv'
<1>1. SessionTypes' /\ SessionsConsistent' /\ ReadsStayValid'
  <2>1. ASSUME NEW t \in Sessions, ReserveStep(t) \/ SettleStep(t) \/ Abort(t)
        PROVE  SessionTypes' /\ SessionsConsistent' /\ ReadsStayValid'
    BY <2>1, ReserveKeepsSessions, SettleKeepsSessions, WriteKeepsSessions, QuietEnd DEF Abort
  <2> QED
    BY <2>1, OtherKeepsSessions DEF Next
<1>2. IInv'
  BY StepKeepsIInv
<1> QED
  BY <1>1, <1>2 DEF TxIInv, TxInv, TxTypeOK, SessionTypes, IInv

\* Hence the invariant of every behaviour, from which the theorems follow.
LEMMA TransactionsSafe == Spec => []TxIInv
<1>1. InitTx => TxIInv
  <2> SUFFICES ASSUME InitTx PROVE TxIInv
    OBVIOUS
  <2>1. IInv /\ TypeOK
    BY InitIInv DEF InitTx, IInv
  <2>2. SessionTypes
    BY LedgerAssumption DEF InitTx, SessionTypes, Stages, NoJob, NoRead, Scopes, Amounts
  <2>3. SessionsConsistent /\ ReadsStayValid
    BY DEF InitTx, SessionsConsistent, SessionConsistent, ReadsStayValid, Reserving, Settling, Locking
  <2> QED
    BY <2>1, <2>2, <2>3 DEF TxIInv, TxInv, TxTypeOK, SessionTypes
<1> QED
  BY <1>1, StepKeepsTxIInv, PTL DEF Spec

-----------------------------------------------------------------------------
\* With any number of sessions a transaction reads and writes only under the lock,
\* and what a reservation has read is still a bound on the ledger when it inserts.
THEOREM SessionsAreIsolated == Spec => []TxInv
<1>1. TxIInv => TxInv
  BY DEF TxIInv
<1> QED
  BY <1>1, TransactionsSafe, PTL

\* The interleaved statements never take the day over a limit that was configured,
\* although policies are published and usage is recorded past the lock.
THEOREM TransactionsKeepCeiling == Spec => []CeilingHolds
<1>1. TxIInv => CeilingHolds
  BY DEF TxIInv, IInv
<1> QED
  BY <1>1, TransactionsSafe, PTL

\* Nor do they let background work into the share of Compare.
THEOREM TransactionsKeepShare == Spec => []CompareShareProtected
<1>1. TxIInv => CompareShareProtected
  BY DEF TxIInv, IInv
<1> QED
  BY <1>1, TransactionsSafe, PTL

\* Two sessions that settle the same hold charge it once, on the day it is settled.
THEOREM TransactionsKeepLedgerExact == Spec => []LedgerIsExact
<1>1. TxIInv => LedgerIsExact
  BY DEF TxIInv, IInv
<1> QED
  BY <1>1, TransactionsSafe, PTL

\* A request that may be billed keeps a hold that can pay, through aborts as well.
THEOREM TransactionsLoseNoCost == Spec => []NothingUnaccounted
<1>1. TxIInv => NothingUnaccounted
  BY DEF TxIInv, IInv, HoldsConsistent, NothingUnaccounted
<1> QED
  BY <1>1, TransactionsSafe, PTL

\* The sessions implement the atomic ledger, but for an insertion that fits the
\* policy it read instead of the one published under it.
THEOREM TransactionsImplementLedger == Spec => LedgerUpToPolicy
<1>1. InitTx => Init
  BY DEF InitTx
<1>2. TxIInv /\ [Next]_vars =>
        [LedgerNext \/ \E t \in Sessions : AdmittedAsRead(t)]_ledgerVars
  BY NextIsLedgerStep
<1> QED
  BY <1>1, <1>2, TransactionsSafe, PTL DEF Spec, LedgerUpToPolicy

\* A settled hold stays as it is, however late a second session comes to settle it.
THEOREM TransactionsSettleOnce == Spec => SettledIsFinal
<1>1. TxIInv /\ [Next]_vars =>
        \A h \in Holds : status[h] = "settled" =>
          /\ status'[h] = "settled" /\ settledOn'[h] = settledOn[h]
          /\ bill'[h] = bill[h]
  <2> SUFFICES ASSUME TxIInv, [Next]_vars, NEW h \in Holds, status[h] = "settled"
               PROVE  status'[h] = "settled" /\ settledOn'[h] = settledOn[h] /\ bill'[h] = bill[h]
    OBVIOUS
  <2>1. [LedgerNext]_ledgerVars \/ \E t \in Sessions : AdmittedAsRead(t)
    BY NextIsLedgerStep
  <2>2. [LedgerNext]_ledgerVars \/ \E k \in Holds : \E s, a : InsertHold(k, s, a)
    BY <2>1 DEF AdmittedAsRead, TxIInv, TxInv, SessionsConsistent, SessionConsistent
  <2>3. TypeOK
    BY DEF TxIInv, IInv
  <2> QED
    BY <2>2, <2>3, StepKeepsSettled
<1> QED
  BY <1>1, TransactionsSafe, PTL DEF Spec, SettledIsFinal
=============================================================================
