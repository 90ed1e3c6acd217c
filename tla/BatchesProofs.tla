---------------------------- MODULE BatchesProofs ----------------------------
(***************************************************************************)
(* Theorems about Batches: through submission, polling, syncs, failed      *)
(* writes and crashes a batch's cost reaches the ledger before its results *)
(* are applied, and once.                                                  *)
(***************************************************************************)
EXTENDS Batches, BudgetLedgerProofs

BatchesIInv ==
    IInv /\ BatchesTypes /\ BatchesConsistent /\ SettledBeforeApplied /\ ChargedOnce

-----------------------------------------------------------------------------
(* What the steps do to the ledger.                                         *)

\* A batch is settled only when its provider has billed it, so that every step is
\* one of the ledger's or leaves it alone.
LEMMA NextIsLedgerStep ==
  ASSUME TypeOK, BatchesTypes, BatchesConsistent, [Next]_vars
  PROVE  [LedgerNext]_ledgerVars
<1>1. CASE \E b \in Batch : SubmitStep(b)
  <2> PICK b \in Batch : SubmitStep(b)
    BY <1>1
  <2>1. CASE Admit(b) \/ NotAdmitted(b)
    BY <2>1 DEF Admit, NotAdmitted, LedgerNext, Batch, Scopes
  <2>2. CASE CreateFails(b)
    BY <2>2 DEF CreateFails, LedgerNext, Batch
  <2>3. CASE Create(b) \/ Record(b) \/ SubmitDies(b)
    BY <2>3 DEF Create, Record, SubmitDies
  <2> QED
    BY <2>1, <2>2, <2>3 DEF SubmitStep
<1>2. CASE \E b \in Batch : JobEnds(b)
  BY <1>2 DEF JobEnds, LedgerNext, Batch
<1>3. CASE SettleBatch \/ SettleFails
  <2>1. cur \in Batch /\ verdict[cur] = "billed"
    BY <1>3 DEF SettleBatch, SettleFails, BatchesTypes, BatchesConsistent, PollerConsistent,
                RecordsConsistent, RecordConsistent, Working, Endings
  <2> QED
    BY <1>3, <2>1 DEF SettleBatch, SettleFails, LedgerNext, Batch
<1>4. CASE Apply
  <2>1. cur \in Batch
    BY <1>4 DEF Apply, BatchesTypes, BatchesConsistent, PollerConsistent, Working
  <2>2. 0 .. bill[cur] \subseteq Amounts
    BY <2>1, LedgerAssumption DEF TypeOK, Batch, Amounts
  <2> QED
    BY <1>4, <2>2 DEF Apply, LedgerNext
<1>5. CASE \E p \in Settings : Crash(p)
  BY <1>5 DEF Crash, LedgerNext
<1>6. CASE NextDay \/ UNCHANGED vars
  BY <1>6 DEF LedgerNext, vars
<1>7. CASE \/ Boot \/ Tick \/ TickEnds \/ LookUpHold \/ Finish \/ TickAborts
           \/ SyncRead \/ SyncAdopt \/ Stabilise
           \/ \E b \in Batch : GiveUp(b) \/ NotYet(b) \/ NoResults(b) \/ Fetch(b) \/ Age(b)
  BY <1>7 DEF Boot, Tick, TickEnds, LookUpHold, Finish, TickAborts, SyncRead, SyncAdopt,
              Stabilise, GiveUp, NotYet, NoResults, Fetch, Age
<1> QED
  BY <1>1, <1>2, <1>3, <1>4, <1>5, <1>6, <1>7 DEF Next, PollStep

\* What a ledger step does to the hold columns the batches look at.
LEMMA ReserveEffect ==
  ASSUME TypeOK, HoldsConsistent, NEW b \in Holds, NEW a, Reserve(b, "background", a)
  PROVE  /\ status[b] = "absent" /\ verdict[b] = "none"
         /\ status' = [status EXCEPT ![b] = "open"]
         /\ UNCHANGED <<verdict, bill, unreserved>>
BY DEF HoldsConsistent, Reserve, InsertHold, worldVars, usageVars

\* A settlement closes an open hold and decides nothing for the provider.
LEMMA SettleEffect ==
  ASSUME NEW b \in Holds, NEW c, Settle(b, c)
  PROVE  /\ status[b] = "open" /\ status' = [status EXCEPT ![b] = "settled"]
         /\ UNCHANGED <<verdict, bill, unreserved>>
BY DEF Settle, Book, worldVars

\* The provider decides once, about an open hold, and does not close it.
LEMMA ProviderEffect ==
  ASSUME NEW b \in Holds, NEW c
  PROVE  /\ Bill(b, c) => /\ status[b] = "open" /\ verdict[b] = "none" /\ status' = status
                          /\ verdict' = [verdict EXCEPT ![b] = "billed"]
                          /\ bill' = [bill EXCEPT ![b] = c] /\ unreserved' = unreserved
         /\ Refuse(b) => /\ status[b] = "open" /\ verdict[b] = "none" /\ status' = status
                         /\ verdict' = [verdict EXCEPT ![b] = "refused"]
                         /\ UNCHANGED <<bill, unreserved>>
BY DEF Bill, Refuse, holdVars, usageVars

\* Midnight and a deployment leave every hold as it is.
LEMMA SameEffect ==
  ASSUME \/ UNCHANGED ledgerVars \/ NextDay \/ \E p \in Settings : Deploy(p)
  PROVE  UNCHANGED <<status, verdict, bill, unreserved>>
BY DEF NextDay, Deploy, ledgerVars, holdVars, worldVars, usageVars

-----------------------------------------------------------------------------
(* The batches' part of the invariant, action by action.                    *)

Safe == BatchesTypes /\ BatchesConsistent /\ SettledBeforeApplied

\* At the start nothing is submitted, and nothing charged.
LEMMA InitSafe == InitBatches => Safe /\ ChargedOnce
<1> SUFFICES ASSUME InitBatches PROVE Safe /\ ChargedOnce
  OBVIOUS
<1>1. Safe
  BY BatchesAssumption
     DEF InitBatches, Init, Safe, BatchesTypes, BatchesConsistent, PollerConsistent,
         RecordsConsistent, RecordConsistent, SettledBeforeApplied, Batch, Endings, Working, Marking
<1>2. ChargedOnce
  BY TotalEmpty DEF InitBatches, Init, ChargedOnce
<1> QED
  BY <1>1, <1>2

\* A step that changes one batch.
LEMMA OneBatchMoves ==
  ASSUME Safe, NEW b \in Batch,
         \A d \in Batch \ {b} :
             /\ status'[d] = status[d] /\ verdict'[d] = verdict[d] /\ row'[d] = row[d]
             /\ job'[d] = job[d] /\ submit'[d] = submit[d]
             /\ d \in pending' <=> d \in pending
             /\ d \in applied' <=> d \in applied
             /\ d \in loose' <=> d \in loose
             /\ d = cur' => d = cur,
         Marking => cur = b \/ UNCHANGED <<cur, poller>>,
         applied' \subseteq Batch,
         RecordConsistent(b)', b \in applied' /\ row'[b] # "none" => status'[b] = "settled"
  PROVE  RecordsConsistent' /\ SettledBeforeApplied'
<1>1. ASSUME NEW d \in Batch \ {b} PROVE RecordConsistent(d)'
  <2>1. RecordConsistent(d)
    BY DEF Safe, BatchesConsistent, RecordsConsistent
  <2>2. d \in loose' /\ d \in pending' => d = cur' /\ Marking'
    BY <2>1 DEF RecordConsistent, Marking
  <2> QED
    BY <2>1, <2>2 DEF RecordConsistent
<1> QED
  BY <1>1 DEF Safe, RecordsConsistent, SettledBeforeApplied

\* A step that changes no batch: the poller moves on, or adopts recorded ones.
LEMMA NoBatchMoves ==
  ASSUME Safe, UNCHANGED <<status, verdict, row, job, submit, applied, loose>>,
         \A d \in Batch : d \in pending' => d \in pending \/ row[d] # "none",
         \A d \in Batch : d = cur' => job[d] \in {"good", "opaque"} /\ submit[d] = "done",
         Marking => UNCHANGED <<cur, poller>> \/ pending' = {}
  PROVE  RecordsConsistent' /\ SettledBeforeApplied'
<1>1. ASSUME NEW d \in Batch PROVE RecordConsistent(d)'
  BY DEF Safe, BatchesConsistent, RecordsConsistent, RecordConsistent, Marking
<1> QED
  BY <1>1 DEF Safe, RecordsConsistent, SettledBeforeApplied

\* Submitting a batch, at each of its awaits.
LEMMA SubmitKeepsSafe ==
  ASSUME TypeOK, HoldsConsistent, Safe, NEW b \in Batch, SubmitStep(b)
  PROVE  Safe'
<1>0. /\ BatchesTypes /\ PollerConsistent /\ RecordConsistent(b) /\ SettledBeforeApplied
      /\ status \in [Batch -> {"absent", "open", "settled"}]
      /\ verdict \in [Batch -> {"none", "refused", "billed"}]
  BY DEF Safe, BatchesConsistent, RecordsConsistent, TypeOK, Batch
<1>a. /\ UNCHANGED <<poller, queue, cur, found, applied, loose, stable, aged>>
      /\ \E next \in {"creating", "recording", "done"} : submit' = [submit EXCEPT ![b] = next]
  BY DEF SubmitStep, Admit, NotAdmitted, Create, CreateFails, Record, SubmitDies, SubmitTo,
         Register, unchangedBySubmit, history
<1>b. submit' \in [Batch -> {"idle", "creating", "recording", "done"}]
  BY <1>0, <1>a DEF BatchesTypes
<1>1. CASE Admit(b) \/ NotAdmitted(b)
  <2>1. /\ submit[b] = "idle" /\ UNCHANGED <<pending, signal, row, job, verdict>>
        /\ \A d \in Batch \ {b} : status'[d] = status[d]
        /\ status'[b] # "settled" \/ status' = status
    BY <1>0, <1>1, ReserveEffect, SameEffect DEF Admit, NotAdmitted, SubmitTo, Batch
  <2>2. RecordConsistent(b)' /\ b \notin applied
    BY <1>0, <1>a, <2>1 DEF RecordConsistent, BatchesTypes
  <2>3. BatchesTypes' /\ PollerConsistent'
    <3>1. BatchesTypes'
      BY <1>0, <1>a, <1>b, <2>1 DEF BatchesTypes
    <3>2. Working => cur \in Batch \ {b}
      BY <1>0, <2>1 DEF RecordConsistent, PollerConsistent, BatchesTypes
    <3> QED
      BY <1>0, <1>a, <2>1, <3>1, <3>2 DEF PollerConsistent, Working
  <2> QED
    BY <1>0, <1>a, <2>1, <2>2, <2>3, OneBatchMoves DEF BatchesTypes, Safe, BatchesConsistent
<1>2. CASE Create(b) \/ CreateFails(b) \/ SubmitDies(b)
  <2>1. /\ submit[b] \in {"creating", "recording"} /\ submit'[b] \in {"recording", "done"}
        /\ UNCHANGED <<pending, signal, row, status>>
        /\ \/ job' = job
           \/ job' = [job EXCEPT ![b] = "processing"] /\ submit[b] = "creating"
        /\ verdict' = verdict \/ (verdict[b] = "none" /\ verdict' = [verdict EXCEPT ![b] = "refused"])
    BY <1>0, <1>2, ProviderEffect, SameEffect
       DEF Create, CreateFails, SubmitDies, SubmitTo, Batch, BatchesTypes, ledgerVars
  <2>2. RecordConsistent(b)' /\ b \notin applied
    BY <1>0, <1>a, <2>1 DEF RecordConsistent, BatchesTypes, Endings
  <2>3. BatchesTypes' /\ PollerConsistent'
    <3>1. BatchesTypes'
      <4>1. job' \in [Batch -> {"none", "processing"} \cup Endings]
        BY <1>0, <2>1 DEF BatchesTypes
      <4> QED
        BY <1>0, <1>a, <1>b, <2>1, <4>1 DEF BatchesTypes
    <3>2. Working => cur \in Batch \ {b} /\ job'[cur] = job[cur]
      BY <1>0, <2>1 DEF RecordConsistent, PollerConsistent, BatchesTypes
    <3> QED
      BY <1>0, <1>a, <2>1, <3>1, <3>2 DEF PollerConsistent, Working
  <2>4. \A d \in Batch \ {b} : verdict'[d] = verdict[d] /\ job'[d] = job[d] /\ submit'[d] = submit[d]
    BY <1>0, <1>a, <2>1 DEF BatchesTypes
  <2>5. RecordsConsistent' /\ SettledBeforeApplied'
    BY <1>0, <1>a, <2>1, <2>2, <2>4, OneBatchMoves DEF BatchesTypes
  <2> QED
    BY <2>3, <2>5 DEF Safe, BatchesConsistent
<1>3. CASE Record(b)
  <2>1. /\ submit[b] = "recording" /\ submit' = [submit EXCEPT ![b] = "done"]
        /\ row' \in {row, [row EXCEPT ![b] = "processing"]}
        /\ pending' = pending \cup {b} /\ signal' = TRUE
        /\ UNCHANGED <<job, status, verdict>>
    BY <1>0, <1>3, SameEffect DEF Record, SubmitTo, Register, BatchesTypes
  <2>2. b \notin applied /\ b # cur /\ row[b] = "none" /\ b \notin loose
    BY <1>0, <2>1 DEF RecordConsistent
  <2>3. RecordConsistent(b)'
    BY <1>0, <1>a, <2>1, <2>2 DEF RecordConsistent, BatchesTypes
  <2>4. BatchesTypes'
    BY <1>0, <1>a, <2>1 DEF BatchesTypes
  <2>5. PollerConsistent'
    BY <1>0, <1>a, <2>1, <2>2 DEF PollerConsistent, Working, BatchesTypes
  <2>6. \A d \in Batch \ {b} : row'[d] = row[d] /\ submit'[d] = submit[d]
    BY <1>0, <2>1 DEF BatchesTypes
  <2>7. RecordsConsistent' /\ SettledBeforeApplied'
    BY <1>0, <1>a, <2>1, <2>2, <2>3, <2>6, OneBatchMoves DEF BatchesTypes
  <2> QED
    BY <2>4, <2>5, <2>7 DEF Safe, BatchesConsistent
<1> QED
  BY <1>1, <1>2, <1>3 DEF SubmitStep

\* The poller's tick, at each of its awaits.
LEMMA PollKeepsSafe ==
  ASSUME TypeOK, Safe, PollStep
  PROVE  Safe'
<1>0. /\ BatchesTypes /\ PollerConsistent /\ SettledBeforeApplied
      /\ \A b \in Batch : RecordConsistent(b)
      /\ status \in [Batch -> {"absent", "open", "settled"}]
      /\ UNCHANGED <<job, submit, found>>
  BY DEF Safe, BatchesConsistent, RecordsConsistent, TypeOK, Batch, PollStep, Boot, Tick, TickEnds,
         GiveUp, NotYet, NoResults, Fetch, LookUpHold, SettleBatch, SettleFails, Apply, Finish,
         TickAborts, unchangedByPoller
<1> USE DEF unchangedByPoller, history
<1>1. CASE Boot
  <2>1. /\ UNCHANGED <<status, verdict, row, queue, cur, stable, applied, loose, aged>>
        /\ pending \subseteq pending'
        /\ pending' \subseteq pending \cup {b \in Batch : row[b] = "processing"}
        /\ poller = "boot" /\ poller' = "wait" /\ signal' \in BOOLEAN
        /\ pending' # {} => signal'
    BY <1>0, <1>1, SameEffect DEF Boot, Register, BatchesTypes, PollerConsistent
  <2>2. RecordsConsistent' /\ SettledBeforeApplied'
    BY <1>0, <2>1, NoBatchMoves DEF Marking, RecordConsistent
  <2>3. BatchesTypes'
    BY <1>0, <2>1 DEF BatchesTypes
  <2>4. PollerConsistent'
    BY <1>0, <2>1 DEF PollerConsistent, Working
  <2> QED
    BY <2>2, <2>3, <2>4 DEF Safe, BatchesConsistent
<1>2. CASE Tick \/ TickEnds \/ LookUpHold \/ TickAborts \/ \E b \in Batch : NotYet(b) \/ Fetch(b)
  <2>1. /\ UNCHANGED <<status, verdict, row, pending, aged, signal, stable, applied, loose>>
        /\ ~Marking
    BY <1>2, SameEffect DEF Tick, TickEnds, LookUpHold, TickAborts, NotYet, Fetch, Marking
  <2>2. \A d \in Batch : d = cur' => job[d] \in {"good", "opaque"} /\ submit[d] = "done"
    BY <1>0, <1>2, BatchesAssumption DEF Tick, TickEnds, LookUpHold, TickAborts, NotYet, Fetch,
       RecordConsistent, BatchesTypes, Batch
  <2>3. RecordsConsistent' /\ SettledBeforeApplied'
    BY <1>0, <2>1, <2>2, NoBatchMoves
  <2>4. BatchesTypes'
    BY <1>0, <1>2, <2>1 DEF Tick, TickEnds, LookUpHold, TickAborts, NotYet, Fetch, BatchesTypes
  <2>5. PollerConsistent'
    BY <1>0, <1>2, <2>1, BatchesAssumption DEF Tick, TickEnds, LookUpHold, TickAborts, NotYet, Fetch,
       BatchesTypes, PollerConsistent, Working, Batch
  <2> QED
    BY <2>3, <2>4, <2>5 DEF Safe, BatchesConsistent
<1>3. ASSUME NEW b \in Batch, GiveUp(b) \/ NoResults(b) PROVE Safe'
  <2>1. /\ UNCHANGED <<status, verdict, stable, applied, loose, poller, cur>>
        /\ poller = "scan" /\ b \in queue /\ queue' = queue \ {b}
        /\ pending' = pending \ {b} /\ aged' = aged \ {b}
        /\ signal' = (signal /\ pending # {b})
        /\ row' = row \/ \E s \in {"expired", "errored"} : row[b] # "none" /\ row' = [row EXCEPT ![b] = s]
    BY <1>3, SameEffect DEF GiveUp, NoResults, Forget, MarkStatus
  <2>2. /\ row' \in [Batch -> {"none", "processing", "succeeded", "errored", "expired"}]
        /\ \A d \in Batch \ {b} : row'[d] = row[d]
        /\ row'[b] = "none" <=> row[b] = "none"
    BY <1>0, <2>1 DEF BatchesTypes
  <2>3. BatchesTypes'
    BY <1>0, <2>1, <2>2, BatchesAssumption DEF BatchesTypes, PollerConsistent, Working, Batch
  <2>4. PollerConsistent'
    BY <1>0, <2>1, <2>2 DEF PollerConsistent, Working, BatchesTypes
  <2>5. b \in pending /\ b # cur /\ b \notin loose
    BY <1>0, <2>1 DEF BatchesTypes, PollerConsistent, RecordConsistent, Marking
  <2>6. RecordConsistent(b)'
    BY <1>0, <2>1, <2>2, <2>5 DEF RecordConsistent
  <2>7. b \in applied' /\ row'[b] # "none" => status'[b] = "settled"
    BY <1>0, <2>1, <2>2 DEF SettledBeforeApplied
  <2>8. RecordsConsistent' /\ SettledBeforeApplied'
    BY <1>0, <2>1, <2>2, <2>6, <2>7, OneBatchMoves DEF BatchesTypes
  <2> QED
    BY <2>3, <2>4, <2>8 DEF Safe, BatchesConsistent
<1>4. CASE SettleBatch \/ SettleFails
  <2>1. cur \in Batch /\ row[cur] # "none" /\ cur \notin loose /\ cur \in pending /\ poller = "settle"
    BY <1>0, <1>4 DEF SettleBatch, SettleFails, PollerConsistent, RecordConsistent, Working, BatchesTypes
  <2>2. /\ UNCHANGED <<verdict, row, pending, aged, signal, queue, stable, applied, loose>>
        /\ \/ status[cur] = "open" /\ status' = [status EXCEPT ![cur] = "settled"]
           \/ status' = status
        /\ \/ poller' = "apply" /\ cur' = cur /\ (status[cur] = "settled" \/ status'[cur] = "settled")
           \/ poller' = "scan" /\ cur' = NoBatch
    BY <1>0, <1>4, <2>1, SettleEffect, SameEffect DEF SettleBatch, SettleFails, Batch
  <2>3. /\ \A d \in Batch \ {cur} : status'[d] = status[d]
        /\ status[cur] = "settled" => status'[cur] = "settled"
    BY <1>0, <2>1, <2>2
  <2>4. BatchesTypes'
    BY <1>0, <2>1, <2>2 DEF BatchesTypes
  <2>5. PollerConsistent'
    BY <1>0, <2>1, <2>2, <2>3, BatchesAssumption DEF PollerConsistent, Working, BatchesTypes, Batch
  <2>6. PICK c \in Batch : c = cur
    BY <2>1
  <2>7. RecordConsistent(c)' /\ (c \in applied => status'[c] = "settled")
    BY <1>0, <2>1, <2>2, <2>3, <2>6 DEF RecordConsistent, SettledBeforeApplied
  <2>8. \A d \in Batch \ {c} : d = cur' => d = cur
    BY <2>2, BatchesAssumption DEF Batch
  <2>9. RecordsConsistent' /\ SettledBeforeApplied'
    BY <1>0, <2>1, <2>2, <2>3, <2>6, <2>7, <2>8, OneBatchMoves DEF BatchesTypes, Marking
  <2> QED
    BY <2>4, <2>5, <2>9 DEF Safe, BatchesConsistent
<1>5. CASE Apply
  <2>1. /\ cur \in Batch /\ cur \in pending /\ poller = "apply"
        /\ row[cur] = "none" \/ status[cur] = "settled"
    BY <1>0, <1>5 DEF Apply, PollerConsistent, Working, BatchesTypes
  <2>2. /\ UNCHANGED <<status, verdict, row, pending, aged, signal, queue, stable, cur>>
        /\ poller' \in {"mark succeeded", "mark errored"} /\ applied' = applied \cup {cur}
        /\ loose' = loose \/ (row[cur] = "none" /\ loose' = loose \cup {cur})
    <3>1. ASSUME NEW c, RecordUnreserved(c) PROVE UNCHANGED <<status, verdict>>
      BY <3>1 DEF RecordUnreserved, holdVars, worldVars
    <3> QED
      BY <1>5, <3>1, SameEffect DEF Apply
  <2>3. PICK c \in Batch : c = cur
    BY <2>1
  <2>4. BatchesTypes'
    BY <1>0, <2>1, <2>2 DEF BatchesTypes
  <2>5. PollerConsistent'
    BY <1>0, <2>1, <2>2 DEF PollerConsistent, Working
  <2>6. RecordConsistent(c)' /\ (row'[c] # "none" => status'[c] = "settled")
    BY <1>0, <2>1, <2>2, <2>3 DEF RecordConsistent, Marking
  <2>7. RecordsConsistent' /\ SettledBeforeApplied'
    BY <1>0, <2>1, <2>2, <2>3, <2>6, OneBatchMoves DEF BatchesTypes, Marking
  <2> QED
    BY <2>4, <2>5, <2>7 DEF Safe, BatchesConsistent
<1>6. CASE Finish
  <2>1. cur \in Batch /\ cur \in pending /\ Marking
    BY <1>0, <1>6 DEF Finish, PollerConsistent, Working, BatchesTypes, Marking
  <2>2. /\ UNCHANGED <<status, verdict, stable, applied, loose, queue>>
        /\ poller' = "scan" /\ cur' = NoBatch
        /\ pending' = pending \ {cur} /\ aged' = aged \ {cur}
        /\ signal' = (signal /\ pending # {cur})
        /\ \/ row' = row
           \/ \E s \in {"succeeded", "errored"} : row[cur] # "none" /\ row' = [row EXCEPT ![cur] = s]
    BY <1>6, SameEffect DEF Finish, Forget, MarkStatus
  <2>3. /\ row' \in [Batch -> {"none", "processing", "succeeded", "errored", "expired"}]
        /\ \A d \in Batch \ {cur} : row'[d] = row[d]
        /\ \A d \in Batch : row'[d] = "none" <=> row[d] = "none"
    BY <1>0, <2>1, <2>2 DEF BatchesTypes
  <2>4. PICK c \in Batch : c = cur
    BY <2>1
  <2>5. BatchesTypes'
    BY <1>0, <2>1, <2>2, <2>3 DEF BatchesTypes, PollerConsistent
  <2>6. PollerConsistent'
    BY <1>0, <2>1, <2>2, <2>3, BatchesAssumption DEF PollerConsistent, Working, BatchesTypes, Batch
  <2>7. RecordConsistent(c)' /\ (c \in applied /\ row'[c] # "none" => status'[c] = "settled")
    BY <1>0, <2>1, <2>2, <2>3, <2>4, BatchesAssumption DEF RecordConsistent, SettledBeforeApplied, Batch
  <2>8. \A d \in Batch : d # cur'
    BY <2>2, BatchesAssumption DEF Batch
  <2>9. RecordsConsistent' /\ SettledBeforeApplied'
    BY <1>0, <2>1, <2>2, <2>3, <2>4, <2>7, <2>8, OneBatchMoves DEF BatchesTypes
  <2> QED
    BY <2>5, <2>6, <2>9 DEF Safe, BatchesConsistent
<1> QED
  BY <1>1, <1>2, <1>3, <1>4, <1>5, <1>6 DEF PollStep

\* What goes on around both: the provider, the sync, crashes and midnight.
LEMMA OtherKeepsSafe ==
  ASSUME TypeOK, Safe,
         \/ \E b \in Batch : Age(b) \/ JobEnds(b)
         \/ SyncRead \/ SyncAdopt \/ Stabilise
         \/ \E p \in Settings : Crash(p)
         \/ NextDay /\ UNCHANGED <<memory, row, job, history>>
         \/ UNCHANGED vars
  PROVE  Safe'
<1>0. /\ BatchesTypes /\ PollerConsistent /\ SettledBeforeApplied
      /\ \A b \in Batch : RecordConsistent(b)
  BY DEF Safe, BatchesConsistent, RecordsConsistent
<1>1. ASSUME NEW b \in Batch, Age(b) PROVE Safe'
  <2>1. /\ UNCHANGED <<status, verdict, row, job, submit, pending, signal, queue, poller, cur, found, stable,
                       applied, loose>>
        /\ b \in pending /\ aged' = aged \cup {b}
    BY <1>1, SameEffect DEF Age, history
  <2>2. RecordsConsistent' /\ SettledBeforeApplied'
    BY <1>0, <2>1, NoBatchMoves DEF RecordConsistent
  <2>3. BatchesTypes' /\ PollerConsistent'
    BY <1>0, <2>1 DEF BatchesTypes, PollerConsistent, Working
  <2> QED
    BY <2>2, <2>3 DEF Safe, BatchesConsistent
<1>2. ASSUME NEW b \in Batch, JobEnds(b) PROVE Safe'
  <2>1. PICK e \in Endings : job' = [job EXCEPT ![b] = e]
    BY <1>2 DEF JobEnds
  <2>2. /\ UNCHANGED <<status, row, submit, pending, aged, signal, queue, poller, cur, found, stable,
                       applied, loose>>
        /\ job[b] = "processing" /\ verdict[b] = "none" /\ verdict' = [verdict EXCEPT ![b] = "billed"]
    BY <1>2, ProviderEffect DEF JobEnds, memory, history, Batch
  <2>3. /\ verdict'[b] = "billed" /\ \A d \in Batch \ {b} : verdict'[d] = verdict[d]
        /\ job' \in [Batch -> {"none", "processing"} \cup Endings]
        /\ job'[b] = e /\ \A d \in Batch \ {b} : job'[d] = job[d]
    BY <1>0, <2>1, <2>2 DEF BatchesTypes, TypeOK, Batch
  <2>4. b # cur /\ b \notin applied
    BY <1>0, <2>2 DEF RecordConsistent
  <2>5. RecordConsistent(b)'
    BY <1>0, <2>2, <2>3, <2>4 DEF RecordConsistent
  <2>6. RecordsConsistent' /\ SettledBeforeApplied'
    BY <1>0, <2>2, <2>3, <2>4, <2>5, OneBatchMoves DEF BatchesTypes
  <2>7. BatchesTypes'
    BY <1>0, <2>2, <2>3 DEF BatchesTypes
  <2>8. poller = "settle" => cur \in Batch \ {b}
    BY <1>0, <2>4 DEF BatchesTypes, PollerConsistent, Working
  <2>9. PollerConsistent'
    BY <1>0, <2>2, <2>3, <2>8 DEF PollerConsistent, Working
  <2> QED
    BY <2>6, <2>7, <2>9 DEF Safe, BatchesConsistent
<1>3. CASE SyncRead \/ SyncAdopt \/ Stabilise
  <2>1. /\ UNCHANGED <<status, verdict, row, job, submit, aged, queue, poller, cur, applied, loose>>
        /\ pending \subseteq pending' /\ pending' \subseteq pending \cup found
        /\ pending' # {} => signal'
        /\ signal' \in BOOLEAN /\ stable' \in BOOLEAN
        /\ found' \subseteq {b \in Batch : row[b] # "none"}
    BY <1>0, <1>3, SameEffect
       DEF SyncRead, SyncAdopt, Stabilise, Register, memory, history, BatchesTypes, PollerConsistent
  <2>2. RecordsConsistent' /\ SettledBeforeApplied'
    BY <1>0, <2>1, NoBatchMoves DEF RecordConsistent, PollerConsistent
  <2>3. BatchesTypes'
    BY <1>0, <2>1 DEF BatchesTypes
  <2>4. PollerConsistent'
    BY <1>0, <2>1 DEF PollerConsistent, Working
  <2> QED
    BY <2>2, <2>3, <2>4 DEF Safe, BatchesConsistent
<1>4. CASE \E p \in Settings : Crash(p)
  <2>1. /\ UNCHANGED <<status, verdict, row, job, applied, loose, stable>>
        /\ pending' = {} /\ aged' = {} /\ signal' = FALSE
        /\ queue' = {} /\ cur' = NoBatch /\ found' = {} /\ poller' = "boot"
        /\ submit' = [b \in Batch |-> IF submit[b] = "idle" THEN "idle" ELSE "done"]
    BY <1>4, SameEffect DEF Crash, history
  <2>2. ASSUME NEW d \in Batch PROVE RecordConsistent(d)'
    BY <1>0, <2>1, BatchesAssumption DEF RecordConsistent, Batch
  <2>3. BatchesTypes' /\ PollerConsistent'
    BY <1>0, <2>1, BatchesAssumption DEF BatchesTypes, PollerConsistent, Working, Batch
  <2> QED
    BY <1>0, <2>1, <2>2, <2>3 DEF Safe, BatchesConsistent, RecordsConsistent, SettledBeforeApplied
<1>5. CASE (NextDay /\ UNCHANGED <<memory, row, job, history>>) \/ UNCHANGED vars
  <2>1. UNCHANGED <<status, verdict, row, job, submit, pending, aged, signal, queue, poller, cur, found,
                    stable, applied, loose>>
    BY <1>5, SameEffect DEF vars, memory, history
  <2>2. RecordsConsistent' /\ SettledBeforeApplied'
    BY <1>0, <2>1, NoBatchMoves DEF RecordConsistent
  <2>3. BatchesTypes' /\ PollerConsistent'
    BY <1>0, <2>1 DEF BatchesTypes, PollerConsistent, Working
  <2> QED
    BY <2>2, <2>3 DEF Safe, BatchesConsistent
<1> QED
  BY <1>1, <1>2, <1>3, <1>4, <1>5

-----------------------------------------------------------------------------
(* What the handlers recorded without a hold.                               *)

\* A hold that a handler metered itself stays unsettled, and what was recorded
\* without a hold stays within what those batches were billed.
LEMMA StepKeepsChargedOnce ==
  ASSUME TypeOK, HoldsConsistent, Safe, Safe', ChargedOnce, [Next]_vars
  PROVE  ChargedOnce'
<1>0. /\ BatchesTypes /\ unreserved \in [Days -> Nat] /\ loose \in SUBSET Holds
      /\ \A b \in Batch : RecordConsistent(b) /\ RecordConsistent(b)'
      /\ BatchesTypes' /\ bill \in [Holds -> Amounts] /\ today \in Days
  BY DEF Safe, BatchesConsistent, RecordsConsistent, TypeOK, BatchesTypes, Batch
<1>1. \A b \in loose' : status'[b] # "settled"
  BY <1>0 DEF RecordConsistent, BatchesTypes
<1>2. CASE UNCHANGED <<unreserved, loose>> /\ \A b \in loose : bill'[b] = bill[b]
  <2>1. Total(loose, bill) = Total(loose', bill')
    BY <1>0, <1>2, TotalAgree
  <2> QED
    BY <1>1, <1>2, <2>1 DEF ChargedOnce
<1>3. CASE Apply
  <2>1. /\ cur \in Holds /\ cur \notin loose /\ bill[cur] \in Amounts
    BY <1>0, <1>3 DEF Apply, Safe, BatchesConsistent, PollerConsistent, Working, BatchesTypes,
                      RecordConsistent, Batch, Marking
  <2>2. ASSUME NEW c \in 0 .. bill[cur], RecordUnreserved(c), loose' = loose \cup {cur}
        PROVE  ChargedOnce'
    <3>1. bill' = bill /\ unreserved' = [unreserved EXCEPT ![today] = @ + c]
      BY <2>2 DEF RecordUnreserved, worldVars
    <3>2. Total(loose', bill') = Total(loose, bill) + bill[cur]
      BY <1>0, <2>1, <2>2, <3>1, TotalAdd
    <3>3. Total(loose, bill) \in Nat /\ c \in Nat /\ bill[cur] \in Nat /\ c <= bill[cur]
      BY <1>0, <2>1, <2>2, TotalType, LedgerAssumption DEF Amounts
    <3>4. ASSUME NEW d \in Days PROVE unreserved'[d] <= Total(loose', bill')
      <4>1. unreserved[d] <= Total(loose, bill) /\ unreserved[d] \in Nat
        BY <1>0 DEF ChargedOnce
      <4>2. unreserved'[d] = IF d = today THEN unreserved[d] + c ELSE unreserved[d]
        BY <1>0, <3>1
      <4> QED
        BY <3>2, <3>3, <4>1, <4>2
    <3> QED
      BY <1>1, <3>4 DEF ChargedOnce
  <2>3. CASE UNCHANGED <<ledgerVars, loose>>
    BY <1>2, <2>3, SameEffect
  <2> QED
    BY <1>3, <2>2, <2>3 DEF Apply
<1>4. ASSUME NEW b \in Batch, JobEnds(b) PROVE ChargedOnce'
  <2>1. /\ job[b] = "processing" /\ UNCHANGED <<unreserved, loose>>
        /\ \E c \in Amounts : bill' = [bill EXCEPT ![b] = c]
    BY <1>4, ProviderEffect DEF JobEnds, history, Batch
  <2>2. b \notin loose
    BY <1>0, <2>1 DEF RecordConsistent
  <2> QED
    BY <1>0, <1>2, <2>1, <2>2
<1>5. CASE UNCHANGED <<unreserved, loose, bill>>
  BY <1>2, <1>5
<1>6. CASE \E b \in Batch : SubmitStep(b)
  <2> PICK b \in Batch : SubmitStep(b)
    BY <1>6
  <2> QED
    BY <1>5, ReserveEffect, ProviderEffect, SameEffect
       DEF SubmitStep, Admit, NotAdmitted, Create, CreateFails, Record, SubmitDies,
           unchangedBySubmit, history, Batch
<1>7. CASE SettleBatch \/ SettleFails
  <2>1. cur \in Holds
    BY <1>0, <1>7 DEF SettleBatch, SettleFails, Safe, BatchesConsistent, PollerConsistent, Working,
                      BatchesTypes, Batch
  <2> QED
    BY <1>5, <1>7, <2>1, SettleEffect, SameEffect DEF SettleBatch, SettleFails, history
<1>8. CASE \/ Boot \/ Tick \/ TickEnds \/ LookUpHold \/ Finish \/ TickAborts
           \/ SyncRead \/ SyncAdopt \/ Stabilise
           \/ \E b \in Batch : GiveUp(b) \/ NotYet(b) \/ NoResults(b) \/ Fetch(b) \/ Age(b)
  BY <1>5, <1>8, SameEffect
     DEF Boot, Tick, TickEnds, LookUpHold, Finish, TickAborts, SyncRead, SyncAdopt,
         Stabilise, GiveUp, NotYet, NoResults, Fetch, Age, history
<1>9. CASE (\E p \in Settings : Crash(p)) \/ (NextDay /\ UNCHANGED <<memory, row, job, history>>)
           \/ UNCHANGED vars
  BY <1>5, <1>9, SameEffect DEF Crash, vars, history
<1> QED
  BY <1>3, <1>4, <1>6, <1>7, <1>8, <1>9 DEF Next, PollStep

-----------------------------------------------------------------------------
\* All the steps together; a batch that is charged was not charged before.
LEMMA StepKeepsBatchesIInv ==
  ASSUME BatchesIInv, [Next]_vars
  PROVE  BatchesIInv'
<1>0. TypeOK /\ HoldsConsistent /\ IInv /\ Safe /\ ChargedOnce
  BY DEF BatchesIInv, IInv, Safe
<1>1. [LedgerNext]_ledgerVars
  BY <1>0, NextIsLedgerStep DEF Safe
<1>2. IInv'
  BY <1>0, <1>1, LedgerStepKeepsIInv
<1>3. Safe'
  BY <1>0, SubmitKeepsSafe, PollKeepsSafe, OtherKeepsSafe DEF Next
<1>4. ChargedOnce'
  BY <1>0, <1>3, StepKeepsChargedOnce
<1> QED
  BY <1>2, <1>3, <1>4 DEF BatchesIInv, Safe

\* Hence the invariant of every behaviour, from which the theorems follow.
LEMMA BatchesAlwaysSafe == Spec => []BatchesIInv
<1>1. InitBatches => BatchesIInv
  BY InitSafe, InitIInv DEF BatchesIInv, Safe, InitBatches
<1> QED
  BY <1>1, StepKeepsBatchesIInv, PTL DEF Spec

\* A batch on record is settled before its results are applied, no batch is charged
\* both under its hold and without it, and the poller never sleeps on one that is
\* in flight: for any number of batches, failures and restarts.
THEOREM BatchesAreSettledOnce == Spec => []BatchesInv
<1>1. BatchesIInv => BatchesInv
  BY DEF BatchesIInv, BatchesInv, BatchesTypeOK, IInv, NeverAsleepOnABatch, BatchesConsistent,
         PollerConsistent
<1> QED
  BY <1>1, BatchesAlwaysSafe, PTL

\* Submitters, poller, syncs and restarts together use the ledger only as
\* BudgetLedger allows: they settle a batch once, with what it was billed, and
\* never give the hold of one that may be billed back.
THEOREM BatchesUseLedgerAsSpecified == Spec => LedgerSpec
<1>1. InitBatches => Init
  BY DEF InitBatches
<1>2. BatchesIInv /\ [Next]_vars => [LedgerNext]_ledgerVars
  BY NextIsLedgerStep DEF BatchesIInv, IInv
<1> QED
  BY <1>1, <1>2, BatchesAlwaysSafe, PTL DEF Spec, LedgerSpec

\* Batches in flight, restarted and polled again never take the day over a
\* configured limit or into the share of Compare, and every cost the provider
\* billed for them is either settled or still held.
THEOREM BatchesStayInBudget ==
  Spec => [](CeilingHolds /\ CompareShareProtected /\ LedgerIsExact /\ NothingUnaccounted)
<1>1. BatchesIInv =>
        CeilingHolds /\ CompareShareProtected /\ LedgerIsExact /\ NothingUnaccounted
  BY DEF BatchesIInv, IInv, HoldsConsistent, NothingUnaccounted
<1> QED
  BY <1>1, BatchesAlwaysSafe, PTL
=============================================================================
