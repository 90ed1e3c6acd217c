------------------------------- MODULE Batches -------------------------------
(***************************************************************************)
(* Message Batches: submit_batch, the in-flight set and its wake-up signal,*)
(* the poller, and sync_pending_from_db (services/batch_client.py,         *)
(* services/batch_poller.py).                                              *)
(*                                                                         *)
(* One process keeps the set of batches in flight in memory and an         *)
(* api_batches row per batch as its crash-recovery record.  Submitters     *)
(* (pipeline nodes), the poller and the end-of-run sync are coroutines     *)
(* that interleave at every await; a crash loses the memory and restarts   *)
(* with the poller's own sync.  The batch of id b is paid for by hold b of *)
(* the ledger.  The process runs with ai_cost_guard_enabled.               *)
(***************************************************************************)
EXTENDS BudgetLedger

CONSTANTS
    NoBatch,
    MayCrash    \* bound: whether the process is restarted at all

ASSUME BatchesAssumption == MayCrash \in BOOLEAN /\ NoBatch \notin Holds

VARIABLES
    pending,   \* keys of _pending
    aged,      \* those in flight for more than BATCH_GIVEUP_HOURS
    signal,    \* _signal.is_set()
    row,       \* api_batches: row[b] is its status, or "none"
    job,       \* the provider's side of the batch
    submit,    \* submit[b]: where submit_batch stands for b
    poller,    \* where the poller stands
    queue,     \* the batches its current tick has yet to look at
    cur,       \* the batch whose results it is working on
    found,     \* what sync_pending_from_db read and has not adopted yet
    applied,   \* history: the batches whose results a handler has applied
    loose,     \* history: those whose cost was recorded without their hold
    stable     \* the process has been restarted for the last time

memory == <<pending, aged, signal, queue, cur, found, poller, submit>>
history == <<applied, loose, stable>>
vars   == <<ledgerVars, memory, row, job, history>>

Batch == Holds

\* How a batch ends: with results that can be settled ("good"), with results
\* that cannot (usage or model missing, mixed or unpriced models: "opaque") or
\* with no results_url ("empty").
Endings == {"good", "opaque", "empty"}

InitBatches ==
    /\ Init
    /\ pending = {} /\ aged = {} /\ signal = FALSE
    /\ row = [b \in Batch |-> "none"]
    /\ job = [b \in Batch |-> "none"]
    /\ submit = [b \in Batch |-> "idle"]
    /\ poller = "boot" /\ queue = {} /\ cur = NoBatch
    /\ found = {}
    /\ applied = {} /\ loose = {} /\ stable = ~MayCrash

\* Mutant of Register: the batch is adopted and the poller left asleep.
RegisterQuietly(S) == pending' = pending \cup S /\ UNCHANGED <<aged, signal>>

\* register_pending for every batch of S: adopt it and wake the poller.
Register(S) ==
    /\ pending' = pending \cup S
    /\ signal' = (signal \/ S # {})
    /\ aged' = aged

\* _forget: the signal is cleared when nothing is left in flight.
Forget(b) ==
    /\ pending' = pending \ {b}
    /\ aged' = aged \ {b}
    /\ signal' = (signal /\ pending # {b})

\* _mark_status: the UPDATE by id, or an exception that is logged and dropped.
\* A batch without a row makes it a no-op.
MarkStatus(b, s) ==
    \/ row' = IF row[b] = "none" THEN row ELSE [row EXCEPT ![b] = s]
    \/ row' = row

-----------------------------------------------------------------------------
(* submit_batch.  A failed admission, create, or record never raises to the *)
(* pipeline, except that get_pool after create may.                         *)

SubmitTo(b, here, next) ==
    /\ submit[b] = here
    /\ submit' = [submit EXCEPT ![b] = next]

unchangedBySubmit == <<poller, queue, cur, found, history>>

Admit(b) ==
    /\ SubmitTo(b, "idle", "creating")
    /\ \E a \in Amounts : Reserve(b, "background", a)
    /\ UNCHANGED <<pending, aged, signal, row, job, unchangedBySubmit>>

\* Refused or unavailable, or inserted with the answer lost: nothing submitted.
NotAdmitted(b) ==
    /\ SubmitTo(b, "idle", "done")
    /\ (\E a \in Amounts : Reserve(b, "background", a)) \/ UNCHANGED ledgerVars
    /\ UNCHANGED <<pending, aged, signal, row, job, unchangedBySubmit>>

Create(b) ==
    /\ SubmitTo(b, "creating", "recording")
    /\ job' = [job EXCEPT ![b] = "processing"]
    /\ UNCHANGED <<ledgerVars, pending, aged, signal, row, unchangedBySubmit>>

\* Mutant of CreateFails: any failure to create gives the hold back.
CreateFailsReleasing(b) ==
    /\ SubmitTo(b, "creating", "done")
    /\ job' \in {job, [job EXCEPT ![b] = "processing"]}
    /\ Release(b)
    /\ UNCHANGED <<pending, aged, signal, row, unchangedBySubmit>>

\* create raises: refused by the provider, or accepted with the answer lost.
\* Either way submit_batch returns None and keeps the hold.
CreateFails(b) ==
    /\ SubmitTo(b, "creating", "done")
    /\ \/ job' = [job EXCEPT ![b] = "processing"] /\ UNCHANGED ledgerVars
       \/ Refuse(b) /\ UNCHANGED job
    /\ UNCHANGED <<pending, aged, signal, row, unchangedBySubmit>>

\* INSERT INTO api_batches - which may fail - and then register_pending.
Record(b) ==
    /\ SubmitTo(b, "recording", "done")
    /\ row' \in {row, [row EXCEPT ![b] = "processing"]}
    /\ Register({b})
    /\ UNCHANGED <<ledgerVars, job, unchangedBySubmit>>

\* The coroutine is cancelled, or get_pool raises: created, but neither recorded
\* nor in flight.
SubmitDies(b) ==
    /\ SubmitTo(b, "recording", "done")
    /\ UNCHANGED <<ledgerVars, pending, aged, signal, row, job, unchangedBySubmit>>

-----------------------------------------------------------------------------
(* run_batch_poller and poll_pending_batches.                               *)

unchangedByPoller == <<job, submit, found>>

\* The recovery read at start; its failure is logged and the poller goes on.
Boot ==
    /\ poller = "boot" /\ poller' = "wait"
    /\ \/ Register({b \in Batch : row[b] = "processing"})
       \/ UNCHANGED <<pending, aged, signal>>
    /\ UNCHANGED <<ledgerVars, queue, cur, row, history, unchangedByPoller>>

\* Woken by the signal: a tick looks at what is in flight now.
Tick ==
    /\ poller = "wait" /\ signal
    /\ poller' = "scan" /\ queue' = pending
    /\ UNCHANGED <<ledgerVars, pending, aged, signal, cur, row, history,
                   unchangedByPoller>>

TickEnds ==
    /\ poller = "scan" /\ queue = {} /\ poller' = "wait"
    /\ UNCHANGED <<ledgerVars, pending, aged, signal, queue, cur, row, history,
                   unchangedByPoller>>

\* Mutant of GiveUp: the verdict is not recorded.
GiveUpSilently(b) ==
    /\ poller = "scan" /\ b \in queue /\ b \in aged
    /\ queue' = queue \ {b}
    /\ Forget(b)
    /\ UNCHANGED <<ledgerVars, row, poller, cur, history, unchangedByPoller>>

\* In flight for too long: mark it expired, then forget it.
GiveUp(b) ==
    /\ poller = "scan" /\ b \in queue /\ b \in aged
    /\ queue' = queue \ {b}
    /\ MarkStatus(b, "expired")
    /\ Forget(b)
    /\ UNCHANGED <<ledgerVars, poller, cur, history, unchangedByPoller>>

\* retrieve fails, the batch has not ended, or its results cannot be fetched:
\* it stays in flight for the next tick.
NotYet(b) ==
    /\ poller = "scan" /\ b \in queue \ aged
    /\ queue' = queue \ {b}
    /\ UNCHANGED <<ledgerVars, poller, pending, aged, signal, cur, row, history,
                   unchangedByPoller>>

NoResults(b) ==
    /\ poller = "scan" /\ b \in queue \ aged /\ job[b] = "empty"
    /\ queue' = queue \ {b}
    /\ MarkStatus(b, "errored")
    /\ Forget(b)
    /\ UNCHANGED <<ledgerVars, poller, cur, history, unchangedByPoller>>

Fetch(b) ==
    /\ poller = "scan" /\ b \in queue \ aged /\ job[b] \in {"good", "opaque"}
    /\ queue' = queue \ {b}
    /\ cur' = b /\ poller' = "lookup"
    /\ UNCHANGED <<ledgerVars, pending, aged, signal, row, history,
                   unchangedByPoller>>

\* SELECT budget_hold_id: a batch whose row was never written has none and goes
\* to its handler unmetered; results that cannot be settled end the iteration.
LookUpHold ==
    /\ poller = "lookup"
    /\ \/ row[cur] = "none" /\ poller' = "apply" /\ cur' = cur
       \/ row[cur] # "none" /\ job[cur] = "good" /\ poller' = "settle" /\ cur' = cur
       \/ row[cur] # "none" /\ job[cur] = "opaque" /\ poller' = "scan" /\ cur' = NoBatch
    /\ UNCHANGED <<ledgerVars, pending, aged, signal, queue, row, history,
                   unchangedByPoller>>

\* record_usage under the hold returns True: settled now, or already.
SettleBatch ==
    /\ poller = "settle" /\ poller' = "apply"
    /\ \/ status[cur] = "open" /\ Settle(cur, bill[cur])
       \/ status[cur] = "settled" /\ UNCHANGED ledgerVars
    /\ UNCHANGED <<pending, aged, signal, queue, cur, row, history,
                   unchangedByPoller>>

\* It returns False: rolled back, or committed with the acknowledgement lost.
\* The batch stays in flight.
SettleFails ==
    /\ poller = "settle" /\ poller' = "scan" /\ cur' = NoBatch
    /\ \/ status[cur] = "open" /\ Settle(cur, bill[cur])
       \/ UNCHANGED ledgerVars
    /\ UNCHANGED <<pending, aged, signal, queue, row, history, unchangedByPoller>>

\* Mutant of Apply: handlers record their usage whether or not it was settled.
ApplyMetering ==
    /\ poller = "apply" /\ poller' \in {"mark succeeded", "mark errored"}
    /\ applied' = applied \cup {cur} /\ loose' = loose \cup {cur}
    /\ RecordUnreserved(bill[cur])
    /\ UNCHANGED <<pending, aged, signal, queue, cur, row, stable,
                   unchangedByPoller>>

\* The handler writes the results to the articles, and may raise on the way.  A
\* batch that was not settled records its usage itself (log_batch_usage), in a
\* task of its own that may fail.
Apply ==
    /\ poller = "apply" /\ poller' \in {"mark succeeded", "mark errored"}
    /\ applied' = applied \cup {cur}
    /\ \/ /\ row[cur] = "none"
          /\ loose' = loose \cup {cur}
          /\ \E c \in 0 .. bill[cur] :
                (job[cur] = "good" => c = bill[cur]) /\ RecordUnreserved(c)
       \/ UNCHANGED <<ledgerVars, loose>>
    /\ UNCHANGED <<pending, aged, signal, queue, cur, row, stable,
                   unchangedByPoller>>

Finish ==
    /\ poller \in {"mark succeeded", "mark errored"}
    /\ MarkStatus(cur, IF poller = "mark succeeded" THEN "succeeded" ELSE "errored")
    /\ Forget(cur)
    /\ poller' = "scan" /\ cur' = NoBatch
    /\ UNCHANGED <<ledgerVars, queue, history, unchangedByPoller>>

\* A database error outside the guarded calls aborts the tick; the loop of
\* run_batch_poller catches it.
TickAborts ==
    /\ poller \in {"scan", "lookup"} /\ poller' = "wait"
    /\ queue' = {} /\ cur' = NoBatch
    /\ UNCHANGED <<ledgerVars, pending, aged, signal, row, history,
                   unchangedByPoller>>

-----------------------------------------------------------------------------
(* sync_pending_from_db at the end of a pipeline run: what it adopts is what *)
(* it read before its await.                                                *)

SyncRead ==
    /\ found' = {b \in Batch : row[b] = "processing"}
    /\ UNCHANGED <<ledgerVars, pending, aged, signal, row, job, submit, poller,
                   queue, cur, history>>

SyncAdopt ==
    /\ found # {} /\ found' = {}
    /\ Register(found)
    /\ UNCHANGED <<ledgerVars, row, job, submit, poller, queue, cur, history>>

\* BATCH_GIVEUP_HOURS have passed since this process first saw the batch.
Age(b) ==
    /\ b \in pending \ aged
    /\ aged' = aged \cup {b}
    /\ UNCHANGED <<ledgerVars, pending, signal, row, job, submit, poller, queue,
                   cur, found, history>>

\* The provider works on the batch and bills it when it ends.
JobEnds(b) ==
    /\ job[b] = "processing"
    /\ \E e \in Endings : job' = [job EXCEPT ![b] = e]
    /\ \E c \in Amounts : Bill(b, c)
    /\ UNCHANGED <<memory, row, history>>

\* From here on the process keeps running.
Stabilise ==
    /\ ~stable /\ stable' = TRUE
    /\ UNCHANGED <<ledgerVars, memory, row, job, applied, loose>>

\* The process dies; the next one starts with an empty memory.  A batch being
\* created may have reached the provider.
Crash(p) ==
    /\ ~stable
    /\ Deploy(p)
    /\ pending' = {} /\ aged' = {} /\ signal' = FALSE
    /\ queue' = {} /\ cur' = NoBatch /\ found' = {} /\ poller' = "boot"
    /\ submit' = [b \in Batch |-> IF submit[b] = "idle" THEN "idle" ELSE "done"]
    /\ UNCHANGED <<row, job, history>>

SubmitStep(b) ==
    \/ Admit(b) \/ NotAdmitted(b) \/ Create(b) \/ CreateFails(b)
    \/ Record(b) \/ SubmitDies(b)

PollStep ==
    \/ Boot \/ Tick \/ TickEnds
    \/ \E b \in Batch : GiveUp(b) \/ NotYet(b) \/ NoResults(b) \/ Fetch(b)
    \/ LookUpHold \/ SettleBatch \/ SettleFails \/ Apply \/ Finish \/ TickAborts

Next ==
    \/ \E b \in Batch : SubmitStep(b) \/ Age(b) \/ JobEnds(b)
    \/ PollStep
    \/ SyncRead \/ SyncAdopt
    \/ Stabilise
    \/ \E p \in Settings : Crash(p)
    \/ NextDay /\ UNCHANGED <<memory, row, job, history>>

Spec == InitBatches /\ [][Next]_vars

\* Marked b for good, at whichever end of its poll.
Resolve(b) ==
    /\ GiveUp(b) \/ NoResults(b) \/ (cur = b /\ Finish)
    /\ row'[b] # "processing"

\* The event loop runs coroutines that can run, time passes, and get_pool does
\* not fail for ever just when a batch is to be given up.  Crashes, pipeline runs
\* and the provider owe nothing.
PollSpec ==
    /\ Spec
    /\ WF_vars(PollStep)
    /\ \A b \in Batch : WF_vars(Age(b)) /\ SF_vars(GiveUp(b))

\* Besides, pipeline runs, each ending in a sync, keep coming, and a status
\* UPDATE that is tried again and again goes through at last.
FairSpec ==
    /\ PollSpec
    /\ WF_vars(SyncRead) /\ WF_vars(SyncAdopt)
    /\ \A b \in Batch : SF_vars(Resolve(b))

-----------------------------------------------------------------------------
BatchesTypes ==
    /\ aged \subseteq pending /\ pending \subseteq Batch /\ queue \subseteq pending
    /\ signal \in BOOLEAN /\ stable \in BOOLEAN
    /\ row \in [Batch -> {"none", "processing", "succeeded", "errored", "expired"}]
    /\ job \in [Batch -> {"none", "processing"} \cup Endings]
    /\ submit \in [Batch -> {"idle", "creating", "recording", "done"}]
    /\ poller \in {"boot", "wait", "scan", "lookup", "settle", "apply",
                   "mark succeeded", "mark errored"}
    /\ cur \in pending \cup {NoBatch}
    /\ found \subseteq Batch /\ applied \subseteq Batch /\ loose \subseteq Batch

BatchesTypeOK == TypeOK /\ BatchesTypes

(* A batch that is on record has its cost settled before any of its results   *)
(* is applied, through every failed settlement, re-adoption and restart       *)
(* ("Settle once before applying results" in poll_pending_batches).           *)
SettledBeforeApplied ==
    \A b \in applied : row[b] # "none" => status[b] = "settled"

(* No batch is charged twice: one whose handler recorded its usage without    *)
(* the hold is never settled as well, and it records its usage only once.     *)
ChargedOnce ==
    /\ \A b \in loose : status[b] # "settled"
    /\ \A d \in Days : unreserved[d] <= Total(loose, bill)

(* No wake-up is lost: the poller never sleeps on a batch that is in flight,   *)
(* however registrations, syncs and the forgetting of other batches interleave *)
(* (the signal is cleared "so the poller can sleep", in _forget).              *)
NeverAsleepOnABatch == poller = "wait" /\ pending # {} => signal

Working == poller \notin {"boot", "wait", "scan"}
Marking == poller \in {"mark succeeded", "mark errored"}

PollerConsistent ==
    /\ cur # NoBatch <=> Working
    /\ cur \notin queue /\ (poller \in {"boot", "wait"} => queue = {})
    /\ poller = "settle" => row[cur] # "none" /\ job[cur] = "good"
    /\ poller = "apply"  => row[cur] = "none" \/ status[cur] = "settled"
    /\ pending # {} => signal
    /\ \A b \in found : row[b] # "none"

\* What submit_batch, the provider, the row and the handlers know of a batch.
RecordConsistent(b) ==
    /\ b \in pending \/ row[b] # "none" => submit[b] = "done"
    /\ job[b] \in Endings => verdict[b] = "billed"
    /\ status[b] = "settled" => row[b] # "none"
    /\ b \in applied \/ b = cur => job[b] \in {"good", "opaque"} /\ submit[b] = "done"
    /\ b \in loose =>
          row[b] = "none" /\ b \in applied /\ (b \in pending => b = cur /\ Marking)

RecordsConsistent == \A b \in Batch : RecordConsistent(b)

(* The poller, the rows and what is in flight belong together: a batch is     *)
(* recorded and adopted once, its results are looked at only after it ended,  *)
(* and one whose usage its handler recorded is not taken up again.            *)
BatchesConsistent == PollerConsistent /\ RecordsConsistent

(* The batches' safety in one: their cost reaches the ledger before their     *)
(* results, once, and none of them is slept on.                               *)
BatchesInv ==
    /\ BatchesTypeOK /\ BatchesConsistent
    /\ SettledBeforeApplied /\ ChargedOnce /\ NeverAsleepOnABatch

(* A recorded batch does not stay "processing": once the process stays up,    *)
(* failed recovery reads and failed status updates notwithstanding.           *)
RecordedBatchesResolve ==
    \A b \in Batch : (stable /\ row[b] = "processing") ~> row[b] # "processing"

(* And nothing is polled for ever then: every batch is out of the in-flight   *)
(* set for good, re-adoption by later syncs included.                         *)
NothingStaysInFlight == (<>stable) => \A b \in Batch : <>[](b \notin pending)
=============================================================================
