------------------------------ MODULE Metering ------------------------------
(***************************************************************************)
(* Metering: which model serves a call, what it is expected to cost, and   *)
(* the recording of what it did cost -- services/model_registry.py,        *)
(* llm_client.py, usage_tracker.py and cost_estimates.py, with the parts   *)
(* of paid_calls.py and batch_client.py that decide who records a call.    *)
(*                                                                         *)
(* Under the cost guard the paid boundary settles a call's hold with its   *)
(* usage and marks the response; without it the call site schedules a      *)
(* best-effort task.  Both run at every call, and the mark is what keeps   *)
(* the second from recording what the first has.  The ledger's own         *)
(* transactions are LedgerTransactions; here a write happens or fails.     *)
(***************************************************************************)
EXTENDS Integers, Sequences, FiniteSets, SequencesExt

CONSTANTS
    Models,      \* catalog id -> [wires, anthropic, can, half]: its wire ids (snapshot and
                 \* aliases), its provider, its capabilities, whether batches are half price
    Prices,      \* wire id -> [in, out], what a token of either costs
    Operations,  \* operation -> [incumbent, needs, batch, tokens], the tokens [in, out]
                 \* of a call of it, which its baseline was measured with
    Settings,    \* the overrides a deployment may carry: operation -> catalog id
    MaxDeploys

ASSUME MeteringAssumption ==
    /\ \A m \in DOMAIN Models : Models[m].wires \cap DOMAIN Prices # {}
    /\ \A w \in DOMAIN Prices : Prices[w].in \in Nat \ {0} /\ Prices[w].out \in Nat \ {0}
    /\ \A o \in DOMAIN Operations : Operations[o].incumbent \in DOMAIN Models
    /\ "haiku" \in DOMAIN Prices
    /\ \A o \in DOMAIN Operations : Operations[o].tokens.in \in Nat /\ Operations[o].tokens.out \in Nat
    /\ MaxDeploys \in Nat

\* What the catalog and the price table say: the ids of a model cost the same, a model
\* that has batches has them at half price, which is a whole number of units, and an
\* operation that is sent in batches is so on its incumbent too.
ASSUME RatesAssumption ==
    /\ \A m \in DOMAIN Models : \A v, w \in Models[m].wires \cap DOMAIN Prices : Prices[v] = Prices[w]
    /\ \A m \in DOMAIN Models : "batch" \in Models[m].can => Models[m].half
    /\ \A w \in DOMAIN Prices : Prices[w].in % 2 = 0 /\ Prices[w].out % 2 = 0
    /\ \A o \in DOMAIN Operations : Operations[o].batch =>
          "batch" \in Operations[o].needs /\ "batch" \in Models[Operations[o].incumbent].can

VARIABLES
    conf,   \* [guard, overrides, deploys] of the running process
    paid,   \* operation -> its call: [pc, model, served, estimate, held, settled, marked,
            \* metered], the estimate a fraction
    queue,  \* operation -> costs of its record tasks that have not run
    usage   \* operation -> costs the ledger has for it

meterVars == <<conf, paid, queue, usage>>

NoCall == [pc |-> "new", model |-> "", served |-> "", estimate |-> <<0, 1>>, held |-> FALSE,
           settled |-> FALSE, marked |-> FALSE, metered |-> FALSE]

InitMetering ==
    /\ conf = [guard |-> FALSE, overrides |-> <<>>, deploys |-> 0]
    /\ paid = [o \in DOMAIN Operations |-> NoCall]
    /\ queue = [o \in DOMAIN Operations |-> <<>>]
    /\ usage = [o \in DOMAIN Operations |-> <<>>]

-----------------------------------------------------------------------------
(* Models and prices.                                                       *)

\* resolve: the override, when the operation and the model exist and the model can
\* do what the operation needs; else the incumbent.
Resolve(o) ==
    LET wanted == IF o \in DOMAIN conf.overrides THEN conf.overrides[o] ELSE ""
    IN  IF wanted \in DOMAIN Models /\ Operations[o].needs \subseteq Models[wanted].can
        THEN wanted ELSE Operations[o].incumbent

\* prices_for: an unknown id is costed at the default model's rates.
PriceOf(w) == IF w \in DOMAIN Prices THEN Prices[w] ELSE Prices["haiku"]

\* What a call of o costs on w.
CostOf(w, o) == PriceOf(w).in * Operations[o].tokens.in + PriceOf(w).out * Operations[o].tokens.out

\* batch_price_multiplier_for: by any wire id of a model; unknown is full price.
BatchPrice(w, o) ==
    IF \E m \in DOMAIN Models : w \in Models[m].wires /\ Models[m].half
    THEN CostOf(w, o) \div 2 ELSE CostOf(w, o)

\* The snapshot is the id put on the wire, and the one `resolve(...).model` names.
Snapshot(m) == CHOOSE w \in Models[m].wires : w \in DOMAIN Prices

\* BASELINE: what an operation was measured to cost on its incumbent.
Baseline(o) ==
    LET w == Snapshot(Operations[o].incumbent)
    IN  IF Operations[o].batch THEN BatchPrice(w, o) ELSE CostOf(w, o)

\* estimate_cost: the baseline, on another model times the worse of the two ratios of
\* their prices.
Estimate(o) ==
    LET known == PriceOf(Snapshot(Operations[o].incumbent))
        other == PriceOf(Snapshot(Resolve(o)))
    IN  IF other.in * known.out >= other.out * known.in
        THEN <<Baseline(o) * other.in, known.in>> ELSE <<Baseline(o) * other.out, known.out>>

\* A bound exists for priced models only, and guarded calls go to Anthropic only.
Admitted(m) == Models[m].anthropic /\ Snapshot(m) \in DOMAIN Prices

-----------------------------------------------------------------------------
(* A call that waits for its answer.                                        *)

\* complete, budgeted_message: refused by the preflight or the ledger, or sent with or without a hold.
Send(o) ==
    /\ paid[o].pc = "new" /\ ~Operations[o].batch
    /\ \/ paid' = [paid EXCEPT ![o].pc = "refused"]
       \/ /\ conf.guard => Admitted(Resolve(o))
          /\ paid' = [paid EXCEPT ![o].pc = "sent", ![o].model = Snapshot(Resolve(o)),
                                  ![o].estimate = Estimate(o), ![o].held = conf.guard]
    /\ UNCHANGED <<conf, queue, usage>>

\* No usage in the answer, or the settling write fails: the hold stays and the caller
\* gets an error.  So it does when the call fails.
AnswerHeld(o) ==
    /\ paid[o].pc = "sent" /\ paid[o].held
    /\ paid' = [paid EXCEPT ![o].pc = "failed"]
    /\ UNCHANGED <<conf, queue, usage>>

\* The hold is settled with the usage, and the response marked.
AnswerSettled(o) ==
    /\ paid[o].pc = "sent" /\ paid[o].held
    /\ usage' = [usage EXCEPT ![o] = Append(@, CostOf(paid[o].model, o))]
    /\ paid' = [paid EXCEPT ![o].pc = "answered", ![o].settled = TRUE, ![o].marked = TRUE]
    /\ UNCHANGED <<conf, queue>>

AnswerUnguarded(o) ==
    /\ paid[o].pc = "sent" /\ ~paid[o].held
    /\ paid' = [paid EXCEPT ![o].pc = "answered"]
    /\ UNCHANGED <<conf, queue, usage>>

\* log_usage at the call site, also through the _LedgerView of an adapted response:
\* nothing for a marked response, else a task on the running loop.
LogUsage(o) ==
    /\ paid[o].pc = "answered"
    /\ queue' = IF paid[o].marked THEN queue
                ELSE [queue EXCEPT ![o] = Append(@, CostOf(Snapshot(Resolve(o)), o))]
    /\ paid' = [paid EXCEPT ![o].pc = "logged"]
    /\ UNCHANGED <<conf, usage>>

-----------------------------------------------------------------------------
(* A message batch.                                                         *)

\* A model of another provider is refused outright.
SendBatch(o) ==
    /\ paid[o].pc = "new" /\ Operations[o].batch /\ Models[Resolve(o)].anthropic
    /\ \E w \in Models[Resolve(o)].wires :
         paid' = [paid EXCEPT ![o].pc = "working", ![o].model = Snapshot(Resolve(o)),
                              ![o].estimate = Estimate(o), ![o].served = w, ![o].held = conf.guard]
    /\ UNCHANGED <<conf, queue, usage>>

\* Results with a hold: settled at the rates of the model that served them.  One that
\* is settled already is not charged again.  An unpriced model leaves the batch.
SettleBatch(o) ==
    /\ paid[o].pc = "working" /\ paid[o].held /\ paid[o].served \in DOMAIN Prices
    /\ usage' = IF paid[o].settled THEN usage
                ELSE [usage EXCEPT ![o] = Append(@, BatchPrice(paid[o].served, o))]
    /\ paid' = [paid EXCEPT ![o].pc = "handling", ![o].settled = TRUE, ![o].metered = TRUE]
    /\ UNCHANGED <<conf, queue>>

\* Results without one go to the handler unmetered.
TakeBatch(o) ==
    /\ paid[o].pc = "working" /\ ~paid[o].held
    /\ paid' = [paid EXCEPT ![o].pc = "handling", ![o].metered = FALSE]
    /\ UNCHANGED <<conf, queue, usage>>

\* Mutant of HandlerLogs: the handler does not look at batch_already_metered.
HandlerAlwaysLogs(o) ==
    queue' = [queue EXCEPT ![o] = Append(@, BatchPrice(Snapshot(Resolve(o)), o))]

\* log_batch_usage in the handler, at the rates of the model resolved by now.
HandlerLogs(o) ==
    queue' = IF paid[o].metered THEN queue
             ELSE [queue EXCEPT ![o] = Append(@, BatchPrice(Snapshot(Resolve(o)), o))]

\* The results are applied and the batch is done, or its status UPDATE fails and it
\* is taken again (bounded: one task of a batch waits at a time).
HandleBatch(o) ==
    /\ paid[o].pc = "handling" /\ queue[o] = <<>> /\ Len(usage[o]) < 3
    /\ HandlerLogs(o)
    /\ \E after \in {"done", "working"} : paid' = [paid EXCEPT ![o].pc = after]
    /\ UNCHANGED <<conf, usage>>

-----------------------------------------------------------------------------
(* Record tasks and deployments.                                            *)

\* record_usage without a hold: "lost telemetry must not break the pipeline".
RecordTask(o) ==
    /\ queue[o] # <<>>
    /\ queue' = [queue EXCEPT ![o] = Tail(@)]
    /\ \/ usage' = [usage EXCEPT ![o] = Append(@, Head(queue[o]))]
       \/ UNCHANGED usage
    /\ UNCHANGED <<conf, paid>>

\* The process stops, and the next one has other settings: its tasks and the calls it
\* waited for are gone; a batch stays at the provider.
Deploy(g, overrides) ==
    /\ conf.deploys < MaxDeploys
    /\ conf' = [guard |-> g, overrides |-> overrides, deploys |-> conf.deploys + 1]
    /\ queue' = [o \in DOMAIN Operations |-> <<>>]
    /\ paid' = [o \in DOMAIN Operations |->
                  CASE paid[o].pc \in {"sent", "answered"} -> [paid[o] EXCEPT !.pc = "gone"]
                    [] paid[o].pc = "handling"             -> [paid[o] EXCEPT !.pc = "working"]
                    [] OTHER                               -> paid[o]]
    /\ UNCHANGED usage

MeterNext ==
    \/ \E o \in DOMAIN Operations :
         \/ Send(o) \/ AnswerHeld(o) \/ AnswerSettled(o) \/ AnswerUnguarded(o) \/ LogUsage(o)
         \/ SendBatch(o) \/ SettleBatch(o) \/ TakeBatch(o) \/ HandleBatch(o)
         \/ RecordTask(o)
    \/ \E g \in BOOLEAN, overrides \in Settings : Deploy(g, overrides)

MeterSpec == InitMetering /\ [][MeterNext]_meterVars

-----------------------------------------------------------------------------
(* Properties.                                                              *)

\* A guarded call is metered exactly once from the moment its answer is used, and
\* an unguarded one at most once, whichever of the boundary, the call site and the
\* batch handler come to log it, and however often and under which settings.
\* (An unguarded batch that is taken again is recorded again.)
MeteredOnce ==
    \A o \in DOMAIN Operations :
        /\ paid[o].held =>
             /\ Len(usage[o]) + Len(queue[o]) <= 1
             /\ paid[o].pc \in {"answered", "logged", "handling", "done"} => Len(usage[o]) = 1
        /\ ~paid[o].held /\ ~Operations[o].batch => Len(usage[o]) + Len(queue[o]) <= 1

\* What a guarded call is charged is what the model that served it bills: a batch at
\* half price under any of the model's names, whatever override a deployment has
\* brought meanwhile.
ChargedAsServed ==
    \A o \in DOMAIN Operations : \A i \in DOMAIN usage[o] :
        paid[o].held =>
            IF Operations[o].batch
            THEN \E m \in DOMAIN Models :
                   /\ paid[o].served \in Models[m].wires
                   /\ usage[o][i] = CostOf(paid[o].served, o) \div (IF Models[m].half THEN 2 ELSE 1)
            ELSE usage[o][i] = CostOf(paid[o].model, o)

\* The preflight was told no less than what the call came to, on a model that was
\* never measured too ("the direction a fail-closed ceiling can survive").
EstimatedEnough ==
    \A o \in DOMAIN Operations : \A i \in DOMAIN usage[o] :
        paid[o].held =>
            usage[o][i] * paid[o].estimate[2] <= paid[o].estimate[1]

\* Each call is metered once, as the model that served it bills and as was foreseen.
MeteredAsServed == MeteredOnce /\ ChargedAsServed /\ EstimatedEnough
=============================================================================
