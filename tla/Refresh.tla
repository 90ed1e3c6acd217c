------------------------------ MODULE Refresh ------------------------------
(***************************************************************************)
(* What keeps the feed fresh: the scheduled refresh and the start-up of    *)
(* app/main.py, app/pipeline_clock.py, POST /pipeline/refresh, the GitHub  *)
(* heartbeat that watches /health, and the daily Compare example of        *)
(* services/daily_compare.py.                                              *)
(*                                                                         *)
(* Time passes in ticks of half an hour, the interval of the scheduler and *)
(* of the heartbeat.  A pipeline run is one step here (Ingest models it).  *)
(***************************************************************************)
EXTENDS Integers

CONSTANTS
    LastDay,   \* bound: the UTC days considered
    Stale      \* ticks after which the heartbeat calls the clock stale (70 minutes)

ASSUME RefreshAssumption == LastDay \in Nat /\ Stale \in Nat \ {0}

VARIABLES
    up, hung,      \* the process runs; its scheduled run never came back
    due,           \* jobs whose turn in this tick is still to come
    clock, table,  \* ticks since the last run, in memory and in pipeline_state
    dbOk,          \* _db_ok
    trouble,       \* while TRUE, runs, queries and the process may fail
    today,
    example,       \* the UTC day of generated_at, -1 before the first
    phase, forced, \* where the one refresh of the example is
    stored         \* examples stored today by unforced refreshes

serverVars  == <<up, hung>>
clockVars   == <<clock, table, dbOk>>
exampleVars == <<example, phase, forced, stored>>
refreshVars == <<serverVars, due, clockVars, trouble, today, exampleVars>>

Jobs == {"scheduler", "heartbeat"}

InitRefresh ==
    /\ up = FALSE /\ hung = FALSE /\ due = {} /\ trouble = TRUE /\ today = 0
    /\ clock = Stale /\ table = Stale /\ dbOk = FALSE
    /\ example = -1 /\ phase = "idle" /\ forced = FALSE /\ stored = 0

Turn(job)  == job \in due /\ due' = due \ {job}
Older(age) == IF age < Stale THEN age + 1 ELSE Stale

-----------------------------------------------------------------------------
(* The process.                                                             *)

\* lifespan: the clock is seeded from pipeline_state, or stays unknown.
Start ==
    /\ ~up /\ up' = TRUE
    /\ \/ clock' = table /\ dbOk' = TRUE
       \/ trouble /\ clock' = Stale /\ dbOk' = FALSE
    /\ UNCHANGED <<hung, due, table, trouble, today, exampleVars>>

Dies ==
    /\ up /\ trouble
    /\ up' = FALSE /\ hung' = FALSE /\ phase' = "idle" /\ forced' = FALSE
    /\ UNCHANGED <<due, clockVars, trouble, today, example, stored>>

\* Mutant of NoteRun: the caller that runs on schedule notes the run.
NoteScheduledRun(by) ==
    IF by = "scheduler" THEN clock' = 0 /\ dbOk' = TRUE ELSE UNCHANGED <<clock, dbOk>>

\* note_pipeline_run, from store_node: whoever asked for the run.
NoteRun(by) == clock' = 0 /\ dbOk' = TRUE

\* store_node: the UPDATE of pipeline_state may fail, the clock advances anyway.
RunWorks(by) == NoteRun(by) /\ table' \in IF trouble THEN {0, table} ELSE {0}
RunFails     == trouble /\ UNCHANGED clockVars

ScheduledRun ==
    /\ up /\ ~hung /\ Turn("scheduler")
    /\ \/ (RunWorks("scheduler") \/ RunFails) /\ UNCHANGED hung
       \/ trouble /\ hung' = TRUE /\ UNCHANGED clockVars
    /\ UNCHANGED <<up, trouble, today, exampleVars>>

NoScheduledRun ==
    (~up \/ hung) /\ Turn("scheduler") /\ UNCHANGED <<serverVars, clockVars, trouble, today, exampleVars>>

-----------------------------------------------------------------------------
(* POST /pipeline/refresh and the heartbeat.                                *)

\* refresh_daily_example: skipped while another one holds the lock.
Begin(by) == IF phase = "idle" THEN phase' = "asked" /\ forced' = (by = "operator")
                               ELSE UNCHANGED <<phase, forced>>

RequestedRun ==
    /\ up
    /\ \/ RunWorks("request") /\ Begin("request")
       \/ RunFails /\ UNCHANGED <<phase, forced>>
    /\ UNCHANGED <<serverVars, trouble, today, example, stored>>

Request == RequestedRun /\ UNCHANGED due

Heartbeat ==
    /\ Turn("heartbeat")
    /\ IF up /\ clock = Stale THEN RequestedRun
       ELSE UNCHANGED <<serverVars, clockVars, trouble, today, exampleVars>>

\* GET /health?deep=1 remembers an error and never the contrary.
DeepHealth ==
    /\ up /\ trouble /\ dbOk' = FALSE
    /\ UNCHANGED <<serverVars, due, clock, table, trouble, today, exampleVars>>

-----------------------------------------------------------------------------
(* The daily example.                                                       *)

ForceRefresh ==
    /\ up /\ Begin("operator")
    /\ UNCHANGED <<serverVars, due, clockVars, trouble, today, example, stored>>

Wanted == forced \/ example # today

\* The row, a topic and the budget, then up to 90 seconds of Compare.
CheckExample ==
    /\ phase = "asked"
    /\ \/ Wanted /\ phase' = "comparing"
       \/ (~Wanted \/ trouble) /\ phase' = "idle"
    /\ UNCHANGED <<serverVars, due, clockVars, trouble, today, example, forced, stored>>

StoreExample ==
    /\ phase = "comparing" /\ phase' = "idle"
    /\ example' = today
    /\ stored' = IF forced THEN stored ELSE stored + 1
    /\ UNCHANGED <<serverVars, due, clockVars, trouble, today, forced>>

\* A timeout, an error, or fewer than two outlets with coverage.
NoExample ==
    /\ phase = "comparing" /\ trouble /\ phase' = "idle"
    /\ UNCHANGED <<serverVars, due, clockVars, trouble, today, example, forced, stored>>

-----------------------------------------------------------------------------
Tick ==
    /\ due = {} /\ due' = Jobs
    /\ clock' = Older(clock) /\ table' = Older(table)
    /\ UNCHANGED <<serverVars, dbOk, trouble, today, exampleVars>>

Midnight ==
    /\ today < LastDay /\ today' = today + 1 /\ stored' = 0
    /\ UNCHANGED <<serverVars, due, clockVars, trouble, example, phase, forced>>

TroubleEnds == trouble /\ trouble' = FALSE /\ UNCHANGED <<serverVars, due, clockVars, today, exampleVars>>

RefreshNext ==
    \/ Start \/ Dies \/ ScheduledRun \/ NoScheduledRun \/ Request \/ Heartbeat \/ DeepHealth
    \/ ForceRefresh \/ CheckExample \/ StoreExample \/ NoExample \/ Tick \/ Midnight \/ TroubleEnds

RefreshFairness ==
    /\ WF_refreshVars(Start) /\ WF_refreshVars(TroubleEnds) /\ WF_refreshVars(Tick)
    /\ WF_refreshVars(ScheduledRun \/ NoScheduledRun) /\ WF_refreshVars(Heartbeat)
    /\ WF_refreshVars(CheckExample \/ StoreExample)

RefreshSpec == InitRefresh /\ [][RefreshNext]_refreshVars /\ RefreshFairness

-----------------------------------------------------------------------------
(* Properties.                                                              *)

\* The clock is not stale, and no database error is remembered.
Healthy == up /\ clock # Stale /\ dbOk

\* A stale clock or a remembered database error of a process does not stay, even
\* with the scheduler's run hanging for ever: the heartbeat's run advances the
\* clock, too.
StallsAreHealed == []<>Healthy

\* "At most one compare per day": refreshes that overlap each other, midnight,
\* forced ones and restarts store one example a day.
OneExampleADay == stored <= 1
=============================================================================
