------------------------------ MODULE Schema ------------------------------
(***************************************************************************)
(* Startup migrations: init_pool and _apply_migrations of app/db.py.       *)
(*                                                                         *)
(* Every process that starts runs the same list of statements, each in     *)
(* autocommit, before it serves.  It may die between two of them, and a    *)
(* deploy starts one process while another runs.  A statement fails when   *)
(* something it names is not there.                                        *)
(*                                                                         *)
(* Indexes, triggers and constraints are left out, and columns nothing     *)
(* later in the list names.                                                *)
(***************************************************************************)
EXTENDS Integers, Sequences, FiniteSets

CONSTANTS
    Servers,       \* the processes that start
    InitSql,       \* what init.sql created
    MaxDeaths      \* bounds the startups cut short

ASSUME SchemaAssumption == Servers # {} /\ {"articles", "stories"} \subseteq InitSql /\ MaxDeaths \in Nat

VARIABLES
    schema,     \* the tables, and the columns later statements name
    justices,   \* the table that holds the rows of judge_profiles
    at,         \* the next statement of each process; 0 when it is down
    deaths

schemaVars == <<schema, justices, at, deaths>>

\* A statement needs what it names, and makes or drops something.
Creates(t)      == [needs |-> {}, makes |-> {t}, drops |-> {}]
Refers(t, to)   == [needs |-> {to}, makes |-> {t}, drops |-> {}]
Adds(t, column) == [needs |-> {t}, makes |-> {column}, drops |-> {}]
Drops(t, column) == [needs |-> {t}, makes |-> {}, drops |-> {column}]
Reads(ts)       == [needs |-> ts, makes |-> {}, drops |-> {}]

BudgetAndFeed ==
    << Adds("articles", "generation_status"), Adds("stories", "stories.copy_rules_version"),
       Adds("articles", "content_hash"),
       Creates("api_batches"),
       Creates("ai_budget_policy"), Creates("ai_budget_holds"),
       Adds("api_batches", "budget_hold_id"),
       Adds("stories", "headline_aliases"),
       Reads({"ai_budget_policy"}), Reads({"articles", "stories"}),
       Adds("articles", "context_primer") >>

Profiles ==
    << Creates("outlet_profiles"), Refers("source_name_aliases", "outlet_profiles"),
       Creates("politician_profiles"), Creates("org_profiles"),
       Refers("bill_profiles", "politician_profiles"),
       Adds("articles", "entity_links") >>

\* Mutant of Measures: the claims of an organization are altered before the
\* table is there.
MeasuresTooEarly ==
    << Adds("term_profiles", "coverage_computed_at"),
       Creates("search_queries"), Creates("primer_expand_events"), Creates("ai_usage_daily"),
       Adds("org_profiles", "self_description"), Adds("org_profiles", "annual_budget_source"),
       Drops("org_profiles", "political_lean") >>

Measures ==
    << Creates("search_queries"), Creates("primer_expand_events"), Creates("ai_usage_daily"),
       Adds("org_profiles", "self_description"), Adds("org_profiles", "annual_budget_source"),
       Drops("org_profiles", "political_lean") >>

Officials ==
    << Creates("entity_aliases"), Adds("entity_aliases", "match_case"),
       Adds("politician_profiles", "id_source"), Adds("politician_profiles", "role_verified_at"),
       Reads({"politician_profiles", "id_source", "role_verified_at"}) >>

\* The block that retires judge_profiles is one statement: see MoveJudges.
Retire == << [needs |-> {"politician_profiles", "id_source"}, makes |-> {}, drops |-> {"judge_profiles"}] >>

ThreadingAndStops ==
    << Adds("articles", "threaded_at"), Creates("threading_shadow"), Creates("llm_output_stops"),
       Reads({"politician_profiles"}) >>

Ranking ==
    << Adds("articles", "tone"), Creates("daily_compare_example"), Creates("feed_balance"),
       Adds("articles", "is_opinion"), Adds("feed_balance", "opinion_share_top10"),
       Adds("articles", "is_roundup"), Adds("articles", "genre"),
       Adds("stories", "synthesis_attempts"), Reads({"stories", "synthesis_attempts"}) >>

EdgesAndTokens ==
    << Creates("funding_edges"), Adds("funding_edges", "review_decision"),
       Reads({"funding_edges", "review_decision"}),
       Adds("ai_usage_daily", "input_tokens"), Adds("llm_output_stops", "model"),
       Reads({"llm_output_stops", "model"}) >>

Terms ==
    << Reads({"articles"}), Creates("term_profiles"), Creates("primer_term_keys"),
       Reads({"articles", "context_primer", "primer_term_keys"}),
       Adds("term_profiles", "coverage_computed_at") >>

Statements ==
    BudgetAndFeed \o Profiles \o Measures \o Officials \o Retire
    \o ThreadingAndStops \o Ranking \o EdgesAndTokens \o Terms

Serving == Len(Statements) + 1

InitSchema ==
    /\ schema \in {InitSql, InitSql \cup {"judge_profiles"}}
    /\ justices = (IF "judge_profiles" \in schema THEN "judge_profiles" ELSE "politician_profiles")
    /\ at = [p \in Servers |-> 0] /\ deaths = 0

-----------------------------------------------------------------------------

\* init_pool.
StartServer(p) ==
    /\ at[p] = 0 /\ at' = [at EXCEPT ![p] = 1]
    /\ UNCHANGED <<schema, justices, deaths>>

Runs(p) == Statements[at[p]]

\* The rows of judge_profiles move in the statement that drops it.
MoveJudges(p) ==
    IF Runs(p).drops \cap schema = {"judge_profiles"} THEN "politician_profiles" ELSE justices

\* Two processes that create the same table at the same time: PostgreSQL may
\* fail the one that commits second, IF NOT EXISTS or not.
Racing(p) == {q \in Servers \ {p} : at[q] = at[p] /\ ~(Runs(p).makes \subseteq schema)}

\* A statement that fails makes init_pool raise, and the process starts again.
Migrate(p) ==
    /\ at[p] \in 1..Len(Statements)
    /\ IF Runs(p).needs \subseteq schema
       THEN /\ schema' = (schema \cup Runs(p).makes) \ Runs(p).drops
            /\ justices' = MoveJudges(p)
            /\ \E failed \in SUBSET Racing(p) :
                 at' = [q \in Servers |-> IF q = p THEN at[p] + 1 ELSE IF q \in failed THEN 0 ELSE at[q]]
       ELSE at' = [at EXCEPT ![p] = 0] /\ UNCHANGED <<schema, justices>>
    /\ UNCHANGED deaths

\* close_pool, a deploy, or a crash: also while the statements run.
ServerStops(p) ==
    /\ at[p] # 0 /\ deaths < MaxDeaths
    /\ at' = [at EXCEPT ![p] = 0] /\ deaths' = deaths + 1
    /\ UNCHANGED <<schema, justices>>

SchemaNext == \E p \in Servers : StartServer(p) \/ Migrate(p) \/ ServerStops(p)

SchemaFairness == \A p \in Servers : WF_schemaVars(StartServer(p) \/ Migrate(p))

-----------------------------------------------------------------------------
(* Properties.                                                              *)

\* Every process serves, and the justices are in politician_profiles.
MigratedAndServing == justices = "politician_profiles" /\ \A p \in Servers : at[p] = Serving

\* However many startups were cut short, and wherever, and whoever else is
\* migrating, every process comes to serve and stays so, and the justices are
\* then in politician_profiles.
EveryStartCompletes == <>[]MigratedAndServing
=============================================================================
