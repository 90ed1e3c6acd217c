----------------------------- MODULE MCServices -----------------------------
(***************************************************************************)
(* The services around the pipeline, side by side.  They share no state    *)
(* that their models keep, so a behaviour follows one of them while the    *)
(* others stay in their initial states: the run has the states of their    *)
(* sum, not of their product, and a property speaks of one component.      *)
(***************************************************************************)
EXTENDS Schema, EntityLinks, Summaries, CompareClaims, Refresh, Feeds, Enrichment, Clusters,
        Maintenance, Evidence, Metering, ClusterMetrics, Funding

VARIABLE line   \* the component this behaviour is about

servicesVars ==
    <<line, schemaVars, linkVars, chipVars, sumVars, claimVars, refreshVars, feedVars, enVars, clVars,
      maintVars, evVars, meterVars, benchVars, fundVars>>

-----------------------------------------------------------------------------
(* Instances.                                                               *)

Profile(id, name) == [id |-> id, name |-> name, also |-> {}]
Alias(name, id, cased) == [name |-> name, id |-> id, cased |-> cased]
Occurs(name, from, to, exact) == [name |-> name, from |-> from, to |-> to, exact |-> exact]

\* A surname and a word that two rows share, a phrase inside a longer one, an outlet
\* whose name is a common word.
const_Outlets     == {Profile("athletic", "the_athletic")}
const_Politicians == {Profile("collins", "susan_collins"), Profile("mcollins", "mike_collins")}
const_Orgs        == {Profile("congress", "congress"), Profile("library", "library_of_congress")}
const_Aliases     == {Alias("the_athletic", "athletic", TRUE), Alias("hill", "congress", FALSE),
                      Alias("mike_collins", "collins", FALSE)}
const_SurnameOf   == [athletic |-> "athletic", collins |-> "collins", mcollins |-> "collins",
                      congress |-> "", library |-> "congress"]
const_SourceOf    == [u1 |-> "athletic", u2 |-> "none"]
const_Texts ==
    {{}, {Occurs("library_of_congress", 1, 4, TRUE), Occurs("congress", 3, 4, TRUE)},
     {Occurs("the_athletic", 1, 3, FALSE), Occurs("susan_collins", 4, 6, TRUE)},
     {Occurs("the_athletic", 1, 3, TRUE), Occurs("mike_collins", 5, 6, TRUE)}}

\* An outlet and its duplicate in one text, a common noun, an aggregator; judges of
\* each kind beside a text that names the court; a row still to be generated.
Chip(type, id, form) == [type |-> type, id |-> id, form |-> form]
const_Newest == <<"new", "war", "ruling">>
const_Named ==
    [new    |-> {Chip("outlet", "bbc", "short"), Chip("outlet", "bbc", "name")},
     war    |-> {Chip("outlet", "bbc", "short"), Chip("outlet", "bbc_news", "name"),
                 Chip("outlet", "stat", "common")},
     ruling |-> {Chip("org", "court", "name")}]
const_Old ==
    [new    |-> {},
     war    |-> {Chip("outlet", "bbc", "short"), Chip("outlet", "stat", "common"),
                 Chip("outlet", "yahoo", "name"), Chip("judge", "alito", "justice")},
     ruling |-> {Chip("judge", "alito", "justice"), Chip("judge", "thomas", "court"),
                 Chip("judge", "kagan", "office")}]
const_PublishedBy == [new |-> "none", war |-> "bbc_news", ruling |-> "none"]
const_Canonical   == [bbc |-> "bbc_news"]

\* Claims two outlets share, a dispute, one that puts an outlet on both sides,
\* and one that gives an undisputed claim a side.
Shared(n, sources)  == [id |-> <<"claim", n>>, disputed |-> FALSE, sources |-> sources,
                        for |-> {}, against |-> {}]
Dispute(n, yes, no) == [id |-> <<"claim", n>>, disputed |-> TRUE, sources |-> {},
                        for |-> yes, against |-> no]
const_Requested == <<"wire", "daily", "radio">>
const_Proposals ==
    {{}, {Shared(1, {"wire", "daily"}), Shared(2, {"wire"})},
     {Shared(1, {"daily", "radio"}), Dispute(2, {"wire"}, {"daily"})},
     {Dispute(1, {"wire", "daily"}, {"daily"})}, {[Shared(1, {"wire"}) EXCEPT !.for = {"daily"}]}}

const_OutletOf == [post1 |-> "post", post2 |-> "post", who |-> "who"]

const_Posts == <<"u1", "u2">>

\* Groups that overlap, one in another order, one that names an article twice.
const_Latest       == <<"a", "b", "c">>
const_OutletOfPost == [a |-> "wire", b |-> "times", c |-> "post"]
const_Groupings    == {<<1, 2>>, <<2, 3>>, <<3, 2, 1>>, <<1, 1, 2>>}

const_Generated ==
    {<<"report">>, <<"terse", "closer">>, <<"terse", "refusal">>,
     <<"report", "tailed", "closer", "refusal">>, <<"report", "closer", "closer", "closer">>,
     <<"vague", "tailed", "preview">>}

\* An outlet for each combination of adapters, one without any; a page of a partner by
\* somebody else, one behind a gate.
const_Publishers ==
    [reuters |-> {"scoped", "partner"}, wired |-> {"scoped", "page"}, ars |-> {"scoped", "feed", "topic"},
     review |-> {"scoped", "feed", "locator"}, gazette |-> {}]
Item(url, site, by, text, free, age) ==
    [url |-> url, on |-> site, by |-> by, text |-> text, free |-> free, age |-> age]
const_Articles ==
    {Item("k1", "ksl", "reuters", "none", TRUE, "year"), Item("k2", "ksl", "staff", "none", TRUE, "fresh"),
     Item("t1", "wtvb", "reuters", "none", FALSE, "fresh"), Item("t2", "wtvb", "reuters", "none", TRUE, "fresh"),
     Item("r1", "reuters", "reuters", "whole", TRUE, "old"),
     Item("w1", "wired", "staff", "cut", TRUE, "fresh"), Item("w2", "wired", "staff", "none", FALSE, "fresh"),
     Item("x1", "ars", "staff", "none", TRUE, "fresh"), Item("x2", "ars", "staff", "cut", TRUE, "year"),
     Item("n1", "review", "staff", "whole", TRUE, "fresh")}

\* A model with an alias, a dearer one, one of another provider.
const_Models ==
    [haiku45  |-> [wires |-> {"haiku", "haiku_alias"}, anthropic |-> TRUE,
                   can |-> {"batch", "search"}, half |-> TRUE],
     sonnet46 |-> [wires |-> {"sonnet"}, anthropic |-> TRUE, can |-> {"batch", "search"}, half |-> TRUE],
     nano     |-> [wires |-> {"nano"}, anthropic |-> FALSE, can |-> {"batch"}, half |-> TRUE]]
const_Prices     ==
    LET rates(i, o) == [in |-> i, out |-> o]
    IN  [haiku |-> rates(20, 100), haiku_alias |-> rates(20, 100), sonnet |-> rates(60, 300),
         nano |-> rates(2, 8)]
const_Operations ==
    [summarize |-> [incumbent |-> "haiku45", needs |-> {}, batch |-> FALSE,
                   tokens |-> [in |-> 3, out |-> 1]],
     context   |-> [incumbent |-> "haiku45", needs |-> {"batch"}, batch |-> TRUE,
                   tokens |-> [in |-> 1, out |-> 2]]]
const_Settings   == {<<>>, [context |-> "sonnet46"], [summarize |-> "nano"]}

const_Scored   == <<"bbc", "bbc", "cnn", "npr">>
const_Proposed == {<<>>, <<<<1, 3>>>>, <<<<1, 2>>, <<3, 4>>>>, <<<<1, 2, 3, 4>>>>,
                   <<<<1, 2>>, <<2, 3>>>>, <<<<1, 2, 5>>>>, <<<<1, 3>>, <<2, 4>>>>}
const_Labelled == [1..4 -> {"", "e1", "e2"}]

\* A return the archive lacks and its successor with another name for the same EIN, a
\* 990-T that is the newest, an amended amount's twin, an edge without an EIN.
Edge(ein, name, amount) == [ein |-> ein, name |-> name, amount |-> amount]
Filing(of, year, period, form, held, es) ==
    [of |-> of, year |-> year, period |-> period, form |-> form, stored |-> held, edges |-> es]
const_Filings ==
    {Filing("brookings", 2025, 1, "990", FALSE, <<Edge("53", <<"urban", "institute">>, 5)>>),
     Filing("brookings", 2026, 1, "990", TRUE,
            <<Edge("53", <<"urban", "league">>, 5), Edge("", <<"llc">>, -1)>>),
     Filing("brookings", 2026, 2, "990T", TRUE, <<>>),
     Filing("heritage", 2025, 1, "990", TRUE, <<Edge("54", <<"harvard", "law">>, 7)>>),
     Filing("heritage", 2026, 1, "990", TRUE,
            <<Edge("54", <<"harvard", "club">>, 7), Edge("53", <<"urban", "institute">>, 7)>>)}
const_Official ==
    [y \in {2025, 2026} |->
        IF y = 2025 THEN "53" :> {<<"urban", "institute">>}
        ELSE ("54" :> {<<"harvard", "college">>}) @@ ("53" :> {<<"urban", "institute", "dc">>})]

-----------------------------------------------------------------------------
(* The behaviours.                                                          *)

Lines == {"schema", "linking", "chips", "summaries", "claims", "refresh", "feeds", "enrichment",
          "clusters", "maintenance", "evidence", "metering", "metrics", "funding"}

InitServices ==
    /\ line \in Lines
    /\ InitSchema /\ InitLinking /\ InitChips /\ InitSummaries /\ InitClaims /\ InitRefresh /\ InitFeeds
    /\ InitEnrichment /\ InitClusters /\ InitMaintenance /\ InitEvidence /\ InitMetering
    /\ InitBench /\ InitFunding
    /\ line # "schema" => justices = "politician_profiles"

OthersThan(x) ==
    /\ line = x /\ UNCHANGED line
    /\ x # "schema"      => UNCHANGED schemaVars
    /\ x # "linking"     => UNCHANGED linkVars
    /\ x # "chips"       => UNCHANGED chipVars
    /\ x # "summaries"   => UNCHANGED sumVars
    /\ x # "claims"      => UNCHANGED claimVars
    /\ x # "refresh"     => UNCHANGED refreshVars
    /\ x # "feeds"       => UNCHANGED feedVars
    /\ x # "enrichment"  => UNCHANGED enVars
    /\ x # "clusters"    => UNCHANGED clVars
    /\ x # "maintenance" => UNCHANGED maintVars
    /\ x # "evidence"    => UNCHANGED evVars
    /\ x # "metering"    => UNCHANGED meterVars
    /\ x # "metrics"     => UNCHANGED benchVars
    /\ x # "funding"     => UNCHANGED fundVars

NextServices ==
    \/ OthersThan("schema")      /\ SchemaNext
    \/ OthersThan("linking")     /\ LinkNext
    \/ OthersThan("chips")       /\ ChipsNext
    \/ OthersThan("summaries")   /\ SumNext
    \/ OthersThan("claims")      /\ ClaimNext
    \/ OthersThan("refresh")     /\ RefreshNext
    \/ OthersThan("feeds")       /\ FeedsNext
    \/ OthersThan("enrichment")  /\ EnrichmentNext
    \/ OthersThan("clusters")    /\ ClustersNext
    \/ OthersThan("maintenance") /\ MaintNext
    \/ OthersThan("evidence")    /\ EvidenceNext
    \/ OthersThan("metering")    /\ MeterNext
    \/ OthersThan("metrics")     /\ BenchNext
    \/ OthersThan("funding")     /\ FundNext

\* SchemaFairness and RefreshFairness, each where the behaviour is about its component.
ServicesFairness ==
    /\ \A p \in Servers : WF_schemaVars(line = "schema" /\ (StartServer(p) \/ Migrate(p)))
    /\ WF_refreshVars(line = "refresh" /\ Start)
    /\ WF_refreshVars(line = "refresh" /\ TroubleEnds)
    /\ WF_refreshVars(line = "refresh" /\ Tick)
    /\ WF_refreshVars(line = "refresh" /\ (ScheduledRun \/ NoScheduledRun))
    /\ WF_refreshVars(line = "refresh" /\ Heartbeat)
    /\ WF_refreshVars(line = "refresh" /\ (CheckExample \/ StoreExample))

ServicesSpec == InitServices /\ [][NextServices]_servicesVars /\ ServicesFairness

-----------------------------------------------------------------------------
(* Properties.                                                              *)

\* Every start-up gets through, and stays so: EveryStartCompletes.
StartupCompletes == <>[](line = "schema" => MigratedAndServing)

\* The clock and the database flag recover by themselves (StallsAreHealed), and the
\* example costs one search a day meanwhile.
RefreshKeepsPace == []<>(line = "refresh" => Healthy) /\ []OneExampleADay
=============================================================================
