------------------------------- MODULE Funding -------------------------------
(***************************************************************************)
(* Funding: edges between organisations from their tax filings --          *)
(* services/funding_edges.py with scripts/ingest_funding_edges.py and      *)
(* scripts/review_funding_edges.py.  A run picks each organisation's       *)
(* latest return, falls forward a year when the archive lacks it, holds    *)
(* every counterparty's filed name against the IRS's names for its EIN     *)
(* and inserts what the table does not have.  A person decides about what  *)
(* was held, and the next run comes by again.                              *)
(*                                                                         *)
(* A name is a sequence of words, legal suffixes stripped.                 *)
(***************************************************************************)
EXTENDS Integers, Sequences, FiniteSets, SequencesExt

CONSTANTS
    Filings,   \* the returns that are indexed: [of, year, period, form, stored, edges],
               \* stored when the archive holds what its index says, edges a sequence
               \* of [ein, name, amount], with ein "" for none and amount -1 for a relation
    Official,  \* year -> EIN -> the set of names of that year's index
    Similar,   \* pairs of names that are alike enough as strings
    MaxIngests

ASSUME FundingAssumption ==
    /\ \A f \in Filings : f.year \in DOMAIN Official /\ f.year \in Int /\ f.edges \in Seq(
           [ein : STRING, name : Seq(STRING), amount : Int])
    /\ \A y \in DOMAIN Official : \A ein \in DOMAIN Official[y] : Official[y][ein] \subseteq Seq(STRING)
    /\ MaxIngests \in Nat

VARIABLES
    edges,    \* the rows of funding_edges, in the order of their ids
    cached,   \* the years whose index is on disk
    ingest    \* the run under way: [pc, year, todo, runs], todo the filings' lines still to
              \* be inserted, each a filing and a number

fundVars == <<edges, cached, ingest>>

InitFunding ==
    /\ edges = <<>> /\ cached = {}
    /\ ingest = [pc |-> "idle", year |-> 0, todo |-> {}, runs |-> 0]

-----------------------------------------------------------------------------
(* Names.                                                                   *)

\* _contains_at_token_boundary.
Inside(short, long) ==
    \E i \in 0..Len(long) - Len(short) : short = SubSeq(long, i + 1, i + Len(short))

\* names_agree: the same, a short form of two words or more, or nearly the same.
NamesAgree(a, b) ==
    /\ a # <<>> /\ b # <<>>
    /\ \/ a = b
       \/ Len(a) >= 2 /\ Inside(a, b)
       \/ Len(b) >= 2 /\ Inside(b, a)
       \/ <<a, b>> \in Similar \/ <<b, a>> \in Similar

\* load_ein_index: every index year on disk counts.
OfficialNames(ein) ==
    UNION {IF ein \in DOMAIN Official[y] THEN Official[y][ein] ELSE {} : y \in cached}

\* ein_name_agrees: the verdict on a filed name, and the name it was held against.
Verdict(e, names) ==
    IF e.ein = "" THEN [verdict |-> "review", irs |-> <<>>]
    ELSE IF names = {} THEN [verdict |-> "ein_absent", irs |-> <<>>]
    ELSE IF \E n \in names : NamesAgree(e.name, n)
    THEN [verdict |-> "agrees", irs |-> CHOOSE n \in names : NamesAgree(e.name, n)]
    ELSE [verdict |-> "review", irs |-> CHOOSE n \in names : TRUE]

-----------------------------------------------------------------------------
(* One run of the ingest.                                                   *)

\* select_filings: the latest 990 of each organisation in one index year.
SelectFilings(year, of) ==
    {f \in Filings : /\ f.year = year /\ f.of \in of /\ f.form = "990"
                     /\ \A g \in Filings :
                          g.year = year /\ g.of = f.of /\ g.form = "990" => g.period <= f.period}

\* fetch_filings and resolve_filings: what the archive lacks is tried in the next year.
Resolved990(year, of) ==
    LET chosen  == SelectFilings(year, of)
        missing == {f.of : f \in {g \in chosen : ~g.stored}}
    IN  {f \in chosen : f.stored} \cup {f \in SelectFilings(year + 1, missing) : f.stored}

\* parse_filing: a line per grant and per related organisation.
ParseFiling(f) == {<<f, i>> : i \in DOMAIN f.edges}

Organisations == {f.of : f \in Filings}

\* resolve_filings: the index of the year is downloaded, the next one only on a miss.
StartIngest(year) ==
    /\ ingest.pc = "idle" /\ ingest.runs < MaxIngests
    /\ LET miss == \E f \in SelectFilings(year, Organisations) : ~f.stored
       IN  cached' = cached \cup {year} \cup ((IF miss THEN {year + 1} ELSE {}) \cap DOMAIN Official)
    /\ ingest' = [pc |-> "persist", year |-> year, runs |-> ingest.runs + 1,
                  todo |-> UNION {ParseFiling(f) : f \in Resolved990(year, Organisations)}]
    /\ UNCHANGED edges

\* idx_funding_edges_identity; NULLs are distinct, so an edge without an EIN has no key.
SameEdge(a, b) ==
    /\ a.of = b.of /\ a.period = b.period /\ a.edge.ein = b.edge.ein /\ a.edge.ein # ""
    /\ a.edge.amount = b.edge.amount

\* apply_verdicts: the row for a line, with the verdict of this run.
NewRow(f, i) ==
    LET judged == Verdict(f.edges[i], OfficialNames(f.edges[i].ein))
    IN  [of |-> f.of, period |-> f.period, edge |-> f.edges[i],
         verdict |-> judged.verdict, irs |-> judged.irs, decision |-> "none", seen |-> <<>>]

\* Mutant of InsertEdge: what is there already is brought up to date.
UpsertEdge(row) ==
    IF \E i \in DOMAIN edges : SameEdge(edges[i], row)
    THEN edges' = [i \in DOMAIN edges |->
                     IF SameEdge(edges[i], row)
                     THEN [row EXCEPT !.decision = edges[i].decision, !.seen = edges[i].seen]
                     ELSE edges[i]]
    ELSE edges' = Append(edges, row)

\* INSERT ... ON CONFLICT DO NOTHING, a statement for each edge.
InsertEdge(row) ==
    IF \E i \in DOMAIN edges : SameEdge(edges[i], row) THEN UNCHANGED edges
    ELSE edges' = Append(edges, row)

\* A filing's lines are inserted in their order; which organisation comes first is the
\* index's matter.
Persist ==
    /\ ingest.pc = "persist"
    /\ \E f \in Filings : \E i \in DOMAIN f.edges :
         /\ <<f, i>> \in ingest.todo /\ \A j \in 1..i - 1 : <<f, j>> \notin ingest.todo
         /\ InsertEdge(NewRow(f, i))
         /\ ingest' = [ingest EXCEPT !.todo = @ \ {<<f, i>>}]
    /\ UNCHANGED cached

\* All rows are in, or the script dies between two of them.
IngestEnds ==
    /\ ingest.pc = "persist"
    /\ ingest' = [ingest EXCEPT !.pc = "idle", !.todo = {}]
    /\ UNCHANGED <<edges, cached>>

-----------------------------------------------------------------------------
(* Review.                                                                  *)

\* list_held, and with --all what was decided before.
Held == {i \in DOMAIN edges : edges[i].verdict # "agrees"}

\* decide: on a row that does not agree by itself, again and differently if need be.
\* What the person was shown is kept as history.
DecideEdge(i, decision) ==
    /\ i \in Held
    /\ edges' = [edges EXCEPT ![i].decision = decision,
                              ![i].seen = <<edges[i].edge.name, edges[i].irs>>]
    /\ UNCHANGED <<cached, ingest>>

FundNext ==
    \/ \E year \in DOMAIN Official : StartIngest(year)
    \/ Persist \/ IngestEnds
    \/ \E i \in DOMAIN edges, decision \in {"confirmed", "rejected"} : DecideEdge(i, decision)

FundSpec == InitFunding /\ [][FundNext]_fundVars

-----------------------------------------------------------------------------
(* Properties.                                                              *)

\* An edge that is published is one whose filed name the IRS has for its EIN, or one
\* that a person confirmed looking at these very names: no later filing, index or
\* interrupted run changes what stands behind a decision.
PublishedIsVouched ==
    \A i \in DOMAIN edges :
        edges[i].verdict = "agrees" \/ edges[i].decision = "confirmed" =>
            \/ \E n \in OfficialNames(edges[i].edge.ein) :
                 \/ ToSet(edges[i].edge.name) \subseteq ToSet(n)
                 \/ ToSet(n) \subseteq ToSet(edges[i].edge.name)
                 \/ {<<edges[i].edge.name, n>>, <<n, edges[i].edge.name>>} \cap Similar # {}
            \/ edges[i].seen = <<edges[i].edge.name, edges[i].irs>>
=============================================================================
