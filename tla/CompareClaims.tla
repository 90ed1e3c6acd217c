--------------------------- MODULE CompareClaims ---------------------------
(***************************************************************************)
(* From reporting to claims: extract_and_compare_node, its helpers and     *)
(* format_response_node (workflows/compare_workflow.py), and the isolated  *)
(* review of compare_claim_support.py.                                     *)
(*                                                                         *)
(* A claim is what it credits outlets with, under an id of its own; a list *)
(* of claims is a set, and the ids say which comes first.  Whether an      *)
(* outlet's quotation is really in its reporting, and what a reviewer      *)
(* thinks of it, are free choices; the wording is left out.                *)
(***************************************************************************)
EXTENDS Integers, Sequences, FiniteSets, Functions

CONSTANTS
    Requested,     \* the outlets asked for, in order
    Describable,   \* those that may yield only a short public description
    Proposals,     \* what the model may propose: sets of claims <<"claim", n>>
    MaxClaims      \* max_claims of _retain_outlet_passages

ASSUME ClaimsAssumption ==
    /\ Requested \in Seq(Range(Requested)) /\ IsInjective(Requested) /\ Describable \subseteq Range(Requested)
    /\ MaxClaims \in Nat /\ MaxClaims >= Len(Requested)
    /\ \A p \in Proposals : \A c \in p :
          /\ DOMAIN c = {"id", "disputed", "sources", "for", "against"}
          /\ c.id[2] \in Nat /\ c.id = <<"claim", c.id[2]>>
          /\ \A d \in p : c.id = d.id => c = d

VARIABLES
    claimPc,
    found,       \* outlets with reporting: search_results
    described,   \* those of them with a short public description only
    real,        \* <<claim, outlet>>: the quotation is verbatim and keeps its qualifiers
    claims,
    backups,     \* the literal quotations, as they were before the review
    asked,       \* the attributions a review was asked about
    upheld,      \* those it accepted
    unreviewed,  \* unreviewed_sources
    answer       \* claims of the response

claimVars == <<claimPc, found, described, real, claims, backups, asked, upheld, unreviewed, answer>>

InitClaims ==
    /\ claimPc = "requested" /\ found = {} /\ described = {} /\ real = {} /\ claims = {} /\ backups = {}
    /\ asked = {} /\ upheld = {} /\ unreviewed = {} /\ answer = {}

Credited(c)     == c.sources \cup c.for \cup c.against
Modelled        == found \ described    \* model_reporting

\* The literal quotation of an outlet: "X writes: ...".
Literal(o, kind) == [id |-> <<kind, o>>, disputed |-> FALSE, sources |-> {o}, for |-> {}, against |-> {}]
IsBackup(c) == c.id \in {<<"backup", o>> : o \in found}
IsRepair(c) == c.id \in {<<"repair", o>> : o \in found}

\* A dispute needs both sides, any other claim an outlet.
Stands(c) == IF c.disputed THEN c.for # {} /\ c.against # {} ELSE c.sources # {}

\* Attributions: <<claim, field, outlet>>, and <<claim, outlet>> whatever the field.
Fields(c) == {<<c.id, "sources", o>> : o \in c.sources} \cup {<<c.id, "for", o>> : o \in c.for}
               \cup {<<c.id, "against", o>> : o \in c.against}
Pairs(list)   == UNION {Fields(c) : c \in list}
Credits(list) == {<<p[1], p[3]>> : p \in Pairs(list)}

Keeping(c, ok) ==
    [id |-> c.id, disputed |-> c.disputed, sources |-> {o \in c.sources : <<c.id, "sources", o>> \in ok},
     for |-> {o \in c.for : <<c.id, "for", o>> \in ok}, against |-> {o \in c.against : <<c.id, "against", o>> \in ok}]

\* The claims with only the attributions in ok, those that still hold.
Filtered(list, ok) == {c \in {Keeping(d, ok) : d \in list} : Stands(c)}

-----------------------------------------------------------------------------
(* extract_and_compare_node.                                                *)

\* _ground_claim_attributions: a quotation has to be found in the reporting of
\* the outlet it is ascribed to, with the claim's years, periods and laws.
Grounded(list, ok) == Filtered(list, {p \in Pairs(list) : <<p[1], p[3]>> \in ok})

\* search_sources_node: with no reporting at all there is nothing to compare.
SearchSources ==
    /\ claimPc = "requested"
    /\ \E some \in SUBSET Range(Requested) :
         /\ found' = some
         /\ described' \in SUBSET (some \cap Describable)
         /\ claimPc' = IF some = {} THEN "formatted" ELSE "searched"
    /\ UNCHANGED <<real, claims, backups, asked, upheld, unreviewed, answer>>

LiteralsOf(outlets, kind) == {Literal(o, kind) : o \in outlets}

\* Only short descriptions: those that pass the guards are quoted without any call.
QuoteDescriptions ==
    /\ claimPc = "searched" /\ Modelled = {}
    /\ \E quotable \in SUBSET found : claims' = LiteralsOf(quotable, "backup")
    /\ real' = Credits(claims')
    /\ claimPc' = "retained" /\ unreviewed' = found
    /\ UNCHANGED <<found, described, backups, asked, upheld, answer>>

\* The model's groups, and behind them a literal passage of every outlet that
\* has a usable one.
Extract ==
    /\ claimPc = "searched" /\ Modelled # {}
    /\ \E proposal \in Proposals, quotable \in SUBSET found :
         \E ok \in SUBSET {credit \in Credits(proposal) : credit[2] \in Modelled} :
            /\ backups' = LiteralsOf(quotable, "backup")
            /\ claims' = Grounded(proposal, ok) \cup backups'
            /\ real' = ok \cup Credits(backups')
    /\ claimPc' = "grounded"
    /\ UNCHANGED <<found, described, asked, upheld, unreviewed, answer>>

\* An answer that is not JSON, or has no list of claims.
ExtractFails ==
    /\ claimPc = "searched" /\ Modelled # {}
    /\ claimPc' = "formatted" /\ UNCHANGED <<found, described, real, claims, backups, asked, upheld, unreviewed, answer>>

\* verify_claim_support: each outlet is reviewed apart, may fail apart, and one
\* that had nothing to review may supply a clause of its own.
Review ==
    /\ claimPc = "grounded"
    /\ asked' = Pairs(claims)
    /\ \E failed \in SUBSET found :
         \E yes \in SUBSET {pair \in asked' : pair[3] \notin failed},
            repaired \in SUBSET {o \in found \ failed : \A pair \in asked' : pair[3] # o} :
            /\ upheld' = yes /\ unreviewed' = failed
            /\ claims' = Filtered(claims, yes) \cup LiteralsOf(repaired, "repair")
            /\ \E ok \in SUBSET Credits(LiteralsOf(repaired, "repair")) : real' = real \cup ok
    /\ claimPc' = "reviewed" /\ UNCHANGED <<found, described, backups, answer>>

\* The whole review takes more than ten seconds, raises, or is refused.
ReviewFails ==
    /\ claimPc = "grounded"
    /\ claims' = {} /\ unreviewed' = found
    /\ claimPc' = "reviewed" /\ UNCHANGED <<found, described, real, backups, asked, upheld, answer>>

\* Mutant of Restorable: a backup comes back whoever reviewed it.
RestorableAlways(c) == IsBackup(c)

\* "Only failed reviewers may fall back to unreviewed literal originals."
Restorable(c) == IsBackup(c) /\ c.sources \cap unreviewed # {}

\* The outlets that a claim other than their backup speaks for.
Spoken(list) == UNION {Credited(c) : c \in {d \in list : ~IsBackup(d)}}

\* The order of the list: the model's groups in its order, then the backups as the
\* review left them, the repairs, and the backups taken back in, by outlet.
Place(c) ==
    IF c.id[1] = "claim" THEN <<1, c.id[2]>>
    ELSE <<IF c.id[1] = "repair" THEN 3 ELSE IF Restorable(c) THEN 4 ELSE 2,
           CHOOSE i \in DOMAIN Requested : Requested[i] = c.id[2]>>

Precedes(c, d) ==
    Place(c)[1] < Place(d)[1] \/ (Place(c)[1] = Place(d)[1] /\ Place(c)[2] < Place(d)[2])

\* Those that credit an outlet none before them does.
Adding(list) ==
    {c \in list : ~(Credited(c) \subseteq UNION {Credited(d) : d \in {e \in list : Precedes(e, c)}})}

\* _retain_outlet_passages: first whatever adds an outlet, then disputes, then
\* the rest, up to MaxClaims.
Selected(list) ==
    LET Turn(c)     == IF c \in Adding(list) THEN 0 ELSE IF c.disputed THEN 1 ELSE 2
        Ahead(d, c) == Turn(d) < Turn(c) \/ (Turn(d) = Turn(c) /\ Precedes(d, c))
    IN  {c \in list : Cardinality({d \in list : Ahead(d, c)}) < MaxClaims}

Retain ==
    /\ claimPc = "reviewed"
    /\ LET repairs  == {c \in claims : IsRepair(c)}
           all      == (claims \ repairs) \cup Grounded(repairs, real) \cup {c \in backups : Restorable(c)}
       IN claims' = Selected({c \in all : IsBackup(c) => ~(c.sources \subseteq Spoken(all))})
    /\ claimPc' = "retained"
    /\ UNCHANGED <<found, described, real, backups, asked, upheld, unreviewed, answer>>

-----------------------------------------------------------------------------
(* format_response_node.                                                    *)

\* An outlet on both sides of a dispute is on neither.
Formatted(c) ==
    [id |-> c.id, disputed |-> c.disputed, sources |-> IF c.disputed THEN {} ELSE c.sources,
     for |-> IF c.disputed THEN c.for \ c.against ELSE {},
     against |-> IF c.disputed THEN c.against \ c.for ELSE {}]

Format ==
    /\ claimPc = "retained"
    /\ answer' = {c \in {Formatted(d) : d \in claims} : Stands(c)}
    /\ claimPc' = "formatted"
    /\ UNCHANGED <<found, described, real, claims, backups, asked, upheld, unreviewed>>

ClaimNext == SearchSources \/ QuoteDescriptions \/ Extract \/ ExtractFails
             \/ Review \/ ReviewFails \/ Retain \/ Format

ClaimSpec == InitClaims /\ [][ClaimNext]_claimVars

-----------------------------------------------------------------------------
(* Properties.                                                              *)

\* "Rejected passages cannot re-enter": whatever the response credits an outlet
\* with is quoted from that outlet, and was upheld by its reviewer or, when
\* there was no review of it, is a literal quotation.
CreditIsEarned ==
    claimPc = "formatted" =>
        \A pair \in Pairs(answer) :
            /\ <<pair[1], pair[3]>> \in real
            /\ \/ pair \in upheld
               \/ pair[1][1] = "repair" /\ \A other \in asked : other[3] # pair[3]
               \/ pair[1][1] = "backup" /\ pair[3] \in unreviewed

\* A claim credits o, but not in its formatted form: o is on both sides of a dispute,
\* or the side it is on is none that the form has.
LostInForm(o) ==
    \E c \in claims : /\ o \in Credited(c)
                     /\ Stands(Formatted(c)) => o \notin Credited(Formatted(c))

\* "Keep at least one supported contribution per outlet": an outlet with a
\* passage its reviewer upheld, or could not review, is in the response; only
\* a claim that loses it in its formatted form can take its place.
OutletsAreHeard ==
    claimPc = "formatted" =>
        \A o \in found :
            LET passage == Literal(o, "backup")
            IN (\/ Fields(passage) \subseteq upheld
                \/ o \in unreviewed /\ <<passage.id, o>> \in real)
               => LostInForm(o) \/ \E c \in answer : o \in Credited(c)

\* The answer credits outlets with what stands for them, and with nothing else.
AnswerIsFair == CreditIsEarned /\ OutletsAreHeard
=============================================================================
