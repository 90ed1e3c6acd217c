------------------------------ MODULE Linking ------------------------------
(***************************************************************************)
(* Entity links: services/entity_linker.py and entity_linker_llm.py.       *)
(*                                                                         *)
(* A text is the set of its occurrences of catalog names, each with its    *)
(* span and whether it has the casing a curator asked for.  A name stands  *)
(* for its normalized form.  The model may answer any subset of the roster *)
(* it was sent, or not answer; what the parser rejects is not an answer.   *)
(* Each article's call touches nothing another reads, so a batch is asked  *)
(* in one step.                                                            *)
(***************************************************************************)
EXTENDS Integers, FiniteSets, Sequences

CONSTANTS
    Outlets, Politicians, Orgs, Bills,  \* [id, name, also]: profile rows and derived aliases
    Aliases,          \* entity_aliases: [name, id, cased]
    SurnameOf,        \* the last word of a row's name, "" for a name of one word
    StopWords,        \* _STOPWORDS
    Ineligible,       \* _REGEX_INELIGIBLE_NAMES
    Short,            \* names of two or three characters
    Texts,
    Urls,
    SourceOf,         \* the outlet of a URL, "none" when the catalog lacks it
    MaxArticles       \* bounds the articles of a batch

ASSUME LinkingAssumption ==
    /\ MaxArticles \in Nat \ {0} /\ Urls # {}
    /\ \A text \in Texts : \A o, p \in text :          \* what stands at a place is one name
         o.from < o.to /\ (o.from = p.from /\ o.to = p.to => o = p)

VARIABLES
    linkPc,
    articles,    \* the batch: [url, text]
    tables,      \* what the database has
    gate,        \* the settings: no regex gate, the gate, the gate with narrowing
    links        \* the answer: url -> ids

linkVars == <<linkPc, articles, tables, gate, links>>

Entities == Outlets \cup Politicians \cup Orgs \cup Bills
Ids      == {e.id : e \in Entities}
Tables   == {"all", "no_match_case", "no_aliases", "no_profiles"}

NoLinks == [u \in {} |-> {}]
InitLinking == linkPc = "idle" /\ articles = <<>> /\ tables = "all" /\ gate = "narrowing" /\ links = NoLinks

-----------------------------------------------------------------------------
(* The catalog and its search keys.                                         *)

\* A database before migration 017 has no match_case, one before 014 no table.
LoadedAliases(t) ==
    CASE t = "all"           -> Aliases
      [] t = "no_match_case" -> {[a EXCEPT !.cased = FALSE] : a \in Aliases}
      [] OTHER               -> {}

\* build_catalog: an alias of a row that is gone is dropped.
CatalogWith(t) ==
    [id \in Ids |->
        LET e == CHOOSE x \in Entities : x.id = id
            mine == {a \in LoadedAliases(t) : a.id = id}
        IN  [names   |-> {e.name} \cup e.also \cup {a.name : a \in mine},
             curated |-> {a.name : a \in mine},
             cased   |-> {a.name : a \in {b \in mine : b.cased}}]]

Catalog == [t \in Tables |-> CatalogWith(t)]

\* Ordinary words are no keys, unless a curator vouched for a casing of them,
\* and short names only when curated.
Eligible(row, n) ==
    /\ n \notin StopWords
    /\ n \in Ineligible => n \in row.cased
    /\ n \in Short => n \in row.curated

KeysOf(row) == {n \in row.names : Eligible(row, n)}

Claims(t, n) == {id \in Ids : n \in KeysOf(Catalog[t][id])}

\* A name that two rows claim is dropped.
SearchKeys(t) ==
    UNION {{[name |-> n, id |-> id] : n \in {k \in KeysOf(Catalog[t][id]) : Claims(t, k) = {id}}} : id \in Ids}

IsCased(t, n) == \E id \in Claims(t, n) : n \in Catalog[t][id].cased

-----------------------------------------------------------------------------
(* link_text.                                                               *)

Matches(t, text) ==
    {[from |-> p[1].from, to |-> p[1].to, id |-> p[2].id] :
        p \in {q \in text \X SearchKeys(t) : q[1].name = q[2].name
                                           /\ (IsCased(t, q[2].name) => q[1].exact)}}

Overlaps(m, n) == m.from < n.to /\ n.from < m.to
Length(m)      == m.to - m.from
Before(m, n)   == Length(m) > Length(n) \/ (Length(m) = Length(n) /\ m.from < n.from)

\* Longest first, each match is kept unless it overlaps one kept before it: there is
\* one such set of matches.
Greedy(kept, found) ==
    \A m \in found : m \in kept <=> \A k \in kept : Before(k, m) => ~Overlaps(m, k)

Kept(t, text) == UNION {kept \in SUBSET Matches(t, text) : Greedy(kept, Matches(t, text))}

LinkText == [t \in Tables |-> [text \in Texts |-> {m.id : m \in Kept(t, text)}]]

\* The rows an article's matches could be confused with.
Narrow(found) ==
    LET surnames == {SurnameOf[id] : id \in found} \ {""}
    IN  found \cup {id \in Ids : SurnameOf[id] \in surnames}

-----------------------------------------------------------------------------
(* link_articles.                                                           *)

Index        == 1..Len(articles)
Linked(i)    == LinkText[tables][articles[i].text]
Forwarded    == {i \in Index : gate = "off" \/ Linked(i) # {}}
GatedOut     == {articles[i].url : i \in Index \ Forwarded}
LastWith(u)  == CHOOSE i \in Forwarded : articles[i].url = u /\ \A j \in Forwarded : articles[j].url = u => j <= i

\* The roster is looked up by URL: of two copies the later one's is sent.
RosterOf(i) == IF gate = "narrowing" THEN Narrow(Linked(LastWith(articles[i].url))) ELSE Ids

\* A batch as the pipeline hands it over.
BeginLinking ==
    /\ linkPc = "idle"
    /\ \E n \in 1..MaxArticles :
         articles' \in [1..n -> [url : Urls, text : Texts]]
    /\ tables' \in Tables /\ gate' \in {"off", "on", "narrowing"}
    /\ linkPc' = "loaded" /\ UNCHANGED links

\* Before the profile tables exist every article gets an empty answer.
NoProfiles ==
    /\ linkPc = "loaded" /\ tables = "no_profiles"
    /\ links' = [u \in {articles[i].url : i \in Index} |-> {}]
    /\ linkPc' = "done" /\ UNCHANGED <<articles, tables, gate>>

\* What link_text_llm and _parse_response let through: roster ids, and never
\* the outlet the article came from.  One id an answer is enough: the parser
\* judges each by itself.
Verdicts(i) == {{}} \cup {{id} : id \in RosterOf(i) \ {SourceOf[articles[i].url]}}

\* Mutant of Answered: a call that failed counts as an empty answer.
AnsweredEmpty(verdict, i) == TRUE

\* link_articles_llm is called with omit_failures.
Answered(verdict, i) == verdict[i] # {"failed"}

\* The model's answer, else nothing for a URL the gate stopped, else link_text
\* of the first copy: later copies find the URL answered.
Resolved(said, u) ==
    IF u \in DOMAIN said THEN said[u]
    ELSE IF u \in GatedOut THEN {}
    ELSE Linked(CHOOSE i \in Index : articles[i].url = u /\ \A j \in 1..(i - 1) : articles[j].url # u)

\* The calls end.  When the budget refuses the set, or the batch raises, all fail.
LinkBatch ==
    /\ linkPc = "loaded" /\ tables # "no_profiles"
    /\ \E verdict \in [Forwarded -> {{}, {"failed"}} \cup {{id} : id \in Ids}] :
         /\ \A i \in Forwarded : verdict[i] \in Verdicts(i) \cup {{"failed"}}
         /\ LET by(u) == {i \in Forwarded : articles[i].url = u /\ Answered(verdict, i)}
                said  == [u \in {articles[i].url : i \in {j \in Forwarded : Answered(verdict, j)}} |->
                             verdict[CHOOSE i \in by(u) : \A j \in by(u) : j <= i] \ {"failed"}]
            IN  links' = [u \in {articles[i].url : i \in Index} |-> Resolved(said, u)]
         /\ linkPc' = (IF \A i \in Forwarded : verdict[i] = {"failed"} THEN "unanswered" ELSE "done")
    /\ UNCHANGED <<articles, tables, gate>>

LinkNext == BeginLinking \/ NoProfiles \/ LinkBatch

-----------------------------------------------------------------------------
(* Properties.                                                              *)

Copies(u) == {i \in Index : articles[i].url = u}

\* "Chips never disappear due to API blips": when no call came back, an article
\* shows every entity its text names, unless another copy of its URL in the
\* batch named nothing.
BlipsKeepChips ==
    linkPc = "unanswered" =>
        \A u \in DOMAIN links : \/ \E i \in Copies(u) : links[u] = Linked(i)
                                \/ u \in GatedOut

\* With narrowing on, a chip is an entity some copy of the article names with a
\* name no other row claims, or one that shares its surname with such a one.
NoChipIsInvented ==
    linkPc \in {"done", "unanswered"} /\ gate = "narrowing" =>
        \A u \in DOMAIN links : \A id \in links[u] :
            \E i \in Copies(u), o \in UNION {articles[j].text : j \in Copies(u)}, named \in Ids :
                /\ o \in articles[i].text /\ Claims(tables, o.name) = {named}
                /\ named = id \/ (SurnameOf[named] = SurnameOf[id] /\ SurnameOf[id] # "")

\* The chips of an article are those its text stands for: none lost to an outage,
\* none gained from a name that several rows share.
LinksAreFaithful == BlipsKeepChips /\ NoChipIsInvented
=============================================================================
