------------------------------ MODULE Evidence ------------------------------
(***************************************************************************)
(* Evidence: one outlet's part of a comparison, search_one_source of       *)
(* workflows/compare_workflow.py with compare_coverage, compare_search,    *)
(* compare_publisher_feed, compare_public_article, compare_radio and       *)
(* compare_syndication: what may be handed on as the outlet's reporting.   *)
(*                                                                         *)
(* The free lookups come first, each with its own deadline after which     *)
(* what was verified so far is kept; then at most one paid call, which     *)
(* selects among the originals found, or searches.                         *)
(*                                                                         *)
(* An article is [url, on, by, text, free, age]: the site it is on, its    *)
(* byline, whether our index has its text whole, cut off or not at all,    *)
(* whether its page shows the text to everybody, and whether it is of the  *)
(* last two weeks ("fresh"), of the last year or "old".                    *)
(***************************************************************************)
EXTENDS Integers, FiniteSets

CONSTANTS
    Publishers, \* publisher -> what its adapters can do, a subset of:
                \*   "scoped"  results are checked against its domains
                \*   "page"    its public pages are read, and found by its own archive
                \*   "feed"    its RSS carries public text   "topic" also by topic
                \*   "partner" Reuters, on the sites of KSL and WTVB
                \*   "locator" National Review, whose text may locate an event
                \*             for the others
    Articles    \* the articles that lookups, feeds and searches may turn up

ASSUME EvidenceAssumption ==
    /\ Articles \subseteq [url : STRING, on : STRING, by : STRING, text : {"whole", "cut", "none"},
                           free : BOOLEAN, age : {"fresh", "year", "old"}]
    /\ \A a \in Articles : a.url # ""
    /\ \A o \in DOMAIN Publishers : "partner" \in Publishers[o] => o = "reuters"

VARIABLES ev   \* the search under way

evVars == ev

Nothing == [url |-> "", on |-> "", by |-> "", text |-> "none", free |-> FALSE, age |-> "fresh"]

NoSearch == [pc |-> "idle", of |-> "", stored |-> Nothing, context |-> {}, hints |-> {},
             originals |-> FALSE, quote |-> FALSE, result |-> {}]

InitEvidence == ev = NoSearch

Can(x) == ev.pc # "idle" /\ x \in Publishers[ev.of]
Found  == ev.stored # Nothing
OnSite(site) == {a \in Articles : a.on = site}
Own    == OnSite(ev.of)
Dated  == {a \in Articles : a.age # "old"}
Recent  == {a \in Articles : a.age = "fresh"}
Return(S) == ev' = [ev EXCEPT !.pc = "done", !.result = S]

SearchFor(o) == ev.pc = "idle" /\ ev' = [NoSearch EXCEPT !.pc = "lookup", !.of = o]

-----------------------------------------------------------------------------
(* Original text in public places.                                          *)

\* article_excerpt: the paragraphs of the page that are visible, not behind a gate and
\* in the dated article the page says it is.
Visible == {a \in Articles : a.free}
PageText == IF Can("page") THEN Own \cap Visible \cap Dated ELSE {}

\* _feed_article_excerpt: the entry of this very URL, of the last two weeks.
FeedText == IF Can("feed") THEN Own \cap Recent ELSE {}

\* public_feed_excerpts: for up to three URLs, as many as one deadline and one byte
\* limit allow.
Described(S) == {D \in SUBSET (S \cap FeedText) : Cardinality(D) <= 3}

\* _verified_passages of KSL and reporting of WTVB: the explicit byline, not a photo
\* credit, the date, and the body in the visible page.
KslReports   == {a \in OnSite("ksl") \cap Visible \cap Dated : a.by = "reuters"}
RadioReports == {a \in OnSite("wtvb") \cap Visible \cap Dated : a.by = "reuters"}

Whole(a) == [a EXCEPT !.text = "whole"]

-----------------------------------------------------------------------------
(* The free lookups.                                                        *)

\* indexed_coverage: an article of the very event or title, from two weeks of ours;
\* whole text is the answer.
IndexedCoverage ==
    /\ ev.pc = "lookup"
    /\ \/ ev' = [ev EXCEPT !.pc = "context"]
       \/ \E a \in Own \cap Recent :
            IF a.text = "whole" THEN ev' = [ev EXCEPT !.pc = "done", !.stored = a, !.result = {a}]
            ELSE ev' = [ev EXCEPT !.pc = "public", !.stored = a]

\* public_article_excerpt, then public_feed_excerpt, of the stored article's URL.
\* "A failed public lookup must not erase still-usable original text."
PublicText ==
    /\ ev.pc = "public"
    /\ \/ ev.stored \in PageText \cup FeedText /\ Return({Whole(ev.stored)})
       \/ ev.stored.text = "cut" /\ Return({ev.stored})
       \/ ev.stored.text = "none" /\ ev' = [ev EXCEPT !.pc = "context"]

\* National Review's text of the topic goes into the prompt, to identify the event.
Locator ==
    /\ ev.pc = "context"
    /\ \/ ev' = [ev EXCEPT !.pc = "discover"]
       \/ /\ Can("scoped") /\ ~Can("locator") /\ ~Found
          /\ \E a \in Recent :
               /\ a.on \in DOMAIN Publishers /\ "locator" \in Publishers[a.on] /\ a.text # "none"
               /\ ev' = [ev EXCEPT !.pc = "discover", !.context = {a}]

\* Some of these, at most n, verified before the deadline.
Discovered(reports, n, quote) ==
    /\ ev.pc = "discover" /\ ~Found
    /\ \E S \in SUBSET reports :
         /\ S # {} /\ Cardinality(S) <= n
         /\ ev' = [ev EXCEPT !.pc = "budget", !.hints = {Whole(a) : a \in S},
                             !.originals = TRUE, !.quote = quote]

\* Reuters: KSL's archive, and when that yields nothing WTVB's sitemaps.
ArchiveOriginals == Can("partner") /\ Discovered(KslReports, 3, FALSE)
RadioOriginals   == Can("partner") /\ Discovered(RadioReports, 3, FALSE)

\* The publisher's own search or archive pages, or its feed of the topic, which
\* reaches back a year.
PageOriginals  == Can("page") /\ Discovered(PageText, 2, TRUE)
TopicOriginals == Can("topic") /\ Discovered(Own \cap Dated, 3, TRUE)

WithText(hints) == {h \in hints : h.text # "none"}

\* publisher_article_hints: titles of ours that match loosely, with the stored text if
\* it was reviewed and else without; the feed completes what it can.  A scoped
\* publisher's loose matches are dropped unless they have text.
TitleHints ==
    /\ ev.pc = "discover" /\ ~Found /\ Can("feed")
    /\ \E S \in SUBSET (Own \cap Recent), reviewed \in SUBSET Own :
         /\ Cardinality(S) <= 3
         /\ \E D \in Described(S) :
              LET hints == {IF a \in D THEN Whole(a)
                            ELSE IF a \in reviewed THEN a
                            ELSE [a EXCEPT !.text = "none"] : a \in S}
              IN  ev' = [ev EXCEPT !.pc = "budget", !.quote = ~Can("locator"),
                                   !.hints = IF Can("locator") THEN hints ELSE WithText(hints)]

NoHints ==
    /\ ev.pc = "discover" /\ ev' = [ev EXCEPT !.pc = "budget"]

\* Too little left for a search: the originals at hand are still assessed.
ShortBudget ==
    /\ ev.pc = "budget" /\ WithText(ev.hints) # {} /\ ~ev.originals
    /\ ev' = [ev EXCEPT !.pc = "paid", !.hints = WithText(@), !.originals = TRUE]

BudgetAllows ==
    /\ ev.pc = "budget" /\ ev' = [ev EXCEPT !.pc = "paid"]

-----------------------------------------------------------------------------
(* The paid call.                                                           *)

\* The articles a passage may come from.
Shown == ev.context \cup ev.hints

\* Mutant of Verified: a passage of whichever candidate supports the selected one.
VerifiedByAny(selected, passage) ==
    /\ selected \in ev.hints
    /\ ev.quote => passage \in Shown

\* _verified_candidate_excerpt: one of the candidates, its text is at hand and, where
\* a passage is asked for, the passage is its own.
Verified(selected, passage) ==
    /\ selected \in ev.hints /\ selected.text # "none"
    /\ ev.quote => passage = selected

\* The model selects a candidate by number, or a number there is none of, and quotes
\* from what it was shown.
Selects ==
    /\ ev.pc = "paid" /\ ev.hints # {}
    /\ \E selected \in ev.hints \cup {Nothing}, passage \in Shown \cup {Nothing} :
         Return(IF Verified(selected, passage) THEN {selected} ELSE {})

\* publisher_search_excerpts: https at the publisher's domains, not over a year old,
\* a passage and no title; of the indexed article when there is one.
Citable(a) ==
    /\ a \in Own \cap Dated /\ a.text # "none"
    /\ Found => a.url = ev.stored.url

\* reuters_partner_excerpts: the first of two cited pages of its partners that holds.
Republished(cited) == {{a} : a \in cited \cap (KslReports \cup RadioReports)}

\* The answer of a web search, COVERAGE_MATCH=YES, and what the provider cites in it.
\* A publisher without an adapter has its answer taken as it is.
Cites ==
    /\ ev.pc = "paid" /\ ~ev.originals
    /\ \E cited \in SUBSET Articles :
         IF ~Can("scoped") THEN Return(cited)
         ELSE IF \E a \in cited : Citable(a) THEN Return({a \in cited : Citable(a)})
         ELSE \/ Return({})
              \/ /\ Can("partner") /\ ~Found
                 /\ \E page \in Republished(cited) : Return({Whole(a) : a \in page})

\* COVERAGE_MATCH=NO, no answer within the 20 seconds, an error, an answer cut off.
FindsNothing ==
    /\ ev.pc = "paid" /\ Return({})

\* BudgetUnavailable is raised to the request.
Refused ==
    /\ ev.pc = "paid" /\ ev' = [ev EXCEPT !.pc = "refused"]

EvidenceNext ==
    \/ \E o \in DOMAIN Publishers : SearchFor(o)
    \/ IndexedCoverage \/ PublicText \/ Locator
    \/ ArchiveOriginals \/ RadioOriginals \/ PageOriginals \/ TopicOriginals
    \/ TitleHints \/ NoHints
    \/ ShortBudget \/ BudgetAllows
    \/ Selects \/ Cites \/ FindsNothing \/ Refused

EvidenceSpec == InitEvidence /\ [][EvidenceNext]_evVars

-----------------------------------------------------------------------------
(* Properties.                                                              *)

\* What is handed on for an outlet with an adapter is that outlet's own reporting
\* of the last year, on its site or under its byline: never another publisher's
\* text that was in the prompt or among the search results, and never a title alone.
EvidenceIsOwn ==
    ev.pc = "done" /\ Can("scoped") =>
        \A a \in ev.result : ev.of \in {a.on, a.by} /\ a.text # "none" /\ a.age # "old"

\* Text the index already had is not lost to a lookup, a search or a budget that
\* fails after it.
IndexedIsKept ==
    Found /\ ev.stored.text # "none" /\ ev.pc \in {"done", "refused"} => ev.result # {}

\* Evidence is the outlet's own, and evidence once held is handed on.
EvidenceStands == EvidenceIsOwn /\ IndexedIsKept
=============================================================================
