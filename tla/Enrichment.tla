----------------------------- MODULE Enrichment -----------------------------
(***************************************************************************)
(* Enrichment: services/context_generator.py, primer_generator.py,         *)
(* entity_extractor.py, index_alignment.py and judge.py.                   *)
(*                                                                         *)
(* A numbered answer about a sub-batch of articles is mapped back through  *)
(* its numbers, a primer is gated and judged part by part, and rows are    *)
(* updated while the store may be rewriting them.  The text of an answer   *)
(* is the article it is about.                                             *)
(***************************************************************************)
EXTENDS Integers, Sequences, FiniteSets

CONSTANTS
    Posts,        \* the articles of a sub-batch, in order
    MaxTasks,     \* bound: sub-batches handled
    MaxEdits      \* bound: rewrites of a row by the store meanwhile

ASSUME EnrichmentAssumption == /\ Posts \in Seq(STRING) /\ Len(Posts) > 0
                               /\ MaxTasks \in Nat /\ MaxEdits \in Nat

VARIABLES
    post,      \* row -> [copy: 0 when blank, why, score, entities, primer]
    task,      \* the sub-batch in hand
    handled,   \* sub-batches begun
    edits

enVars == <<post, task, handled, edits>>

Rows   == {Posts[i] : i \in DOMAIN Posts}
Parts  == {"background", "term"}
NoTask == [pc |-> "idle"]
NoText == [u \in {} |-> {}]

InitEnrichment ==
    /\ post = [u \in Rows |-> [copy |-> 1, score |-> {}, entities |-> {}, primer |-> {}]]
    /\ task = NoTask /\ handled = 0 /\ edits = 0

-----------------------------------------------------------------------------
(* Numbered answers.  The model takes items in order but may skip one,       *)
(* answer one twice, or number from the wrong place.  What is assumed of it  *)
(* is what the code assumes: entries numbered exactly 1..n are in order.     *)

Told(n) == {s \in UNION {[1..k -> 1..n] : k \in 0..n + 1} :
              \A p, q \in DOMAIN s : p < q => s[p] <= s[q]}
Numbered(s) == {[p \in DOMAIN s |-> [i |-> p, about |-> s[p]]],
                [p \in DOMAIN s |-> [i |-> p + 1, about |-> s[p]]],
                [p \in DOMAIN s |-> [i |-> s[p], about |-> s[p]]]}
\* What every prompt asks for: one object per article, in the same order.
InOrder(n)  == [p \in 1..n |-> [i |-> p, about |-> p]]

\* Mutant of Aligned: every index is in range, which is all a range check asks.
AlignedByRange(answer, n) == \A p \in DOMAIN answer : answer[p].i \in 1..n

\* aligned_entries: exactly one entry for each number.
Aligned(answer, n) ==
    /\ Len(answer) = n
    /\ {answer[p].i : p \in DOMAIN answer} = 1..n

Answers(n) == {a \in UNION {Numbered(s) : s \in Told(n)} :
                 (Len(a) = n /\ {a[p].i : p \in DOMAIN a} = 1..n) => a = InOrder(n)}

\* {index: entry}; the last entry of a number is the one that is kept.
Entry(answer, i) ==
    answer[CHOOSE p \in DOMAIN answer : answer[p].i = i /\ \A q \in DOMAIN answer : answer[q].i = i => q <= p]
Numbers(answer)  == {answer[p].i : p \in DOMAIN answer}

\* Row -> the row the text written to it is about.
Mapped(answer) == [u \in {Posts[i] : i \in Numbers(answer)} |->
                     Posts[Entry(answer, CHOOSE i \in Numbers(answer) : Posts[i] = u).about]]

-----------------------------------------------------------------------------
(* A sub-batch: asked for by a script (live) or brought by the poller.       *)

\* The poller has no request to repeat; a script asks again once.
SubBatch(kind, live) ==
    /\ task.pc = "idle" /\ handled < MaxTasks
    /\ kind = "entities" => ~live      \* no script writes what extract_entities returns
    /\ task' = [pc |-> "answer", kind |-> kind, live |-> live, tries |-> 1, about |-> NoText]
    /\ handled' = handled + 1
    /\ UNCHANGED <<post, edits>>

Drop == task' = NoTask /\ UNCHANGED <<post, handled, edits>>

\* An error, an expired request, or nothing that parses: nothing is written.
NoAnswer == task.pc = "answer" /\ Drop

Answer(a) ==
    /\ task.pc = "answer" /\ UNCHANGED <<post, handled, edits>>
    /\ \/ /\ Aligned(a, Len(Posts))
          /\ task' = [task EXCEPT !.pc = IF task.kind = "primer" THEN "read" ELSE "write",
                                  !.about = Mapped(a)]
       \/ /\ ~Aligned(a, Len(Posts)) /\ task.live /\ task.tries = 1
          /\ task' = [task EXCEPT !.tries = 2]
       \/ /\ ~Aligned(a, Len(Posts)) /\ ~(task.live /\ task.tries = 1)
          /\ task' = NoTask

\* UPDATE articles SET why_it_matters = NULL, importance_score, tone, genre:
\* each row on its own, and one that fails leaves that row as it was.
WriteScores(done) ==
    /\ task.pc = "write" /\ task.kind = "context"
    /\ post' = [u \in Rows |-> IF u \in done \cap DOMAIN task.about
                               THEN [post[u] EXCEPT !.score = {task.about[u]}] ELSE post[u]]
    /\ task' = NoTask /\ UNCHANGED <<handled, edits>>

\* UPDATE articles SET entities, in the same way.
WriteEntities(done) ==
    /\ task.pc = "write" /\ task.kind = "entities"
    /\ post' = [u \in Rows |-> IF u \in done \cap DOMAIN task.about
                               THEN [post[u] EXCEPT !.entities = {task.about[u]}] ELSE post[u]]
    /\ task' = NoTask /\ UNCHANGED <<handled, edits>>

-----------------------------------------------------------------------------
(* Primers.                                                                 *)

\* The parts the deterministic gate and the term rules leave of an entry; the
\* poller reads the copy to gate against now, and a blank one is skipped.
ReadAndParse(kept) ==
    /\ task.pc = "read"
    /\ DOMAIN kept \subseteq DOMAIN task.about
    /\ \A u \in DOMAIN kept : kept[u] # {} /\ (task.live \/ post[u].copy # 0)
    /\ task' = [pc |-> "terms", kind |-> "primer", live |-> task.live, about |-> task.about, kept |-> kept]
    /\ UNCHANGED <<post, handled, edits>>

\* The metadata read failed: the sub-batch is skipped, not written unchecked.
NoMetadata == task.pc = "read" /\ ~task.live /\ Drop

\* judge_lines over the lines of one part, in the order of the rows: verdicts
\* go back by number, an answer that is not aligned leaves every line unscored.
LinesOf(part) == SelectSeq(Posts, LAMBDA u : u \in DOMAIN task.kept /\ part \in task.kept[u])
Passes(a, n, good) ==
    IF ~Aligned(a, n) THEN {}
    ELSE {i \in 1..n : i \in Numbers(a) /\ Entry(a, i).about \in good}

\* No budget, or an error: nothing is approved.
Approved(heard, lines, passed) == IF heard THEN {lines[i] : i \in passed} ELSE {}

\* _review_backgrounds, once for the terms and then for the paragraphs: what
\* is not approved is withheld, and a payload left with nothing goes.
Withhold(part, approved) ==
    LET left == [u \in DOMAIN task.kept |->
                   IF u \in approved THEN task.kept[u] ELSE task.kept[u] \ {part}]
    IN  [u \in {v \in DOMAIN left : left[v] # {}} |-> left[u]]

\* What the verdicts say of a row's part is remembered in sound: that is what
\* the property compares the stored text with.
JudgePart(part, next) ==
    /\ task.pc = part
    /\ LET p     == IF part = "terms" THEN "term" ELSE "background"
           lines == LinesOf(p)
       IN  \E heard \in BOOLEAN, a \in Answers(Len(lines)), good \in SUBSET DOMAIN lines :
             /\ ~heard => a = <<>> /\ good = {}
             /\ task' = [pc |-> next, kind |-> "primer", live |-> task.live, about |-> task.about,
                         kept |-> Withhold(p, Approved(heard, lines, Passes(a, Len(lines), good))),
                         sound |-> {<<p, lines[i]>> : i \in good}
                                   \cup (IF part = "terms" THEN {} ELSE task.sound)]
    /\ UNCHANGED <<post, handled, edits>>

\* The poller's UPDATE asks for complete, non-blank copy; the script's does not.
Primable(u) == task.live \/ post[u].copy # 0

WritePrimers(done) ==
    /\ task.pc = "write" /\ task.kind = "primer"
    /\ post' = [u \in Rows |->
                  IF u \in done \cap DOMAIN task.kept /\ Primable(u)
                  THEN [post[u] EXCEPT !.primer =
                          {[part |-> p, about |-> task.about[u], sound |-> <<p, u>> \in task.sound] :
                              p \in task.kept[u]}]
                  ELSE post[u]]
    /\ task' = NoTask /\ UNCHANGED <<handled, edits>>

\* store_node rewrites the copy, or withholds it; the primer is not touched.
StoreRewrites(u, copy) ==
    /\ edits < MaxEdits /\ edits' = edits + 1 /\ copy # post[u].copy
    /\ post' = [post EXCEPT ![u].copy = copy, ![u].score = {}]
    /\ UNCHANGED <<task, handled>>

EnrichmentNext ==
    \/ \E kind \in {"context", "entities", "primer"}, live \in BOOLEAN : SubBatch(kind, live)
    \/ NoAnswer \/ NoMetadata
    \/ \E a \in Answers(Len(Posts)) : Answer(a)
    \/ \E done \in SUBSET Rows : WriteScores(done) \/ WriteEntities(done) \/ WritePrimers(done)
    \/ \E on \in SUBSET Rows : \E kept \in [on -> SUBSET Parts] : ReadAndParse(kept)
    \/ JudgePart("terms", "background") \/ JudgePart("background", "write")
    \/ \E u \in Rows, copy \in 0..2 : StoreRewrites(u, copy)

EnrichmentSpec == InitEnrichment /\ [][EnrichmentNext]_enVars

-----------------------------------------------------------------------------
(* Properties.                                                              *)

\* "A line written against the wrong article is not recoverable": whatever the
\* numbering of the answers, no row carries text about another row.
TextIsAboutItsRow ==
    \A u \in Rows : /\ post[u].score \subseteq {u} /\ post[u].entities \subseteq {u}
                    /\ \A x \in post[u].primer : x.about = u

\* Optional copy is never published unchecked: a stored part of a primer is
\* one the judge was heard on, and found sound.
StoredPartIsSound == \A u \in Rows : \A x \in post[u].primer : x.sound

\* Whatever comes back of a batch, each row has text about itself, and parts of a
\* primer only if they were found sound.
EnrichmentIsSound == TextIsAboutItsRow /\ StoredPartIsSound
=============================================================================
