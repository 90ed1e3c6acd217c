-------------------------------- MODULE Chips --------------------------------
(***************************************************************************)
(* Chips: what becomes of articles.entity_links once it is stored.  The    *)
(* scripts backfill_entity_links.py (regex and llm mode),                  *)
(* strip_common_noun_outlet_links.py, retarget_judge_entity_links.py and   *)
(* dedupe_outlet_profiles.py rewrite the column beside a running pipeline, *)
(* each from rows it read earlier and, but for the last, without a lock.   *)
(*                                                                         *)
(* A chip is [type, id, form], where form is what the scripts tell apart:  *)
(*   "name", "short"  two ways to write an entity                          *)
(*   "common"         a blocked word, in a casing its outlet does not use  *)
(*   "justice", "court", "office"                                          *)
(*                    a judge's surname, the court's name, neither         *)
(* The article's text is the set of chips it may be given.                 *)
(***************************************************************************)
EXTENDS Integers, FiniteSets, Sequences, Functions

CONSTANTS
    Newest,      \* the articles, newest first
    Named,       \* article -> the chips its text may be given
    Old,         \* article -> the chips stored before any of this
    Waiting,     \* articles whose generation is pending
    PublishedBy, \* article -> the outlet behind its source_name
    Seeded,      \* the outlets that have a profile
    Canonical,   \* DUP_TO_CANONICAL
    Excluded,    \* YAHOO
    MaxScripts   \* bounds how many scripts are run

ASSUME ChipsAssumption ==
    /\ MaxScripts \in Nat
    /\ Range(Canonical) \subseteq Seeded /\ DOMAIN Canonical \cup Excluded \subseteq Seeded
    /\ Range(Canonical) \cap (DOMAIN Canonical \cup Excluded) = {}
    /\ \A u \in Range(Newest) : u \in Waiting => Old[u] = {}

ChipIds == Seeded \cup {"court"} \cup UNION {{c.id : c \in Old[u] \cup Named[u]} : u \in Range(Newest)}

Kinds == [type : {"outlet", "politician", "org", "bill", "judge"}, id : ChipIds,
          form : {"name", "short", "common", "justice", "court", "office"}]

\* A blocked word and a casing are an outlet's; no linker's catalog has judges any
\* more; what is stored came from a catalog, one chip an entity.
ASSUME KindsAssumption ==
    /\ DOMAIN Old = Range(Newest)
    /\ \A u \in Range(Newest) :
        /\ Old[u] \cup Named[u] \subseteq Kinds
        /\ \A c \in Old[u] \cup Named[u] :
             /\ c.form = "common"  => c.type = "outlet"
             /\ c.type = "outlet"  => c.form \in {"name", "short", "common"}
             /\ c.type = "judge"   => c.form \in {"justice", "court", "office"}
        /\ \A c \in Named[u] : c.type # "judge"
        /\ \A c \in Old[u] : c.type = "outlet" => c.id \in Seeded
        /\ \A c, d \in Old[u] : c.type = d.type /\ c.id = d.id => c = d

VARIABLES
    chips,      \* articles.entity_links
    profiles,   \* outlet_profiles
    pending,    \* rows the pipeline has yet to store for good
    work,       \* who is at work -> what it read and will write
    scripts,    \* scripts run so far
    mended,     \* history: the repairs that have been completed
    behind,     \* history: article -> the repairs that what it shows was read before
    replaced    \* history: articles a model's answer or a late write has replaced

chipVars == <<chips, profiles, pending, work, scripts, mended, behind, replaced>>

Posted   == Range(Newest)
Linkers  == {"pipeline", "regex", "llm"}
Repairs  == {"strip", "retarget"}
Writers  == Linkers \cup Repairs
NoRows   == [u \in {} |-> {}]
AtRest   == [pc |-> "idle", catalog |-> {}, todo |-> <<>>, plan |-> NoRows, missed |-> {}]

InitChips ==
    /\ chips = Old /\ profiles = Seeded /\ pending = Waiting
    /\ work = [w \in Writers |-> AtRest] /\ scripts = 0
    /\ mended = {} /\ behind = [u \in Posted |-> {}] /\ replaced = {}

Target(c)  == <<c.type, c.id>>
Targets(s) == {Target(c) : c \in s}

\* _merge_additive, and how retarget adds converted links: an entity already
\* there keeps its chip, and gets no second one.
Added(base, new) ==
    base \cup {CHOOSE c \in new : Target(c) = t : t \in Targets(new) \ Targets(base)}

-----------------------------------------------------------------------------
(* The linkers.                                                             *)

InCatalog(c, catalog) == c.type = "outlet" => c.id \in catalog

\* link_text: blocked words are no search keys, an entity is linked once.
LinkTextOf(u, catalog) == Added({}, {c \in Named[u] : c.form # "common" /\ InCatalog(c, catalog)})

\* _self_outlet_map: profile names, and aliases that dedupe moves to the canonical.
SelfOutlet(u, catalog) ==
    LET by == PublishedBy[u]
    IN  IF by \in catalog THEN by ELSE IF by \in DOMAIN Canonical THEN Canonical[by] ELSE "none"

RegexLink(u, catalog) ==
    {c \in LinkTextOf(u, catalog) : Target(c) # <<"outlet", SelfOutlet(u, catalog)>>}

\* What link_text_llm lets through: roster ids, each once, not the source itself
\* where a profile has its name.
MayAnswer(u, catalog) ==
    {s \in SUBSET {c \in Named[u] : InCatalog(c, catalog)} :
        /\ \A c, d \in s : Target(c) = Target(d) => c = d
        /\ <<"outlet", PublishedBy[u]>> \notin Targets(s)}

\* A plan's entry: what to write, what was read, and for the histories whether a
\* model's answer stands behind it and the repairs its reading precedes.
RowPlan(u, new, answered, late) ==
    [chips |-> new, read |-> chips[u], answered |-> answered, behind |-> late]

\* A plan for one article.
Only(u, entry) == [x \in {u} |-> entry]

\* Only the model gives a common noun a chip again.
BehindOf(s) == IF \E c \in s : c.form = "common" THEN {"strip"} ELSE {}

Mentions(c, ids) == c.type = "outlet" /\ c.id \in ids

\* link_entities_node: the model's answer, else link_text.
LinkPending ==
    /\ work["pipeline"].pc = "idle"
    /\ \E u \in pending : \E said \in MayAnswer(u, profiles) \cup {LinkTextOf(u, profiles)} :
         work' = [work EXCEPT !["pipeline"] =
                    [AtRest EXCEPT !.pc = "read", !.plan = Only(u, RowPlan(u, said, TRUE, BehindOf(said)))]]
    /\ UNCHANGED <<chips, profiles, pending, scripts, mended, behind, replaced>>

\* A backfill loads the catalog and the ids it will go through: regex mode all of
\* them, llm mode those with a link.
StartBackfill(mode) ==
    /\ work[mode].pc = "idle" /\ scripts < MaxScripts
    /\ work' = [work EXCEPT ![mode] =
                  [AtRest EXCEPT !.pc = "loaded", !.catalog = profiles,
                               !.todo = SelectSeq(Newest, LAMBDA u : mode = "regex" \/ chips[u] # {})]]
    /\ scripts' = scripts + 1
    /\ UNCHANGED <<chips, profiles, pending, mended, behind, replaced>>

\* A row is left out when its JSON is what it was.  What the database prints has
\* spaces and json.dumps leaves them out, so only two empty lists are alike.
ToWrite(u, entry) == IF entry.chips = {} /\ entry.read = {} THEN NoRows ELSE Only(u, entry)

\* Mutant of Omitted: a call that failed is an empty answer.
OmittedNever(failed) == FALSE

\* omit_failures: a row whose call failed is not written.
Omitted(failed) == failed

\* What is read now misses a dedupe since the catalog was loaded, and the repairs
\* that have read and not written.
StillMissed(missed) == (missed \cap {"dedupe"}) \cup {r \in Repairs : work[r].pc = "read"}

\* A chunk of one row: its links are found from what is read now and the catalog
\* of the start.
FetchRegex ==
    /\ work["regex"].pc = "loaded" /\ work["regex"].todo # <<>>
    /\ LET u == Head(work["regex"].todo)
           w == work["regex"]
       IN  work' = [work EXCEPT !["regex"] =
                      [w EXCEPT !.pc = "read", !.todo = Tail(@), !.missed = StillMissed(@),
                                !.plan = ToWrite(u, RowPlan(u, Added(chips[u], RegexLink(u, w.catalog)),
                                                          FALSE, behind[u]))]]
    /\ UNCHANGED <<chips, profiles, pending, scripts, mended, behind, replaced>>

FetchLlm ==
    /\ work["llm"].pc = "loaded" /\ work["llm"].todo # <<>>
    /\ LET u == Head(work["llm"].todo)
           w == work["llm"]
       IN  \E said \in MayAnswer(u, w.catalog), failed \in BOOLEAN :
             /\ failed => said = {}
             /\ work' = [work EXCEPT !["llm"] =
                  [w EXCEPT !.pc = "read", !.todo = Tail(@), !.missed = StillMissed(@),
                            !.plan = IF Omitted(failed) THEN NoRows
                                     ELSE ToWrite(u, RowPlan(u, said, ~failed, BehindOf(said)))]]
    /\ UNCHANGED <<chips, profiles, pending, scripts, mended, behind, replaced>>

-----------------------------------------------------------------------------
(* The repairs.                                                             *)

\* is_common_noun_link.
Stripped(s) == {c \in s : ~(c.type = "outlet" /\ c.form = "common")}

\* classify: to the politician its surname names, to the court's dossier, or out.
Converted(c) ==
    CASE c.form = "justice" -> {[c EXCEPT !.type = "politician"]}
      [] c.form = "court"   -> {[type |-> "org", id |-> "court", form |-> "court"]}
      [] OTHER              -> {}

Judges(s) == {c \in s : c.type = "judge"}

\* Mutant of Retargeted: converted links are not held against those that are there.
RetargetedTwice(s) == (s \ Judges(s)) \cup UNION {Converted(c) : c \in Judges(s)}

Retargeted(s) == Added(s \ Judges(s), UNION {Converted(c) : c \in Judges(s)})

Rewritten(r, s) == IF r = "strip" THEN Stripped(s) ELSE Retargeted(s)

\* A repair reads every row it concerns; who has read before it has missed it, and
\* it misses the one that has read and not written.
Scan(r) ==
    /\ work[r].pc = "idle" /\ scripts < MaxScripts
    /\ LET due == {u \in Posted : Rewritten(r, chips[u]) # chips[u]}
       IN  work' = [w \in Writers |->
                      IF w = r
                      THEN [AtRest EXCEPT !.pc = "read",
                              !.missed = StillMissed({}),
                              !.plan = [u \in due |->
                                 RowPlan(u, Rewritten(r, chips[u]), FALSE, behind[u] \ {r})]]
                      ELSE IF work[w].pc = "idle" THEN AtRest
                      ELSE [work[w] EXCEPT !.missed = @ \cup {r}]]
    /\ scripts' = scripts + 1
    /\ UNCHANGED <<chips, profiles, pending, mended, behind, replaced>>

-----------------------------------------------------------------------------
(* Writing.                                                                 *)

\* The repairs that what w writes to u was read before.
LateAt(w, u) ==
    work[w].plan[u].behind \cup
        (IF w \in {"pipeline", "llm"} THEN work[w].missed \cap {"dedupe"} ELSE work[w].missed)

\* The pipeline's upsert, a chunk's transaction, a repair's: each row is set to
\* what its writer worked out, whatever it holds by then.
Apply(w) ==
    LET plan == work[w].plan
    IN  /\ chips' = [u \in Posted |-> IF u \in DOMAIN plan THEN plan[u].chips ELSE chips[u]]
        /\ behind' = [u \in Posted |-> IF u \in DOMAIN plan THEN LateAt(w, u) ELSE behind[u]]
        /\ replaced' = replaced \cup {u \in DOMAIN plan : plan[u].answered \/ plan[u].read # chips[u]}

StorePending ==
    /\ work["pipeline"].pc = "read" /\ Apply("pipeline")
    /\ pending' = pending \ DOMAIN work["pipeline"].plan
    /\ work' = [work EXCEPT !["pipeline"] = AtRest]
    /\ UNCHANGED <<profiles, scripts, mended>>

\* On to the next chunk.  A write that was committed while its connection was lost
\* is sent again.
WriteChunk(mode) ==
    /\ work[mode].pc \in {"read", "again"} /\ Apply(mode)
    /\ work' = [work EXCEPT ![mode] =
                  IF @.todo = <<>> THEN AtRest ELSE [@ EXCEPT !.pc = "loaded", !.plan = NoRows]]
    /\ UNCHANGED <<profiles, pending, scripts, mended>>

WriteUnconfirmed(mode) ==
    /\ work[mode].pc = "read" /\ work[mode].plan # NoRows /\ Apply(mode)
    /\ work' = [work EXCEPT ![mode].pc = "again"]
    /\ UNCHANGED <<profiles, pending, scripts, mended>>

WriteRepair(r) ==
    /\ work[r].pc = "read" /\ Apply(r)
    /\ mended' = mended \cup {r}
    /\ work' = [work EXCEPT ![r] = AtRest]
    /\ UNCHANGED <<profiles, pending, scripts>>

\* Stopped, or the second attempt fails; the chunks written stay written.
ScriptDies(w) ==
    /\ w # "pipeline" /\ work[w].pc # "idle"
    /\ work' = [work EXCEPT ![w] = AtRest]
    /\ UNCHANGED <<chips, profiles, pending, scripts, mended, behind, replaced>>

\* Mutant of Repointed: the references to excluded outlets stay.
RepointedOnly(s) ==
    {IF Mentions(c, DOMAIN Canonical) THEN [c EXCEPT !.id = Canonical[c.id]] ELSE c : c \in s}

\* _REPOINT_ELINKS, then _DROP_ELINKS.
Repointed(s) ==
    {IF Mentions(c, DOMAIN Canonical) THEN [c EXCEPT !.id = Canonical[c.id]] ELSE c :
        c \in {d \in s : ~Mentions(d, Excluded)}}

\* dedupe_outlet_profiles: references are moved and the rows deleted in one
\* transaction.
Dedupe ==
    /\ scripts < MaxScripts
    /\ chips' = [u \in Posted |-> Repointed(chips[u])]
    /\ profiles' = profiles \ (DOMAIN Canonical \cup Excluded)
    /\ behind' = [u \in Posted |-> behind[u] \ {"dedupe"}]
    /\ work' = [w \in Writers |-> IF work[w].pc = "idle" THEN AtRest
                                  ELSE [work[w] EXCEPT !.missed = @ \cup {"dedupe"}]]
    /\ scripts' = scripts + 1
    /\ UNCHANGED <<pending, mended, replaced>>

ChipsNext ==
    \/ LinkPending \/ StorePending
    \/ \E mode \in {"regex", "llm"} : StartBackfill(mode) \/ WriteChunk(mode) \/ WriteUnconfirmed(mode)
    \/ FetchRegex \/ FetchLlm
    \/ \E r \in Repairs : Scan(r) \/ WriteRepair(r)
    \/ \E w \in Writers : ScriptDies(w)
    \/ Dedupe

-----------------------------------------------------------------------------
(* Properties.                                                              *)

\* "Otherwise /outlet/<slug> links dangle"; "a second run finds nothing"; "articles
\* still carrying a judge link: 0": what a repair took away stays away, however the
\* scripts and the pipeline follow one another, except on rows written from what was
\* read before the repair or, for a common noun, where the model said so.
RepairsHold ==
    \A u \in Posted : \A c \in chips[u] :
        /\ c.type = "outlet" /\ "dedupe" \notin behind[u] => c.id \in profiles
        /\ c.form = "common" => "strip" \notin mended \/ "strip" \in behind[u]
        /\ c.type = "judge"  => "retarget" \notin mended \/ "retarget" \in behind[u]

\* An article has one chip for an entity, except for an outlet that another was
\* merged into.
OneChipAnEntity ==
    \A u \in Posted : \A c, d \in chips[u] :
        Target(c) = Target(d) /\ c # d => c.type = "outlet" /\ c.id \in Range(Canonical)

\* What a chip may have become: itself, or what a repair makes of it.
Heirs(c) == {c} \cup Converted(c) \cup Repointed({c})

\* "A failed call leaves the stored links untouched", "Regex mode is additive only":
\* a chip stored before is still there, or its heir is, unless it is one a repair is
\* for, the model's answer replaced the row, or a write that had read it earlier did.
OldChipsStay ==
    \A u \in Posted \ replaced : \A c \in Old[u] :
        \/ Targets(Heirs(c)) \cap Targets(chips[u]) # {}
        \/ c.form \in {"common", "office"} \/ Mentions(c, Excluded)

\* The stored chips are kept, resolve and stay corrected.
ChipsStand == RepairsHold /\ OneChipAnEntity /\ OldChipsStay
==============================================================================
