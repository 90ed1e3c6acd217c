------------------------------ MODULE Clusters ------------------------------
(***************************************************************************)
(* Clusters: workflows/story_workflow.py with story_clusterer.py,          *)
(* story_synthesizer.py and event_coherence.py -- the threading that runs  *)
(* per category when incremental threading is off.                         *)
(*                                                                         *)
(* Runs of one category may overlap (a scheduled and a requested one).     *)
(* Each groups what it fetched, and for each group reviews, looks the      *)
(* story up, synthesises, upserts the story and moves its members.         *)
(***************************************************************************)
EXTENDS Integers, Sequences, FiniteSets, SequencesExt

CONSTANTS
    Latest,        \* the articles of the category, as the fetch orders them
    OutletOfPost,  \* article -> source_name
    Groupings,     \* the groups the clustering answer may hold: sequences of indices
    Restored,      \* articles stored, and their entities asked for, again
    ClusterRuns,   \* runs that may be under way together
    MaxClusterRuns \* bound: runs begun

ASSUME ClustersAssumption ==
    /\ Latest \in Seq(STRING) /\ DOMAIN OutletOfPost = ToSet(Latest)
    /\ Restored \subseteq ToSet(Latest)
    /\ \A g \in Groupings : g \in Seq(Int)
    /\ MaxClusterRuns \in Nat

VARIABLES
    stories,    \* story id -> [status, of: members its text was made from]
    home,       \* articles.story_id
    newer,      \* articles whose entities a later answer has replaced
    crun,       \* run -> [pc, id, members, read: newer at its fetch, status]
    begunRuns,
    unmoved     \* story ids whose members' move failed after their upsert

clVars == <<stories, home, newer, crun, begunRuns, unmoved>>

Idle     == [pc |-> "idle"]
Unhoused == <<>>

InitClusters ==
    /\ stories = [s \in {} |-> 0] /\ home = [a \in ToSet(Latest) |-> Unhoused]
    /\ newer = {} /\ crun = [r \in ClusterRuns |-> Idle] /\ begunRuns = 0 /\ unmoved = {}

\* _parse_clusters keeps a group of two or more indices in range: a repeated
\* index passes, and counts twice towards the two.
ValidGroup(g) == Len(g) >= 2 /\ \A i \in DOMAIN g : g[i] \in DOMAIN Latest

\* cluster_articles: an error or an answer cut off mid-array is no group at all.
Groups == {g \in Groupings : ValidGroup(g)}

Members(g)  == {Latest[g[i]] : i \in DOMAIN g}
OutletsOf(ms) == {OutletOfPost[a] : a \in ms}

\* The hash of the sorted ids of the members: an article that is named twice
\* makes a different id.
StoryId(g) == [a \in Members(g) |-> Cardinality({i \in DOMAIN g : Latest[g[i]] = a})]

\* "A story must reflect cross-outlet coverage".
CrossOutlet(ms) == Cardinality(OutletsOf(ms)) >= 2

-----------------------------------------------------------------------------

\* fetch_articles, cluster: one group of the answer.  The groups of an answer
\* are stored one after another, as the runs' groups are, so a run has one.
ClusterBegin(r, g) ==
    /\ crun[r].pc = "idle" /\ begunRuns < MaxClusterRuns
    /\ CrossOutlet(Members(g))
    /\ crun' = [crun EXCEPT ![r] = [pc |-> "review", id |-> StoryId(g), members |-> Members(g),
                                    read |-> newer \cap Members(g), status |-> "complete"]]
    /\ begunRuns' = begunRuns + 1
    /\ UNCHANGED <<stories, home, newer, unmoved>>

\* same_event: a rejection and an unavailable review both leave the group out.
NotOneEvent(r) ==
    /\ crun[r].pc = "review" /\ crun' = [crun EXCEPT ![r] = Idle]
    /\ UNCHANGED <<stories, home, newer, begunRuns, unmoved>>

\* A row with this id that is not 'failed' keeps its text.
Reusable(id) == id \in DOMAIN stories /\ stories[id].status = "complete"

LookUp(r) ==
    /\ crun[r].pc = "review"
    /\ crun' = [crun EXCEPT ![r].pc = IF Reusable(crun[r].id) THEN "move" ELSE "synthesize"]
    /\ UNCHANGED <<stories, home, newer, begunRuns, unmoved>>

\* synthesize_story: a text that fails a gate or its source review, and any
\* error, is the fallback, which is stored as 'failed'.
Synthesize(r, status) ==
    /\ crun[r].pc = "synthesize"
    /\ crun' = [crun EXCEPT ![r].pc = "upsert", ![r].status = status]
    /\ UNCHANGED <<stories, home, newer, begunRuns, unmoved>>

UpsertStory(r) ==
    /\ crun[r].pc = "upsert"
    /\ stories' = [s \in DOMAIN stories \cup {crun[r].id} |->
                     IF s = crun[r].id THEN [status |-> crun[r].status, of |-> crun[r].members] ELSE stories[s]]
    /\ crun' = [crun EXCEPT ![r].pc = "move"]
    /\ UNCHANGED <<home, newer, begunRuns, unmoved>>

\* The upsert raises: the group is logged and left.
UpsertFails(r) ==
    /\ crun[r].pc = "upsert" /\ crun' = [crun EXCEPT ![r] = Idle]
    /\ UNCHANGED <<stories, home, newer, begunRuns, unmoved>>

\* Mutant of Losing: a story that loses a member keeps its text.
LosingNone(id, ms) == {}

\* The stories one of the members is taken from.
Losing(id, ms) == {home[a] : a \in ms} \ {Unhoused, id}

\* _move_articles: the members, and what they invalidate, in one statement.
MoveMembers(r) ==
    /\ crun[r].pc = "move"
    /\ home' = [a \in DOMAIN home |-> IF a \in crun[r].members THEN crun[r].id ELSE home[a]]
    /\ stories' = [s \in DOMAIN stories |->
                     IF s \in Losing(crun[r].id, crun[r].members)
                     THEN [stories[s] EXCEPT !.status = "failed"] ELSE stories[s]]
    /\ unmoved' = unmoved \ {crun[r].id}
    /\ crun' = [crun EXCEPT ![r].pc = "entities"]
    /\ UNCHANGED <<newer, begunRuns>>

\* "Update enrichment": every member gets back the entities it was fetched
\* with, an answer that landed meanwhile notwithstanding.
WriteBack(r) ==
    /\ crun[r].pc = "entities"
    /\ newer' = (newer \ crun[r].members) \cup (crun[r].read \cap crun[r].members)
    /\ crun' = [crun EXCEPT ![r] = Idle]
    /\ UNCHANGED <<stories, home, begunRuns, unmoved>>

\* The move raises, or the process dies before it: the story row stays.
MoveFails(r) ==
    /\ crun[r].pc = "move" /\ unmoved' = unmoved \cup {crun[r].id}
    /\ crun' = [crun EXCEPT ![r] = Idle]
    /\ UNCHANGED <<stories, home, newer, begunRuns>>

\* The poller stores entities: of a row stored again, a second time.
EntitiesLand(a) ==
    /\ a \notin newer /\ newer' = newer \cup {a}
    /\ UNCHANGED <<stories, home, crun, begunRuns, unmoved>>

ClustersNext ==
    \/ \E a \in Restored : EntitiesLand(a)
    \/ \E r \in ClusterRuns :
        \/ \E g \in Groups : ClusterBegin(r, g)
        \/ NotOneEvent(r) \/ LookUp(r) \/ UpsertStory(r) \/ UpsertFails(r) \/ MoveMembers(r) \/ MoveFails(r)
        \/ WriteBack(r)
        \/ \E status \in {"complete", "failed"} : Synthesize(r, status)

ClustersSpec == InitClusters /\ [][ClustersNext]_clVars

-----------------------------------------------------------------------------
(* Properties.                                                              *)

InHand(id) == \E r \in ClusterRuns : crun[r].pc \in {"move", "upsert"} /\ crun[r].id = id

\* A story the feed shows as complete holds exactly the articles its text was
\* made from, and they come from two outlets, whatever runs overlapped --
\* unless its move is still to come or failed.
ServedStoryIsWhole ==
    \A s \in DOMAIN stories :
        stories[s].status = "complete" /\ s \notin unmoved /\ ~InHand(s) =>
            /\ {a \in DOMAIN home : home[a] = s} = stories[s].of
            /\ CrossOutlet(stories[s].of)
=============================================================================
