------------------------------ MODULE Threading ------------------------------
(***************************************************************************)
(* Incremental story threading: workflows/incremental_threading.py with    *)
(* the queue of services/story_matcher.py and the choices that             *)
(* services/story_confirmer.py lets through.  A run takes the queue of     *)
(* articles, attaches each to a story or creates one, marks the queue and  *)
(* sweeps the stories that still owe a synthesis.  Every await of a run    *)
(* ends a step: between reading a story's members and writing the story    *)
(* lie the paid review and the paid synthesis.                             *)
(*                                                                         *)
(* A story's id is its seed, the members that created it, so seeds are the *)
(* ids here.  Its saved copy is abstracted to the set of articles it was   *)
(* written from.  All articles are neighbours of one category: two that    *)
(* are not similar are two the confirmer does not put together.  A run     *)
(* that its budget check turns away has written nothing and is no step.    *)
(***************************************************************************)
EXTENDS Integers, FiniteSets

CONSTANTS
    Articles,    \* the articles of the 48 hour window with an embedding
    Outlet,      \* the source_name of each
    Runs,        \* the runs that may be under way together
    MaxAttempts, \* MAX_SYNTHESIS_ATTEMPTS
    SweepLimit,  \* SWEEP_LIMIT
    MayFail      \* at first, database calls may fail and processes die

Outlets(S)   == {Outlet[a] : a \in S}
CrossOutlet(S) == Cardinality(Outlets(S)) >= 2       \* MIN_UNIQUE_OUTLETS
Seeds   == {S \in SUBSET Articles : CrossOutlet(S)}
NoStory == {}

ASSUME ThreadingAssumption ==
    /\ IsFiniteSet(Articles) /\ Runs # {}
    /\ MaxAttempts \in Nat \ {0} /\ SweepLimit \in Nat \ {0}
    /\ MayFail \in BOOLEAN

VARIABLES
    landed,    \* articles whose entities have landed, which makes them eligible
    threaded,  \* articles with threaded_at set
    story,     \* articles.story_id
    row,       \* the rows of stories
    run,       \* what each run holds in memory
    concluded, \* history: the articles some run has reached a decision on
    stable     \* "no" while the database and the processes may fail, "now" once they
               \* fail no more, "always" if they never do

database == <<landed, threaded, story, row>>
vars == <<database, run, concluded, stable>>

Absent == [status |-> "absent", attempts |-> 0, copy |-> {}, current |-> FALSE, count |-> 0]

Idle == [pc |-> "idle", queue |-> {}, todo |-> {}, snapshot |-> {}, claimed |-> {},
         deferred |-> {}, article |-> {}, story |-> NoStory, proposed |-> {},
         members |-> {}, targets |-> {}]

InitThreading ==
    /\ landed = {} /\ threaded = {}
    /\ story = [a \in Articles |-> NoStory]
    /\ row = [s \in Seeds |-> Absent]
    /\ run = [r \in Runs |-> Idle]
    /\ concluded = {} /\ stable \in {"always"} \cup (IF MayFail THEN {"no"} ELSE {})

Members(s) == {a \in Articles : story[a] = s}

-----------------------------------------------------------------------------
(* Writes to the database.                                                  *)

\* Mutant of Move: the stories that lose a member keep their synthesis.
MoveQuietly(S, s) ==
    /\ story' = [a \in Articles |-> IF a \in S THEN s ELSE story[a]]
    /\ UNCHANGED row

Losers(S, s) == {story[a] : a \in S} \ {NoStory, s}

\* _move_articles, one statement: the stories that lose a member are invalidated.
Move(S, s) ==
    /\ story' = [a \in Articles |-> IF a \in S THEN s ELSE story[a]]
    /\ row' = [t \in Seeds |->
                 IF t \in Losers(S, s)
                 THEN [row[t] EXCEPT !.status = "failed", !.current = FALSE, !.attempts = 0,
                                     !.count = Cardinality(Members(t) \ S)]
                 ELSE row[t]]

\* A synthesis of the articles in S is stored; synthesize_story falls back on
\* fewer than two articles, so it has no other way to succeed.
Publish(s, S, tries) ==
    /\ Cardinality(S) >= 2
    /\ row' = [row EXCEPT ![s].status = "complete", ![s].current = TRUE, ![s].copy = S,
                          ![s].count = Cardinality(S), ![s].attempts = tries]

-----------------------------------------------------------------------------
(* The queue.                                                               *)

Land(a) ==
    /\ a \notin landed /\ landed' = landed \cup {a}
    /\ UNCHANGED <<threaded, story, row, run, concluded, stable>>

Queue == landed \ threaded

\* fetch_queue and find_candidates: the neighbours are read once, for the run.
Start(r) ==
    /\ run[r].pc = "idle"
    /\ run' = [run EXCEPT ![r] =
                 IF Queue = {} THEN [Idle EXCEPT !.pc = "sweep"]
                 ELSE [Idle EXCEPT !.pc = "deciding", !.queue = Queue, !.todo = Queue,
                                   !.snapshot = {<<a, story[a]>> : a \in Articles}]]
    /\ UNCHANGED <<database, concluded, stable>>

\* What the confirmer may choose for article a: what the snapshot offered.
Neighbours(r, a) == {p \in run[r].snapshot : p[1] # a}
ExistingStories(r, a) == {p[2] : p \in Neighbours(r, a)} \ {NoStory}
LooseNeighbours(r, a) == {p[1] : p \in {q \in Neighbours(r, a) : q[2] = NoStory}}

\* The run is done with its article and takes up the next.
Done(r, deferred, claimed) ==
    [run[r] EXCEPT !.pc = "deciding", !.todo = @ \ run[r].article,
                   !.deferred = deferred, !.claimed = claimed, !.article = {},
                   !.story = NoStory, !.proposed = {}, !.members = {}]

Return(r) ==
    /\ run' = [run EXCEPT ![r] = Done(r, run[r].deferred, run[r].claimed)]
    /\ concluded' = concluded \cup run[r].article

Defer(r) ==
    /\ run' = [run EXCEPT ![r] =
                 Done(r, run[r].deferred \cup run[r].article, run[r].claimed)]
    /\ UNCHANGED concluded

Claim(r) ==
    LET taken == run[r].article \cup run[r].proposed
    IN  /\ run' = [run EXCEPT ![r] = Done(r, run[r].deferred, run[r].claimed \cup taken)]
        /\ concluded' = concluded \cup taken

At(r, pc) == run[r].pc = pc

\* "none", or an article an earlier candidate has claimed.
Pass(r, a) ==
    /\ At(r, "deciding") /\ a \in run[r].todo
    /\ run' = [run EXCEPT ![r].todo = @ \ {a}]
    /\ concluded' = concluded \cup {a}
    /\ UNCHANGED <<database, stable>>

Undecided(r, a) == At(r, "deciding") /\ a \in run[r].todo /\ a \notin run[r].claimed

-----------------------------------------------------------------------------
(* _attach                                                                  *)

BeginAttach(r, a, s) ==
    /\ Undecided(r, a) /\ s \in ExistingStories(r, a)
    /\ run' = [run EXCEPT ![r].pc = "attach", ![r].article = {a}, ![r].story = s,
                          ![r].members = Members(s) \cup {a}]
    /\ UNCHANGED <<database, concluded, stable>>

\* same_event rejects a lone article unasked.
Coherent(r) == Cardinality(run[r].members) >= 2

AttachApproved(r) ==
    /\ At(r, "attach") /\ Coherent(r)
    /\ Move(run[r].article, run[r].story)
    /\ run' = [run EXCEPT ![r].pc = "attached", ![r].members = {}]
    /\ UNCHANGED <<landed, threaded, concluded, stable>>

ReadMembers(r) ==
    /\ At(r, "attached")
    /\ run' = [run EXCEPT ![r].pc = "rewrite", ![r].members = Members(run[r].story)]
    /\ UNCHANGED <<database, concluded, stable>>

AttachPublished(r) ==
    /\ At(r, "rewrite")
    /\ Publish(run[r].story, run[r].members, row[run[r].story].attempts)
    /\ Claim(r)
    /\ UNCHANGED <<landed, threaded, story, stable>>

\* The synthesis failed: the copy is kept and withheld.
AttachWithheld(r) ==
    /\ At(r, "rewrite") /\ Claim(r)
    /\ row' = [row EXCEPT ![run[r].story].status = "failed", ![run[r].story].attempts = 0,
                          ![run[r].story].count = Cardinality(run[r].members)]
    /\ UNCHANGED <<landed, threaded, story, stable>>

-----------------------------------------------------------------------------
(* _create                                                                  *)

\* Mutant of Unattached: whoever was offered is taken.
AnyProposed(a, S) == S \cup {a}

\* The members a creation reads: the article, and those still without a story.
Unattached(a, S) == {b \in S : story[b] = NoStory} \cup {a}

\* Fewer than two outlets, and the cluster is dropped before anything is paid.
BeginCreate(r, a, S) ==
    /\ Undecided(r, a) /\ S # {} /\ S \subseteq LooseNeighbours(r, a) \ run[r].claimed
    /\ CrossOutlet(Unattached(a, S))
    /\ run' = [run EXCEPT ![r].pc = "create", ![r].article = {a}, ![r].proposed = S,
                          ![r].story = Unattached(a, S), ![r].members = Unattached(a, S)]
    /\ UNCHANGED <<database, concluded, stable>>

\* A seed that resolved to this story before skips the synthesis.
CreateApproved(r) ==
    /\ At(r, "create")
    /\ run' = [run EXCEPT ![r].pc =
                 IF row[run[r].story].status = "absent" THEN "insert" ELSE "claim"]
    /\ UNCHANGED <<database, concluded, stable>>

\* INSERT ... ON CONFLICT (id) DO NOTHING, with a synthesis or its fallback.
Insert(r, status) ==
    LET s == run[r].story
        new == [status |-> status, attempts |-> 0, current |-> status = "complete",
                copy |-> IF status = "complete" THEN run[r].members ELSE {},
                count |-> Cardinality(run[r].members)]
    IN  /\ At(r, "insert")
        /\ row' = IF row[s].status = "absent" THEN [row EXCEPT ![s] = new] ELSE row
        /\ run' = [run EXCEPT ![r].pc = "claim"]
        /\ UNCHANGED <<landed, threaded, story, concluded, stable>>

ClaimMembers(r) ==
    /\ At(r, "claim")
    /\ Move(run[r].members, run[r].story)
    /\ Claim(r)
    /\ UNCHANGED <<landed, threaded, stable>>

-----------------------------------------------------------------------------
(* What both share.                                                         *)

InReview(r) == At(r, "attach") \/ At(r, "create")

\* Mutant of ReviewRejects: the article counts as claimed.
RejectClaiming(r) ==
    /\ InReview(r) /\ Claim(r)
    /\ UNCHANGED <<database, stable>>

ReviewRejects(r) ==
    /\ InReview(r) /\ Return(r)
    /\ UNCHANGED <<database, stable>>

ReviewUnavailable(r) ==
    /\ InReview(r) /\ Coherent(r) /\ Defer(r)
    /\ UNCHANGED <<database, stable>>

\* An exception is caught for the one article and decides "none" for it.
StepFails(r) ==
    /\ stable = "no"
    /\ run[r].pc \in {"attach", "attached", "rewrite", "create", "insert", "claim"}
    /\ Return(r)
    /\ UNCHANGED <<database, stable>>

\* Mutant of Mark: the deferred articles are marked as well.
MarkAll(r) ==
    /\ At(r, "deciding") /\ run[r].todo = {}
    /\ threaded' = threaded \cup run[r].queue
    /\ run' = [run EXCEPT ![r] = [Idle EXCEPT !.pc = "sweep"]]
    /\ UNCHANGED <<landed, story, row, concluded, stable>>

\* Mutant of Mark: parked articles are left in the queue.
MarkClaimed(r) ==
    /\ At(r, "deciding") /\ run[r].todo = {}
    /\ threaded' = threaded \cup (run[r].queue \cap run[r].claimed)
    /\ run' = [run EXCEPT ![r] = [Idle EXCEPT !.pc = "sweep"]]
    /\ UNCHANGED <<landed, story, row, concluded, stable>>

\* mark_threaded: the whole queue but the deferred articles.
Mark(r) ==
    /\ At(r, "deciding") /\ run[r].todo = {}
    /\ threaded' = threaded \cup (run[r].queue \ run[r].deferred)
    /\ run' = [run EXCEPT ![r] = [Idle EXCEPT !.pc = "sweep"]]
    /\ UNCHANGED <<landed, story, row, concluded, stable>>

MarkFails(r) ==
    /\ stable = "no" /\ At(r, "deciding") /\ run[r].todo = {}
    /\ run' = [run EXCEPT ![r] = [Idle EXCEPT !.pc = "sweep"]]
    /\ UNCHANGED <<database, concluded, stable>>

-----------------------------------------------------------------------------
(* _sweep_failed                                                            *)

\* Mutant of Repairable: the invalidated stories, which have copy, are not looked at.
RepairableUnwritten == {s \in Seeds : /\ row[s].status = "failed" /\ row[s].copy = {}
                                      /\ row[s].attempts < MaxAttempts
                                      /\ CrossOutlet(Members(s))}

\* Copy under an older version of the rules arises only by invalidation here.
Repairable == {s \in Seeds : /\ row[s].status = "failed" /\ row[s].attempts < MaxAttempts
                             /\ CrossOutlet(Members(s))}

\* Fewest attempts first, at most SweepLimit.
Selections == {T \in SUBSET Repairable :
                 /\ Cardinality(T) <= SweepLimit
                 /\ Cardinality(T) < SweepLimit => T = Repairable
                 /\ \A s \in T, t \in Repairable \ T : row[s].attempts <= row[t].attempts}

SelectTargets(r) ==
    /\ At(r, "sweep")
    /\ \E T \in Selections : run' = [run EXCEPT ![r].pc = "sweeping", ![r].targets = T]
    /\ UNCHANGED <<database, concluded, stable>>

\* Nothing left to sweep.
SweepEnds(r) ==
    /\ run[r].pc = "sweeping" /\ run[r].targets = {}
    /\ run' = [run EXCEPT ![r] = Idle]
    /\ UNCHANGED <<database, concluded, stable>>

\* check_budget turns the sweep away: every row stays eligible.
SweepSkipped(r) ==
    /\ At(r, "sweep") /\ Repairable # {}
    /\ run' = [run EXCEPT ![r] = Idle]
    /\ UNCHANGED <<database, concluded, stable>>

SweepRead(r, s) ==
    /\ At(r, "sweeping") /\ s \in run[r].targets
    /\ run' = [run EXCEPT ![r].pc = "repair", ![r].story = s, ![r].members = Members(s)]
    /\ UNCHANGED <<database, concluded, stable>>

NextTarget(r) ==
    /\ At(r, "repair")
    /\ run' = [run EXCEPT ![r].pc = "sweeping", ![r].targets = @ \ {run[r].story},
                          ![r].story = NoStory, ![r].members = {}]
    /\ UNCHANGED <<landed, threaded, story, concluded, stable>>

SweepRepaired(r) ==
    /\ NextTarget(r) /\ Coherent(r)
    /\ Publish(run[r].story, run[r].members, row[run[r].story].attempts + 1)

SweepStillFailed(r) ==
    LET s == run[r].story
    IN  /\ NextTarget(r) /\ Coherent(r)
        /\ row' = [row EXCEPT ![s].attempts = @ + 1,
                              ![s].status = IF row[s].current THEN @ ELSE "failed"]

\* The members are not one event: no attempt can repair the story.
SweepIncoherent(r) ==
    /\ NextTarget(r)
    /\ row' = [row EXCEPT ![run[r].story].status = "failed",
                          ![run[r].story].attempts = MaxAttempts]

\* The review did not answer, or the step raised: the row is left as it is.
SweepUnavailable(r) == NextTarget(r) /\ UNCHANGED row

\* The process dies with the run.
Crash(r) ==
    /\ stable = "no" /\ run[r].pc # "idle"
    /\ run' = [run EXCEPT ![r] = Idle]
    /\ UNCHANGED <<database, concluded, stable>>

\* From here on the database and the processes stay up.
Stabilise == stable = "no" /\ stable' = "now" /\ UNCHANGED <<database, run, concluded>>

-----------------------------------------------------------------------------
Decide(r) ==
    \E a \in Articles :
        \/ Pass(r, a)
        \/ \E s \in Seeds : BeginAttach(r, a, s)
        \/ \E S \in SUBSET Articles : BeginCreate(r, a, S)

Apply(r) ==
    \/ AttachApproved(r) \/ ReadMembers(r) \/ AttachPublished(r) \/ AttachWithheld(r)
    \/ CreateApproved(r) \/ (\E status \in {"complete", "failed"} : Insert(r, status))
    \/ ClaimMembers(r) \/ ReviewRejects(r) \/ ReviewUnavailable(r) \/ StepFails(r)

Sweep(r) ==
    \/ SelectTargets(r) \/ SweepEnds(r) \/ SweepSkipped(r)
    \/ \E s \in Seeds : SweepRead(r, s)
    \/ SweepRepaired(r) \/ SweepStillFailed(r) \/ SweepIncoherent(r) \/ SweepUnavailable(r)

RunStep(r) == Start(r) \/ Decide(r) \/ Apply(r) \/ Mark(r) \/ MarkFails(r) \/ Sweep(r)

Next ==
    \/ \E a \in Articles : Land(a)
    \/ \E r \in Runs : RunStep(r) \/ Crash(r)
    \/ Stabilise

Spec == InitThreading /\ [][Next]_vars

\* A run reaches a decision on a.
Conclude(r, a) ==
    \/ Pass(r, a)
    \/ run[r].article = {a} /\ (ReviewRejects(r) \/ AttachApproved(r) \/ CreateApproved(r))

\* A sweep gets an answer about s.
Answered(r, s) ==
    run[r].story = s /\ (SweepRepaired(r) \/ SweepStillFailed(r) \/ SweepIncoherent(r))

\* The scheduler starts a run after every run, the event loop takes its steps, and
\* neither the reviewer nor the budget turns the same question away for ever.
FairSpec ==
    /\ Spec /\ WF_vars(Stabilise)
    /\ \A r \in Runs :
         /\ WF_vars(RunStep(r)) /\ SF_vars(SelectTargets(r))
         /\ \A a \in Articles : SF_vars(Conclude(r, a))
         /\ \A s \in Seeds : SF_vars(Answered(r, s))

-----------------------------------------------------------------------------
RunState ==
    [pc : {"idle", "deciding", "attach", "attached", "rewrite", "create", "insert",
           "claim", "sweep", "sweeping", "repair"},
     queue : SUBSET Articles, todo : SUBSET Articles,
     snapshot : SUBSET (Articles \X (Seeds \cup {NoStory})),
     claimed : SUBSET Articles, deferred : SUBSET Articles,
     article : SUBSET Articles, story : Seeds \cup {NoStory},
     proposed : SUBSET Articles, members : SUBSET Articles, targets : SUBSET Seeds]

RowState == [status : {"absent", "complete", "failed"}, attempts : Nat,
             copy : SUBSET Articles, current : BOOLEAN, count : Nat]

StoriesTypeOK == story \in [Articles -> Seeds \cup {NoStory}] /\ row \in [Seeds -> RowState]

ThreadingTypeOK ==
    /\ landed \subseteq Articles /\ threaded \subseteq landed /\ concluded \subseteq Articles
    /\ StoriesTypeOK /\ run \in [Runs -> RunState]
    /\ stable \in {"no", "now", "always"}

\* A run is between its first and its last write to the story.
InHand(s) == \E r \in Runs : run[r].story = s /\ run[r].pc \in {"attached", "rewrite", "claim"}

Served(s) == row[s].status = "complete" /\ ~InHand(s)

(* While every database call succeeds, the synthesis a reader sees describes  *)
(* the articles shown under it: once no run is writing a complete story, its  *)
(* copy was written from exactly the members it has, and its article_count is *)
(* theirs (_attach, _create, _move_articles and _sweep_failed together).      *)
ServedCopyIsCurrent ==
    stable = "always" => \A s \in Seeds : Served(s) =>
        row[s].copy = Members(s) /\ row[s].count = Cardinality(Members(s))

(* A creation takes only articles that are still without a story when they    *)
(* are moved, besides the one it was decided for (docstring of _create).      *)
FirstClaimWins ==
    [][\A r \in Runs : ClaimMembers(r) =>
          \A a \in run[r].members \ run[r].article :
              story[a] \in {NoStory, run[r].story}]_vars

WQ == INSTANCE WorkQueue WITH
          Items <- Articles, arrived <- landed, decided <- concluded, marked <- threaded

(* Threading keeps its promise to each article (WorkQueue): it is marked only *)
(* when some run has decided about it, so one whose reviews were unavailable  *)
(* stays queued, whatever other candidates, runs and crashes do (the deferred *)
(* set against mark_threaded), and nothing undoes a decision or a mark.       *)
ThreadsAsQueue == WQ!QueueSpec

(* An article passed over as already claimed is in a story: what a creation   *)
(* proposed and did not take was taken by another (claimed.update(members)).  *)
ClaimedHasStory == \A r \in Runs : \A a \in run[r].claimed : story[a] # NoStory

Attaching(r) == run[r].pc \in {"attach", "attached", "rewrite"}
Creating(r)  == run[r].pc \in {"create", "insert", "claim"}

\* What of its queue a run is through with was decided or deferred.
QueueInHand(r) ==
    /\ run[r].queue \subseteq landed
    /\ run[r].queue \ (run[r].todo \cup run[r].deferred) \subseteq concluded

\* The article a run works on, and what it will count as claimed with it.
ArticleInHand(r) ==
    /\ Attaching(r) \/ run[r].pc = "repair" => run[r].story \in Seeds
    /\ Attaching(r) \/ run[r].pc = "deciding" => run[r].proposed = {}
    /\ run[r].pc \in {"attached", "rewrite"} => \A a \in run[r].article : story[a] # NoStory
    /\ Creating(r) => /\ run[r].story \in Seeds /\ run[r].members = run[r].story
                      /\ \E a \in run[r].members : run[r].article = {a}
                      /\ \A b \in run[r].proposed \ run[r].members : story[b] # NoStory

\* And when no other run interferes: the members it read are still the story's.
MembersInHand(r) ==
    /\ run[r].pc \in {"rewrite", "repair"} => run[r].members = Members(run[r].story)
    /\ Creating(r) => \A b \in run[r].members \ run[r].article : story[b] = NoStory
    /\ run[r].pc = "repair" => run[r].story \in run[r].targets
    /\ run[r].pc \in {"sweeping", "repair"} =>
          \A s \in run[r].targets : row[s].status = "failed" /\ row[s].attempts < MaxAttempts

\* And when nothing fails either: a row and the membership of its seed come together.
RowsInStep ==
    \A s \in Seeds :
        /\ row[s].status = "absent" => Members(s) = {}
        /\ row[s].status # "absent" =>
              \/ \A b \in s : story[b] # NoStory
              \/ \E r \in Runs : run[r].pc = "claim" /\ run[r].story = s
        /\ \A r \in Runs : run[r].story = s =>
              /\ run[r].pc = "insert" => row[s].status = "absent"
              /\ run[r].pc = "claim" =>
                    /\ Members(s) = {} /\ row[s].status # "absent"
                    /\ row[s].status = "complete" =>
                          row[s].copy = s /\ row[s].count = Cardinality(s)

\* Nor is an article attached to a story without a row.
OffersInStep ==
    \A r \in Runs :
        /\ \A a \in Articles : \A s \in ExistingStories(r, a) : row[s].status # "absent"
        /\ Attaching(r) => row[run[r].story].status # "absent"

(* The runs and what they hold in memory go with the database: no story is    *)
(* owed more than its attempts, nothing is read that is no longer so when it  *)
(* is written, and what a run takes for claimed is.                           *)
ThreadingInv ==
    /\ ThreadingTypeOK /\ ClaimedHasStory
    /\ \A r \in Runs : QueueInHand(r) /\ ArticleInHand(r) /\ MembersInHand(r)
    /\ \A s \in Seeds : row[s].attempts <= MaxAttempts
    /\ stable = "always" => RowsInStep /\ OffersInStep

(* Every article whose entities have landed is threaded in the end.           *)
EveryArticleIsThreaded == \A a \in Articles : a \in landed ~> a \in threaded

Owing(s) == /\ row[s].status = "failed" /\ row[s].attempts < MaxAttempts
            /\ CrossOutlet(Members(s))

(* A story that owes a synthesis does not go dark: it is repaired, given up   *)
(* after its attempts, or loses its second outlet.                            *)
FailedIsSettled == \A s \in Seeds : Owing(s) ~> ~Owing(s)
=============================================================================
