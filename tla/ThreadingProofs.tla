--------------------------- MODULE ThreadingProofs ---------------------------
(***************************************************************************)
(* Theorems about Threading.  What is said of the queue and of the claims  *)
(* holds for any number of overlapping runs; what is said of a story's     *)
(* members and of the copy readers see holds for runs that follow one      *)
(* another.                                                                *)
(***************************************************************************)
EXTENDS Threading, FiniteSetTheorems, TLAPS

InvOfMany ==
    /\ ThreadingTypeOK /\ ClaimedHasStory
    /\ \A r \in Runs : QueueInHand(r) /\ ArticleInHand(r)

-----------------------------------------------------------------------------
(* Stories and seeds.                                                       *)

\* The articles are finitely many.
LEMMA SubsetsAreFinite ==
  ASSUME NEW S \in SUBSET Articles
  PROVE  IsFiniteSet(S) /\ Cardinality(S) \in Nat
BY FS_Subset, FS_CardinalityType, ThreadingAssumption

\* A story has members of two outlets, so NoStory is none.
LEMMA SeedsAreStories == NoStory \notin Seeds
<1>1. Outlets({}) = {}
  BY DEF Outlets
<1> QED
  BY <1>1, FS_EmptySet DEF NoStory, Seeds, CrossOutlet

\* And no seed has one member only.
LEMMA SeedHasTwo ==
  ASSUME NEW s \in Seeds, NEW a
  PROVE  \E b \in s : b # a
<1> SUFFICES ASSUME \A b \in s : b = a PROVE FALSE
  OBVIOUS
<1>1. Outlets(s) \in SUBSET {Outlet[a]}
  BY DEF Outlets
<1>2. IsFiniteSet({Outlet[a]}) /\ Cardinality({Outlet[a]}) = 1
  BY FS_Singleton
<1>3. Cardinality(Outlets(s)) \in Nat /\ Cardinality(Outlets(s)) <= 1
  BY <1>1, <1>2, FS_Subset, FS_CardinalityType
<1> QED
  BY <1>2, <1>3 DEF Seeds, CrossOutlet

StoriesAreKept == \A a \in Articles : story[a] # NoStory => story'[a] # NoStory

\* What leaves stories and rows alone keeps what is known of them.
LEMMA StoriesUnchanged ==
  ASSUME ThreadingTypeOK, UNCHANGED <<story, row>>
  PROVE  StoriesTypeOK' /\ StoriesAreKept
BY DEF ThreadingTypeOK, StoriesTypeOK, StoriesAreKept

\* Moving articles leaves the others where they are, and none without a story.
LEMMA MoveEffect ==
  ASSUME ThreadingTypeOK, NEW S, S \subseteq Articles, NEW s \in Seeds, Move(S, s)
  PROVE  /\ StoriesTypeOK' /\ StoriesAreKept
         /\ \A a \in S : story'[a] = s
         /\ \A a \in Articles \ S : story'[a] = story[a]
<1>1. \A t \in Seeds : Cardinality(Members(t) \ S) \in Nat
  <2>1. \A t \in Seeds : Members(t) \ S \in SUBSET Articles
    BY DEF Members
  <2> QED
    BY <2>1, SubsetsAreFinite
<1>2. ASSUME NEW t \in Seeds
      PROVE  [row[t] EXCEPT !.status = "failed", !.current = FALSE, !.attempts = 0,
                            !.count = Cardinality(Members(t) \ S)] \in RowState
  <2>1. row[t] \in RowState
    BY DEF ThreadingTypeOK, StoriesTypeOK
  <2>2. Cardinality(Members(t) \ S) \in Nat
    BY <1>1
  <2> QED
    BY <2>1, <2>2 DEF RowState
<1>3. /\ story' \in [Articles -> Seeds \cup {NoStory}]
      /\ \A a \in S : story'[a] = s
      /\ \A a \in Articles \ S : story'[a] = story[a]
  BY DEF Move, ThreadingTypeOK, StoriesTypeOK
<1>4. row' \in [Seeds -> RowState]
  BY <1>2 DEF Move, ThreadingTypeOK, StoriesTypeOK
<1> QED
  BY <1>3, <1>4, SeedsAreStories DEF StoriesTypeOK, StoriesAreKept

-----------------------------------------------------------------------------
(* Any number of runs.                                                      *)

\* A step of one run, as the others see it.
LEMMA OneRunMoves ==
  ASSUME InvOfMany, NEW r \in Runs,
         landed \subseteq landed', concluded \subseteq concluded',
         StoriesAreKept,
         \A q \in Runs \ {r} : run'[q] = run[q],
         QueueInHand(r)', ArticleInHand(r)', \A a \in run'[r].claimed : story'[a] # NoStory
  PROVE  ClaimedHasStory' /\ \A q \in Runs : QueueInHand(q)' /\ ArticleInHand(q)'
<1>1. ASSUME NEW q \in Runs \ {r}
      PROVE  /\ QueueInHand(q)' /\ ArticleInHand(q)'
             /\ \A a \in run'[q].claimed : story'[a] # NoStory
  <2>1. /\ run[q] \in RunState /\ QueueInHand(q) /\ ArticleInHand(q)
        /\ \A a \in run[q].claimed : story[a] # NoStory
    BY DEF InvOfMany, ThreadingTypeOK, ClaimedHasStory
  <2>2. QueueInHand(q)'
    BY <2>1 DEF QueueInHand
  <2>3. /\ run[q].claimed \subseteq Articles /\ run[q].article \subseteq Articles
        /\ run[q].proposed \subseteq Articles
    BY <2>1 DEF RunState
  <2>4. ArticleInHand(q)'
    BY <2>1, <2>3 DEF ArticleInHand, Attaching, Creating, StoriesAreKept
  <2> QED
    BY <2>1, <2>2, <2>3, <2>4 DEF StoriesAreKept
<1> QED
  BY <1>1 DEF ClaimedHasStory

\* A step of one run, by what has to be shown of it alone.
LEMMA RunMovesKeepsMany ==
  ASSUME InvOfMany, NEW r \in Runs, NEW new \in RunState, run' = [run EXCEPT ![r] = new],
         UNCHANGED <<landed, stable>>, threaded' \subseteq landed,
         concluded \subseteq concluded', concluded' \subseteq Articles,
         StoriesTypeOK', StoriesAreKept, \A a \in new.claimed : story'[a] # NoStory,
         run'[r] = new => QueueInHand(r)' /\ ArticleInHand(r)'
  PROVE  InvOfMany'
<1>1. ThreadingTypeOK /\ run \in [Runs -> RunState]
  BY DEF InvOfMany, ThreadingTypeOK
<1>2. /\ run' \in [Runs -> RunState] /\ run'[r] = new
      /\ \A q \in Runs \ {r} : run'[q] = run[q]
  BY <1>1
<1>3. ThreadingTypeOK'
  BY <1>1, <1>2 DEF ThreadingTypeOK
<1> QED
  BY <1>2, <1>3, OneRunMoves DEF InvOfMany

\* A run that ends, is cut off or turns to its sweep holds nothing any more.
LEMMA NothingInHand ==
  ASSUME InvOfMany, NEW r \in Runs, NEW p \in {"idle", "sweep"},
         run' = [run EXCEPT ![r] = [Idle EXCEPT !.pc = p]],
         UNCHANGED <<landed, story, row, concluded, stable>>,
         threaded' \subseteq landed
  PROVE  InvOfMany'
<1> DEFINE new == [Idle EXCEPT !.pc = p]
<1>1. new \in RunState /\ new.queue = {} /\ new.claimed = {} /\ new.pc = p
  BY DEF Idle, RunState, NoStory
<1>2. run' = [run EXCEPT ![r] = new]
  OBVIOUS
<1> HIDE DEF new
<1>3. /\ concluded' \subseteq Articles /\ StoriesTypeOK' /\ StoriesAreKept
  BY StoriesUnchanged DEF InvOfMany, ThreadingTypeOK
<1>4. run'[r] = new => QueueInHand(r)' /\ ArticleInHand(r)'
  BY <1>1 DEF QueueInHand, ArticleInHand, Attaching, Creating
<1> QED
  BY <1>1, <1>2, <1>3, <1>4, RunMovesKeepsMany

\* Being done keeps the invariant, if what became of the article is on record.
LEMMA DoneKeepsMany ==
  ASSUME InvOfMany, NEW r \in Runs, NEW D, D \subseteq Articles, NEW C, C \subseteq Articles,
         run' = [run EXCEPT ![r] = Done(r, D, C)],
         UNCHANGED <<landed, threaded, stable>>,
         concluded \subseteq concluded', concluded' \subseteq Articles,
         run[r].article \subseteq concluded' \cup D, run[r].deferred \subseteq D,
         StoriesTypeOK', StoriesAreKept, \A a \in C : story'[a] # NoStory
  PROVE  InvOfMany'
<1> DEFINE new == Done(r, D, C)
<1>1. threaded' \subseteq landed /\ QueueInHand(r) /\ run[r] \in RunState
  BY DEF InvOfMany, ThreadingTypeOK
<1>2. /\ new \in RunState /\ new.pc = "deciding" /\ new.queue = run[r].queue
      /\ new.todo = run[r].todo \ run[r].article
      /\ new.deferred = D /\ new.claimed = C /\ new.proposed = {}
  <2>1. D \in SUBSET Articles /\ C \in SUBSET Articles
    OBVIOUS
  <2> QED
    BY <1>1, <2>1, SeedsAreStories DEF Done, RunState, NoStory
<1> HIDE DEF new
<1>3. run'[r] = new => QueueInHand(r)' /\ ArticleInHand(r)'
  BY <1>1, <1>2 DEF QueueInHand, ArticleInHand, Attaching, Creating
<1>4. run' = [run EXCEPT ![r] = new]
  BY DEF new
<1> QED
  BY <1>1, <1>2, <1>3, <1>4, RunMovesKeepsMany

\* A step of a run that leaves its queue and its claims as they are.
LEMMA HoldingKeepsMany ==
  ASSUME InvOfMany, NEW r \in Runs, NEW new \in RunState, run' = [run EXCEPT ![r] = new],
         new.queue = run[r].queue, new.todo = run[r].todo,
         new.deferred = run[r].deferred, new.claimed = run[r].claimed,
         UNCHANGED <<landed, threaded, concluded, stable>>,
         StoriesTypeOK', StoriesAreKept, run'[r] = new => ArticleInHand(r)'
  PROVE  InvOfMany'
<1>1. /\ concluded \subseteq Articles /\ threaded' \subseteq landed /\ QueueInHand(r)
      /\ \A a \in run[r].claimed : story[a] # NoStory
      /\ run[r].claimed \subseteq Articles
  BY DEF InvOfMany, ThreadingTypeOK, ClaimedHasStory, RunState
<1>2. run'[r] = new => QueueInHand(r)'
  BY <1>1 DEF QueueInHand
<1>3. \A a \in new.claimed : story'[a] # NoStory
  BY <1>1 DEF StoriesAreKept
<1> QED
  BY <1>1, <1>2, <1>3, RunMovesKeepsMany

\* The review or the database ends the work on an article.
LEMMA GivingUpKeepsMany ==
  ASSUME InvOfMany, NEW r \in Runs,
         ReviewRejects(r) \/ ReviewUnavailable(r) \/ StepFails(r)
  PROVE  InvOfMany'
<1>1. /\ ThreadingTypeOK /\ run[r] \in RunState
      /\ \A a \in run[r].claimed : story[a] # NoStory
      /\ UNCHANGED <<database, stable>>
  BY DEF InvOfMany, ThreadingTypeOK, ClaimedHasStory,
         ReviewRejects, ReviewUnavailable, StepFails
<1>2. /\ run[r].article \subseteq Articles /\ run[r].claimed \subseteq Articles
      /\ run[r].deferred \subseteq Articles /\ concluded \subseteq Articles
  BY <1>1 DEF RunState, ThreadingTypeOK
<1>3. StoriesTypeOK' /\ StoriesAreKept
  BY <1>1, StoriesUnchanged DEF database
<1>4. CASE Return(r)
  BY <1>1, <1>2, <1>3, <1>4, DoneKeepsMany DEF Return, database
<1>5. CASE Defer(r)
  <2> DEFINE D == run[r].deferred \cup run[r].article
  <2>1. /\ D \subseteq Articles /\ run[r].article \subseteq concluded' \cup D
        /\ run[r].deferred \subseteq D
    BY <1>2
  <2>2. run' = [run EXCEPT ![r] = Done(r, D, run[r].claimed)] /\ concluded' = concluded
    BY <1>5 DEF Defer
  <2>3. \A a \in run[r].claimed : story'[a] # NoStory
    BY <1>1 DEF database
  <2> HIDE DEF D
  <2> QED
    BY <1>1, <1>2, <1>3, <2>1, <2>2, <2>3, DoneKeepsMany DEF database
<1> QED
  BY <1>4, <1>5 DEF ReviewRejects, ReviewUnavailable, StepFails

\* The queue and the decision about an article.
LEMMA DecidingKeepsMany ==
  ASSUME InvOfMany, NEW r \in Runs, Start(r) \/ Decide(r)
  PROVE  InvOfMany'
<1>1. /\ ThreadingTypeOK /\ run[r] \in RunState /\ QueueInHand(r) /\ StoriesTypeOK
      /\ \A a \in run[r].claimed : story[a] # NoStory
      /\ threaded \subseteq landed /\ landed \subseteq Articles /\ concluded \subseteq Articles
  BY DEF InvOfMany, ThreadingTypeOK, ClaimedHasStory
<1>2. /\ UNCHANGED <<database, stable>> /\ StoriesTypeOK' /\ StoriesAreKept
  <2>1. UNCHANGED <<database, stable>>
    BY DEF Start, Decide, Pass, BeginAttach, BeginCreate
  <2> QED
    BY <1>1, <2>1, StoriesUnchanged DEF database
<1>3. CASE Start(r) /\ Queue = {}
  BY <1>1, <1>2, <1>3, NothingInHand DEF Start, database
<1>4. CASE Start(r) /\ Queue # {}
  <2> DEFINE new == [Idle EXCEPT !.pc = "deciding", !.queue = Queue, !.todo = Queue,
                                 !.snapshot = {<<a, story[a]>> : a \in Articles}]
  <2>1. {<<a, story[a]>> : a \in Articles} \subseteq Articles \X (Seeds \cup {NoStory})
    BY <1>1 DEF StoriesTypeOK
  <2>2. Queue \subseteq landed /\ Queue \subseteq Articles
    BY <1>1 DEF Queue
  <2>3. /\ new \in RunState /\ new.queue = Queue /\ new.todo = Queue /\ new.claimed = {}
        /\ new.pc = "deciding" /\ new.proposed = {}
    BY <2>1, <2>2 DEF Idle, RunState, NoStory
  <2>4. run' = [run EXCEPT ![r] = new] /\ concluded' = concluded
    BY <1>4 DEF Start
  <2> HIDE DEF new
  <2>5. run'[r] = new => QueueInHand(r)' /\ ArticleInHand(r)'
    BY <1>2, <2>2, <2>3 DEF QueueInHand, ArticleInHand, Attaching, Creating, database
  <2> QED
    BY <1>1, <1>2, <2>3, <2>4, <2>5, RunMovesKeepsMany DEF database
<1>5. ASSUME NEW a \in Articles, Pass(r, a) PROVE InvOfMany'
  <2> DEFINE new == [run[r] EXCEPT !.todo = @ \ {a}]
  <2>1. /\ new \in RunState /\ new.queue = run[r].queue /\ new.todo = run[r].todo \ {a}
        /\ new.deferred = run[r].deferred /\ new.claimed = run[r].claimed
        /\ new.pc = run[r].pc /\ new.proposed = run[r].proposed
    BY <1>1 DEF RunState
  <2>2. /\ run' = [run EXCEPT ![r] = new] /\ concluded' = concluded \cup {a}
        /\ run[r].pc = "deciding" /\ run[r].proposed = {}
    BY <1>5 DEF Pass, At, InvOfMany, ArticleInHand
  <2> HIDE DEF new
  <2>3. run'[r] = new => QueueInHand(r)' /\ ArticleInHand(r)'
    BY <1>1, <1>2, <2>1, <2>2 DEF QueueInHand, ArticleInHand, Attaching, Creating, database
  <2>4. \A b \in new.claimed : story'[b] # NoStory
    BY <1>1, <1>2, <2>1 DEF database
  <2> QED
    BY <1>1, <1>2, <2>1, <2>2, <2>3, <2>4, RunMovesKeepsMany DEF database
<1>6. ASSUME NEW a \in Articles, NEW s \in Seeds, BeginAttach(r, a, s) PROVE InvOfMany'
  <2> DEFINE new == [run[r] EXCEPT !.pc = "attach", !.article = {a}, !.story = s,
                                   !.members = Members(s) \cup {a}]
  <2>1. /\ new \in RunState /\ new.queue = run[r].queue /\ new.todo = run[r].todo
        /\ new.deferred = run[r].deferred /\ new.claimed = run[r].claimed
        /\ new.pc = "attach" /\ new.story = s /\ new.proposed = run[r].proposed
    BY <1>1 DEF RunState, Members
  <2>2. /\ run' = [run EXCEPT ![r] = new] /\ concluded' = concluded
        /\ run[r].proposed = {}
    BY <1>1, <1>6 DEF BeginAttach, InvOfMany, ArticleInHand, Undecided, At
  <2> HIDE DEF new
  <2>3. run'[r] = new => ArticleInHand(r)'
    BY <2>1, <2>2 DEF ArticleInHand, Attaching, Creating
  <2> QED
    BY <1>2, <2>1, <2>2, <2>3, HoldingKeepsMany DEF database
<1>7. ASSUME NEW a \in Articles, NEW S \in SUBSET Articles, BeginCreate(r, a, S)
      PROVE  InvOfMany'
  <2> DEFINE new == [run[r] EXCEPT !.pc = "create", !.article = {a}, !.proposed = S,
                                   !.story = Unattached(a, S), !.members = Unattached(a, S)]
  <2>1. Unattached(a, S) \in Seeds /\ Unattached(a, S) \subseteq Articles
    BY <1>7 DEF BeginCreate, Unattached, Seeds
  <2>2. /\ new \in RunState /\ new.queue = run[r].queue /\ new.todo = run[r].todo
        /\ new.deferred = run[r].deferred /\ new.claimed = run[r].claimed
        /\ new.pc = "create" /\ new.story = Unattached(a, S) /\ new.members = new.story
        /\ new.proposed = S /\ new.article = {a}
    BY <1>1, <2>1 DEF RunState
  <2>3. run' = [run EXCEPT ![r] = new] /\ concluded' = concluded
    BY <1>7 DEF BeginCreate
  <2> HIDE DEF new
  <2>4. run'[r] = new => ArticleInHand(r)'
    BY <1>2, <2>1, <2>2 DEF ArticleInHand, Attaching, Creating, Unattached, database
  <2> QED
    BY <1>2, <2>2, <2>3, <2>4, HoldingKeepsMany DEF database
<1> QED
  BY <1>3, <1>4, <1>5, <1>6, <1>7 DEF Decide

\* Publishing writes a row.
LEMMA PublishType ==
  ASSUME ThreadingTypeOK, NEW s \in Seeds, NEW S \in SUBSET Articles, NEW tries \in Nat,
         Publish(s, S, tries)
  PROVE  row' \in [Seeds -> RowState]
<1>1. Cardinality(S) \in Nat
  BY SubsetsAreFinite
<1>2. row \in [Seeds -> RowState] /\ row[s] \in RowState
  BY DEF ThreadingTypeOK, StoriesTypeOK
<1>3. [row[s] EXCEPT !.status = "complete", !.current = TRUE, !.copy = S,
                     !.count = Cardinality(S), !.attempts = tries] \in RowState
  BY <1>1, <1>2 DEF RowState
<1>4. row' = [row EXCEPT ![s] =
                [row[s] EXCEPT !.status = "complete", !.current = TRUE, !.copy = S,
                               !.count = Cardinality(S), !.attempts = tries]]
  BY <1>2 DEF Publish, RowState
<1> QED
  BY <1>2, <1>3, <1>4

\* The attach and create steps that go on with the article.
LEMMA WorkingKeepsMany ==
  ASSUME InvOfMany, NEW r \in Runs,
         \/ AttachApproved(r) \/ ReadMembers(r) \/ CreateApproved(r)
         \/ \E status \in {"complete", "failed"} : Insert(r, status)
  PROVE  InvOfMany'
<1>1. /\ ThreadingTypeOK /\ run[r] \in RunState /\ StoriesTypeOK /\ ArticleInHand(r)
      /\ run[r].article \subseteq Articles /\ run[r].members \subseteq Articles
  BY DEF InvOfMany, ThreadingTypeOK, RunState
<1>2. CASE AttachApproved(r)
  <2> DEFINE new == [run[r] EXCEPT !.pc = "attached", !.members = {}]
  <2>1. /\ new \in RunState /\ new.queue = run[r].queue /\ new.todo = run[r].todo
        /\ new.deferred = run[r].deferred /\ new.claimed = run[r].claimed
        /\ new.pc = "attached" /\ new.story = run[r].story /\ new.proposed = run[r].proposed
        /\ new.article = run[r].article
    BY <1>1 DEF RunState
  <2>2. /\ run' = [run EXCEPT ![r] = new] /\ UNCHANGED <<landed, threaded, concluded, stable>>
        /\ run[r].story \in Seeds /\ run[r].proposed = {}
        /\ Move(run[r].article, run[r].story)
    BY <1>1, <1>2 DEF AttachApproved, At, ArticleInHand, Attaching
  <2> HIDE DEF new
  <2>3. /\ StoriesTypeOK' /\ StoriesAreKept
        /\ \A a \in run[r].article : story'[a] = run[r].story
    BY <1>1, <2>2, MoveEffect
  <2>4. run'[r] = new => ArticleInHand(r)'
    BY <2>1, <2>2, <2>3, SeedsAreStories DEF ArticleInHand, Attaching, Creating
  <2> QED
    BY <2>1, <2>2, <2>3, <2>4, HoldingKeepsMany
<1>3. CASE ReadMembers(r)
  <2> DEFINE new == [run[r] EXCEPT !.pc = "rewrite", !.members = Members(run[r].story)]
  <2>1. /\ new \in RunState /\ new.queue = run[r].queue /\ new.todo = run[r].todo
        /\ new.deferred = run[r].deferred /\ new.claimed = run[r].claimed
        /\ new.pc = "rewrite" /\ new.story = run[r].story /\ new.proposed = run[r].proposed
        /\ new.article = run[r].article
    BY <1>1 DEF RunState, Members
  <2>2. /\ run' = [run EXCEPT ![r] = new] /\ UNCHANGED <<database, concluded, stable>>
        /\ run[r].pc = "attached"
    BY <1>3 DEF ReadMembers, At
  <2> HIDE DEF new
  <2>3. StoriesTypeOK' /\ StoriesAreKept
    BY <1>1, <2>2, StoriesUnchanged DEF database
  <2>4. run'[r] = new => ArticleInHand(r)'
    BY <1>1, <2>1, <2>2 DEF ArticleInHand, Attaching, Creating, database
  <2> QED
    BY <2>1, <2>2, <2>3, <2>4, HoldingKeepsMany DEF database
<1>4. CASE CreateApproved(r)
  <2> PICK p \in {"insert", "claim"} : run' = [run EXCEPT ![r].pc = p]
    BY <1>4 DEF CreateApproved
  <2> DEFINE new == [run[r] EXCEPT !.pc = p]
  <2>1. /\ new \in RunState /\ new.queue = run[r].queue /\ new.todo = run[r].todo
        /\ new.deferred = run[r].deferred /\ new.claimed = run[r].claimed
        /\ new.pc = p /\ new.story = run[r].story /\ new.proposed = run[r].proposed
        /\ new.article = run[r].article /\ new.members = run[r].members
    BY <1>1 DEF RunState
  <2>2. /\ run' = [run EXCEPT ![r] = new] /\ UNCHANGED <<database, concluded, stable>>
        /\ run[r].pc = "create"
    BY <1>4 DEF CreateApproved, At
  <2> HIDE DEF new
  <2>3. StoriesTypeOK' /\ StoriesAreKept
    BY <1>1, <2>2, StoriesUnchanged DEF database
  <2>4. run'[r] = new => ArticleInHand(r)'
    BY <1>1, <2>1, <2>2 DEF ArticleInHand, Attaching, Creating, database
  <2> QED
    BY <2>1, <2>2, <2>3, <2>4, HoldingKeepsMany DEF database
<1>5. ASSUME NEW status \in {"complete", "failed"}, Insert(r, status) PROVE InvOfMany'
  <2> DEFINE new == [run[r] EXCEPT !.pc = "claim"]
  <2>1. /\ new \in RunState /\ new.queue = run[r].queue /\ new.todo = run[r].todo
        /\ new.deferred = run[r].deferred /\ new.claimed = run[r].claimed
        /\ new.pc = "claim" /\ new.story = run[r].story /\ new.proposed = run[r].proposed
        /\ new.article = run[r].article /\ new.members = run[r].members
    BY <1>1 DEF RunState
  <2>2. /\ run' = [run EXCEPT ![r] = new]
        /\ UNCHANGED <<landed, threaded, story, concluded, stable>>
        /\ run[r].pc = "insert"
    BY <1>5 DEF Insert, At
  <2> HIDE DEF new
  <2>3. run'[r] = new => ArticleInHand(r)'
    BY <1>1, <2>1, <2>2 DEF ArticleInHand, Attaching, Creating
  <2>4. run[r].members \in SUBSET Articles /\ Cardinality(run[r].members) \in Nat
    BY <1>1, SubsetsAreFinite
  <2>5. [status |-> status, attempts |-> 0, current |-> status = "complete",
         copy |-> IF status = "complete" THEN run[r].members ELSE {},
         count |-> Cardinality(run[r].members)] \in RowState
    BY <2>4 DEF RowState
  <2>6. row' \in [Seeds -> RowState]
    BY <1>1, <1>5, <2>5 DEF Insert, StoriesTypeOK
  <2>7. StoriesTypeOK' /\ StoriesAreKept
    BY <1>1, <2>2, <2>6 DEF StoriesTypeOK, StoriesAreKept
  <2> QED
    BY <2>1, <2>2, <2>3, <2>7, HoldingKeepsMany
<1> QED
  BY <1>2, <1>3, <1>4, <1>5

\* The steps that claim the article, in a story by then.
LEMMA ClaimingKeepsMany ==
  ASSUME InvOfMany, NEW r \in Runs,
         AttachPublished(r) \/ AttachWithheld(r) \/ ClaimMembers(r)
  PROVE  InvOfMany'
<1> DEFINE taken == run[r].article \cup run[r].proposed
<1>1. /\ ThreadingTypeOK /\ run[r] \in RunState /\ StoriesTypeOK /\ ArticleInHand(r)
      /\ \A a \in run[r].claimed : story[a] # NoStory
  BY DEF InvOfMany, ThreadingTypeOK, ClaimedHasStory
<1>2. /\ run[r].article \subseteq Articles /\ run[r].claimed \subseteq Articles
      /\ run[r].deferred \subseteq Articles /\ run[r].members \subseteq Articles
      /\ run[r].proposed \subseteq Articles /\ concluded \subseteq Articles
  BY <1>1 DEF RunState, ThreadingTypeOK
<1>3. /\ run' = [run EXCEPT ![r] = Done(r, run[r].deferred, run[r].claimed \cup taken)]
      /\ concluded' = concluded \cup taken
      /\ UNCHANGED <<landed, threaded, stable>>
  BY DEF AttachPublished, AttachWithheld, ClaimMembers, Claim
<1>4. StoriesTypeOK' /\ StoriesAreKept /\ \A a \in taken : story'[a] # NoStory
  <2>1. CASE AttachPublished(r) \/ AttachWithheld(r)
    <3>1. /\ run[r].story \in Seeds /\ run[r].proposed = {}
          /\ \A a \in run[r].article : story[a] # NoStory
          /\ story' = story
      BY <1>1, <2>1 DEF AttachPublished, AttachWithheld, At, ArticleInHand, Attaching
    <3>2. /\ row[run[r].story] \in RowState /\ run[r].members \in SUBSET Articles
          /\ Cardinality(run[r].members) \in Nat
      BY <1>1, <1>2, <3>1, SubsetsAreFinite DEF StoriesTypeOK
    <3>3. row[run[r].story].attempts \in Nat
      BY <3>2 DEF RowState
    <3>4. CASE AttachPublished(r)
      <4>1. row' \in [Seeds -> RowState]
        BY <1>1, <3>1, <3>2, <3>3, <3>4, PublishType DEF AttachPublished
      <4> QED
        BY <1>1, <3>1, <4>1 DEF StoriesTypeOK, StoriesAreKept
    <3>5. CASE AttachWithheld(r)
      <4> DEFINE new == [row[run[r].story] EXCEPT
                           !.status = "failed", !.attempts = 0,
                           !.count = Cardinality(run[r].members)]
      <4>1. new \in RowState
        BY <3>2 DEF RowState
      <4>2. row' = [row EXCEPT ![run[r].story] = new]
        BY <1>1, <3>1, <3>2, <3>5 DEF AttachWithheld, StoriesTypeOK, RowState
      <4> HIDE DEF new
      <4>3. row' \in [Seeds -> RowState]
        BY <1>1, <4>1, <4>2 DEF StoriesTypeOK
      <4> QED
        BY <1>1, <3>1, <4>3 DEF StoriesTypeOK, StoriesAreKept
    <3> QED
      BY <2>1, <3>4, <3>5
  <2>2. CASE ClaimMembers(r)
    <3>1. /\ run[r].story \in Seeds /\ run[r].article \subseteq run[r].members
          /\ \A b \in run[r].proposed \ run[r].members : story[b] # NoStory
          /\ Move(run[r].members, run[r].story)
      BY <1>1, <2>2 DEF ClaimMembers, At, ArticleInHand, Creating
    <3>2. /\ StoriesTypeOK' /\ StoriesAreKept
          /\ \A a \in run[r].members : story'[a] = run[r].story
      BY <1>1, <1>2, <3>1, MoveEffect
    <3>3. ASSUME NEW a \in taken PROVE story'[a] # NoStory
      <4>1. CASE a \in run[r].members
        BY <3>1, <3>2, <4>1, SeedsAreStories
      <4>2. CASE a \notin run[r].members
        <5>1. a \in run[r].proposed \ run[r].members /\ a \in Articles
          BY <1>2, <3>1, <4>2
        <5> QED
          BY <3>1, <3>2, <5>1 DEF StoriesAreKept
      <4> QED
        BY <4>1, <4>2
    <3> QED
      BY <3>2, <3>3
  <2> QED
    BY <2>1, <2>2
<1>5. \A a \in run[r].claimed \cup taken : story'[a] # NoStory
  BY <1>1, <1>2, <1>4 DEF StoriesAreKept
<1>6. /\ run[r].article \subseteq concluded' \cup run[r].deferred
      /\ concluded \subseteq concluded' /\ concluded' \subseteq Articles
      /\ run[r].claimed \cup taken \subseteq Articles
  BY <1>2, <1>3
<1> HIDE DEF taken
<1> QED
  BY <1>2, <1>3, <1>4, <1>5, <1>6, DoneKeepsMany

\* The sweep writes rows only, and moves no article.
LEMMA SweepingKeepsMany ==
  ASSUME InvOfMany, NEW r \in Runs, Sweep(r)
  PROVE  InvOfMany'
<1>1. /\ ThreadingTypeOK /\ run[r] \in RunState /\ StoriesTypeOK /\ threaded \subseteq landed
      /\ run[r].members \subseteq Articles
  BY DEF InvOfMany, ThreadingTypeOK, RunState
<1>2. CASE SweepEnds(r) \/ SweepSkipped(r)
  <2>1. run' = [run EXCEPT ![r] = [Idle EXCEPT !.pc = "idle"]]
    BY <1>2 DEF SweepEnds, SweepSkipped, Idle
  <2> QED
    BY <1>1, <1>2, <2>1, NothingInHand DEF SweepEnds, SweepSkipped, database
<1>3. ASSUME NEW new \in RunState, run' = [run EXCEPT ![r] = new],
             new.pc \in {"sweeping", "repair"}, new.pc = "repair" => new.story \in Seeds,
             new.queue = run[r].queue, new.todo = run[r].todo,
             new.deferred = run[r].deferred, new.claimed = run[r].claimed,
             UNCHANGED <<landed, threaded, story, concluded, stable>>,
             row' \in [Seeds -> RowState]
      PROVE  InvOfMany'
  <2>1. run'[r] = new => ArticleInHand(r)'
    BY <1>3 DEF ArticleInHand, Attaching, Creating
  <2>2. StoriesTypeOK' /\ StoriesAreKept
    BY <1>1, <1>3 DEF StoriesTypeOK, StoriesAreKept
  <2> QED
    BY <1>3, <2>1, <2>2, HoldingKeepsMany
<1>4. CASE SelectTargets(r)
  <2> PICK T \in Selections : run' = [run EXCEPT ![r].pc = "sweeping", ![r].targets = T]
    BY <1>4 DEF SelectTargets
  <2> DEFINE new == [run[r] EXCEPT !.pc = "sweeping", !.targets = T]
  <2>1. T \in SUBSET Seeds
    BY DEF Selections, Repairable
  <2>2. /\ new \in RunState /\ new.pc = "sweeping"
        /\ new.queue = run[r].queue /\ new.todo = run[r].todo
        /\ new.deferred = run[r].deferred /\ new.claimed = run[r].claimed
    BY <1>1, <2>1 DEF RunState
  <2>3. run' = [run EXCEPT ![r] = new] /\ UNCHANGED <<database, concluded, stable>>
    BY <1>4 DEF SelectTargets
  <2> HIDE DEF new
  <2> QED
    BY <1>1, <1>3, <2>2, <2>3 DEF database, StoriesTypeOK
<1>5. ASSUME NEW s \in Seeds, SweepRead(r, s) PROVE InvOfMany'
  <2> DEFINE new == [run[r] EXCEPT !.pc = "repair", !.story = s, !.members = Members(s)]
  <2>1. /\ new \in RunState /\ new.pc = "repair" /\ new.story = s
        /\ new.queue = run[r].queue /\ new.todo = run[r].todo
        /\ new.deferred = run[r].deferred /\ new.claimed = run[r].claimed
    BY <1>1 DEF RunState, Members
  <2>2. run' = [run EXCEPT ![r] = new] /\ UNCHANGED <<database, concluded, stable>>
    BY <1>5 DEF SweepRead
  <2> HIDE DEF new
  <2> QED
    BY <1>1, <1>3, <2>1, <2>2 DEF database, StoriesTypeOK
<1>6. CASE NextTarget(r) /\ row' \in [Seeds -> RowState]
  <2> DEFINE new == [run[r] EXCEPT !.pc = "sweeping", !.targets = @ \ {run[r].story},
                                   !.story = NoStory, !.members = {}]
  <2>1. /\ new \in RunState /\ new.pc = "sweeping"
        /\ new.queue = run[r].queue /\ new.todo = run[r].todo
        /\ new.deferred = run[r].deferred /\ new.claimed = run[r].claimed
    BY <1>1 DEF RunState, NoStory
  <2>2. /\ run' = [run EXCEPT ![r] = new]
        /\ UNCHANGED <<landed, threaded, story, concluded, stable>>
    BY <1>6 DEF NextTarget
  <2> HIDE DEF new
  <2> QED
    BY <1>3, <1>6, <2>1, <2>2
<1>7. CASE SweepRepaired(r) \/ SweepStillFailed(r) \/ SweepIncoherent(r) \/ SweepUnavailable(r)
  <2> DEFINE s == run[r].story
  <2>1. s \in Seeds
    BY <1>7 DEF SweepRepaired, SweepStillFailed, SweepIncoherent, SweepUnavailable,
                NextTarget, At, InvOfMany, ArticleInHand
  <2>2. row[s] \in RowState /\ row[s].attempts \in Nat /\ row[s].attempts + 1 \in Nat
    BY <1>1, <2>1 DEF StoriesTypeOK, RowState
  <2>3. CASE SweepRepaired(r)
    <3>1. run[r].members \in SUBSET Articles /\ Publish(s, run[r].members, row[s].attempts + 1)
      BY <1>1, <2>3 DEF SweepRepaired
    <3>2. row' \in [Seeds -> RowState]
      BY <1>1, <2>1, <2>2, <3>1, PublishType
    <3> QED
      BY <1>6, <2>3, <3>2 DEF SweepRepaired
  <2>4. CASE SweepStillFailed(r)
    <3>1. [row[s] EXCEPT !.attempts = @ + 1,
                         !.status = IF row[s].current THEN @ ELSE "failed"] \in RowState
      BY <2>2 DEF RowState
    <3> QED
      BY <1>1, <1>6, <2>1, <2>4, <3>1 DEF SweepStillFailed, StoriesTypeOK
  <2>5. CASE SweepIncoherent(r)
    <3>1. [row[s] EXCEPT !.status = "failed", !.attempts = MaxAttempts] \in RowState
      BY <2>2, ThreadingAssumption DEF RowState
    <3> QED
      BY <1>1, <1>6, <2>1, <2>5, <3>1 DEF SweepIncoherent, StoriesTypeOK
  <2>6. CASE SweepUnavailable(r)
    BY <1>1, <1>6, <2>6 DEF SweepUnavailable, StoriesTypeOK
  <2> QED
    BY <1>7, <2>3, <2>4, <2>5, <2>6
<1> QED
  BY <1>2, <1>4, <1>5, <1>7 DEF Sweep

\* Marking and the failures that end a run.
LEMMA EndingKeepsMany ==
  ASSUME InvOfMany, NEW r \in Runs, Mark(r) \/ MarkFails(r) \/ Crash(r)
  PROVE  InvOfMany'
<1>1. ThreadingTypeOK /\ QueueInHand(r) /\ threaded \subseteq landed
  BY DEF InvOfMany, ThreadingTypeOK
<1>2. CASE Mark(r) \/ MarkFails(r)
  BY <1>1, <1>2, NothingInHand DEF Mark, MarkFails, QueueInHand, database
<1>3. CASE Crash(r)
  <2>1. run' = [run EXCEPT ![r] = [Idle EXCEPT !.pc = "idle"]]
    BY <1>3 DEF Crash, Idle
  <2> QED
    BY <1>1, <1>3, <2>1, NothingInHand DEF Crash, database
<1> QED
  BY <1>2, <1>3

\* What is new in the database concerns no run.
LEMMA LandingKeepsMany ==
  ASSUME InvOfMany, Stabilise \/ \E a \in Articles : Land(a)
  PROVE  InvOfMany'
<1>1. ThreadingTypeOK'
  BY DEF InvOfMany, ThreadingTypeOK, StoriesTypeOK, Stabilise, Land, database
<1>2. /\ UNCHANGED <<story, run, concluded>> /\ landed \subseteq landed'
  BY DEF Stabilise, Land, database
<1> QED
  BY <1>1, <1>2 DEF InvOfMany, ClaimedHasStory, QueueInHand, ArticleInHand, Attaching, Creating

\* The invariant of overlapping runs is inductive.
LEMMA NextKeepsMany == ASSUME InvOfMany, [Next]_vars PROVE InvOfMany'
<1>1. CASE UNCHANGED vars
  BY <1>1 DEF InvOfMany, ThreadingTypeOK, StoriesTypeOK, ClaimedHasStory, QueueInHand,
              ArticleInHand, Attaching, Creating, vars, database
<1>2. CASE \E a \in Articles : Land(a)
  BY <1>2, LandingKeepsMany
<1>3. CASE Stabilise
  BY <1>3, LandingKeepsMany
<1>4. ASSUME NEW r \in Runs, RunStep(r) \/ Crash(r) PROVE InvOfMany'
  BY <1>4, DecidingKeepsMany, WorkingKeepsMany, ClaimingKeepsMany, GivingUpKeepsMany,
     EndingKeepsMany, SweepingKeepsMany DEF RunStep, Apply
<1> QED
  BY <1>1, <1>2, <1>3, <1>4 DEF Next

\* No story, and no run under way.
LEMMA InitIsOfMany == InitThreading => InvOfMany
<1> SUFFICES ASSUME InitThreading PROVE InvOfMany
  OBVIOUS
<1>1. Idle \in RunState /\ Absent \in RowState
  BY DEF Idle, RunState, NoStory, Absent, RowState
<1>2. ThreadingTypeOK
  BY <1>1 DEF InitThreading, ThreadingTypeOK, StoriesTypeOK
<1>3. \A r \in Runs : run[r] = Idle
  BY DEF InitThreading
<1>4. ASSUME NEW r \in Runs
      PROVE  QueueInHand(r) /\ ArticleInHand(r) /\ \A a \in run[r].claimed : story[a] # NoStory
  BY <1>3 DEF QueueInHand, ArticleInHand, Attaching, Creating, Idle
<1> QED
  BY <1>2, <1>4 DEF InvOfMany, ClaimedHasStory

\* What holds however many runs overlap: the state is well formed, what a run has
\* been through was decided or deferred, and what it takes for claimed has a story.
THEOREM OverlappingRunsAreSound == Spec => []InvOfMany
BY InitIsOfMany, NextKeepsMany, PTL DEF Spec

\* A step of overlapping runs is a step of the queue or none.
LEMMA NextIsQueueStep == ASSUME InvOfMany, [Next]_vars PROVE [WQ!QueueNext]_(WQ!queueVars)
<1>1. CASE UNCHANGED vars
  BY <1>1 DEF vars, database, WQ!queueVars
<1>2. CASE \E a \in Articles : Land(a)
  BY <1>2 DEF Land, WQ!QueueNext, WQ!Arrive
<1>3. CASE Stabilise
  BY <1>3 DEF Stabilise, database, WQ!queueVars
<1>4. ASSUME NEW r \in Runs, RunStep(r) \/ Crash(r) PROVE [WQ!QueueNext]_(WQ!queueVars)
  <2>1. CASE Mark(r)
    <3>1. /\ run[r].queue \ run[r].deferred \subseteq landed \cap concluded
      BY <2>1 DEF Mark, At, InvOfMany, QueueInHand
    <3>2. /\ threaded' = threaded \cup (run[r].queue \ run[r].deferred)
          /\ UNCHANGED <<landed, concluded>>
      BY <2>1 DEF Mark
    <3> QED
      BY <3>1, <3>2 DEF WQ!QueueNext, WQ!Mark
  <2>2. CASE ~Mark(r)
    <3>1. UNCHANGED <<landed, threaded>>
      BY <1>4, <2>2 DEF RunStep, Start, Decide, Pass, BeginAttach, BeginCreate, Apply,
           AttachApproved, ReadMembers, AttachPublished, AttachWithheld, CreateApproved, Insert,
           ClaimMembers, ReviewRejects, ReviewUnavailable, StepFails, MarkFails, Sweep,
           SelectTargets, SweepEnds, SweepSkipped, SweepRead, SweepRepaired, SweepStillFailed,
           SweepIncoherent, SweepUnavailable, NextTarget, Crash, database
    <3>2. InvOfMany' /\ concluded' \subseteq Articles
      BY NextKeepsMany DEF InvOfMany, ThreadingTypeOK
    <3>3. concluded \subseteq concluded'
      BY <1>4, <2>2 DEF RunStep, Start, Decide, Pass, BeginAttach, BeginCreate, Apply,
           AttachApproved, ReadMembers, AttachPublished, AttachWithheld, CreateApproved, Insert,
           ClaimMembers, ReviewRejects, ReviewUnavailable, StepFails, MarkFails, Sweep,
           SelectTargets, SweepEnds, SweepSkipped, SweepRead, SweepRepaired, SweepStillFailed,
           SweepIncoherent, SweepUnavailable, NextTarget, Crash, Return, Defer, Claim
    <3>4. concluded' = concluded \cup (concluded' \ concluded)
      BY <3>3
    <3> QED
      BY <3>1, <3>2, <3>4 DEF WQ!QueueNext, WQ!Conclude
  <2> QED
    BY <2>1, <2>2
<1> QED
  BY <1>1, <1>2, <1>3, <1>4 DEF Next

\* Threading keeps its promise to the articles, whatever runs overlap: what is
\* marked as threaded was decided.
THEOREM ThreadingImplementsQueue == Spec => ThreadsAsQueue
<1>1. InitThreading => WQ!InitQueue
  BY DEF InitThreading, WQ!InitQueue
<1> QED
  BY <1>1, OverlappingRunsAreSound, NextIsQueueStep, PTL DEF Spec, ThreadsAsQueue, WQ!QueueSpec

-----------------------------------------------------------------------------
(* Runs that follow one another.                                            *)

Alone == \A q, r \in Runs : q = r

InStep == RowsInStep /\ OffersInStep /\ ServedCopyIsCurrent

InvOfOne ==
    /\ InvOfMany
    /\ \A r \in Runs : MembersInHand(r)
    /\ \A s \in Seeds : row[s].attempts <= MaxAttempts
    /\ stable = "always" => InStep

\* Steps that change nothing readers see: they let go of a story only between writes.
LEMMA QuietKeepsOne ==
  ASSUME Alone, InvOfOne, InvOfMany', NEW r \in Runs, UNCHANGED <<story, row>>,
         MembersInHand(r)', stable' = "always" => stable = "always",
         stable = "always" =>
            /\ run[r].pc # "claim" /\ run'[r].pc # "claim"
            /\ run[r].pc \in {"attached", "rewrite"} =>
                  run'[r].pc \in {"attached", "rewrite"} /\ run'[r].story = run[r].story
            /\ run'[r].pc = "insert" => row[run'[r].story].status = "absent"
            /\ OffersInStep'
  PROVE  InvOfOne'
<1>1. \A q \in Runs : MembersInHand(q)'
  BY DEF Alone
<1>2. \A s \in Seeds : row'[s].attempts <= MaxAttempts
  BY DEF InvOfOne
<1>3. ASSUME stable' = "always" PROVE InStep'
  <2>1. stable = "always" /\ RowsInStep /\ ServedCopyIsCurrent /\ OffersInStep'
    BY <1>3 DEF InvOfOne, InStep
  <2>2. RowsInStep'
    BY <2>1 DEF RowsInStep, Members, Alone
  <2>3. \A s \in Seeds : InHand(s) => InHand(s)'
    BY <2>1 DEF InHand, Alone
  <2>4. ServedCopyIsCurrent'
    BY <2>1, <2>3 DEF ServedCopyIsCurrent, Served, Members
  <2> QED
    BY <2>1, <2>2, <2>4 DEF InStep
<1> QED
  BY <1>1, <1>2, <1>3 DEF InvOfOne

\* What a run may attach to keeps its row.
LEMMA OffersKept ==
  ASSUME Alone, ThreadingTypeOK, OffersInStep, NEW r \in Runs,
         run'[r].snapshot \subseteq run[r].snapshot,
         \A s \in Seeds : row[s].status # "absent" => row'[s].status # "absent",
         Attaching(r)' => row'[run'[r].story].status # "absent"
  PROVE  OffersInStep'
<1>1. run[r].snapshot \subseteq Articles \X (Seeds \cup {NoStory})
  BY DEF ThreadingTypeOK, RunState
<1>2. ASSUME NEW a \in Articles, NEW s \in ExistingStories(r, a)'
      PROVE  s \in Seeds /\ s \in ExistingStories(r, a)
  <2>1. PICK p \in run'[r].snapshot : p[1] # a /\ s = p[2] /\ s # NoStory
    BY <1>2 DEF ExistingStories, Neighbours
  <2>2. p \in run[r].snapshot /\ p[2] \in Seeds \cup {NoStory}
    BY <1>1, <2>1
  <2> QED
    BY <2>1, <2>2 DEF ExistingStories, Neighbours
<1> QED
  BY <1>2 DEF OffersInStep, Alone

\* Beginning, and deciding about an article.
LEMMA DecidingKeepsOne ==
  ASSUME Alone, InvOfOne, NEW r \in Runs, Start(r) \/ Decide(r)
  PROVE  InvOfOne'
<1>1. /\ InvOfMany /\ ThreadingTypeOK /\ StoriesTypeOK /\ run[r] \in RunState
      /\ run \in [Runs -> RunState] /\ InvOfMany'
  BY DecidingKeepsMany DEF InvOfOne, InvOfMany, ThreadingTypeOK
<1>2. UNCHANGED <<story, row, stable>>
  BY DEF Start, Decide, Pass, BeginAttach, BeginCreate, database
<1>3. CASE Start(r)
  <2>1. /\ run[r].pc = "idle" /\ run'[r].pc \in {"deciding", "sweep"}
        /\ run'[r].snapshot \subseteq {<<a, story[a]>> : a \in Articles}
    BY <1>1, <1>3 DEF Start, Idle
  <2>2. MembersInHand(r)'
    BY <2>1 DEF MembersInHand, Creating
  <2>3. ASSUME stable = "always" PROVE OffersInStep'
    <3>1. \A s \in Seeds : row[s].status = "absent" => Members(s) = {}
      BY <2>3 DEF InvOfOne, InStep, RowsInStep
    <3>2. \A a \in Articles : story[a] # NoStory => row[story[a]].status # "absent"
      BY <1>1, <3>1 DEF StoriesTypeOK, Members
    <3>3. ASSUME NEW a \in Articles, NEW s \in ExistingStories(r, a)'
          PROVE  row'[s].status # "absent"
      <4>1. PICK p \in run'[r].snapshot : s = p[2] /\ s # NoStory
        BY <3>3 DEF ExistingStories, Neighbours
      <4>2. PICK b \in Articles : p = <<b, story[b]>>
        BY <2>1
      <4> QED
        BY <1>2, <3>2, <4>1, <4>2
    <3> QED
      BY <2>1, <3>3 DEF OffersInStep, Attaching, Alone
  <2> QED
    BY <1>1, <1>2, <2>1, <2>2, <2>3, QuietKeepsOne
<1>4. ASSUME NEW a \in Articles, Pass(r, a) PROVE InvOfOne'
  <2>1. /\ run[r].pc = "deciding" /\ run'[r].pc = "deciding"
        /\ run'[r].snapshot = run[r].snapshot
    BY <1>1, <1>4 DEF Pass, At, RunState
  <2>2. MembersInHand(r)'
    BY <2>1 DEF MembersInHand, Creating
  <2>3. stable = "always" => OffersInStep'
    BY <1>1, <1>2, <2>1, OffersKept DEF InvOfOne, InStep, Attaching
  <2> QED
    BY <1>1, <1>2, <2>1, <2>2, <2>3, QuietKeepsOne
<1>5. ASSUME NEW a \in Articles, NEW s \in Seeds, BeginAttach(r, a, s) PROVE InvOfOne'
  <2>1. /\ run[r].pc = "deciding" /\ run'[r].pc = "attach" /\ run'[r].story = s
        /\ run'[r].snapshot = run[r].snapshot /\ s \in ExistingStories(r, a)
    BY <1>1, <1>5 DEF BeginAttach, Undecided, At, RunState
  <2>2. MembersInHand(r)'
    BY <2>1 DEF MembersInHand, Creating
  <2>3. stable = "always" => OffersInStep'
    <3>1. stable = "always" => OffersInStep /\ row[s].status # "absent"
      BY <2>1 DEF InvOfOne, InStep, OffersInStep
    <3> QED
      BY <1>1, <1>2, <2>1, <3>1, OffersKept
  <2> QED
    BY <1>1, <1>2, <2>1, <2>2, <2>3, QuietKeepsOne
<1>6. ASSUME NEW a \in Articles, NEW S \in SUBSET Articles, BeginCreate(r, a, S)
      PROVE  InvOfOne'
  <2>1. /\ run[r].pc = "deciding" /\ run'[r].pc = "create" /\ run'[r].article = {a}
        /\ run'[r].snapshot = run[r].snapshot /\ run'[r].members = Unattached(a, S)
    BY <1>1, <1>6 DEF BeginCreate, Undecided, At, RunState
  <2>2. MembersInHand(r)'
    BY <1>2, <2>1 DEF MembersInHand, Creating, Unattached
  <2>3. stable = "always" => OffersInStep'
    BY <1>1, <1>2, <2>1, OffersKept DEF InvOfOne, InStep, Attaching
  <2> QED
    BY <1>1, <1>2, <2>1, <2>2, <2>3, QuietKeepsOne
<1> QED
  BY <1>3, <1>4, <1>5, <1>6 DEF Decide

\* In a run of its own, nobody has taken the articles of a creation meanwhile, so that
\* its seed has no row yet.
LEMMA CreationIsNew ==
  ASSUME Alone, InvOfOne, NEW r \in Runs, run[r].pc = "create", stable = "always"
  PROVE  row[run[r].story].status = "absent"
<1>1. /\ run[r].story \in Seeds /\ run[r].members = run[r].story
      /\ \E a \in run[r].members : run[r].article = {a}
      /\ \A b \in run[r].members \ run[r].article : story[b] = NoStory
  BY DEF InvOfOne, InvOfMany, ArticleInHand, MembersInHand, Creating
<1>2. PICK a \in run[r].members : run[r].article = {a}
  BY <1>1
<1>3. PICK b \in run[r].story : b # a
  BY <1>1, SeedHasTwo
<1>4. story[b] = NoStory
  BY <1>1, <1>2, <1>3
<1> QED
  BY <1>1, <1>3, <1>4 DEF InvOfOne, InStep, RowsInStep, Alone

\* A review, whatever becomes of it.
LEMMA ReviewKeepsOne ==
  ASSUME Alone, InvOfOne, NEW r \in Runs,
         \/ ReadMembers(r) \/ CreateApproved(r)
         \/ ReviewRejects(r) \/ ReviewUnavailable(r) \/ StepFails(r)
  PROVE  InvOfOne'
<1>1. /\ InvOfMany /\ ThreadingTypeOK /\ run[r] \in RunState
      /\ run \in [Runs -> RunState] /\ MembersInHand(r)
      /\ stable = "always" => OffersInStep
  BY DEF InvOfOne, InvOfMany, ThreadingTypeOK, InStep
<1>2. InvOfMany'
  BY <1>1, WorkingKeepsMany, GivingUpKeepsMany
<1>3. UNCHANGED <<story, row, stable>>
  BY DEF ReadMembers, CreateApproved, ReviewRejects, ReviewUnavailable, StepFails, database
<1>4. CASE ReadMembers(r)
  <2>1. /\ run[r].pc = "attached" /\ run'[r].pc = "rewrite" /\ run'[r].story = run[r].story
        /\ run'[r].snapshot = run[r].snapshot /\ run'[r].members = Members(run[r].story)
    BY <1>1, <1>4 DEF ReadMembers, At, RunState
  <2>2. MembersInHand(r)'
    BY <1>3, <2>1 DEF MembersInHand, Creating, Members
  <2>3. stable = "always" => OffersInStep'
    BY <1>1, <1>3, <2>1, OffersKept DEF OffersInStep, Attaching
  <2> QED
    BY <1>2, <1>3, <2>1, <2>2, <2>3, QuietKeepsOne
<1>5. CASE CreateApproved(r)
  <2>1. /\ run[r].pc = "create" /\ run'[r].pc \in {"insert", "claim"}
        /\ row[run[r].story].status = "absent" => run'[r].pc = "insert"
        /\ run'[r].story = run[r].story /\ run'[r].snapshot = run[r].snapshot
        /\ run'[r].members = run[r].members /\ run'[r].article = run[r].article
    BY <1>1, <1>5 DEF CreateApproved, At, RunState
  <2>2. MembersInHand(r)'
    BY <1>1, <1>3, <2>1 DEF MembersInHand, Creating
  <2>3. stable = "always" => OffersInStep'
    BY <1>1, <1>3, <2>1, OffersKept DEF Attaching
  <2>4. stable = "always" => row[run[r].story].status = "absent"
    BY <2>1, CreationIsNew
  <2> QED
    BY <1>2, <1>3, <2>1, <2>2, <2>3, <2>4, QuietKeepsOne
<1>6. CASE ReviewRejects(r) \/ ReviewUnavailable(r) \/ StepFails(r)
  <2>1. /\ stable = "always" => run[r].pc \in {"attach", "create"}
        /\ run'[r].pc = "deciding" /\ run'[r].snapshot = run[r].snapshot
    <3>1. stable = "always" => run[r].pc \in {"attach", "create"}
      BY <1>6 DEF ReviewRejects, ReviewUnavailable, StepFails, InReview, At
    <3>2. Return(r) \/ Defer(r)
      BY <1>6 DEF ReviewRejects, ReviewUnavailable, StepFails
    <3>3. CASE Return(r)
      BY <1>1, <3>1, <3>3 DEF Return, Done, RunState
    <3>4. CASE Defer(r)
      BY <1>1, <3>1, <3>4 DEF Defer, Done, RunState
    <3> QED
      BY <3>2, <3>3, <3>4
  <2>2. MembersInHand(r)'
    BY <2>1 DEF MembersInHand, Creating
  <2>3. stable = "always" => OffersInStep'
    BY <1>1, <1>3, <2>1, OffersKept DEF Attaching
  <2> QED
    BY <1>2, <1>3, <2>1, <2>2, <2>3, QuietKeepsOne
<1> QED
  BY <1>4, <1>5, <1>6

\* The reads of the sweep, and the ways a run ends.
LEMMA EndingKeepsOne ==
  ASSUME Alone, InvOfOne, NEW r \in Runs,
         \/ SelectTargets(r) \/ SweepEnds(r) \/ SweepSkipped(r)
         \/ (\E s \in Seeds : SweepRead(r, s)) \/ SweepUnavailable(r)
         \/ Mark(r) \/ MarkFails(r) \/ Crash(r)
  PROVE  InvOfOne'
<1>1. /\ InvOfMany /\ ThreadingTypeOK /\ run[r] \in RunState
      /\ run \in [Runs -> RunState] /\ MembersInHand(r)
      /\ stable = "always" => OffersInStep
  BY DEF InvOfOne, InvOfMany, ThreadingTypeOK, InStep
<1>2. InvOfMany'
  BY <1>1, SweepingKeepsMany, EndingKeepsMany DEF Sweep
<1>3. UNCHANGED <<story, row, stable>>
  BY DEF SelectTargets, SweepEnds, SweepSkipped, SweepRead, SweepUnavailable, NextTarget,
         Mark, MarkFails, Crash, database
<1>4. CASE SelectTargets(r)
  <2> PICK T \in Selections : run' = [run EXCEPT ![r].pc = "sweeping", ![r].targets = T]
    BY <1>4 DEF SelectTargets
  <2>1. /\ run[r].pc = "sweep" /\ run'[r].pc = "sweeping" /\ run'[r].targets = T
        /\ run'[r].snapshot = run[r].snapshot
    BY <1>1, <1>4 DEF SelectTargets, At, RunState
  <2>2. MembersInHand(r)'
    BY <1>3, <2>1 DEF MembersInHand, Creating, Selections, Repairable
  <2>3. stable = "always" => OffersInStep'
    BY <1>1, <1>3, <2>1, OffersKept DEF Attaching
  <2> QED
    BY <1>2, <1>3, <2>1, <2>2, <2>3, QuietKeepsOne
<1>5. CASE \E s \in Seeds : SweepRead(r, s)
  <2> PICK s \in Seeds : SweepRead(r, s)
    BY <1>5
  <2>1. /\ run[r].pc = "sweeping" /\ run'[r].pc = "repair" /\ s \in run[r].targets
        /\ run'[r].targets = run[r].targets /\ run'[r].story = s
        /\ run'[r].members = Members(s) /\ run'[r].snapshot = run[r].snapshot
    BY <1>1 DEF SweepRead, At, RunState
  <2>2. MembersInHand(r)'
    BY <1>1, <1>3, <2>1 DEF MembersInHand, Creating, Members
  <2>3. stable = "always" => OffersInStep'
    BY <1>1, <1>3, <2>1, OffersKept DEF Attaching
  <2> QED
    BY <1>2, <1>3, <2>1, <2>2, <2>3, QuietKeepsOne
<1>6. CASE SweepUnavailable(r)
  <2>1. /\ run[r].pc = "repair" /\ run'[r].pc = "sweeping"
        /\ run'[r].targets \subseteq run[r].targets /\ run'[r].snapshot = run[r].snapshot
    BY <1>1, <1>6 DEF SweepUnavailable, NextTarget, At, RunState
  <2>2. MembersInHand(r)'
    BY <1>1, <1>3, <2>1 DEF MembersInHand, Creating
  <2>3. stable = "always" => OffersInStep'
    BY <1>1, <1>3, <2>1, OffersKept DEF Attaching
  <2> QED
    BY <1>2, <1>3, <2>1, <2>2, <2>3, QuietKeepsOne
<1>7. CASE SweepEnds(r) \/ SweepSkipped(r) \/ Mark(r) \/ MarkFails(r) \/ Crash(r)
  <2>1. /\ stable = "always" => run[r].pc \in {"sweeping", "sweep", "deciding"}
        /\ run'[r].pc \in {"idle", "sweep"} /\ run'[r].snapshot = {}
    BY <1>1, <1>7 DEF SweepEnds, SweepSkipped, Mark, MarkFails, Crash, At, Idle
  <2>2. MembersInHand(r)'
    BY <2>1 DEF MembersInHand, Creating
  <2>3. stable = "always" => OffersInStep'
    BY <1>1, <1>3, <2>1, OffersKept DEF Attaching
  <2> QED
    BY <1>2, <1>3, <2>1, <2>2, <2>3, QuietKeepsOne
<1> QED
  BY <1>4, <1>5, <1>6, <1>7

\* What is new in the database changes nothing either.
LEMMA LandingKeepsOne ==
  ASSUME InvOfOne, UNCHANGED vars \/ Stabilise \/ \E a \in Articles : Land(a)
  PROVE  InvOfOne'
<1>1. InvOfMany'
  BY NextKeepsMany DEF InvOfOne, Next
<1>2. UNCHANGED <<story, row, run>> /\ (stable' = "always" => stable = "always")
  BY DEF vars, database, Stabilise, Land
<1> QED
  BY <1>1, <1>2 DEF InvOfOne, MembersInHand, Creating, Members, InStep, RowsInStep, OffersInStep,
       Attaching, ExistingStories, Neighbours, ServedCopyIsCurrent, Served, InHand

\* A step that writes the row of the story in hand, and is done with the story.
LEMMA RowWriteKeepsOne ==
  ASSUME Alone, InvOfOne, InvOfMany', NEW r \in Runs, NEW s \in Seeds, s = run[r].story,
         UNCHANGED <<story, stable>>, \A t \in Seeds \ {s} : row'[t] = row[t],
         row'[s].attempts <= MaxAttempts, MembersInHand(r)',
         stable = "always" =>
            /\ row[s].status # "absent" /\ row'[s].status # "absent"
            /\ row'[s].status = "complete" =>
                  row'[s].copy = Members(s) /\ row'[s].count = Cardinality(Members(s))
            /\ run[r].pc \in {"rewrite", "repair"} /\ run'[r].pc \in {"deciding", "sweeping"}
            /\ run'[r].snapshot = run[r].snapshot
  PROVE  InvOfOne'
<1>1. \A q \in Runs : MembersInHand(q)'
  BY DEF Alone
<1>2. \A t \in Seeds : row'[t].attempts <= MaxAttempts
  BY DEF InvOfOne
<1>3. \A t : Members(t)' = Members(t)
  BY DEF Members
<1>4. ASSUME stable' = "always" PROVE InStep'
  <2>1. /\ stable = "always" /\ RowsInStep /\ ServedCopyIsCurrent /\ OffersInStep
        /\ ThreadingTypeOK
    BY <1>4 DEF InvOfOne, InStep, InvOfMany
  <2>2. RowsInStep'
    BY <1>3, <2>1 DEF RowsInStep, Alone
  <2>3. OffersInStep'
    BY <2>1, OffersKept DEF Attaching
  <2>4. ASSUME NEW t \in Seeds, Served(t)'
        PROVE  row'[t].copy = Members(t) /\ row'[t].count = Cardinality(Members(t))
    <3>1. CASE t = s
      BY <2>1, <2>4, <3>1 DEF Served
    <3>2. CASE t # s
      BY <2>1, <2>4, <3>2 DEF ServedCopyIsCurrent, Served, InHand, Alone
    <3> QED
      BY <3>1, <3>2
  <2>5. ServedCopyIsCurrent'
    BY <1>3, <2>4 DEF ServedCopyIsCurrent
  <2> QED
    BY <2>2, <2>3, <2>5 DEF InStep
<1> QED
  BY <1>1, <1>2, <1>4 DEF InvOfOne

\* Publishing serves the copy of these members and leaves other stories alone.
LEMMA PublishRow ==
  ASSUME ThreadingTypeOK, NEW s \in Seeds, NEW S, NEW tries, Publish(s, S, tries)
  PROVE  /\ \A t \in Seeds \ {s} : row'[t] = row[t]
         /\ row'[s].status = "complete" /\ row'[s].copy = S
         /\ row'[s].count = Cardinality(S) /\ row'[s].attempts = tries
BY DEF Publish, ThreadingTypeOK, StoriesTypeOK, RowState

\* Rewriting a story that was joined, from the members it still has.
LEMMA RewriteKeepsOne ==
  ASSUME Alone, InvOfOne, NEW r \in Runs, AttachPublished(r) \/ AttachWithheld(r)
  PROVE  InvOfOne'
<1> DEFINE s == run[r].story
<1>1. /\ InvOfMany /\ ThreadingTypeOK /\ StoriesTypeOK /\ run[r] \in RunState
      /\ run \in [Runs -> RunState] /\ MembersInHand(r) /\ ArticleInHand(r)
      /\ \A t \in Seeds : row[t].attempts <= MaxAttempts
      /\ stable = "always" => OffersInStep
  BY DEF InvOfOne, InvOfMany, ThreadingTypeOK, InStep
<1>2. InvOfMany'
  BY <1>1, ClaimingKeepsMany
<1>3. /\ run[r].pc = "rewrite" /\ run[r].members = Members(s) /\ s \in Seeds
      /\ run'[r].pc = "deciding" /\ run'[r].snapshot = run[r].snapshot
      /\ UNCHANGED <<story, stable>>
  <2>1. run[r].pc = "rewrite" /\ Claim(r) /\ UNCHANGED <<story, stable>>
    BY DEF AttachPublished, AttachWithheld, At
  <2>2. run'[r].pc = "deciding" /\ run'[r].snapshot = run[r].snapshot
    BY <1>1, <2>1 DEF Claim, Done, RunState
  <2> QED
    BY <1>1, <2>1, <2>2 DEF MembersInHand, ArticleInHand, Attaching
<1>4. MembersInHand(r)'
  BY <1>3 DEF MembersInHand, Creating
<1>5. stable = "always" => row[s].status # "absent"
  BY <1>1, <1>3 DEF OffersInStep, Attaching
<1>6. CASE AttachPublished(r)
  <2>1. /\ \A t \in Seeds \ {s} : row'[t] = row[t]
        /\ row'[s].status = "complete" /\ row'[s].copy = run[r].members
        /\ row'[s].count = Cardinality(run[r].members) /\ row'[s].attempts = row[s].attempts
    BY <1>1, <1>3, <1>6, PublishRow DEF AttachPublished
  <2>2. row'[s].attempts <= MaxAttempts
    BY <1>1, <1>3, <2>1
  <2> QED
    BY <1>2, <1>3, <1>4, <1>5, <2>1, <2>2, RowWriteKeepsOne
<1>7. CASE AttachWithheld(r)
  <2>1. /\ \A t \in Seeds \ {s} : row'[t] = row[t]
        /\ row'[s].status = "failed" /\ row'[s].attempts = 0
    BY <1>1, <1>3, <1>7 DEF AttachWithheld, StoriesTypeOK, RowState
  <2>2. row'[s].attempts <= MaxAttempts
    BY <2>1, ThreadingAssumption
  <2> QED
    BY <1>2, <1>3, <1>4, <1>5, <2>1, <2>2, RowWriteKeepsOne
<1> QED
  BY <1>6, <1>7

\* The sweep's repair of a story that owes a synthesis.
LEMMA RepairKeepsOne ==
  ASSUME Alone, InvOfOne, NEW r \in Runs,
         SweepRepaired(r) \/ SweepStillFailed(r) \/ SweepIncoherent(r)
  PROVE  InvOfOne'
<1> DEFINE s == run[r].story
<1>1. /\ InvOfMany /\ ThreadingTypeOK /\ StoriesTypeOK /\ run[r] \in RunState
      /\ run \in [Runs -> RunState] /\ MembersInHand(r) /\ ArticleInHand(r)
  BY DEF InvOfOne, InvOfMany, ThreadingTypeOK
<1>2. InvOfMany'
  BY <1>1, SweepingKeepsMany DEF Sweep
<1>3. /\ run[r].pc = "repair" /\ run[r].members = Members(s) /\ s \in Seeds
      /\ s \in run[r].targets /\ row[s].status = "failed" /\ row[s].attempts < MaxAttempts
      /\ run'[r].pc = "sweeping" /\ run'[r].snapshot = run[r].snapshot
      /\ run'[r].targets = run[r].targets \ {s} /\ UNCHANGED <<story, stable>>
  BY <1>1 DEF SweepRepaired, SweepStillFailed, SweepIncoherent, NextTarget, At,
              MembersInHand, ArticleInHand, RunState
<1>4. row[s].attempts \in Nat /\ row[s].attempts + 1 <= MaxAttempts
  BY <1>1, <1>3, ThreadingAssumption DEF StoriesTypeOK, RowState
<1>5. /\ \A t \in Seeds \ {s} : row'[t] = row[t]
      /\ row'[s].attempts <= MaxAttempts /\ row'[s].status \in {"complete", "failed"}
      /\ row'[s].status = "complete" =>
            row'[s].copy = Members(s) /\ row'[s].count = Cardinality(Members(s))
  <2>1. CASE SweepRepaired(r)
    <3>1. Publish(s, run[r].members, row[s].attempts + 1)
      BY <2>1 DEF SweepRepaired
    <3> QED
      BY <1>1, <1>3, <1>4, <3>1, PublishRow
  <2>2. CASE SweepStillFailed(r)
    BY <1>1, <1>3, <1>4, <2>2 DEF SweepStillFailed, StoriesTypeOK, RowState
  <2>3. CASE SweepIncoherent(r)
    BY <1>1, <1>3, <2>3, ThreadingAssumption DEF SweepIncoherent, StoriesTypeOK, RowState
  <2> QED
    BY <2>1, <2>2, <2>3
<1>6. MembersInHand(r)'
  <2>1. run[r].targets \subseteq Seeds
    BY <1>1 DEF RunState
  <2> QED
    BY <1>1, <1>3, <1>5, <2>1 DEF MembersInHand, Creating
<1> QED
  BY <1>2, <1>3, <1>5, <1>6, RowWriteKeepsOne

\* Inserting a story, whose members are still to be moved.
LEMMA InsertKeepsOne ==
  ASSUME Alone, InvOfOne, NEW r \in Runs, NEW status \in {"complete", "failed"},
         Insert(r, status)
  PROVE  InvOfOne'
<1>1. /\ InvOfMany /\ ThreadingTypeOK /\ StoriesTypeOK /\ run[r] \in RunState
      /\ run \in [Runs -> RunState] /\ MembersInHand(r) /\ ArticleInHand(r)
      /\ \A q \in Runs : q = r
  BY DEF InvOfOne, InvOfMany, ThreadingTypeOK, Alone
<1> PICK s \in Seeds : s = run[r].story
  BY <1>1 DEF Insert, At, ArticleInHand, Creating
<1> DEFINE new == [status |-> status, attempts |-> 0, current |-> status = "complete",
                   copy |-> IF status = "complete" THEN run[r].members ELSE {},
                   count |-> Cardinality(run[r].members)]
<1>2. InvOfMany'
  BY <1>1, WorkingKeepsMany
<1>3. /\ run[r].pc = "insert" /\ run[r].members = s
      /\ run'[r].pc = "claim" /\ run'[r].snapshot = run[r].snapshot /\ run'[r].story = s
      /\ run'[r].members = run[r].members /\ run'[r].article = run[r].article
      /\ UNCHANGED <<story, stable>>
      /\ row' = IF row[s].status = "absent" THEN [row EXCEPT ![s] = new] ELSE row
  BY <1>1 DEF Insert, At, ArticleInHand, Creating, RunState
<1>4. /\ new.attempts = 0 /\ new.status = status /\ new.count = Cardinality(s)
      /\ new.status = "complete" => new.copy = s
  BY <1>3
<1> HIDE DEF new
<1>5. /\ \A t \in Seeds \ {s} : row'[t] = row[t]
      /\ row'[s] = row[s] \/ row'[s] = new
      /\ row[s].status = "absent" => row'[s] = new
  BY <1>1, <1>3 DEF StoriesTypeOK
<1>6. MembersInHand(r)'
  BY <1>1, <1>3 DEF MembersInHand, Creating
<1>7. \A q \in Runs : MembersInHand(q)'
  BY <1>6 DEF Alone
<1>8. \A t \in Seeds : row'[t].attempts <= MaxAttempts
  BY <1>4, <1>5, ThreadingAssumption DEF InvOfOne
<1>9. ASSUME stable' = "always" PROVE InStep'
  <2>1. RowsInStep /\ ServedCopyIsCurrent /\ OffersInStep
    BY <1>3, <1>9 DEF InvOfOne, InStep
  <2>2. row[s].status = "absent" /\ Members(s) = {}
    BY <1>3, <2>1 DEF RowsInStep
  <2>3. \A t : Members(t)' = Members(t)
    BY <1>3 DEF Members
  <2>4. row'[s] = new /\ row'[s].status # "absent"
    BY <1>4, <1>5, <2>2
  <2>5. RowsInStep'
    <3>1. ASSUME NEW t \in Seeds, t # s
          PROVE  /\ row'[t].status = "absent" => Members(t)' = {}
                 /\ row'[t].status # "absent" => \A b \in t : story'[b] # NoStory
                 /\ run'[r].story # t
      BY <1>3, <1>5, <2>1, <2>3, <3>1 DEF RowsInStep, Alone
    <3>2. /\ Members(s)' = {}
          /\ row'[s].status = "complete" => row'[s].copy = s /\ row'[s].count = Cardinality(s)
      BY <1>4, <2>2, <2>3, <2>4
    <3>3. \A q \in Runs : run'[q].pc = "claim" /\ run'[q].story = s
      BY <1>1, <1>3
    <3>4. \E q \in Runs : run'[q].pc = "claim" /\ run'[q].story = s
      BY <3>3
    <3>5. ASSUME NEW t \in Seeds
          PROVE  /\ row'[t].status = "absent" => Members(t)' = {}
                 /\ row'[t].status # "absent" =>
                       \/ \A b \in t : story'[b] # NoStory
                       \/ \E q \in Runs : run'[q].pc = "claim" /\ run'[q].story = t
                 /\ \A q \in Runs : run'[q].story = t =>
                       /\ run'[q].pc = "insert" => row'[t].status = "absent"
                       /\ run'[q].pc = "claim" =>
                             /\ Members(t)' = {} /\ row'[t].status # "absent"
                             /\ row'[t].status = "complete" =>
                                   row'[t].copy = t /\ row'[t].count = Cardinality(t)
      <4>1. CASE t = s
        BY <2>4, <3>2, <3>3, <3>4, <4>1
      <4>2. CASE t # s
        BY <3>1, <3>3, <4>2
      <4> QED
        BY <4>1, <4>2
    <3> QED
      BY <3>5 DEF RowsInStep
  <2>6. OffersInStep'
    <3>1. \A t \in Seeds : row[t].status # "absent" => row'[t].status # "absent"
      BY <1>5, <2>4
    <3> QED
      BY <1>1, <1>3, <2>1, <3>1, OffersKept DEF Attaching
  <2>7. ASSUME NEW t \in Seeds, Served(t)'
        PROVE  row'[t].copy = Members(t)' /\ row'[t].count = Cardinality(Members(t)')
    <3>1. t # s
      BY <1>3, <2>7 DEF Served, InHand
    <3>2. ~InHand(t)
      BY <1>1, <3>1 DEF InHand
    <3>3. Served(t)
      BY <1>5, <2>7, <3>1, <3>2 DEF Served
    <3> QED
      BY <1>3, <1>5, <1>9, <2>1, <2>3, <3>1, <3>3 DEF ServedCopyIsCurrent
  <2> QED
    BY <2>5, <2>6, <2>7 DEF InStep, ServedCopyIsCurrent
<1> QED
  BY <1>2, <1>7, <1>8, <1>9 DEF InvOfOne

\* A story either is where the articles go, loses some and is invalidated, or stays.
LEMMA MoveMembers ==
  ASSUME ThreadingTypeOK, NEW S, S \subseteq Articles, NEW s \in Seeds, Move(S, s)
  PROVE  /\ Members(s)' = Members(s) \cup S /\ row'[s] = row[s]
         /\ \A t \in Seeds \ {s} :
              \/ Members(t)' = Members(t) /\ row'[t] = row[t]
              \/ /\ Members(t) # {} /\ Members(t)' \subseteq Members(t)
                 /\ row'[t].status = "failed" /\ row'[t].attempts = 0
<1>1. /\ story \in [Articles -> Seeds \cup {NoStory}] /\ row \in [Seeds -> RowState]
      /\ story' = [a \in Articles |-> IF a \in S THEN s ELSE story[a]]
  BY DEF Move, ThreadingTypeOK, StoriesTypeOK
<1>2. Members(s)' = Members(s) \cup S
  BY <1>1 DEF Members
<1>3. row'[s] = row[s]
  BY <1>1 DEF Move, Losers
<1>4. ASSUME NEW t \in Seeds \ {s}, t \notin Losers(S, s)
      PROVE  Members(t)' = Members(t) /\ row'[t] = row[t]
  <2>1. row'[t] = row[t]
    BY <1>4 DEF Move
  <2>2. t # NoStory
    BY SeedsAreStories
  <2>3. \A a \in S : story[a] # t
    BY <1>4, <2>2 DEF Losers
  <2> QED
    BY <1>1, <2>1, <2>3 DEF Members
<1>5. ASSUME NEW t \in Seeds \ {s}, t \in Losers(S, s)
      PROVE  /\ Members(t) # {} /\ Members(t)' \subseteq Members(t)
             /\ row'[t].status = "failed" /\ row'[t].attempts = 0
  <2>1. row'[t] = [row[t] EXCEPT !.status = "failed", !.current = FALSE, !.attempts = 0,
                                 !.count = Cardinality(Members(t) \ S)]
    BY <1>5 DEF Move
  <2>2. row[t] \in RowState
    BY <1>1
  <2>3. row'[t].status = "failed" /\ row'[t].attempts = 0
    BY <2>1, <2>2 DEF RowState
  <2>4. Members(t) # {} /\ Members(t)' \subseteq Members(t)
    BY <1>1, <1>5 DEF Losers, Members
  <2> QED
    BY <2>3, <2>4
<1> QED
  BY <1>2, <1>3, <1>4, <1>5

\* The two steps that move articles, to the story in hand.
LEMMA MovingKeepsOne ==
  ASSUME Alone, InvOfOne, NEW r \in Runs, AttachApproved(r) \/ ClaimMembers(r)
  PROVE  InvOfOne'
<1>1. /\ InvOfMany /\ ThreadingTypeOK /\ StoriesTypeOK /\ run[r] \in RunState
      /\ run \in [Runs -> RunState] /\ MembersInHand(r) /\ ArticleInHand(r)
      /\ \A q \in Runs : q = r
  BY DEF InvOfOne, InvOfMany, ThreadingTypeOK, Alone
<1>2. InvOfMany'
  BY <1>1, WorkingKeepsMany, ClaimingKeepsMany
<1> PICK s \in Seeds : s = run[r].story
  BY <1>1 DEF AttachApproved, ClaimMembers, At, ArticleInHand, Attaching, Creating
<1>3. PICK S \in SUBSET Articles :
        /\ Move(S, s) /\ UNCHANGED stable /\ run'[r].snapshot = run[r].snapshot
        /\ \/ run[r].pc = "attach" /\ run'[r].pc = "attached" /\ run'[r].story = s
           \/ run[r].pc = "claim" /\ S = s /\ run'[r].pc = "deciding"
  <2>1. CASE AttachApproved(r)
    <3>1. run[r].article \in SUBSET Articles
      BY <1>1 DEF RunState
    <3> QED
      BY <1>1, <2>1, <3>1 DEF AttachApproved, At, RunState
  <2>2. CASE ClaimMembers(r)
    <3>1. run[r].members \in SUBSET Articles /\ run[r].members = s
      BY <1>1, <2>2 DEF RunState, ClaimMembers, At, ArticleInHand, Creating
    <3>2. run'[r].pc = "deciding" /\ run'[r].snapshot = run[r].snapshot
      BY <1>1, <2>2 DEF ClaimMembers, Claim, Done, RunState
    <3> QED
      BY <2>2, <3>1, <3>2 DEF ClaimMembers, At
  <2> QED
    BY <2>1, <2>2
<1>4. /\ Members(s)' = Members(s) \cup S /\ row'[s] = row[s]
      /\ \A t \in Seeds \ {s} :
           \/ Members(t)' = Members(t) /\ row'[t] = row[t]
           \/ /\ Members(t) # {} /\ Members(t)' \subseteq Members(t)
              /\ row'[t].status = "failed" /\ row'[t].attempts = 0
  BY <1>1, <1>3, MoveMembers
<1>5. StoriesAreKept /\ \A a \in S : story'[a] = s
  BY <1>1, <1>3, MoveEffect
<1>6. \A q \in Runs : MembersInHand(q)'
  BY <1>1, <1>3 DEF MembersInHand, Creating
<1>7. \A t \in Seeds : row'[t].attempts <= MaxAttempts
  BY <1>4, ThreadingAssumption DEF InvOfOne
<1>8. ASSUME stable' = "always" PROVE InStep'
  <2>1. stable = "always" /\ RowsInStep /\ ServedCopyIsCurrent /\ OffersInStep
    BY <1>3, <1>8 DEF InvOfOne, InStep
  <2>2. /\ row[s].status # "absent"
        /\ run[r].pc = "claim" =>
             /\ Members(s) = {}
             /\ row[s].status = "complete" => row[s].copy = s /\ row[s].count = Cardinality(s)
    BY <1>3, <2>1 DEF RowsInStep, OffersInStep, Attaching
  <2>3. \A t \in Seeds : row[t].status # "absent" => row'[t].status # "absent"
    BY <1>4
  <2>4. \A t \in Seeds : Members(t) # {} => row[t].status # "absent"
    BY <2>1 DEF RowsInStep
  <2>5. ASSUME NEW t \in Seeds
        PROVE  /\ row'[t].status = "absent" => Members(t)' = {}
               /\ row'[t].status # "absent" => \A b \in t : story'[b] # NoStory
    <3>1. CASE t = s
      <4>1. CASE run[r].pc = "claim"
        BY <1>3, <1>4, <1>5, <2>2, <3>1, <4>1, SeedsAreStories
      <4>2. CASE run[r].pc # "claim"
        BY <1>1, <1>4, <1>5, <2>1, <2>2, <3>1, <4>2 DEF RowsInStep, StoriesAreKept, Seeds
      <4> QED
        BY <4>1, <4>2
    <3>2. CASE t # s
      <4>1. row'[t].status = "absent" => Members(t)' = {}
        BY <1>4, <2>1, <3>2 DEF RowsInStep
      <4>2. row'[t].status # "absent" => row[t].status # "absent"
        BY <1>4, <2>4, <3>2
      <4>3. row[t].status # "absent" => \A b \in t : story[b] # NoStory
        BY <1>1, <2>1, <3>2 DEF RowsInStep
      <4> QED
        BY <1>5, <4>1, <4>2, <4>3 DEF StoriesAreKept, Seeds
    <3> QED
      BY <3>1, <3>2
  <2>6. RowsInStep'
    BY <1>1, <1>3, <2>5 DEF RowsInStep
  <2>7. OffersInStep'
    BY <1>1, <1>3, <1>4, <2>1, <2>2, <2>3, OffersKept DEF Attaching
  <2>8. ASSUME NEW t \in Seeds, Served(t)'
        PROVE  row'[t].copy = Members(t)' /\ row'[t].count = Cardinality(Members(t)')
    <3>1. CASE t = s
      <4>1. run[r].pc = "claim" /\ S = s
        BY <1>1, <1>3, <2>8, <3>1 DEF Served, InHand
      <4>2. Members(t)' = s
        BY <1>4, <2>2, <3>1, <4>1
      <4>3. row'[t].status = "complete"
        BY <2>8 DEF Served
      <4> QED
        BY <1>4, <2>2, <3>1, <4>1, <4>2, <4>3
    <3>2. CASE t # s
      <4>1. Members(t)' = Members(t) /\ row'[t] = row[t]
        BY <1>4, <2>8, <3>2 DEF Served
      <4>2. ~InHand(t)
        BY <1>1, <3>2 DEF InHand
      <4>3. Served(t)
        BY <2>8, <4>1, <4>2 DEF Served
      <4> QED
        BY <2>1, <4>1, <4>3 DEF ServedCopyIsCurrent
    <3> QED
      BY <3>1, <3>2
  <2> QED
    BY <2>6, <2>7, <2>8 DEF InStep, ServedCopyIsCurrent
<1> QED
  BY <1>2, <1>6, <1>7, <1>8 DEF InvOfOne

\* And so is that of a run alone.
LEMMA NextKeepsOne == ASSUME Alone, InvOfOne, [Next]_vars PROVE InvOfOne'
<1>1. CASE UNCHANGED vars \/ Stabilise \/ \E a \in Articles : Land(a)
  BY <1>1, LandingKeepsOne
<1>2. ASSUME NEW r \in Runs, RunStep(r) \/ Crash(r) PROVE InvOfOne'
  BY <1>2, DecidingKeepsOne, ReviewKeepsOne, EndingKeepsOne, RewriteKeepsOne, RepairKeepsOne,
     InsertKeepsOne, MovingKeepsOne DEF RunStep, Apply, Sweep
<1> QED
  BY <1>1, <1>2 DEF Next

\* No story, and nothing in hand.
LEMMA InitIsOfOne == InitThreading => InvOfOne
<1> SUFFICES ASSUME InitThreading PROVE InvOfOne
  OBVIOUS
<1>1. /\ \A r \in Runs : run[r].pc = "idle" /\ run[r].snapshot = {} /\ run[r].story = NoStory
      /\ \A s \in Seeds : row[s].status = "absent" /\ row[s].attempts = 0 /\ Members(s) = {}
  BY SeedsAreStories DEF InitThreading, Idle, Absent, Members
<1>2. \A r \in Runs : MembersInHand(r)
  BY <1>1 DEF MembersInHand, Creating
<1>3. \A s \in Seeds : row[s].attempts <= MaxAttempts
  BY <1>1, ThreadingAssumption
<1>4. RowsInStep
  BY <1>1, SeedsAreStories DEF RowsInStep
<1>5. OffersInStep
  BY <1>1 DEF OffersInStep, Attaching, ExistingStories, Neighbours
<1>6. ServedCopyIsCurrent
  BY <1>1 DEF ServedCopyIsCurrent, Served
<1> QED
  BY <1>2, <1>3, <1>4, <1>5, <1>6, InitIsOfMany DEF InvOfOne, InStep

\* Hence the invariant of every behaviour of one run at a time.
LEMMA RunsAloneAreSound == ASSUME Alone PROVE Spec => []InvOfOne
BY InitIsOfOne, NextKeepsOne, PTL DEF Spec

\* While runs follow one another, what a run holds goes with the database whatever fails,
\* and rows and membership go together while nothing does.
THEOREM RunsKeepTheirStories == ASSUME Alone PROVE Spec => []ThreadingInv
<1>1. InvOfOne => ThreadingInv
  BY DEF InvOfOne, InvOfMany, ThreadingInv, InStep
<1> QED
  BY <1>1, RunsAloneAreSound, PTL

\* While nothing fails either, readers see a synthesis of exactly the articles shown.
THEOREM CopyIsCurrent == ASSUME Alone PROVE Spec => []ServedCopyIsCurrent
<1>1. InvOfOne => ServedCopyIsCurrent
  BY DEF InvOfOne, InStep, ServedCopyIsCurrent
<1> QED
  BY <1>1, RunsAloneAreSound, PTL

\* And a creation takes no article from another story, whatever fails.
THEOREM CreationTakesTheLoose == ASSUME Alone PROVE Spec => FirstClaimWins
<1> DEFINE Take == \A r \in Runs : ClaimMembers(r) =>
                     \A a \in run[r].members \ run[r].article :
                        story[a] \in {NoStory, run[r].story}
<1>1. InvOfOne => Take
  BY DEF InvOfOne, MembersInHand, Creating, ClaimMembers, At
<1> QED
  BY <1>1, RunsAloneAreSound, PTL DEF Spec, FirstClaimWins
=============================================================================
