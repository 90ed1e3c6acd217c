--------------------------- MODULE ServicesProofs ---------------------------
(***************************************************************************)
(* Theorems about the services around the pipeline, each for its own       *)
(* specification.                                                          *)
(***************************************************************************)
EXTENDS EntityLinks, Clusters, Summaries, Enrichment, Refresh, Evidence, Feeds, Metering, Funding,
        CompareClaims, FiniteSetTheorems, SequenceTheorems, WellFoundedInduction, TLAPS

-----------------------------------------------------------------------------
(* Legacy clustering.                                                       *)

StoryIds == {StoryId(g) : g \in {h \in Groups : CrossOutlet(Members(h))}}

ClusterStages == {"review", "synthesize", "upsert", "move", "entities"}

ClusterRun ==
    {Idle} \cup [pc : ClusterStages, id : StoryIds, members : SUBSET ToSet(Latest),
                 read : SUBSET ToSet(Latest), status : {"complete", "failed"}]

ClustersTypes ==
    /\ stories \in [DOMAIN stories -> [status : {"complete", "failed"}, of : SUBSET ToSet(Latest)]]
    /\ home \in [ToSet(Latest) -> StoryIds \cup {Unhoused}]
    /\ newer \subseteq ToSet(Latest)
    /\ crun \in [ClusterRuns -> ClusterRun]

\* The id of a story names its members: no run and no row pairs it with others.
IdsNameMembers ==
    /\ \A r \in ClusterRuns : crun[r].pc # "idle" => crun[r].members = DOMAIN crun[r].id
    /\ \A s \in DOMAIN stories :
          s \in StoryIds /\ stories[s].of = DOMAIN s
    /\ \A a \in ToSet(Latest) : home[a] # Unhoused => a \in DOMAIN home[a]

Housed(s) == {a \in ToSet(Latest) : home[a] = s}

\* What is shown is whole, but for a move that is to come or failed.
ShownAreWhole ==
    \A s \in DOMAIN stories :
        stories[s].status = "complete" =>
            \/ s \in unmoved
            \/ \E r \in ClusterRuns : crun[r].pc = "move" /\ crun[r].id = s
            \/ Housed(s) = DOMAIN s

ClustersIInv == ClustersTypes /\ IdsNameMembers /\ ShownAreWhole

\* An id is never the mark of an article without a story.
LEMMA IdsAreStories ==
  ASSUME NEW id \in StoryIds
  PROVE  /\ id # Unhoused /\ DOMAIN id \subseteq ToSet(Latest)
         /\ CrossOutlet(DOMAIN id)
<1>1. PICK g \in Groups : CrossOutlet(Members(g)) /\ id = StoryId(g)
  BY DEF StoryIds
<1>2. DOMAIN id = Members(g)
  BY <1>1 DEF StoryId
<1>3. g \in Seq(Int) /\ Len(g) >= 2 /\ \A i \in DOMAIN g : g[i] \in DOMAIN Latest
  BY ClustersAssumption DEF Groups, ValidGroup
<1>4. 1 \in DOMAIN g
  BY <1>3, LenProperties
<1>5. Latest[g[1]] \in DOMAIN id
  BY <1>2, <1>4 DEF Members
<1>6. DOMAIN Unhoused = {}
  BY DEF Unhoused
<1>7. DOMAIN id \subseteq ToSet(Latest)
  BY <1>2, <1>3 DEF Members, ToSet
<1> QED
  BY <1>1, <1>2, <1>5, <1>6, <1>7

\* A run begins with a group of articles of two outlets.
LEMMA BeginningKeepsClusters ==
  ASSUME ClustersIInv, NEW r \in ClusterRuns, NEW g \in Groups, ClusterBegin(r, g)
  PROVE  ClustersIInv'
<1>1. PICK new : /\ new = [pc |-> "review", id |-> StoryId(g), members |-> Members(g),
                           read |-> newer \cap Members(g), status |-> "complete"]
                 /\ crun' = [crun EXCEPT ![r] = new]
  BY DEF ClusterBegin
<1>2. StoryId(g) \in StoryIds
  BY DEF StoryIds, ClusterBegin
<1>3. Members(g) = DOMAIN StoryId(g) /\ Members(g) \subseteq ToSet(Latest)
  BY <1>2, IdsAreStories DEF StoryId
<1>4. new \in ClusterRun /\ new.pc = "review" /\ new.members = DOMAIN new.id
  BY <1>1, <1>2, <1>3 DEF ClusterRun, ClusterStages
<1>5. UNCHANGED <<stories, home, newer, unmoved>> /\ crun[r].pc = "idle"
  BY DEF ClusterBegin
<1>6. ClustersTypes'
  BY <1>1, <1>4, <1>5 DEF ClustersIInv, ClustersTypes
<1>7. \A q \in ClusterRuns \ {r} : crun'[q] = crun[q]
  BY <1>1 DEF ClustersIInv, ClustersTypes
<1>8. crun'[r] = new
  BY <1>1 DEF ClustersIInv, ClustersTypes
<1>9. IdsNameMembers'
  BY <1>4, <1>5, <1>7, <1>8 DEF ClustersIInv, IdsNameMembers
<1>10. ShownAreWhole'
  BY <1>5, <1>7 DEF ClustersIInv, ShownAreWhole, Housed
<1> QED
  BY <1>6, <1>9, <1>10 DEF ClustersIInv

\* A run goes on, or gives its group up, and no row changes.
LEMMA RunsKeepClusters ==
  ASSUME ClustersIInv, NEW r \in ClusterRuns,
         UNCHANGED <<stories, home, newer>>, crun[r].pc # "idle",
         NEW new, crun' = [crun EXCEPT ![r] = new],
         \/ new = Idle
         \/ /\ new \in ClusterRun /\ new.pc # "idle"
            /\ new.id = crun[r].id /\ new.members = crun[r].members,
         unmoved \subseteq unmoved',
         crun[r].pc = "move" => crun[r].id \in unmoved'
  PROVE  ClustersIInv'
<1>1. new \in ClusterRun
  BY DEF ClusterRun
<1>2. crun'[r] = new /\ \A q \in ClusterRuns \ {r} : crun'[q] = crun[q]
  BY DEF ClustersIInv, ClustersTypes
<1>3. ClustersTypes'
  BY <1>1 DEF ClustersIInv, ClustersTypes
<1>4. new.pc # "idle" => new.members = DOMAIN new.id
  BY DEF ClustersIInv, IdsNameMembers, Idle
<1>5. IdsNameMembers'
  BY <1>2, <1>4 DEF ClustersIInv, IdsNameMembers
<1>6. ShownAreWhole'
  BY <1>2 DEF ClustersIInv, ShownAreWhole, Housed
<1> QED
  BY <1>3, <1>5, <1>6 DEF ClustersIInv

\* The stages before the writes, and the failures of the writes.
LEMMA StagesKeepClusters ==
  ASSUME ClustersIInv, NEW r \in ClusterRuns,
         \/ NotOneEvent(r) \/ LookUp(r) \/ UpsertFails(r) \/ MoveFails(r)
         \/ \E status \in {"complete", "failed"} : Synthesize(r, status)
  PROVE  ClustersIInv'
<1>1. CASE NotOneEvent(r) \/ UpsertFails(r) \/ MoveFails(r)
  <2>1. UNCHANGED <<stories, home, newer>> /\ crun[r].pc # "idle"
        /\ crun' = [crun EXCEPT ![r] = Idle]
    BY <1>1 DEF NotOneEvent, UpsertFails, MoveFails
  <2>2. unmoved \subseteq unmoved' /\ (crun[r].pc = "move" => crun[r].id \in unmoved')
    BY <1>1 DEF NotOneEvent, UpsertFails, MoveFails
  <2> QED
    BY <2>1, <2>2, RunsKeepClusters
<1>2. ASSUME NEW pc \in ClusterStages, NEW status \in {"complete", "failed"},
             crun[r].pc \in {"review", "synthesize"},
             crun' = [crun EXCEPT ![r] = [crun[r] EXCEPT !.pc = pc, !.status = status]],
             UNCHANGED <<stories, home, newer, unmoved>>
      PROVE  ClustersIInv'
  <2>1. PICK new : new = [crun[r] EXCEPT !.pc = pc, !.status = status]
    OBVIOUS
  <2>2. crun[r] \in ClusterRun \ {Idle}
    BY <1>2 DEF ClustersIInv, ClustersTypes, Idle
  <2>3. /\ new \in ClusterRun /\ new.pc = pc
        /\ new.id = crun[r].id /\ new.members = crun[r].members
    BY <2>1, <2>2 DEF ClusterRun
  <2>4. pc # "idle"
    BY DEF ClusterStages
  <2> QED
    BY <1>2, <2>1, <2>3, <2>4, RunsKeepClusters
<1>3. CASE LookUp(r)
  <2>1. PICK pc \in {"move", "synthesize"} :
           /\ crun[r].pc = "review" /\ crun' = [crun EXCEPT ![r].pc = pc]
           /\ UNCHANGED <<stories, home, newer, unmoved>>
    BY <1>3 DEF LookUp
  <2>2. crun[r] \in ClusterRun \ {Idle}
    BY <2>1 DEF ClustersIInv, ClustersTypes, Idle
  <2>3. PICK new : new = [crun[r] EXCEPT !.pc = pc]
    OBVIOUS
  <2>4. /\ new \in ClusterRun /\ new.pc = pc
        /\ new.id = crun[r].id /\ new.members = crun[r].members
    BY <2>2, <2>3 DEF ClusterRun, ClusterStages
  <2>5. crun' = [crun EXCEPT ![r] = new]
    BY <2>1, <2>3 DEF ClustersIInv, ClustersTypes
  <2> QED
    BY <2>1, <2>4, <2>5, RunsKeepClusters
<1>4. ASSUME NEW status \in {"complete", "failed"}, Synthesize(r, status)
      PROVE  ClustersIInv'
  <2>1. crun' = [crun EXCEPT ![r] = [crun[r] EXCEPT !.pc = "upsert", !.status = status]]
    BY <1>4 DEF Synthesize, ClustersIInv, ClustersTypes
  <2> QED
    BY <1>2, <1>4, <2>1 DEF Synthesize, ClusterStages
<1> QED
  BY <1>1, <1>3, <1>4

\* The row is written before its members move; until then the run has it in hand.
LEMMA UpsertKeepsClusters ==
  ASSUME ClustersIInv, NEW r \in ClusterRuns, UpsertStory(r)
  PROVE  ClustersIInv'
<1>1. crun[r].pc = "upsert" /\ UNCHANGED <<home, newer, unmoved>>
  BY DEF UpsertStory
<1>2. crun[r] \in ClusterRun \ {Idle}
  BY <1>1 DEF ClustersIInv, ClustersTypes, Idle
<1>3. PICK row : row = [status |-> crun[r].status, of |-> crun[r].members]
  OBVIOUS
<1>4. /\ row \in [status : {"complete", "failed"}, of : SUBSET ToSet(Latest)]
      /\ row.of = DOMAIN crun[r].id /\ crun[r].id \in StoryIds
  BY <1>1, <1>2, <1>3 DEF ClusterRun, ClustersIInv, IdsNameMembers
<1>5. /\ DOMAIN stories' = DOMAIN stories \cup {crun[r].id} /\ stories'[crun[r].id] = row
      /\ \A s \in DOMAIN stories \ {crun[r].id} : stories'[s] = stories[s]
      /\ stories' = [s \in DOMAIN stories' |-> stories'[s]]
  BY <1>3 DEF UpsertStory
<1>6. PICK new : new = [crun[r] EXCEPT !.pc = "move"]
  OBVIOUS
<1>7. /\ new \in ClusterRun /\ new.pc = "move"
      /\ new.id = crun[r].id /\ new.members = crun[r].members
  BY <1>2, <1>6 DEF ClusterRun, ClusterStages
<1>8. crun' = [crun EXCEPT ![r] = new]
  BY <1>6 DEF UpsertStory, ClustersIInv, ClustersTypes
<1>9. crun'[r] = new /\ \A q \in ClusterRuns \ {r} : crun'[q] = crun[q]
  BY <1>8 DEF ClustersIInv, ClustersTypes
<1>10. stories' \in [DOMAIN stories' -> [status : {"complete", "failed"}, of : SUBSET ToSet(Latest)]]
  BY <1>4, <1>5 DEF ClustersIInv, ClustersTypes
<1>11. ClustersTypes'
  BY <1>1, <1>7, <1>8, <1>10 DEF ClustersIInv, ClustersTypes
<1>12. IdsNameMembers'
  BY <1>1, <1>4, <1>5, <1>7, <1>9 DEF ClustersIInv, IdsNameMembers
<1>13. ShownAreWhole'
  BY <1>1, <1>5, <1>7, <1>9 DEF ClustersIInv, ShownAreWhole, Housed
<1> QED
  BY <1>11, <1>12, <1>13 DEF ClustersIInv

\* One statement moves the members and fails the stories they leave.
LEMMA MoveKeepsClusters ==
  ASSUME ClustersIInv, NEW r \in ClusterRuns, MoveMembers(r)
  PROVE  ClustersIInv'
<1>1. crun[r].pc = "move" /\ UNCHANGED newer /\ unmoved' = unmoved \ {crun[r].id}
  BY DEF MoveMembers
<1>2. crun[r] \in ClusterRun \ {Idle}
  BY <1>1 DEF ClustersIInv, ClustersTypes, Idle
<1>3. PICK id \in StoryIds : id = crun[r].id /\ crun[r].members = DOMAIN id
  BY <1>1, <1>2 DEF ClusterRun, ClustersIInv, IdsNameMembers
<1>4. id # Unhoused /\ DOMAIN id \subseteq ToSet(Latest)
  BY IdsAreStories
<1>5. /\ home' \in [ToSet(Latest) -> StoryIds \cup {Unhoused}]
      /\ \A a \in ToSet(Latest) : home'[a] = IF a \in DOMAIN id THEN id ELSE home[a]
  BY <1>3 DEF MoveMembers, ClustersIInv, ClustersTypes
<1>6. DOMAIN stories' = DOMAIN stories
  BY DEF MoveMembers
<1>7. ASSUME NEW s \in DOMAIN stories
      PROVE  /\ stories'[s] \in [status : {"complete", "failed"}, of : SUBSET ToSet(Latest)]
             /\ stories'[s].of = stories[s].of
             /\ stories'[s].status = "complete" =>
                   stories[s].status = "complete" /\ s \notin Losing(id, DOMAIN id)
  <2>1. PICK row : row = stories[s]
    OBVIOUS
  <2>2. row \in [status : {"complete", "failed"}, of : SUBSET ToSet(Latest)]
    BY <2>1 DEF ClustersIInv, ClustersTypes
  <2>3. PICK failed : failed = [row EXCEPT !.status = "failed"]
    OBVIOUS
  <2>4. /\ failed \in [status : {"complete", "failed"}, of : SUBSET ToSet(Latest)]
        /\ failed.of = row.of /\ failed.status = "failed"
    BY <2>2, <2>3
  <2>5. stories'[s] = IF s \in Losing(id, DOMAIN id) THEN failed ELSE row
    BY <1>3, <2>1, <2>3 DEF MoveMembers
  <2> QED
    BY <2>1, <2>2, <2>4, <2>5
<1>8. stories' \in [DOMAIN stories' -> [status : {"complete", "failed"}, of : SUBSET ToSet(Latest)]]
  <2>1. stories' = [s \in DOMAIN stories' |-> stories'[s]]
    BY DEF MoveMembers
  <2> QED
    BY <1>6, <1>7, <2>1
<1>9. PICK new : new = [crun[r] EXCEPT !.pc = "entities"]
  OBVIOUS
<1>10. /\ new \in ClusterRun /\ new.pc = "entities"
       /\ new.id = id /\ new.members = DOMAIN id
  BY <1>2, <1>3, <1>9 DEF ClusterRun, ClusterStages
<1>11. crun' = [crun EXCEPT ![r] = new]
  BY <1>9 DEF MoveMembers, ClustersIInv, ClustersTypes
<1>12. crun'[r] = new /\ \A q \in ClusterRuns \ {r} : crun'[q] = crun[q]
  BY <1>11 DEF ClustersIInv, ClustersTypes
<1>13. ClustersTypes'
  BY <1>1, <1>5, <1>8, <1>10, <1>11 DEF ClustersIInv, ClustersTypes
<1>14. IdsNameMembers'
  BY <1>5, <1>6, <1>7, <1>10, <1>12 DEF ClustersIInv, IdsNameMembers
<1>15. Housed(id)' = DOMAIN id
  BY <1>4, <1>5 DEF Housed, ClustersIInv, IdsNameMembers, ClustersTypes
<1>16. ASSUME NEW s \in DOMAIN stories \ {id}, s \in StoryIds, s \notin Losing(id, DOMAIN id)
       PROVE  Housed(s)' = Housed(s)
  <2>1. s # Unhoused
    BY <1>16, IdsAreStories
  <2>2. \A a \in DOMAIN id : home[a] # s
    BY <1>16, <2>1 DEF Losing
  <2> QED
    BY <1>5, <1>16, <2>2 DEF Housed
<1>17. ASSUME NEW s \in DOMAIN stories, stories'[s].status = "complete"
       PROVE  \/ s \in unmoved'
              \/ \E q \in ClusterRuns : crun'[q].pc = "move" /\ crun'[q].id = s
              \/ Housed(s)' = DOMAIN s
  <2>1. CASE s = id
    BY <1>15, <2>1
  <2>2. CASE s # id
    <3>1. stories[s].status = "complete" /\ s \notin Losing(id, DOMAIN id)
      BY <1>7, <1>17
    <3>2. s \in StoryIds
      BY DEF ClustersIInv, IdsNameMembers
    <3>3. Housed(s)' = Housed(s)
      BY <1>16, <2>2, <3>1, <3>2
    <3>4. CASE s \in unmoved
      BY <1>1, <1>3, <2>2, <3>4
    <3>5. CASE \E q \in ClusterRuns : crun[q].pc = "move" /\ crun[q].id = s
      BY <1>3, <1>12, <2>2, <3>5
    <3> QED
      BY <3>1, <3>3, <3>4, <3>5 DEF ClustersIInv, ShownAreWhole
  <2> QED
    BY <2>1, <2>2
<1>18. ShownAreWhole'
  BY <1>6, <1>17 DEF ShownAreWhole
<1> QED
  BY <1>13, <1>14, <1>18 DEF ClustersIInv

\* Entities move no article.
LEMMA EntitiesKeepClusters ==
  ASSUME ClustersIInv,
         \/ \E r \in ClusterRuns : WriteBack(r)
         \/ \E a \in Restored : EntitiesLand(a)
  PROVE  ClustersIInv'
<1>1. ASSUME NEW r \in ClusterRuns, WriteBack(r)
      PROVE  ClustersIInv'
  <2>1. /\ crun[r].pc = "entities" /\ crun' = [crun EXCEPT ![r] = Idle]
        /\ UNCHANGED <<stories, home, unmoved>>
    BY <1>1 DEF WriteBack
  <2>2. crun[r] \in ClusterRun \ {Idle}
    BY <2>1 DEF ClustersIInv, ClustersTypes, Idle
  <2>3. newer' \subseteq ToSet(Latest)
    BY <1>1, <2>2 DEF WriteBack, ClustersIInv, ClustersTypes, ClusterRun
  <2>4. crun'[r] = Idle /\ \A q \in ClusterRuns \ {r} : crun'[q] = crun[q]
    BY <2>1 DEF ClustersIInv, ClustersTypes
  <2>5. ClustersTypes'
    BY <2>1, <2>3 DEF ClustersIInv, ClustersTypes, ClusterRun
  <2>6. IdsNameMembers'
    BY <2>1, <2>4 DEF ClustersIInv, IdsNameMembers, Idle
  <2>7. ShownAreWhole'
    BY <2>1, <2>4 DEF ClustersIInv, ShownAreWhole, Housed
  <2> QED
    BY <2>5, <2>6, <2>7 DEF ClustersIInv
<1>2. ASSUME NEW a \in Restored, EntitiesLand(a)
      PROVE  ClustersIInv'
  BY <1>2, ClustersAssumption
  DEF EntitiesLand, ClustersIInv, ClustersTypes, IdsNameMembers, ShownAreWhole, Housed
<1> QED
  BY <1>1, <1>2

\* However runs of a category overlap, and whatever fails between a story's row
\* and the move of its members, a story that is shown has the members its text
\* was made from, of two outlets.
THEOREM ShownStoriesAreWhole == ClustersSpec => []ServedStoryIsWhole
<1>1. InitClusters => ClustersIInv
  <2> SUFFICES ASSUME InitClusters PROVE ClustersIInv
    OBVIOUS
  <2>1. DOMAIN stories = {} /\ stories = [s \in {} |-> 0]
    BY DEF InitClusters
  <2>2. stories \in [DOMAIN stories -> [status : {"complete", "failed"}, of : SUBSET ToSet(Latest)]]
    BY <2>1
  <2> QED
    BY <2>1, <2>2
    DEF InitClusters, ClustersIInv, ClustersTypes, IdsNameMembers, ShownAreWhole, ClusterRun, Idle
<1>2. ClustersIInv /\ [ClustersNext]_clVars => ClustersIInv'
  <2> SUFFICES ASSUME ClustersIInv, [ClustersNext]_clVars PROVE ClustersIInv'
    OBVIOUS
  <2>1. CASE UNCHANGED clVars
    BY <2>1 DEF clVars, ClustersIInv, ClustersTypes, IdsNameMembers, ShownAreWhole, Housed
  <2>2. CASE ClustersNext
    BY <2>2, BeginningKeepsClusters, StagesKeepClusters, UpsertKeepsClusters,
       MoveKeepsClusters, EntitiesKeepClusters DEF ClustersNext
  <2> QED
    BY <2>1, <2>2
<1>3. ClustersIInv => ServedStoryIsWhole
  <2> SUFFICES ASSUME ClustersIInv, NEW s \in DOMAIN stories,
                      stories[s].status = "complete", s \notin unmoved, ~InHand(s)
               PROVE  /\ {a \in DOMAIN home : home[a] = s} = stories[s].of
                      /\ CrossOutlet(stories[s].of)
    BY DEF ServedStoryIsWhole
  <2>1. s \in StoryIds /\ stories[s].of = DOMAIN s /\ DOMAIN home = ToSet(Latest)
    BY DEF ClustersIInv, IdsNameMembers, ClustersTypes
  <2>2. Housed(s) = DOMAIN s
    BY DEF ClustersIInv, ShownAreWhole, InHand
  <2> QED
    BY <2>1, <2>2, IdsAreStories DEF Housed
<1> QED
  BY <1>1, <1>2, <1>3, PTL DEF ClustersSpec

-----------------------------------------------------------------------------
(* Summaries.                                                               *)

SummaryCopies == [text : {"", "raw", "batch", "alone", "repair"}, mark : {"none", "degraded", "unavailable"}]

SumTypes ==
    /\ sumPc \in {"idle", "batch", "alone", "review", "repair", "withhold", "done"}
    /\ result \in [DOMAIN result -> SummaryCopies]
    /\ alone \subseteq Summarizable

\* Before the reviews: nothing is judged, and every article that is not to be
\* asked for any more has an entry.
NotReviewedYet ==
    sumPc \in {"idle", "batch", "alone", "review"} =>
        /\ repaired = {} /\ DOMAIN verdict = {}
        /\ DOMAIN result = CASE sumPc = "alone"  -> Summarizable \ alone
                             [] sumPc = "review" -> Summarizable
                             [] OTHER            -> {}

\* What the verdicts are about: the text that is there, unless it was repaired
\* since.
VerdictsAreCurrent ==
    sumPc \in {"repair", "withhold"} =>
        /\ DOMAIN result = Summarizable
        /\ DOMAIN verdict = Items /\ DOMAIN judged = Items /\ repaired \subseteq Items
        /\ \A a \in Items :
              verdict[a] = "pass" => judged[a] = result[a].text /\ result[a].text # ""
        /\ \A a \in repaired : result[a].mark = "none"
        /\ sumPc = "repair" => \A a \in repaired : verdict[a] = "retry"
        /\ sumPc = "withhold" => \A a \in repaired : verdict[a] # "unavailable"

SumIInv == SumTypes /\ NotReviewedYet /\ VerdictsAreCurrent /\ ReviewDecides

\* What a step adds to the results.
LEMMA PutsAdds ==
  ASSUME NEW new, Puts(new)
  PROVE  /\ DOMAIN result' = DOMAIN result \cup DOMAIN new
         /\ \A a \in DOMAIN new : result'[a] = new[a]
         /\ \A a \in DOMAIN result \ DOMAIN new : result'[a] = result[a]
         /\ result \in [DOMAIN result -> SummaryCopies] /\ new \in [DOMAIN new -> SummaryCopies]
               => result' \in [DOMAIN result' -> SummaryCopies]
BY DEF Puts

\* The results of a set of articles that all keep their RSS text.
LEMMA RawIs ==
  ASSUME NEW as
  PROVE  /\ DOMAIN Raw(as) = as /\ Raw(as) \in [as -> SummaryCopies]
         /\ \A a \in as : Raw(as)[a].mark = "degraded"
<1>1. PICK row : row = [text |-> "raw", mark |-> "degraded"]
  OBVIOUS
<1>2. row \in SummaryCopies /\ row.mark = "degraded"
  BY <1>1 DEF SummaryCopies
<1> QED
  BY <1>1, <1>2 DEF Raw

\* An answer taken apart has a copy for each article that it was asked for.
LEMMA ParsedIs ==
  ASSUME NEW as, NEW empty, NEW text \in {"batch", "alone"}
  PROVE  DOMAIN Parsed(text, empty, as) = as /\ Parsed(text, empty, as) \in [as -> SummaryCopies]
BY DEF Parsed, SummaryCopies

\* Asking, together and one by one: everything is still to be reviewed.
LEMMA AskingKeepsSummaries ==
  ASSUME SumIInv, SumBegin \/ BatchAnswers \/ AloneEnds \/ \E a \in Batch : AloneAnswers(a)
  PROVE  SumIInv'
<1>1. CASE SumBegin
  <2>1. CASE sumPc' = "batch" /\ UNCHANGED result
    BY <1>1, <2>1 DEF SumBegin, SumIInv, SumTypes, NotReviewedYet, VerdictsAreCurrent,
       ReviewDecides, PublishedWasReviewed, UsableIsNotGivenUp, Unreviewed, Summarizable
  <2>2. CASE sumPc' = "done" /\ Puts(Raw(Summarizable))
    <3>1. DOMAIN result = {} /\ repaired = {} /\ UNCHANGED <<alone, verdict, judged, repaired>>
      BY <1>1 DEF SumBegin, SumIInv, NotReviewedYet, Unreviewed
    <3>2. /\ DOMAIN result' = Summarizable /\ result' \in [DOMAIN result' -> SummaryCopies]
          /\ \A a \in Summarizable : result'[a].mark = "degraded"
      BY <2>2, <3>1, PutsAdds, RawIs DEF SumIInv, SumTypes
    <3> QED
      BY <2>2, <3>1, <3>2 DEF SumIInv, SumTypes, NotReviewedYet, VerdictsAreCurrent,
         ReviewDecides, PublishedWasReviewed, UsableIsNotGivenUp, Summarizable
  <2> QED
    BY <1>1, <2>1, <2>2 DEF SumBegin
<1>2. CASE BatchAnswers
  <2>1. /\ sumPc = "batch" /\ DOMAIN result = {} /\ repaired = {} /\ DOMAIN verdict = {}
        /\ UNCHANGED <<verdict, judged, repaired>>
    BY <1>2 DEF BatchAnswers, SumIInv, NotReviewedYet, Unreviewed
  <2>2. ASSUME sumPc' = "review", UNCHANGED alone,
               NEW new \in [Summarizable -> SummaryCopies], Puts(new)
        PROVE  SumIInv'
    <3>1. DOMAIN result' = Summarizable /\ result' \in [DOMAIN result' -> SummaryCopies]
      BY <2>1, <2>2, PutsAdds DEF SumIInv, SumTypes
    <3> QED
      BY <2>1, <2>2, <3>1 DEF SumIInv, SumTypes, NotReviewedYet, VerdictsAreCurrent,
         ReviewDecides, PublishedWasReviewed, UsableIsNotGivenUp, Summarizable
  <2>3. CASE sumPc' \in {"batch", "alone"} /\ UNCHANGED result
             /\ (sumPc' = "batch" => UNCHANGED alone) /\ (sumPc' = "alone" => alone' = Summarizable)
    BY <2>1, <2>3 DEF SumIInv, SumTypes, NotReviewedYet, VerdictsAreCurrent,
       ReviewDecides, PublishedWasReviewed, UsableIsNotGivenUp, Summarizable
  <2> QED
    BY <1>2, <2>1, <2>2, <2>3, ParsedIs, RawIs DEF BatchAnswers
<1>3. ASSUME NEW a \in Batch, AloneAnswers(a)
      PROVE  SumIInv'
  <2>1. /\ sumPc = "alone" /\ a \in alone /\ alone' = alone \ {a} /\ UNCHANGED sumPc
        /\ DOMAIN result = Summarizable \ alone /\ repaired = {} /\ DOMAIN verdict = {}
        /\ UNCHANGED <<verdict, judged, repaired>>
    BY <1>3 DEF AloneAnswers, SumIInv, NotReviewedYet, Unreviewed
  <2>2. PICK new \in [{a} -> SummaryCopies] : Puts(new)
    BY <1>3, ParsedIs, RawIs DEF AloneAnswers
  <2>3. DOMAIN result' = (Summarizable \ alone) \cup {a} /\ result' \in [DOMAIN result' -> SummaryCopies]
    BY <2>1, <2>2, PutsAdds DEF SumIInv, SumTypes
  <2> QED
    BY <2>1, <2>3 DEF SumIInv, SumTypes, NotReviewedYet, VerdictsAreCurrent,
       ReviewDecides, PublishedWasReviewed, UsableIsNotGivenUp, Summarizable
<1>4. CASE AloneEnds
  BY <1>4 DEF AloneEnds, SumIInv, SumTypes, NotReviewedYet, VerdictsAreCurrent,
     ReviewDecides, PublishedWasReviewed, UsableIsNotGivenUp, Unreviewed, Summarizable
<1> QED
  BY <1>1, <1>2, <1>3, <1>4

\* A review gives every verdict for the text it saw.
LEMMA ReviewingKeepsSummaries ==
  ASSUME SumIInv, SumReview \/ SumReviewAgain
  PROVE  SumIInv'
<1>1. CASE SumReview
  <2>1. /\ sumPc = "review" /\ sumPc' = "repair" /\ DOMAIN result = Summarizable /\ repaired = {}
        /\ UNCHANGED <<alone, result, repaired>>
    BY <1>1 DEF SumReview, SumIInv, NotReviewedYet
  <2>2. DOMAIN judged' = Items /\ \A a \in Items : judged'[a] = result[a].text
    BY <1>1 DEF SumReview
  <2>3. DOMAIN verdict' = Items /\ \A a \in Items : verdict'[a] = "pass" => judged'[a] # ""
    BY <1>1 DEF SumReview, Assessed
  <2>4. Items' = Items
    BY <2>1 DEF Items
  <2> QED
    BY <2>1, <2>2, <2>3, <2>4 DEF SumIInv, SumTypes, NotReviewedYet, VerdictsAreCurrent,
       ReviewDecides, PublishedWasReviewed, UsableIsNotGivenUp, Summarizable
<1>2. CASE SumReviewAgain
  <2>1. /\ sumPc = "repair" /\ sumPc' = "withhold" /\ UNCHANGED <<alone, result, repaired>>
        /\ Items' = Items
    BY <1>2 DEF SumReviewAgain, Items
  <2>2. VerdictsAreCurrent'
    <3>1. CASE repaired = {}
      BY <1>2, <2>1, <3>1 DEF SumReviewAgain, SumIInv, VerdictsAreCurrent, Summarizable
    <3>2. CASE repaired # {}
      <4>1. PICK v \in Assessed(repaired, [a \in repaired |-> result[a].text]) :
              /\ verdict' = [a \in DOMAIN verdict |-> IF a \in repaired THEN Fresh(v[a]) ELSE verdict[a]]
              /\ judged' = [a \in DOMAIN judged |-> IF a \in repaired THEN result[a].text ELSE judged[a]]
        BY <1>2, <3>2 DEF SumReviewAgain
      <4>2. \A a \in repaired : v[a] = "pass" => result[a].text # ""
        BY DEF Assessed
      <4>3. \A a \in repaired : /\ Fresh(v[a]) # "unavailable"
                                /\ Fresh(v[a]) = "pass" => v[a] = "pass"
        BY DEF Fresh
      <4> QED
        BY <2>1, <4>1, <4>2, <4>3 DEF SumIInv, VerdictsAreCurrent, Summarizable
    <3> QED
      BY <3>1, <3>2
  <2> QED
    BY <2>1, <2>2 DEF SumIInv, SumTypes, NotReviewedYet,
       ReviewDecides, PublishedWasReviewed, UsableIsNotGivenUp, Summarizable
<1> QED
  BY <1>1, <1>2

\* A repair replaces texts and has them reviewed again.
LEMMA RepairKeepsSummaries ==
  ASSUME SumIInv, NEW a \in Batch, SumRepair(a)
  PROVE  SumIInv'
<1>1. /\ sumPc = "repair" /\ UNCHANGED <<sumPc, alone, verdict, judged>>
      /\ a \in DOMAIN verdict /\ verdict[a] = "retry" /\ repaired' = repaired \cup {a}
  BY DEF SumRepair
<1>2. PICK row : row = [text |-> "repair", mark |-> "none"]
  OBVIOUS
<1>3. row \in SummaryCopies /\ row.mark = "none"
  BY <1>2 DEF SummaryCopies
<1>4. a \in Items /\ a \in DOMAIN result
  BY <1>1 DEF SumIInv, VerdictsAreCurrent, Items
<1>5. /\ DOMAIN result' = DOMAIN result /\ result' \in [DOMAIN result' -> SummaryCopies]
      /\ result'[a] = row /\ \A x \in DOMAIN result \ {a} : result'[x] = result[x]
  <2>1. PICK new : new = [x \in {a} |-> row]
    OBVIOUS
  <2>2. Puts(new) /\ new \in [{a} -> SummaryCopies] /\ DOMAIN new = {a} /\ new[a] = row
    BY <1>2, <1>3, <2>1 DEF SumRepair
  <2> QED
    BY <1>4, <2>2, PutsAdds DEF SumIInv, SumTypes
<1>6. Items' = Items
  BY <1>3, <1>4, <1>5 DEF Items
<1>7. /\ DOMAIN result = Summarizable
      /\ DOMAIN verdict = Items /\ DOMAIN judged = Items /\ repaired \subseteq Items
      /\ \A x \in Items :
            verdict[x] = "pass" => judged[x] = result[x].text /\ result[x].text # ""
      /\ \A x \in repaired : result[x].mark = "none" /\ verdict[x] = "retry"
  BY <1>1 DEF SumIInv, VerdictsAreCurrent
<1>8. \A x \in Items : x \in DOMAIN result /\ (x # a => result'[x] = result[x])
  BY <1>5 DEF Items
<1>9. \A x \in repaired' : result'[x].mark = "none" /\ verdict'[x] = "retry"
  BY <1>1, <1>3, <1>5, <1>7, <1>8
<1>10. \A x \in Items' :
          verdict'[x] = "pass" => judged'[x] = result'[x].text /\ result'[x].text # ""
  BY <1>1, <1>6, <1>7, <1>8
<1>11. VerdictsAreCurrent'
  BY <1>1, <1>4, <1>5, <1>6, <1>7, <1>9, <1>10 DEF VerdictsAreCurrent, Summarizable
<1> QED
  BY <1>1, <1>5, <1>11 DEF SumIInv, SumTypes, NotReviewedYet,
     ReviewDecides, PublishedWasReviewed, UsableIsNotGivenUp, Summarizable

\* At the end all that did not pass is withheld.
LEMMA WithholdingKeepsSummaries ==
  ASSUME SumIInv, SumWithhold
  PROVE  SumIInv'
<1>1. /\ sumPc = "withhold" /\ sumPc' = "done" /\ UNCHANGED <<alone, verdict, judged, repaired>>
  BY DEF SumWithhold, Unreviewed
<1>2. PICK new : /\ new = [a \in {x \in DOMAIN verdict : Withheld(verdict[x])} |->
                            [text |-> "", mark |-> IF verdict[a] = "unavailable" THEN "unavailable"
                                                                                 ELSE "degraded"]]
                 /\ Puts(new)
  BY DEF SumWithhold
<1>3. DOMAIN new = {x \in DOMAIN verdict : verdict[x] # "pass"}
  BY <1>2 DEF Withheld
<1>4. ASSUME NEW a \in DOMAIN new
      PROVE  /\ new[a] \in SummaryCopies /\ new[a].mark # "none"
             /\ new[a].mark = "unavailable" => verdict[a] = "unavailable"
  BY <1>2 DEF SummaryCopies
<1>5. new \in [DOMAIN new -> SummaryCopies]
  <2>1. new = [a \in DOMAIN new |-> new[a]]
    BY <1>2
  <2> QED
    BY <1>4, <2>1
<1>6. /\ DOMAIN result' = DOMAIN result /\ result' \in [DOMAIN result' -> SummaryCopies]
      /\ \A a \in DOMAIN new : result'[a] = new[a]
      /\ \A a \in DOMAIN result \ DOMAIN new : result'[a] = result[a]
  <2>1. DOMAIN new \subseteq DOMAIN result
    BY <1>1, <1>3 DEF SumIInv, VerdictsAreCurrent, Items
  <2>2. result \in [DOMAIN result -> SummaryCopies]
    BY DEF SumIInv, SumTypes
  <2>3. Puts(new)
    BY <1>2
  <2> QED
    BY <1>5, <2>1, <2>2, <2>3, PutsAdds
<1>7. ASSUME NEW a \in DOMAIN result', result'[a].mark = "none"
      PROVE  a \in DOMAIN verdict /\ verdict[a] = "pass" /\ judged[a] = result'[a].text
             /\ result'[a].text # ""
  <2>1. a \in DOMAIN result \ DOMAIN new /\ result'[a] = result[a]
    BY <1>4, <1>6, <1>7
  <2>2. a \in Items
    BY <1>7, <2>1 DEF Items
  <2> QED
    BY <1>1, <1>3, <2>1, <2>2 DEF SumIInv, VerdictsAreCurrent
<1>8. ASSUME NEW a \in repaired
      PROVE  result'[a].mark # "unavailable"
  <2>1. a \in Items /\ a \in DOMAIN result /\ result[a].mark = "none" /\ verdict[a] # "unavailable"
    BY <1>1 DEF SumIInv, VerdictsAreCurrent, Items
  <2>2. CASE a \in DOMAIN new
    BY <1>4, <1>6, <2>1, <2>2
  <2>3. CASE a \notin DOMAIN new
    BY <1>6, <2>1, <2>3
  <2> QED
    BY <2>2, <2>3
<1>9. DOMAIN result' = Summarizable
  BY <1>1, <1>6 DEF SumIInv, VerdictsAreCurrent
<1>10. ReviewDecides'
  BY <1>1, <1>7, <1>8, <1>9 DEF ReviewDecides, PublishedWasReviewed, UsableIsNotGivenUp, Summarizable
<1> QED
  BY <1>1, <1>6, <1>10 DEF SumIInv, SumTypes, NotReviewedYet, VerdictsAreCurrent, Summarizable

\* For every batch: only what its last review passed is published, whatever calls
\* are refused, fail or come back misaligned, and nothing repairable is given up.
THEOREM ReviewsDecide == SummariesSpec => []ReviewDecides
<1>1. InitSummaries => SumIInv
  <2> SUFFICES ASSUME InitSummaries PROVE SumIInv
    OBVIOUS
  <2>1. DOMAIN result = {} /\ result \in [DOMAIN result -> SummaryCopies] /\ DOMAIN verdict = {}
    BY DEF InitSummaries
  <2> QED
    BY <2>1 DEF InitSummaries, SumIInv, SumTypes, NotReviewedYet, VerdictsAreCurrent,
       ReviewDecides, PublishedWasReviewed, UsableIsNotGivenUp
<1>2. SumIInv /\ [SumNext]_sumVars => SumIInv'
  <2> SUFFICES ASSUME SumIInv, [SumNext]_sumVars PROVE SumIInv'
    OBVIOUS
  <2>1. CASE UNCHANGED sumVars
    BY <2>1 DEF sumVars, SumIInv, SumTypes, NotReviewedYet, VerdictsAreCurrent, Items,
       ReviewDecides, PublishedWasReviewed, UsableIsNotGivenUp, Summarizable
  <2>2. CASE SumNext
    BY <2>2, AskingKeepsSummaries, ReviewingKeepsSummaries, RepairKeepsSummaries,
       WithholdingKeepsSummaries DEF SumNext
  <2> QED
    BY <2>1, <2>2
<1>3. SumIInv => ReviewDecides
  BY DEF SumIInv
<1> QED
  BY <1>1, <1>2, <1>3, PTL DEF SummariesSpec

-----------------------------------------------------------------------------
(* Enrichment.                                                              *)

\* The columns of a row.
Columns(row) == DOMAIN row = {"copy", "score", "entities", "primer"}

Asked == [pc : {"answer"}, kind : {"context", "entities", "primer"}, live : BOOLEAN,
          tries : {1, 2}, about : {NoText}]

\* Text in hand is about its row.
AboutItsRow(about) == DOMAIN about \subseteq Rows /\ \A u \in DOMAIN about : about[u] = u

HasKept == task.pc \in {"terms", "background"} \/ (task.pc = "write" /\ task.kind = "primer")

\* A part that has been judged is left only where it was found sound.
SoundLeft(part) ==
    \A u \in DOMAIN task.kept : part \in task.kept[u] => <<part, u>> \in task.sound

TaskInHand ==
    /\ task.pc \in {"idle", "answer", "read", "write", "terms", "background"}
    /\ task.pc = "answer" => task \in Asked
    /\ task.pc \in {"read", "write", "terms", "background"} => AboutItsRow(task.about)
    /\ HasKept => /\ DOMAIN task.kept \subseteq DOMAIN task.about
                  /\ \A u \in DOMAIN task.kept : task.kept[u] \subseteq Parts
    /\ task.pc = "background" => SoundLeft("term")
    /\ task.pc = "write" /\ task.kind = "primer" => SoundLeft("term") /\ SoundLeft("background")

EnIInv ==
    /\ DOMAIN post = Rows /\ \A u \in Rows : Columns(post[u])
    /\ EnrichmentIsSound
    /\ TaskInHand

\* An answer that is aligned has an entry for each item, about that item.
LEMMA AlignedIsInOrder ==
  ASSUME NEW n, NEW a \in Answers(n), Aligned(a, n)
  PROVE  /\ n \in Nat /\ Numbers(a) = 1 .. n
         /\ \A i \in 1 .. n : Entry(a, i).about = i
<1>1. PICK s \in Told(n) : a \in Numbered(s)
  BY DEF Answers
<1>2. PICK k \in 0 .. n + 1 : s \in [1 .. k -> 1 .. n]
  BY <1>1 DEF Told
<1>3. k \in Nat /\ DOMAIN s = 1 .. k
  BY <1>2
<1>4. a \in Seq([i : Int, about : 1 .. n]) /\ DOMAIN a = 1 .. k
  <2>1. \A p \in 1 .. k : s[p] \in 1 .. n /\ s[p] \in Int /\ p \in Int /\ p + 1 \in Int
    BY <1>2, <1>3
  <2>2. PICK E : E = [i : Int, about : 1 .. n]
    OBVIOUS
  <2>3. a \in [1 .. k -> E]
    BY <1>1, <1>3, <2>1, <2>2 DEF Numbered
  <2>4. a \in Seq(E)
    BY <1>3, <2>3
  <2> QED
    BY <2>2, <2>3, <2>4
<1>5. n = k
  BY <1>3, <1>4, LenProperties DEF Aligned
<1>6. n \in Nat
  BY <1>3, <1>5
<1>7. PICK b : b = InOrder(n)
  OBVIOUS
<1>8. a = b
  BY <1>7 DEF Answers, Aligned
<1>9. DOMAIN b = 1 .. n /\ \A p \in 1 .. n : b[p].i = p /\ b[p].about = p
  BY <1>7 DEF InOrder
<1>10. Numbers(b) = 1 .. n
  BY <1>9 DEF Numbers
<1>11. ASSUME NEW i \in 1 .. n
       PROVE  Entry(b, i).about = i
  <2>1. \E p \in DOMAIN b : b[p].i = i /\ \A q \in DOMAIN b : b[q].i = i => q <= p
    BY <1>6, <1>9
  <2>2. PICK p : /\ p = CHOOSE x \in DOMAIN b : b[x].i = i /\ \A q \in DOMAIN b : b[q].i = i => q <= x
                 /\ p \in DOMAIN b /\ b[p].i = i
    BY <2>1
  <2> QED
    BY <1>9, <2>2 DEF Entry
<1> QED
  BY <1>6, <1>8, <1>10, <1>11

\* So what an aligned answer about a sub-batch is mapped to is in place.
LEMMA MappedIsInPlace ==
  ASSUME NEW a \in Answers(Len(Posts)), Aligned(a, Len(Posts))
  PROVE  AboutItsRow(Mapped(a))
<1>1. Posts \in Seq(STRING) /\ Len(Posts) \in Nat /\ DOMAIN Posts = 1 .. Len(Posts)
  BY EnrichmentAssumption, LenProperties
<1>2. Numbers(a) = DOMAIN Posts /\ \A i \in DOMAIN Posts : Entry(a, i).about = i
  BY <1>1, AlignedIsInOrder
<1>3. DOMAIN Mapped(a) = Rows
  BY <1>2 DEF Mapped, Rows
<1>4. ASSUME NEW u \in Rows
      PROVE  Mapped(a)[u] = u
  <2>1. \E i \in Numbers(a) : Posts[i] = u
    BY <1>2 DEF Rows
  <2>2. PICK i : /\ i = CHOOSE x \in Numbers(a) : Posts[x] = u
                 /\ i \in Numbers(a) /\ Posts[i] = u
    BY <2>1
  <2>3. Mapped(a)[u] = Posts[Entry(a, i).about]
    BY <1>2, <2>2 DEF Mapped, Rows
  <2> QED
    BY <1>2, <2>2, <2>3
<1> QED
  BY <1>3, <1>4 DEF AboutItsRow

\* Handing a sub-batch on writes nothing.
LEMMA HandingOnKeepsEnrichment ==
  ASSUME EnIInv, UNCHANGED post, TaskInHand'
  PROVE  EnIInv'
BY DEF EnIInv, EnrichmentIsSound, TextIsAboutItsRow, StoredPartIsSound

\* Up to the reading of a primer nothing is written.
LEMMA AnsweringKeepsEnrichment ==
  ASSUME EnIInv,
         \/ \E kind \in {"context", "entities", "primer"}, live \in BOOLEAN : SubBatch(kind, live)
         \/ NoAnswer \/ NoMetadata
         \/ \E a \in Answers(Len(Posts)) : Answer(a)
         \/ \E on \in SUBSET Rows : \E kept \in [on -> SUBSET Parts] : ReadAndParse(kept)
  PROVE  EnIInv'
<1>1. ASSUME NEW kind \in {"context", "entities", "primer"}, NEW live \in BOOLEAN,
             SubBatch(kind, live)
      PROVE  EnIInv'
  <2>1. task' \in Asked /\ task'.pc = "answer" /\ UNCHANGED post
    BY <1>1 DEF SubBatch, Asked
  <2> QED
    BY <2>1, HandingOnKeepsEnrichment DEF TaskInHand, HasKept
<1>2. CASE task' = NoTask /\ UNCHANGED post
  <2>1. task'.pc = "idle"
    BY <1>2 DEF NoTask
  <2> QED
    BY <1>2, <2>1, HandingOnKeepsEnrichment DEF TaskInHand, HasKept
<1>3. ASSUME NEW a \in Answers(Len(Posts)), Answer(a)
      PROVE  EnIInv'
  <2>1. task.pc = "answer" /\ task \in Asked /\ UNCHANGED post
    BY <1>3 DEF Answer, EnIInv, TaskInHand
  <2>2. ASSUME Aligned(a, Len(Posts)),
               NEW pc \in {"read", "write"}, pc = "write" => task.kind # "primer",
               task' = [task EXCEPT !.pc = pc, !.about = Mapped(a)]
        PROVE  EnIInv'
    <3>1. task'.pc = pc /\ task'.about = Mapped(a) /\ task'.kind = task.kind
      BY <2>1, <2>2 DEF Asked
    <3>2. AboutItsRow(task'.about)
      BY <2>2, <3>1, MappedIsInPlace
    <3> QED
      BY <2>1, <2>2, <3>1, <3>2, HandingOnKeepsEnrichment DEF TaskInHand, HasKept
  <2>3. CASE task' = [task EXCEPT !.tries = 2]
    <3>1. task' \in Asked /\ task'.pc = "answer"
      BY <2>1, <2>3 DEF Asked
    <3> QED
      BY <2>1, <3>1, HandingOnKeepsEnrichment DEF TaskInHand, HasKept
  <2> QED
    BY <1>2, <1>3, <2>1, <2>2, <2>3 DEF Answer
<1>4. ASSUME NEW on \in SUBSET Rows, NEW kept \in [on -> SUBSET Parts], ReadAndParse(kept)
      PROVE  EnIInv'
  <2>1. /\ task'.pc = "terms" /\ task'.about = task.about /\ task'.kept = kept
        /\ task.pc = "read" /\ DOMAIN kept \subseteq DOMAIN task.about /\ UNCHANGED post
    BY <1>4 DEF ReadAndParse
  <2>2. AboutItsRow(task.about)
    BY <2>1 DEF EnIInv, TaskInHand
  <2> QED
    BY <2>1, <2>2, HandingOnKeepsEnrichment DEF TaskInHand, HasKept
<1> QED
  BY <1>1, <1>2, <1>3, <1>4 DEF NoAnswer, NoMetadata, Drop

\* What the judge was not heard on, or did not find sound, is withheld.
LEMMA JudgingKeepsEnrichment ==
  ASSUME EnIInv, JudgePart("terms", "background") \/ JudgePart("background", "write")
  PROVE  EnIInv'
<1>1. ASSUME NEW part \in {"terms", "background"}, NEW next, JudgePart(part, next),
             NEW p \in Parts, p = (IF part = "terms" THEN "term" ELSE "background"),
             next = (IF part = "terms" THEN "background" ELSE "write")
      PROVE  EnIInv'
  <2> DEFINE Part  == IF part = "terms" THEN "term" ELSE "background"
             Lines == LinesOf(Part)
             Sound(good) == {<<Part, Lines[i]>> : i \in good}
                            \cup (IF part = "terms" THEN {} ELSE task.sound)
  <2>1. PICK heard \in BOOLEAN, a \in Answers(Len(Lines)), good \in SUBSET DOMAIN Lines :
          task' = [pc |-> next, kind |-> "primer", live |-> task.live, about |-> task.about,
                   kept |-> Withhold(Part, Approved(heard, Lines, Passes(a, Len(Lines), good))),
                   sound |-> Sound(good)]
    BY <1>1, Zenon DEF JudgePart
  <2>2. PICK lines, approved, sound :
          /\ lines = Lines
          /\ approved = Approved(heard, Lines, Passes(a, Len(Lines), good))
          /\ sound = Sound(good)
    OBVIOUS
  <2>3. /\ approved = Approved(heard, lines, Passes(a, Len(lines), good))
        /\ a \in Answers(Len(lines)) /\ good \in SUBSET DOMAIN lines
        /\ task' = [pc |-> next, kind |-> "primer", live |-> task.live, about |-> task.about,
                    kept |-> Withhold(p, approved), sound |-> sound]
    <3>1. p = Part
      BY <1>1
    <3> HIDE DEF Part, Lines, Sound
    <3> QED
      BY <2>1, <2>2, <3>1
  <2>4. /\ \A i \in good : <<p, lines[i]>> \in sound
        /\ part = "background" => task.sound \subseteq sound
    <3>1. p = Part
      BY <1>1
    <3>2. \A i \in good : <<Part, Lines[i]>> \in Sound(good)
      <4> HIDE DEF Part, Lines
      <4> QED
        OBVIOUS
    <3>3. part = "background" => task.sound \subseteq Sound(good)
      <4> HIDE DEF Part, Lines
      <4> QED
        OBVIOUS
    <3> HIDE DEF Part, Lines, Sound
    <3> QED
      BY <2>2, <3>1, <3>2, <3>3
  <2> HIDE DEF Part, Lines, Sound
  <2>5. task.pc = part /\ UNCHANGED post
    BY <1>1 DEF JudgePart
  <2>6. /\ AboutItsRow(task.about) /\ DOMAIN task.kept \subseteq DOMAIN task.about
        /\ \A u \in DOMAIN task.kept : task.kept[u] \subseteq Parts
        /\ part = "background" => SoundLeft("term")
    BY <2>5 DEF EnIInv, TaskInHand, HasKept
  <2>7. ASSUME NEW u \in approved
        PROVE  <<p, u>> \in sound
    <3>1. PICK i \in Passes(a, Len(lines), good) : u = lines[i]
      BY <2>3 DEF Approved
    <3>2. Aligned(a, Len(lines)) /\ i \in 1 .. Len(lines) /\ Entry(a, i).about \in good
      BY <3>1 DEF Passes
    <3>3. Entry(a, i).about = i
      BY <2>3, <3>2, AlignedIsInOrder
    <3> QED
      BY <2>4, <3>1, <3>2, <3>3
  <2>8. PICK left : left = Withhold(p, approved)
    OBVIOUS
  <2>9. /\ DOMAIN left \subseteq DOMAIN task.kept
        /\ \A u \in DOMAIN left : /\ left[u] \subseteq task.kept[u]
                                  /\ p \in left[u] => u \in approved
    BY <2>8 DEF Withhold
  <2>10. /\ task'.pc = next /\ task'.kind = "primer" /\ task'.about = task.about
         /\ task'.kept = left /\ task'.sound = sound
    BY <2>8, <2>3
  <2>11. \A u \in DOMAIN left : p \in left[u] => <<p, u>> \in sound
    BY <2>7, <2>9
  <2>12. part = "background" => \A u \in DOMAIN left : "term" \in left[u] => <<"term", u>> \in sound
    BY <2>6, <2>9, <2>4 DEF SoundLeft
  <2>13. TaskInHand'
    BY <1>1, <2>6, <2>9, <2>10, <2>11, <2>12 DEF TaskInHand, HasKept, SoundLeft
  <2> QED
    BY <2>5, <2>13, HandingOnKeepsEnrichment
<1> QED
  BY <1>1 DEF Parts

\* What is written is in place and, of a primer, what was found sound.
LEMMA WritingKeepsEnrichment ==
  ASSUME EnIInv, NEW done \in SUBSET Rows,
         WriteScores(done) \/ WriteEntities(done) \/ WritePrimers(done)
  PROVE  EnIInv'
<1>1. task.pc = "write" /\ AboutItsRow(task.about) /\ task' = NoTask
  BY DEF WriteScores, WriteEntities, WritePrimers, EnIInv, TaskInHand
<1>2. TaskInHand'
  BY <1>1 DEF TaskInHand, HasKept, NoTask
<1>3. ASSUME NEW u \in Rows
      PROVE  /\ Columns(post'[u])
             /\ post'[u].score \subseteq {u} /\ post'[u].entities \subseteq {u}
             /\ \A x \in post'[u].primer : x.about = u /\ x.sound
  <2>1. PICK row : row = post[u]
    OBVIOUS
  <2>2. /\ Columns(row) /\ row.score \subseteq {u} /\ row.entities \subseteq {u}
        /\ \A x \in row.primer : x.about = u /\ x.sound
    BY <2>1 DEF EnIInv, EnrichmentIsSound, TextIsAboutItsRow, StoredPartIsSound
  <2>3. CASE post'[u] = row
    BY <2>2, <2>3
  <2>4. CASE u \in DOMAIN task.about /\ post'[u] = [row EXCEPT !.score = {task.about[u]}]
    BY <1>1, <2>2, <2>4 DEF AboutItsRow, Columns
  <2>5. CASE u \in DOMAIN task.about /\ post'[u] = [row EXCEPT !.entities = {task.about[u]}]
    BY <1>1, <2>2, <2>5 DEF AboutItsRow, Columns
  <2>6. ASSUME task.kind = "primer", u \in DOMAIN task.kept, NEW primer,
               primer = {[part |-> p, about |-> task.about[u], sound |-> <<p, u>> \in task.sound] :
                           p \in task.kept[u]},
               post'[u] = [row EXCEPT !.primer = primer]
        PROVE  /\ Columns(post'[u])
               /\ post'[u].score \subseteq {u} /\ post'[u].entities \subseteq {u}
               /\ \A x \in post'[u].primer : x.about = u /\ x.sound
    <3>1. /\ task.about[u] = u /\ task.kept[u] \subseteq Parts
          /\ \A p \in task.kept[u] : <<p, u>> \in task.sound
      BY <1>1, <2>6 DEF EnIInv, TaskInHand, HasKept, SoundLeft, AboutItsRow, Parts
    <3>2. ASSUME NEW x \in primer
          PROVE  x.about = u /\ x.sound
      <4>1. PICK p \in task.kept[u] :
              x = [part |-> p, about |-> task.about[u], sound |-> <<p, u>> \in task.sound]
        BY <2>6
      <4>2. x.sound = (<<p, u>> \in task.sound) /\ x.about = task.about[u]
        BY <4>1, Zenon
      <4> QED
        BY <3>1, <4>2, Zenon
    <3>3. /\ Columns(post'[u]) /\ post'[u].primer = primer
          /\ post'[u].score = row.score /\ post'[u].entities = row.entities
      BY <2>2, <2>6 DEF Columns
    <3> QED
      BY <2>2, <3>2, <3>3
  <2> QED
    BY <2>1, <2>3, <2>4, <2>5, <2>6 DEF WriteScores, WriteEntities, WritePrimers
<1>4. DOMAIN post' = Rows
  BY DEF WriteScores, WriteEntities, WritePrimers
<1> QED
  BY <1>2, <1>3, <1>4 DEF EnIInv, EnrichmentIsSound, TextIsAboutItsRow, StoredPartIsSound

\* The store clears a score along with the copy it was for.
LEMMA StoringKeepsEnrichment ==
  ASSUME EnIInv, NEW u \in Rows, NEW copy \in 0 .. 2, StoreRewrites(u, copy)
  PROVE  EnIInv'
<1>1. /\ DOMAIN post' = Rows /\ UNCHANGED task
      /\ \A v \in Rows \ {u} : post'[v] = post[v]
  BY DEF StoreRewrites, EnIInv
<1>2. /\ Columns(post'[u]) /\ post'[u].score = {}
      /\ post'[u].entities = post[u].entities /\ post'[u].primer = post[u].primer
  BY DEF StoreRewrites, EnIInv, Columns
<1> QED
  BY <1>1, <1>2
  DEF EnIInv, EnrichmentIsSound, TextIsAboutItsRow, StoredPartIsSound, TaskInHand, HasKept, SoundLeft

\* For every sub-batch: however an answer is numbered, cut or doubled, and whatever
\* is rewritten meanwhile, a row gets text about itself, and of a primer the parts
\* that were found sound.
THEOREM EnrichmentStandsByItsRow == EnrichmentSpec => []EnrichmentIsSound
<1>1. InitEnrichment => EnIInv
  BY DEF InitEnrichment, EnIInv, Columns, EnrichmentIsSound, TextIsAboutItsRow,
         StoredPartIsSound, TaskInHand, HasKept, NoTask
<1>2. EnIInv /\ [EnrichmentNext]_enVars => EnIInv'
  <2> SUFFICES ASSUME EnIInv, [EnrichmentNext]_enVars PROVE EnIInv'
    OBVIOUS
  <2>1. CASE UNCHANGED enVars
    BY <2>1 DEF enVars, EnIInv, EnrichmentIsSound, TextIsAboutItsRow, StoredPartIsSound,
       TaskInHand, HasKept, SoundLeft
  <2>2. CASE EnrichmentNext
    BY <2>2, AnsweringKeepsEnrichment, JudgingKeepsEnrichment, WritingKeepsEnrichment,
       StoringKeepsEnrichment DEF EnrichmentNext
  <2> QED
    BY <2>1, <2>2
<1>3. EnIInv => EnrichmentIsSound
  BY DEF EnIInv
<1> QED
  BY <1>1, <1>2, <1>3, PTL DEF EnrichmentSpec

-----------------------------------------------------------------------------
(* The daily example.                                                       *)

\* An unforced refresh under way began on a day that has no example yet, and a day
\* that has one of its own keeps it.
OneIsEnough ==
    /\ stored \in {0, 1}
    /\ stored = 1 => example = today
    /\ phase = "comparing" /\ ~forced => stored = 0

\* Overlapping refreshes, midnight, forced ones and restarts notwithstanding, one
\* example a day is bought by itself.
THEOREM ExampleOnceADay == RefreshSpec => []OneExampleADay
<1>1. InitRefresh => OneIsEnough
  BY DEF InitRefresh, OneIsEnough
<1>2. OneIsEnough /\ [RefreshNext]_refreshVars => OneIsEnough'
  <2> SUFFICES ASSUME OneIsEnough, [RefreshNext]_refreshVars PROVE OneIsEnough'
    OBVIOUS
  <2>1. CASE UNCHANGED exampleVars /\ UNCHANGED today
    BY <2>1 DEF exampleVars, OneIsEnough
  <2>2. CASE RequestedRun \/ ForceRefresh
    BY <2>2 DEF RequestedRun, ForceRefresh, Begin, OneIsEnough
  <2>3. CASE Dies \/ CheckExample \/ NoExample
    BY <2>3 DEF Dies, CheckExample, NoExample, Wanted, OneIsEnough
  <2>4. CASE StoreExample
    BY <2>4 DEF StoreExample, OneIsEnough
  <2>5. CASE Midnight
    BY <2>5 DEF Midnight, OneIsEnough
  <2> QED
    BY <2>1, <2>2, <2>3, <2>4, <2>5
    DEF RefreshNext, Start, ScheduledRun, NoScheduledRun, Request, Heartbeat, DeepHealth,
        Tick, TroubleEnds, refreshVars
<1>3. OneIsEnough => OneExampleADay
  BY DEF OneIsEnough, OneExampleADay
<1> QED
  BY <1>1, <1>2, <1>3, PTL DEF RefreshSpec

-----------------------------------------------------------------------------
(* Evidence.                                                                *)

\* The outlet's own reporting of the last year, on its site or under its byline.
OwnReport(a) ==
    /\ DOMAIN a = DOMAIN Nothing
    /\ ev.of \in {a.on, a.by} /\ a.age # "old"

\* What is stored of the outlet is its own and, once it has text, is the answer; the
\* candidates are its own, whatever text stands beside them in the prompt.
EvIInv ==
    /\ DOMAIN ev = DOMAIN NoSearch
    /\ ev.pc # "idle" => ev.of \in DOMAIN Publishers
    /\ ev.pc = "idle" => ev.stored = Nothing
    /\ EvidenceStands
    /\ Found => OwnReport(ev.stored)
    /\ Found /\ ev.stored.text # "none" => ev.pc \in {"public", "done"}
    /\ ev.pc = "public" => Found
    /\ \A h \in ev.hints : OwnReport(h)

\* An article with all of its text is still that article.
LEMMA WholeIsOwn ==
  ASSUME NEW a, OwnReport(a)
  PROVE  OwnReport(Whole(a)) /\ Whole(a).text = "whole"
BY DEF OwnReport, Whole, Nothing

\* What the index, a publisher's page or feed, or a partner's page turns up is the
\* outlet's own, by its site or its byline.
LEMMA FoundIsOwn ==
  ASSUME EvIInv, NEW a \in Articles, a.age # "old",
         \/ a \in Own
         \/ Can("partner") /\ a \in KslReports \cup RadioReports
  PROVE  OwnReport(a)
<1>1. DOMAIN a = DOMAIN Nothing
  BY EvidenceAssumption DEF Nothing
<1>2. ev.of \in {a.on, a.by}
  BY EvidenceAssumption DEF EvIInv, Own, OnSite, Can, KslReports, RadioReports
<1> QED
  BY <1>1, <1>2 DEF OwnReport

\* A step on from what is stored without text disturbs nothing.
LEMMA MovingOnKeepsEvidence ==
  ASSUME EvIInv, ev.pc # "idle", ~Found \/ ev.stored.text = "none",
         DOMAIN ev' = DOMAIN ev, ev'.of = ev.of, ev'.stored = ev.stored,
         ev'.pc \in {"context", "discover", "budget", "paid", "refused"},
         \A h \in ev'.hints : OwnReport(h)
  PROVE  EvIInv'
BY DEF EvIInv, OwnReport, Found, EvidenceStands, EvidenceIsOwn, IndexedIsKept

\* Nor does an answer that is the outlet's own and not less than what is stored.
LEMMA ReturningKeepsEvidence ==
  ASSUME EvIInv, ev.pc # "idle", NEW S, Return(S),
         Can("scoped") => \A a \in S : OwnReport(a) /\ a.text # "none",
         Found /\ ev.stored.text # "none" => S # {}
  PROVE  EvIInv'
<1>1. /\ DOMAIN ev' = DOMAIN ev /\ ev'.pc = "done" /\ ev'.result = S
      /\ ev'.of = ev.of /\ ev'.stored = ev.stored /\ ev'.hints = ev.hints
  BY DEF Return, EvIInv, NoSearch
<1> QED
  BY <1>1 DEF EvIInv, OwnReport, Found, EvidenceStands, EvidenceIsOwn, IndexedIsKept, Can

\* The index, and then the page of what it has.
LEMMA LookingUpKeepsEvidence ==
  ASSUME EvIInv, IndexedCoverage \/ PublicText \/ Locator
  PROVE  EvIInv'
<1>1. ASSUME IndexedCoverage PROVE EvIInv'
  <2>1. ev.pc = "lookup" /\ (~Found \/ ev.stored.text = "none")
    BY <1>1 DEF IndexedCoverage, EvIInv
  <2>2. CASE ev' = [ev EXCEPT !.pc = "context"]
    <3>1. /\ DOMAIN ev' = DOMAIN ev /\ ev'.pc = "context"
          /\ ev'.of = ev.of /\ ev'.stored = ev.stored /\ ev'.hints = ev.hints
      BY <2>2 DEF EvIInv, NoSearch
    <3> QED
      BY <2>1, <3>1, MovingOnKeepsEvidence DEF EvIInv
  <2>3. ASSUME NEW a \in Own \cap Recent,
               \/ a.text = "whole" /\ ev' = [ev EXCEPT !.pc = "done", !.stored = a, !.result = {a}]
               \/ ev' = [ev EXCEPT !.pc = "public", !.stored = a]
        PROVE  EvIInv'
    <3>1. OwnReport(a) /\ a # Nothing
      <4>1. a \in Articles /\ a.age # "old" /\ a \in Own
        BY DEF Own, OnSite, Recent
      <4>2. a # Nothing
        <5>1. a.url # ""
          BY <4>1, EvidenceAssumption
        <5>2. Nothing.url = ""
          BY DEF Nothing
        <5> QED
          BY <5>1, <5>2
      <4> QED
        BY <4>1, <4>2, FoundIsOwn
    <3>2. /\ DOMAIN ev' = DOMAIN ev /\ ev'.stored = a /\ ev'.of = ev.of /\ ev'.hints = ev.hints
          /\ \/ a.text = "whole" /\ ev'.pc = "done" /\ ev'.result = {a}
             \/ ev'.pc = "public"
      BY <2>3 DEF EvIInv, NoSearch
    <3> QED
      BY <2>1, <3>1, <3>2
      DEF EvIInv, OwnReport, Found, EvidenceStands, EvidenceIsOwn, IndexedIsKept, Can
  <2> QED
    BY <1>1, <2>2, <2>3 DEF IndexedCoverage
<1>2. ASSUME PublicText PROVE EvIInv'
  <2>1. ev.pc = "public" /\ Found /\ OwnReport(ev.stored)
    BY <1>2 DEF PublicText, EvIInv
  <2>2. CASE Return({Whole(ev.stored)})
    BY <2>1, <2>2, WholeIsOwn, ReturningKeepsEvidence
  <2>3. CASE ev.stored.text = "cut" /\ Return({ev.stored})
    BY <2>1, <2>3, ReturningKeepsEvidence
  <2>4. CASE ev.stored.text = "none" /\ ev' = [ev EXCEPT !.pc = "context"]
    <3>1. /\ DOMAIN ev' = DOMAIN ev /\ ev'.pc = "context"
          /\ ev'.of = ev.of /\ ev'.stored = ev.stored /\ ev'.hints = ev.hints
      BY <2>4 DEF EvIInv, NoSearch
    <3> QED
      BY <2>1, <2>4, <3>1, MovingOnKeepsEvidence DEF EvIInv
  <2> QED
    BY <1>2, <2>2, <2>3, <2>4 DEF PublicText
<1>3. ASSUME Locator PROVE EvIInv'
  <2>1. /\ ev.pc = "context" /\ DOMAIN ev' = DOMAIN ev /\ ev'.pc = "discover"
        /\ ev'.of = ev.of /\ ev'.stored = ev.stored /\ ev'.hints = ev.hints
    BY <1>3 DEF Locator, EvIInv, NoSearch
  <2> QED
    BY <2>1, MovingOnKeepsEvidence DEF EvIInv
<1> QED
  BY <1>1, <1>2, <1>3

\* Originals: a few of the outlet's own reports, each with its text.
LEMMA DiscoveringKeepsEvidence ==
  ASSUME EvIInv, ArchiveOriginals \/ RadioOriginals \/ PageOriginals \/ TopicOriginals
  PROVE  EvIInv'
<1>1. PICK reports, n, quote :
        /\ Discovered(reports, n, quote)
        /\ \A a \in reports : a \in Articles /\ OwnReport(a)
  <2>1. ASSUME NEW a, \/ a \in Own \cap Dated
                      \/ Can("partner") /\ a \in (KslReports \cup RadioReports) \cap Dated
        PROVE  a \in Articles /\ OwnReport(a)
    BY <2>1, FoundIsOwn DEF Own, OnSite, Dated, KslReports, RadioReports
  <2> QED
    BY <2>1 DEF ArchiveOriginals, RadioOriginals, PageOriginals, TopicOriginals, PageText,
       KslReports, RadioReports
<1>2. PICK S \in SUBSET reports :
        ev' = [ev EXCEPT !.pc = "budget", !.hints = {Whole(a) : a \in S},
                         !.originals = TRUE, !.quote = quote]
  BY <1>1 DEF Discovered
<1>3. /\ ev.pc = "discover" /\ ~Found /\ DOMAIN ev' = DOMAIN ev /\ ev'.pc = "budget"
      /\ ev'.of = ev.of /\ ev'.stored = ev.stored /\ ev'.hints = {Whole(a) : a \in S}
  BY <1>1, <1>2 DEF Discovered, EvIInv, NoSearch
<1>4. \A h \in ev'.hints : OwnReport(h)
  BY <1>1, <1>3, WholeIsOwn
<1> QED
  BY <1>3, <1>4, MovingOnKeepsEvidence

\* Titles: the outlet's own, with what text there is, and for the others with text only.
LEMMA HintingKeepsEvidence ==
  ASSUME EvIInv, TitleHints \/ NoHints
  PROVE  EvIInv'
<1>1. ASSUME TitleHints PROVE EvIInv'
  <2> DEFINE Hints(S, reviewed, D) == {IF a \in D THEN Whole(a)
                                       ELSE IF a \in reviewed THEN a
                                       ELSE [a EXCEPT !.text = "none"] : a \in S}
  <2> DEFINE Hinted(S, reviewed, D) ==
               ev' = [ev EXCEPT !.pc = "budget", !.quote = ~Can("locator"),
                                !.hints = IF Can("locator") THEN Hints(S, reviewed, D)
                                          ELSE WithText(Hints(S, reviewed, D))]
  <2>1. PICK S \in SUBSET (Own \cap Recent), reviewed \in SUBSET Own :
          \E D \in Described(S) : Hinted(S, reviewed, D)
    BY <1>1, Zenon DEF TitleHints
  <2>2. PICK D \in Described(S) : Hinted(S, reviewed, D)
    BY <2>1, Zenon
  <2>3. ASSUME NEW a \in S
        PROVE  OwnReport(a) /\ OwnReport(Whole(a)) /\ OwnReport([a EXCEPT !.text = "none"])
    <3>1. OwnReport(a)
      BY FoundIsOwn DEF Own, OnSite, Recent
    <3> QED
      BY <3>1, WholeIsOwn DEF OwnReport, Nothing
  <2>4. \A h \in Hints(S, reviewed, D) : OwnReport(h)
    BY <2>3
  <2> HIDE DEF Hints
  <2>5. /\ ev.pc = "discover" /\ ~Found /\ DOMAIN ev' = DOMAIN ev /\ ev'.pc = "budget"
        /\ ev'.of = ev.of /\ ev'.stored = ev.stored /\ ev'.hints \subseteq Hints(S, reviewed, D)
    BY <1>1, <2>2 DEF TitleHints, EvIInv, NoSearch, WithText
  <2> QED
    BY <2>4, <2>5, MovingOnKeepsEvidence
<1>2. ASSUME NoHints PROVE EvIInv'
  <2>1. /\ ev.pc = "discover" /\ DOMAIN ev' = DOMAIN ev /\ ev'.pc = "budget"
        /\ ev'.of = ev.of /\ ev'.stored = ev.stored /\ ev'.hints = ev.hints
    BY <1>2 DEF NoHints, EvIInv, NoSearch
  <2> QED
    BY <2>1, MovingOnKeepsEvidence DEF EvIInv
<1> QED
  BY <1>1, <1>2

\* A budget may narrow the candidates and adds none.
LEMMA BudgetKeepsEvidence ==
  ASSUME EvIInv, ShortBudget \/ BudgetAllows \/ Refused
  PROVE  EvIInv'
<1>1. /\ ev.pc \in {"budget", "paid"} /\ DOMAIN ev' = DOMAIN ev /\ ev'.pc \in {"paid", "refused"}
      /\ ev'.of = ev.of /\ ev'.stored = ev.stored /\ ev'.hints \subseteq ev.hints
  BY DEF ShortBudget, BudgetAllows, Refused, EvIInv, NoSearch, WithText
<1> QED
  BY <1>1, MovingOnKeepsEvidence DEF EvIInv

\* The paid call: a candidate with its own text, a result that can be cited, or a
\* partner's page with the byline; whatever was shown or cited beside it.
LEMMA PayingKeepsEvidence ==
  ASSUME EvIInv, Selects \/ Cites \/ FindsNothing
  PROVE  EvIInv'
<1>1. ev.pc = "paid" /\ (~Found \/ ev.stored.text = "none")
  BY DEF Selects, Cites, FindsNothing, EvIInv
<1>2. ASSUME NEW S, Return(S), Can("scoped") => \A a \in S : OwnReport(a) /\ a.text # "none"
      PROVE  EvIInv'
  BY <1>1, <1>2, ReturningKeepsEvidence
<1>3. ASSUME Selects PROVE EvIInv'
  <2>1. PICK selected, passage : Return(IF Verified(selected, passage) THEN {selected} ELSE {})
    BY <1>3 DEF Selects
  <2>2. CASE Verified(selected, passage)
    BY <1>2, <2>1, <2>2 DEF Verified, EvIInv
  <2>3. CASE ~Verified(selected, passage)
    BY <1>2, <2>1, <2>3
  <2> QED
    BY <2>2, <2>3
<1>4. ASSUME Cites PROVE EvIInv'
  <2>1. PICK cited \in SUBSET Articles :
          IF ~Can("scoped") THEN Return(cited)
          ELSE IF \E a \in cited : Citable(a) THEN Return({a \in cited : Citable(a)})
          ELSE \/ Return({})
               \/ /\ Can("partner") /\ ~Found
                  /\ \E page \in Republished(cited) : Return({Whole(a) : a \in page})
    BY <1>4 DEF Cites
  <2>2. CASE ~Can("scoped")
    BY <1>2, <2>1, <2>2
  <2>3. CASE Return({a \in cited : Citable(a)})
    <3>1. \A a \in {x \in cited : Citable(x)} : OwnReport(a) /\ a.text # "none"
      BY FoundIsOwn DEF Citable, Dated
    <3> QED
      BY <1>2, <2>3, <3>1
  <2>4. CASE Return({})
    BY <1>2, <2>4
  <2>5. ASSUME Can("partner"), NEW page \in Republished(cited), Return({Whole(a) : a \in page})
        PROVE  EvIInv'
    <3>1. \A a \in page : a \in Articles /\ a.age # "old" /\ a \in KslReports \cup RadioReports
      BY DEF Republished, KslReports, RadioReports, Dated
    <3>2. \A a \in page : OwnReport(a)
      BY <2>5, <3>1, FoundIsOwn
    <3> QED
      BY <1>2, <2>5, <3>2, WholeIsOwn
  <2> QED
    BY <2>1, <2>2, <2>3, <2>4, <2>5
<1>5. ASSUME FindsNothing PROVE EvIInv'
  BY <1>2, <1>5 DEF FindsNothing
<1> QED
  BY <1>3, <1>4, <1>5

\* For any publishers and articles: evidence for an outlet with an adapter is its own
\* reporting, and text the index has is handed on, whatever fails after it.
THEOREM EvidenceIsSound == EvidenceSpec => []EvidenceStands
<1>1. InitEvidence => EvIInv
  <2> SUFFICES ASSUME InitEvidence PROVE EvIInv
    OBVIOUS
  <2>1. /\ DOMAIN ev = DOMAIN NoSearch /\ ev.pc = "idle"
        /\ ev.stored = Nothing /\ ev.hints = {}
    BY DEF InitEvidence, NoSearch
  <2> QED
    BY <2>1 DEF EvIInv, Found, EvidenceStands, EvidenceIsOwn, IndexedIsKept
<1>2. EvIInv /\ [EvidenceNext]_evVars => EvIInv'
  <2> SUFFICES ASSUME EvIInv, [EvidenceNext]_evVars PROVE EvIInv'
    OBVIOUS
  <2>1. CASE UNCHANGED evVars
    BY <2>1 DEF evVars, EvIInv, OwnReport, Found, EvidenceStands, EvidenceIsOwn, IndexedIsKept, Can
  <2>2. ASSUME NEW o \in DOMAIN Publishers, SearchFor(o)
        PROVE  EvIInv'
    <3>1. /\ DOMAIN ev' = DOMAIN NoSearch /\ ev'.pc = "lookup" /\ ev'.of = o
          /\ ev'.stored = Nothing /\ ev'.hints = {}
      BY <2>2 DEF SearchFor, NoSearch
    <3> QED
      BY <3>1 DEF EvIInv, Found, EvidenceStands, EvidenceIsOwn, IndexedIsKept
  <2>3. CASE EvidenceNext
    BY <2>2, <2>3, LookingUpKeepsEvidence, DiscoveringKeepsEvidence, HintingKeepsEvidence,
       BudgetKeepsEvidence, PayingKeepsEvidence DEF EvidenceNext
  <2> QED
    BY <2>1, <2>3
<1>3. EvIInv => EvidenceStands
  BY DEF EvIInv
<1> QED
  BY <1>1, <1>2, <1>3, PTL DEF EvidenceSpec

-----------------------------------------------------------------------------
(* The feed monitor.                                                        *)

\* An outlet's verdict from how long it has been silent and on how many days of its
\* last window it wrote.
JudgedBy(days, n) ==
    IF n = 0 \/ BeyondLeash(days, n) THEN "stalled" ELSE IF days >= Floor THEN "quiet" ELSE "ok"

\* The days of the window that ends at the row the last verdict was given at.
RhythmThen(o) == {d \in rowDays[o] : d > judgedAt[o] - Window /\ d <= judgedAt[o]}

\* A verdict was given at a row that is still there, from the rhythm up to that row,
\* which later rows leave alone, and a silence shorter than today's.
FeedsIInv ==
    /\ feedDay \in Nat \ {0}
    /\ rowDays \in [Configured -> SUBSET (1..feedDay)]
    /\ judgedAt \in [Configured -> Nat]
    /\ DOMAIN lastVerdict = Configured
    /\ \A o \in Configured : judgedAt[o] # 0 =>
          /\ judgedAt[o] \in rowDays[o] /\ judgedAt[o] < feedDay
          /\ \E days \in Nat : /\ days < feedDay - judgedAt[o]
                               /\ lastVerdict[o] = JudgedBy(days, Cardinality(RhythmThen(o)))

\* A set of naturals with an element has a least one.
LEMMA LeastOf ==
  ASSUME NEW T, T \subseteq Nat, T # {}
  PROVE  \E x \in T : \A y \in T : x <= y
<1> DEFINE Less == {ss \in Nat \X Nat : ss[1] < ss[2]}
<1>1. IsWellFoundedOn(Less, Nat)
  BY NatLessThanWellFounded DEF OpToRel
<1>2. PICK x \in T : \A y \in T : ~(<<y, x>> \in Less)
  BY <1>1, WFMin
<1>3. ASSUME NEW y \in T, y < x PROVE FALSE
  <2> DEFINE p == <<y, x>>
  <2>1. p \in Nat \X Nat /\ p[1] < p[2]
    BY <1>3
  <2>2. p \in Less
    <3> HIDE DEF p
    <3> QED
      BY <2>1
  <2> QED
    BY <1>2, <2>2
<1> QED
  BY <1>3

\* A set of days with an element has a last one, which is its Max.
LEMMA LastOf ==
  ASSUME NEW n \in Nat, NEW S \in SUBSET (1..n), S # {}
  PROVE  Max(S) \in S /\ \A y \in S : Max(S) >= y
<1> DEFINE T == {k \in Nat : n - k \in S}
<1>1. T \subseteq Nat
  OBVIOUS
<1>2. T # {}
  <2>1. PICK y \in S : TRUE
    OBVIOUS
  <2>2. n - y \in Nat /\ n - (n - y) = y
    OBVIOUS
  <2>3. n - y \in T
    BY <2>1, <2>2
  <2> QED
    BY <2>3
<1>3. PICK k \in T : \A j \in T : k <= j
  <2> HIDE DEF T
  <2> QED
    BY <1>1, <1>2, LeastOf
<1>4. n - k \in S
  OBVIOUS
<1>5. ASSUME NEW y \in S PROVE n - k >= y
  <2>1. n - y \in Nat /\ n - (n - y) = y
    OBVIOUS
  <2>2. n - y \in T
    BY <2>1
  <2>3. k <= n - y /\ k \in Nat
    BY <1>3, <2>2
  <2> QED
    BY <2>1, <2>3
<1>6. \E x \in S : \A y \in S : x >= y
  BY <1>4, <1>5
<1> QED
  BY <1>6, Zenon DEF Max

\* The longer the silence at one rhythm, the harder the verdict.
LEMMA SilenceHardens ==
  ASSUME NEW n \in Nat, NEW earlier \in Nat, NEW later \in Nat, earlier <= later
  PROVE  Severity(JudgedBy(later, n)) >= Severity(JudgedBy(earlier, n))
<1>1. earlier * n <= later * n
  <2>1. later * n = earlier * n + (later - earlier) * n
    OBVIOUS
  <2>2. (later - earlier) * n \in Nat
    OBVIOUS
  <2>3. earlier * n \in Nat /\ later * n \in Nat
    OBVIOUS
  <2> QED
    BY <2>1, <2>2, <2>3
<1>2. BeyondLeash(earlier, n) => BeyondLeash(later, n)
  BY <1>1, FeedsAssumption DEF BeyondLeash
<1>3. earlier >= Floor => later >= Floor
  BY FeedsAssumption
<1> QED
  BY <1>2, <1>3 DEF JudgedBy, Severity

\* The rows of an outlet after a day, where those of the rhythm are as they were.
LEMMA FetchingKeepsFeeds ==
  ASSUME FeedsIInv, FetchFeeds
  PROVE  FeedsIInv'
<1>1. feedDay' = feedDay /\ lastVerdict' = lastVerdict /\ judgedAt' = judgedAt
  BY DEF FetchFeeds
<1>2. /\ rowDays' \in [Configured -> SUBSET (1..feedDay)]
      /\ \A o \in Configured : rowDays'[o] \in {rowDays[o], rowDays[o] \cup {feedDay}}
  <2>1. PICK fresh : rowDays' = [o \in Configured |-> IF o \in fresh THEN rowDays[o] \cup {feedDay}
                                                                      ELSE rowDays[o]]
    BY Zenon DEF FetchFeeds
  <2>2. feedDay \in 1..feedDay /\ rowDays \in [Configured -> SUBSET (1..feedDay)]
    BY DEF FeedsIInv
  <2> QED
    BY <2>1, <2>2
<1>3. ASSUME NEW o \in Configured, judgedAt[o] # 0 PROVE RhythmThen(o)' = RhythmThen(o)
  <2>1. judgedAt[o] < feedDay /\ judgedAt[o] \in Nat /\ feedDay \in Nat
    BY <1>3 DEF FeedsIInv
  <2> QED
    BY <1>1, <1>2, <2>1 DEF RhythmThen
<1>4. ASSUME NEW o \in Configured, judgedAt[o] # 0
      PROVE  \E days \in Nat : /\ days < feedDay' - judgedAt'[o]
                               /\ lastVerdict'[o] = JudgedBy(days, Cardinality(RhythmThen(o)'))
  BY <1>1, <1>3, <1>4, Zenon DEF FeedsIInv
<1> QED
  BY <1>1, <1>2, <1>4 DEF FeedsIInv

\* What a check judges by.
LEMMA EvaluatedIs ==
  ASSUME FeedsIInv, NEW o \in Configured, rowDays[o] # {}
  PROVE  /\ LastRow(o) \in rowDays[o] /\ LastRow(o) \in 1..feedDay
         /\ \A d \in rowDays[o] : d <= LastRow(o)
         /\ Evaluated(o) = JudgedBy(feedDay - LastRow(o), ActiveDays(o))
         /\ ActiveDays(o) =
              Cardinality({d \in rowDays[o] : d > LastRow(o) - Window /\ d <= LastRow(o)})
         /\ ActiveDays(o) \in Nat
<1>1. rowDays[o] \in SUBSET (1..feedDay) /\ feedDay \in Nat
  BY DEF FeedsIInv
<1>2. /\ LastRow(o) \in rowDays[o] /\ LastRow(o) \in 1..feedDay
      /\ \A d \in rowDays[o] : d <= LastRow(o)
  BY <1>1, LastOf DEF LastRow
<1>3. Evaluated(o) = JudgedBy(feedDay - LastRow(o), ActiveDays(o))
  BY DEF Evaluated, JudgedBy
<1>4. {d \in rowDays[o] : d > LastRow(o) - Window} =
      {d \in rowDays[o] : d > LastRow(o) - Window /\ d <= LastRow(o)}
  BY <1>2
<1>5. ActiveDays(o) \in Nat
  <2> DEFINE busy == {d \in rowDays[o] : d > LastRow(o) - Window}
  <2>1. IsFiniteSet(1..feedDay)
    BY <1>1, FS_Interval
  <2>2. IsFiniteSet(busy)
    BY <1>1, <2>1, FS_Subset
  <2> QED
    BY <2>2, FS_CardinalityType DEF ActiveDays
<1> QED
  BY <1>2, <1>3, <1>4, <1>5 DEF ActiveDays

\* A check names the last row and gives the verdict on its rhythm, or names nothing.
LEMMA CheckingKeepsFeeds ==
  ASSUME FeedsIInv, CheckFeedHealth
  PROVE  FeedsIInv'
<1>1. feedDay' = feedDay + 1 /\ rowDays' = rowDays /\ feedDay \in Nat \ {0}
  BY DEF CheckFeedHealth, FeedsIInv
<1>2. rowDays' \in [Configured -> SUBSET (1..feedDay')]
  <2>1. (1..feedDay) \subseteq (1..feedDay')
    BY <1>1
  <2> QED
    BY <1>1, <2>1 DEF FeedsIInv
<1>3. CASE UNCHANGED <<lastVerdict, judgedAt>>
  <2>1. ASSUME NEW o \in Configured, judgedAt[o] # 0
        PROVE  \E days \in Nat : /\ days < feedDay' - judgedAt[o]
                                 /\ lastVerdict[o] = JudgedBy(days, Cardinality(RhythmThen(o)))
    <3>1. PICK days \in Nat : /\ days < feedDay - judgedAt[o]
                              /\ lastVerdict[o] = JudgedBy(days, Cardinality(RhythmThen(o)))
      BY <2>1, Zenon DEF FeedsIInv
    <3>2. days < feedDay' - judgedAt[o]
      BY <1>1, <3>1 DEF FeedsIInv
    <3> QED
      BY <3>1, <3>2
  <2>2. \A o \in Configured : RhythmThen(o)' = RhythmThen(o)
    BY <1>1, <1>3 DEF RhythmThen
  <2>3. \A o \in Configured : judgedAt[o] # 0 => judgedAt[o] \in rowDays[o] /\ judgedAt[o] < feedDay'
    BY <1>1 DEF FeedsIInv
  <2>4. judgedAt \in [Configured -> Nat] /\ DOMAIN lastVerdict = Configured
    BY DEF FeedsIInv
  <2>5. \A o \in Configured : judgedAt'[o] # 0 =>
           /\ judgedAt'[o] \in rowDays'[o] /\ judgedAt'[o] < feedDay'
           /\ \E days \in Nat : /\ days < feedDay' - judgedAt'[o]
                                /\ lastVerdict'[o] = JudgedBy(days, Cardinality(RhythmThen(o)'))
    BY <1>1, <1>3, <2>1, <2>2, <2>3
  <2> QED
    BY <1>1, <1>2, <1>3, <2>4, <2>5 DEF FeedsIInv
<1>4. CASE /\ lastVerdict' = [o \in Configured |-> Evaluated(o)]
           /\ judgedAt' = [o \in Configured |-> IF rowDays[o] = {} THEN 0 ELSE LastRow(o)]
  <2>1. judgedAt' \in [Configured -> Nat] /\ DOMAIN lastVerdict' = Configured
    <3>1. \A o \in Configured : rowDays[o] # {} => LastRow(o) \in 1..feedDay
      BY EvaluatedIs
    <3>2. \A o \in Configured : rowDays[o] # {} => LastRow(o) \in Nat
      BY <1>1, <3>1
    <3> QED
      BY <1>4, <3>2
  <2>2. ASSUME NEW o \in Configured, judgedAt'[o] # 0
        PROVE  /\ judgedAt'[o] \in rowDays'[o] /\ judgedAt'[o] < feedDay'
               /\ feedDay - judgedAt'[o] \in Nat
               /\ feedDay - judgedAt'[o] < feedDay' - judgedAt'[o]
               /\ lastVerdict'[o] = JudgedBy(feedDay - judgedAt'[o], Cardinality(RhythmThen(o)'))
    <3>1. rowDays[o] # {} /\ judgedAt'[o] = LastRow(o) /\ lastVerdict'[o] = Evaluated(o)
      BY <1>4, <2>2
    <3>2. RhythmThen(o)' = {d \in rowDays[o] : d > LastRow(o) - Window /\ d <= LastRow(o)}
      BY <1>1, <3>1 DEF RhythmThen
    <3>3. lastVerdict'[o] = JudgedBy(feedDay - judgedAt'[o], Cardinality(RhythmThen(o)'))
      BY <3>1, <3>2, EvaluatedIs, Zenon
    <3>4. LastRow(o) \in rowDays[o] /\ LastRow(o) \in 1..feedDay
      BY <3>1, EvaluatedIs
    <3>5. LastRow(o) < feedDay + 1 /\ feedDay - LastRow(o) \in Nat
          /\ feedDay - LastRow(o) < feedDay + 1 - LastRow(o)
      BY <1>1, <3>4
    <3> QED
      BY <1>1, <3>1, <3>3, <3>4, <3>5
  <2> QED
    BY <1>1, <1>2, <2>1, <2>2 DEF FeedsIInv
<1> QED
  BY <1>3, <1>4, Zenon DEF CheckFeedHealth

\* "Only days_since moves and the verdict can only harden": a check that finds the same
\* last row as the one before is no milder, whatever feeds fail, return or fall silent.
THEOREM VerdictsHarden == FeedsSpec => VerdictOnlyHardens
<1>1. InitFeeds => FeedsIInv
  <2> SUFFICES ASSUME InitFeeds PROVE FeedsIInv
    OBVIOUS
  <2>1. feedDay \in Nat \ {0} /\ DOMAIN lastVerdict = Configured
    <3>1. feedDay = 1
      BY Zenon DEF InitFeeds
    <3>2. DOMAIN lastVerdict = Configured
      BY Zenon DEF InitFeeds
    <3>3. 1 \in Nat \ {0}
      OBVIOUS
    <3> QED
      BY <3>1, <3>2, <3>3, Zenon
  <2>2. rowDays \in [Configured -> SUBSET (1..feedDay)]
    <3>1. {} \in SUBSET (1..feedDay)
      OBVIOUS
    <3> QED
      BY <3>1 DEF InitFeeds
  <2>3. judgedAt \in [Configured -> Nat] /\ \A o \in Configured : judgedAt[o] = 0
    BY DEF InitFeeds
  <2> QED
    BY <2>1, <2>2, <2>3 DEF FeedsIInv
<1>2. FeedsIInv /\ [FeedsNext]_feedVars => FeedsIInv'
  <2>1. ASSUME FeedsIInv, UNCHANGED feedVars PROVE FeedsIInv'
    <3>1. \A o \in Configured : RhythmThen(o)' = RhythmThen(o)
      BY <2>1 DEF feedVars, RhythmThen
    <3> QED
      BY <2>1, <3>1 DEF feedVars, FeedsIInv
  <2> QED
    BY <2>1, FetchingKeepsFeeds, CheckingKeepsFeeds DEF FeedsNext
<1>3. FeedsIInv /\ [FeedsNext]_feedVars =>
        [\A o \in Configured :
            judgedAt[o] # 0 /\ judgedAt'[o] = judgedAt[o] =>
                Severity(lastVerdict'[o]) >= Severity(lastVerdict[o])]_feedVars
  <2> SUFFICES ASSUME FeedsIInv, FeedsNext, NEW o \in Configured,
                      judgedAt[o] # 0, judgedAt'[o] = judgedAt[o]
               PROVE  Severity(lastVerdict'[o]) >= Severity(lastVerdict[o])
    BY DEF feedVars
  <2>1. CASE lastVerdict' = lastVerdict
    BY <2>1 DEF Severity
  <2>2. CASE /\ lastVerdict' = [a \in Configured |-> Evaluated(a)]
             /\ judgedAt' = [a \in Configured |-> IF rowDays[a] = {} THEN 0 ELSE LastRow(a)]
    <3>1. rowDays[o] # {} /\ judgedAt[o] = LastRow(o) /\ lastVerdict'[o] = Evaluated(o)
      BY <2>2
    <3>2. RhythmThen(o) = {d \in rowDays[o] : d > LastRow(o) - Window /\ d <= LastRow(o)}
      BY <3>1 DEF RhythmThen
    <3>3. lastVerdict'[o] = JudgedBy(feedDay - LastRow(o), ActiveDays(o))
      BY <3>1, EvaluatedIs
    <3>4. PICK days \in Nat : /\ days < feedDay - judgedAt[o]
                              /\ lastVerdict[o] = JudgedBy(days, Cardinality(RhythmThen(o)))
      BY Zenon DEF FeedsIInv
    <3>5. lastVerdict[o] = JudgedBy(days, ActiveDays(o))
      BY <3>1, <3>2, <3>4, EvaluatedIs, Zenon
    <3>6. LastRow(o) \in 1..feedDay /\ ActiveDays(o) \in Nat /\ feedDay \in Nat
      BY <3>1, EvaluatedIs DEF FeedsIInv
    <3>7. Severity(JudgedBy(feedDay - LastRow(o), ActiveDays(o))) >= Severity(JudgedBy(days, ActiveDays(o)))
      <4>1. days < feedDay - LastRow(o)
        BY <3>1, <3>4
      <4>2. feedDay - LastRow(o) \in Nat /\ days <= feedDay - LastRow(o)
        BY <3>6, <4>1
      <4> QED
        BY <3>6, <4>2, SilenceHardens
    <3> QED
      BY <3>3, <3>5, <3>7
  <2> QED
    BY <2>1, <2>2, Zenon DEF FeedsNext, FetchFeeds, CheckFeedHealth
<1> QED
  BY <1>1, <1>2, <1>3, PTL DEF FeedsSpec, VerdictOnlyHardens

-----------------------------------------------------------------------------
(* Metering.                                                                *)

CallFields == {"pc", "model", "served", "estimate", "held", "settled", "marked", "metered"}

\* The model a call was sent to, with the estimate made for it.
EstimateOn(m, o) ==
    LET known == PriceOf(Snapshot(Operations[o].incumbent))
        other == PriceOf(Snapshot(m))
    IN  IF other.in * known.out >= other.out * known.in
        THEN <<Baseline(o) * other.in, known.in>> ELSE <<Baseline(o) * other.out, known.out>>

SentTo(m, o) ==
    /\ paid[o].model = Snapshot(m) /\ paid[o].estimate = EstimateOn(m, o)
    /\ Operations[o].batch => Models[m].half /\ paid[o].served \in Models[m].wires

\* A call has the fields of one and is where calls of its kind can be.
CallIsOne(o) ==
    /\ DOMAIN paid[o] = CallFields /\ queue[o] \in Seq(Int) /\ usage[o] \in Seq(Int)
    /\ ~Operations[o].batch =>
          paid[o].pc \in {"new", "refused", "sent", "failed", "answered", "logged", "gone"}
    /\ Operations[o].batch => paid[o].pc \in {"new", "working", "handling", "done"}

\* What has been recorded of a call is what its mark says: the boundary has, and then
\* nobody else will, or nobody has before the call site.
RecordIsMarked(o) ==
    /\ paid[o].held => queue[o] = <<>>
    /\ paid[o].held /\ ~paid[o].settled => usage[o] = <<>>
    /\ paid[o].held /\ paid[o].settled =>
          usage[o] = <<IF Operations[o].batch THEN BatchPrice(paid[o].served, o) ELSE CostOf(paid[o].model, o)>>
    /\ paid[o].held /\ paid[o].settled /\ Operations[o].batch => paid[o].served \in DOMAIN Prices
    /\ paid[o].held /\ paid[o].pc = "sent" => ~paid[o].settled
    /\ paid[o].held /\ paid[o].pc \in {"answered", "logged"} => paid[o].settled /\ paid[o].marked
    /\ paid[o].held /\ paid[o].pc \in {"handling", "done"} => paid[o].settled /\ paid[o].metered
    /\ ~paid[o].held /\ ~Operations[o].batch => Len(usage[o]) + Len(queue[o]) <= 1
    /\ paid[o].pc = "new" => ~paid[o].held /\ ~paid[o].settled
    /\ paid[o].pc = "new" \/ (~Operations[o].batch /\ paid[o].pc \in {"sent", "answered"} /\ ~paid[o].held) =>
          usage[o] = <<>> /\ queue[o] = <<>>

\* A call that is out went to a model that may serve it, under that model's estimate.
CallIsPriced(o) == paid[o].held => \E m \in DOMAIN Models : SentTo(m, o)

MeterIInv ==
    /\ DOMAIN paid = DOMAIN Operations
    /\ DOMAIN queue = DOMAIN Operations /\ DOMAIN usage = DOMAIN Operations
    /\ \A o \in DOMAIN Operations : CallIsOne(o) /\ RecordIsMarked(o) /\ CallIsPriced(o)

\* Prices are whole, positive and even, an unknown id's too.
LEMMA PricesAreEven ==
  ASSUME NEW w
  PROVE  /\ PriceOf(w).in \in Nat \ {0} /\ PriceOf(w).out \in Nat \ {0}
         /\ PriceOf(w).in % 2 = 0 /\ PriceOf(w).out % 2 = 0
BY MeteringAssumption, RatesAssumption DEF PriceOf

\* The costs of a call are whole and even.
LEMMA CostsAreEven ==
  ASSUME NEW w, NEW o \in DOMAIN Operations
  PROVE  /\ CostOf(w, o) \in Nat /\ 2 * (CostOf(w, o) \div 2) = CostOf(w, o)
         /\ CostOf(w, o) \div 2 \in Nat /\ BatchPrice(w, o) \in Nat
<1> DEFINE p == PriceOf(w).in
           q == PriceOf(w).out
           i == Operations[o].tokens.in
           t == Operations[o].tokens.out
<1>1. p \in Nat /\ q \in Nat /\ p % 2 = 0 /\ q % 2 = 0 /\ i \in Nat /\ t \in Nat
  BY PricesAreEven, MeteringAssumption
<1>2. CostOf(w, o) = p * i + q * t
  BY DEF CostOf
<1> HIDE DEF p, q, i, t
<1>3. PICK a \in Nat, b \in Nat : p = 2 * a /\ q = 2 * b
  <2>1. p = 2 * (p \div 2) /\ q = 2 * (q \div 2) /\ p \div 2 \in Nat /\ q \div 2 \in Nat
    BY <1>1
  <2> QED
    BY <2>1
<1>4. a * i \in Nat /\ b * t \in Nat
  BY <1>1, <1>3
<1>5. p * i = 2 * (a * i) /\ q * t = 2 * (b * t)
  BY <1>1, <1>3
<1>6. CostOf(w, o) = 2 * (a * i + b * t)
  BY <1>2, <1>4, <1>5
<1>7. CostOf(w, o) \in Nat /\ CostOf(w, o) \div 2 = a * i + b * t
  BY <1>4, <1>6
<1> QED
  BY <1>4, <1>6, <1>7 DEF BatchPrice

\* A model's snapshot is one of its ids and has a price.
LEMMA SnapshotsArePriced ==
  ASSUME NEW m \in DOMAIN Models
  PROVE  Snapshot(m) \in Models[m].wires /\ Snapshot(m) \in DOMAIN Prices
<1>1. \E w \in Models[m].wires : w \in DOMAIN Prices
  BY MeteringAssumption
<1> QED
  BY <1>1, Zenon DEF Snapshot

\* What resolve returns is in the catalog and can do what the operation needs.
LEMMA ResolvedIsAble ==
  ASSUME NEW o \in DOMAIN Operations
  PROVE  /\ Resolve(o) \in DOMAIN Models /\ Estimate(o) = EstimateOn(Resolve(o), o)
         /\ Operations[o].batch => Models[Resolve(o)].half
<1>1. Resolve(o) \in DOMAIN Models
  BY MeteringAssumption DEF Resolve
<1>2. Operations[o].batch => "batch" \in Models[Resolve(o)].can
  BY RatesAssumption DEF Resolve
<1>3. Operations[o].batch => Models[Resolve(o)].half
  BY <1>1, <1>2, RatesAssumption
<1>4. Estimate(o) = EstimateOn(Resolve(o), o)
  BY DEF Estimate, EstimateOn
<1> QED
  BY <1>1, <1>3, <1>4

\* The worse of two ratios bounds the cost of every mix of tokens: on a model that
\* charges c and d where the known one charges a and b.
LEMMA WorseRatioBounds ==
  ASSUME NEW a \in Nat, NEW b \in Nat, NEW c \in Nat, NEW d \in Nat, NEW i \in Nat, NEW t \in Nat
  PROVE  /\ c * b >= d * a => (c * i + d * t) * a <= (a * i + b * t) * c
         /\ c * b <= d * a => (c * i + d * t) * b <= (a * i + b * t) * d
<1> DEFINE e == c * b
           f == d * a
<1>1. e \in Nat /\ f \in Nat
  OBVIOUS
<1>2. /\ (c * i + d * t) * a = (c * a) * i + f * t
      /\ (a * i + b * t) * c = (c * a) * i + e * t
      /\ (c * i + d * t) * b = e * i + (d * b) * t
      /\ (a * i + b * t) * d = f * i + (d * b) * t
  OBVIOUS
<1>3. (c * a) * i \in Nat /\ (d * b) * t \in Nat
  OBVIOUS
<1> HIDE DEF e, f
<1>4. ASSUME NEW x \in Nat, NEW y \in Nat, NEW k \in Nat, x <= y PROVE x * k <= y * k /\ x * k \in Nat /\ y * k \in Nat
  <2>1. y * k = x * k + (y - x) * k
    BY <1>4
  <2>2. x * k \in Nat /\ (y - x) * k \in Nat /\ y * k \in Nat
    BY <1>4
  <2> QED
    BY <2>1, <2>2
<1>5. e >= f => f * t <= e * t
  BY <1>1, <1>4
<1>6. e <= f => e * i <= f * i
  BY <1>1, <1>4
<1>7. f * t \in Nat /\ e * t \in Nat /\ e * i \in Nat /\ f * i \in Nat
  BY <1>1, <1>4
<1> QED
  BY <1>2, <1>3, <1>5, <1>6, <1>7 DEF e, f

\* The estimate made for a model is no less than what a call on it comes to.
LEMMA EstimateBounds ==
  ASSUME NEW o \in DOMAIN Operations, NEW m \in DOMAIN Models
  PROVE  /\ ~Operations[o].batch =>
               CostOf(Snapshot(m), o) * EstimateOn(m, o)[2] <= EstimateOn(m, o)[1]
         /\ \A w \in Models[m].wires \cap DOMAIN Prices :
               Operations[o].batch /\ Models[m].half =>
                   BatchPrice(w, o) * EstimateOn(m, o)[2] <= EstimateOn(m, o)[1]
<1> DEFINE k == Snapshot(Operations[o].incumbent)
           x == Snapshot(m)
           a == PriceOf(k).in
           b == PriceOf(k).out
           c == PriceOf(x).in
           d == PriceOf(x).out
           i == Operations[o].tokens.in
           t == Operations[o].tokens.out
           e == EstimateOn(m, o)
<1>1. a \in Nat /\ b \in Nat /\ c \in Nat /\ d \in Nat /\ i \in Nat /\ t \in Nat
  BY PricesAreEven, MeteringAssumption
<1>2. CostOf(k, o) = a * i + b * t /\ CostOf(x, o) = c * i + d * t
  BY DEF CostOf
<1>3. e = IF c * b >= d * a THEN <<Baseline(o) * c, a>> ELSE <<Baseline(o) * d, b>>
  BY DEF EstimateOn
<1>4. Baseline(o) = IF Operations[o].batch THEN BatchPrice(k, o) ELSE CostOf(k, o)
  BY DEF Baseline
<1>5. \/ e[1] = Baseline(o) * c /\ e[2] = a /\ CostOf(x, o) * a <= CostOf(k, o) * c /\ c \in Nat /\ a \in Nat
      \/ e[1] = Baseline(o) * d /\ e[2] = b /\ CostOf(x, o) * b <= CostOf(k, o) * d /\ d \in Nat /\ b \in Nat
  <2>1. CASE c * b >= d * a
    BY <1>1, <1>2, <1>3, <2>1, WorseRatioBounds
  <2>2. CASE ~(c * b >= d * a)
    <3>1. c * b \in Nat /\ d * a \in Nat
      BY <1>1
    <3>2. c * b <= d * a
      BY <2>2, <3>1
    <3> QED
      BY <1>1, <1>2, <1>3, <2>2, <3>2, WorseRatioBounds
  <2> QED
    BY <2>1, <2>2
<1> HIDE DEF k, x, a, b, c, d, i, t, e
<1>6. PICK num \in Nat, den \in Nat :
         e[1] = Baseline(o) * num /\ e[2] = den /\ CostOf(x, o) * den <= CostOf(k, o) * num
  BY <1>5
<1>7. ASSUME ~Operations[o].batch PROVE CostOf(x, o) * e[2] <= e[1]
  BY <1>4, <1>6, <1>7
<1>8. ASSUME NEW w \in Models[m].wires \cap DOMAIN Prices, Operations[o].batch, Models[m].half
      PROVE  BatchPrice(w, o) * e[2] <= e[1]
  <2>1. x \in Models[m].wires /\ x \in DOMAIN Prices
    BY SnapshotsArePriced DEF x
  <2>2. PriceOf(w) = PriceOf(x)
    BY <1>8, <2>1, RatesAssumption DEF PriceOf
  <2>3. CostOf(w, o) = CostOf(x, o)
    BY <2>2 DEF CostOf
  <2>4. BatchPrice(w, o) = CostOf(x, o) \div 2
    BY <1>8, <2>3 DEF BatchPrice
  <2>5. Operations[o].incumbent \in DOMAIN Models /\ Models[Operations[o].incumbent].half
    BY <1>8, MeteringAssumption, RatesAssumption
  <2>6. k \in Models[Operations[o].incumbent].wires
    BY <2>5, SnapshotsArePriced DEF k
  <2>7. Baseline(o) = CostOf(k, o) \div 2
    BY <1>4, <1>8, <2>5, <2>6 DEF BatchPrice
  <2>8. PICK g \in Nat, h \in Nat :
           /\ g = CostOf(x, o) \div 2 /\ h = CostOf(k, o) \div 2
           /\ CostOf(x, o) = 2 * g /\ CostOf(k, o) = 2 * h
    BY CostsAreEven
  <2>9. (2 * g) * den <= (2 * h) * num
    BY <1>6, <2>8
  <2>10. (2 * g) * den = 2 * (g * den) /\ (2 * h) * num = 2 * (h * num) /\ g * den \in Nat /\ h * num \in Nat
    OBVIOUS
  <2>11. g * den <= h * num
    BY <2>9, <2>10
  <2> QED
    BY <1>6, <2>4, <2>7, <2>8, <2>11
<1> QED
  BY <1>7, <1>8 DEF x, e

\* A step about one call leaves the others as they are.
LEMMA OneCallMoves ==
  ASSUME MeterIInv, NEW o \in DOMAIN Operations,
         DOMAIN paid' = DOMAIN paid, DOMAIN queue' = DOMAIN queue, DOMAIN usage' = DOMAIN usage,
         \A p \in DOMAIN Operations \ {o} :
             paid'[p] = paid[p] /\ queue'[p] = queue[p] /\ usage'[p] = usage[p],
         CallIsOne(o)', RecordIsMarked(o)', CallIsPriced(o)'
  PROVE  MeterIInv'
<1>1. ASSUME NEW p \in DOMAIN Operations \ {o} PROVE (CallIsOne(p) /\ RecordIsMarked(p) /\ CallIsPriced(p))'
  <2>1. paid'[p] = paid[p] /\ queue'[p] = queue[p] /\ usage'[p] = usage[p]
    BY <1>1
  <2>2. CallIsOne(p) /\ RecordIsMarked(p) /\ CallIsPriced(p)
    BY <1>1, Zenon DEF MeterIInv
  <2>3. CallIsOne(p)' /\ RecordIsMarked(p)'
    BY <2>1, <2>2 DEF CallIsOne, RecordIsMarked
  <2>4. CallIsPriced(p)'
    BY <2>1, <2>2 DEF CallIsPriced, SentTo
  <2> QED
    BY <2>3, <2>4
<1> QED
  BY <1>1 DEF MeterIInv

\* What a call was sent under is settled when it is sent.
LEMMA PricedStays ==
  ASSUME NEW o \in DOMAIN Operations, CallIsPriced(o),
         paid'[o].model = paid[o].model, paid'[o].served = paid[o].served,
         paid'[o].estimate = paid[o].estimate, paid'[o].held <=> paid[o].held
  PROVE  CallIsPriced(o)'
BY DEF CallIsPriced, SentTo

\* A call goes out to a model that may serve it, and nothing is recorded of it yet.
LEMMA SendingKeepsMeter ==
  ASSUME MeterIInv, NEW o \in DOMAIN Operations, Send(o)
  PROVE  MeterIInv'
<1>1. /\ paid[o].pc = "new" /\ ~Operations[o].batch /\ DOMAIN paid[o] = CallFields
      /\ CallIsOne(o) /\ RecordIsMarked(o) /\ queue' = queue /\ usage' = usage
  BY DEF Send, MeterIInv, CallIsOne
<1>2. queue[o] = <<>> /\ usage[o] = <<>> /\ ~paid[o].held /\ ~paid[o].settled
  BY <1>1 DEF RecordIsMarked
<1>3. CASE paid' = [paid EXCEPT ![o].pc = "refused"]
  <2>1. /\ DOMAIN paid' = DOMAIN paid /\ DOMAIN paid'[o] = CallFields
        /\ \A p \in DOMAIN Operations \ {o} : paid'[p] = paid[p]
        /\ paid'[o].pc = "refused" /\ paid'[o].held = paid[o].held
    BY <1>1, <1>3 DEF MeterIInv, CallFields
  <2>2. CallIsOne(o)'
    BY <1>1, <2>1 DEF CallIsOne
  <2>3. RecordIsMarked(o)' /\ CallIsPriced(o)'
    BY <1>1, <1>2, <2>1 DEF RecordIsMarked, CallIsPriced
  <2> QED
    BY <1>1, <2>1, <2>2, <2>3, OneCallMoves
<1>4. CASE paid' = [paid EXCEPT ![o].pc = "sent", ![o].model = Snapshot(Resolve(o)),
                                ![o].estimate = Estimate(o), ![o].held = conf.guard]
  <2>1. /\ DOMAIN paid' = DOMAIN paid /\ DOMAIN paid'[o] = CallFields
        /\ \A p \in DOMAIN Operations \ {o} : paid'[p] = paid[p]
        /\ paid'[o].pc = "sent" /\ paid'[o].settled = paid[o].settled
        /\ paid'[o].model = Snapshot(Resolve(o)) /\ paid'[o].estimate = Estimate(o)
    BY <1>1, <1>4 DEF MeterIInv, CallFields
  <2>2. CallIsOne(o)'
    BY <1>1, <2>1 DEF CallIsOne
  <2>3. RecordIsMarked(o)'
    BY <1>1, <1>2, <2>1 DEF RecordIsMarked
  <2>4. CallIsPriced(o)'
    BY <1>1, <2>1, ResolvedIsAble DEF CallIsPriced, SentTo
  <2> QED
    BY <1>1, <2>1, <2>2, <2>3, <2>4, OneCallMoves
<1> QED
  BY <1>3, <1>4 DEF Send

\* A call that moves on with its record unchanged: it fails, or is answered without a hold.
LEMMA AnsweringKeepsMeter ==
  ASSUME MeterIInv, NEW o \in DOMAIN Operations, AnswerHeld(o) \/ AnswerUnguarded(o)
  PROVE  MeterIInv'
<1>1. /\ CallIsOne(o) /\ RecordIsMarked(o) /\ CallIsPriced(o) /\ paid[o].pc = "sent" /\ DOMAIN paid[o] = CallFields
      /\ queue' = queue /\ usage' = usage
  BY DEF AnswerHeld, AnswerUnguarded, MeterIInv, CallIsOne
<1>2. PICK to \in {"failed", "answered"} :
         /\ paid' = [paid EXCEPT ![o].pc = to]
         /\ to = "failed" <=> paid[o].held
  BY DEF AnswerHeld, AnswerUnguarded
<1>3. /\ DOMAIN paid' = DOMAIN paid /\ DOMAIN paid'[o] = CallFields
      /\ \A p \in DOMAIN Operations \ {o} : paid'[p] = paid[p]
      /\ paid'[o].pc = to /\ paid'[o].held = paid[o].held /\ paid'[o].settled = paid[o].settled
      /\ paid'[o].marked = paid[o].marked /\ paid'[o].metered = paid[o].metered
      /\ paid'[o].model = paid[o].model /\ paid'[o].served = paid[o].served
      /\ paid'[o].estimate = paid[o].estimate
  BY <1>1, <1>2 DEF MeterIInv, CallFields
<1>4. ~Operations[o].batch
  BY <1>1 DEF CallIsOne
<1>5. CallIsOne(o)'
  BY <1>1, <1>2, <1>3, <1>4 DEF CallIsOne
<1>6. RecordIsMarked(o)'
  BY <1>1, <1>2, <1>3, <1>4 DEF RecordIsMarked
<1>7. CallIsPriced(o)'
  BY <1>1, <1>3, PricedStays
<1> QED
  BY <1>1, <1>3, <1>5, <1>6, <1>7, OneCallMoves

\* A sequence of numbers a number is appended to.
LEMMA OneMoreRecord ==
  ASSUME NEW s \in Seq(Int), NEW n \in Int
  PROVE  /\ Append(s, n) \in Seq(Int) /\ Len(Append(s, n)) = Len(s) + 1 /\ Len(s) \in Nat
         /\ s = <<>> => Append(s, n) = <<n>>
<1>1. Append(s, n) \in Seq(Int) /\ Len(Append(s, n)) = Len(s) + 1
  BY AppendProperties, Zenon
<1>2. Len(s) \in Nat
  BY LenProperties, Zenon
<1>3. Append(<<>>, n) = <<n>>
  OBVIOUS
<1> QED
  BY <1>1, <1>2, <1>3

\* Settling an answer records it once, at the price of its model, and marks it.
LEMMA SettlingKeepsMeter ==
  ASSUME MeterIInv, NEW o \in DOMAIN Operations, AnswerSettled(o)
  PROVE  MeterIInv'
<1>1. /\ CallIsOne(o) /\ RecordIsMarked(o) /\ CallIsPriced(o) /\ DOMAIN paid[o] = CallFields
      /\ paid[o].pc = "sent" /\ paid[o].held /\ queue' = queue
  BY DEF AnswerSettled, MeterIInv, CallIsOne
<1>2. ~Operations[o].batch /\ usage[o] = <<>> /\ queue[o] = <<>>
  BY <1>1 DEF CallIsOne, RecordIsMarked
<1>3. /\ DOMAIN paid' = DOMAIN paid /\ DOMAIN paid'[o] = CallFields
      /\ \A p \in DOMAIN Operations \ {o} : paid'[p] = paid[p]
      /\ paid'[o].pc = "answered" /\ paid'[o].held = paid[o].held
      /\ paid'[o].settled = TRUE /\ paid'[o].marked = TRUE
      /\ paid'[o].model = paid[o].model /\ paid'[o].served = paid[o].served
      /\ paid'[o].estimate = paid[o].estimate
  BY <1>1 DEF AnswerSettled, MeterIInv, CallFields
<1>4. /\ DOMAIN usage' = DOMAIN usage /\ \A p \in DOMAIN Operations \ {o} : usage'[p] = usage[p]
      /\ usage'[o] = Append(usage[o], CostOf(paid[o].model, o))
  BY DEF AnswerSettled, MeterIInv
<1>5. CostOf(paid[o].model, o) \in Int
  BY CostsAreEven
<1>6. usage'[o] = <<CostOf(paid[o].model, o)>> /\ usage'[o] \in Seq(Int)
  BY <1>1, <1>2, <1>4, <1>5, OneMoreRecord DEF CallIsOne
<1>7. CallIsOne(o)'
  BY <1>1, <1>2, <1>3, <1>6 DEF CallIsOne
<1>8. RecordIsMarked(o)'
  BY <1>1, <1>2, <1>3, <1>6 DEF RecordIsMarked
<1>9. CallIsPriced(o)'
  BY <1>1, <1>3, PricedStays
<1> QED
  BY <1>1, <1>3, <1>4, <1>7, <1>8, <1>9, OneCallMoves

\* A marked answer is not logged again, and an unmarked one had no record.
LEMMA LoggingKeepsMeter ==
  ASSUME MeterIInv, NEW o \in DOMAIN Operations, LogUsage(o)
  PROVE  MeterIInv'
<1>1. /\ CallIsOne(o) /\ RecordIsMarked(o) /\ CallIsPriced(o) /\ DOMAIN paid[o] = CallFields
      /\ paid[o].pc = "answered" /\ usage' = usage
  BY DEF LogUsage, MeterIInv, CallIsOne
<1>2. ~Operations[o].batch
  BY <1>1 DEF CallIsOne
<1>3. /\ DOMAIN paid' = DOMAIN paid /\ DOMAIN paid'[o] = CallFields
      /\ \A p \in DOMAIN Operations \ {o} : paid'[p] = paid[p]
      /\ paid'[o].pc = "logged" /\ paid'[o].held = paid[o].held
      /\ paid'[o].settled = paid[o].settled /\ paid'[o].marked = paid[o].marked
      /\ paid'[o].model = paid[o].model /\ paid'[o].served = paid[o].served
      /\ paid'[o].estimate = paid[o].estimate
  BY <1>1 DEF LogUsage, MeterIInv, CallFields
<1>4. DOMAIN queue' = DOMAIN queue /\ \A p \in DOMAIN Operations \ {o} : queue'[p] = queue[p]
  BY DEF LogUsage, MeterIInv
<1>5. CASE paid[o].marked
  <2>1. queue' = queue
    BY <1>5 DEF LogUsage
  <2>2. CallIsOne(o)'
    BY <1>1, <1>2, <1>3, <2>1 DEF CallIsOne
  <2>3. RecordIsMarked(o)'
    BY <1>1, <1>2, <1>3, <2>1 DEF RecordIsMarked
  <2>4. CallIsPriced(o)'
    BY <1>1, <1>3, PricedStays
  <2> QED
    BY <1>1, <1>3, <1>4, <2>2, <2>3, <2>4, OneCallMoves
<1>6. CASE ~paid[o].marked
  <2>1. ~paid[o].held /\ usage[o] = <<>> /\ queue[o] = <<>>
    BY <1>1, <1>2, <1>6 DEF RecordIsMarked
  <2>2. queue'[o] = Append(queue[o], CostOf(Snapshot(Resolve(o)), o))
    BY <1>6 DEF LogUsage, MeterIInv
  <2>3. CostOf(Snapshot(Resolve(o)), o) \in Int
    BY CostsAreEven
  <2>4. queue'[o] \in Seq(Int) /\ Len(queue'[o]) = 1
    BY <1>1, <2>1, <2>2, <2>3, OneMoreRecord DEF CallIsOne
  <2>5. CallIsOne(o)'
    BY <1>1, <1>2, <1>3, <2>4 DEF CallIsOne
  <2>6. RecordIsMarked(o)'
    BY <1>1, <1>2, <1>3, <2>1, <2>4 DEF RecordIsMarked
  <2>7. CallIsPriced(o)'
    BY <1>1, <1>3, PricedStays
  <2> QED
    BY <1>1, <1>3, <1>4, <2>5, <2>6, <2>7, OneCallMoves
<1> QED
  BY <1>5, <1>6

\* A batch goes out to a model that has batches, and nothing is recorded of it yet.
LEMMA SendingBatchKeepsMeter ==
  ASSUME MeterIInv, NEW o \in DOMAIN Operations, SendBatch(o)
  PROVE  MeterIInv'
<1>1. /\ CallIsOne(o) /\ RecordIsMarked(o) /\ DOMAIN paid[o] = CallFields
      /\ paid[o].pc = "new" /\ Operations[o].batch /\ queue' = queue /\ usage' = usage
  BY DEF SendBatch, MeterIInv, CallIsOne
<1>2. queue[o] = <<>> /\ usage[o] = <<>> /\ ~paid[o].settled
  BY <1>1 DEF RecordIsMarked
<1>3. PICK w \in Models[Resolve(o)].wires :
         paid' = [paid EXCEPT ![o].pc = "working", ![o].model = Snapshot(Resolve(o)),
                              ![o].estimate = Estimate(o), ![o].served = w, ![o].held = conf.guard]
  BY DEF SendBatch
<1>4. /\ DOMAIN paid' = DOMAIN paid /\ DOMAIN paid'[o] = CallFields
      /\ \A p \in DOMAIN Operations \ {o} : paid'[p] = paid[p]
      /\ paid'[o].pc = "working" /\ paid'[o].settled = paid[o].settled /\ paid'[o].served = w
      /\ paid'[o].model = Snapshot(Resolve(o)) /\ paid'[o].estimate = Estimate(o)
  BY <1>1, <1>3 DEF MeterIInv, CallFields
<1>5. CallIsOne(o)'
  BY <1>1, <1>4 DEF CallIsOne
<1>6. RecordIsMarked(o)'
  BY <1>1, <1>2, <1>4 DEF RecordIsMarked
<1>7. CallIsPriced(o)'
  BY <1>1, <1>4, ResolvedIsAble DEF CallIsPriced, SentTo
<1> QED
  BY <1>1, <1>4, <1>5, <1>6, <1>7, OneCallMoves

\* A batch that is settled already is not charged when its results are taken again.
LEMMA SettlingBatchKeepsMeter ==
  ASSUME MeterIInv, NEW o \in DOMAIN Operations, SettleBatch(o)
  PROVE  MeterIInv'
<1>1. /\ CallIsOne(o) /\ RecordIsMarked(o) /\ CallIsPriced(o) /\ DOMAIN paid[o] = CallFields
      /\ paid[o].pc = "working" /\ paid[o].held /\ queue' = queue
  BY DEF SettleBatch, MeterIInv, CallIsOne
<1>2. Operations[o].batch /\ queue[o] = <<>>
  BY <1>1 DEF CallIsOne, RecordIsMarked
<1>3. /\ DOMAIN paid' = DOMAIN paid /\ DOMAIN paid'[o] = CallFields
      /\ \A p \in DOMAIN Operations \ {o} : paid'[p] = paid[p]
      /\ paid'[o].pc = "handling" /\ paid'[o].held = paid[o].held
      /\ paid'[o].settled = TRUE /\ paid'[o].metered = TRUE
      /\ paid'[o].model = paid[o].model /\ paid'[o].served = paid[o].served
      /\ paid'[o].estimate = paid[o].estimate
  BY <1>1 DEF SettleBatch, MeterIInv, CallFields
<1>4. /\ DOMAIN usage' = DOMAIN usage /\ \A p \in DOMAIN Operations \ {o} : usage'[p] = usage[p]
      /\ paid[o].settled => usage'[o] = usage[o]
      /\ ~paid[o].settled => usage'[o] = Append(usage[o], BatchPrice(paid[o].served, o))
  BY DEF SettleBatch, MeterIInv
<1>5. BatchPrice(paid[o].served, o) \in Int
  BY CostsAreEven
<1>6. usage'[o] = <<BatchPrice(paid[o].served, o)>> /\ usage'[o] \in Seq(Int)
  BY <1>1, <1>2, <1>4, <1>5, OneMoreRecord DEF CallIsOne, RecordIsMarked
<1>7. CallIsOne(o)'
  BY <1>1, <1>2, <1>3, <1>6 DEF CallIsOne
<1>8. RecordIsMarked(o)'
  BY <1>1, <1>2, <1>3, <1>6 DEF RecordIsMarked, SettleBatch
<1>9. CallIsPriced(o)'
  BY <1>1, <1>3, PricedStays
<1> QED
  BY <1>1, <1>3, <1>4, <1>7, <1>8, <1>9, OneCallMoves

\* Results without a hold reach the handler unrecorded.
LEMMA TakingBatchKeepsMeter ==
  ASSUME MeterIInv, NEW o \in DOMAIN Operations, TakeBatch(o)
  PROVE  MeterIInv'
<1>1. /\ CallIsOne(o) /\ RecordIsMarked(o) /\ CallIsPriced(o) /\ DOMAIN paid[o] = CallFields
      /\ paid[o].pc = "working" /\ ~paid[o].held /\ queue' = queue /\ usage' = usage
  BY DEF TakeBatch, MeterIInv, CallIsOne
<1>2. Operations[o].batch
  BY <1>1 DEF CallIsOne
<1>3. /\ DOMAIN paid' = DOMAIN paid /\ DOMAIN paid'[o] = CallFields
      /\ \A p \in DOMAIN Operations \ {o} : paid'[p] = paid[p]
      /\ paid'[o].pc = "handling" /\ paid'[o].held = paid[o].held
  BY <1>1 DEF TakeBatch, MeterIInv, CallFields
<1>4. CallIsOne(o)'
  BY <1>1, <1>2, <1>3 DEF CallIsOne
<1>5. RecordIsMarked(o)' /\ CallIsPriced(o)'
  BY <1>1, <1>2, <1>3 DEF RecordIsMarked, CallIsPriced
<1> QED
  BY <1>1, <1>3, <1>4, <1>5, OneCallMoves

\* The handler of a metered batch logs nothing, however often it runs.
LEMMA HandlingKeepsMeter ==
  ASSUME MeterIInv, NEW o \in DOMAIN Operations, HandleBatch(o)
  PROVE  MeterIInv'
<1>1. /\ CallIsOne(o) /\ RecordIsMarked(o) /\ CallIsPriced(o) /\ DOMAIN paid[o] = CallFields
      /\ paid[o].pc = "handling" /\ usage' = usage /\ HandlerLogs(o)
  BY DEF HandleBatch, MeterIInv, CallIsOne
<1>2. Operations[o].batch
  BY <1>1 DEF CallIsOne
<1>3. PICK after \in {"done", "working"} : paid' = [paid EXCEPT ![o].pc = after]
  BY DEF HandleBatch
<1>4. /\ DOMAIN paid' = DOMAIN paid /\ DOMAIN paid'[o] = CallFields
      /\ \A p \in DOMAIN Operations \ {o} : paid'[p] = paid[p]
      /\ paid'[o].pc = after /\ paid'[o].held = paid[o].held
      /\ paid'[o].settled = paid[o].settled /\ paid'[o].metered = paid[o].metered
      /\ paid'[o].model = paid[o].model /\ paid'[o].served = paid[o].served
      /\ paid'[o].estimate = paid[o].estimate
  BY <1>1, <1>3 DEF MeterIInv, CallFields
<1>5. DOMAIN queue' = DOMAIN queue /\ \A p \in DOMAIN Operations \ {o} : queue'[p] = queue[p]
  BY <1>1 DEF HandlerLogs, MeterIInv
<1>6. queue'[o] \in Seq(Int) /\ (paid[o].held => queue'[o] = queue[o])
  <2>1. CASE paid[o].metered
    BY <1>1, <2>1 DEF HandlerLogs, CallIsOne
  <2>2. CASE ~paid[o].metered
    <3>1. ~paid[o].held
      BY <1>1, <2>2 DEF RecordIsMarked
    <3>2. queue'[o] = Append(queue[o], BatchPrice(Snapshot(Resolve(o)), o))
      BY <1>1, <2>2 DEF HandlerLogs, MeterIInv
    <3>3. BatchPrice(Snapshot(Resolve(o)), o) \in Int
      BY CostsAreEven
    <3> QED
      BY <1>1, <3>1, <3>2, <3>3, OneMoreRecord DEF CallIsOne
  <2> QED
    BY <2>1, <2>2
<1>7. CallIsOne(o)'
  BY <1>1, <1>2, <1>3, <1>4, <1>6 DEF CallIsOne
<1>8. RecordIsMarked(o)'
  BY <1>1, <1>2, <1>3, <1>4, <1>6 DEF RecordIsMarked
<1>9. CallIsPriced(o)'
  BY <1>1, <1>4, PricedStays
<1> QED
  BY <1>1, <1>4, <1>5, <1>7, <1>8, <1>9, OneCallMoves

\* A task that runs moves one record, or loses it.
LEMMA RecordingKeepsMeter ==
  ASSUME MeterIInv, NEW o \in DOMAIN Operations, RecordTask(o)
  PROVE  MeterIInv'
<1>1. /\ CallIsOne(o) /\ RecordIsMarked(o) /\ CallIsPriced(o)
      /\ queue[o] # <<>> /\ paid' = paid
      /\ queue[o] \in Seq(Int) /\ usage[o] \in Seq(Int)
  BY DEF RecordTask, MeterIInv, CallIsOne
<1>2. ~paid[o].held
  BY <1>1 DEF RecordIsMarked
<1>3. /\ DOMAIN queue' = DOMAIN queue /\ \A p \in DOMAIN Operations \ {o} : queue'[p] = queue[p]
      /\ DOMAIN usage' = DOMAIN usage /\ \A p \in DOMAIN Operations \ {o} : usage'[p] = usage[p]
      /\ queue'[o] = Tail(queue[o])
      /\ usage'[o] = usage[o] \/ usage'[o] = Append(usage[o], Head(queue[o]))
  BY DEF RecordTask, MeterIInv
<1>4. /\ Head(queue[o]) \in Int /\ Tail(queue[o]) \in Seq(Int)
      /\ Len(Tail(queue[o])) = Len(queue[o]) - 1 /\ Len(queue[o]) \in Nat
  BY <1>1, HeadTailProperties, LenProperties, EmptySeq
<1>5. usage'[o] \in Seq(Int) /\ Len(usage'[o]) <= Len(usage[o]) + 1 /\ Len(usage[o]) \in Nat /\ Len(usage'[o]) \in Nat
  <2>1. Len(usage[o]) \in Nat
    BY <1>1, LenProperties
  <2>2. CASE usage'[o] = usage[o]
    BY <1>1, <2>1, <2>2
  <2>3. CASE usage'[o] = Append(usage[o], Head(queue[o]))
    BY <1>1, <1>4, <2>1, <2>3, OneMoreRecord
  <2> QED
    BY <1>3, <2>2, <2>3
<1>6. CallIsOne(o)'
  BY <1>1, <1>3, <1>4, <1>5 DEF CallIsOne
<1>7. RecordIsMarked(o)'
  <2>1. ~Operations[o].batch => Len(usage'[o]) + Len(queue'[o]) <= 1
    <3>1. ~Operations[o].batch => Len(usage[o]) + Len(queue[o]) <= 1
      BY <1>1, <1>2 DEF RecordIsMarked
    <3> DEFINE u == Len(usage[o])
               v == Len(usage'[o])
               q == Len(queue[o])
               r == Len(queue'[o])
    <3>2. u \in Nat /\ v \in Nat /\ v <= u + 1 /\ q \in Nat /\ r = q - 1
      BY <1>3, <1>4, <1>5, Zenon
    <3>3. ~Operations[o].batch => u + q <= 1
      BY <3>1
    <3> HIDE DEF u, v, q, r
    <3>4. ~Operations[o].batch => v + r <= 1
      BY <3>2, <3>3
    <3> QED
      BY <3>4 DEF v, r
  <2>2. paid[o].pc # "new" /\ (Operations[o].batch \/ paid[o].pc \notin {"sent", "answered"})
    BY <1>1, <1>2 DEF RecordIsMarked
  <2> QED
    BY <1>1, <1>2, <2>1, <2>2 DEF RecordIsMarked
<1>8. CallIsPriced(o)'
  BY <1>1, PricedStays
<1> QED
  BY <1>1, <1>3, <1>6, <1>7, <1>8, OneCallMoves

\* A deployment forgets tasks and the calls it waited for, and no record.
LEMMA DeployingKeepsMeter ==
  ASSUME MeterIInv, NEW g, NEW overrides, Deploy(g, overrides)
  PROVE  MeterIInv'
<1>1. /\ DOMAIN paid' = DOMAIN Operations /\ DOMAIN queue' = DOMAIN Operations
      /\ usage' = usage /\ DOMAIN usage = DOMAIN Operations
      /\ \A o \in DOMAIN Operations : queue'[o] = <<>>
  BY DEF Deploy, MeterIInv
<1>2. ASSUME NEW o \in DOMAIN Operations
      PROVE  (CallIsOne(o) /\ RecordIsMarked(o) /\ CallIsPriced(o))'
  <2>1. CallIsOne(o) /\ RecordIsMarked(o) /\ CallIsPriced(o)
    BY Zenon DEF MeterIInv
  <2>2. paid'[o] = CASE paid[o].pc \in {"sent", "answered"} -> [paid[o] EXCEPT !.pc = "gone"]
                     [] paid[o].pc = "handling"             -> [paid[o] EXCEPT !.pc = "working"]
                     [] OTHER                               -> paid[o]
    BY DEF Deploy
  <2>3. \/ paid[o].pc \in {"sent", "answered"} /\ paid'[o] = [paid[o] EXCEPT !.pc = "gone"]
        \/ paid[o].pc = "handling" /\ paid'[o] = [paid[o] EXCEPT !.pc = "working"]
        \/ paid[o].pc \notin {"sent", "answered", "handling"} /\ paid'[o] = paid[o]
    BY <2>2
  <2>4. /\ DOMAIN paid'[o] = CallFields
        /\ \/ paid[o].pc \in {"sent", "answered"} /\ paid'[o].pc = "gone"
           \/ paid[o].pc = "handling" /\ paid'[o].pc = "working"
           \/ paid[o].pc \notin {"sent", "answered", "handling"} /\ paid'[o].pc = paid[o].pc
        /\ paid'[o].held = paid[o].held /\ paid'[o].settled = paid[o].settled
        /\ paid'[o].marked = paid[o].marked /\ paid'[o].metered = paid[o].metered
        /\ paid'[o].model = paid[o].model /\ paid'[o].served = paid[o].served
        /\ paid'[o].estimate = paid[o].estimate
    BY <2>1, <2>3 DEF CallIsOne, CallFields
  <2>5. <<>> \in Seq(Int) /\ Len(<<>>) = 0 /\ Len(usage[o]) \in Nat /\ Len(queue[o]) \in Nat
    BY <2>1, EmptySeq, LenProperties DEF CallIsOne
  <2>6. CallIsOne(o)'
    BY <1>1, <2>1, <2>4, <2>5 DEF CallIsOne
  <2>7. RecordIsMarked(o)'
    BY <1>1, <2>1, <2>4, <2>5 DEF RecordIsMarked, CallIsOne
  <2>8. CallIsPriced(o)'
    BY <2>1, <2>4, PricedStays
  <2> QED
    BY <2>6, <2>7, <2>8
<1> QED
  BY <1>1, <1>2 DEF MeterIInv

\* What the invariant says of a call's record: each call is metered once, as the model
\* that served it bills and as was foreseen.
LEMMA RecordsAreRight ==
  ASSUME MeterIInv
  PROVE  MeteredAsServed
<1> SUFFICES ASSUME NEW o \in DOMAIN Operations
             PROVE  /\ paid[o].held =>
                         /\ Len(usage[o]) + Len(queue[o]) <= 1
                         /\ paid[o].pc \in {"answered", "logged", "handling", "done"} => Len(usage[o]) = 1
                    /\ ~paid[o].held /\ ~Operations[o].batch => Len(usage[o]) + Len(queue[o]) <= 1
                    /\ \A i \in DOMAIN usage[o] : paid[o].held =>
                         /\ IF Operations[o].batch
                            THEN \E m \in DOMAIN Models :
                                   /\ paid[o].served \in Models[m].wires
                                   /\ usage[o][i] = CostOf(paid[o].served, o) \div (IF Models[m].half THEN 2 ELSE 1)
                            ELSE usage[o][i] = CostOf(paid[o].model, o)
                         /\ usage[o][i] * paid[o].estimate[2] <= paid[o].estimate[1]
  BY DEF MeteredAsServed, MeteredOnce, ChargedAsServed, EstimatedEnough
<1>1. CallIsOne(o) /\ RecordIsMarked(o) /\ CallIsPriced(o)
  BY Zenon DEF MeterIInv
<1>2. ~paid[o].held /\ ~Operations[o].batch => Len(usage[o]) + Len(queue[o]) <= 1
  BY <1>1 DEF RecordIsMarked
<1>3. CASE ~paid[o].held
  BY <1>2, <1>3
<1>4. CASE paid[o].held
  <2> DEFINE n == IF Operations[o].batch THEN BatchPrice(paid[o].served, o) ELSE CostOf(paid[o].model, o)
  <2>1. queue[o] = <<>> /\ (usage[o] = <<>> \/ (paid[o].settled /\ usage[o] = <<n>>))
    BY <1>1, <1>4 DEF RecordIsMarked
  <2>2. Len(<<>>) = 0 /\ Len(<<n>>) = 1
    OBVIOUS
  <2>3. /\ Len(usage[o]) + Len(queue[o]) <= 1
        /\ paid[o].pc \in {"answered", "logged", "handling", "done"} => Len(usage[o]) = 1
    <3> HIDE DEF n
    <3>1. Len(usage[o]) + Len(queue[o]) <= 1
      <4> DEFINE q == Len(queue[o])
                 u == Len(usage[o])
      <4>1. q = 0 /\ (u = 0 \/ u = 1)
        BY <2>1, <2>2
      <4> HIDE DEF q, u
      <4>2. u + q <= 1
        BY <4>1
      <4> QED
        BY <4>2 DEF q, u
    <3>2. paid[o].pc \in {"answered", "logged", "handling", "done"} => paid[o].settled
      BY <1>1, <1>4 DEF RecordIsMarked
    <3>3. paid[o].settled => usage[o] = <<n>>
      BY <1>1, <1>4 DEF RecordIsMarked, n
    <3> QED
      BY <2>2, <3>1, <3>2, <3>3
  <2>4. ASSUME NEW i \in DOMAIN usage[o]
        PROVE  usage[o][i] = n /\ paid[o].settled
    <3> HIDE DEF n
    <3>1. CASE usage[o] = <<>>
      BY <3>1
    <3>2. CASE paid[o].settled /\ usage[o] = <<n>>
      BY <3>2
    <3> QED
      BY <2>1, <3>1, <3>2
  <2>5. PICK m \in DOMAIN Models : SentTo(m, o)
    BY <1>1, <1>4 DEF CallIsPriced
  <2>6. ASSUME NEW i \in DOMAIN usage[o]
        PROVE  /\ Operations[o].batch =>
                     /\ paid[o].served \in Models[m].wires
                     /\ usage[o][i] = CostOf(paid[o].served, o) \div (IF Models[m].half THEN 2 ELSE 1)
               /\ ~Operations[o].batch => usage[o][i] = CostOf(paid[o].model, o)
    BY <2>4, <2>5 DEF SentTo, BatchPrice
  <2>7. ASSUME NEW i \in DOMAIN usage[o]
        PROVE  usage[o][i] * paid[o].estimate[2] <= paid[o].estimate[1]
    <3>1. /\ paid[o].estimate = EstimateOn(m, o) /\ usage[o][i] = n
          /\ ~Operations[o].batch => paid[o].model = Snapshot(m)
          /\ Operations[o].batch => Models[m].half /\ paid[o].served \in Models[m].wires \cap DOMAIN Prices
      BY <1>1, <1>4, <2>4, <2>5 DEF SentTo, RecordIsMarked
    <3>2. CASE Operations[o].batch
      <4>1. n = BatchPrice(paid[o].served, o)
        BY <3>2
      <4> HIDE DEF n
      <4> QED
        BY <3>1, <3>2, <4>1, EstimateBounds
    <3>3. CASE ~Operations[o].batch
      <4>1. n = CostOf(Snapshot(m), o)
        BY <3>1, <3>3
      <4> HIDE DEF n
      <4> QED
        BY <3>1, <3>3, <4>1, EstimateBounds
    <3> QED
      BY <3>2, <3>3
  <2> QED
    BY <1>2, <1>4, <2>3, <2>6, <2>7
<1> QED
  BY <1>3, <1>4

\* "Exactly once", at what the model that served bills, and no more than the ceiling was
\* asked for: through every interleaving of the boundary, the call site, the batch
\* handler, their record tasks and deployments with other settings.
THEOREM CallsAreMeteredAsServed == MeterSpec => []MeteredAsServed
<1>1. InitMetering => MeterIInv
  <2> SUFFICES ASSUME InitMetering PROVE MeterIInv
    OBVIOUS
  <2>1. /\ DOMAIN paid = DOMAIN Operations /\ DOMAIN queue = DOMAIN Operations
        /\ DOMAIN usage = DOMAIN Operations
        /\ \A o \in DOMAIN Operations : paid[o] = NoCall /\ queue[o] = <<>> /\ usage[o] = <<>>
    BY DEF InitMetering
  <2>2. ASSUME NEW o \in DOMAIN Operations
        PROVE  /\ DOMAIN paid[o] = CallFields /\ paid[o].pc = "new"
               /\ ~paid[o].held /\ ~paid[o].settled
    <3>1. /\ DOMAIN NoCall = CallFields /\ NoCall.pc = "new"
          /\ NoCall.held = FALSE /\ NoCall.settled = FALSE
      BY DEF NoCall, CallFields
    <3> QED
      BY <2>1, <3>1, Zenon
  <2>3. <<>> \in Seq(Int) /\ Len(<<>>) = 0
    BY EmptySeq
  <2>4. ASSUME NEW o \in DOMAIN Operations
        PROVE  CallIsOne(o) /\ RecordIsMarked(o) /\ CallIsPriced(o)
    <3>1. paid[o].pc = "new" /\ DOMAIN paid[o] = CallFields /\ queue[o] = <<>> /\ usage[o] = <<>>
          /\ ~paid[o].held /\ ~paid[o].settled
      BY <2>1, <2>2, Zenon
    <3>2. CallIsOne(o)
      BY <2>3, <3>1 DEF CallIsOne
    <3>3. RecordIsMarked(o) /\ CallIsPriced(o)
      BY <2>3, <3>1 DEF RecordIsMarked, CallIsPriced
    <3> QED
      BY <3>2, <3>3
  <2> QED
    BY <2>1, <2>4 DEF MeterIInv
<1>2. MeterIInv /\ [MeterNext]_meterVars => MeterIInv'
  <2> SUFFICES ASSUME MeterIInv, [MeterNext]_meterVars PROVE MeterIInv'
    OBVIOUS
  <2>1. CASE UNCHANGED meterVars
    <3>1. paid' = paid /\ queue' = queue /\ usage' = usage
      BY <2>1 DEF meterVars
    <3>2. ASSUME NEW o \in DOMAIN Operations
          PROVE  (CallIsOne(o) /\ RecordIsMarked(o) /\ CallIsPriced(o))'
      <4>1. CallIsOne(o) /\ RecordIsMarked(o) /\ CallIsPriced(o)
        BY Zenon DEF MeterIInv
      <4> QED
        BY <3>1, <4>1 DEF CallIsOne, RecordIsMarked, CallIsPriced, SentTo
    <3> QED
      BY <3>1, <3>2 DEF MeterIInv
  <2>2. CASE \E o \in DOMAIN Operations :
               \/ Send(o) \/ AnswerHeld(o) \/ AnswerSettled(o) \/ AnswerUnguarded(o) \/ LogUsage(o)
               \/ SendBatch(o) \/ SettleBatch(o) \/ TakeBatch(o) \/ HandleBatch(o)
               \/ RecordTask(o)
    BY <2>2, SendingKeepsMeter, AnsweringKeepsMeter, SettlingKeepsMeter, LoggingKeepsMeter,
       SendingBatchKeepsMeter, SettlingBatchKeepsMeter, TakingBatchKeepsMeter, HandlingKeepsMeter,
       RecordingKeepsMeter, Zenon
  <2>3. CASE \E g \in BOOLEAN, overrides \in Settings : Deploy(g, overrides)
    BY <2>3, DeployingKeepsMeter, Zenon
  <2> QED
    BY <2>1, <2>2, <2>3 DEF MeterNext
<1>3. MeterIInv => MeteredAsServed
  BY RecordsAreRight
<1> QED
  BY <1>1, <1>2, <1>3, PTL DEF MeterSpec

-----------------------------------------------------------------------------
(* Funding edges.                                                           *)

FundRow ==
    [of : Organisations, period : {f.period : f \in Filings},
     edge : [ein : STRING, name : Seq(STRING), amount : Int],
     verdict : {"agrees", "review", "ein_absent"}, irs : Seq(STRING),
     decision : {"none", "confirmed", "rejected"}, seen : {<<>>} \cup (Seq(STRING) \X Seq(STRING))]

\* What stands behind a row that is published: a name the IRS has for the EIN, in an
\* index that is still on disk, or the very names a person looked at.
RowStands(row) ==
    /\ row.verdict = "agrees" => \E n \in OfficialNames(row.edge.ein) : NamesAgree(row.edge.name, n)
    /\ row.decision = "confirmed" => row.seen = <<row.edge.name, row.irs>>

FundIInv ==
    /\ edges \in Seq(FundRow)
    /\ cached \subseteq DOMAIN Official
    /\ \A i \in DOMAIN edges : RowStands(edges[i])

\* What lies inside a name has no words but the name's.
LEMMA InsideHasItsWords ==
  ASSUME NEW short \in Seq(STRING), NEW long \in Seq(STRING), Inside(short, long)
  PROVE  ToSet(short) \subseteq ToSet(long)
<1>1. Len(short) \in Nat /\ Len(long) \in Nat /\ DOMAIN short = 1..Len(short) /\ DOMAIN long = 1..Len(long)
  BY LenProperties
<1>2. PICK i \in 0..Len(long) - Len(short) : short = SubSeq(long, i + 1, i + Len(short))
  BY DEF Inside
<1>3. ASSUME NEW j \in DOMAIN short
      PROVE  \E k \in DOMAIN long : short[j] = long[k]
  <2>1. i \in Nat /\ i + Len(short) <= Len(long) /\ j \in 1..Len(short)
    BY <1>1, <1>2, <1>3
  <2>2. i + j \in 1..Len(long)
    BY <1>1, <2>1
  <2>3. SubSeq(long, i + 1, i + Len(short))[j] = long[i + j]
    <3> DEFINE a == i + 1
               b == i + Len(short)
    <3>1. a \in 1..Len(long) + 1 /\ b \in a - 1..Len(long) /\ a + j - 1 = i + j
          /\ j \in 1..b - a + 1
      BY <1>1, <2>1
    <3> HIDE DEF a, b
    <3>2. SubSeq(long, a, b)[j] = long[a + j - 1]
      BY <3>1, SubSeqProperties
    <3> QED
      BY <3>1, <3>2 DEF a, b
  <2> QED
    BY <1>1, <1>2, <2>2, <2>3
<1>4. ASSUME NEW x \in ToSet(short) PROVE x \in ToSet(long)
  <2>1. PICK j \in DOMAIN short : x = short[j]
    BY DEF ToSet
  <2>2. PICK k \in DOMAIN long : short[j] = long[k]
    BY <1>3
  <2> QED
    BY <2>1, <2>2 DEF ToSet
<1> QED
  BY <1>4

\* The names the IRS has are names, and more of them once another index is on disk.
LEMMA OfficialNamesAre ==
  ASSUME NEW ein
  PROVE  /\ cached \subseteq DOMAIN Official => OfficialNames(ein) \subseteq Seq(STRING)
         /\ cached \subseteq cached' => OfficialNames(ein) \subseteq OfficialNames(ein)'
<1>1. cached \subseteq DOMAIN Official => OfficialNames(ein) \subseteq Seq(STRING)
  BY FundingAssumption DEF OfficialNames
<1>2. cached \subseteq cached' => OfficialNames(ein) \subseteq OfficialNames(ein)'
  BY DEF OfficialNames
<1> QED
  BY <1>1, <1>2

\* The verdict on a line is one of three, and "agrees" only where a name does.
LEMMA VerdictIs ==
  ASSUME NEW e, NEW names \in SUBSET Seq(STRING)
  PROVE  /\ Verdict(e, names).verdict \in {"agrees", "review", "ein_absent"}
         /\ Verdict(e, names).irs \in Seq(STRING)
         /\ Verdict(e, names).verdict = "agrees" => \E n \in names : NamesAgree(e.name, n)
<1>1. CASE e.ein = ""
  BY <1>1, EmptySeq DEF Verdict
<1>2. CASE e.ein # "" /\ names = {}
  BY <1>2, EmptySeq DEF Verdict
<1>3. CASE e.ein # "" /\ names # {} /\ \E n \in names : NamesAgree(e.name, n)
  <2>1. Verdict(e, names) = [verdict |-> "agrees", irs |-> CHOOSE n \in names : NamesAgree(e.name, n)]
    BY <1>3 DEF Verdict
  <2>2. (CHOOSE n \in names : NamesAgree(e.name, n)) \in names
    BY <1>3, Zenon
  <2>3. PICK n : n = CHOOSE m \in names : NamesAgree(e.name, m)
    OBVIOUS
  <2>4. Verdict(e, names) = [verdict |-> "agrees", irs |-> n] /\ n \in names
    BY <2>1, <2>2, <2>3, Zenon
  <2>5. n \in Seq(STRING)
    BY <2>4
  <2>6. Verdict(e, names).verdict = "agrees" /\ Verdict(e, names).irs = n
    BY <2>4
  <2> QED
    BY <1>3, <2>5, <2>6
<1>4. CASE e.ein # "" /\ names # {} /\ ~\E n \in names : NamesAgree(e.name, n)
  <2>1. Verdict(e, names) = [verdict |-> "review", irs |-> CHOOSE n \in names : TRUE]
    BY <1>4 DEF Verdict
  <2>2. (CHOOSE n \in names : TRUE) \in names
    BY <1>4, Zenon
  <2> QED
    BY <2>1, <2>2
<1> QED
  BY <1>1, <1>2, <1>3, <1>4

\* A new row stands.
LEMMA NewRowStands ==
  ASSUME FundIInv, NEW f \in Filings, NEW i \in DOMAIN f.edges
  PROVE  NewRow(f, i) \in FundRow /\ RowStands(NewRow(f, i))
<1> DEFINE e == f.edges[i]
           names == OfficialNames(e.ein)
           v == Verdict(e, names)
<1>1. e \in [ein : STRING, name : Seq(STRING), amount : Int]
  <2>1. f.edges \in Seq([ein : STRING, name : Seq(STRING), amount : Int])
    BY FundingAssumption
  <2> QED
    BY <2>1, ElementOfSeq, LenProperties
<1>2. names \in SUBSET Seq(STRING)
  BY OfficialNamesAre DEF FundIInv
<1>3. /\ v.verdict \in {"agrees", "review", "ein_absent"} /\ v.irs \in Seq(STRING)
      /\ v.verdict = "agrees" => \E n \in names : NamesAgree(e.name, n)
  <2> HIDE DEF e, names
  <2> QED
    BY <1>2, VerdictIs
<1>4. NewRow(f, i) = [of |-> f.of, period |-> f.period, edge |-> e, verdict |-> v.verdict,
                      irs |-> v.irs, decision |-> "none", seen |-> <<>>]
  BY Zenon DEF NewRow
<1>5. f.of \in Organisations /\ f.period \in {g.period : g \in Filings}
  BY DEF Organisations
<1> HIDE DEF e, names, v
<1>6. NewRow(f, i) \in FundRow
  BY <1>1, <1>3, <1>4, <1>5 DEF FundRow
<1>7. RowStands(NewRow(f, i))
  BY <1>3, <1>4 DEF RowStands, names
<1> QED
  BY <1>6, <1>7

\* Rows are appended, and what stands behind the others is left alone.
LEMMA InsertingKeepsFunding ==
  ASSUME FundIInv, Persist
  PROVE  FundIInv'
<1>1. cached' = cached
  BY DEF Persist
<1>2. PICK f \in Filings : \E i \in DOMAIN f.edges : InsertEdge(NewRow(f, i))
  BY Zenon DEF Persist
<1>3. PICK row \in FundRow : InsertEdge(row) /\ RowStands(row)
  BY <1>2, NewRowStands, Zenon
<1>4. CASE edges' = edges
  BY <1>1, <1>4 DEF FundIInv, RowStands, OfficialNames
<1>5. CASE edges' = Append(edges, row)
  <2>1. edges \in Seq(FundRow)
    BY DEF FundIInv
  <2>2. /\ edges' \in Seq(FundRow) /\ Len(edges') = Len(edges) + 1
        /\ \A j \in 1..Len(edges) : edges'[j] = edges[j]
        /\ edges'[Len(edges) + 1] = row
    BY <1>5, <2>1, AppendProperties
  <2>3. DOMAIN edges = 1..Len(edges) /\ DOMAIN edges' = 1..Len(edges') /\ Len(edges) \in Nat
    BY <2>1, <2>2, LenProperties
  <2>4. ASSUME NEW j \in DOMAIN edges' PROVE RowStands(edges'[j])
    <3>1. CASE j \in DOMAIN edges
      BY <2>2, <2>3, <3>1 DEF FundIInv
    <3>2. CASE j = Len(edges) + 1
      BY <1>3, <2>2, <3>2
    <3> QED
      BY <2>2, <2>3, <3>1, <3>2
  <2>5. ASSUME NEW j \in DOMAIN edges' PROVE RowStands(edges[j])' 
    BY <1>1, <2>4 DEF RowStands, OfficialNames
  <2> QED
    BY <1>1, <2>2, <2>5 DEF FundIInv
<1> QED
  BY <1>3, <1>4, <1>5 DEF InsertEdge

\* A decision is kept with the names it was made on.
LEMMA DecidingKeepsFunding ==
  ASSUME FundIInv, NEW i \in DOMAIN edges, NEW decision \in {"confirmed", "rejected"},
         DecideEdge(i, decision)
  PROVE  FundIInv'
<1>1. /\ cached' = cached /\ edges \in Seq(FundRow) /\ i \in 1..Len(edges) /\ DOMAIN edges = 1..Len(edges)
      /\ edges[i] \in FundRow
  BY LenProperties, ElementOfSeq DEF DecideEdge, FundIInv
<1>2. PICK row : row = [edges[i] EXCEPT !.decision = decision,
                                        !.seen = <<edges[i].edge.name, edges[i].irs>>]
  OBVIOUS
<1>3. /\ row \in FundRow /\ row.edge = edges[i].edge /\ row.irs = edges[i].irs
      /\ row.verdict = edges[i].verdict /\ row.seen = <<row.edge.name, row.irs>>
  BY <1>1, <1>2 DEF FundRow
<1>4. edges' = [edges EXCEPT ![i] = row]
  BY <1>1, <1>2 DEF DecideEdge
<1>5. /\ edges' \in Seq(FundRow) /\ Len(edges') = Len(edges)
      /\ \A j \in 1..Len(edges) : edges'[j] = IF j = i THEN row ELSE edges[j]
  BY <1>1, <1>3, <1>4, ExceptSeq
<1>6. DOMAIN edges' = DOMAIN edges
  BY <1>1, <1>5, LenProperties
<1>7. ASSUME NEW j \in DOMAIN edges' PROVE RowStands(edges'[j])
  <2>1. RowStands(edges[i]) /\ RowStands(edges[j])
    BY <1>6, <1>7 DEF FundIInv
  <2>2. RowStands(row)
    BY <1>3, <2>1 DEF RowStands
  <2> QED
    BY <1>1, <1>5, <1>6, <2>1, <2>2
<1>8. ASSUME NEW j \in DOMAIN edges' PROVE RowStands(edges[j])'
  BY <1>1, <1>7 DEF RowStands, OfficialNames
<1> QED
  BY <1>1, <1>5, <1>8 DEF FundIInv

\* No later filing, index, interrupted run or decision takes away what stands behind an
\* edge that is published.
THEOREM PublishedEdgesAreVouched == FundSpec => []PublishedIsVouched
<1>1. InitFunding => FundIInv
  BY EmptySeq DEF InitFunding, FundIInv
<1>2. FundIInv /\ [FundNext]_fundVars => FundIInv'
  <2> SUFFICES ASSUME FundIInv, [FundNext]_fundVars PROVE FundIInv'
    OBVIOUS
  <2>1. CASE UNCHANGED fundVars
    BY <2>1 DEF fundVars, FundIInv, RowStands, OfficialNames
  <2>2. CASE \E year \in DOMAIN Official : StartIngest(year)
    <3>1. edges' = edges /\ cached \subseteq cached' /\ cached' \subseteq DOMAIN Official
      BY <2>2 DEF StartIngest, FundIInv
    <3>2. ASSUME NEW i \in DOMAIN edges PROVE RowStands(edges[i])'
      <4>1. RowStands(edges[i]) /\ edges'[i] = edges[i]
        BY <3>1 DEF FundIInv
      <4>2. OfficialNames(edges[i].edge.ein) \subseteq OfficialNames(edges[i].edge.ein)'
        BY <3>1 DEF OfficialNames
      <4> QED
        BY <4>1, <4>2 DEF RowStands
    <3> QED
      BY <3>1, <3>2 DEF FundIInv
  <2>3. CASE Persist
    BY <2>3, InsertingKeepsFunding
  <2>4. CASE IngestEnds
    BY <2>4 DEF IngestEnds, FundIInv, RowStands, OfficialNames
  <2>5. CASE \E i \in DOMAIN edges, decision \in {"confirmed", "rejected"} : DecideEdge(i, decision)
    BY <2>5, DecidingKeepsFunding
  <2> QED
    BY <2>1, <2>2, <2>3, <2>4, <2>5 DEF FundNext
<1>3. FundIInv => PublishedIsVouched
  <2> SUFFICES ASSUME FundIInv, NEW i \in DOMAIN edges,
                      edges[i].verdict = "agrees" \/ edges[i].decision = "confirmed"
               PROVE  \/ \E n \in OfficialNames(edges[i].edge.ein) :
                           \/ ToSet(edges[i].edge.name) \subseteq ToSet(n)
                           \/ ToSet(n) \subseteq ToSet(edges[i].edge.name)
                           \/ {<<edges[i].edge.name, n>>, <<n, edges[i].edge.name>>} \cap Similar # {}
                      \/ edges[i].seen = <<edges[i].edge.name, edges[i].irs>>
    BY DEF PublishedIsVouched
  <2>1. RowStands(edges[i]) /\ edges[i].edge.name \in Seq(STRING)
    <3>1. edges[i] \in FundRow
      BY LenProperties, ElementOfSeq DEF FundIInv
    <3> QED
      BY <3>1 DEF FundIInv, FundRow
  <2>2. CASE edges[i].decision = "confirmed"
    BY <2>1, <2>2 DEF RowStands
  <2>3. CASE edges[i].verdict = "agrees"
    <3>1. PICK n \in OfficialNames(edges[i].edge.ein) : NamesAgree(edges[i].edge.name, n)
      BY <2>1, <2>3 DEF RowStands
    <3>2. n \in Seq(STRING)
      BY OfficialNamesAre DEF FundIInv
    <3> QED
      BY <2>1, <3>1, <3>2, InsideHasItsWords DEF NamesAgree
  <2> QED
    BY <2>2, <2>3
<1> QED
  BY <1>1, <1>2, <1>3, PTL DEF FundSpec

-----------------------------------------------------------------------------
(* Entity links: the linker's answer.                                       *)

LinkIInv ==
    /\ linkPc \in {"idle", "loaded", "done", "unanswered"}
    /\ articles \in Seq([url : Urls, text : Texts])
    /\ tables \in Tables
    /\ LinksAreFaithful

\* A text names an entity with a name that one row claims, or names one that shares its
\* surname.
NamedBy(t, text, id) ==
    \E o \in text, named \in Ids :
        /\ Claims(t, o.name) = {named}
        /\ named = id \/ (SurnameOf[named] = SurnameOf[id] /\ SurnameOf[id] # "")

\* What an article's narrowed roster has, its text names.
LEMMA NarrowIsNamed ==
  ASSUME NEW t \in Tables, NEW text \in Texts, NEW id \in Narrow(LinkText[t][text])
  PROVE  NamedBy(t, text, id)
<1>1. PICK named \in LinkText[t][text] :
         named = id \/ (SurnameOf[named] = SurnameOf[id] /\ SurnameOf[id] # "")
  BY DEF Narrow
<1>2. PICK m \in Matches(t, text) : named = m.id
  <2>1. LinkText[t][text] = {m.id : m \in Kept(t, text)}
    BY DEF LinkText
  <2>2. Kept(t, text) \subseteq Matches(t, text)
    BY DEF Kept
  <2> QED
    BY <1>1, <2>1, <2>2
<1>3. PICK p \in text \X SearchKeys(t) :
         /\ p[1].name = p[2].name
         /\ m = [from |-> p[1].from, to |-> p[1].to, id |-> p[2].id]
  BY <1>2 DEF Matches
<1>4. p[1] \in text /\ p[2] \in SearchKeys(t) /\ m.id = p[2].id
  BY <1>3
<1>5. ASSUME NEW key \in SearchKeys(t) PROVE key.id \in Ids /\ Claims(t, key.name) = {key.id}
  <2>1. PICK row \in Ids : key \in {[name |-> n, id |-> row] :
                                       n \in {k \in KeysOf(Catalog[t][row]) : Claims(t, k) = {row}}}
    BY <1>5 DEF SearchKeys
  <2>2. PICK n \in KeysOf(Catalog[t][row]) : key = [name |-> n, id |-> row] /\ Claims(t, n) = {row}
    BY <2>1
  <2> QED
    BY <2>2
<1> QED
  BY <1>1, <1>2, <1>3, <1>4, <1>5 DEF NamedBy

\* A copy that is to be asked about has a last one, whose roster is sent; a URL of the
\* batch has a first copy.
LEMMA CopiesAre ==
  ASSUME LinkIInv
  PROVE  /\ Index = DOMAIN articles
         /\ \A i \in Index : articles[i] \in [url : Urls, text : Texts]
         /\ \A T : T \subseteq Index /\ T # {} => \E i \in T : \A j \in T : j <= i
         /\ \A i \in Forwarded : LastWith(articles[i].url) \in Forwarded
                                 /\ articles[LastWith(articles[i].url)].url = articles[i].url
<1>1. Index = DOMAIN articles /\ Len(articles) \in Nat
  BY LenProperties DEF LinkIInv, Index
<1>2. ASSUME NEW i \in Index PROVE articles[i] \in [url : Urls, text : Texts]
  BY <1>2, ElementOfSeq DEF LinkIInv, Index
<1>3. ASSUME NEW T, T \subseteq Index, T # {} PROVE \E i \in T : \A j \in T : j <= i
  <2>1. T \in SUBSET (1..Len(articles))
    BY <1>3 DEF Index
  <2>2. Max(T) \in T /\ \A y \in T : Max(T) >= y
    BY <1>1, <1>3, <2>1, LastOf
  <2>3. \A y \in T : y <= Max(T)
    BY <1>1, <2>1, <2>2
  <2> QED
    BY <2>2, <2>3
<1>4. ASSUME NEW i \in Forwarded
      PROVE  LastWith(articles[i].url) \in Forwarded /\ articles[LastWith(articles[i].url)].url = articles[i].url
  <2> DEFINE T == {j \in Forwarded : articles[j].url = articles[i].url}
  <2>1. T \subseteq Index /\ T # {}
    BY <1>4 DEF Forwarded
  <2>2. PICK k \in T : \A j \in T : j <= k
    BY <1>3, <2>1
  <2>3. \E k2 \in Forwarded : /\ articles[k2].url = articles[i].url
                              /\ \A j \in Forwarded : articles[j].url = articles[i].url => j <= k2
    BY <2>2
  <2> QED
    BY <2>3, Zenon DEF LastWith
<1> QED
  BY <1>1, <1>2, <1>3, <1>4

\* The first copy of a URL is one of its copies.
LEMMA FirstCopyIs ==
  ASSUME LinkIInv, NEW i \in Index
  PROVE  \E k \in Copies(articles[i].url) :
            k = CHOOSE f \in Index : articles[f].url = articles[i].url
                                     /\ \A j \in 1..(f - 1) : articles[j].url # articles[i].url
<1> DEFINE T == {j \in Index : articles[j].url = articles[i].url}
<1>1. T \subseteq Nat /\ T # {} /\ Len(articles) \in Nat
  BY LenProperties DEF LinkIInv, Index
<1>2. PICK k \in T : \A j \in T : k <= j
  <2> HIDE DEF T
  <2> QED
    BY <1>1, LeastOf
<1>3. ASSUME NEW j \in 1..(k - 1) PROVE articles[j].url # articles[i].url
  BY <1>1, <1>2, <1>3 DEF Index
<1>4. \E f \in Index : articles[f].url = articles[i].url /\ \A j \in 1..(f - 1) : articles[j].url # articles[i].url
  BY <1>2, <1>3
<1> QED
  BY <1>4, Zenon DEF Copies

\* What a batch is made of stands while its answers come in.
LEMMA SameBatch ==
  ASSUME articles' = articles, tables' = tables, gate' = gate
  PROVE  /\ Index' = Index /\ GatedOut' = GatedOut
         /\ \A i : Linked(i)' = Linked(i)
         /\ \A u : Copies(u)' = Copies(u)
<1>1. Index' = Index /\ \A i : Linked(i)' = Linked(i)
  BY DEF Index, Linked
<1>2. Forwarded' = Forwarded
  BY <1>1 DEF Forwarded
<1> QED
  BY <1>1, <1>2 DEF GatedOut, Copies

\* What an answered article shows is its own roster's, and what was not answered is what
\* link_text found: LinksAreFaithful once the calls end.
LEMMA LinkedIsFaithful ==
  ASSUME LinkIInv, LinkBatch
  PROVE  LinksAreFaithful'
<1>1. PICK accepted \in [Forwarded -> {{}, {"failed"}} \cup {{id} : id \in Ids}] :
         /\ \A i \in Forwarded : accepted[i] \in Verdicts(i) \cup {{"failed"}}
         /\ LET by(u) == {i \in Forwarded : articles[i].url = u /\ Answered(accepted, i)}
                said  == [u \in {articles[i].url : i \in {j \in Forwarded : Answered(accepted, j)}} |->
                             accepted[CHOOSE i \in by(u) : \A j \in by(u) : j <= i] \ {"failed"}]
            IN  links' = [u \in {articles[i].url : i \in Index} |-> Resolved(said, u)]
         /\ linkPc' = (IF \A i \in Forwarded : accepted[i] = {"failed"} THEN "unanswered" ELSE "done")
  BY DEF LinkBatch
<1> DEFINE By(u) == {i \in Forwarded : articles[i].url = u /\ Answered(accepted, i)}
           Said == [u \in {articles[i].url : i \in {j \in Forwarded : Answered(accepted, j)}} |->
                      accepted[CHOOSE i \in By(u) : \A j \in By(u) : j <= i] \ {"failed"}]
           All == {articles[i].url : i \in Index}
<1>2. links' = [u \in All |-> Resolved(Said, u)]
  BY <1>1
<1>3. /\ DOMAIN links' = All
      /\ \A u \in All : links'[u] = Resolved(Said, u)
      /\ DOMAIN Said = {articles[i].url : i \in {j \in Forwarded : Answered(accepted, j)}}
      /\ articles' = articles /\ tables' = tables /\ gate' = gate
      /\ Forwarded \subseteq Index
  BY <1>2 DEF LinkBatch, Forwarded
<1>4. ASSUME NEW u \in DOMAIN Said
      PROVE  \E i \in Forwarded : articles[i].url = u /\ Said[u] = accepted[i] \ {"failed"}
  <2>1. By(u) # {} /\ By(u) \subseteq Index
    BY <1>3, <1>4
  <2>2. \E i \in By(u) : \A j \in By(u) : j <= i
    <3> HIDE DEF By
    <3> QED
      BY <2>1, CopiesAre
  <2>3. PICK i : i = CHOOSE k \in By(u) : \A j \in By(u) : j <= k
    OBVIOUS
  <2>4. i \in By(u)
    <3> HIDE DEF By
    <3> QED
      BY <2>2, <2>3, Zenon
  <2>5. Said[u] = accepted[i] \ {"failed"}
    <3> HIDE DEF By
    <3> QED
      BY <1>3, <1>4, <2>3
  <2> QED
    BY <2>4, <2>5
<1> HIDE DEF Said
<1>5. ASSUME NEW u \in All, u \notin DOMAIN Said, u \notin GatedOut
      PROVE  \E i \in Copies(u) : links'[u] = Linked(i)
  <2>1. PICK i \in Index : u = articles[i].url
    OBVIOUS
  <2>2. PICK k \in Copies(u) :
           k = CHOOSE f \in Index : articles[f].url = u /\ \A j \in 1..(f - 1) : articles[j].url # u
    BY <2>1, FirstCopyIs
  <2>3. links'[u] = Linked(CHOOSE f \in Index : articles[f].url = u /\ \A j \in 1..(f - 1) : articles[j].url # u)
    BY <1>3, <1>5 DEF Resolved
  <2> QED
    BY <2>2, <2>3
<1>6. BlipsKeepChips'
  <2> SUFFICES ASSUME linkPc' = "unanswered", NEW u \in All, u \notin GatedOut
               PROVE  \E i \in Copies(u) : links'[u] = Linked(i)
    BY <1>3, SameBatch DEF BlipsKeepChips
  <2>1. \A i \in Forwarded : accepted[i] = {"failed"}
    BY <1>1
  <2>2. DOMAIN Said = {}
    BY <1>3, <2>1 DEF Answered
  <2> QED
    BY <1>5, <2>2
<1>7. ASSUME gate = "narrowing", NEW u \in All, NEW id \in links'[u]
      PROVE  \E i \in Copies(u) : NamedBy(tables, articles[i].text, id)
  <2>1. \E i \in Copies(u) : id \in Narrow(Linked(i))
    <3>1. CASE u \in DOMAIN Said
      <4>0. links'[u] = Said[u]
        BY <1>3, <1>7, <3>1 DEF Resolved
      <4>1. PICK i \in Forwarded : articles[i].url = u /\ links'[u] = accepted[i] \ {"failed"}
        BY <1>4, <3>1, <4>0
      <4>2. id \in RosterOf(i)
        <5>1. accepted[i] \in Verdicts(i) \cup {{"failed"}} /\ id \in accepted[i] /\ id # "failed"
          BY <1>1, <1>7, <4>1
        <5> QED
          BY <5>1 DEF Verdicts
      <4>3. LastWith(u) \in Forwarded /\ articles[LastWith(u)].url = u
        BY <4>1, CopiesAre
      <4> QED
        BY <1>3, <1>7, <4>1, <4>2, <4>3 DEF RosterOf, Copies
    <3>2. CASE u \notin DOMAIN Said
      <4>1. u \notin GatedOut
        BY <1>3, <1>7, <3>2 DEF Resolved
      <4> QED
        BY <1>5, <1>7, <3>2, <4>1 DEF Narrow
    <3> QED
      BY <3>1, <3>2
  <2>2. PICK i \in Copies(u) : id \in Narrow(Linked(i))
    BY <2>1
  <2>3. articles[i].text \in Texts /\ tables \in Tables
    BY <2>2, CopiesAre DEF Copies, LinkIInv
  <2>4. id \in Narrow(LinkText[tables][articles[i].text])
    BY <2>2 DEF Linked
  <2> QED
    BY <2>2, <2>3, <2>4, NarrowIsNamed
<1>8. NoChipIsInvented'
  <2> SUFFICES ASSUME gate' = "narrowing", NEW u \in DOMAIN links', NEW id \in links'[u]
               PROVE  (\E i \in Copies(u), o \in UNION {articles[j].text : j \in Copies(u)}, named \in Ids :
                         /\ o \in articles[i].text /\ Claims(tables, o.name) = {named}
                         /\ named = id \/ (SurnameOf[named] = SurnameOf[id] /\ SurnameOf[id] # ""))'
    BY DEF NoChipIsInvented
  <2>1. PICK i \in Copies(u) : NamedBy(tables, articles[i].text, id)
    BY <1>3, <1>7
  <2>2. PICK o \in articles[i].text, named \in Ids :
           /\ Claims(tables, o.name) = {named}
           /\ named = id \/ (SurnameOf[named] = SurnameOf[id] /\ SurnameOf[id] # "")
    BY <2>1 DEF NamedBy
  <2>3. Copies(u)' = Copies(u) /\ articles' = articles /\ tables' = tables
    BY <1>3, SameBatch
  <2> QED
    BY <2>1, <2>2, <2>3
<1> QED
  BY <1>6, <1>8 DEF LinksAreFaithful

\* Whatever the calls answer, a step of the linker keeps its answer faithful.
LEMMA LinkingKeepsLinks ==
  ASSUME LinkIInv, [LinkNext]_linkVars
  PROVE  LinkIInv'
<1>1. CASE UNCHANGED linkVars
  <2>1. articles' = articles /\ tables' = tables /\ gate' = gate /\ linkPc' = linkPc /\ links' = links
    BY <1>1 DEF linkVars
  <2> QED
    <3>1. BlipsKeepChips'
      BY <2>1, SameBatch DEF LinkIInv, LinksAreFaithful, BlipsKeepChips
    <3>2. NoChipIsInvented'
      <4> SUFFICES ASSUME linkPc' \in {"done", "unanswered"}, gate' = "narrowing",
                          NEW u \in DOMAIN links', NEW id \in links'[u]
                   PROVE  (\E i \in Copies(u), o \in UNION {articles[j].text : j \in Copies(u)}, named \in Ids :
                             /\ o \in articles[i].text /\ Claims(tables, o.name) = {named}
                             /\ named = id \/ (SurnameOf[named] = SurnameOf[id] /\ SurnameOf[id] # ""))'
        BY DEF NoChipIsInvented
      <4>1. u \in DOMAIN links /\ id \in links[u] /\ linkPc \in {"done", "unanswered"} /\ gate = "narrowing"
        BY <2>1
      <4>2. PICK i \in Copies(u), o \in UNION {articles[j].text : j \in Copies(u)}, named \in Ids :
               /\ o \in articles[i].text /\ Claims(tables, o.name) = {named}
               /\ named = id \/ (SurnameOf[named] = SurnameOf[id] /\ SurnameOf[id] # "")
        BY <4>1 DEF LinkIInv, LinksAreFaithful, NoChipIsInvented
      <4>3. Copies(u)' = Copies(u)
        BY <2>1, SameBatch
      <4> QED
        BY <2>1, <4>2, <4>3
    <3> QED
      BY <2>1, <3>1, <3>2 DEF LinkIInv, LinksAreFaithful
<1>2. CASE BeginLinking
  <2>1. PICK n \in 1..MaxArticles : articles' \in [1..n -> [url : Urls, text : Texts]]
    BY <1>2 DEF BeginLinking
  <2>2. articles' \in Seq([url : Urls, text : Texts])
    <3> DEFINE S == [url : Urls, text : Texts]
    <3>1. n \in Nat /\ articles' \in [1..n -> S]
      BY <2>1, LinkingAssumption
    <3> HIDE DEF S
    <3>2. articles' \in Seq(S)
      BY <3>1, SeqDef
    <3> QED
      BY <3>2 DEF S
  <2> QED
    BY <1>2, <2>2 DEF BeginLinking, LinkIInv, LinksAreFaithful, BlipsKeepChips, NoChipIsInvented
<1>3. CASE NoProfiles
  <2>1. linkPc' = "done" /\ articles' = articles /\ tables' = tables /\ gate' = gate
        /\ \A u \in DOMAIN links' : links'[u] = {}
    BY <1>3 DEF NoProfiles
  <2> QED
    BY <2>1 DEF LinkIInv, LinksAreFaithful, BlipsKeepChips, NoChipIsInvented
<1>4. CASE LinkBatch
  BY <1>4, LinkedIsFaithful DEF LinkBatch, LinkIInv
<1> QED
  BY <1>1, <1>2, <1>3, <1>4 DEF LinkNext

-----------------------------------------------------------------------------
(* Entity links: the stored chips.                                          *)

Dropped == DOMAIN Canonical \cup Excluded

WellFormed(c) ==
    /\ c \in Kinds
    /\ c.form = "common" => c.type = "outlet"
    /\ c.type = "outlet" => c.form \in {"name", "short", "common"} /\ c.id \in Seeded
    /\ c.type = "judge"  => c.form \in {"justice", "court", "office"}

OneEach(s) ==
    \A c, d \in s : Target(c) = Target(d) /\ c # d => c.type = "outlet" /\ c.id \in Range(Canonical)

SoundChips(s) == (\A c \in s : WellFormed(c)) /\ OneEach(s)

\* Nothing is left of what a repair is for.
Clear(r, s) == \A c \in s : IF r = "strip" THEN c.form # "common" ELSE c.type # "judge"

\* The outlets of a set of chips have profiles.
Provided(s, present) == \A c \in s : c.type = "outlet" => c.id \in present

\* The repairs that chips read before `late` need not show.
Holds(s, late, present, done) ==
    /\ "dedupe" \in late \/ Provided(s, present)
    /\ \A r \in done : r \in late \/ Clear(r, s)

\* An old chip, or what a repair made of it, is among others, and no repair to come
\* takes it for one of its own.
Lasts(c, s) ==
    \E d \in s : /\ Target(d) \in Targets(Heirs(c))
                 /\ d.form # "common" /\ (d.type = "judge" => d = c)

Stays(c) == ~(c.form \in {"common", "office"} \/ Mentions(c, Excluded))

\* What is the same entity.
LEMMA SameTarget ==
  \A c, d : Target(c) = Target(d) <=> c.type = d.type /\ c.id = d.id
BY DEF Target

\* What is added to a set of chips is new to it, and one an entity.
LEMMA AddedIs ==
  ASSUME NEW base, NEW new
  PROVE  /\ base \subseteq Added(base, new)
         /\ \A c \in Added(base, new) : c \in base \/ (c \in new /\ Target(c) \notin Targets(base))
         /\ \A c, d \in Added(base, new) : Target(c) = Target(d) /\ c # d => c \in base /\ d \in base
         /\ \A c \in new : Target(c) \in Targets(Added(base, new))
<1> DEFINE Of(t) == CHOOSE c \in new : Target(c) = t
           Due == Targets(new) \ Targets(base)
<1>1. Added(base, new) = base \cup {Of(t) : t \in Due}
  BY DEF Added
<1>2. ASSUME NEW t \in Due PROVE Of(t) \in new /\ Target(Of(t)) = t
  <2>1. \E c \in new : Target(c) = t
    BY <1>2 DEF Targets
  <2> QED
    BY <2>1, Zenon
<1> HIDE DEF Of
<1>3. \A c \in base : Target(c) \in Targets(base)
  BY DEF Targets
<1>4. \A c \in new : Target(c) \in Targets(new)
  BY DEF Targets
<1>5. \A c \in Added(base, new) : c \in base \/ (c \in new /\ Target(c) \notin Targets(base) /\ c = Of(Target(c)))
  BY <1>1, <1>2
<1>6. ASSUME NEW c \in new PROVE Target(c) \in Targets(Added(base, new))
  <2>1. CASE Target(c) \in Targets(base)
    BY <1>1, <2>1 DEF Targets
  <2>2. CASE Target(c) \notin Targets(base)
    <3>1. Target(c) \in Due
      BY <1>4, <2>2
    <3>2. Of(Target(c)) \in Added(base, new) /\ Target(Of(Target(c))) = Target(c)
      BY <1>1, <1>2, <3>1
    <3> QED
      BY <3>2 DEF Targets
  <2> QED
    BY <2>1, <2>2
<1> QED
  BY <1>1, <1>3, <1>5, <1>6

\* Adding to sound chips what a text may be given.
LEMMA AddingIsSound ==
  ASSUME NEW base, NEW new, SoundChips(base),
         \A c \in new : WellFormed(c)
  PROVE  SoundChips(Added(base, new))
BY AddedIs DEF SoundChips, OneEach

\* What a text may be given, by either linker, is well formed and no judge; its outlets
\* are in the catalog, and only the model names a common noun.
LEMMA NamedIs ==
  ASSUME NEW u \in Posted, NEW catalog \in SUBSET Seeded, NEW c \in Named[u], InCatalog(c, catalog)
  PROVE  WellFormed(c) /\ c.type # "judge" /\ (c.type = "outlet" => c.id \in catalog)
<1>1. /\ c \in Kinds /\ c.type # "judge"
      /\ c.form = "common" => c.type = "outlet"
      /\ c.type = "outlet" => c.form \in {"name", "short", "common"}
  BY KindsAssumption DEF Posted
<1> QED
  BY <1>1 DEF WellFormed, InCatalog

\* What link_text gives: chips the text names, none of a blocked word, one an entity.
LEMMA LinkTextIs ==
  ASSUME NEW u \in Posted, NEW catalog \in SUBSET Seeded
  PROVE  LET s == LinkTextOf(u, catalog)
         IN  SoundChips(s) /\ Clear("strip", s) /\ Clear("retarget", s) /\ Provided(s, catalog)
<1> DEFINE new == {c \in Named[u] : c.form # "common" /\ InCatalog(c, catalog)}
<1>1. \A c \in new : WellFormed(c) /\ c.type # "judge" /\ c.form # "common" /\ (c.type = "outlet" => c.id \in catalog)
  BY NamedIs
<1>2. SoundChips({})
  BY DEF SoundChips, OneEach
<1>3. SoundChips(Added({}, new))
  <2> HIDE DEF new
  <2> QED
    BY <1>1, <1>2, AddingIsSound
<1>4. Added({}, new) \subseteq new
  BY AddedIs
<1>5. LinkTextOf(u, catalog) = Added({}, new)
  BY DEF LinkTextOf
<1> HIDE DEF new
<1> QED
  BY <1>1, <1>3, <1>4, <1>5 DEF Clear, Provided

\* What the model may answer: chips the text names, one an entity.
LEMMA AnswerIs ==
  ASSUME NEW u \in Posted, NEW catalog \in SUBSET Seeded, NEW s \in MayAnswer(u, catalog)
  PROVE  /\ SoundChips(s) /\ Clear("retarget", s) /\ Provided(s, catalog)
         /\ "strip" \in BehindOf(s) \/ Clear("strip", s)
<1>1. \A c \in s : WellFormed(c) /\ c.type # "judge" /\ (c.type = "outlet" => c.id \in catalog)
  BY NamedIs DEF MayAnswer
<1>2. \A c, d \in s : Target(c) = Target(d) => c = d
  BY DEF MayAnswer
<1> QED
  BY <1>1, <1>2 DEF SoundChips, OneEach, Clear, Provided, BehindOf

\* The additive pass takes nothing away, and adds no common noun and no judge.
LEMMA RegexIs ==
  ASSUME NEW u \in Posted, NEW catalog \in SUBSET Seeded, NEW base, SoundChips(base)
  PROVE  LET s == Added(base, RegexLink(u, catalog))
         IN  /\ SoundChips(s)
             /\ \A r \in Repairs : Clear(r, base) => Clear(r, s)
             /\ \A present : Provided(base, present) /\ catalog \subseteq present => Provided(s, present)
             /\ \A c : Lasts(c, base) => Lasts(c, s)
<1> DEFINE new == RegexLink(u, catalog)
           s == Added(base, new)
<1>1. SoundChips(LinkTextOf(u, catalog)) /\ Clear("strip", LinkTextOf(u, catalog))
      /\ Clear("retarget", LinkTextOf(u, catalog)) /\ Provided(LinkTextOf(u, catalog), catalog)
  BY LinkTextIs
<1>2. new \subseteq LinkTextOf(u, catalog)
  BY DEF RegexLink
<1>3. \A c \in new : WellFormed(c) /\ c.type # "judge" /\ c.form # "common" /\ (c.type = "outlet" => c.id \in catalog)
  BY <1>1, <1>2 DEF SoundChips, Clear, Provided
<1> HIDE DEF new
<1>4. SoundChips(s)
  BY <1>3, AddingIsSound
<1>5. base \subseteq s /\ s \subseteq base \cup new
  BY AddedIs
<1>6. \A r \in Repairs : Clear(r, base) => Clear(r, s)
  BY <1>3, <1>5 DEF Clear
<1>7. \A present : Provided(base, present) /\ catalog \subseteq present => Provided(s, present)
  BY <1>3, <1>5 DEF Provided
<1>8. \A c : Lasts(c, base) => Lasts(c, s)
  <2> HIDE DEF s
  <2> QED
    BY <1>5 DEF Lasts
<1> QED
  BY <1>4, <1>6, <1>7, <1>8 DEF new

\* What retargeting makes of a judge's chip.
LEMMA ConvertedIs ==
  ASSUME NEW c, WellFormed(c), c.type = "judge"
  PROVE  /\ \A x \in Converted(c) : WellFormed(x) /\ x.type \in {"politician", "org"} /\ x.form # "common"
         /\ c.form # "office" => Converted(c) # {}
<1>1. c \in Kinds /\ c.form \in {"justice", "court", "office"}
  BY DEF WellFormed
<1>2. CASE c.form = "justice"
  <2>1. PICK x : x = [c EXCEPT !.type = "politician"]
    OBVIOUS
  <2>2. Converted(c) = {x}
    BY <1>2, <2>1 DEF Converted
  <2>3. x \in Kinds /\ x.type = "politician" /\ x.form = "justice"
    BY <1>1, <1>2, <2>1 DEF Kinds
  <2>4. WellFormed(x)
    BY <2>3 DEF WellFormed
  <2> QED
    BY <2>2, <2>3, <2>4
<1>3. CASE c.form = "court"
  <2>1. PICK x : x = [type |-> "org", id |-> "court", form |-> "court"]
    OBVIOUS
  <2>2. Converted(c) = {x}
    BY <1>3, <2>1 DEF Converted
  <2>3. x.type = "org" /\ x.form = "court" /\ x.id = "court"
    BY <2>1
  <2>4. "court" \in ChipIds
    BY DEF ChipIds
  <2>5. x \in Kinds
    BY <2>1, <2>4 DEF Kinds
  <2>6. WellFormed(x)
    BY <2>3, <2>5 DEF WellFormed
  <2> QED
    BY <2>2, <2>3, <2>6
<1>4. CASE c.form = "office"
  BY <1>4 DEF Converted
<1> QED
  BY <1>1, <1>2, <1>3, <1>4

\* A repair leaves nothing that it is for, brings back nothing another is for, and takes
\* away nothing else.
LEMMA StrippedIs ==
  ASSUME NEW s, SoundChips(s)
  PROVE  /\ SoundChips(Stripped(s)) /\ Clear("strip", Stripped(s))
         /\ Clear("retarget", s) => Clear("retarget", Stripped(s))
         /\ \A present : Provided(s, present) => Provided(Stripped(s), present)
         /\ \A c : Lasts(c, s) => Lasts(c, Stripped(s))
<1>1. Stripped(s) \subseteq s
  BY DEF Stripped
<1>2. \A d \in s : d.form # "common" => d \in Stripped(s)
  BY DEF Stripped
<1>3. \A d \in Stripped(s) : d.form # "common"
  BY DEF Stripped, SoundChips, WellFormed
<1>4. SoundChips(Stripped(s)) /\ Clear("strip", Stripped(s))
  BY <1>1, <1>3 DEF SoundChips, OneEach, Clear
<1>5. /\ Clear("retarget", s) => Clear("retarget", Stripped(s))
      /\ \A present : Provided(s, present) => Provided(Stripped(s), present)
  BY <1>1 DEF Clear, Provided
<1>6. \A c : Lasts(c, s) => Lasts(c, Stripped(s))
  BY <1>2 DEF Lasts
<1> QED
  BY <1>4, <1>5, <1>6

\* What retarget makes of sound chips: sound chips without judges that keep what is to last.
LEMMA RetargetedIs ==
  ASSUME NEW s, SoundChips(s)
  PROVE  /\ SoundChips(Retargeted(s)) /\ Clear("retarget", Retargeted(s))
         /\ Clear("strip", s) => Clear("strip", Retargeted(s))
         /\ \A present : Provided(s, present) => Provided(Retargeted(s), present)
         /\ \A c : WellFormed(c) /\ Stays(c) /\ Lasts(c, s) => Lasts(c, Retargeted(s))
<1> DEFINE base == s \ Judges(s)
           new  == UNION {Converted(c) : c \in Judges(s)}
           out  == Added(base, new)
<1>1. Retargeted(s) = out
  BY DEF Retargeted
<1>2. /\ \A c \in base : c \in s /\ c.type # "judge"
      /\ \A c \in s : c.type # "judge" => c \in base
      /\ \A c \in s : c.type = "judge" => c \in Judges(s)
  BY DEF Judges
<1>3. \A x \in new : WellFormed(x) /\ x.type \in {"politician", "org"} /\ x.form # "common"
  <2> SUFFICES ASSUME NEW c \in Judges(s), NEW x \in Converted(c)
               PROVE  WellFormed(x) /\ x.type \in {"politician", "org"} /\ x.form # "common"
    OBVIOUS
  <2>1. WellFormed(c) /\ c.type = "judge"
    BY DEF Judges, SoundChips
  <2> QED
    BY <2>1, ConvertedIs
<1>4. \A c \in Judges(s) : Converted(c) \subseteq new
  OBVIOUS
<1> HIDE DEF new
<1>5. SoundChips(base)
  BY <1>2 DEF SoundChips, OneEach
<1> HIDE DEF base
<1>6. SoundChips(out)
  BY <1>3, <1>5, AddingIsSound
<1>7. base \subseteq out /\ out \subseteq base \cup new /\ \A x \in new : Target(x) \in Targets(out)
  BY AddedIs
<1> HIDE DEF out
<1>8. /\ Clear("retarget", out)
      /\ Clear("strip", s) => Clear("strip", out)
      /\ \A present : Provided(s, present) => Provided(out, present)
  BY <1>2, <1>3, <1>7 DEF Clear, Provided
<1>9. ASSUME NEW c, WellFormed(c), Stays(c), Lasts(c, s) PROVE Lasts(c, out)
  <2>1. PICK d \in s : Target(d) \in Targets(Heirs(c)) /\ d.form # "common" /\ (d.type = "judge" => d = c)
    BY <1>9 DEF Lasts
  <2>2. CASE d.type # "judge"
    BY <1>2, <1>7, <2>1, <2>2 DEF Lasts
  <2>3. CASE d.type = "judge"
    <3>1. PICK x \in Converted(c) : x \in new
      BY <1>2, <1>4, <1>9, <2>1, <2>3, ConvertedIs DEF Stays
    <3>2. PICK y \in out : Target(y) = Target(x)
      BY <1>7, <3>1 DEF Targets
    <3>3. y.type \in {"politician", "org"} /\ WellFormed(y)
      BY <1>3, <1>6, <3>1, <3>2, SameTarget DEF SoundChips
    <3>4. Target(y) \in Targets(Heirs(c))
      BY <3>1, <3>2 DEF Targets, Heirs
    <3> QED
      BY <3>3, <3>4 DEF Lasts, WellFormed
  <2> QED
    BY <2>2, <2>3
<1> QED
  BY <1>1, <1>6, <1>8, <1>9

\* What the deduplication makes of a chip: none of an excluded outlet, the canonical
\* one's of a duplicate's.
LEMMA RepointedIs ==
  ASSUME NEW s, SoundChips(s)
  PROVE  /\ SoundChips(Repointed(s)) /\ Provided(Repointed(s), Seeded \ Dropped)
         /\ \A r \in Repairs : Clear(r, s) => Clear(r, Repointed(s))
         /\ \A c : WellFormed(c) /\ Stays(c) /\ Lasts(c, s) => Lasts(c, Repointed(s))
<1> DEFINE New(c) == IF Mentions(c, DOMAIN Canonical) THEN [c EXCEPT !.id = Canonical[c.id]] ELSE c
           Left == {d \in s : ~Mentions(d, Excluded)}
<1>1. Repointed(s) = {New(c) : c \in Left}
  BY DEF Repointed
<1>2. /\ \A id \in DOMAIN Canonical : Canonical[id] \in Range(Canonical)
      /\ \A id \in DOMAIN Canonical : Canonical[id] \in Seeded \ Dropped
  BY ChipsAssumption DEF Range, Dropped
<1>3. ASSUME NEW c, WellFormed(c), ~Mentions(c, Excluded)
      PROVE  /\ WellFormed(New(c)) /\ New(c).type = c.type /\ New(c).form = c.form
             /\ c.type = "outlet" => New(c).id \in Seeded \ Dropped
             /\ c.type # "outlet" => New(c) = c
             /\ New(c) = c \/ (c.type = "outlet" /\ New(c).id \in Range(Canonical))
             /\ c.type = "outlet" /\ c.id \in DOMAIN Canonical => New(c).id = Canonical[c.id]
             /\ c.type = "outlet" /\ c.id \notin DOMAIN Canonical => New(c) = c
  <2>1. WellFormed(c) /\ c \in Kinds /\ ~Mentions(c, Excluded)
    BY <1>3 DEF WellFormed
  <2>2. CASE c.type = "outlet" /\ c.id \in DOMAIN Canonical
    <3>1. New(c) = [c EXCEPT !.id = Canonical[c.id]] /\ Canonical[c.id] \in Seeded
      BY <1>2, <2>2 DEF Mentions
    <3>2. PICK x : x = [c EXCEPT !.id = Canonical[c.id]]
      OBVIOUS
    <3>3. x.type = c.type /\ x.form = c.form /\ x.id = Canonical[c.id] /\ x \in Kinds
      BY <1>2, <2>1, <2>2, <3>2, ChipsAssumption DEF Kinds, ChipIds
    <3>4. WellFormed(x)
      BY <2>1, <2>2, <3>1, <3>3 DEF WellFormed
    <3> QED
      BY <1>2, <2>2, <3>1, <3>2, <3>3, <3>4
  <2>3. CASE ~(c.type = "outlet" /\ c.id \in DOMAIN Canonical)
    BY <2>1, <2>3 DEF Mentions, WellFormed, Dropped
  <2> QED
    BY <2>2, <2>3
<1> HIDE DEF New
<1>4. /\ Left \subseteq s /\ \A d \in s : ~Mentions(d, Excluded) => d \in Left
      /\ \A d \in Left : WellFormed(d) /\ ~Mentions(d, Excluded)
  BY DEF SoundChips
<1> HIDE DEF Left
<1>5. OneEach(Repointed(s))
  <2> SUFFICES ASSUME NEW c \in Left, NEW d \in Left, Target(New(c)) = Target(New(d)), New(c) # New(d)
               PROVE  New(c).type = "outlet" /\ New(c).id \in Range(Canonical)
    BY <1>1 DEF OneEach
  <2>1. New(c).type = New(d).type /\ New(c).id = New(d).id
    BY SameTarget
  <2>2. CASE New(c) = c /\ New(d) = d
    BY <1>4, <2>2 DEF SoundChips, OneEach
  <2>3. CASE New(c) # c
    BY <1>3, <1>4, <2>1, <2>3
  <2>4. CASE New(d) # d
    BY <1>3, <1>4, <2>1, <2>4
  <2> QED
    BY <2>2, <2>3, <2>4
<1>6. SoundChips(Repointed(s)) /\ Provided(Repointed(s), Seeded \ Dropped)
  BY <1>1, <1>3, <1>4, <1>5 DEF SoundChips, Provided
<1>7. \A r \in Repairs : Clear(r, s) => Clear(r, Repointed(s))
  BY <1>1, <1>3, <1>4 DEF Clear
<1>8. ASSUME NEW c, WellFormed(c), Stays(c), Lasts(c, s) PROVE Lasts(c, Repointed(s))
  <2>1. PICK d \in s : Target(d) \in Targets(Heirs(c)) /\ d.form # "common" /\ (d.type = "judge" => d = c)
    BY <1>8 DEF Lasts
  <2>2. CASE d.type # "outlet"
    <3>1. d \in Left /\ New(d) = d
      BY <1>3, <1>4, <2>1, <2>2 DEF Mentions
    <3> QED
      BY <1>1, <2>1, <3>1 DEF Lasts
  <2>3. CASE d.type = "outlet"
    <3>1. PICK h \in Heirs(c) : Target(h) = Target(d)
      BY <2>1 DEF Targets
    <3>2. h.type = "outlet" /\ h.id = d.id
      BY <2>3, <3>1, SameTarget
    <3>3. Repointed({c}) = {New(e) : e \in {x \in {c} : ~Mentions(x, Excluded)}}
      BY DEF Repointed, New
    <3>4. Repointed({c}) = {New(c)}
      BY <1>8, <3>3 DEF Stays
    <3>5. h = c \/ h = New(c)
      <4>1. c.type = "judge" => h \notin Converted(c) \/ h = c
        BY <1>8, <3>2, ConvertedIs
      <4>2. c.form \in {"name", "short", "common"} => Converted(c) = {}
        BY DEF Converted
      <4>3. c.type \notin {"outlet", "judge"} => h \notin Converted(c)
        BY <1>8, <3>2 DEF Converted, WellFormed, Kinds
      <4> QED
        BY <1>8, <3>1, <3>4, <4>1, <4>2, <4>3 DEF Heirs, WellFormed
    <3>6. c.type = "outlet" /\ ~Mentions(c, Excluded)
      BY <1>3, <1>8, <3>2, <3>5 DEF Stays
    <3>7. d \in Left /\ Target(New(d)) \in Targets(Heirs(c))
      <4>1. CASE h = c
        <5>1. ~Mentions(d, Excluded)
          BY <2>3, <3>2, <3>6, <4>1 DEF Mentions
        <5>2. d \in Left
          BY <1>4, <5>1
        <5>3. CASE d.id \in DOMAIN Canonical
          <6>1. New(d).type = New(c).type /\ New(d).id = New(c).id
            BY <1>3, <1>4, <1>8, <2>3, <3>2, <3>6, <4>1, <5>2, <5>3
          <6>2. Target(New(d)) = Target(New(c)) /\ New(c) \in Heirs(c)
            BY <3>4, <6>1, SameTarget DEF Heirs
          <6> QED
            BY <5>2, <6>2 DEF Targets
        <5>4. CASE d.id \notin DOMAIN Canonical
          BY <1>3, <1>4, <2>1, <2>3, <5>2, <5>4
        <5> QED
          BY <5>3, <5>4
      <4>2. CASE h = New(c) /\ h # c
        <5>1. d.id \in Seeded \ Dropped
          BY <1>3, <1>8, <3>2, <3>6, <4>2
        <5>2. ~Mentions(d, Excluded) /\ d.id \notin DOMAIN Canonical
          BY <5>1 DEF Mentions, Dropped
        <5>3. d \in Left
          BY <1>4, <5>2
        <5> QED
          BY <1>3, <1>4, <2>1, <2>3, <5>2, <5>3
      <4> QED
        BY <3>5, <4>1, <4>2
    <3>8. New(d) \in Repointed(s) /\ New(d).form # "common" /\ New(d).type # "judge"
      BY <1>1, <1>3, <1>4, <2>1, <2>3, <3>7
    <3> QED
      BY <3>7, <3>8 DEF Lasts
  <2> QED
    BY <2>2, <2>3
<1> QED
  BY <1>6, <1>7, <1>8

\* Either repair, as Scan applies it.
LEMMA RewrittenIs ==
  ASSUME NEW s, SoundChips(s), NEW r \in Repairs
  PROVE  /\ SoundChips(Rewritten(r, s)) /\ Clear(r, Rewritten(r, s))
         /\ \A q \in Repairs : Clear(q, s) => Clear(q, Rewritten(r, s))
         /\ \A present : Provided(s, present) => Provided(Rewritten(r, s), present)
         /\ \A c : WellFormed(c) /\ Stays(c) /\ Lasts(c, s) => Lasts(c, Rewritten(r, s))
<1>1. CASE r = "strip"
  BY <1>1, StrippedIs DEF Rewritten, Repairs
<1>2. CASE r = "retarget"
  BY <1>2, RetargetedIs DEF Rewritten, Repairs
<1> QED
  BY <1>1, <1>2 DEF Repairs

\* LateAt, for a row of what a writer is at.
LateOf(w, e, row) ==
    row.behind \cup (IF w \in {"pipeline", "llm"} THEN e.missed \cap {"dedupe"} ELSE e.missed)

\* An old chip that no repair takes lasts.
Lasting(u, s) == \A c \in Old[u] : Stays(c) => Lasts(c, s)

WorkFields == {"pc", "catalog", "todo", "plan", "missed"}

RowsIn(e) == IF e.pc \in {"read", "again"} THEN Posted \cap DOMAIN e.plan ELSE {}

\* What a writer will write stands, if a repair it missed is set down as such.
WorkStands(w, e, present, done) ==
    /\ DOMAIN e = WorkFields
    /\ w \in Repairs => e.pc \in {"idle", "read"}
    /\ e.catalog \subseteq Seeded
    /\ w \in {"regex", "llm"} /\ e.pc # "idle" => "dedupe" \in e.missed \/ e.catalog \subseteq present
    /\ \A u \in RowsIn(e) :
         /\ SoundChips(e.plan[u].chips)
         /\ Holds(e.plan[u].chips, LateOf(w, e, e.plan[u]), present, done)
         /\ w \in {"pipeline", "llm"} => \A r \in Repairs : r \in e.plan[u].behind \/ Clear(r, e.plan[u].chips)
         /\ e.plan[u].answered \/ (Lasting(u, e.plan[u].read) => Lasting(u, e.plan[u].chips))

\* What a writer will write shows none of what repair r has read, or missed r.
Spares(r, w, e) == \A u \in RowsIn(e) : r \in LateOf(w, e, e.plan[u]) \/ Clear(r, e.plan[u].chips)

\* A repair that has read has every row that needs it, and nobody else will bring back
\* what it takes away.
Underway(r) ==
    work[r].pc = "read" =>
        /\ \A u \in Posted : IF u \in DOMAIN work[r].plan THEN Clear(r, work[r].plan[u].chips)
                             ELSE r \in behind[u] \/ Clear(r, chips[u])
        /\ \A w \in Writers \ {r} : Spares(r, w, work[w])

RowHolds(u) ==
    /\ SoundChips(chips[u])
    /\ Holds(chips[u], behind[u], profiles, mended)
    /\ u \in replaced \/ Lasting(u, chips[u])

ChipsIInv ==
    /\ DOMAIN chips = Posted /\ DOMAIN behind = Posted /\ DOMAIN work = Writers
    /\ profiles \in {Seeded, Seeded \ Dropped} /\ mended \subseteq Repairs
    /\ \A u \in Posted : RowHolds(u)
    /\ \A w \in Writers : WorkStands(w, work[w], profiles, mended)
    /\ \A r \in Repairs : Underway(r)

\* What an article shows at first.
LEMMA OldIs ==
  ASSUME NEW u \in Posted
  PROVE  SoundChips(Old[u]) /\ Provided(Old[u], Seeded) /\ Lasting(u, Old[u])
         /\ \A c \in Old[u] : WellFormed(c)
<1>1. \A c \in Old[u] : WellFormed(c) /\ (c.type = "outlet" => c.id \in Seeded)
  BY KindsAssumption DEF Posted, WellFormed
<1>2. \A c, d \in Old[u] : Target(c) = Target(d) => c = d
  BY KindsAssumption, SameTarget DEF Posted
<1>3. ASSUME NEW c \in Old[u], Stays(c) PROVE Lasts(c, Old[u])
  BY <1>3 DEF Lasts, Stays, Heirs, Targets
<1> QED
  BY <1>1, <1>2, <1>3 DEF SoundChips, OneEach, Provided, Lasting

\* The invariant holds of the rows as they are found.
LEMMA ChipsInit ==
  ASSUME InitChips
  PROVE  ChipsIInv
<1>1. /\ chips = Old /\ profiles = Seeded /\ mended = {} /\ replaced = {}
      /\ behind = [u \in Posted |-> {}] /\ work = [w \in Writers |-> AtRest]
  BY DEF InitChips
<1>2. \A u \in Posted : RowHolds(u)
  BY <1>1, OldIs DEF RowHolds, Holds
<1>3. \A w \in Writers : work[w] = AtRest
  BY <1>1
<1>4. DOMAIN AtRest = WorkFields /\ AtRest.pc = "idle" /\ AtRest.catalog = {} /\ AtRest.missed = {}
  BY DEF AtRest, WorkFields
<1>5. \A w \in Writers : WorkStands(w, work[w], profiles, mended)
  BY <1>3, <1>4 DEF WorkStands, RowsIn
<1>6. \A r \in Repairs : Underway(r)
  BY <1>3, <1>4 DEF Underway, Repairs, Writers, Linkers
<1> QED
  BY <1>1, <1>2, <1>5, <1>6, KindsAssumption DEF ChipsIInv, Posted

\* One writer begins, reads a row of a linker's or stops.
LEMMA OneWriterMoves ==
  ASSUME ChipsIInv, NEW w \in Writers, NEW e, work' = [work EXCEPT ![w] = e],
         chips' = chips, behind' = behind, profiles' = profiles, mended' = mended, replaced' = replaced,
         WorkStands(w, e, profiles, mended),
         w \in Repairs => e.pc # "read",
         \A r \in Repairs : r # w /\ work[r].pc = "read" => Spares(r, w, e)
  PROVE  ChipsIInv'
<1>1. DOMAIN work' = Writers /\ work'[w] = e /\ \A v \in Writers \ {w} : work'[v] = work[v]
  BY DEF ChipsIInv
<1>2. \A v \in Writers : WorkStands(v, work'[v], profiles', mended')
  BY <1>1 DEF ChipsIInv
<1>3. \A u \in Posted : RowHolds(u)'
  BY DEF ChipsIInv, RowHolds
<1>4. ASSUME NEW r \in Repairs PROVE Underway(r)'
  <2> SUFFICES ASSUME work'[r].pc = "read"
               PROVE  /\ \A u \in Posted : IF u \in DOMAIN work'[r].plan THEN Clear(r, work'[r].plan[u].chips)
                                           ELSE r \in behind'[u] \/ Clear(r, chips'[u])
                      /\ \A v \in Writers \ {r} : Spares(r, v, work'[v])
    BY DEF Underway
  <2>1. r # w /\ work'[r] = work[r]
    BY <1>1 DEF Writers
  <2>2. Underway(r)
    BY DEF ChipsIInv
  <2> QED
    BY <1>1, <2>1, <2>2 DEF Underway
<1> QED
  BY <1>1, <1>2, <1>3, <1>4 DEF ChipsIInv

\* A linker that has read one row.
LEMMA OneRowStands ==
  ASSUME NEW w \in Linkers, NEW e, NEW present, NEW done \in SUBSET Repairs, NEW u, NEW row,
         DOMAIN e = WorkFields, e.pc = "read", e.catalog \subseteq Seeded,
         w \in {"regex", "llm"} => "dedupe" \in e.missed \/ e.catalog \subseteq present,
         e.plan = Only(u, row) \/ e.plan = NoRows,
         u \in Posted =>
            /\ SoundChips(row.chips)
            /\ Holds(row.chips, LateOf(w, e, row), present, done)
            /\ w \in {"pipeline", "llm"} => \A r \in Repairs : r \in row.behind \/ Clear(r, row.chips)
            /\ row.answered \/ (Lasting(u, row.read) => Lasting(u, row.chips))
  PROVE  /\ WorkStands(w, e, present, done)
         /\ \A r \in Repairs : (u \in Posted => r \in LateOf(w, e, row) \/ Clear(r, row.chips)) => Spares(r, w, e)
<1>1. \A v \in RowsIn(e) : v = u /\ u \in Posted /\ e.plan[v] = row
  <2>1. CASE e.plan = Only(u, row)
    <3>1. DOMAIN e.plan = {u} /\ e.plan[u] = row
      BY <2>1 DEF Only
    <3> QED
      BY <3>1 DEF RowsIn
  <2>2. CASE e.plan = NoRows
    <3>1. DOMAIN e.plan = {}
      BY <2>2 DEF NoRows
    <3> QED
      BY <3>1 DEF RowsIn
  <2> QED
    BY <2>1, <2>2
<1>2. w \notin Repairs
  BY DEF Linkers, Repairs
<1> QED
  BY <1>1, <1>2 DEF WorkStands, Spares

\* The pipeline plans chips for an article that had none stored.
LEMMA LinkPendingKeeps ==
  ASSUME ChipsIInv, LinkPending
  PROVE  ChipsIInv'
<1>1. PICK u \in pending : \E said \in MayAnswer(u, profiles) \cup {LinkTextOf(u, profiles)} :
         work' = [work EXCEPT !["pipeline"] =
                    [AtRest EXCEPT !.pc = "read", !.plan = Only(u, RowPlan(u, said, TRUE, BehindOf(said)))]]
  BY DEF LinkPending
<1>2. PICK said \in MayAnswer(u, profiles) \cup {LinkTextOf(u, profiles)} :
         work' = [work EXCEPT !["pipeline"] =
                    [AtRest EXCEPT !.pc = "read", !.plan = Only(u, RowPlan(u, said, TRUE, BehindOf(said)))]]
  BY <1>1
<1>3. PICK row : row = RowPlan(u, said, TRUE, BehindOf(said))
  OBVIOUS
<1>4. PICK e : e = [AtRest EXCEPT !.pc = "read", !.plan = Only(u, row)]
  OBVIOUS
<1>5. work' = [work EXCEPT !["pipeline"] = e]
  BY <1>2, <1>3, <1>4
<1>6. DOMAIN e = WorkFields /\ e.pc = "read" /\ e.catalog = {} /\ e.missed = {} /\ e.plan = Only(u, row)
  BY <1>4 DEF AtRest, WorkFields
<1>7. row.chips = said /\ row.answered = TRUE /\ row.behind = BehindOf(said)
  BY <1>3 DEF RowPlan
<1>8. ASSUME u \in Posted
      PROVE  /\ SoundChips(said) /\ Provided(said, profiles)
             /\ \A r \in Repairs : r \in BehindOf(said) \/ Clear(r, said)
  <2>1. profiles \in SUBSET Seeded
    BY DEF ChipsIInv
  <2>2. CASE said \in MayAnswer(u, profiles)
    <3>1. SoundChips(said) /\ Clear("retarget", said) /\ Provided(said, profiles)
          /\ ("strip" \in BehindOf(said) \/ Clear("strip", said))
      BY <1>8, <2>1, <2>2, AnswerIs
    <3> QED
      BY <3>1 DEF Repairs
  <2>3. CASE said = LinkTextOf(u, profiles)
    BY <1>8, <2>1, <2>3, LinkTextIs DEF Repairs
  <2> QED
    BY <1>2, <2>2, <2>3
<1>9. mended \subseteq Repairs
  BY DEF ChipsIInv
<1>10. WorkStands("pipeline", e, profiles, mended) /\ \A r \in Repairs : Spares(r, "pipeline", e)
  <2>1. LateOf("pipeline", e, row) = BehindOf(said)
    BY <1>6, <1>7 DEF LateOf
  <2>2. u \in Posted => Holds(said, BehindOf(said), profiles, mended)
    BY <1>8, <1>9 DEF Holds
  <2> QED
    <3>0. u \in Posted =>
            /\ SoundChips(row.chips)
            /\ Holds(row.chips, LateOf("pipeline", e, row), profiles, mended)
            /\ "pipeline" \in {"pipeline", "llm"} => \A r \in Repairs : r \in row.behind \/ Clear(r, row.chips)
            /\ row.answered \/ (Lasting(u, row.read) => Lasting(u, row.chips))
      BY <1>7, <1>8, <2>1, <2>2
    <3>1. /\ WorkStands("pipeline", e, profiles, mended)
          /\ \A r \in Repairs : (u \in Posted => r \in LateOf("pipeline", e, row) \/ Clear(r, row.chips))
                                => Spares(r, "pipeline", e)
      <4>1. e.catalog \subseteq Seeded /\ "pipeline" \in Linkers /\ "pipeline" \notin {"regex", "llm"}
        BY <1>6 DEF Linkers
      <4> QED
        BY <1>6, <1>9, <3>0, <4>1, OneRowStands
    <3>2. u \in Posted => \A r \in Repairs : r \in LateOf("pipeline", e, row) \/ Clear(r, row.chips)
      BY <1>7, <1>8, <2>1
    <3> QED
      BY <3>1, <3>2
<1> QED
  BY <1>5, <1>10, OneWriterMoves DEF LinkPending, Writers, Linkers, Repairs

\* A writer that is left without a plan disturbs nothing.
LEMMA IdlingKeeps ==
  ASSUME ChipsIInv, NEW w \in Writers, NEW e, work' = [work EXCEPT ![w] = e],
         chips' = chips, behind' = behind, profiles' = profiles, mended' = mended, replaced' = replaced,
         DOMAIN e = WorkFields, e.pc \in {"idle", "loaded"}, e.catalog \subseteq Seeded,
         w \in Repairs => e.pc = "idle",
         e.pc = "loaded" => "dedupe" \in e.missed \/ e.catalog \subseteq profiles
  PROVE  ChipsIInv'
<1>1. RowsIn(e) = {}
  BY DEF RowsIn
<1>2. WorkStands(w, e, profiles, mended) /\ \A r \in Repairs : Spares(r, w, e)
  BY <1>1 DEF WorkStands, Spares
<1> QED
  BY <1>2, OneWriterMoves

\* A backfill starts with the profiles of the moment for its catalog.
LEMMA StartBackfillKeeps ==
  ASSUME ChipsIInv, NEW mode \in {"regex", "llm"}, StartBackfill(mode)
  PROVE  ChipsIInv'
<1>1. PICK ids : ids = SelectSeq(Newest, LAMBDA u : mode = "regex" \/ chips[u] # {})
  OBVIOUS
<1>2. PICK e : e = [AtRest EXCEPT !.pc = "loaded", !.catalog = profiles, !.todo = ids]
  OBVIOUS
<1>3. work' = [work EXCEPT ![mode] = e]
  BY <1>1, <1>2 DEF StartBackfill
<1>4. DOMAIN e = WorkFields /\ e.pc = "loaded" /\ e.catalog = profiles
  BY <1>2 DEF AtRest, WorkFields
<1>5. mode \in Writers /\ mode \notin Repairs /\ profiles \subseteq Seeded
  BY DEF Writers, Linkers, Repairs, ChipsIInv
<1> QED
  BY <1>3, <1>4, <1>5, IdlingKeeps DEF StartBackfill

\* A script that dies takes its plan along.
LEMMA ScriptDiesKeeps ==
  ASSUME ChipsIInv, NEW w \in Writers, ScriptDies(w)
  PROVE  ChipsIInv'
<1>1. DOMAIN AtRest = WorkFields /\ AtRest.pc = "idle" /\ AtRest.catalog = {}
  BY DEF AtRest, WorkFields
<1> QED
  BY <1>1, IdlingKeeps DEF ScriptDies

\* What a linker reads, it will write with what it missed.
LEMMA FetchRegexKeeps ==
  ASSUME ChipsIInv, FetchRegex
  PROVE  ChipsIInv'
<1>1. PICK u : u = Head(work["regex"].todo)
  OBVIOUS
<1>2. PICK row : row = RowPlan(u, Added(chips[u], RegexLink(u, work["regex"].catalog)), FALSE, behind[u])
  OBVIOUS
<1>3. PICK missed : missed = StillMissed(work["regex"].missed)
  OBVIOUS
<1>4. PICK plan : plan = ToWrite(u, row)
  OBVIOUS
<1>5. PICK left : left = Tail(work["regex"].todo)
  OBVIOUS
<1>6. PICK w : w = work["regex"]
  OBVIOUS
<1>7. PICK e : e = [w EXCEPT !.pc = "read", !.todo = left, !.missed = missed, !.plan = plan]
  OBVIOUS
<1>8. work' = [work EXCEPT !["regex"] = e]
  BY <1>1, <1>2, <1>3, <1>4, <1>5, <1>6, <1>7 DEF FetchRegex
<1>9. "regex" \in Writers /\ "regex" \in Linkers /\ "regex" \notin Repairs
  BY DEF Writers, Linkers, Repairs
<1>10. /\ DOMAIN w = WorkFields /\ w.catalog \subseteq Seeded
       /\ "dedupe" \in w.missed \/ w.catalog \subseteq profiles
  BY <1>6, <1>9 DEF ChipsIInv, WorkStands, FetchRegex
<1>11. DOMAIN e = WorkFields /\ e.pc = "read" /\ e.catalog = w.catalog /\ e.missed = missed /\ e.plan = plan
  BY <1>7, <1>10 DEF WorkFields
<1>12. plan = Only(u, row) \/ plan = NoRows
  BY <1>4 DEF ToWrite
<1>13. /\ row.chips = Added(chips[u], RegexLink(u, w.catalog)) /\ row.read = chips[u]
       /\ row.behind = behind[u]
  BY <1>2, <1>6 DEF RowPlan
<1>14. ("dedupe" \in w.missed => "dedupe" \in missed) /\ \A r \in Repairs : work[r].pc = "read" => r \in missed
  BY <1>3, <1>6 DEF StillMissed
<1>15. LateOf("regex", e, row) = behind[u] \cup missed
  BY <1>11, <1>13 DEF LateOf
<1>16. ASSUME u \in Posted
       PROVE  /\ SoundChips(row.chips)
              /\ Holds(row.chips, LateOf("regex", e, row), profiles, mended)
              /\ Lasting(u, row.read) => Lasting(u, row.chips)
  <2>1. SoundChips(chips[u]) /\ Holds(chips[u], behind[u], profiles, mended) /\ mended \subseteq Repairs
    BY <1>16 DEF ChipsIInv, RowHolds
  <2>2. w.catalog \in SUBSET Seeded
    BY <1>10
  <2>3. /\ SoundChips(row.chips)
        /\ \A r \in Repairs : Clear(r, chips[u]) => Clear(r, row.chips)
        /\ Provided(chips[u], profiles) /\ w.catalog \subseteq profiles => Provided(row.chips, profiles)
        /\ \A c : Lasts(c, chips[u]) => Lasts(c, row.chips)
    BY <1>13, <1>16, <2>1, <2>2, RegexIs
  <2>4. Holds(row.chips, behind[u] \cup missed, profiles, mended)
    BY <1>10, <1>14, <2>1, <2>3 DEF Holds
  <2> QED
    BY <1>13, <1>15, <2>3, <2>4 DEF Lasting
<1>17. /\ WorkStands("regex", e, profiles, mended)
       /\ \A r \in Repairs : (u \in Posted => r \in LateOf("regex", e, row) \/ Clear(r, row.chips))
                             => Spares(r, "regex", e)
  <2>1. e.plan = Only(u, row) \/ e.plan = NoRows
    BY <1>11, <1>12
  <2>2. u \in Posted =>
           /\ SoundChips(row.chips)
           /\ Holds(row.chips, LateOf("regex", e, row), profiles, mended)
           /\ "regex" \in {"pipeline", "llm"} => \A r \in Repairs : r \in row.behind \/ Clear(r, row.chips)
           /\ row.answered \/ (Lasting(u, row.read) => Lasting(u, row.chips))
    BY <1>16
  <2>3. mended \in SUBSET Repairs /\ e.catalog \subseteq Seeded /\ ("dedupe" \in e.missed \/ e.catalog \subseteq profiles)
    BY <1>10, <1>11, <1>14 DEF ChipsIInv
  <2> QED
    BY <1>9, <1>11, <2>1, <2>2, <2>3, OneRowStands
<1>18. \A r \in Repairs : work[r].pc = "read" => Spares(r, "regex", e)
  BY <1>14, <1>15, <1>17
<1> QED
  BY <1>8, <1>9, <1>17, <1>18, OneWriterMoves DEF FetchRegex

\* A chunk of llm mode plans the model's answer, or nothing when its call failed.
LEMMA FetchLlmKeeps ==
  ASSUME ChipsIInv, FetchLlm
  PROVE  ChipsIInv'
<1>1. PICK u : u = Head(work["llm"].todo)
  OBVIOUS
<1>2. PICK missed : missed = StillMissed(work["llm"].missed)
  OBVIOUS
<1>3. PICK left : left = Tail(work["llm"].todo)
  OBVIOUS
<1>4. PICK w : w = work["llm"]
  OBVIOUS
<1>5. PICK said \in MayAnswer(u, w.catalog) : \E failed \in BOOLEAN :
         work' = [work EXCEPT !["llm"] =
                    [w EXCEPT !.pc = "read", !.todo = left, !.missed = missed,
                              !.plan = IF failed THEN NoRows
                                       ELSE ToWrite(u, RowPlan(u, said, ~failed, BehindOf(said)))]]
  BY <1>1, <1>2, <1>3, <1>4 DEF FetchLlm, Omitted
<1>6. PICK failed \in BOOLEAN :
         work' = [work EXCEPT !["llm"] =
                    [w EXCEPT !.pc = "read", !.todo = left, !.missed = missed,
                              !.plan = IF failed THEN NoRows
                                       ELSE ToWrite(u, RowPlan(u, said, ~failed, BehindOf(said)))]]
  BY <1>5
<1>7. PICK row : row = RowPlan(u, said, TRUE, BehindOf(said))
  OBVIOUS
<1>8. PICK plan : plan = IF failed THEN NoRows ELSE ToWrite(u, row)
  OBVIOUS
<1>9. PICK e : e = [w EXCEPT !.pc = "read", !.todo = left, !.missed = missed, !.plan = plan]
  OBVIOUS
<1>10. work' = [work EXCEPT !["llm"] = e]
  <2>1. CASE failed
    BY <1>6, <1>8, <1>9, <2>1
  <2>2. CASE ~failed
    <3>1. (~failed) = TRUE
      BY <2>2
    <3> QED
      BY <1>6, <1>7, <1>8, <1>9, <2>2, <3>1
  <2> QED
    BY <2>1, <2>2
<1>11. "llm" \in Writers /\ "llm" \in Linkers /\ "llm" \notin Repairs
  BY DEF Writers, Linkers, Repairs
<1>12. /\ DOMAIN w = WorkFields /\ w.catalog \subseteq Seeded
       /\ "dedupe" \in w.missed \/ w.catalog \subseteq profiles
  BY <1>4, <1>11 DEF ChipsIInv, WorkStands, FetchLlm
<1>13. DOMAIN e = WorkFields /\ e.pc = "read" /\ e.catalog = w.catalog /\ e.missed = missed /\ e.plan = plan
  BY <1>9, <1>12 DEF WorkFields
<1>14. plan = Only(u, row) \/ plan = NoRows
  BY <1>8 DEF ToWrite
<1>15. row.chips = said /\ row.answered = TRUE /\ row.behind = BehindOf(said)
  BY <1>7 DEF RowPlan
<1>16. "dedupe" \in w.missed => "dedupe" \in missed
  BY <1>2, <1>4 DEF StillMissed
<1>17. LateOf("llm", e, row) = BehindOf(said) \cup (missed \cap {"dedupe"})
  BY <1>13, <1>15 DEF LateOf
<1>18. ASSUME u \in Posted
       PROVE  /\ SoundChips(said)
              /\ \A r \in Repairs : r \in BehindOf(said) \/ Clear(r, said)
              /\ Holds(said, LateOf("llm", e, row), profiles, mended)
  <2>1. w.catalog \in SUBSET Seeded /\ mended \subseteq Repairs
    BY <1>12 DEF ChipsIInv
  <2>2. SoundChips(said) /\ Clear("retarget", said) /\ Provided(said, w.catalog)
        /\ ("strip" \in BehindOf(said) \/ Clear("strip", said))
    BY <1>18, <2>1, AnswerIs
  <2>3. \A r \in Repairs : r \in BehindOf(said) \/ Clear(r, said)
    BY <2>2 DEF Repairs
  <2>4. "dedupe" \in missed \/ Provided(said, profiles)
    BY <1>12, <1>16, <2>2 DEF Provided
  <2> QED
    BY <1>17, <2>1, <2>2, <2>3, <2>4 DEF Holds
<1>19. /\ WorkStands("llm", e, profiles, mended)
       /\ \A r \in Repairs : (u \in Posted => r \in LateOf("llm", e, row) \/ Clear(r, row.chips))
                             => Spares(r, "llm", e)
  <2>1. e.plan = Only(u, row) \/ e.plan = NoRows
    BY <1>13, <1>14
  <2>2. u \in Posted =>
           /\ SoundChips(row.chips)
           /\ Holds(row.chips, LateOf("llm", e, row), profiles, mended)
           /\ "llm" \in {"pipeline", "llm"} => \A r \in Repairs : r \in row.behind \/ Clear(r, row.chips)
           /\ row.answered \/ (Lasting(u, row.read) => Lasting(u, row.chips))
    BY <1>15, <1>18
  <2>3. mended \in SUBSET Repairs /\ e.catalog \subseteq Seeded /\ ("dedupe" \in e.missed \/ e.catalog \subseteq profiles)
    BY <1>12, <1>13, <1>16 DEF ChipsIInv
  <2> QED
    BY <1>11, <1>13, <2>1, <2>2, <2>3, OneRowStands
<1>20. \A r \in Repairs : Spares(r, "llm", e)
  BY <1>15, <1>17, <1>18, <1>19
<1> QED
  BY <1>10, <1>11, <1>19, <1>20, OneWriterMoves DEF FetchLlm

\* Who has missed a repair is late by it, and stands beside whatever it did.
LEMMA MissingOne ==
  ASSUME NEW w \in Writers, NEW e, NEW present, NEW done \in SUBSET Repairs, WorkStands(w, e, present, done),
         NEW x \in Repairs \cup {"dedupe"}, NEW f, f = [e EXCEPT !.missed = @ \cup {x}],
         NEW now, now = present \/ x = "dedupe"
  PROVE  /\ WorkStands(w, f, now, done) /\ f.pc = e.pc /\ f.plan = e.plan
         /\ \A r \in Repairs : Spares(r, w, e) \/ r = x => Spares(r, w, f)
<1>1. DOMAIN e = WorkFields
  BY DEF WorkStands
<1>2. /\ DOMAIN f = WorkFields /\ f.pc = e.pc /\ f.plan = e.plan /\ f.catalog = e.catalog
      /\ f.missed = e.missed \cup {x}
  BY <1>1 DEF WorkFields
<1>3. RowsIn(f) = RowsIn(e)
  BY <1>2 DEF RowsIn
<1>4. ASSUME NEW u \in RowsIn(e)
      PROVE  /\ LateOf(w, e, e.plan[u]) \subseteq LateOf(w, f, e.plan[u])
             /\ x \in LateOf(w, f, e.plan[u]) \/ (w \in {"pipeline", "llm"} /\ x # "dedupe")
  BY <1>2 DEF LateOf
<1>5. WorkStands(w, f, now, done)
  BY <1>2, <1>3, <1>4 DEF WorkStands, Holds
<1>6. ASSUME NEW r \in Repairs, Spares(r, w, e) \/ r = x PROVE Spares(r, w, f)
  <2>1. CASE Spares(r, w, e)
    BY <1>2, <1>3, <1>4, <2>1 DEF Spares
  <2>2. CASE r = x
    <3>1. ASSUME NEW u \in RowsIn(e) PROVE r \in LateOf(w, f, e.plan[u]) \/ Clear(r, e.plan[u].chips)
      <4>1. CASE w \in {"pipeline", "llm"}
        BY <3>1, <4>1 DEF WorkStands, LateOf
      <4>2. CASE w \notin {"pipeline", "llm"}
        BY <1>4, <2>2, <4>2
      <4> QED
        BY <4>1, <4>2
    <3> QED
      BY <1>2, <1>3, <3>1 DEF Spares
  <2> QED
    BY <1>6, <2>1, <2>2
<1> QED
  BY <1>2, <1>5, <1>6

\* What the others are at once a repair has read, or the deduplication has run.
LEMMA OthersMissOne ==
  ASSUME ChipsIInv, NEW w \in Writers, NEW x \in Repairs \cup {"dedupe"}, NEW f,
         f = IF work[w].pc = "idle" THEN AtRest ELSE [work[w] EXCEPT !.missed = @ \cup {x}],
         NEW now, now = profiles \/ x = "dedupe"
  PROVE  /\ WorkStands(w, f, now, mended) /\ f.pc = work[w].pc
         /\ work[w].pc # "idle" => f.plan = work[w].plan
         /\ \A r \in Repairs : Spares(r, w, work[w]) \/ r = x => Spares(r, w, f)
<1>1. CASE work[w].pc = "idle"
  <2>1. f = AtRest /\ DOMAIN AtRest = WorkFields /\ AtRest.pc = "idle" /\ AtRest.catalog = {}
    BY <1>1 DEF AtRest, WorkFields
  <2>2. RowsIn(AtRest) = {}
    BY <2>1 DEF RowsIn
  <2> QED
    BY <1>1, <2>1, <2>2 DEF WorkStands, Spares
<1>2. CASE work[w].pc # "idle"
  <2>1. f = [work[w] EXCEPT !.missed = @ \cup {x}]
    BY <1>2
  <2>2. WorkStands(w, work[w], profiles, mended) /\ mended \in SUBSET Repairs
    BY DEF ChipsIInv
  <2> QED
    BY <2>1, <2>2, MissingOne
<1> QED
  BY <1>1, <1>2

\* A repair reads all that it is for, and sets down who it has missed.
LEMMA ScanKeeps ==
  ASSUME ChipsIInv, NEW r \in Repairs, Scan(r)
  PROVE  ChipsIInv'
<1> DEFINE concerned == {u \in Posted : Rewritten(r, chips[u]) # chips[u]}
           RowFor(u) == RowPlan(u, Rewritten(r, chips[u]), FALSE, behind[u] \ {r})
<1>1. PICK missed : missed = StillMissed({})
  OBVIOUS
<1>2. PICK plan : plan = [u \in concerned |-> RowFor(u)]
  OBVIOUS
<1>3. PICK e : e = [AtRest EXCEPT !.pc = "read", !.missed = missed, !.plan = plan]
  OBVIOUS
<1>4. work' = [w \in Writers |-> IF w = r THEN e
                                 ELSE IF work[w].pc = "idle" THEN AtRest
                                 ELSE [work[w] EXCEPT !.missed = @ \cup {r}]]
  BY <1>1, <1>2, <1>3 DEF Scan
<1>5. /\ chips' = chips /\ behind' = behind /\ profiles' = profiles /\ mended' = mended /\ replaced' = replaced
      /\ work[r].pc = "idle"
  BY DEF Scan
<1>6. DOMAIN e = WorkFields /\ e.pc = "read" /\ e.catalog = {} /\ e.missed = missed /\ e.plan = plan
  BY <1>3 DEF AtRest, WorkFields
<1>7. \A q \in Repairs : work[q].pc = "read" => q \in missed
  BY <1>1 DEF StillMissed
<1>8. RowsIn(e) = concerned /\ DOMAIN plan = concerned
  BY <1>2, <1>6 DEF RowsIn
<1>9. ASSUME NEW u \in concerned
      PROVE  /\ e.plan[u].chips = Rewritten(r, chips[u]) /\ e.plan[u].read = chips[u]
             /\ LateOf(r, e, e.plan[u]) = (behind[u] \ {r}) \cup missed
  <2>1. plan[u] = RowFor(u) /\ r \notin {"pipeline", "llm"}
    BY <1>2 DEF Repairs
  <2>2. plan[u].chips = Rewritten(r, chips[u]) /\ plan[u].read = chips[u] /\ plan[u].behind = behind[u] \ {r}
    BY <2>1 DEF RowPlan
  <2> QED
    BY <1>6, <2>1, <2>2 DEF LateOf
<1>10. ASSUME NEW u \in Posted
       PROVE  /\ SoundChips(chips[u]) /\ Holds(chips[u], behind[u], profiles, mended)
              /\ SoundChips(Rewritten(r, chips[u])) /\ Clear(r, Rewritten(r, chips[u]))
              /\ \A q \in Repairs : Clear(q, chips[u]) => Clear(q, Rewritten(r, chips[u]))
              /\ \A present : Provided(chips[u], present) => Provided(Rewritten(r, chips[u]), present)
              /\ Lasting(u, chips[u]) => Lasting(u, Rewritten(r, chips[u]))
  <2>1. SoundChips(chips[u]) /\ Holds(chips[u], behind[u], profiles, mended)
    BY DEF ChipsIInv, RowHolds
  <2> QED
    BY <2>1, RewrittenIs, OldIs DEF Lasting
<1> HIDE DEF RowFor
<1>11. WorkStands(r, e, profiles, mended)
  <2>1. r \notin {"pipeline", "llm", "regex"} /\ mended \subseteq Repairs
    BY DEF Repairs, ChipsIInv
  <2>2. ASSUME NEW u \in concerned
        PROVE  /\ SoundChips(e.plan[u].chips)
               /\ Holds(e.plan[u].chips, LateOf(r, e, e.plan[u]), profiles, mended)
               /\ Lasting(u, e.plan[u].read) => Lasting(u, e.plan[u].chips)
    <3>1. Holds(Rewritten(r, chips[u]), (behind[u] \ {r}) \cup missed, profiles, mended)
      BY <1>10, <2>1 DEF Holds, Repairs
    <3> QED
      BY <1>9, <1>10, <3>1
  <2> QED
    BY <1>6, <1>8, <2>1, <2>2 DEF WorkStands
<1>12. /\ \A w \in Writers \ {r} : WorkStands(w, work'[w], profiles, mended)
       /\ \A w \in Writers \ {r} : work'[w].pc = work[w].pc
       /\ \A w \in Writers \ {r} : work[w].pc # "idle" => work'[w].plan = work[w].plan
       /\ \A w \in Writers \ {r} : \A q \in Repairs : Spares(q, w, work[w]) \/ q = r => Spares(q, w, work'[w])
  <2> SUFFICES ASSUME NEW w \in Writers \ {r}
               PROVE  /\ WorkStands(w, work'[w], profiles, mended) /\ work'[w].pc = work[w].pc
                      /\ work[w].pc # "idle" => work'[w].plan = work[w].plan
                      /\ \A q \in Repairs : Spares(q, w, work[w]) \/ q = r => Spares(q, w, work'[w])
    OBVIOUS
  <2>1. PICK f : f = work'[w]
    OBVIOUS
  <2>2. f = IF work[w].pc = "idle" THEN AtRest ELSE [work[w] EXCEPT !.missed = @ \cup {r}]
    BY <1>4, <2>1
  <2> QED
    BY <2>1, <2>2, OthersMissOne
<1>13. work'[r] = e /\ DOMAIN work' = Writers
  BY <1>4 DEF Writers
<1>14. Underway(r)'
  <2>1. ASSUME NEW u \in Posted
        PROVE  IF u \in DOMAIN work'[r].plan THEN Clear(r, work'[r].plan[u].chips)
               ELSE r \in behind'[u] \/ Clear(r, chips'[u])
    <3>1. CASE u \in concerned
      BY <1>6, <1>8, <1>9, <1>10, <1>13, <3>1
    <3>2. CASE u \notin concerned
      BY <1>5, <1>6, <1>8, <1>10, <1>13, <3>2
    <3> QED
      BY <3>1, <3>2
  <2> QED
    BY <1>12, <2>1 DEF Underway
<1>15. ASSUME NEW q \in Repairs \ {r} PROVE Underway(q)'
  <2> SUFFICES ASSUME work'[q].pc = "read"
               PROVE  /\ \A u \in Posted : IF u \in DOMAIN work'[q].plan THEN Clear(q, work'[q].plan[u].chips)
                                           ELSE q \in behind'[u] \/ Clear(q, chips'[u])
                      /\ \A v \in Writers \ {q} : Spares(q, v, work'[v])
    BY DEF Underway
  <2>1. q \in Writers \ {r} /\ work[q].pc = "read" /\ work'[q].plan = work[q].plan
    BY <1>12 DEF Writers
  <2>2. Underway(q)
    BY DEF ChipsIInv
  <2>3. Spares(q, r, e)
    BY <1>7, <1>8, <1>9, <2>1 DEF Spares
  <2> QED
    BY <1>5, <1>12, <1>13, <2>1, <2>2, <2>3 DEF Underway
<1>16. \A u \in Posted : RowHolds(u)'
  BY <1>5 DEF ChipsIInv, RowHolds
<1> QED
  BY <1>5, <1>11, <1>12, <1>13, <1>14, <1>15, <1>16 DEF ChipsIInv

\* Merging profiles repoints every stored chip; plans made before have missed it.
LEMMA DedupeKeeps ==
  ASSUME ChipsIInv, Dedupe
  PROVE  ChipsIInv'
<1>1. /\ chips' = [u \in Posted |-> Repointed(chips[u])]
      /\ behind' = [u \in Posted |-> behind[u] \ {"dedupe"}]
      /\ mended' = mended /\ replaced' = replaced
      /\ work' = [w \in Writers |-> IF work[w].pc = "idle" THEN AtRest
                                    ELSE [work[w] EXCEPT !.missed = @ \cup {"dedupe"}]]
  BY DEF Dedupe
<1>2. profiles' = Seeded \ Dropped
  BY DEF Dedupe, Dropped, ChipsIInv
<1>3. mended \subseteq Repairs /\ "dedupe" \notin Repairs
  BY DEF ChipsIInv, Repairs
<1>4. /\ \A w \in Writers : WorkStands(w, work'[w], profiles', mended)
      /\ \A w \in Writers : work'[w].pc = work[w].pc
      /\ \A w \in Writers : work[w].pc # "idle" => work'[w].plan = work[w].plan
      /\ \A w \in Writers : \A r \in Repairs : Spares(r, w, work[w]) => Spares(r, w, work'[w])
  <2> SUFFICES ASSUME NEW w \in Writers
               PROVE  /\ WorkStands(w, work'[w], profiles', mended) /\ work'[w].pc = work[w].pc
                      /\ work[w].pc # "idle" => work'[w].plan = work[w].plan
                      /\ \A r \in Repairs : Spares(r, w, work[w]) => Spares(r, w, work'[w])
    OBVIOUS
  <2>1. PICK now : now = profiles'
    OBVIOUS
  <2>2. PICK x \in Repairs \cup {"dedupe"} : x = "dedupe"
    OBVIOUS
  <2>3. PICK f : f = work'[w]
    OBVIOUS
  <2>4. f = IF work[w].pc = "idle" THEN AtRest ELSE [work[w] EXCEPT !.missed = @ \cup {x}]
    BY <1>1, <2>2, <2>3
  <2> QED
    BY <2>1, <2>2, <2>3, <2>4, OthersMissOne
<1>5. ASSUME NEW u \in Posted
      PROVE  /\ chips'[u] = Repointed(chips[u]) /\ behind'[u] = behind[u] \ {"dedupe"}
             /\ SoundChips(chips[u]) /\ Holds(chips[u], behind[u], profiles, mended)
             /\ u \in replaced \/ Lasting(u, chips[u])
             /\ SoundChips(Repointed(chips[u])) /\ Provided(Repointed(chips[u]), profiles')
             /\ \A r \in Repairs : Clear(r, chips[u]) => Clear(r, Repointed(chips[u]))
             /\ Lasting(u, chips[u]) => Lasting(u, Repointed(chips[u]))
  <2>1. /\ SoundChips(chips[u]) /\ Holds(chips[u], behind[u], profiles, mended)
        /\ u \in replaced \/ Lasting(u, chips[u])
    BY DEF ChipsIInv, RowHolds
  <2> QED
    BY <1>1, <1>2, <2>1, RepointedIs, OldIs DEF Lasting
<1>6. ASSUME NEW u \in Posted PROVE RowHolds(u)'
  <2>1. Holds(chips'[u], behind'[u], profiles', mended')
    BY <1>1, <1>3, <1>5, <1>6 DEF Holds
  <2> QED
    BY <1>1, <1>5, <1>6, <2>1 DEF RowHolds
<1>7. ASSUME NEW r \in Repairs PROVE Underway(r)'
  <2> SUFFICES ASSUME work'[r].pc = "read"
               PROVE  /\ \A u \in Posted : IF u \in DOMAIN work'[r].plan THEN Clear(r, work'[r].plan[u].chips)
                                           ELSE r \in behind'[u] \/ Clear(r, chips'[u])
                      /\ \A v \in Writers \ {r} : Spares(r, v, work'[v])
    BY DEF Underway
  <2>1. r \in Writers /\ work[r].pc = "read" /\ work'[r].plan = work[r].plan /\ r # "dedupe"
    BY <1>3, <1>4 DEF Writers
  <2>2. /\ \A u \in Posted : IF u \in DOMAIN work[r].plan THEN Clear(r, work[r].plan[u].chips)
                             ELSE r \in behind[u] \/ Clear(r, chips[u])
        /\ \A v \in Writers \ {r} : Spares(r, v, work[v])
    BY <2>1 DEF ChipsIInv, Underway
  <2> QED
    BY <1>4, <1>5, <2>1, <2>2
<1> QED
  BY <1>1, <1>2, <1>3, <1>4, <1>6, <1>7 DEF ChipsIInv

\* What stands in a writer's plan stands in the rows once it is written, for what the
\* writer missed.
LEMMA ApplyMeans ==
  ASSUME ChipsIInv, NEW w \in Writers, work[w].pc \in {"read", "again"}, Apply(w)
  PROVE  /\ DOMAIN chips' = Posted /\ DOMAIN behind' = Posted
         /\ \A u \in Posted : /\ SoundChips(chips'[u]) /\ Holds(chips'[u], behind'[u], profiles, mended)
                              /\ u \in replaced' \/ Lasting(u, chips'[u])
                              /\ w \in Repairs => w \in behind'[u] \/ Clear(w, chips'[u])
         /\ \A r \in Repairs \ {w} : work[r].pc = "read" =>
               \A u \in Posted \ DOMAIN work[r].plan : r \in behind'[u] \/ Clear(r, chips'[u])
<1>1. PICK plan : plan = work[w].plan
  OBVIOUS
<1>2. /\ chips' = [u \in Posted |-> IF u \in DOMAIN plan THEN plan[u].chips ELSE chips[u]]
      /\ behind' = [u \in Posted |-> IF u \in DOMAIN plan THEN LateAt(w, u) ELSE behind[u]]
      /\ replaced' = replaced \cup {u \in DOMAIN plan : plan[u].answered \/ plan[u].read # chips[u]}
  BY <1>1 DEF Apply
<1>3. ASSUME NEW u \in Posted, u \notin DOMAIN plan
      PROVE  chips'[u] = chips[u] /\ behind'[u] = behind[u] /\ (u \in replaced => u \in replaced')
  BY <1>2, <1>3
<1>4. ASSUME NEW u \in Posted, u \in DOMAIN plan
      PROVE  /\ chips'[u] = plan[u].chips /\ behind'[u] = LateOf(w, work[w], plan[u])
             /\ replaced \subseteq replaced'
             /\ plan[u].answered \/ plan[u].read # chips[u] => u \in replaced'
             /\ u \in RowsIn(work[w])
  BY <1>1, <1>2, <1>4 DEF LateAt, LateOf, RowsIn
<1>5. WorkStands(w, work[w], profiles, mended)
  BY DEF ChipsIInv
<1>6. ASSUME NEW u \in Posted
      PROVE  /\ SoundChips(chips'[u]) /\ Holds(chips'[u], behind'[u], profiles, mended)
             /\ u \in replaced' \/ Lasting(u, chips'[u])
             /\ w \in Repairs => w \in behind'[u] \/ Clear(w, chips'[u])
  <2>1. RowHolds(u) /\ (w \in Repairs => Underway(w) /\ work[w].pc = "read")
    BY <1>5 DEF ChipsIInv, WorkStands
  <2>2. CASE u \notin DOMAIN plan
    BY <1>1, <1>3, <2>1, <2>2 DEF RowHolds, Underway
  <2>3. CASE u \in DOMAIN plan
    <3>1. /\ SoundChips(plan[u].chips)
          /\ Holds(plan[u].chips, LateOf(w, work[w], plan[u]), profiles, mended)
          /\ plan[u].answered \/ (Lasting(u, plan[u].read) => Lasting(u, plan[u].chips))
      BY <1>1, <1>4, <1>5, <2>3 DEF WorkStands
    <3>2. w \in Repairs => Clear(w, plan[u].chips)
      BY <1>1, <2>1, <2>3 DEF Underway
    <3>3. u \in replaced' \/ Lasting(u, plan[u].chips)
      BY <1>4, <2>1, <2>3, <3>1 DEF RowHolds
    <3> QED
      BY <1>4, <2>3, <3>1, <3>2, <3>3
  <2> QED
    BY <2>2, <2>3
<1>7. ASSUME NEW r \in Repairs \ {w}, work[r].pc = "read", NEW u \in Posted \ DOMAIN work[r].plan
      PROVE  r \in behind'[u] \/ Clear(r, chips'[u])
  <2>1. (r \in behind[u] \/ Clear(r, chips[u])) /\ Spares(r, w, work[w])
    BY <1>7 DEF ChipsIInv, Underway
  <2>2. CASE u \notin DOMAIN plan
    BY <1>3, <2>1, <2>2
  <2>3. CASE u \in DOMAIN plan
    BY <1>1, <1>4, <2>1, <2>3 DEF Spares
  <2> QED
    BY <2>2, <2>3
<1> QED
  BY <1>2, <1>6, <1>7

\* A writer that has written goes on with no plan, or with the plan it has to send again.
LEMMA WritingKeeps ==
  ASSUME ChipsIInv, NEW w \in Writers, work[w].pc \in {"read", "again"}, Apply(w),
         profiles' = profiles, NEW e, work' = [work EXCEPT ![w] = e],
         e.pc # "read", WorkStands(w, e, profiles, mended),
         \A r \in Repairs : Spares(r, w, work[w]) => Spares(r, w, e),
         mended' = mended \/ (w \in Repairs /\ RowsIn(e) = {} /\ mended' = mended \cup {w})
  PROVE  ChipsIInv'
<1>1. /\ DOMAIN chips' = Posted /\ DOMAIN behind' = Posted
      /\ \A u \in Posted : /\ SoundChips(chips'[u]) /\ Holds(chips'[u], behind'[u], profiles, mended)
                           /\ u \in replaced' \/ Lasting(u, chips'[u])
                           /\ w \in Repairs => w \in behind'[u] \/ Clear(w, chips'[u])
      /\ \A r \in Repairs \ {w} : work[r].pc = "read" =>
            \A u \in Posted \ DOMAIN work[r].plan : r \in behind'[u] \/ Clear(r, chips'[u])
  BY ApplyMeans
<1>2. DOMAIN work' = Writers /\ work'[w] = e /\ \A v \in Writers \ {w} : work'[v] = work[v]
  BY DEF ChipsIInv
<1>3. mended' \subseteq Repairs
  BY DEF ChipsIInv
<1>4. \A u \in Posted : RowHolds(u)'
  BY <1>1 DEF RowHolds, Holds
<1>5. ASSUME NEW v \in Writers PROVE WorkStands(v, work'[v], profiles', mended')
  <2>1. CASE mended' = mended
    BY <1>2, <2>1 DEF ChipsIInv
  <2>2. CASE w \in Repairs /\ RowsIn(e) = {} /\ mended' = mended \cup {w}
    <3>1. CASE v = w
      BY <1>2, <2>2, <3>1 DEF WorkStands
    <3>2. CASE v # w
      <4>1. work[w].pc = "read"
        BY <2>2 DEF ChipsIInv, WorkStands
      <4>2. Spares(w, v, work[v]) /\ WorkStands(v, work[v], profiles, mended)
        BY <2>2, <3>2, <4>1 DEF ChipsIInv, Underway
      <4>3. \A u \in RowsIn(work[v]) :
              Holds(work[v].plan[u].chips, LateOf(v, work[v], work[v].plan[u]), profiles, mended \cup {w})
        BY <4>2 DEF WorkStands, Spares, Holds
      <4>4. WorkStands(v, work[v], profiles, mended \cup {w})
        BY <4>2, <4>3 DEF WorkStands
      <4> QED
        BY <1>2, <2>2, <3>2, <4>4
    <3> QED
      BY <3>1, <3>2
  <2> QED
    BY <2>1, <2>2
<1>6. ASSUME NEW r \in Repairs PROVE Underway(r)'
  <2> SUFFICES ASSUME work'[r].pc = "read"
               PROVE  /\ \A u \in Posted : IF u \in DOMAIN work'[r].plan THEN Clear(r, work'[r].plan[u].chips)
                                           ELSE r \in behind'[u] \/ Clear(r, chips'[u])
                      /\ \A v \in Writers \ {r} : Spares(r, v, work'[v])
    BY DEF Underway
  <2>1. r \in Writers \ {w} /\ work'[r] = work[r]
    BY <1>2 DEF Writers
  <2>2. /\ \A u \in Posted : IF u \in DOMAIN work[r].plan THEN Clear(r, work[r].plan[u].chips)
                             ELSE r \in behind[u] \/ Clear(r, chips[u])
        /\ \A v \in Writers \ {r} : Spares(r, v, work[v])
    BY <2>1 DEF ChipsIInv, Underway
  <2> QED
    BY <1>1, <1>2, <2>1, <2>2
<1> QED
  BY <1>1, <1>2, <1>3, <1>4, <1>5, <1>6 DEF ChipsIInv

\* No plan is left: the writer stops, or goes on to its next chunk.
LEMMA ClearedStands ==
  ASSUME NEW w \in Writers, NEW e, NEW f, NEW present, NEW done, WorkStands(w, e, present, done), e.pc # "idle",
         f = AtRest \/ (w \notin Repairs /\ f = [e EXCEPT !.pc = "loaded", !.plan = NoRows])
  PROVE  WorkStands(w, f, present, done) /\ RowsIn(f) = {} /\ f.pc # "read"
<1>1. CASE f = AtRest
  <2>1. DOMAIN f = WorkFields /\ f.pc = "idle" /\ f.catalog = {}
    BY <1>1 DEF AtRest, WorkFields
  <2>2. RowsIn(f) = {}
    BY <2>1 DEF RowsIn
  <2> QED
    BY <2>1, <2>2 DEF WorkStands
<1>2. CASE w \notin Repairs /\ f = [e EXCEPT !.pc = "loaded", !.plan = NoRows]
  <2>1. DOMAIN e = WorkFields
    BY DEF WorkStands
  <2>2. DOMAIN f = WorkFields /\ f.pc = "loaded" /\ f.catalog = e.catalog /\ f.missed = e.missed
    BY <1>2, <2>1 DEF WorkFields
  <2>3. RowsIn(f) = {}
    BY <2>2 DEF RowsIn
  <2> QED
    BY <1>2, <2>2, <2>3 DEF WorkStands
<1> QED
  BY <1>1, <1>2

\* The pipeline writes the row it has in hand.
LEMMA StorePendingKeeps ==
  ASSUME ChipsIInv, StorePending
  PROVE  ChipsIInv'
<1>1. "pipeline" \in Writers /\ work["pipeline"].pc = "read" /\ Apply("pipeline")
  BY DEF StorePending, Writers, Linkers
<1>2. WorkStands("pipeline", AtRest, profiles, mended) /\ RowsIn(AtRest) = {} /\ AtRest.pc # "read"
  <2>1. WorkStands("pipeline", work["pipeline"], profiles, mended)
    BY <1>1 DEF ChipsIInv
  <2> QED
    BY <1>1, <2>1, ClearedStands
<1>3. \A r \in Repairs : Spares(r, "pipeline", AtRest)
  BY <1>2 DEF Spares
<1> QED
  BY <1>1, <1>2, <1>3, WritingKeeps DEF StorePending

\* A repair writes its rows and is completed.
LEMMA WriteRepairKeeps ==
  ASSUME ChipsIInv, NEW r \in Repairs, WriteRepair(r)
  PROVE  ChipsIInv'
<1>1. r \in Writers /\ work[r].pc = "read" /\ Apply(r)
  BY DEF WriteRepair, Writers
<1>2. WorkStands(r, AtRest, profiles, mended) /\ RowsIn(AtRest) = {} /\ AtRest.pc # "read"
  <2>1. WorkStands(r, work[r], profiles, mended)
    BY <1>1 DEF ChipsIInv
  <2> QED
    BY <1>1, <2>1, ClearedStands
<1>3. \A q \in Repairs : Spares(q, r, AtRest)
  BY <1>2 DEF Spares
<1> QED
  BY <1>1, <1>2, <1>3, WritingKeeps DEF WriteRepair

\* A backfill writes its chunk and goes on.
LEMMA WriteChunkKeeps ==
  ASSUME ChipsIInv, NEW mode \in {"regex", "llm"}, WriteChunk(mode)
  PROVE  ChipsIInv'
<1>1. mode \in Writers /\ mode \notin Repairs /\ work[mode].pc \in {"read", "again"} /\ Apply(mode)
  BY DEF WriteChunk, Writers, Linkers, Repairs
<1>2. PICK e : e = IF work[mode].todo = <<>> THEN AtRest ELSE [work[mode] EXCEPT !.pc = "loaded", !.plan = NoRows]
  OBVIOUS
<1>3. work' = [work EXCEPT ![mode] = e]
  BY <1>2 DEF WriteChunk
<1>4. WorkStands(mode, work[mode], profiles, mended)
  BY <1>1 DEF ChipsIInv
<1>5. WorkStands(mode, e, profiles, mended) /\ RowsIn(e) = {} /\ e.pc # "read"
  <2>1. work[mode].pc # "idle"
    BY <1>1
  <2>2. e = AtRest \/ (mode \notin Repairs /\ e = [work[mode] EXCEPT !.pc = "loaded", !.plan = NoRows])
    BY <1>1, <1>2
  <2> QED
    BY <1>1, <1>4, <2>1, <2>2, ClearedStands
<1>6. \A r \in Repairs : Spares(r, mode, e)
  BY <1>5 DEF Spares
<1> QED
  BY <1>1, <1>3, <1>5, <1>6, WritingKeeps DEF WriteChunk

\* A chunk that was committed unseen stays planned, to be written again.
LEMMA WriteUnconfirmedKeeps ==
  ASSUME ChipsIInv, NEW mode \in {"regex", "llm"}, WriteUnconfirmed(mode)
  PROVE  ChipsIInv'
<1>1. mode \in Writers /\ mode \notin Repairs /\ work[mode].pc = "read" /\ Apply(mode)
  BY DEF WriteUnconfirmed, Writers, Linkers, Repairs
<1>2. PICK e : e = [work[mode] EXCEPT !.pc = "again"]
  OBVIOUS
<1>3. work' = [work EXCEPT ![mode] = e]
  BY <1>2 DEF WriteUnconfirmed
<1>4. WorkStands(mode, work[mode], profiles, mended) /\ DOMAIN work[mode] = WorkFields
  BY <1>1 DEF ChipsIInv, WorkStands
<1>5. /\ DOMAIN e = WorkFields /\ e.pc = "again" /\ e.catalog = work[mode].catalog
      /\ e.missed = work[mode].missed /\ e.plan = work[mode].plan
  BY <1>2, <1>4 DEF WorkFields
<1>6. RowsIn(e) = RowsIn(work[mode]) /\ \A row : LateOf(mode, e, row) = LateOf(mode, work[mode], row)
  BY <1>1, <1>5 DEF RowsIn, LateOf
<1>7. WorkStands(mode, e, profiles, mended)
  BY <1>1, <1>4, <1>5, <1>6 DEF WorkStands
<1>8. \A r \in Repairs : Spares(r, mode, work[mode]) => Spares(r, mode, e)
  BY <1>5, <1>6 DEF Spares
<1> QED
  BY <1>1, <1>3, <1>5, <1>7, <1>8, WritingKeeps DEF WriteUnconfirmed

\* The stored chips' invariant is kept by every step of the scripts and the pipeline,
\* and by a step of neither.
LEMMA ChipsKeep ==
  ASSUME ChipsIInv, [ChipsNext]_chipVars
  PROVE  ChipsIInv'
<1>1. CASE UNCHANGED chipVars
  <2>1. /\ chips' = chips /\ profiles' = profiles /\ work' = work /\ mended' = mended
        /\ behind' = behind /\ replaced' = replaced
    BY <1>1 DEF chipVars
  <2> QED
    BY <2>1 DEF ChipsIInv, RowHolds, Underway
<1>2. CASE LinkPending \/ StorePending
  BY <1>2, LinkPendingKeeps, StorePendingKeeps
<1>3. CASE \E mode \in {"regex", "llm"} : StartBackfill(mode) \/ WriteChunk(mode) \/ WriteUnconfirmed(mode)
  BY <1>3, StartBackfillKeeps, WriteChunkKeeps, WriteUnconfirmedKeeps
<1>4. CASE FetchRegex \/ FetchLlm
  BY <1>4, FetchRegexKeeps, FetchLlmKeeps
<1>5. CASE \E r \in Repairs : Scan(r) \/ WriteRepair(r)
  BY <1>5, ScanKeeps, WriteRepairKeeps
<1>6. CASE \E w \in Writers : ScriptDies(w)
  BY <1>6, ScriptDiesKeeps
<1>7. CASE Dedupe
  BY <1>7, DedupeKeeps
<1> QED
  BY <1>1, <1>2, <1>3, <1>4, <1>5, <1>6, <1>7 DEF ChipsNext

\* The invariant says of the stored chips what is promised of them.
LEMMA ChipsDoStand ==
  ASSUME ChipsIInv
  PROVE  ChipsStand
<1>1. ASSUME NEW u \in Posted, NEW c \in chips[u]
      PROVE  /\ c.type = "outlet" /\ "dedupe" \notin behind[u] => c.id \in profiles
             /\ c.form = "common" => "strip" \notin mended \/ "strip" \in behind[u]
             /\ c.type = "judge"  => "retarget" \notin mended \/ "retarget" \in behind[u]
  <2>1. Holds(chips[u], behind[u], profiles, mended)
    BY DEF ChipsIInv, RowHolds
  <2> QED
    BY <2>1 DEF Holds, Provided, Clear
<1>2. ASSUME NEW u \in Posted, NEW c \in chips[u], NEW d \in chips[u], Target(c) = Target(d), c # d
      PROVE  c.type = "outlet" /\ c.id \in Range(Canonical)
  <2>1. OneEach(chips[u])
    BY DEF ChipsIInv, RowHolds, SoundChips
  <2> QED
    BY <1>2, <2>1 DEF OneEach
<1>3. ASSUME NEW u \in Posted \ replaced, NEW c \in Old[u], Stays(c)
      PROVE  Targets(Heirs(c)) \cap Targets(chips[u]) # {}
  <2>1. PICK d \in chips[u] : Target(d) \in Targets(Heirs(c))
    BY <1>3 DEF ChipsIInv, RowHolds, Lasting, Lasts
  <2>2. Target(d) \in Targets(chips[u])
    BY DEF Targets
  <2> QED
    BY <2>1, <2>2
<1>4. RepairsHold
  BY <1>1 DEF RepairsHold
<1>5. OneChipAnEntity
  BY <1>2 DEF OneChipAnEntity
<1>6. OldChipsStay
  BY <1>3 DEF OldChipsStay, Stays
<1> QED
  BY <1>4, <1>5, <1>6 DEF ChipsStand

\* From the text to the stored row, for every catalog, every order in which the pipeline
\* and the scripts read and write, and a death of a script anywhere: a chip the linker
\* gives is an entity the text names, an outage takes none away, what a repair took away
\* stays away, an entity has one chip, and an old chip or its heir stays.
THEOREM EntityLinksAreKept == EntityLinksSpec => []EntityLinksHold
<1> DEFINE Inv == LinkIInv /\ ChipsIInv
           Step == (LinkNext /\ UNCHANGED chipVars) \/ (ChipsNext /\ UNCHANGED linkVars)
<1>1. InitLinking /\ InitChips => Inv
  <2> SUFFICES ASSUME InitLinking, InitChips PROVE Inv
    OBVIOUS
  <2>1. linkPc = "idle" /\ articles = <<>> /\ tables = "all" /\ links = NoLinks
    BY DEF InitLinking
  <2>2. LinksAreFaithful
    BY <2>1 DEF LinksAreFaithful, BlipsKeepChips, NoChipIsInvented
  <2>3. LinkIInv
    BY <2>1, <2>2, EmptySeq DEF LinkIInv, Tables
  <2> QED
    BY <2>3, ChipsInit
<1>2. Inv /\ [Step]_<<linkVars, chipVars>> => Inv'
  <2> SUFFICES ASSUME Inv, [Step]_<<linkVars, chipVars>> PROVE Inv'
    OBVIOUS
  <2>1. [LinkNext]_linkVars /\ [ChipsNext]_chipVars
    OBVIOUS
  <2>2. LinkIInv'
    BY <2>1, LinkingKeepsLinks
  <2>3. ChipsIInv'
    BY <2>1, ChipsKeep
  <2> QED
    BY <2>2, <2>3
<1>3. Inv => EntityLinksHold
  BY ChipsDoStand DEF LinkIInv, EntityLinksHold
<1> HIDE DEF Inv
<1> QED
  BY <1>1, <1>2, <1>3, PTL DEF EntityLinksSpec, Step

-----------------------------------------------------------------------------
(* Claims of a comparison.                                                  *)

\* A group of the model's that credits outlets of f, or a literal passage of one of them.
IsClaim(c, f) ==
    \/ /\ c.id[2] \in Nat /\ c.id = <<"claim", c.id[2]>>
       /\ Credited(c) \subseteq f
    \/ \E o \in f, kind \in {"backup", "repair"} : c = Literal(o, kind)

\* A list of such claims, one to an id.
AreClaims(list, f) ==
    /\ \A c \in list : IsClaim(c, f)
    /\ \A c, d \in list : c.id = d.id => c = d

\* What stands for an attribution.
IsEarned(p) ==
    \/ p \in upheld
    \/ p[1][1] = "repair" /\ \A other \in asked : other[3] # p[3]
    \/ p[1][1] = "backup" /\ p[3] \in unreviewed

\* The quotation is the outlet's.
IsReal(p) == <<p[1], p[3]>> \in real

\* An outlet with a passage that was upheld, or that nobody could review.
MustBeHeard(o) ==
    \/ Fields(Literal(o, "backup")) \subseteq upheld
    \/ o \in unreviewed /\ <<<<"backup", o>>, o>> \in real

ClaimStages == {"requested", "searched", "grounded", "reviewed", "retained", "formatted"}

\* What is known of the claims at each point of the comparison.
ClaimsStand ==
    /\ claimPc \in {"requested", "searched"} => claims = {} /\ backups = {} /\ real = {}
          /\ asked = {} /\ answer = {}
    /\ claimPc = "grounded" => \A p \in Pairs(claims) : IsReal(p)
    /\ claimPc = "reviewed" =>
          /\ \A p \in Pairs(claims) : IsEarned(p) /\ (p[1][1] = "repair" \/ IsReal(p))
          /\ \A o : <<<<"backup", o>>, "sources", o>> \in upheld => Literal(o, "backup") \in claims
    /\ claimPc = "retained" =>
          /\ \A p \in Pairs(claims) : IsEarned(p) /\ IsReal(p)
          /\ \A o \in found : MustBeHeard(o) => \E c \in claims : o \in Credited(c)

\* Inductive: the passages and what is real of them, and what is known at each point.
ClaimsIInv ==
    /\ claimPc \in ClaimStages
    /\ found \subseteq Range(Requested) /\ unreviewed \subseteq found
    /\ AreClaims(claims, found)
    /\ \E quoted \in SUBSET found : backups = LiteralsOf(quoted, "backup")
    /\ Credits(backups) \subseteq real
    /\ claimPc \in {"grounded", "reviewed"} =>
          \A o : <<<<"backup", o>>, o>> \in real => Literal(o, "backup") \in backups
    /\ claimPc \in {"requested", "searched", "grounded"} => upheld = {} /\ unreviewed = {}
    /\ ClaimsStand
    /\ AnswerIsFair

\* The attributions of a list are those of its claims, each with the claim's id.
LEMMA PairsAre ==
  ASSUME NEW list
  PROVE  /\ \A c \in list : Fields(c) \subseteq Pairs(list)
         /\ \A p \in Pairs(list) : \E c \in list : p \in Fields(c) /\ p[1] = c.id /\ p[3] \in Credited(c)
<1>1. ASSUME NEW c \in list, NEW p \in Fields(c) PROVE p[1] = c.id /\ p[3] \in Credited(c)
  BY DEF Fields, Credited
<1> QED
  BY <1>1 DEF Pairs

\* A claim credits the outlets of its attributions.
LEMMA CreditedAre ==
  ASSUME NEW c, NEW o
  PROVE  o \in Credited(c) <=> \E p \in Fields(c) : p[3] = o
<1>1. ASSUME o \in Credited(c) PROVE \E p \in Fields(c) : p[3] = o
  <2>1. CASE o \in c.sources
    <3>1. <<c.id, "sources", o>> \in Fields(c)
      BY <2>1 DEF Fields
    <3> QED
      BY <3>1
  <2>2. CASE o \in c.for
    <3>1. <<c.id, "for", o>> \in Fields(c)
      BY <2>2 DEF Fields
    <3> QED
      BY <3>1
  <2>3. CASE o \in c.against
    <3>1. <<c.id, "against", o>> \in Fields(c)
      BY <2>3 DEF Fields
    <3> QED
      BY <3>1
  <2> QED
    BY <1>1, <2>1, <2>2, <2>3 DEF Credited
<1>2. ASSUME NEW p \in Fields(c), p[3] = o PROVE o \in Credited(c)
  BY <1>2 DEF Fields, Credited
<1> QED
  BY <1>1, <1>2

\* The attribution of a literal passage.
LEMMA LiteralIs ==
  ASSUME NEW o, NEW kind
  PROVE  /\ Literal(o, kind).id = <<kind, o>> /\ Credited(Literal(o, kind)) = {o}
         /\ Fields(Literal(o, kind)) = {<<<<kind, o>>, "sources", o>>}
         /\ Literal(o, kind).sources = {o} /\ Stands(Literal(o, kind))
BY DEF Literal, Credited, Fields, Stands

\* Filtering takes attributions away and leaves claims.
LEMMA KeepingIs ==
  ASSUME NEW c, NEW ok
  PROVE  /\ Keeping(c, ok).id = c.id /\ Credited(Keeping(c, ok)) \subseteq Credited(c)
         /\ Fields(Keeping(c, ok)) = Fields(c) \cap ok
<1>1. /\ Keeping(c, ok).id = c.id
      /\ Keeping(c, ok).sources = {o \in c.sources : <<c.id, "sources", o>> \in ok}
      /\ Keeping(c, ok).for = {o \in c.for : <<c.id, "for", o>> \in ok}
      /\ Keeping(c, ok).against = {o \in c.against : <<c.id, "against", o>> \in ok}
  BY DEF Keeping
<1>2. Credited(Keeping(c, ok)) \subseteq Credited(c)
  BY <1>1 DEF Credited
<1>3. Fields(Keeping(c, ok)) \subseteq Fields(c) \cap ok
  BY <1>1 DEF Fields
<1>4. Fields(c) \cap ok \subseteq Fields(Keeping(c, ok))
  BY <1>1 DEF Fields
<1> QED
  BY <1>1, <1>2, <1>3, <1>4

\* So does filtering a list: its attributions are allowed ones it had, of claims it had.
LEMMA FilteredIs ==
  ASSUME NEW list, NEW f, NEW ok, AreClaims(list, f)
  PROVE  /\ AreClaims(Filtered(list, ok), f)
         /\ Pairs(Filtered(list, ok)) \subseteq Pairs(list) \cap ok
         /\ \A c \in Filtered(list, ok) : \E d \in list : c.id = d.id
         /\ \A o, kind : Literal(o, kind) \in list /\ <<<<kind, o>>, "sources", o>> \in ok
                            => Literal(o, kind) \in Filtered(list, ok)
<1>1. ASSUME NEW c \in Filtered(list, ok)
      PROVE  \E d \in list : c = Keeping(d, ok) /\ c.id = d.id /\ Stands(c)
  BY KeepingIs DEF Filtered
<1>2. ASSUME NEW o, NEW kind, <<<<kind, o>>, "sources", o>> \in ok
      PROVE  Keeping(Literal(o, kind), ok) = Literal(o, kind)
  BY <1>2 DEF Keeping, Literal
<1>3. ASSUME NEW c \in Filtered(list, ok) PROVE IsClaim(c, f)
  <2>1. PICK d \in list : c = Keeping(d, ok) /\ c.id = d.id /\ Stands(c)
    BY <1>1
  <2>2. CASE d.id[2] \in Nat /\ d.id = <<"claim", d.id[2]>> /\ Credited(d) \subseteq f
    BY <2>1, <2>2, KeepingIs DEF IsClaim
  <2>3. ASSUME NEW o \in f, NEW kind \in {"backup", "repair"}, d = Literal(o, kind)
        PROVE  IsClaim(c, f)
    <3>1. c.sources = {} \/ <<<<kind, o>>, "sources", o>> \in ok
      BY <2>1, <2>3 DEF Keeping, Literal
    <3>2. c.sources # {}
      BY <2>1, <2>3 DEF Keeping, Literal, Stands
    <3> QED
      BY <1>2, <2>1, <2>3, <3>1, <3>2 DEF IsClaim
  <2> QED
    BY <2>2, <2>3 DEF AreClaims, IsClaim
<1>4. \A c, d \in Filtered(list, ok) : c.id = d.id => c = d
  BY <1>1 DEF AreClaims
<1>5. ASSUME NEW p \in Pairs(Filtered(list, ok)) PROVE p \in Pairs(list) /\ p \in ok
  <2>1. PICK c \in Filtered(list, ok) : p \in Fields(c)
    BY PairsAre
  <2>2. PICK d \in list : c = Keeping(d, ok)
    BY <1>1
  <2> QED
    BY <2>1, <2>2, KeepingIs, PairsAre
<1>6. ASSUME NEW o, NEW kind, Literal(o, kind) \in list, <<<<kind, o>>, "sources", o>> \in ok
      PROVE  Literal(o, kind) \in Filtered(list, ok)
  BY <1>2, <1>6, LiteralIs DEF Filtered
<1> QED
  BY <1>1, <1>3, <1>4, <1>5, <1>6 DEF AreClaims

\* A claim's place in the list: two numbers, no other claim's.
LEMMA PlaceIs ==
  ASSUME NEW list, NEW f, f \subseteq Range(Requested), AreClaims(list, f)
  PROVE  /\ \A c \in list : Place(c)[1] \in Nat /\ Place(c)[2] \in Nat
         /\ \A c, d \in list : Place(c)[1] = Place(d)[1] /\ Place(c)[2] = Place(d)[2] => c = d
<1>1. ASSUME NEW o \in f
      PROVE  /\ (CHOOSE i \in DOMAIN Requested : Requested[i] = o) \in DOMAIN Requested
             /\ Requested[CHOOSE i \in DOMAIN Requested : Requested[i] = o] = o
  <2>1. \E i \in DOMAIN Requested : Requested[i] = o
    BY DEF Range
  <2> QED
    BY <2>1
<1>2. DOMAIN Requested \subseteq Nat
  BY ClaimsAssumption, LenProperties
<1>3. ASSUME NEW c \in list
      PROVE  \/ c.id = <<"claim", c.id[2]>> /\ Place(c) = <<1, c.id[2]>> /\ c.id[2] \in Nat
             \/ \E o \in f : /\ c = Literal(o, "repair")
                             /\ Place(c) = <<3, CHOOSE i \in DOMAIN Requested : Requested[i] = o>>
             \/ \E o \in f, n \in {2, 4} :
                  /\ c = Literal(o, "backup")
                  /\ Place(c) = <<n, CHOOSE i \in DOMAIN Requested : Requested[i] = o>>
  <2>1. CASE c.id[2] \in Nat /\ c.id = <<"claim", c.id[2]>>
    <3>1. c.id[1] = "claim"
      BY <2>1
    <3> QED
      BY <2>1, <3>1 DEF Place
  <2>2. ASSUME NEW o \in f, NEW kind \in {"backup", "repair"}, c = Literal(o, kind)
        PROVE  \/ /\ c = Literal(o, "repair")
                  /\ Place(c) = <<3, CHOOSE i \in DOMAIN Requested : Requested[i] = o>>
               \/ \E n \in {2, 4} : /\ c = Literal(o, "backup")
                                    /\ Place(c) = <<n, CHOOSE i \in DOMAIN Requested : Requested[i] = o>>
    <3>1. c.id[1] = kind /\ c.id[2] = o /\ kind # "claim"
      BY <2>2, LiteralIs
    <3>2. CASE kind = "repair"
      BY <2>2, <3>1, <3>2 DEF Place
    <3>3. CASE kind = "backup"
      BY <2>2, <3>1, <3>3 DEF Place
    <3> QED
      BY <3>2, <3>3
  <2> QED
    BY <2>1, <2>2 DEF AreClaims, IsClaim
<1>4. ASSUME NEW c \in list PROVE Place(c)[1] \in Nat /\ Place(c)[2] \in Nat
  BY <1>1, <1>2, <1>3
<1>5. ASSUME NEW c \in list, NEW d \in list, Place(c)[1] = Place(d)[1], Place(c)[2] = Place(d)[2]
      PROVE  c = d
  <2>1. CASE c.id = <<"claim", c.id[2]>> /\ Place(c) = <<1, c.id[2]>>
    <3>1. d.id = <<"claim", d.id[2]>> /\ Place(d) = <<1, d.id[2]>>
      BY <1>3, <1>5, <2>1
    <3> QED
      BY <1>5, <2>1, <3>1 DEF AreClaims
  <2>2. ASSUME NEW o \in f, c = Literal(o, "repair"),
               Place(c) = <<3, CHOOSE i \in DOMAIN Requested : Requested[i] = o>>
        PROVE  c = d
    <3>1. PICK q \in f : /\ d = Literal(q, "repair")
                         /\ Place(d) = <<3, CHOOSE i \in DOMAIN Requested : Requested[i] = q>>
      BY <1>3, <1>5, <2>2
    <3>2. o = q
      BY <1>1, <1>5, <2>2, <3>1
    <3> QED
      BY <2>2, <3>1, <3>2
  <2>3. ASSUME NEW o \in f, NEW n \in {2, 4}, c = Literal(o, "backup"),
               Place(c) = <<n, CHOOSE i \in DOMAIN Requested : Requested[i] = o>>
        PROVE  c = d
    <3>1. PICK q \in f, m \in {2, 4} :
             /\ d = Literal(q, "backup")
             /\ Place(d) = <<m, CHOOSE i \in DOMAIN Requested : Requested[i] = q>>
      BY <1>3, <1>5, <2>3
    <3>2. o = q
      BY <1>1, <1>5, <2>3, <3>1
    <3> QED
      BY <2>3, <3>1, <3>2
  <2> QED
    BY <1>3, <2>1, <2>2, <2>3
<1> QED
  BY <1>4, <1>5

\* Each outlet the list credits is credited first by a claim that adds it.
LEMMA EachIsAdded ==
  ASSUME NEW list, NEW f, f \subseteq Range(Requested), AreClaims(list, f), NEW c \in list, NEW o \in Credited(c)
  PROVE  \E d \in Adding(list) : o \in Credited(d)
<1> DEFINE Of == {d \in list : o \in Credited(d)}
           Firsts == {Place(d)[1] : d \in Of}
<1>1. \A d \in list : Place(d)[1] \in Nat /\ Place(d)[2] \in Nat
  BY PlaceIs
<1>2. Firsts \subseteq Nat /\ Firsts # {}
  BY <1>1
<1>3. PICK n \in Firsts : \A m \in Firsts : n <= m
  <2> HIDE DEF Firsts
  <2> QED
    BY <1>2, LeastOf
<1> DEFINE Seconds == {Place(d)[2] : d \in {e \in Of : Place(e)[1] = n}}
<1>4. Seconds \subseteq Nat /\ Seconds # {}
  BY <1>1, <1>3
<1>5. PICK m \in Seconds : \A k \in Seconds : m <= k
  <2> HIDE DEF Seconds
  <2> QED
    BY <1>4, LeastOf
<1>6. PICK d \in Of : Place(d)[1] = n /\ Place(d)[2] = m
  BY <1>5
<1>7. ASSUME NEW e \in list, Precedes(e, d), o \in Credited(e) PROVE FALSE
  <2>1. e \in Of /\ Place(e)[1] \in Firsts
    BY <1>7
  <2>2. n <= Place(e)[1]
    BY <1>3, <2>1
  <2>3. Place(e)[1] = n => m <= Place(e)[2]
    BY <1>5, <2>1
  <2> QED
    BY <1>1, <1>6, <1>7, <2>1, <2>2, <2>3 DEF Precedes
<1>8. d \in Adding(list)
  BY <1>6, <1>7 DEF Adding
<1> QED
  BY <1>6, <1>8

\* No more claims add an outlet than there are outlets, and the claims that do come
\* before all others: selecting up to MaxClaims loses no outlet.
LEMMA SelectingIsFair ==
  ASSUME NEW list, NEW f, f \subseteq Range(Requested), AreClaims(list, f), \A c \in list : Credited(c) \subseteq f
  PROVE  /\ Selected(list) \subseteq list
         /\ \A c \in list : \A o \in Credited(c) : \E d \in Selected(list) : o \in Credited(d)
<1> DEFINE New(c) == Credited(c) \ UNION {Credited(d) : d \in {e \in list : Precedes(e, c)}}
           first == [c \in Adding(list) |-> CHOOSE o \in New(c) : TRUE]
<1>1. \A c \in list : Place(c)[1] \in Nat /\ Place(c)[2] \in Nat
  BY PlaceIs
<1>2. \A c, d \in list : c = d \/ Precedes(c, d) \/ Precedes(d, c)
  BY <1>1, PlaceIs DEF Precedes
<1>3. ASSUME NEW c \in Adding(list) PROVE c \in list /\ first[c] \in New(c)
  BY DEF Adding
<1>4. ASSUME NEW c \in Adding(list), NEW d \in Adding(list), first[c] = first[d] PROVE c = d
  <2>1. first[c] \in New(c) /\ first[d] \in New(d) /\ c \in list /\ d \in list
    BY <1>3
  <2>2. ~Precedes(c, d) /\ ~Precedes(d, c)
    BY <1>4, <2>1
  <2> QED
    BY <1>2, <2>1, <2>2
<1>5. first \in Injection(Adding(list), f)
  <2>1. \A c \in Adding(list) : first[c] \in f
    BY <1>3
  <2> QED
    BY <1>4, <2>1 DEF Injection, IsInjective
<1>6. IsFiniteSet(f) /\ Cardinality(f) <= Len(Requested)
  <2> DEFINE n == Len(Requested)
             all == Range(Requested)
  <2>1. n \in Nat /\ DOMAIN Requested = 1..n /\ Requested \in [1..n -> all]
    BY ClaimsAssumption, LenProperties
  <2>2. Requested \in Surjection(1..n, all)
    BY <2>1 DEF Surjection, Range
  <2>3. IsFiniteSet(1..n) /\ Cardinality(1..n) = n
    BY <2>1, FS_Interval
  <2>4. IsFiniteSet(all) /\ Cardinality(all) <= n
    <3> HIDE DEF all, n
    <3> QED
      BY <2>2, <2>3, FS_Surjection
  <2>5. f \subseteq all
    OBVIOUS
  <2> HIDE DEF all
  <2>6. IsFiniteSet(f) /\ Cardinality(f) <= Cardinality(all)
    BY <2>4, <2>5, FS_Subset
  <2> QED
    BY <2>1, <2>4, <2>6, FS_CardinalityType
<1>7. IsFiniteSet(Adding(list)) /\ Cardinality(Adding(list)) <= MaxClaims
  <2>1. IsFiniteSet(Adding(list)) /\ Cardinality(Adding(list)) <= Cardinality(f)
    BY <1>5, <1>6, FS_Injection
  <2> QED
    BY <1>6, <2>1, FS_CardinalityType, ClaimsAssumption, LenProperties
<1>8. ASSUME NEW d \in Adding(list) PROVE d \in Selected(list)
  <2> DEFINE Rank(c)     == IF c \in Adding(list) THEN 0 ELSE IF c.disputed THEN 1 ELSE 2
             Ahead(e, c) == Rank(e) < Rank(c) \/ (Rank(e) = Rank(c) /\ Precedes(e, c))
             before == {e \in list : Ahead(e, d)}
  <2>1. Rank(d) = 0
    OBVIOUS
  <2>2. ASSUME NEW e \in before PROVE e \in Adding(list) \ {d}
    <3>1. e \in list /\ Rank(e) = 0 /\ Precedes(e, d)
      BY <2>1
    <3>2. e \in Adding(list)
      BY <3>1
    <3>3. e # d
      BY <1>1, <3>1 DEF Precedes
    <3> QED
      BY <3>2, <3>3
  <2>3. /\ IsFiniteSet(Adding(list) \ {d})
        /\ Cardinality(Adding(list) \ {d}) = Cardinality(Adding(list)) - 1
    BY <1>7, FS_RemoveElement
  <2>4. Cardinality(before) <= Cardinality(Adding(list)) - 1
    <3>1. before \subseteq Adding(list) \ {d}
      BY <2>2
    <3> HIDE DEF before
    <3> QED
      BY <2>3, <3>1, FS_Subset
  <2>5. IsFiniteSet(before)
    <3>1. before \subseteq Adding(list) \ {d}
      BY <2>2
    <3> HIDE DEF before
    <3> QED
      BY <2>3, <3>1, FS_Subset
  <2>6. Cardinality(before) < MaxClaims
    <3> HIDE DEF before
    <3> QED
      BY <1>7, <2>4, <2>5, FS_CardinalityType, ClaimsAssumption
  <2>7. d \in list
    BY <1>3
  <2> QED
    BY <2>6, <2>7 DEF Selected
<1>9. Selected(list) \subseteq list
  BY DEF Selected
<1> QED
  BY <1>8, <1>9, EachIsAdded

\* Literal passages are claims, and their credits are theirs.
LEMMA LiteralsAre ==
  ASSUME NEW f, NEW quoted \in SUBSET f, NEW kind \in {"backup", "repair"}
  PROVE  /\ AreClaims(LiteralsOf(quoted, kind), f)
         /\ \A p \in Pairs(LiteralsOf(quoted, kind)) :
               \E o \in quoted : p = <<<<kind, o>>, "sources", o>>
         /\ \A o : <<<<kind, o>>, o>> \in Credits(LiteralsOf(quoted, kind)) => o \in quoted
         /\ \A c \in Credits(LiteralsOf(quoted, kind)) : c[1][1] = kind
<1>1. \A c \in LiteralsOf(quoted, kind) : \E o \in quoted : c = Literal(o, kind) /\ c.id = <<kind, o>>
  BY LiteralIs DEF LiteralsOf
<1>2. AreClaims(LiteralsOf(quoted, kind), f)
  BY <1>1 DEF AreClaims, IsClaim
<1>3. ASSUME NEW p \in Pairs(LiteralsOf(quoted, kind))
      PROVE  \E o \in quoted : p = <<<<kind, o>>, "sources", o>>
  <2>1. PICK c \in LiteralsOf(quoted, kind) : p \in Fields(c)
    BY PairsAre
  <2> QED
    BY <1>1, <2>1, LiteralIs
<1>4. ASSUME NEW c \in Credits(LiteralsOf(quoted, kind))
      PROVE  \E o \in quoted : c = <<<<kind, o>>, o>>
  <2>1. PICK p \in Pairs(LiteralsOf(quoted, kind)) : c = <<p[1], p[3]>>
    BY DEF Credits
  <2>2. PICK o \in quoted : p = <<<<kind, o>>, "sources", o>>
    BY <1>3
  <2> QED
    BY <2>1, <2>2
<1> QED
  BY <1>2, <1>3, <1>4

\* Lists put together, no id in both but for the same claim.
LEMMA TogetherAre ==
  ASSUME NEW a, NEW b, NEW f, AreClaims(a, f), AreClaims(b, f),
         \A c \in a, d \in b : c.id = d.id => c = d
  PROVE  AreClaims(a \cup b, f) /\ Pairs(a \cup b) = Pairs(a) \cup Pairs(b)
BY DEF AreClaims, Pairs

\* A claim of the model's has another id than a literal passage, and two literal
\* passages with one id are one.
LEMMA LiteralIds ==
  ASSUME NEW f, NEW c, IsClaim(c, f), NEW o, NEW kind \in {"backup", "repair"}, c.id = <<kind, o>>
  PROVE  c = Literal(o, kind)
<1>1. CASE c.id[2] \in Nat /\ c.id = <<"claim", c.id[2]>>
  BY <1>1
<1>2. ASSUME NEW q \in f, NEW k \in {"backup", "repair"}, c = Literal(q, k)
      PROVE  c = Literal(o, kind)
  BY <1>2, LiteralIs
<1> QED
  BY <1>1, <1>2 DEF IsClaim

\* search_sources_node: nothing is claimed yet.
LEMMA SearchingKeepsClaims ==
  ASSUME ClaimsIInv, SearchSources
  PROVE  ClaimsIInv'
<1>1. /\ claims = {} /\ backups = {} /\ real = {} /\ asked = {} /\ answer = {} /\ upheld = {} /\ unreviewed = {}
      /\ claims' = {} /\ backups' = {} /\ real' = {} /\ asked' = {} /\ answer' = {} /\ upheld' = {} /\ unreviewed' = {}
  BY DEF ClaimsIInv, ClaimsStand, SearchSources
<1>2. /\ found' \subseteq Range(Requested)
      /\ claimPc' = "searched" \/ (claimPc' = "formatted" /\ found' = {})
  BY DEF SearchSources
<1>3. AreClaims(claims', found') /\ Pairs({}) = {} /\ Credits({}) = {} /\ LiteralsOf({}, "backup") = {}
  BY <1>1 DEF AreClaims, Pairs, Credits, LiteralsOf
<1>4. AnswerIsFair'
  BY <1>1, <1>2, <1>3 DEF AnswerIsFair, CreditIsEarned, OutletsAreHeard
<1>5. ClaimsStand'
  BY <1>1, <1>2 DEF ClaimsStand
<1> QED
  BY <1>1, <1>2, <1>3, <1>4, <1>5 DEF ClaimsIInv, ClaimStages

\* Short descriptions alone: the literal passages are all the claims, and none was reviewed.
LEMMA QuotingKeepsClaims ==
  ASSUME ClaimsIInv, QuoteDescriptions
  PROVE  ClaimsIInv'
<1>1. PICK quotable \in SUBSET found : claims' = LiteralsOf(quotable, "backup")
  BY DEF QuoteDescriptions
<1>2. /\ backups = {} /\ upheld = {} /\ real' = Credits(claims') /\ claimPc' = "retained"
      /\ unreviewed' = found /\ found' = found /\ backups' = backups /\ upheld' = upheld
  BY DEF QuoteDescriptions, ClaimsIInv, ClaimsStand
<1>3. /\ AreClaims(claims', found)
      /\ \A p \in Pairs(claims') : \E o \in quotable : p = <<<<"backup", o>>, "sources", o>>
      /\ \A o : <<<<"backup", o>>, o>> \in Credits(claims') => o \in quotable
  BY <1>1, LiteralsAre
<1>4. ASSUME NEW p \in Pairs(claims') PROVE (IsEarned(p) /\ IsReal(p))'
  <2>1. PICK o \in quotable : p = <<<<"backup", o>>, "sources", o>>
    BY <1>3
  <2>2. <<p[1], p[3]>> \in real'
    BY <1>2 DEF Credits
  <2> QED
    BY <1>2, <2>1, <2>2 DEF IsEarned, IsReal
<1>5. ASSUME NEW o \in found, MustBeHeard(o)' PROVE \E c \in claims' : o \in Credited(c)
  <2>1. o \in quotable
    <3>1. \/ Fields(Literal(o, "backup")) \subseteq upheld'
          \/ <<<<"backup", o>>, o>> \in real'
      BY <1>5 DEF MustBeHeard, Fields, Literal
    <3>2. ~(Fields(Literal(o, "backup")) \subseteq upheld')
      <4>1. <<<<"backup", o>>, "sources", o>> \in Fields(Literal(o, "backup"))
        BY LiteralIs
      <4> QED
        BY <1>2, <4>1 DEF ClaimsIInv
    <3> QED
      BY <1>2, <1>3, <3>1, <3>2
  <2>2. Literal(o, "backup") \in claims'
    BY <1>1, <2>1 DEF LiteralsOf
  <2> QED
    BY <2>2, LiteralIs
<1>6. ClaimsStand'
  BY <1>2, <1>4, <1>5 DEF ClaimsStand
<1>7. AnswerIsFair'
  BY <1>2 DEF AnswerIsFair, CreditIsEarned, OutletsAreHeard
<1>8. Credits({}) = {} /\ LiteralsOf({}, "backup") = {}
  BY DEF Credits, Pairs, LiteralsOf
<1> QED
  BY <1>2, <1>3, <1>6, <1>7, <1>8 DEF ClaimsIInv, ClaimStages

\* Grounding leaves the model's groups only what is quoted; the passages join them.
LEMMA ExtractingKeepsClaims ==
  ASSUME ClaimsIInv, Extract
  PROVE  ClaimsIInv'
<1>1. PICK proposal \in Proposals, quotable \in SUBSET found :
         \E ok \in SUBSET {credit \in Credits(proposal) : credit[2] \in Modelled} :
            /\ backups' = LiteralsOf(quotable, "backup")
            /\ claims' = Grounded(proposal, ok) \cup backups'
            /\ real' = ok \cup Credits(backups')
  BY DEF Extract
<1>2. PICK ok \in SUBSET {credit \in Credits(proposal) : credit[2] \in Modelled} :
         /\ backups' = LiteralsOf(quotable, "backup")
         /\ claims' = Grounded(proposal, ok) \cup backups'
         /\ real' = ok \cup Credits(backups')
  BY <1>1
<1>3. /\ upheld = {} /\ unreviewed = {} /\ claimPc' = "grounded" /\ found \subseteq Range(Requested)
      /\ found' = found /\ upheld' = upheld /\ unreviewed' = unreviewed
  BY DEF Extract, ClaimsIInv
<1> DEFINE all == Range(Requested) \cup UNION {Credited(c) : c \in proposal}
           kept == Grounded(proposal, ok)
<1>4. \A c \in proposal : /\ c.id[2] \in Nat /\ c.id = <<"claim", c.id[2]>>
                          /\ \A d \in proposal : c.id = d.id => c = d
  BY ClaimsAssumption
<1>5. AreClaims(proposal, all)
  BY <1>4 DEF AreClaims, IsClaim
<1>6. /\ AreClaims(kept, all) /\ \A c \in kept : \E d \in proposal : c.id = d.id
      /\ \A p \in Pairs(kept) : p \in Pairs(proposal) /\ <<p[1], p[3]>> \in ok
  <2>1. PICK allowed : allowed = {p \in Pairs(proposal) : <<p[1], p[3]>> \in ok}
    OBVIOUS
  <2>2. kept = Filtered(proposal, allowed)
    BY <2>1 DEF Grounded
  <2> HIDE DEF all, kept
  <2>3. /\ AreClaims(kept, all) /\ Pairs(kept) \subseteq Pairs(proposal) \cap allowed
        /\ \A c \in kept : \E d \in proposal : c.id = d.id
    BY <1>5, <2>2, FilteredIs
  <2> QED
    BY <2>1, <2>3
<1>7. ASSUME NEW c \in kept PROVE c.id[2] \in Nat /\ c.id = <<"claim", c.id[2]>> /\ Credited(c) \subseteq found
  <2>1. c.id[2] \in Nat /\ c.id = <<"claim", c.id[2]>>
    BY <1>4, <1>6
  <2>2. ASSUME NEW o \in Credited(c) PROVE o \in found
    <3>1. PICK p \in Fields(c) : p[3] = o
      BY CreditedAre
    <3>2. <<p[1], p[3]>> \in ok
      <4>1. p \in Pairs(kept)
        BY <3>1, PairsAre
      <4> QED
        BY <1>6, <4>1
    <3>3. <<p[1], p[3]>>[2] \in Modelled
      BY <3>2
    <3> QED
      BY <3>1, <3>3 DEF Modelled
  <2> QED
    BY <2>1, <2>2
<1>8. AreClaims(kept, found)
  BY <1>6, <1>7 DEF AreClaims, IsClaim
<1>9. /\ AreClaims(backups', found)
      /\ \A o : <<<<"backup", o>>, o>> \in Credits(backups') => o \in quotable
  BY <1>2, LiteralsAre
<1>10. AreClaims(claims', found) /\ Pairs(claims') = Pairs(kept) \cup Pairs(backups')
  <2>1. ASSUME NEW c \in kept, NEW d \in backups', c.id = d.id PROVE FALSE
    <3>1. PICK o \in quotable : d = Literal(o, "backup")
      BY <1>2 DEF LiteralsOf
    <3> QED
      BY <1>7, <2>1, <3>1, LiteralIs
  <2> HIDE DEF kept
  <2> QED
    BY <1>2, <1>8, <1>9, <2>1, TogetherAre DEF kept
<1>11. ASSUME NEW p \in Pairs(claims') PROVE <<p[1], p[3]>> \in real'
  BY <1>2, <1>6, <1>10 DEF Credits
<1>12. ASSUME NEW o, <<<<"backup", o>>, o>> \in real' PROVE Literal(o, "backup") \in backups'
  <2>1. <<<<"backup", o>>, o>> \notin ok
    <3>1. ASSUME NEW p \in Pairs(proposal), <<p[1], p[3]>> = <<<<"backup", o>>, o>> PROVE FALSE
      BY <1>4, <3>1, PairsAre
    <3> QED
      BY <3>1 DEF Credits
  <2>2. o \in quotable
    BY <1>2, <1>9, <1>12, <2>1
  <2> QED
    BY <1>2, <2>2 DEF LiteralsOf
<1>13. ClaimsStand'
  BY <1>3, <1>11 DEF ClaimsStand, IsReal
<1>14. AnswerIsFair'
  BY <1>3 DEF AnswerIsFair, CreditIsEarned, OutletsAreHeard
<1> QED
  BY <1>2, <1>3, <1>10, <1>12, <1>13, <1>14 DEF ClaimsIInv, ClaimStages

\* No answer to parse, or no review: no claim is left to be credited wrongly, and with
\* no review every outlet is unreviewed.
LEMMA FailingKeepsClaims ==
  ASSUME ClaimsIInv, ExtractFails \/ ReviewFails
  PROVE  ClaimsIInv'
<1>1. CASE ExtractFails
  <2>1. /\ claimPc' = "formatted" /\ claims' = {} /\ answer' = {} /\ upheld' = {} /\ unreviewed' = {}
        /\ found' = found /\ backups' = backups /\ real' = real /\ asked' = asked
        /\ claims = {} /\ unreviewed = {}
    BY <1>1 DEF ExtractFails, ClaimsIInv, ClaimsStand
  <2>2. AnswerIsFair'
    <3>1. Pairs({}) = {}
      BY DEF Pairs
    <3>2. ASSUME NEW o PROVE <<<<"backup", o>>, "sources", o>> \in Fields(Literal(o, "backup"))
      BY LiteralIs
    <3>3. CreditIsEarned'
      BY <2>1, <3>1 DEF CreditIsEarned
    <3>4. OutletsAreHeard'
      BY <2>1, <3>2 DEF OutletsAreHeard, LostInForm
    <3> QED
      BY <3>3, <3>4 DEF AnswerIsFair
  <2>3. ClaimsStand'
    BY <2>1 DEF ClaimsStand
  <2> QED
    BY <2>1, <2>2, <2>3 DEF ClaimsIInv, ClaimStages
<1>2. CASE ReviewFails
  <2>1. /\ claimPc' = "reviewed" /\ claims' = {} /\ unreviewed' = found /\ upheld' = {}
        /\ found' = found /\ backups' = backups /\ real' = real /\ claimPc = "grounded"
    BY <1>2 DEF ReviewFails, ClaimsIInv
  <2>2. AreClaims({}, found') /\ Pairs({}) = {}
    BY DEF AreClaims, Pairs
  <2>3. ClaimsStand'
    BY <2>1, <2>2 DEF ClaimsStand
  <2>4. AnswerIsFair'
    BY <2>1 DEF AnswerIsFair, CreditIsEarned, OutletsAreHeard
  <2> QED
    BY <2>1, <2>2, <2>3, <2>4 DEF ClaimsIInv, ClaimStages
<1> QED
  BY <1>1, <1>2

\* A review upholds what it was asked about; a repair is of an outlet nothing was asked
\* about, and only its quotation is still to be checked.
LEMMA ReviewingKeepsClaims ==
  ASSUME ClaimsIInv, Review
  PROVE  ClaimsIInv'
<1>1. PICK failed \in SUBSET found :
         \E yes \in SUBSET {pair \in asked' : pair[3] \notin failed},
            supplied \in SUBSET {o \in found \ failed : \A pair \in asked' : pair[3] # o} :
            /\ upheld' = yes /\ unreviewed' = failed
            /\ claims' = Filtered(claims, yes) \cup LiteralsOf(supplied, "repair")
            /\ \E ok \in SUBSET Credits(LiteralsOf(supplied, "repair")) : real' = real \cup ok
  BY DEF Review
<1>2. PICK yes \in SUBSET {pair \in asked' : pair[3] \notin failed},
           supplied \in SUBSET {o \in found \ failed : \A pair \in asked' : pair[3] # o} :
            /\ upheld' = yes /\ unreviewed' = failed
            /\ claims' = Filtered(claims, yes) \cup LiteralsOf(supplied, "repair")
            /\ \E ok \in SUBSET Credits(LiteralsOf(supplied, "repair")) : real' = real \cup ok
  BY <1>1
<1>3. PICK ok \in SUBSET Credits(LiteralsOf(supplied, "repair")) : real' = real \cup ok
  BY <1>2
<1>4. /\ claimPc = "grounded" /\ claimPc' = "reviewed" /\ asked' = Pairs(claims)
      /\ found' = found /\ backups' = backups /\ found \subseteq Range(Requested) /\ AreClaims(claims, found)
      /\ \A p \in Pairs(claims) : IsReal(p)
      /\ Credits(backups) \subseteq real
      /\ \A o : <<<<"backup", o>>, o>> \in real => Literal(o, "backup") \in backups
  BY DEF Review, ClaimsIInv, ClaimsStand
<1> DEFINE kept == Filtered(claims, yes)
           more == LiteralsOf(supplied, "repair")
<1>5. /\ AreClaims(kept, found) /\ Pairs(kept) \subseteq Pairs(claims) \cap yes
      /\ \A o, kind : Literal(o, kind) \in claims /\ <<<<kind, o>>, "sources", o>> \in yes
                         => Literal(o, kind) \in kept
  BY <1>4, FilteredIs
<1>6. /\ AreClaims(more, found)
      /\ \A p \in Pairs(more) : \E o \in supplied : p = <<<<"repair", o>>, "sources", o>>
      /\ \A c \in Credits(more) : c[1][1] = "repair"
  <2>1. supplied \in SUBSET found
    OBVIOUS
  <2> QED
    BY <2>1, LiteralsAre
<1>7. AreClaims(claims', found) /\ Pairs(claims') = Pairs(kept) \cup Pairs(more)
  <2>1. ASSUME NEW c \in kept, NEW d \in more, c.id = d.id PROVE c = d
    <3>1. PICK o \in supplied : d = Literal(o, "repair")
      BY DEF LiteralsOf
    <3>2. IsClaim(c, found) /\ c.id = <<"repair", o>>
      BY <1>5, <2>1, <3>1, LiteralIs DEF AreClaims
    <3> QED
      BY <3>1, <3>2, LiteralIds
  <2> HIDE DEF kept, more
  <2>2. AreClaims(kept \cup more, found) /\ Pairs(kept \cup more) = Pairs(kept) \cup Pairs(more)
    BY <1>5, <1>6, <2>1, TogetherAre
  <2>3. claims' = kept \cup more
    BY <1>2 DEF kept, more
  <2> QED
    BY <2>2, <2>3
<1>8. ASSUME NEW p \in Pairs(claims') PROVE (IsEarned(p) /\ (p[1][1] = "repair" \/ IsReal(p)))'
  <2>1. CASE p \in Pairs(kept)
    <3>1. p \in upheld' /\ <<p[1], p[3]>> \in real'
      BY <1>2, <1>3, <1>4, <1>5, <2>1 DEF IsReal
    <3> QED
      BY <3>1 DEF IsEarned, IsReal
  <2>2. CASE p \in Pairs(more)
    <3>1. PICK o \in supplied : p = <<<<"repair", o>>, "sources", o>>
      BY <1>6, <2>2
    <3> QED
      BY <3>1 DEF IsEarned
  <2> QED
    BY <1>7, <2>1, <2>2
<1>9. ASSUME NEW o, <<<<"backup", o>>, "sources", o>> \in upheld' PROVE Literal(o, "backup") \in claims'
  <2> DEFINE p == <<<<"backup", o>>, "sources", o>>
  <2>1. p \in yes /\ p \in Pairs(claims)
    BY <1>2, <1>4, <1>9
  <2>2. PICK c \in claims : p[1] = c.id
    BY <2>1, PairsAre
  <2>3. c = Literal(o, "backup")
    BY <1>4, <2>2, LiteralIds DEF AreClaims
  <2> QED
    BY <1>2, <1>5, <2>1, <2>3
<1>10. ASSUME NEW o, <<<<"backup", o>>, o>> \in real' PROVE Literal(o, "backup") \in backups'
  <2>1. <<<<"backup", o>>, o>> \notin ok
    BY <1>3, <1>6
  <2> QED
    BY <1>3, <1>4, <1>10, <2>1
<1>11. ClaimsStand'
  BY <1>4, <1>8, <1>9 DEF ClaimsStand
<1>12. AnswerIsFair'
  BY <1>4 DEF AnswerIsFair, CreditIsEarned, OutletsAreHeard
<1>13. /\ unreviewed' \subseteq found' /\ Credits(backups') \subseteq real'
       /\ \E quoted \in SUBSET found' : backups' = LiteralsOf(quoted, "backup")
  BY <1>2, <1>3, <1>4 DEF ClaimsIInv
<1> QED
  BY <1>4, <1>7, <1>10, <1>11, <1>12, <1>13 DEF ClaimsIInv, ClaimStages

\* Repairs are grounded, the passages nobody reviewed come back, those that another claim
\* speaks for go, and selecting loses no outlet.
LEMMA RetainingKeepsClaims ==
  ASSUME ClaimsIInv, Retain
  PROVE  ClaimsIInv'
<1> DEFINE repairs  == {c \in claims : IsRepair(c)}
           kept     == claims \ repairs
           grounded == Grounded(repairs, real)
           restored == {c \in backups : Restorable(c)}
           all      == (kept \cup grounded) \cup restored
           needed   == {c \in all : IsBackup(c) => ~(c.sources \subseteq Spoken(all))}
<1>1. claims' = Selected(needed)
  BY DEF Retain
<1>2. /\ claimPc = "reviewed" /\ claimPc' = "retained" /\ found' = found /\ unreviewed' = unreviewed
      /\ upheld' = upheld /\ real' = real /\ backups' = backups /\ asked' = asked
  BY DEF Retain
<1>3. /\ found \subseteq Range(Requested) /\ unreviewed \subseteq found /\ AreClaims(claims, found)
      /\ Credits(backups) \subseteq real
      /\ \A o : <<<<"backup", o>>, o>> \in real => Literal(o, "backup") \in backups
      /\ \A p \in Pairs(claims) : IsEarned(p) /\ (p[1][1] = "repair" \/ IsReal(p))
      /\ \A o : <<<<"backup", o>>, "sources", o>> \in upheld => Literal(o, "backup") \in claims
  BY <1>2 DEF ClaimsIInv, ClaimsStand
<1>4. PICK quoted \in SUBSET found : backups = LiteralsOf(quoted, "backup")
  BY DEF ClaimsIInv
<1>5. ASSUME NEW c, IsClaim(c, found) PROVE Credited(c) \subseteq found
  BY <1>5, LiteralIs DEF IsClaim
<1>6. ASSUME NEW c \in kept PROVE c.id[1] # "repair"
  <2>1. c \in claims /\ ~IsRepair(c) /\ IsClaim(c, found)
    BY <1>3 DEF AreClaims
  <2>2. CASE c.id[2] \in Nat /\ c.id = <<"claim", c.id[2]>>
    BY <2>2
  <2>3. ASSUME NEW o \in found, NEW kind \in {"backup", "repair"}, c = Literal(o, kind)
        PROVE  c.id[1] # "repair"
    <3>1. c.id = <<kind, o>>
      BY <2>3, LiteralIs
    <3>2. kind # "repair"
      BY <2>1, <3>1 DEF IsRepair
    <3> QED
      BY <3>1, <3>2
  <2> QED
    BY <2>1, <2>2, <2>3 DEF IsClaim
<1>7. /\ AreClaims(grounded, found) /\ \A c \in grounded : \E d \in repairs : c.id = d.id
      /\ \A p \in Pairs(grounded) : p \in Pairs(repairs) /\ IsReal(p)
  <2>1. PICK allowed : allowed = {p \in Pairs(repairs) : <<p[1], p[3]>> \in real}
    OBVIOUS
  <2>2. grounded = Filtered(repairs, allowed)
    BY <2>1 DEF Grounded
  <2>3. AreClaims(repairs, found)
    BY <1>3 DEF AreClaims
  <2> HIDE DEF grounded, repairs
  <2>4. /\ AreClaims(grounded, found) /\ Pairs(grounded) \subseteq Pairs(repairs) \cap allowed
        /\ \A c \in grounded : \E d \in repairs : c.id = d.id
    BY <2>2, <2>3, FilteredIs
  <2> QED
    BY <2>1, <2>4 DEF IsReal
<1>8. AreClaims(kept \cup grounded, found) /\ Pairs(kept \cup grounded) = Pairs(kept) \cup Pairs(grounded)
  <2>1. AreClaims(kept, found)
    BY <1>3 DEF AreClaims
  <2>2. ASSUME NEW c \in kept, NEW d \in grounded, c.id = d.id PROVE c = d
    <3>1. PICK e \in repairs : d.id = e.id
      BY <1>7
    <3>2. c = e
      BY <1>3, <2>2, <3>1 DEF AreClaims
    <3> QED
      BY <3>1, <3>2
  <2> HIDE DEF kept, grounded
  <2> QED
    BY <1>7, <2>1, <2>2, TogetherAre
<1>9. ASSUME NEW c \in restored PROVE \E o \in unreviewed : c = Literal(o, "backup") /\ o \in quoted
  <2>1. PICK o \in quoted : c = Literal(o, "backup")
    BY <1>4 DEF LiteralsOf
  <2>2. c.sources \cap unreviewed # {} /\ c.sources = {o}
    BY <2>1, LiteralIs DEF Restorable
  <2> QED
    BY <2>1, <2>2
<1>10. AreClaims(all, found) /\ Pairs(all) = Pairs(kept) \cup Pairs(grounded) \cup Pairs(restored)
  <2>1. AreClaims(restored, found)
    <3>1. AreClaims(backups, found)
      BY <1>4, LiteralsAre
    <3> QED
      BY <3>1 DEF AreClaims
  <2>2. ASSUME NEW c \in kept \cup grounded, NEW d \in restored, c.id = d.id PROVE c = d
    <3>1. PICK o \in unreviewed : d = Literal(o, "backup")
      BY <1>9
    <3>2. c.id = <<"backup", o>> /\ IsClaim(c, found)
      BY <1>8, <2>2, <3>1, LiteralIs DEF AreClaims
    <3> QED
      BY <3>1, <3>2, LiteralIds
  <2>3. PICK reviewed : reviewed = kept \cup grounded
    OBVIOUS
  <2>4. AreClaims(reviewed, found)
    BY <1>8, <2>3
  <2>5. \A c \in reviewed : \A d \in restored : c.id = d.id => c = d
    BY <2>2, <2>3
  <2>6. AreClaims(reviewed \cup restored, found)
        /\ Pairs(reviewed \cup restored) = Pairs(reviewed) \cup Pairs(restored)
    <3> HIDE DEF restored
    <3> QED
      BY <2>1, <2>4, <2>5, TogetherAre
  <2> HIDE DEF kept, grounded, restored
  <2> QED
    BY <1>8, <2>3, <2>6
<1>11. ASSUME NEW p \in Pairs(all) PROVE IsEarned(p) /\ IsReal(p)
  <2>1. CASE p \in Pairs(kept)
    <3>1. PICK c \in kept : p \in Fields(c) /\ p[1] = c.id
      BY <2>1, PairsAre
    <3>2. p \in Pairs(claims)
      BY <3>1, PairsAre
    <3> QED
      BY <1>3, <1>6, <3>1, <3>2
  <2>2. CASE p \in Pairs(grounded)
    <3>1. PICK c \in repairs : p \in Fields(c)
      BY <1>7, <2>2, PairsAre
    <3>2. p \in Pairs(claims)
      BY <3>1, PairsAre
    <3> QED
      BY <1>3, <1>7, <2>2, <3>2
  <2>3. CASE p \in Pairs(restored)
    <3>1. PICK c \in restored : p \in Fields(c)
      BY <2>3, PairsAre
    <3>2. PICK o \in unreviewed : c = Literal(o, "backup") /\ o \in quoted
      BY <1>9
    <3>3. p = <<<<"backup", o>>, "sources", o>>
      BY <3>1, <3>2, LiteralIs
    <3>4. p \in Pairs(backups)
      BY <3>1, PairsAre
    <3>5. <<p[1], p[3]>> \in real
      BY <1>3, <3>4 DEF Credits
    <3> QED
      BY <3>3, <3>5 DEF IsEarned, IsReal
  <2> QED
    BY <1>10, <1>11, <2>1, <2>2, <2>3
<1>12. /\ AreClaims(needed, found) /\ \A c \in needed : Credited(c) \subseteq found
       /\ Pairs(needed) \subseteq Pairs(all)
  <2> HIDE DEF all
  <2> QED
    BY <1>5, <1>10 DEF AreClaims, Pairs
<1>13. /\ claims' \subseteq needed
       /\ \A c \in needed : \A o \in Credited(c) : \E d \in claims' : o \in Credited(d)
  <2> HIDE DEF needed
  <2> QED
    BY <1>1, <1>3, <1>12, SelectingIsFair
<1>14. ASSUME NEW o \in found, MustBeHeard(o) PROVE \E c \in claims' : o \in Credited(c)
  <2> DEFINE passage == Literal(o, "backup")
  <2>1. passage \in all
    <3>1. CASE Fields(passage) \subseteq upheld
      <4>1. <<<<"backup", o>>, "sources", o>> \in upheld
        BY <3>1, LiteralIs
      <4>2. passage \in claims /\ passage.id = <<"backup", o>>
        BY <1>3, <4>1, LiteralIs
      <4>3. ~IsRepair(passage)
        BY <4>2 DEF IsRepair
      <4> QED
        BY <4>2, <4>3
    <3>2. CASE o \in unreviewed /\ <<<<"backup", o>>, o>> \in real
      <4>1. passage \in backups /\ passage.id = <<"backup", o>> /\ passage.sources = {o}
        BY <1>3, <3>2, LiteralIs
      <4>2. Restorable(passage)
        BY <3>2, <4>1 DEF Restorable, IsBackup
      <4> QED
        BY <4>1, <4>2
    <3> QED
      BY <1>14, <3>1, <3>2 DEF MustBeHeard
  <2>2. passage.sources = {o} /\ o \in Credited(passage)
    BY LiteralIs
  <2> HIDE DEF passage, all
  <2>3. CASE passage \in needed
    BY <1>13, <2>2, <2>3
  <2>4. CASE o \in Spoken(all)
    <3>1. PICK c \in all : ~IsBackup(c) /\ o \in Credited(c)
      BY <2>4 DEF Spoken
    <3>2. c \in needed
      BY <3>1
    <3> QED
      BY <1>13, <3>1, <3>2
  <2> QED
    BY <2>1, <2>2, <2>3, <2>4
<1>15. AreClaims(claims', found) /\ Pairs(claims') \subseteq Pairs(all)
  <2> HIDE DEF needed, all
  <2> QED
    BY <1>12, <1>13 DEF AreClaims, Pairs
<1>16. ClaimsStand'
  <2>1. \A p \in Pairs(claims') : (IsEarned(p) /\ IsReal(p))'
    <3> HIDE DEF all
    <3> QED
      BY <1>2, <1>11, <1>15 DEF IsEarned, IsReal
  <2>2. \A o \in found' : MustBeHeard(o)' => \E c \in claims' : o \in Credited(c)
    BY <1>2, <1>14 DEF MustBeHeard
  <2> QED
    BY <1>2, <2>1, <2>2 DEF ClaimsStand
<1>17. AnswerIsFair'
  BY <1>2 DEF AnswerIsFair, CreditIsEarned, OutletsAreHeard
<1> QED
  BY <1>2, <1>3, <1>4, <1>15, <1>16, <1>17 DEF ClaimsIInv, ClaimStages

\* The formatted claims credit no more than the claims did, and lose what LostInForm says.
LEMMA FormattingKeepsClaims ==
  ASSUME ClaimsIInv, Format
  PROVE  ClaimsIInv'
<1>1. /\ claimPc = "retained" /\ claimPc' = "formatted" /\ found' = found /\ unreviewed' = unreviewed
      /\ upheld' = upheld /\ real' = real /\ backups' = backups /\ asked' = asked /\ claims' = claims
      /\ answer' = {c \in {Formatted(d) : d \in claims} : Stands(c)}
  BY DEF Format
<1>2. /\ \A p \in Pairs(claims) : IsEarned(p) /\ IsReal(p)
      /\ \A o \in found : MustBeHeard(o) => \E c \in claims : o \in Credited(c)
  BY <1>1 DEF ClaimsIInv, ClaimsStand
<1>3. ASSUME NEW c PROVE Fields(Formatted(c)) \subseteq Fields(c)
  BY DEF Formatted, Fields
<1>4. ASSUME NEW p \in Pairs(answer') PROVE IsEarned(p) /\ IsReal(p)
  <2>1. PICK a \in answer' : p \in Fields(a)
    BY PairsAre
  <2>2. PICK c \in claims : a = Formatted(c)
    BY <1>1
  <2> QED
    BY <1>2, <1>3, <2>1, <2>2, PairsAre
<1>5. CreditIsEarned'
  BY <1>1, <1>4 DEF CreditIsEarned, IsEarned, IsReal
<1>6. ASSUME NEW o \in found, MustBeHeard(o)
      PROVE  LostInForm(o)' \/ \E c \in answer' : o \in Credited(c)
  <2>1. PICK c \in claims : o \in Credited(c)
    BY <1>2, <1>6
  <2>2. CASE Stands(Formatted(c)) /\ o \in Credited(Formatted(c))
    BY <1>1, <2>2
  <2>3. CASE ~(Stands(Formatted(c)) /\ o \in Credited(Formatted(c)))
    BY <1>1, <2>1, <2>3 DEF LostInForm
  <2> QED
    BY <2>2, <2>3
<1>7. OutletsAreHeard'
  <2>1. \A o : Literal(o, "backup").id = <<"backup", o>>
    BY DEF Literal
  <2> QED
    BY <1>1, <1>6, <2>1 DEF OutletsAreHeard, MustBeHeard
<1>8. ClaimsStand'
  BY <1>1 DEF ClaimsStand
<1> QED
  BY <1>1, <1>5, <1>7, <1>8 DEF ClaimsIInv, ClaimStages, AnswerIsFair

\* "Rejected passages cannot re-enter" and "keep at least one supported contribution per
\* outlet": whatever the model proposes, whoever is quotable, whichever reviews fail or
\* reject, and however the outlets asked for are ordered.
THEOREM AnswersAreFair == ClaimSpec => []AnswerIsFair
<1>1. InitClaims => ClaimsIInv
  <2> SUFFICES ASSUME InitClaims PROVE ClaimsIInv
    OBVIOUS
  <2>1. /\ claimPc = "requested" /\ found = {} /\ real = {} /\ claims = {} /\ backups = {} /\ asked = {}
        /\ upheld = {} /\ unreviewed = {} /\ answer = {}
    BY DEF InitClaims
  <2>2. AreClaims({}, {}) /\ Credits({}) = {} /\ LiteralsOf({}, "backup") = {}
    BY DEF AreClaims, Credits, Pairs, LiteralsOf
  <2>3. AnswerIsFair
    BY <2>1 DEF AnswerIsFair, CreditIsEarned, OutletsAreHeard
  <2>4. ClaimsStand
    BY <2>1 DEF ClaimsStand
  <2> QED
    BY <2>1, <2>2, <2>3, <2>4 DEF ClaimsIInv, ClaimStages
<1>2. ClaimsIInv /\ [ClaimNext]_claimVars => ClaimsIInv'
  <2> SUFFICES ASSUME ClaimsIInv, [ClaimNext]_claimVars PROVE ClaimsIInv'
    OBVIOUS
  <2>1. CASE UNCHANGED claimVars
    <3>1. /\ claimPc' = claimPc /\ found' = found /\ real' = real /\ claims' = claims /\ backups' = backups
          /\ asked' = asked /\ upheld' = upheld /\ unreviewed' = unreviewed /\ answer' = answer
      BY <2>1 DEF claimVars
    <3>2. AnswerIsFair'
      BY <3>1 DEF ClaimsIInv, AnswerIsFair, CreditIsEarned, OutletsAreHeard, LostInForm
    <3>3. ClaimsStand'
      BY <3>1 DEF ClaimsIInv, ClaimsStand, IsEarned, IsReal, MustBeHeard
    <3> QED
      BY <3>1, <3>2, <3>3 DEF ClaimsIInv
  <2> QED
    BY <2>1, SearchingKeepsClaims, QuotingKeepsClaims, ExtractingKeepsClaims, FailingKeepsClaims,
       ReviewingKeepsClaims, RetainingKeepsClaims, FormattingKeepsClaims DEF ClaimNext
<1>3. ClaimsIInv => AnswerIsFair
  BY DEF ClaimsIInv
<1> QED
  BY <1>1, <1>2, <1>3, PTL DEF ClaimSpec
=============================================================================
