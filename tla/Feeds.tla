-------------------------------- MODULE Feeds --------------------------------
(***************************************************************************)
(* The feeds and the monitor that notices when an outlet stops: fetching   *)
(* and parsing in services/rss.py, and services/feed_health.py.            *)
(*                                                                         *)
(* A day is one step: its runs fetch every feed, what is new becomes rows, *)
(* and the monitor reads them.  What an entry says is left out; whether it *)
(* is stored already, usable, or breaks the parser is not.                 *)
(***************************************************************************)
EXTENDS Integers, FiniteSets, FiniteSetsExt

CONSTANTS
    FeedList,      \* the feeds of FEEDS; an outlet may have several
    OutletOf,      \* feed -> outlet
    Window,        \* WINDOW_DAYS, also MAX_SILENCE_DAYS
    Floor,         \* STALE_FLOOR_DAYS
    Multiplier,    \* GAP_MULTIPLIER
    LastFeedDay    \* bound: the days considered

ASSUME FeedsAssumption ==
    /\ Window \in Nat \ {0} /\ Floor \in 1..Window /\ Multiplier \in Nat \ {0}
    /\ LastFeedDay \in Nat

Configured == {OutletOf[f] : f \in FeedList}

VARIABLES
    feedDay,
    runDone,   \* today's runs are over and the check is still to come
    rowDays,   \* outlet -> the days its rows in articles were created
    silent,    \* feeds that the last run names as failed or empty
    lastVerdict,   \* outlet -> the monitor's last verdict, "" before the first
    judgedAt   \* outlet -> its last row when that verdict was given

feedVars == <<feedDay, runDone, rowDays, silent, lastVerdict, judgedAt>>

InitFeeds ==
    /\ feedDay = 1 /\ runDone = FALSE /\ silent = {}
    /\ rowDays = [o \in Configured |-> {}]
    /\ lastVerdict = [o \in Configured |-> ""] /\ judgedAt = [o \in Configured |-> 0]

-----------------------------------------------------------------------------
(* fetch_feeds.                                                             *)

\* What a feed serves: entries that are stored already, new ones, and entries
\* whose image width is no number, which the parser does not survive.
Entries == {{}, {"old"}, {"old", "new"}, {"new", "malformed"}, {"no link"}}

Usable(entries) == IF "malformed" \in entries THEN {} ELSE entries \ {"no link"}

\* deduplicate: only entries whose URL and text are not stored become rows.
HasNew(entries) == "new" \in entries

\* One feed that fails, in the request or in the parser, costs no other feed.
FetchFeeds ==
    /\ feedDay <= LastFeedDay /\ ~runDone
    /\ \E down \in SUBSET FeedList : \E served \in [FeedList \ down -> Entries] :
         LET productive == {f \in FeedList \ down : Usable(served[f]) # {}}
             stored == {OutletOf[f] : f \in {g \in productive : HasNew(Usable(served[g]))}}
         IN /\ silent' = FeedList \ productive
            /\ rowDays' = [o \in Configured |-> IF o \in stored THEN rowDays[o] \cup {feedDay}
                                                                ELSE rowDays[o]]
    /\ runDone' = TRUE
    /\ UNCHANGED <<feedDay, lastVerdict, judgedAt>>

-----------------------------------------------------------------------------
(* check_feed_health.                                                       *)

LastRow(o) == Max(rowDays[o])

\* Mutant of ActiveDays: the window ends today.
ActiveDaysToNow(o) == Cardinality({d \in rowDays[o] : d > feedDay - Window})

\* The outlet's rhythm while it was working: the window ends at its last row.
ActiveDays(o) == Cardinality({d \in rowDays[o] : d > LastRow(o) - Window})

\* leash_for: so many typical gaps, Window / n each, between Floor and Window.
BeyondLeash(days, n) ==
    \/ days >= Window
    \/ n > 0 /\ days >= Floor /\ days * n >= Multiplier * Window

Evaluated(o) ==
    IF rowDays[o] = {} THEN "never"
    ELSE LET days == feedDay - LastRow(o)
             n    == ActiveDays(o)
         IN IF n = 0 \/ BeyondLeash(days, n) THEN "stalled"
            ELSE IF days >= Floor THEN "quiet" ELSE "ok"

\* The check may fail, or the process may have died: then the day has no verdict.
CheckFeedHealth ==
    /\ runDone
    /\ \/ /\ lastVerdict' = [o \in Configured |-> Evaluated(o)]
          /\ judgedAt' = [o \in Configured |-> IF rowDays[o] = {} THEN 0 ELSE LastRow(o)]
       \/ UNCHANGED <<lastVerdict, judgedAt>>
    /\ runDone' = FALSE /\ feedDay' = feedDay + 1
    /\ UNCHANGED <<rowDays, silent>>

FeedsNext == FetchFeeds \/ CheckFeedHealth

FeedsSpec == InitFeeds /\ [][FeedsNext]_feedVars

-----------------------------------------------------------------------------
(* Properties.                                                              *)

Severity(v) == CASE v = "ok" -> 0 [] v = "quiet" -> 1 [] v = "stalled" -> 2 [] OTHER -> 0

\* "Only days_since moves and the verdict can only harden": without a new row
\* no later check is milder than an earlier one.
VerdictOnlyHardens ==
    [][\A o \in Configured :
          judgedAt[o] # 0 /\ judgedAt'[o] = judgedAt[o] => Severity(lastVerdict'[o]) >= Severity(lastVerdict[o])]_feedVars
=============================================================================
