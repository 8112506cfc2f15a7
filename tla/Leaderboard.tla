---------------------------- MODULE Leaderboard ----------------------------
(***************************************************************************)
(* The Leaderboard tab of the app: which Period it asks GET /leaderboard   *)
(* for and which one it shows, while the viewer switches between weeks and *)
(* months, browses back and forth, answers Friend Requests and comes back  *)
(* to the tab.  Every one of these loads, nothing cancels a load under     *)
(* way, and answers arrive in any order, or as errors.                     *)
(*                                                                         *)
(* The rows are left out: Sharing says whose Expenses they sum up.         *)
(***************************************************************************)
EXTENDS Periods

CONSTANTS Call,             \* the loads and actions that can be under way
          FirstDay, LastDay,    \* bound: the days the run lasts
          MaxBack,          \* bound: how many Periods back one browses
          Earliest, Latest  \* bound: the days browsed to

ASSUME BoundsAssumption ==
    /\ FirstDay \in Nat /\ LastDay \in Nat /\ MaxBack \in Nat
    /\ Earliest \in Nat /\ Latest \in Nat
    /\ Earliest <= FirstDay /\ FirstDay <= LastDay /\ LastDay <= Latest

\* The dates with a year and a month reach past every Period shown, and past the
\* month before the earliest of them.
ASSUME CalendarAssumption == \A day \in (Earliest - 93) .. (Latest + 31) : day \in Date

VARIABLES
    today,          \* the server's date in the app timezone
    period, browse, \* what the screen is set to
    status, shown,  \* the screen's LoadState: the Period of the Leaderboard
    call,           \* each load or action under way
    base,           \* history: the day of the last answer without an anchor
    calm            \* history: no setting has changed with a call under way
                    \* since the screen last showed the current Period

settings == <<period, browse>>
vars == <<today, settings, status, shown, call, base, calm>>

\* No anchor asks for the Period the server calls the current one.
NoAnchor == -1
Browse(anchor, offset) == [anchor |-> anchor, offset |-> offset]
CURRENT_PERIOD_BROWSE_STATE == Browse(NoAnchor, 0)

\* A call and the settings its load was made with.
Load(phase, p, anchor, range, day) ==
    [phase |-> phase, period |-> p, anchor |-> anchor, range |-> range, day |-> day]
NoRange == DateRange(0, 0)
NoCall == Load("idle", "week", NoAnchor, NoRange, 0)

Init ==
    /\ today = FirstDay
    /\ period = "week" /\ browse = CURRENT_PERIOD_BROWSE_STATE
    /\ status = "loading" /\ shown = NoRange
    /\ call = [c \in Call |-> NoCall]
    /\ base = FirstDay
    /\ calm = TRUE

Quiet == \A c \in Call : call[c].phase = "idle"

----------------------------------------------------------------------------
(* lib/leaderboard.ts: browsing from what is displayed.                    *)

previousAnchor(displayedStart) == displayedStart - 1
nextAnchor(displayedEnd) == displayedEnd + 1
isNextDisabled == browse.offset = 0

browsePrevious(displayedStart) ==
    Browse(previousAnchor(displayedStart), browse.offset - 1)

browseNextSlip(displayedEnd) ==     \* the current Period keeps its anchor
    Browse(nextAnchor(displayedEnd), browse.offset + 1)
browseNext(displayedEnd) ==
    IF browse.offset + 1 >= 0
    THEN CURRENT_PERIOD_BROWSE_STATE
    ELSE Browse(nextAnchor(displayedEnd), browse.offset + 1)

----------------------------------------------------------------------------
(* leaderboard.tsx                                                         *)

\* `load` with the settings it closes over; a list that is up stays up.
StartLoad(c, p, anchor) ==
    /\ call[c].phase = "idle"
    /\ call' = [call EXCEPT ![c] = Load("sent", p, anchor, NoRange, 0)]
    /\ status' = IF status = "loaded" THEN "loaded" ELSE "loading"

\* The tab gets the focus, or Retry is pressed.
Focus(c) ==
    /\ StartLoad(c, period, browse.anchor)
    /\ UNCHANGED <<today, settings, shown, base, calm>>

\* A new `load` fires the focus effect again; the same one does not.
Set(c, p, b) ==
    /\ status = "loaded"
    /\ period' = p /\ browse' = b
    /\ calm' = (calm /\ Quiet)
    /\ IF <<p, b.anchor>> # <<period, browse.anchor>>
       THEN StartLoad(c, p, b.anchor)
       ELSE UNCHANGED <<call, status>>
    /\ UNCHANGED <<today, shown, base>>

onChangePeriodSlip(c, p) == Set(c, p, browse)       \* keeps the old anchor
onChangePeriod(c, p) == Set(c, p, CURRENT_PERIOD_BROWSE_STATE)

onPressPrevious(c) ==
    /\ browse.offset > -MaxBack /\ previousAnchor(shown.start) >= Earliest
    /\ Set(c, period, browsePrevious(shown.start))

onPressNext(c) ==
    /\ ~isNextDisabled /\ nextAnchor(shown.end) <= Latest
    /\ Set(c, period, browseNext(shown.end))

\* Send, accept or remove a Friend Request, then reload as set at the tap.
runAction(c) ==
    /\ status = "loaded" /\ call[c].phase = "idle"
    /\ call' = [call EXCEPT ![c] = Load("acting", period, browse.anchor, NoRange, 0)]
    /\ UNCHANGED <<today, settings, status, shown, base, calm>>

ActionDone(c) ==
    /\ call[c].phase = "acting"
    /\ call' = [call EXCEPT ![c].phase = "sent"]
    /\ status' = IF status = "loaded" THEN "loaded" ELSE "loading"
    /\ UNCHANGED <<today, settings, shown, base, calm>>

ActionFails(c) ==
    /\ call[c].phase = "acting"
    /\ call' = [call EXCEPT ![c] = NoCall]
    /\ UNCHANGED <<today, settings, status, shown, base, calm>>

\* LeaderboardService.getLeaderboard resolves the Period.
Resolve(c) ==
    LET anchor == IF call[c].anchor = NoAnchor THEN today ELSE call[c].anchor IN
    /\ call[c].phase = "sent"
    /\ call' = [call EXCEPT ![c] = Load("answered", @.period, @.anchor,
                                        periodRangeOf(@.period, anchor), today)]
    /\ UNCHANGED <<today, settings, status, shown, base, calm>>

\* Whichever answer arrives last is what the screen shows.
LoadArrives(c) ==
    /\ call[c].phase = "answered"
    /\ status' = "loaded" /\ shown' = call[c].range
    /\ call' = [call EXCEPT ![c] = NoCall]
    /\ base' = IF call[c].anchor = NoAnchor THEN call[c].day ELSE base
    /\ calm' = (calm \/ ( /\ \A d \in Call \ {c} : call[d].phase = "idle"
                          /\ browse = CURRENT_PERIOD_BROWSE_STATE
                          /\ call[c].period = period /\ call[c].anchor = NoAnchor))
    /\ UNCHANGED <<today, settings>>

LoadFails(c) ==
    /\ call[c].phase \in {"sent", "answered"}
    /\ status' = "error" /\ shown' = NoRange
    /\ call' = [call EXCEPT ![c] = NoCall]
    /\ UNCHANGED <<today, settings, base, calm>>

Midnight ==
    /\ today < LastDay /\ today' = today + 1
    /\ UNCHANGED <<settings, status, shown, call, base, calm>>

Next ==
    \/ \E c \in Call : \/ Focus(c) \/ onPressPrevious(c) \/ onPressNext(c)
                       \/ \E p \in PERIODS : onChangePeriod(c, p)
                       \/ runAction(c) \/ ActionDone(c) \/ ActionFails(c)
                       \/ Resolve(c) \/ LoadArrives(c) \/ LoadFails(c)
    \/ Midnight

Spec == Init /\ [][Next]_vars

----------------------------------------------------------------------------
(* The type of every variable.  The anchor is null exactly at offset 0, and *)
(* the offset never points past the current Period (lib/leaderboard.ts).    *)
TypeOK ==
    /\ today \in FirstDay .. LastDay /\ base \in FirstDay .. LastDay
    /\ period \in PERIODS /\ calm \in BOOLEAN
    /\ browse.anchor \in Nat \cup {NoAnchor}
    /\ browse.offset \in -MaxBack .. 0
    /\ (browse.anchor = NoAnchor) <=> (browse.offset = 0)
    /\ status \in {"loading", "loaded", "error"}
    /\ shown.start \in Nat /\ shown.end \in Nat
    /\ status # "loaded" => shown = NoRange
    /\ \A c \in Call : /\ call[c].phase \in {"idle", "acting", "sent", "answered"}
                       /\ call[c].period \in PERIODS
                       /\ call[c].anchor \in Nat \cup {NoAnchor}

\* The Period n months or weeks back, counted without walking.
MonthsBack(date, n) ==
    LET ym == YearMonth[date]
        m == 12 * ym[1] + ym[2] - 1 - n
    IN  DateRange(firstOfMonth(m \div 12, (m % 12) + 1), firstOfNext(m \div 12, (m % 12) + 1) - 1)
WeeksBack(date, n) == LET start == date - (date % 7) - 7 * n IN DateRange(start, start + 6)
PeriodsBack(p, date, n) == IF p = "month" THEN MonthsBack(date, n) ELSE WeeksBack(date, n)

(* The range shown is the Period as many steps back as the chevrons were     *)
(* pressed, counted from the current one as of its last load, across month   *)
(* and year ends and midnights, and "this week" is shown for offset 0 only:  *)
(* provided no chevron or toggle is pressed while a call is under way.        *)
ShownIsBrowsed ==
    calm /\ Quiet /\ status = "loaded" =>
        shown = PeriodsBack(period, base, -browse.offset)

(* Today and each day shown lie in their Periods; the previous Period of the *)
(* Expenses tab (ExpensesService.statistics) is the one that browsing one *)
(* step back shows, and ends the day before: across month and year ends and  *)
(* leap days.                                                                *)
PreviousIsOneBack ==
    \A p \in PERIODS, d \in {today, shown.start, shown.end} \ {0} :
        LET range == periodRangeOf(p, d)
            previous == previousRangeOf(p, d)
        IN  /\ d \in range.start .. range.end
            /\ previous = periodRangeOf(p, previousAnchor(range.start))
            /\ previous.end + 1 = range.start

(* "True once the current Period is displayed" (lib/leaderboard.ts:57): the  *)
(* Next chevron has nowhere forward to go.  Spec breaks it: Previous pressed *)
(* twice before the first answer counts two steps back and takes one.        *)
NextStopsAtCurrent ==
    Quiet /\ status = "loaded" /\ today \in shown.start .. shown.end => isNextDisabled
=============================================================================
