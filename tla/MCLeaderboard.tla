--------------------------- MODULE MCLeaderboard ---------------------------
(* From Sunday 31 March to Monday 1 April 2024, three Periods back: over a   *)
(* leap day and a turn of the year.                                          *)
EXTENDS Leaderboard, Stamps, TLC

Dates == 738520 .. 739250
CallSymmetry == Permutations(Call)

\* The rows of any Leaderboard of up to three Expenses of a viewer and two Friends,
\* some out of the Period and some private.
R == INSTANCE Ranking WITH CATEGORIES <- <<"food", "other">>, Viewer <- 2,
                           SHAREABLE_VISIBILITIES <- {"shared"}

Participants == 1 .. 3
Logged(id) == [id : {id}, owner : Participants, category : {"food", "other"},
               visibility : {"shared"}, date : {1}, amount : {1, 2}]
                \cup [id : {id}, owner : {1}, category : {"food"},
                      visibility : {"shared", "private"}, date : {0, 1}, amount : {2}]
Logs == {{a, b, c} : a \in Logged(1), b \in Logged(2),
                     c \in {e \in Logged(3) : e.category = "food"}} \cup {{}}

ASSUME \A log \in Logs : R!EveryoneRanked(log, Participants, [start |-> 1, end |-> 2])
ASSUME \A log \in Logs : R!RowsAddUp(log, Participants, [start |-> 1, end |-> 2])

\* The dates of those Periods, the texts that could be one, and moments of a week
\* about midnight and about the ends of the units, on devices all over the world.
ASSUME DatesRoundTrip(Dates, (2023 .. 2024) \X (0 .. 13) \X (0 .. 32))
ASSUME PeriodsToldApart({periodRangeOf(p, d) : p \in {"week"}, d \in 738800 .. 739200})
ASSUME PeriodsToldApart({periodRangeOf(p, d) : p \in {"month"}, d \in 738800 .. 739200})

Midday == 738975 * Day + 12 * Hour
Ahead == {h * Hour : h \in -12 .. 14}
Moments == {Midday - d * Day - m : d \in 0 .. 8, m \in {0, 1, 59, 60, 61, Day - 1}}
ASSUME \A m \in 0 .. 2 * Day, ahead \in Ahead : DefaultIsADayAway(m, ahead)
ASSUME \A ahead \in Ahead : MomentsToldApart(Moments, Midday, ahead)
ASSUME \A m \in Moments : StampIsTrue(m, Midday) /\ StampIsTrue(Midday, m)
=============================================================================
