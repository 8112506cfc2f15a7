------------------------------ MODULE Ranking ------------------------------
(***************************************************************************)
(* The rows of a Leaderboard: the sums the database makes, the rows the    *)
(* server ranks, and what a Rank Row shows of one.  A User is its place in *)
(* the order of Usernames; an amount is a natural number of the currency.  *)
(***************************************************************************)
EXTENDS Totals

CONSTANTS SHAREABLE_VISIBILITIES, Viewer

\* The Expenses a Leaderboard sums up, and a Friend's screen lists.
Shareable(expenses, owner, range) ==
    {e \in expenses : /\ e.owner = owner /\ e.visibility \in SHAREABLE_VISIBILITIES
                      /\ range.start <= e.date /\ e.date <= range.end}

\* GROUP BY owner and Category: no row without an Expense.
sumShareableByOwnerAndCategory(expenses, owners, range) ==
    {LET group == InCategory(Shareable(expenses, key[1], range), key[2])
     IN  [ownerId |-> key[1], category |-> key[2], amount |-> TotalOf(group)] :
        key \in {<<e.owner, e.category>> :
                    e \in UNION {Shareable(expenses, u, range) : u \in owners}}}

\* Everyone gets a row, whatever the sums; the Username decides between equals.
rowsFor(participants, sums) ==
    LET Row(u) == LET totals == summarizeCategoryTotals({s \in sums : s.ownerId = u})
                  IN  [user |-> u, isViewer |-> u = Viewer,
                       total |-> totals.total, categories |-> totals.categories]
        Above(a, b) == \/ a.total > b.total
                       \/ a.total = b.total /\ a.user < b.user
    IN  SetToSortSeq({Row(u) : u \in participants}, Above)

friendCount(rows) == Len(SelectSeq(rows, LAMBDA row : ~row.isViewer))

mixBarSegments(row) ==
    LET categories == nonzeroCategories(row.categories)
    IN  [n \in DOMAIN categories |->
            [category |-> categories[n].category,
             fraction |-> categoryShare(categories[n].total, row.total)]]

rankBadgeStyle(rank) ==
    IF rank \in 1 .. 3 THEN <<"gold", "silver", "bronze">>[rank] ELSE "surface2"

\* The row of a rank; unfolded it lists the segments, and leads to the Expenses of
\* all but the viewer.
RankRow(rows, rank) ==
    [user |-> rows[rank].user, total |-> rows[rank].total, badge |-> rankBadgeStyle(rank),
     mix |-> mixBarSegments(rows[rank]), opens |-> ~rows[rank].isViewer]

----------------------------------------------------------------------------
(* What a Leaderboard promises, for the Expenses the runs evaluate it on.  *)

RankingOf(expenses, participants, range) ==
    LET sums == sumShareableByOwnerAndCategory(expenses, participants, range)
        rows == rowsFor(participants, sums)
    IN  [rank \in DOMAIN rows |-> RankRow(rows, rank)]

\* "Every Friend appears even with zero matching Expenses", "sorted total
\* descending, ties broken by Username ascending" (leaderboard.service.ts:40).
EveryoneRanked(expenses, participants, range) ==
    LET ranking == RankingOf(expenses, participants, range)
    IN  /\ Len(ranking) = Cardinality(participants)
        /\ {ranking[n].user : n \in DOMAIN ranking} = participants
        /\ \A m, n \in DOMAIN ranking : m < n =>
               \/ ranking[m].total > ranking[n].total
               \/ ranking[m].total = ranking[n].total /\ ranking[m].user < ranking[n].user

\* What a row sums up is what the screen it opens lists (friend/[username].tsx),
\* and its bar is whole: no segment of nothing, no part of the total missing.
RowsAddUp(expenses, participants, range) ==
    LET ranking == RankingOf(expenses, participants, range)
    IN  \A n \in DOMAIN ranking : LET row == ranking[n] IN
            /\ row.total = TotalOf(Shareable(expenses, row.user, range))
            /\ \A s \in DOMAIN row.mix : row.mix[s].fraction[1] > 0
            /\ FoldLeft(LAMBDA sum, s : sum + s.fraction[1], 0, row.mix) = row.total
=============================================================================
