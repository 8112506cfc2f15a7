------------------------------- MODULE Totals -------------------------------
(***************************************************************************)
(* The sums of a Period, as the server makes them and as the Summary Card  *)
(* shows them.  An entry is [id, category, amount], amounts are natural    *)
(* numbers, and a fraction is the pair of its terms.                       *)
(***************************************************************************)
EXTENDS Integers, Sequences, SequencesExt, FiniteSetsExt

CONSTANT CATEGORIES             \* in the canonical order

TotalOf(entries) == MapThenSumSet(LAMBDA entry : entry.amount, entries)
InCategory(entries, c) == {entry \in entries : entry.category = c}

\* Array.prototype.sort is stable: of equal totals the canonical order decides.
Before(entries, c, d) ==
    LET Total(x) == TotalOf(InCategory(entries, x))
    IN  \/ Total(c) > Total(d)
        \/ Total(c) = Total(d) /\ SelectInSeq(CATEGORIES, LAMBDA x : x = c)
                                    < SelectInSeq(CATEGORIES, LAMBDA x : x = d)

summarizeCategoryTotals(entries) ==
    LET order == SetToSortSeq(ToSet(CATEGORIES), LAMBDA c, d : Before(entries, c, d))
        categories == [n \in DOMAIN order |->
            [category |-> order[n], total |-> TotalOf(InCategory(entries, order[n]))]]
    IN  [total |-> FoldLeft(LAMBDA sum, row : sum + row.total, 0, categories),
         categories |-> categories]

nonzeroCategories(categories) == SelectSeq(categories, LAMBDA row : row.total # 0)

categoryShare(total, periodTotal) ==
    IF periodTotal = 0 THEN <<0, 1>> ELSE <<total, periodTotal>>

NoDelta == [direction |-> "none", fraction |-> <<0, 1>>]
computeStatisticsDelta(total, previousTotal) ==
    IF total = 0 \/ previousTotal = 0 \/ total = previousTotal THEN NoDelta
    ELSE IF total > previousTotal
         THEN [direction |-> "up", fraction |-> <<total - previousTotal, previousTotal>>]
         ELSE [direction |-> "down", fraction |-> <<previousTotal - total, previousTotal>>]

\* The card of one Period, from the totals of it and of the one before.
SummaryCard(current, previousTotal) ==
    LET rows == nonzeroCategories(current.categories)
    IN  [total |-> current.total,
         delta |-> computeStatisticsDelta(current.total, previousTotal),
         rows  |-> [n \in DOMAIN rows |->
                       [category |-> rows[n].category, total |-> rows[n].total,
                        share |-> categoryShare(rows[n].total, current.total)]]]
=============================================================================
