---------------------------- MODULE MCFeedScreen ----------------------------
(* Three Expenses of two Users, two to a page.                             *)
EXTENDS FeedScreen

CONSTANTS ann, bob
Owners == <<ann, bob, ann>>

\* The cursors behind the places, for rows of which some were logged at one instant.
C == INSTANCE FeedCursor WITH TicksPerMs <- 1
FeedRows == [loggedAt : 0 .. 1, id : 1 .. 2] \cup [loggedAt : {1}, id : {3}]
Parts == [is : {"time", "id", "ID", "|", "other"}, of : {0}]

ASSUME \A rows \in SUBSET FeedRows, limit \in 1 .. 3 : C!PagesAreTheFeed(rows, limit)
ASSUME C!OnlyItsOwnTokens(UNION {[1 .. n -> Parts] : n \in 0 .. 4})
=============================================================================
