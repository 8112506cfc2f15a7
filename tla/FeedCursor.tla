----------------------------- MODULE FeedCursor -----------------------------
(***************************************************************************)
(* The cursor of the Feed: the place in the order (Logged At, id) where a  *)
(* page ends, as the text the next page is asked for with.  FeedScreen     *)
(* takes an Expense for its place and a cursor for the place it holds; why *)
(* it may is stated here.  A row is its Logged At, in the ticks of its     *)
(* column, and its id.  A text is the sequence of its parts.               *)
(***************************************************************************)
EXTENDS Integers, FiniteSets, SequencesExt

CONSTANT TicksPerMs         \* 1 for timestamp(3)

Row(loggedAt, id) == [loggedAt |-> loggedAt, id |-> id]

\* A part [is, of] is the "time" of a millisecond as toISOString writes it, an "id"
\* in lower or an "ID" in upper case, the separator, or "other".
CURSOR_SEPARATOR == [is |-> "|", of |-> 0]

toISOString(moment) == [is |-> "time", of |-> moment \div TicksPerMs]
encodeFeedCursor(row) ==
    <<toISOString(row.loggedAt), CURSOR_SEPARATOR, [is |-> "id", of |-> row.id]>>

isValidLoggedAt(raw) == Len(raw) = 1 /\ raw[1].is = "time"
UUID_PATTERN(raw) == Len(raw) = 1 /\ raw[1].is \in {"id", "ID"}

\* At the first separator; nothing where a 400 is thrown.
decodeFeedCursor(token) ==
    LET separators == {n \in DOMAIN token : token[n] = CURSOR_SEPARATOR}
        index == CHOOSE n \in separators : \A m \in separators : n <= m
        loggedAtRaw == SubSeq(token, 1, index - 1)
        id == SubSeq(token, index + 1, Len(token))
    IN  IF separators = {} \/ ~isValidLoggedAt(loggedAtRaw) \/ ~UUID_PATTERN(id) THEN <<>>
        ELSE <<Row(loggedAtRaw[1].of * TicksPerMs, id[1].of)>>

\* Strictly after the cursor, in the order of the Feed.
After(row, cursor) ==
    \/ row.loggedAt < cursor.loggedAt
    \/ row.loggedAt = cursor.loggedAt /\ row.id < cursor.id
findPage(rows, cursor, take) ==
    LET behind == {r \in rows : cursor # <<>> => After(r, cursor[1])}
        sorted == SetToSortSeq(behind, LAMBDA a, b : After(b, a))
    IN  SubSeq(sorted, 1, IF Len(sorted) < take THEN Len(sorted) ELSE take)

\* A page and the token of the next one; the empty text is null.
getFeed(rows, token, limit) ==
    LET found == findPage(rows, IF token = <<>> THEN <<>> ELSE decodeFeedCursor(token), limit + 1)
        page == SubSeq(found, 1, IF Len(found) < limit THEN Len(found) ELSE limit)
    IN  [items |-> page,
         nextCursor |-> IF Len(found) > limit THEN encodeFeedCursor(Last(page)) ELSE <<>>]

----------------------------------------------------------------------------
\* All the pages of a list, one after the other; as many as there are rows will do.
Scrolled(rows, limit) ==
    LET Next(read, n) ==
            IF read.over THEN read
            ELSE LET page == getFeed(rows, read.token, limit)
                 IN  [items |-> read.items \o page.items, token |-> page.nextCursor,
                      over |-> page.nextCursor = <<>>]
    IN  FoldLeft(Next, [items |-> <<>>, token |-> <<>>, over |-> FALSE],
                 [n \in 1 .. Cardinality(rows) + 1 |-> n])

\* The pages are the list, whatever rows were logged at one instant.  "Raising the
\* column's precision would make the predicate's equality arm miss rows at page
\* boundaries" (feed-cursor.ts:13-15).
PagesAreTheFeed(rows, limit) ==
    LET read == Scrolled(rows, limit)
    IN  /\ read.over
        /\ read.items = SetToSortSeq(rows, LAMBDA a, b : After(b, a))

\* "a malformed cursor is a 400, never a 500": a token decodes only to a place that
\* encodes to it again, but for the case of its id.
OnlyItsOwnTokens(tokens) == \A token \in tokens :
    decodeFeedCursor(token) # <<>> =>
        encodeFeedCursor(decodeFeedCursor(token)[1]) =
            [n \in DOMAIN token |-> IF token[n].is = "ID" THEN [token[n] EXCEPT !.is = "id"]
                                    ELSE token[n]]
=============================================================================
