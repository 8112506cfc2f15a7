# spendx, verified

spendx logs expenses and shares them between friends: a NestJS API over Postgres
(`src/backend`) and an Expo app (`src/mobile`).  This directory holds TLA+
models of it, the TLC configurations that check them on small instances, and
proofs, checked by TLAPS, of theorems that hold for instances of any size.

- `tlc -config X.cfg M` model-checks module `M`; the table of runs below says
  which belongs to which.
- `tlapm M.tla` checks the proofs of a `...Proofs` module.
- `PROJECT.json` maps every definition to the source lines it models.

## The system

### Components

| component | state | operations | what makes it correct |
|---|---|---|---|
| Friends and Blocks (`friends/`, `blocks/`) | tables `friend_requests`, `friendships`, `blocks` | send, accept, decline or cancel, unfriend, block, unblock | between two Users at most one of a Block, a Friendship, a pending request; no Friendship without consent; an accepted request is spent |
| One-Time Codes (`one-time-codes/`) | table `one_time_codes`, one row per User and Purpose | issue, confirm | single use, limited guesses, supersession, cooldown |
| Authentication (`auth/`, `users/`) | table `users`; sessions are signed tokens nobody stores | sign-up, sign-in, the guard, `PATCH /users/me` | a session needs a password the account had; a credential change ends the old sessions |
| Email Verification, Password Reset | columns of `users`, their codes, the mailbox | request, confirm | one code, one change |
| Expenses, Likes (`expenses/`, `likes/`) | tables `expenses`, `likes` | log, edit, delete, list, statistics; Like, unlike, list likers | an Expense is seen and Liked by exactly those its Visibility, the Friendships and the Blocks let; the sums are those of the list |
| Feed, Leaderboard, a Friend's Expenses | none: they read | one page, one ranking, one listing | the same rule; pages neither repeat nor skip; sums exact |
| Daily Rates (`daily-rates/`) | table `daily_rates` | catch-up at boot and by cron; conversion while an Expense is logged | a date holds a whole matrix; a failed date costs no other; a rate as current as it should be |
| Domain (`domain/`) | none | calendar dates, Periods, money | pure functions |
| Seed (`prisma/seed.ts`) | rows of a developer's database | four statements, run again at will | a run completes what an earlier one left |
| Feed and Leaderboard screens (`feed.tsx`, `leaderboard.tsx`, `use-like-toggle.ts`) | the items, cursor, Period and flags on screen | load, load more, refresh, Like, block, change of Period | what is shown belongs to what was asked for last |
| People screens (`leaderboard.tsx`, `friend/[username].tsx`, `blocked-accounts.tsx`) | each its list and busy flags | send, accept, decline, cancel, unfriend, block, unblock | the lists keep up with the server; a refusal means somebody else was first |
| Expenses tab and sheets (`index.tsx`, `log-expense.tsx`, `edit-expense/`) | list and card, the sheet and its requests | load on focus, log, edit, delete | the list and the card keep up; a sheet logs once |
| Mobile session (`session-context.tsx`, `use-storage-state.ts`) | token and user in memory, token in the secure store | sign in, sign out, edit the profile, refresh, restore | one identity; the store follows; the copy is the server's; no splash for ever |
| Mobile helpers (`api/`, `lib/`) | none | requests, errors, forms, formatting | the app asks for what there is, predicts what is refused, and says what went wrong |

The rest (vocabularies, DTO wiring, email templates, hashing, configuration, health,
the counting of the throttler, generated contract, designs, layout) has no behaviour
of its own or is a library's; `PROJECT.json` lists it with its reason.

### How they interact

Requests reach Nest controllers through the JWT guard.  A handler is an async
function: it runs until its next `await`, nearly always a database statement,
and the handlers of other requests run in between, in this process or another.
Handlers share only the database.  `$transaction` is used in three places
(accept, block, the upserts of a date's rates) and never with an isolation
level, so everything is READ COMMITTED: a statement sees what is committed when
it runs, and waits for a row that an open transaction has written.  Password
Reset and Email Verification call One-Time Codes and then update `users`, in
statements of their own.  Likes, Feed, Leaderboard and a Friend's Expenses read
the graph first and the Expenses next, in statements of their own.

On the phone a screen is React state and closures.  A tab or screen loads whenever it
gains the focus; there is no shared cache, so what one screen does another learns of
by loading again.  No request is aborted, numbered or timed out: each is a promise whose
continuation runs whenever its answer comes, on whatever is up by then.  Only the
session is shared: the token decides which group of screens is mounted, and a change of
it starts the effect that asks who it is.

### What is hard about it

Check-then-act across awaits (send, issue, confirm, the Like gate); rows deleted
or replaced by an id read earlier (confirm, accept); a Block committing beside an
accept it cannot see; locks taken in opposite orders (accept, block); a stamp
computed before it is written (Password Reset) and a token signed after a hash
comparison (sign-in); crashes between a code and the change it buys; two
catch-ups over the same dates; midnight during a conversion.  On the phone: pages,
Likes and Blocks in flight together; loads that overlap; answers that arrive after the
screen, the sheet or the session has moved on; requests carried out whose answer is
lost, or that are carried out after the app gave them up; another device of the same User;
one busy flag for many rows; a secure store whose reads and writes may fail with nobody to
hear of it; restarts.
`PROJECT.json` lists the hazards one by one with the properties aimed at each.

## The modules

| module | models | grain of an action |
|---|---|---|
| `FriendshipRules` | what friends and blocks promise | a whole request |
| `SocialGraph` (`MCSocialGraph`) | friend-requests, friendships and blocks services and repositories | a database statement |
| `CodeRules` | what One-Time Codes promise | a whole call |
| `OneTimeCodes` (`MCOneTimeCodes`) | `OneTimeCodesService` | the code between two awaits |
| `Accounts` (`MCAccounts`) | auth, users, email-verification, password-reset, the guard; codes by `CodeRules` | the code between two awaits |
| `Sharing` (`MCSharing`) | likes, expenses, feed, leaderboard, a Friend's Expenses; graph by `FriendshipRules` | a database statement |
| `DailyRates` (`MCDailyRates`) | daily-rates and the conversion of an Expense | a database statement, a fetch |
| `FeedScreen` (`MCFeedScreen`) | the Feed tab, the Like pill and the Block menu over the pages of `GET /feed` | a tap, a response, a database statement |
| `Leaderboard` (`MCLeaderboard`) | the Leaderboard tab's Period browsing over `GET /leaderboard` | a tap, a response |
| `PeopleScreens` (`MCPeopleScreens`) | Friend Requests on the Leaderboard tab, a Friend's screen, the Blocked accounts | a tap, a request served, a response |
| `ExpensesTab` (`MCExpensesTab`) | the Expenses tab, its sheets, and the list and statistics behind them | a tap, a response, a database statement |
| `Session` (`MCSession`) | the session context, the secure store, the forms and the profile's requests | a tap, a request served, a response, a write that lands |
| `Periods` | `domain/period.ts`: ISO weeks and calendar months, on day numbers | pure |
| `Stamps` | `domain/calendar-date.ts` and the app's dates and times | pure |
| `Amounts`, `Totals`, `Ranking` | amounts as text; the sums of a Period and its card; the rows of a Leaderboard | pure |
| `FeedCursor` | `feed-cursor.ts` and the keyset of a page | pure |
| `SeedData` | `prisma/seed.ts` | pure: a database to a database |
| `Forms`, `Answers`, `Routes` | what forms send and bodies accept; what an answer becomes on screen; routes and calls | pure |
| `...Proofs` (eight) | theorems | |

Two levels meet twice.  `SocialGraph` implements `FriendshipRules`, and `OneTimeCodes`
implements `CodeRules`, when handlers run one at a time (`ImplementsRules`, checked on an
instance and proved for all of them); `Sharing` and `Accounts` then use the rules in place
of the statements, and `PeopleScreens` takes each handler as one step.  Where handlers
overlap the rules are broken in ways a later section lists.  Of the properties of
overlapping handlers in `Accounts` and `Sharing` only `EveryChangeHasItsCode` depends on
the promise, and only on this part of it: no code is confirmed twice, which is proved for
every interleaving (`CodesAreSingleUse`).

**SocialGraph.**  `friendRequest`, `friendship` and `block` are the committed
rows.  A handler is a slot of the server: `pc` is its next statement, `job` its
caller and the row it found, `tx` the uncommitted writes of its transaction.
`accept` is find, sweep of both directions, upsert of the Friendship, commit;
`block` is two checks, then create, sever, sweep, commit; `send` is three checks
and a create that the unique index may refuse.  `Held` is the row lock a statement
waits for.  `Abort` is every way a statement can fail.  The ids are ordered, as
`orderedFriendPair` orders them.  `sent` and `accepted` are history.

**OneTimeCodes.**  `row` is the one live row of a User and a Purpose.  Codes are
numbered as they are generated; a guess is any code or none.  `issue` reads the
clock, reads the row, upserts; `confirm` reads the row, compares hashes, then
increments or deletes by the id it read.  Replacing a row keeps its id, which is
where most of the interesting behaviour comes from.

**Accounts.**  One `users` row, the tokens handed out, the codes of both Purposes
and the mailbox.  The clock ticks `Second` times a second because a token's `iat`
has seconds and `credentialsChangedAt` milliseconds.  A mail may be lost, a code
may lapse, a handler may die at any await.

**Sharing.**  `visibility` is the state of each Expense, `likes` the rows.  Each
reading route is its sequence of reads (`GateFind`, `GateCheckBlock`, ...,
`FeedReadBlocks`, `FeedFind`), and `answer` is what its response lists or sums up.
`ever` records, during each handler, what spoke for showing an Expense, and `alone`
whether no other handler has changed a table since it began: a handler that ran
alone must answer exactly by the rule, any other only with what the rule allowed at
some moment of its run.

**DailyRates.**  A date is a day number, a pair a place in the provider's matrix;
`rates` says where each rate came from.  A catch-up counts a date, fetches it,
upserts pair by pair in one transaction, and goes on to the next date, whatever
failed.  A conversion reads the date once and looks each pair up on its own.

**FeedScreen.**  An Expense is its place in the order (Logged At, id), so the
two-key cursor is one number and the keyset a comparison; `FeedCursor` says why that
may be.  `status`, `items` and `cursor` are the screen's `LoadState`; `request`, `like`
and `block` are what is in flight, each of which may fail at any point.  `ReadBlocks`
and `FindPage` are the two statements of `FeedService`; `LoadArrives` and `MoreArrives`
the continuations of `load` and `loadMore`; `TapLike` to `LikeLost` are `useLikeToggle`;
`ConfirmBlock` to `BlockFails` the card's menu.  `Publish`, `Hide`, `BlockElsewhere` and
`Unblock` are everybody else.  The history says what a property may count on: `steady`
(and `fresh`, for the page in flight) the Expenses in sight since the list was asked
for, `crossed` a refresh that overtook a next page, `doubted` (and `met`) the pills
whose Like met a page in flight or ended unknown, `banned` the Users blocked with no
older page under way.

**Leaderboard** and **Periods.**  A date is the number of its day, Monday 1 January
of the year 1 being day 0, so an ISO week is arithmetic and a month a search for the
two firsts around a day.  `period` and `browse` are the screen's settings, `shown` the
range of the Leaderboard on screen, `call` each load or action with the settings its
closure captured.  `base` is the day of the last answer that was not anchored; `calm`
says that no chevron or toggle has been pressed with a call in flight since the
current Period was last shown.

**PeopleScreens.**  `tie`, `blocks` and `blockedBy` are what the server holds between
the User and each other one; a Friend Request has a number, so that an id of an earlier
one is refused as the server refuses it.  `tab` and `over` are what the navigator has
up, `Go` what `useFocusEffect` does when that changes.  A call of the Leaderboard tab
goes from `sent` through `done` to the load it awaits; a call of a screen pushed over it
is `own` until the screen is popped.  `behind` holds the lists that something changed
without their being asked for again, `news` the calls that were overtaken or pressed on a
list that was loading again.

**ExpensesTab.**  `rows` are the Expenses in the order of Logged At, `load` each load
with the statements it has run, `req` the requests of sheets, which lose their `own`
when the sheet closes and still go back a screen when they succeed (`Back`, for which
expo-router may choose either place when there is nothing to pop).  Amounts are typed,
parsed, stored, fixed to the scale of the column and prefilled through `Amounts`; the
card is `Totals` over what the ranges of `Periods` select.  A conversion is a factor per
currency.  That an amount comes back from its decimal as it was is an assumption on the
amounts the instance has (`AmountsReturn`).  `overtaken` and `unattended` are the history the
properties are voided by.

**Session.**  `token` and `user` are React state, `store` the secure store, `writes` the
writes nobody awaits, `resolve` the effect's `GET /users/me` per token, `form` and `call`
the submissions and profile requests under way.  An account is the set of its fields
changed since sign-up, so an older copy has fewer.  A request that fails, or that a
killed app leaves behind, is `lost`: the server may still carry it out (`ServedLate`).  The
Users of `Twin` are signed in on another device too and change their account there
(`Elsewhere`), which the app learns of from its next answer, or from the 409 of a resend,
after which it asks.  The secure store may refuse a write, which nobody hears of, and the
read at start, which nothing catches (`rejected`).  A button is busy where the code keeps
it so: a row of the Profile for as long as the session, the buttons of the Verify Email
screen for one mount of it only.  `Kill` ends the process with all that has not landed.
`astray`, `outlived`, `stale` and `doubted` are history.

**The pure modules** are operators over small values and the facts the program relies
on, each quoting the comment that states it.  They are evaluated, as assumptions of the
MC module of the component that uses them, over every input of a bounded kind, and where
they are about all inputs and need no induction they are theorems:

| facts | in | evaluated by |
|---|---|---|
| `ClientPredictsServer`, `PrefillParses` | `Amounts` | `MCExpensesTab`: texts of 5 characters, amounts of 3 digits |
| `EveryoneRanked`, `RowsAddUp` | `Ranking` | `MCLeaderboard`: logs of a few Expenses of three Users |
| `DatesRoundTrip`, `PeriodsToldApart`, `DefaultIsADayAway`, `MomentsToldApart`, `StampIsTrue` | `Stamps` | `MCLeaderboard`: the days around, texts of two years, a year of Periods, two days of minutes |
| `PagesAreTheFeed`, `OnlyItsOwnTokens` | `FeedCursor` | `MCFeedScreen`: every set of a few rows, tokens of up to 4 parts |
| `RunCompletes`, `LoggedOnTheirDay` | `SeedData` | `MCDailyRates`: foreign rows, a run stopped after any statement, a deleted Expense |
| `FormsMirrorBodies`, `EmailsFindTheirAccount`, `CodesFit` | `Forms` | `MCSession`: texts of up to 5 or 6 characters, the lengths scaled down |
| `EveryFailureIsTold`, `CurrencyBlamedRightly`, `ConflictsFindTheirField`, `CountdownCoversCooldown` | `Answers` | `MCSession`: every status, body and header of a kind |
| `CallsReachTheirRoutes`, `FixedRoutesShadowNobody`, `EveryRouteIsThrottled` | `Routes` | `MCSession`: all routes and calls, each segment of a route tried as a value |

An operator `XSlip` is `X` with a plausible mistake.  No specification uses it;
putting it in the place of `X` must break a property, which shows that the
property speaks about the code.

## The runs

| run | instance | checks |
|---|---|---|
| `SocialGraph` | 2 slots, 2 requests; 3 Users one handler at a time, 2 when they overlap | `TypeOK`, `AcceptedIsSpent`, `FriendshipHasConsent`, `Answered`; alone `ImplementsRules` |
| `AcceptDuringBlock` | 2 Users, 2 slots, 1 request | `BlockSevers` fails |
| `OneTimeCodes` | 2 slots, 3 codes, 2 wrong guesses | `TypeOK`, `WrongGuessesBounded`, `SingleUse`; alone `CountsOwnGuesses`, `ImplementsRules` |
| `Accounts` | 2 slots; 3 passwords, 2 codes, 2 tokens, fewer when handlers overlap | `TypeOK`, `SessionNeedsPassword`, `EveryChangeHasItsCode`; alone `OldPasswordSessionsEnd`, `RevokedStaysRevoked` |
| `Sharing` | 2 Users, 1 Expense, 2 slots | `TypeOK`, `ShownIsVouched`, `LikedIsVouched`; of a handler alone `ShownExactly` |
| `DailyRates` | 2 catch-ups, 2 pairs, 2 days, window of 2 | `TypeOK`, `MatrixWhole`, `RunCovers`, `EntriesAreCurrent`, `RunsEnd` |
| `FeedScreen` | 3 Expenses of 2 Users, 2 to a page | `TypeOK`, `EachOnce`, `BlockedStayGone`, `PillsAgree` |
| `Leaderboard` | 2 calls, 31 March and 1 April 2024, 3 Periods back | `TypeOK`, `ShownIsBrowsed`, `PreviousIsOneBack` |
| `BrowsedAhead` | the same | `NextStopsAtCurrent` fails |
| `Session` | 2 Users, one of them with another device, 2 sessions, 1 restart, 2 requests and 2 writes under way | `OneIdentity`, `StoreFollows`, `CopyIsFresh`, `SplashEnds` |
| `ExpensesTab` | 1 Expense to begin with, 2 changes, 2 loads or requests under way | `ListKeepsUp`, `CardMatchesList`, `SheetLogsOnce` |
| `PeopleScreens` | 2 other Users, 2 calls, 2 changes | `ListsKeepUp`, `RefusalsAreNews` |

`MCSocialGraph`, `MCOneTimeCodes` and `MCAccounts` choose at the start of a behaviour
whether handlers run one at a time (`alone`), which is how the integration suite drives
the API, or overlap.  Properties marked alone are the code's promises as its documents
state them, and overlapping handlers break nearly all of them; the others survive every
interleaving.  `RacingUser`, `RacingPassword`, `RacingTokens` and `RacingTime` are the
smaller bounds of the behaviours that overlap.  `MCExpensesTab` likewise chooses
(`overlap`) between loads that overlap, each read at one moment, and one load at a time
read statement by statement.

### Bounds, and why they are enough

- *Slots.*  Every race in this code is between two handlers over one row or pair.
  The properties proved below hold for any number.
- *Users.*  The graph's rules are about pairs.  A third User is there where a rule
  could be broken through somebody else: another's request.
- *Requests, codes, passwords, tokens.*  Two requests make the two directions of a
  pair, or a request renewed after its end; two codes make a supersession, three a
  supersession after a use; two wrong guesses make a last one and one before it.
  `MaxRequests` and `MaxTokens` stop a handler from *starting*; what began always
  goes on.  `MaxCodes`, `MaxTime` and `MaxDay` end the instance: a handler that
  needs another code then stays where it is (or dies).
- *The clock.*  `MaxTime` covers a cooldown, an expiry and a tick after it; in
  Accounts two whole seconds of two ticks.
- *Expenses.*  They are independent of each other in all that Sharing models, so one
  is enough there.  The Feed's pages are where they are not: with three and two to a
  page there is a page that is full with nothing after it, a page with a next one, a
  next page one long or empty, and an Expense that appears or goes before, at and
  after the cursor.  `Tapped` and `Rival` leave one pill and one User to block: pills
  and Blocks do not touch one another, and ann owns the first Expense and the last,
  so her Block empties both pages while bob's Expense stays between.
- *Periods.*  The two days are a month's last and the next one's first, a Sunday and
  a Monday, so that a midnight ends both Periods at once; three months back lead over
  29 February and the turn of the year, and `Earliest` and `Latest` leave room for
  any path of three steps.  `Date` only has to contain the days so reached and the months
around them, which `CalendarAssumption` states.  Two calls
  are the least that can answer in the wrong order.
- *Days.*  Two days and `Backfill = 1` have a day alone, a midnight, an unpublished
  and a partly seeded date, two dates in a window and a date served by the day before
  it.  Three days, where the window also leaves a date behind, pass the safety
  properties too (1.8 million states); liveness is too slow there.
- *The Expenses tab.*  One Expense on the last day of the previous week and those
  logged on the last day of this one are at the ends of both ranges; two changes are a
  log and an edit, a log and a log again, or a deletion and what another device did.
  `MaxUnderWay` = 2 is two loads, two requests, or one of each.
- *People.*  With two other Users a row can be acted on while another one is; two
  calls are an action and a load that cross; two changes are what the User does and what
  somebody else does.
- *The session.*  Two Users and two tokens are a sign-out followed by another's sign-in,
  or two devices of one account; one field of the profile and the email's stamp are two
  fields that two requests may write; one User with another device and one without; two
  writes under way can land in either order; one restart meets every state, and one after
  a rejected read is not counted.  `MCSession` takes the first free form or request, the
  names being alike, and has no more than `MaxPending` = 3 submissions, requests and
  writes under way together.

`CHECK_DEADLOCK FALSE` is set for Accounts only: when its clock, codes and tokens
are used up nothing is left to happen.

### Fairness

`SocialGraph!FairSpec` has strong fairness on what a handler that has begun does
next: the event loop runs a handler whose statement has returned, and a statement
that waits for a row lock is in Postgres' queue for it, so it is not overtaken for
ever by newcomers.  `Victim` is weakly fair: Postgres' deadlock detector aborts
one of two transactions that wait for each other.  Both are needed.  Accept locks
the requests and then the Friendship, a Block the Friendship and then the
requests; the cycle is reachable, and without `Victim` `Answered` fails.  Nothing
else, a failure in particular, is assumed to happen.

`DailyRates!FairSpec` has weak fairness on counting and committing and on a fetch
ending one way or the other (the provider's `fetch` carries a timeout), and strong
fairness on an upsert, which waits for a row lock.  It does not assume that a date
is published, that midnight comes or that a cron fires.

`Session!FairSpec` has weak fairness on the secure store's answer to the read at start,
if only an error, after which `SplashEnds` asks for nothing, and on the `GET /users/me` of each token ending one way or another: the app gives it no
timeout of its own, so that one is the platform's.  Nothing is assumed of the User, of
the writes of the store or of any other request.

No other module states liveness: a request that loses a race is answered at once, and a
screen whose request is never answered waits until it is left.

## What the code does against its documents

Two runs show disagreements (`findings` in `PROJECT.json` quotes both sides).

- `AcceptDuringBlock`: a Block deletes the Friendship it can see and commits while an
  accept of the same pair is in flight; the Friendship is then created across it.
- `BrowsedAhead`: the chevrons step from the range on screen and count from the
  offset set.  Two presses of Previous before the first answer count two and take one
  step; an old answer that arrives last shows the old range.  Either way the current
  Period can be on screen with Next enabled, leading into the future.

Others came up where handlers overlap in a property that speaks of them alone, as the
reason for a condition in a property, or in reading the code, and have no run of their
own.

The server:

- replacing a code keeps the row's id, so a confirm that had read the old code
  deletes the new one and succeeds (`ImplementsRules` of `OneTimeCodes`, overlapping);
- a sign-in that verified the old password signs its token after the reset has
  stamped the row, and the session lives on (`OldPasswordSessionsEnd`, overlapping);
- a send whose checks passed before a Block commits creates its request across it
  (`ImplementsRules` of `SocialGraph`, overlapping);
- an accept whose request is cancelled after it was found still makes the Friendship,
  deleting nothing: the count of `deleteMany` is not looked at;
- confirms that read the same attempt count each get a guess; how many more than the
  limit is bounded, and that is proved (`WrongGuessesBounded`);
- two issues at once both pass the cooldown;
- one request after the other: a confirmation deletes the row that remembers the last
  issue, so the cooldown after it is forgotten;
- a confirm whose row is gone ends in Prisma's P2025, a 500 and not the documented
  `false`;
- two resets can write in the opposite order of their stamps, and a revoked session
  is accepted again (`RevokedStaysRevoked`, overlapping);
- a verification code issued before the first stamp is written and confirmed after
  it moves `emailVerifiedAt`;
- a session opened in the very second of a reset outlives it: `iat` has seconds
  (accepted by a comment in the guard);
- a Like can be stored just after its Expense went private, and a reader who had read
  the Blocks before he was blocked sees an Expense logged after the Block
  (`ShownIsVouched` and `LikedIsVouched` say how far this goes);
- the description of `GET /feed` in `feed.controller.ts` says that Blocks are not
  applied there yet; the service applies them;
- `decodeFeedCursor` takes an id in capitals, and base64url with characters to spare,
  which are not "exactly what this module produced" (`OnlyItsOwnTokens` excepts the case
  of the id);
- the seed converts by its fixture rates even where the table already holds another rate
  of the pair and the date, which `ConversionService.snapshot()` would have used.

The screens:

- a refresh that lands while a next page is in flight leaves a gap, or a tail of the
  old list, under the new first page: `EachOnce` excludes it by `crossed`;
- a page whose Blocks were read before a Block commits brings the blocked User's
  Expenses back after the menu removed them (`BlockedStayGone` excludes it), although
  a comment in `feed.tsx` says the screen has no action of its own to race against;
- a Like that meets a page in flight is undone or doubled on screen when the page
  lands, and a Like whose answer is lost is rolled back though it was stored
  (`PillsAgree` excludes both by `doubted`);
- an answer for the old Period that arrives last, a reload captured by an action
  started before the toggle included, is shown under the new setting
  (`ShownIsBrowsed` excludes it by `calm`);
- an older load of the Expenses tab that answers last hides the Expense just logged
  (`overtaken`), though `index.tsx` calls reloading on focus sufficient; a currency set
  just before the tab is entered leaves its list in the old one (`unattended`), though
  `profile.tsx` says no other state needs touching;
- the edit sheet opens on the list's copy and saves every field of it, so it can undo a
  change made elsewhere, though `edit-expense/[id].tsx` calls the copy as fresh as a
  refetch;
- Close stays enabled while a sheet submits, and the success then goes back a second
  time, from the screen under it; so does a Friend's screen left before its answer;
- a blocked account unblocked while an older load is under way comes back on the list
  (`behind`); two Friend Requests acted on at once free each other's row, so that a
  second tap on one can race the first (`news`);
- the Leaderboard tab keeps its list up while it loads again, so right after an Unfriend
  or a Block a Friend Request of that User can still be accepted, and is refused for what
  the User just did on the Friend's screen (`news`, by `Reloading`); trying to prove
  `RefusalsAreNews` without this showed it false with more calls than the run has;
- the header of `friend/[username].tsx` says that Unfriend keeps the screen open; it goes
  back;
- text typed into the add-a-Friend field while a request is sent is wiped when it
  succeeds.

The session and the forms:

- a start without a network signs the User out: any failure of `GET /users/me` drops the
  token, where the comment speaks of an invalid one;
- an edit of the profile that answers after a sign-out, or after another's sign-in, puts
  its User on screen (`OneIdentity` excludes it by `outlived`), and an older answer
  overwrites a newer copy (`CopyIsFresh`, by `doubted`);
- nothing tells the app of a change made in another session, by an edit whose answer was
  lost or by one the server carries out after the app gave it up: the copy stays old until
  another answer comes, or until a resend is told that the email is verified and asks
  (`verify-email.tsx:105`; `CopyIsFresh`, by `doubted`);
- "rather than getting stuck loading forever" (`session-context.tsx:107`) is said of the
  request only.  `SecureStore.getItemAsync` has no `catch` (`use-storage-state.ts:64`, where
  the web branch above it has one): a rejected read leaves the token loading and the
  splash screen up until the process ends (`SplashEnds`, by `rejected`), and a start after
  it reads again;
- a write the secure store refuses is heard of by nobody: after a sign-out the next start
  may find the old token, after a sign-in none (`StoreFollows`, by `astray`);
- the app counts UTF-16 units and the server characters, so a password with emoji may be
  sent too short and is refused; `@IsEmail` is stricter than the app's pattern
  (`FormsMirrorBodies` says exactly where the two differ);
- `retryAfterSeconds` is documented as undefined but for a 429 and is parsed for any
  status;
- a sheet's "Today" is the device's day and the default Expense Date the server's: they
  differ by a day at most, which is proved (`DefaultIsNear`).

## What is proved

From the constants' assumptions alone, for any set of Users, any number of slots and
any bound, checked with `tlapm`:

| in | theorem | of | establishes |
|---|---|---|---|
| `SocialGraphProofs` | `TypeCorrect` | `TypeOK` | types, for every interleaving of statements and every rollback |
| | `AcceptSpends` | `AcceptedIsSpent` | no accepted Friend Request stays pending |
| | `Consent` | `FriendshipHasConsent` | no Friendship without a request one sent and the other accepted |
| | `GraphImplementsRules` | `ImplementsRules` | one handler at a time, the statements implement `FriendshipRules` |
| | `ListsKeepUpHolds` | `ListsKeepUp` | of PeopleScreens: at rest each list on screen is the server's |
| | `RefusalsAreNewsHolds` | `RefusalsAreNews` | and one thing at a time, only others make a request refused |
| `OneTimeCodesProofs` | `TypeCorrect` | `TypeOK` | types, for every interleaving and every crash |
| | `CodesAreSingleUse`, `RowsWinOnce` | `SingleUse` | no code, and of the codes of a row no two, are confirmed |
| | `GuessesAreBounded` | `WrongGuessesBounded` | fewer than `MaxFailed` + the number of handlers wrong guesses at a code |
| | `CodesImplementRules` | `ImplementsRules` | one handler at a time, the awaits implement `CodeRules` and the cooldown |
| | `CountsAreOwn` | `CountsOwnGuesses` | and a code's count is of its own wrong guesses |
| `AccountsProofs` | `AccountsTyped` | `TypeOK` | types |
| | `SessionsKnowThePassword` | `SessionNeedsPassword` | a session is of a password the account has had |
| | `CodesPayForChanges` | `EveryChangeHasItsCode` | a code for every password after the first |
| | `ResetEndsSessions` | `OldPasswordSessionsEnd` | one handler at a time, a reset ends the sessions before it |
| | `RevokedForGood` | `RevokedStaysRevoked` | and no step brings one back |
| `SharingProofs` | `AlwaysExclusive` | | the rules keep a Block, a Friendship and a request of two Users apart |
| | `ImplementsGraph` | | every step of `Sharing` is one of `FriendshipRules` or leaves the graph alone |
| | `SharingTyped` | `TypeOK` | types |
| | `AlwaysVouched` | `ShownIsVouched` | no answer holds what was not for the caller during the whole request |
| | `LikesVouched` | `LikedIsVouched` | nor is a Like given to it |
| | `AlwaysExact` | `ShownExactly` | a request nothing overlapped is answered exactly by the rule |
| `DailyRatesProofs` | `RatesTyped` | `TypeOK` | types |
| | `DatesWhole` | `MatrixWhole` | a date holds what it held or one whole matrix |
| | `RunsCover` | `RunCovers` | the failure of a date costs no other |
| | `EntriesCurrent` | `EntriesAreCurrent` | a conversion's rates are as current as they should be |
| | `SeedCompletes` | | a run of the seed makes any database whole in which its ids mean what they say |
| `FeedScreenProofs` | `FeedTyped` | `TypeOK` | types |
| | `ListedOnce` | `EachOnce` | nothing twice, nothing steady skipped |
| | `BlockedGone` | `BlockedStayGone` | a blocked User does not scroll back in |
| | `PillsTrue` | `PillsAgree` | a pill at rest is what the server holds |
| | `CursorIsItsRow` | | a cursor decodes to the row it was made of |
| | `ListKeepsUpHolds` | `ListKeepsUp` | of ExpensesTab: the list that is up, and an open edit sheet, are the server's |
| | `SheetLogsOnceHolds` | `SheetLogsOnce` | and a sheet logs one Expense |
| | `AnswerOfOneMomentHolds` | | the list and the sums of an answer are of one table and one currency |
| `SessionProofs` | `IdentityKept` | `OneIdentity` | the User on screen is the token's |
| | `StoreKeepsUp` | `StoreFollows` | the store ends with the token in memory, unless its writes went astray |
| | `CopyKeepsUp` | `CopyIsFresh` | the copy on screen is the server's, unless it changed with nobody to tell the app |
| | `CountdownEndsWithCooldown` | | the countdown of a 429 ends with the cooldown, within a second |
| `LeaderboardProofs` | `BoardTyped` | `TypeOK` | types |
| | `BrowsedIsShown` | `ShownIsBrowsed` | the Period shown is as far back as the chevrons were pressed |
| | `PreviousOneBack` | `PreviousIsOneBack` | one step back is the Expenses tab's previous Period |
| | `WeekHoldsItsDays`, `PreviousWeekIsOneBack` | | an ISO week holds the days whose week it is; the previous one ends where it begins |
| | `MonthHoldsItsDays`, `PreviousMonthIsOneBack` | | so do the months of the Gregorian calendar |
| | `StampsAreTrue`, `DefaultIsNear` | | a relative stamp counts whole units; a device's today is at most a day from the server's default |

The last step of each is the same: the invariant holds at first, every step keeps it,
and it implies the property.  What follows is each invariant and why the property alone
does not carry itself from step to step.

**SocialGraph.**  An accept acts on a row it read earlier, so the invariant says what
such an accept remembers: the request it found was really sent and, once its sweep has
run, is gone or among the rows its commit will delete (`AcceptOK`).  Ids are handed out
once (`IdsOK`), so a request that has gone cannot come back between the sweep and the
commit.  The handler's two Users differ (`JobOK`), and only an accept about to commit
holds a new Friendship, that of its pair (`TxOK`).  The pieces follow the code: one lemma
for a start, one for an answer, one for a check, one per statement that writes.

For the refinement a handler that has run alone is described place by place: what its
checks have found still holds, and its transaction holds exactly the rows its statements
have written (`SendFound`, `AcceptFound`, `BlockFound`).  With the unique index (`OneRow`)
and the ordered pair (`SamePair`, `FriendsAre`, `OffersAre`: rows of a table are relations
of the rules), the statement that commits is `Send`, `Accept`, `Remove`, `Unfriend`,
`Block` or `Unblock` of the rules, and every other leaves their variables alone.

**OneTimeCodes.**  A confirm acts on a row by an id it read earlier.  `JobOK` says
that the id it holds is the one its code was stored under; `WonOK` that the row of a
confirmed code is gone for good, ids never being reused; `OneWinPerRow` then is
inductive, and `SingleUse` follows.  For the guesses, `GuessesOK` counts those in
flight: wrong guesses at a code plus confirms comparing it stay under
`MaxFailed + Cardinality(Slot)`, because a confirm starts only while the row's own
count, at least the wrong guesses at its present code, is under `MaxFailed`.  Alone, a
confirm that is comparing still has the row it read, with room for one more guess
(`CountOK`), and an issue about to store has a newer code and a cooldown that is over
(`OrderOK`): with these every await is a step of `CodeRules` or none.

**Accounts.**  `SessionNeedsPassword` needs the handlers on the way to a session, whose
password the row has had (`PasswordsOK`).  `EveryChangeHasItsCode` is a count: passwords,
with the confirmations that have spent a code and not yet written, are at most the first
password and the codes spent (`ChangesOK`); a confirmation moves one from the second to
the first, a crash between loses one, and nothing else adds.  That the code it spends was
not spent before is `ResetCodesOK`, the part of `CodeRules` it stands on.  One handler at
a time, `StampsOK` orders the clock: every session of an older password is no younger than
the stamp, and a reset about to write has read a time no session is younger than.

**Sharing.**  The invariant is what a handler knows at each of its places (`Knows`): each
condition that its reads so far have found is in `ever`, what held during the request, so
what the last read lets through is vouched for whatever changed meanwhile.  `Right` is the
same for a handler alone: what it has read is what the tables hold now, so its last read
is the rule.  `Fits` has the locals of each place.

**DailyRates.**  `LoopOK` keeps a catch-up in the window it began with; `Accounted` says of
each date of `owed` that it is behind the loop and full, or the loop still comes to it,
and in the middle of a date that its pairs are on their way.  A committed rate is never
taken away (`RatesGrow`), so what was found at the beginning of a conversion is a lower
bound of what its look-ups find (`FloorsHold`).

**FeedScreen.**  `EachOnce` relates the list to what was in sight; a page on its way has
to bring its part.  `LoadCovers` and `MoreCovers` say of a page that has been read, but
not arrived, that it holds all that was steady down to its own cursor, and of one that is
not read that the Blocks it knows do not hide what is steady; `MoreCovers` also says that
it starts where the list ends, unless a refresh crossed it.  `PagesKnow` is the part of
`BlockedStayGone` in flight: the page has read the Blocks made here.  `PillOK` says of a
pill what the call under way will make of it, and `PageOK` that no Like has met a page but
those remembered as doubted.  That a page is sorted and without twins, and that merging,
purging and toggling keep places apart, are lemmas on `Descending`, `Picked` and
`dedupeFeedItems`.

**Leaderboard.**  `ShownIsBrowsed` is about the list that is up, and a press of a chevron
starts from what is up; so as long as `calm` holds the invariant (`Browsed`) says that
every call under way asks for the Period the screen is set to, that the anchor lies in the
Period its offset counts back to, and, once no load is under way, that this is the one
shown.  A step back then needs that the Period before an anchor's is one further back
(`BrowseBack`), a step on the converse (`BrowseOn`).  For weeks these are division by
seven.  A month is an index `m`, the m-th month of the calendar, and `First(m)` its first
day: each month begins where the one before ends (`MonthsFollow`), and every day lies in
one (`MonthFound`), found by cycles of 400, 100 and 4 years and single years, each shown
to be as long as the calendar's arithmetic makes it, so that no induction is needed.  The
theorems assume that the dates with a year and a month reach past every Period shown
(`CalendarAssumption`).

**Session.**  Every request is of a session there was, and its answer of that session's
User (`Asked`); before the secure store answers there is nothing but requests an earlier
process gave up (`Blank`).  The last write on its way brings the token in memory
(`StoreWillFollow`): a write that lands or is refused ahead of it leaves it the last.  For
the copy, an answer under way that nothing overtook is the account as it is
(`CallsFresh`, `ResolveFresh`), and a copy that is behind has an answer still to come, or is
doubted (`CopyFresh`).  What makes this survive changes from outside is one lemma about
every write the app does not hear of, another session's or a late request's: it marks all
the answers it overtakes and the copy it leaves behind (`Unheard`, `UnheardFresh`).

**PeopleScreens** (in `SocialGraphProofs`, by an instance).  `ListsKeepUp` speaks of the
moment no call is under way, so `Follows` says of every other what a list still lacks and
which call will bring it: the Leaderboard is the server's or an action's reload is to come
(`BoardFollows`), an open Friend may be read or the Unfriend that was carried out has yet
to leave the screen (`FriendFollows`), and the Blocked list has, besides the blocked, just
the rows of the unblocks that were carried out (`BlockedFollow`).  A load that answers
replaces the list, so `LoadsFresh` says that what it has read and no store has aged is
what the server holds, and `Owned` that an answer or a closing screen is of the screen
that is up.  For `RefusalsAreNews` a call that nothing was news to has, since it was sent,
been the only action under way, its row disabled, and the server would grant it (`Alone`;
`AloneUnblock` for the Blocked list); that it does so at the press is `Follows` with no
other call accounting for a difference.

**ExpensesTab** (in `FeedScreenProofs`, by an instance).  The reads of a load are operators
of a table and a currency (`ListAt`, `PartAt`), so that what was read at one moment can be
compared with what holds at another.  While the tab is up and nothing unattended was
stored, the newest load has read the table as it is, as far as it has come
(`ListFollows`): a store that is somebody else's, or whose sheet has gone, is unattended,
and one that a sheet waits for finds the sheet up, so the tab loads again after it.  An
edit sheet opens on such a row, and its amount comes back from its decimal
(`AmountsReturn`); what it holds then differs from the server only by what it asked for
itself (`PrefillFollows`).  A sheet has one submission at most, and having logged
means that it is the one that was answered (`Logged`).  For the card, an untorn load
has read the table as it is, and a store can only find it with nothing read or all; from
then on it keeps that table (`OneMoment`).  This is the half of `CardMatchesList` that is
about interleaving; the other, that the sums of one table are those of its list, is
induction over data.  The theorems assume what the module does of its constants (`Given`).

**The pure modules.**  `IsoWeekIs` reduces `isoWeekOf`, which the code computes by way
of `getUTCDay`, to the multiple of seven below the date; months are spoken of above, and
Stamps is division.  `SeedCompletes` follows the four statements: each adds the rows
that collide with none, and a collision by id is, by the hypothesis, the row itself.
`CursorIsItsRow` needs `TicksPerMs = 1`, which is the column's `timestamp(3)`: with a
finer column the token would round down, and a page would repeat its last row.

The theorems about one handler at a time are about the specification the run uses
(`MCSpec`): as long as `alone` holds it lets any handler do anything `Next` does, and once
two overlap the properties say nothing.

Only model-checked: liveness (`Answered`, `RunsEnd`, `SplashEnds`), which the prover
cannot reach; `BlockSevers` and `NextStopsAtCurrent`, which are violated; the sums of
`CardMatchesList`; and of the pure modules what sums, sorts or scans (`Totals`, `Ranking`,
`Amounts`, `Forms`, `PagesAreTheFeed`), which is induction over data, or ranges over a
fixed finite set (`Routes`), where evaluating it is a proof.

## Not modelled

The counting of the throttler, start-up validation and the probe; email, templates and
hashing; migrations; the generated contract; wording, layout, colours and how numbers are
grouped.  These are a library's, pure output or build time, and a model would restate
them.  Left out inside the modelled parts: looking a User up by name (no code deletes or
renames one), a token's own expiry, two random codes that happen to be equal, rows
written by anything but the API and the seed, Likes the viewer gives on another screen,
the value of a conversion and its rounding (rates are abstract factors), the description
of an Expense in the tab and its sheets, Like counts and spinners.

## The plan

Done, in this order: `FriendshipRules`, `SocialGraph`, `CodeRules`, `OneTimeCodes`,
`Accounts`, `Sharing`, `DailyRates`, `FeedScreen`, `Periods`, `Leaderboard`, with the
proofs of the first of them; then `Session`, `ExpensesTab` with `Amounts` and `Totals`,
`PeopleScreens`, `Ranking`, `Stamps`, `SeedData`, `Forms`, `Answers`, `Routes`,
`FeedCursor`, with the proofs of the pure modules; then the proofs of `Accounts`,
`Sharing`, `DailyRates`, `FeedScreen` and `Session`, of the two refinements, of the
calendar and `Leaderboard`, of `PeopleScreens` and of `ExpensesTab`.

To prove next: `OldPasswordSessionsEnd` from a weaker hypothesis than one handler at a
time, no sign-in between the hash and the write of a reset.
