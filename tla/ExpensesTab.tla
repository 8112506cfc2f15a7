---------------------------- MODULE ExpensesTab ----------------------------
(***************************************************************************)
(* A User's own Expenses: the Expenses tab with its Summary Card, the      *)
(* sheets that log, edit and delete, and the handlers behind them.  One    *)
(* action per continuation of the device and per statement of the server.  *)
(*                                                                         *)
(* The tab loads whenever it gains focus: the list and the statistics are  *)
(* two requests, each of several statements, answered together.  Nothing   *)
(* aborts a request or tells an old answer from a new one.  A sheet covers *)
(* the tab; a request that it sent outlives it, and goes back a screen     *)
(* when it succeeds, whichever screen is up.                               *)
(***************************************************************************)
EXTENDS Amounts, Totals, Periods, FiniteSets

CONSTANTS
    Day, Today,             \* the Expense Dates picked, the server's today
    Period,                 \* the Periods of the statistics
    Currency, Rate,         \* the conversions of an Expense, abstracted
    Visibility,
    Text,                   \* what is typed into the Amount field
    Locale0,                \* the locale it is typed in
    First,                  \* the Expenses there are to begin with
    Load, Req,              \* loads, and requests of sheets, under way
    Gone, NotRead,
    MaxChanges              \* bound on what the server stores

ASSUME DayAssumption == Today \in Day /\ Day \subseteq Date
ASSUME PeriodAssumption == Period \subseteq PERIODS

\* The amounts an Expense can have: a Decimal column gives back what it was given.
Amount == {First[id].amount : id \in DOMAIN First} \cup
    {Stored(parseAmountInput(text, Locale0)) :
        text \in {t \in Text : parseAmountInput(t, Locale0) # NotAnAmount}}
AmountsReturn == \A amount \in Amount : Stored(toFixed(amount)) = amount
ASSUME AmountAssumption == AmountsReturn

Category == ToSet(CATEGORIES)
Expense == [amount : Amount, category : Category, visibility : Visibility, date : Date]
ASSUME FirstAssumption == First \in Seq(Expense)

VARIABLES
    rows,           \* server: the Expenses by the order of Logged At, or Gone
    preferred,      \* server: the Preferred Currency
    tab,            \* the tab that is up
    sheet,          \* the sheet over it
    shown,          \* the tab's LoadState
    load, req,      \* loads and requests under way
    switch,         \* the PATCH of the Preferred Currency under way
    changes,
    newest,         \* history: the load sent last
    overtaken,      \* history: an older load answered after it
    unattended      \* history: stored since then with nobody to reload for it

server == <<rows, preferred, changes>>
device == <<tab, sheet, shown>>
history == <<newest, overtaken, unattended>>
vars == <<server, device, load, req, switch, history>>

Id == DOMAIN rows
Live == {id \in Id : rows[id] # Gone}

NoSheet == [kind |-> "none", id |-> 0, prefill |-> Gone, stale |-> FALSE,
            logged |-> 0, lost |-> FALSE]
LogSheet == [NoSheet EXCEPT !.kind = "log"]
EditSheet(id, prefill) ==
    [NoSheet EXCEPT !.kind = "edit", !.id = id, !.prefill = prefill, !.stale = overtaken]

Part == Period \X {"current", "previous"}
NoLoad == [sent |-> FALSE, listCurrency |-> NotRead, list |-> NotRead,
           currency |-> NotRead, part |-> [p \in Part |-> NotRead], torn |-> FALSE]
Sent == [NoLoad EXCEPT !.sent = TRUE]
NoReq == [kind |-> "none", own |-> FALSE, id |-> 0, value |-> Gone, phase |-> "none"]
NoSwitch == [to |-> NotRead, phase |-> "none"]

Loading == [status |-> "loading"]
Failed == [status |-> "error"]

Init ==
    /\ rows = First
    /\ preferred \in Currency
    /\ tab = "other"
    /\ sheet = NoSheet
    /\ shown = Loading
    /\ load = [l \in Load |-> NoLoad] /\ req = [q \in Req |-> NoReq]
    /\ switch = NoSwitch
    /\ changes = 0
    /\ newest \in Load /\ overtaken = FALSE /\ unattended = FALSE

----------------------------------------------------------------------------
(* The server's reads.                                                     *)

\* The entry of the Conversion Snapshot in one currency.
Converted(expense, currency) == expense.amount * Rate[currency]

toExpenseDto(id, currency) ==
    [id |-> id, convertedAmount |-> Converted(rows[id], currency),
     originalAmount |-> toFixed(rows[id].amount), category |-> rows[id].category,
     visibility |-> rows[id].visibility, expenseDate |-> rows[id].date]

\* The members of a set, greatest first.
Descending(S) ==
    [n \in 1 .. Cardinality(S) |->
        CHOOSE e \in S : Cardinality({f \in S : f > e}) = n - 1]

\* Newest first.
findAllByOwner(currency) ==
    [n \in 1 .. Cardinality(Live) |-> toExpenseDto(Descending(Live)[n], currency)]

WithinSlip(range, date) == range.start <= date /\ date < range.end     \* an exclusive end
Within(range, date) == range.start <= date /\ date <= range.end

RangeOf(part) ==
    IF part[2] = "current" THEN periodRangeOf(part[1], Today) ELSE previousRangeOf(part[1], Today)

\* Every Visibility, by Expense Date.
findCategoryAmounts(part, currency) ==
    {[id |-> id, category |-> rows[id].category, amount |-> Converted(rows[id], currency)] :
        id \in {i \in Live : Within(RangeOf(part), rows[i].date)}}

\* findAllForOwner reads the Preferred Currency, then the rows.
ReadListCurrency(l) ==
    /\ load[l].sent /\ load[l].listCurrency = NotRead
    /\ load' = [load EXCEPT ![l].listCurrency = preferred]
    /\ UNCHANGED <<server, device, req, switch, history>>

ReadList(l) ==
    /\ load[l].listCurrency # NotRead /\ load[l].list = NotRead
    /\ load' = [load EXCEPT ![l].list = findAllByOwner(load[l].listCurrency)]
    /\ UNCHANGED <<server, device, req, switch, history>>

\* statistics reads it too, then every range at once.
ReadCurrency(l) ==
    /\ load[l].sent /\ load[l].currency = NotRead
    /\ load' = [load EXCEPT ![l].currency = preferred]
    /\ UNCHANGED <<server, device, req, switch, history>>

ReadPart(l, p) ==
    /\ load[l].currency # NotRead /\ load[l].part[p] = NotRead
    /\ load' = [load EXCEPT
          ![l].part[p] = summarizeCategoryTotals(findCategoryAmounts(p, load[l].currency))]
    /\ UNCHANGED <<server, device, req, switch, history>>

Complete(r) == r.list # NotRead /\ \A p \in Part : r.part[p] # NotRead
Begun(r) == r.listCurrency # NotRead \/ r.currency # NotRead

----------------------------------------------------------------------------
(* The server's writes.  A load that has read a part of what it asks for   *)
(* is torn by one.                                                         *)

Store(stored, currency) ==
    /\ changes < MaxChanges
    /\ changes' = changes + 1
    /\ rows' = stored /\ preferred' = currency
    /\ load' = [l \in Load |->
          [load[l] EXCEPT !.torn = @ \/ (Begun(load[l]) /\ ~Complete(load[l]))]]

----------------------------------------------------------------------------
(* The tab.                                                                *)

Focused == tab = "expenses" /\ sheet = NoSheet

\* A spinner, an error with its Retry, or the card above the rows.
ListUp == Focused /\ shown.status = "loaded"
RetryUp == Focused /\ shown = Failed

\* The Period Toggle chooses among the cards of one answer.
CardOf(period) ==
    SummaryCard(shown.statistics[<<period, "current">>],
                shown.statistics[<<period, "previous">>].total)

StartLoad(l) ==
    /\ load[l] = NoLoad
    /\ load' = [load EXCEPT ![l] = Sent]
    /\ shown' = Loading
    /\ newest' = l
    /\ overtaken' = FALSE /\ unattended' = FALSE

\* What useFocusEffect does when the navigator goes where it says.
Go(toTab, toSheet) ==
    /\ tab' = toTab /\ sheet' = toSheet
    /\ IF toTab = "expenses" /\ toSheet = NoSheet /\ ~Focused
       THEN \E l \in Load : StartLoad(l)
       ELSE UNCHANGED <<shown, load, history>>

PressTab ==
    /\ sheet = NoSheet
    /\ Go(IF tab = "expenses" THEN "other" ELSE "expenses", NoSheet)
    /\ UNCHANGED <<server, req, switch>>

Retry ==
    /\ RetryUp
    /\ \E l \in Load : StartLoad(l)
    /\ UNCHANGED <<server, tab, sheet, req, switch>>

LoadArrivesSlip(l) ==           \* keeps a list that is up
    /\ load[l].sent /\ Complete(load[l])
    /\ shown' = IF shown.status = "loaded" THEN shown
                ELSE [status |-> "loaded", expenses |-> load[l].list, torn |-> load[l].torn,
                      statistics |-> load[l].part]
    /\ overtaken' = FALSE
    /\ load' = [load EXCEPT ![l] = NoLoad]
    /\ UNCHANGED <<server, tab, sheet, req, switch, newest, unattended>>

LoadArrives(l) ==
    /\ load[l].sent /\ Complete(load[l])
    /\ shown' = [status |-> "loaded", expenses |-> load[l].list, torn |-> load[l].torn,
                 statistics |-> load[l].part]
    /\ overtaken' = (l # newest)
    /\ load' = [load EXCEPT ![l] = NoLoad]
    /\ UNCHANGED <<server, tab, sheet, req, switch, newest, unattended>>

LoadFails(l) ==
    /\ load[l].sent
    /\ shown' = Failed
    /\ load' = [load EXCEPT ![l] = NoLoad]
    /\ UNCHANGED <<server, tab, sheet, req, switch, history>>

----------------------------------------------------------------------------
(* The sheets.                                                             *)

\* The Log Button is in the tab bar, under every tab.
openLogSheet ==
    /\ sheet = NoSheet
    /\ Go(tab, LogSheet)
    /\ UNCHANGED <<server, req, switch>>

\* A row's fields ride along as the prefill.
openEditSheet ==
    /\ ListUp
    /\ \E n \in DOMAIN shown.expenses :
          LET row == shown.expenses[n]
          IN  Go(tab, EditSheet(row.id,
                  [amount |-> Stored(row.originalAmount), category |-> row.category,
                   visibility |-> row.visibility, date |-> row.expenseDate]))
    /\ UNCHANGED <<server, req, switch>>

\* The requests of a sheet that closes belong to no sheet from then on.
Orphaned == [q \in Req |-> [req[q] EXCEPT !.own = FALSE]]

\* expo-router: pops the sheet; under another tab without one, may end there or at
\* the first tab.
Back ==
    IF sheet # NoSheet THEN Go(tab, NoSheet)
    ELSE \E t \in {tab, "expenses"} : Go(t, NoSheet)

Close ==
    /\ sheet # NoSheet
    /\ Back
    /\ req' = Orphaned
    /\ UNCHANGED <<server, switch>>

SubmittingSlip == FALSE                             \* the form stays enabled
Submitting == \E q \in Req : req[q].own /\ req[q].kind # "delete"

\* Every field and Close stay enabled while the form submits; its button does not.
SubmitEnabled(kind) == sheet.kind = kind /\ ~Submitting

Ask(q, kind, value) ==
    /\ req[q] = NoReq
    /\ req' = [req EXCEPT ![q] = [kind |-> kind, own |-> TRUE, id |-> sheet.id,
                                  value |-> value, phase |-> "sent"]]
    /\ UNCHANGED <<server, device, load, switch, history>>

\* Validated and parsed in the form's locale; a day not picked is the server's today.
submit(q) ==
    /\ SubmitEnabled("log")
    /\ \E text \in Text, category \in Category, visibility \in Visibility, day \in Day :
          LET parsed == parseAmountInput(text, Locale0)
          IN  /\ parsed # NotAnAmount
              /\ Ask(q, "create", [amount |-> Stored(parsed), category |-> category,
                                   visibility |-> visibility, date |-> day])

\* The locked amount is parsed again, and left out of the PATCH; every other field
\* is in it, touched or not.
save(q) ==
    /\ SubmitEnabled("edit")
    /\ parseAmountInput(amountInputFromDecimal(toFixed(sheet.prefill.amount), Locale0), Locale0)
         # NotAnAmount
    /\ \E category \in Category, visibility \in Visibility, day \in Day :
          Ask(q, "update", [sheet.prefill EXCEPT !.category = category,
                                                 !.visibility = visibility, !.date = day])

\* The dialog can be opened again while a deletion is under way.
confirmDelete(q) == sheet.kind = "edit" /\ Ask(q, "delete", Gone)

\* What the request leaves, and whether the server refuses it: 404 without the row.
Outcome(r) ==
    IF r.kind = "create" THEN Append(rows, r.value)
    ELSE IF r.id \notin Live THEN rows
    ELSE IF r.kind = "delete" THEN [rows EXCEPT ![r.id] = Gone]
    ELSE [rows EXCEPT ![r.id] = [r.value EXCEPT !.amount = rows[r.id].amount]]

Served(q) ==
    /\ req[q].phase = "sent"
    /\ Store(Outcome(req[q]), preferred)
    /\ req' = [req EXCEPT ![q].phase =
          IF req[q].kind = "create" \/ req[q].id \in Live THEN "done" ELSE "refused"]
    /\ sheet' = IF req[q].own /\ req[q].kind = "create" THEN [sheet EXCEPT !.logged = @ + 1]
                                                        ELSE sheet
    /\ unattended' = (unattended \/ ~req[q].own)
    /\ UNCHANGED <<tab, shown, switch, newest, overtaken>>

\* router.back(), whoever is up.
Succeeds(q) ==
    /\ req[q].phase = "done"
    /\ Back
    /\ req' = [(IF sheet = NoSheet THEN req ELSE Orphaned) EXCEPT ![q] = NoReq]
    /\ UNCHANGED <<server, switch>>

\* A refusal, or no answer; a request without an answer may still be served, and
\* is then one that no sheet waits for.
Fails(q) ==
    /\ req[q].phase \in {"sent", "done", "refused"}
    /\ \/ req' = [req EXCEPT ![q] = NoReq]
       \/ /\ req[q].phase = "sent"
          /\ req' = [req EXCEPT ![q].own = FALSE, ![q].phase = "lost"]
    /\ sheet' = IF req[q].own /\ req[q].phase # "refused" THEN [sheet EXCEPT !.lost = TRUE]
                                                          ELSE sheet
    /\ UNCHANGED <<server, tab, shown, load, switch, history>>

ServedLate(q) ==
    /\ req[q].phase = "lost"
    /\ Store(Outcome(req[q]), preferred)
    /\ req' = [req EXCEPT ![q] = NoReq]
    /\ unattended' = TRUE
    /\ UNCHANGED <<device, switch, newest, overtaken>>

NeverServed(q) ==
    /\ req[q].phase = "lost"
    /\ req' = [req EXCEPT ![q] = NoReq]
    /\ UNCHANGED <<server, device, load, switch, history>>

----------------------------------------------------------------------------
(* The Preferred Currency, from the Profile tab; and another device.       *)

onSelectCurrency ==
    /\ tab = "other" /\ sheet = NoSheet
    /\ switch = NoSwitch
    /\ \E c \in Currency \ {preferred} : switch' = [to |-> c, phase |-> "sent"]
    /\ UNCHANGED <<server, device, load, req, history>>

SwitchServed ==
    /\ switch # NoSwitch
    /\ Store(rows, switch.to)
    /\ switch' = NoSwitch
    /\ unattended' = (unattended \/ tab = "expenses")
    /\ UNCHANGED <<device, req, newest, overtaken>>

SwitchFails ==
    /\ switch # NoSwitch
    /\ switch' = NoSwitch
    /\ UNCHANGED <<server, device, load, req, history>>

Elsewhere ==
    /\ \E id \in Live, visibility \in Visibility, day \in Day \cup {Gone} :
          Store([rows EXCEPT ![id] = IF day = Gone THEN Gone
                    ELSE [rows[id] EXCEPT !.visibility = visibility, !.date = day]], preferred)
    /\ unattended' = TRUE
    /\ UNCHANGED <<device, req, switch, newest, overtaken>>

Next ==
    \/ \E l \in Load :
          \/ ReadListCurrency(l) \/ ReadList(l)
          \/ ReadCurrency(l) \/ \E p \in Part : ReadPart(l, p)
          \/ LoadArrives(l) \/ LoadFails(l)
    \/ PressTab \/ Retry
    \/ openLogSheet \/ openEditSheet \/ Close
    \/ \E q \in Req :
          submit(q) \/ save(q) \/ confirmDelete(q) \/ Served(q) \/ Succeeds(q) \/ Fails(q)
          \/ ServedLate(q) \/ NeverServed(q)
    \/ onSelectCurrency \/ SwitchServed \/ SwitchFails \/ Elsewhere

Spec == Init /\ [][Next]_vars

----------------------------------------------------------------------------
\* A list that is up is every Expense there is, newest first and as it is, and an
\* edit sheet, before it sends anything, holds the Expense as it is: reloading on
\* focus is "sufficient" (index.tsx:42), though the sheets hand nothing back.  Voided
\* by an older load that answers last and by what nobody was there to reload for:
\* another device, a sheet closed before its answer, an answer lost, a currency set
\* before the tab was left.
ListKeepsUp ==
    /\ ListUp /\ ~overtaken /\ ~unattended =>
          shown.expenses = findAllByOwner(preferred)
    /\ sheet.kind = "edit" /\ ~sheet.lost /\ ~sheet.stale /\ ~unattended =>
          sheet.prefill = rows[sheet.id] \/ \E q \in Req : req[q].own /\ req[q].phase = "done"

\* The card on screen sums the list on screen, whatever the two requests met on
\* their way, unless something was stored between the statements of one load.
CardMatchesList ==
    shown.status = "loaded" /\ ~shown.torn =>
        \A period \in Period :
            LET card == CardOf(period)
                Listed(which) == {row \in ToSet(shown.expenses) :
                    row.expenseDate \in RangeOf(<<period, which>>).start
                                        .. RangeOf(<<period, which>>).end}
                Sum(listed) == MapThenSumSet(LAMBDA row : row.convertedAmount, listed)
            IN  /\ card.total = Sum(Listed("current"))
                /\ \A c \in Category :
                      LET spent == Sum({row \in Listed("current") : row.category = c})
                      IN  spent # 0 <=> \E n \in DOMAIN card.rows :
                              card.rows[n].category = c /\ card.rows[n].total = spent
                /\ \A m, n \in DOMAIN card.rows :
                      m < n => card.rows[m].total >= card.rows[n].total
                /\ card.delta.direction = "up" =>
                      Sum(Listed("current")) > Sum(Listed("previous"))

\* A sheet logs one Expense however often it is submitted, unless it was told of a
\* failure that was none.
SheetLogsOnce == sheet.logged > 1 => sheet.lost

=============================================================================
