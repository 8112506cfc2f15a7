-------------------------- MODULE DailyRatesProofs --------------------------
(***************************************************************************)
(* What holds of DailyRates for any number of catch-ups and pairs, any     *)
(* window and any calendar, whatever overlaps, fails or crashes; then of   *)
(* a run of the seed, which stores rates and conversions of its own.       *)
(***************************************************************************)
EXTENDS DailyRates, SeedData, FiniteSetTheorems, WellFoundedInduction, TLAPS

\* The loop of a catch-up stays in the window it began with.
LoopOK ==
    \A r \in Run : pc[r] # "idle" =>
        /\ job[r].end \in RateDate
        /\ job[r].date \in Window(job[r].end)
        /\ job[r].pair \in 1..(Pairs + 1)

----------------------------------------------------------------------------
(* The types, and the window of the loop.                                  *)

LEMMA OldestInWindow ==
    ASSUME NEW d \in RateDate
    PROVE  Oldest(d) \in Window(d) /\ Oldest(d) <= d
  BY SizeAssumption, BackfillAssumption DEF RateDate, Window, Oldest

\* The next date of the loop, or its end.
LEMMA LoopStep ==
    ASSUME TypeOK, LoopOK, NEW r \in Run, pc[r] # "idle", NextDate(r), today' = today
    PROVE  /\ pc' \in [Run -> {"idle", "count", "fetch", "write"}]
           /\ job' \in [Run -> [end : 0..today, date : 0..today, pair : 0..(Pairs + 1)]]
           /\ LoopOK'
           /\ \A s \in Run \ {r} : pc'[s] = pc[s] /\ job'[s] = job[s]
           /\ \/ pc'[r] = "idle" /\ job[r].date = job[r].end
              \/ /\ pc'[r] = "count" /\ job'[r].end = job[r].end
                 /\ job'[r].date = job[r].date + 1
  <1> USE SizeAssumption
  <1>1. job[r].date \in RateDate /\ job[r].date <= job[r].end /\ job[r].end \in RateDate
        /\ job[r].end <= today /\ today \in RateDate
    BY DEF TypeOK, LoopOK, Window
  <1>2. CASE job[r].date + 1 \in Window(job[r].end)
    <2> DEFINE next == Locals(job[r].end, job[r].date + 1, 1)
    <2>1. Goto(r, "count", next)
      BY <1>2 DEF NextDate
    <2>2. /\ next \in [end : 0..today, date : 0..today, pair : 0..(Pairs + 1)]
          /\ next.end = job[r].end /\ next.date = job[r].date + 1 /\ next.pair = 1
      BY <1>1, <1>2 DEF Locals, Window, RateDate
    <2> HIDE DEF next
    <2>3. /\ pc' \in [Run -> {"idle", "count", "fetch", "write"}]
          /\ job' \in [Run -> [end : 0..today, date : 0..today, pair : 0..(Pairs + 1)]]
          /\ \A s \in Run \ {r} : pc'[s] = pc[s] /\ job'[s] = job[s]
          /\ pc'[r] = "count" /\ job'[r] = next
      BY <2>1, <2>2 DEF Goto, TypeOK
    <2>4. LoopOK'
      BY <1>1, <1>2, <2>2, <2>3 DEF LoopOK, Window, RateDate, Oldest
    <2> QED
      BY <2>2, <2>3, <2>4
  <1>3. CASE job[r].date + 1 \notin Window(job[r].end)
    <2>1. Goto(r, "idle", NoJob)
      BY <1>3 DEF NextDate
    <2>2. /\ pc' \in [Run -> {"idle", "count", "fetch", "write"}]
          /\ \A s \in Run \ {r} : pc'[s] = pc[s] /\ job'[s] = job[s]
          /\ pc'[r] = "idle"
      BY <2>1 DEF Goto, TypeOK
    <2>3. NoJob \in [end : 0..today, date : 0..today, pair : 0..(Pairs + 1)]
      BY <1>1 DEF NoJob, Locals, RateDate
    <2>4. job' \in [Run -> [end : 0..today, date : 0..today, pair : 0..(Pairs + 1)]]
      BY <2>1, <2>3 DEF Goto, TypeOK
    <2>5. LoopOK'
      BY <2>2 DEF LoopOK, Window, RateDate, Oldest
    <2>6. job[r].date = job[r].end
      <3>1. Oldest(job[r].end) \in Int /\ Oldest(job[r].end) <= job[r].date
        BY <1>1, OldestInWindow DEF LoopOK, Window, RateDate
      <3> QED
        BY <1>1, <1>3, <3>1 DEF Window, RateDate
    <2> QED
      BY <2>2, <2>4, <2>5, <2>6
  <1> QED
    BY <1>2, <1>3

LEMMA InitTyped == Init => TypeOK /\ LoopOK
  <1> SUFFICES ASSUME Init PROVE TypeOK /\ LoopOK
    OBVIOUS
  <1> USE SizeAssumption DEF Init
  <1>1. rates \in [RateDate -> [Pair -> {"none", "seed", "provider"}]]
    BY DEF Initial, Seed, Unrated
  <1>2. job \in [Run -> [end : 0..today, date : 0..today, pair : 0..(Pairs + 1)]]
    BY DEF NoJob, Locals
  <1> QED
    BY <1>1, <1>2 DEF TypeOK, LoopOK, RateDate

\* Every set of dates has a newest one: no set of dates can be narrowed for ever
\* by leaving out its oldest.
LEMMA NewestExists ==
    ASSUME NEW S \in SUBSET RateDate, S # {}
    PROVE  \E d \in S : \A e \in S : e <= d
  <1> DEFINE From(d) == {e \in S : d <= e}
             Tails == {From(d) : d \in S}
  <1>1. IsFiniteSet(RateDate)
    BY SizeAssumption, FS_Interval DEF RateDate
  <1>2. Tails \subseteq FiniteSubsetsOf(RateDate) /\ Tails # {}
    <2>1. \A d \in S : From(d) \subseteq RateDate /\ IsFiniteSet(From(d))
      BY <1>1, FS_Subset
    <2> QED
      BY <2>1 DEF FiniteSubsetsOf
  <1>3. \E U \in Tails : \A V \in Tails : ~ (<<V, U>> \in StrictSubsetOrdering(RateDate))
    <2> HIDE DEF Tails
    <2> QED
      BY <1>2, FS_StrictSubsetOrderingWellFounded, WFMin
  <1>4. PICK d \in S : \A e \in S : ~ (<<From(e), From(d)>> \in StrictSubsetOrdering(RateDate))
    BY <1>3
  <1>5. ASSUME NEW e \in S, ~ (e <= d)
        PROVE  FALSE
    <2>1. From(e) \subseteq From(d) /\ From(e) # From(d)
      <3>1. S \subseteq Int /\ d \in Int /\ e \in Int /\ d < e
        BY <1>5, SizeAssumption DEF RateDate
      <3>2. d \in From(d) /\ d \notin From(e)
        BY <3>1
      <3>3. ASSUME NEW x \in From(e) PROVE x \in From(d)
        <4>1. x \in S /\ x \in Int /\ e <= x
          BY <3>1
        <4> QED
          BY <3>1, <4>1
      <3> QED
        BY <3>2, <3>3
    <2>2. From(e) \subseteq RateDate /\ From(d) \subseteq RateDate
      OBVIOUS
    <2> HIDE DEF From
    <2> QED
      BY <1>4, <2>1, <2>2 DEF StrictSubsetOrdering
  <1> QED
    BY <1>5

\* Newest gives it, and 0 of none.
LEMMA NewestDate ==
    ASSUME NEW S \in SUBSET RateDate
    PROVE  /\ Newest(S) \in {0} \cup S
           /\ S # {} => Newest(S) \in S
           /\ \A e \in S : e <= Newest(S)
  <1>1. CASE S = {}
    BY <1>1 DEF Newest
  <1>2. CASE S # {}
    BY <1>2, NewestExists DEF Newest
  <1> QED
    BY <1>1, <1>2

LEMMA Going ==
    ASSUME TypeOK, LoopOK, NEW r \in Run, NEW where \in {"count", "fetch", "write"}, NEW locals,
           Goto(r, where, locals), today' = today,
           locals.end \in RateDate, locals.end <= today, locals.date \in Window(locals.end),
           locals.pair \in 1..(Pairs + 1),
           locals \in [end : 0..today, date : 0..today, pair : 0..(Pairs + 1)]
    PROVE  /\ pc' \in [Run -> {"idle", "count", "fetch", "write"}]
           /\ job' \in [Run -> [end : 0..today, date : 0..today, pair : 0..(Pairs + 1)]]
           /\ LoopOK'
           /\ \A s \in Run \ {r} : pc'[s] = pc[s] /\ job'[s] = job[s]
           /\ pc'[r] = where /\ job'[r] = locals
  <1>1. /\ pc' \in [Run -> {"idle", "count", "fetch", "write"}]
        /\ job' \in [Run -> [end : 0..today, date : 0..today, pair : 0..(Pairs + 1)]]
        /\ \A s \in Run \ {r} : pc'[s] = pc[s] /\ job'[s] = job[s]
        /\ pc'[r] = where /\ job'[r] = locals
    BY DEF Goto, TypeOK
  <1>2. LoopOK'
    BY <1>1 DEF LoopOK, Window, RateDate, Oldest
  <1> QED
    BY <1>1, <1>2

\* The jobs of every catch-up, whichever step one of them takes.
LEMMA JobsTyped ==
    ASSUME TypeOK, LoopOK, NEW r \in Run, Start(r) \/ Step(r)
    PROVE  /\ pc' \in [Run -> {"idle", "count", "fetch", "write"}]
           /\ job' \in [Run -> [end : 0..today, date : 0..today, pair : 0..(Pairs + 1)]]
           /\ LoopOK'
           /\ \A s \in Run \ {r} : pc'[s] = pc[s] /\ job'[s] = job[s]
           /\ today' = today
  <1> USE SizeAssumption
  <1>0. today' = today /\ today \in RateDate
    BY DEF Start, Step, CountRates, Fetch, Upsert, Commit, Fail, TypeOK
  <1>1. CASE Start(r)
    <2> DEFINE locals == Locals(today, Oldest(today), 1)
    <2>1. Goto(r, "count", locals)
      BY <1>1 DEF Start
    <2>2. /\ locals.end = today /\ locals.date = Oldest(today) /\ locals.pair = 1
          /\ locals \in [end : 0..today, date : 0..today, pair : 0..(Pairs + 1)]
      BY <1>0, OldestInWindow DEF Locals, Window, RateDate
    <2>3. /\ locals.end \in RateDate /\ locals.end <= today /\ locals.date \in Window(locals.end)
          /\ locals.pair \in 1..(Pairs + 1)
      BY <1>0, <2>2, OldestInWindow DEF RateDate
    <2> HIDE DEF locals
    <2> QED
      BY <1>0, <2>1, <2>2, <2>3, Going
  <1>2. CASE NextDate(r) /\ pc[r] # "idle"
    BY <1>0, <1>2, LoopStep
  <1>3. ASSUME pc[r] # "idle", NEW where \in {"fetch", "write"}, NEW locals,
               Goto(r, where, locals), locals \in {job[r], Locals(job[r].end, job[r].date, job[r].pair + 1)},
               locals = job[r] \/ job[r].pair \in Pair
        PROVE  /\ pc' \in [Run -> {"idle", "count", "fetch", "write"}]
               /\ job' \in [Run -> [end : 0..today, date : 0..today, pair : 0..(Pairs + 1)]]
               /\ LoopOK'
               /\ \A s \in Run \ {r} : pc'[s] = pc[s] /\ job'[s] = job[s]
    <2>1. /\ job[r] \in [end : 0..today, date : 0..today, pair : 0..(Pairs + 1)]
          /\ job[r].end \in RateDate /\ job[r].end <= today /\ job[r].date \in Window(job[r].end)
          /\ job[r].pair \in 1..(Pairs + 1)
      BY <1>3 DEF TypeOK, LoopOK
    <2>2. /\ locals.end \in RateDate /\ locals.end <= today /\ locals.date \in Window(locals.end)
          /\ locals.pair \in 1..(Pairs + 1)
          /\ locals \in [end : 0..today, date : 0..today, pair : 0..(Pairs + 1)]
      BY <1>3, <2>1 DEF Locals, Pair
    <2> QED
      BY <1>0, <1>3, <2>2, Going
  <1>4. CASE Step(r)
    <2>1. CASE CountRates(r)
      BY <1>0, <1>2, <1>3, <2>1 DEF CountRates
    <2>2. CASE Fetch(r)
      BY <1>0, <1>3, <2>2 DEF Fetch
    <2>3. CASE Upsert(r)
      BY <1>0, <1>3, <2>3 DEF Upsert
    <2>4. CASE Commit(r)
      BY <1>0, <1>2, <2>4 DEF Commit
    <2>5. CASE Fail(r)
      BY <1>0, <1>2, <2>5 DEF Fail
    <2> QED
      BY <1>4, <2>1, <2>2, <2>3, <2>4, <2>5 DEF Step
  <1> QED
    BY <1>1, <1>4

\* A date is written whole and read whole; what it has it keeps.
LEMMA RatesGrow ==
    ASSUME TypeOK, LoopOK, [Next]_vars
    PROVE  /\ rates' \in [RateDate -> [Pair -> {"none", "seed", "provider"}]]
           /\ \A d \in RateDate : rates'[d] \in {rates[d], Matrix}
           /\ \A d \in RateDate, p \in Pair : Has(d, p) => Has(d, p)'
  <1>1. Matrix \in [Pair -> {"none", "seed", "provider"}]
        /\ \A p \in Pair : Matrix[p] = "provider"
    BY DEF Matrix
  <1>2. CASE rates' = rates
    BY <1>2 DEF TypeOK, Has
  <1>3. ASSUME NEW r \in Run, Commit(r)
        PROVE  /\ rates' \in [RateDate -> [Pair -> {"none", "seed", "provider"}]]
               /\ \A d \in RateDate : rates'[d] \in {rates[d], Matrix}
               /\ \A d \in RateDate, p \in Pair : Has(d, p) => Has(d, p)'
    <2>1. rates' = [rates EXCEPT ![job[r].date] = Matrix]
      BY <1>3 DEF Commit
    <2> HIDE DEF Matrix
    <2> QED
      BY <1>1, <2>1 DEF TypeOK, Has
  <1>4. rates' = rates \/ \E r \in Run : Commit(r)
    BY DEF Next, vars, Midnight, Publish, Start, Step, CountRates, Fetch, Upsert, Fail,
           Crash, Log, Logged, LookUp
  <1> QED
    BY <1>2, <1>3, <1>4

LEMMA StepTyped == TypeOK /\ LoopOK /\ [Next]_vars => TypeOK' /\ LoopOK'
  <1> SUFFICES ASSUME TypeOK, LoopOK, [Next]_vars
               PROVE  TypeOK' /\ LoopOK'
    OBVIOUS
  <1> USE SizeAssumption
  <1>1. /\ rates' \in [RateDate -> [Pair -> {"none", "seed", "provider"}]]
        /\ today \in RateDate /\ today \in Nat
    BY RatesGrow DEF TypeOK, RateDate
  <1>2. CASE Midnight
    <2>1. /\ today' \in RateDate /\ today <= today'
          /\ 1..today \subseteq 1..today' /\ 0..today \subseteq 0..today'
      BY <1>1, <1>2 DEF Midnight, RateDate
    <2>2. /\ published' = published /\ pc' = pc /\ job' = job /\ owed' = owed
          /\ logging' = logging /\ left' = left /\ entry' = entry /\ floor' = floor
      BY <1>2 DEF Midnight, running, conversion
    <2>3. job' \in [Run -> [end : 0..today', date : 0..today', pair : 0..(Pairs + 1)]]
      BY <2>1, <2>2 DEF TypeOK
    <2>4. entry' \in [Pair -> 0..today'] /\ floor' \in [Pair -> 0..today']
      BY <2>1, <2>2 DEF TypeOK
    <2>5. LoopOK'
      BY <2>2 DEF LoopOK, Window, RateDate, Oldest
    <2> QED
      BY <1>1, <2>1, <2>2, <2>3, <2>4, <2>5 DEF TypeOK
  <1>3. ASSUME NEW d \in RateDate, Publish(d)
        PROVE  TypeOK' /\ LoopOK'
    <2>1. published' \subseteq 1..today /\ published \subseteq published'
      BY <1>1, <1>3 DEF Publish, TypeOK, RateDate
    <2>2. /\ today' = today /\ pc' = pc /\ job' = job /\ owed' = owed
          /\ logging' = logging /\ left' = left /\ entry' = entry /\ floor' = floor
      BY <1>3 DEF Publish, running, conversion
    <2>3. owed' \in [Run -> SUBSET published']
      BY <2>1, <2>2 DEF TypeOK
    <2>4. LoopOK'
      BY <2>2 DEF LoopOK, Window, RateDate, Oldest
    <2> QED
      BY <1>1, <2>1, <2>2, <2>3, <2>4 DEF TypeOK
  <1>4. ASSUME NEW r \in Run, Start(r) \/ Step(r)
        PROVE  TypeOK' /\ LoopOK'
    <2>1. published' = published /\ today' = today /\ UNCHANGED conversion
      BY <1>4 DEF Start, Step, CountRates, Fetch, Upsert, Commit, Fail
    <2>2. owed' \in [Run -> SUBSET published']
      BY <1>4, <2>1 DEF TypeOK, Start, Step, CountRates, Fetch, Upsert, Commit, Fail
    <2> QED
      BY <1>1, <1>4, <2>1, <2>2, JobsTyped DEF TypeOK, conversion
  <1>5. CASE Crash
    <2>1. /\ pc' \in [Run -> {"idle"}] /\ \A r \in Run : pc'[r] = "idle"
          /\ owed' \in [Run -> SUBSET published']
      BY <1>5 DEF Crash
    <2>2. NoJob \in [end : 0..today, date : 0..today, pair : 0..(Pairs + 1)]
      BY <1>1 DEF NoJob, Locals
    <2>3. job' \in [Run -> [end : 0..today, date : 0..today, pair : 0..(Pairs + 1)]]
      BY <1>5, <2>2 DEF Crash
    <2>4. /\ logging' \in 0..today /\ left' \subseteq Pair /\ entry' \in [Pair -> 0..today]
          /\ floor' \in [Pair -> 0..today] /\ today' = today /\ published' = published
      BY <1>1, <1>5 DEF Crash, NoConversion
    <2> QED
      BY <1>1, <2>1, <2>3, <2>4 DEF TypeOK, LoopOK
  <1>6. CASE Log \/ Logged \/ \E p \in Pair : LookUp(p)
    <2>1. /\ published' = published /\ today' = today
          /\ pc' = pc /\ job' = job /\ owed' = owed
      BY <1>6 DEF Log, Logged, LookUp, running
    <2>2. LoopOK'
      BY <2>1 DEF LoopOK, Window, RateDate, Oldest
    <2>3. ASSUME NEW p \in Pair
          PROVE  /\ Newest({d \in 1..today : Has(d, p)}) \in 0..today
                 /\ MostRecent(p, logging) \in 0..today
      <3>1. 1..today \subseteq RateDate /\ logging <= today /\ logging \in Nat
        BY <1>1 DEF TypeOK, RateDate
      <3>2. Newest({d \in 1..today : Has(d, p)}) \in {0} \cup {d \in 1..today : Has(d, p)}
        BY <3>1, NewestDate
      <3>3. MostRecent(p, logging) \in {0} \cup {d \in RateDate : d <= logging /\ Has(d, p)}
        BY NewestDate DEF MostRecent
      <3> QED
        BY <1>1, <3>1, <3>2, <3>3 DEF RateDate
    <2>4. logging' \in 0..today /\ left' \subseteq Pair
      BY <1>1, <1>6 DEF Log, Logged, LookUp, NoConversion, TypeOK
    <2>5. entry' \in [Pair -> 0..today] /\ floor' \in [Pair -> 0..today]
      <3> HIDE DEF MostRecent
      <3>1. CASE Log
        BY <1>1, <3>1, <2>3 DEF Log
      <3>2. CASE Logged
        BY <1>1, <3>2 DEF Logged, NoConversion
      <3>3. ASSUME NEW p \in Pair, LookUp(p)
            PROVE  entry' \in [Pair -> 0..today] /\ floor' \in [Pair -> 0..today]
        BY <3>3, <2>3 DEF LookUp, TypeOK
      <3> QED
        BY <1>6, <3>1, <3>2, <3>3
    <2> QED
      BY <1>1, <2>1, <2>2, <2>4, <2>5 DEF TypeOK
  <1>7. CASE UNCHANGED vars
    <2>1. LoopOK'
      BY <1>7 DEF vars, running, LoopOK, Window, RateDate, Oldest
    <2> QED
      BY <1>7, <2>1 DEF vars, running, conversion, TypeOK
  <1> QED
    BY <1>2, <1>3, <1>4, <1>5, <1>6, <1>7 DEF Next

LEMMA InTheWindow == Spec => [](TypeOK /\ LoopOK)
  BY InitTyped, StepTyped, PTL DEF Spec

(* DailyRatesService.catchUp and ConversionService.convert: every variable *)
(* stays of its type.                                                      *)
THEOREM RatesTyped == Spec => []TypeOK
  BY InTheWindow, PTL

----------------------------------------------------------------------------
(* Upserts: the transaction of a date never half-applies.                  *)

(* DailyRatesRepository.upsertMany in a transaction: whatever overlaps,    *)
(* fails or crashes, a date holds what it held at first or one whole       *)
(* matrix.                                                                 *)
THEOREM DatesWhole == Spec => []MatrixWhole
  <1>1. Init => MatrixWhole
    BY DEF Init, MatrixWhole
  <1>2. TypeOK /\ LoopOK /\ MatrixWhole /\ [Next]_vars => MatrixWhole'
    <2> SUFFICES ASSUME TypeOK, LoopOK, MatrixWhole, [Next]_vars, NEW d \in RateDate
                 PROVE  rates'[d] \in {Initial(d), Matrix}
      BY DEF MatrixWhole, Initial, Seed, Unrated, Matrix
    <2> QED
      BY RatesGrow DEF MatrixWhole
  <1> QED
    BY <1>1, <1>2, InTheWindow, PTL DEF Spec

----------------------------------------------------------------------------
(* catchUp: a date it owes is ahead of its loop, failed, or full.          *)

\* The dates owed lie in the window, so that the end of the loop passes them all.
Accounted(r) ==
    \A d \in owed[r] :
        /\ pc[r] # "idle" => d \in Window(job[r].end)
        /\ pc[r] = "idle" \/ d < job[r].date => \A p \in Pair : Has(d, p)

\* As many rates as there are pairs are the rates of all of them.
LEMMA FullIsAll ==
    ASSUME NEW d \in RateDate, Full(d)
    PROVE  \A p \in Pair : Has(d, p)
  <1> DEFINE S == {p \in Pair : Has(d, p)}
  <1>1. IsFiniteSet(Pair) /\ Cardinality(Pair) = Pairs
    BY SizeAssumption, FS_Interval DEF Pair
  <1>2. /\ S \in SUBSET Pair /\ IsFiniteSet(S) /\ Cardinality(S) <= Cardinality(Pair)
        /\ Cardinality(Pair) = Cardinality(S) => Pair = S
    BY <1>1, FS_Subset
  <1>3. Cardinality(S) \in Nat /\ Cardinality(S) >= Pairs
    <2>1. Cardinality(S) \in Nat
      BY <1>2, FS_CardinalityType
    <2> QED
      BY <2>1 DEF Full, countRatesOn, FULL_MATRIX_SIZE
  <1>4. Pair = S
    <2> HIDE DEF S
    <2> QED
      BY <1>1, <1>2, <1>3, SizeAssumption
  <1> QED
    BY <1>4

\* The loop leaves a date: it is full, or no longer owed.
LEMMA DatePassed ==
    ASSUME TypeOK, LoopOK, [Next]_vars, NEW r \in Run, Accounted(r),
           pc[r] # "idle", NextDate(r), today' = today,
           owed'[r] \in SUBSET owed[r],
           NEW date \in RateDate, date = job[r].date,
           date \in owed'[r] => \A p \in Pair : Has(date, p)'
    PROVE  Accounted(r)'
  <1> SUFFICES ASSUME NEW d \in owed'[r]
               PROVE  /\ pc'[r] # "idle" => d \in Window(job'[r].end)
                      /\ pc'[r] = "idle" \/ d < job'[r].date => \A p \in Pair : Has(d, p)'
    BY DEF Accounted, Window, RateDate, Oldest
  <1>1. \/ pc'[r] = "idle" /\ job[r].date = job[r].end
        \/ pc'[r] = "count" /\ job'[r].end = job[r].end /\ job'[r].date = job[r].date + 1
    BY LoopStep
  <1>2. /\ d \in Window(job[r].end)
        /\ d < job[r].date => \A p \in Pair : Has(d, p)
    BY DEF Accounted
  <1>3. d \in RateDate /\ d <= job[r].end /\ RateDate \subseteq Int
    BY <1>2, SizeAssumption DEF Window, RateDate
  <1>4. d < date => \A p \in Pair : Has(d, p)'
    BY <1>2, <1>3, RatesGrow
  <1>5. d = date => \A p \in Pair : Has(d, p)'
    OBVIOUS
  <1>6. pc'[r] = "idle" => d <= date
    BY <1>1, <1>3
  <1>7. d <= date => \A p \in Pair : Has(d, p)'
    BY <1>3, <1>4, <1>5
  <1>8. pc'[r] # "idle" => job'[r].end = job[r].end /\ (d < job'[r].date => d <= date)
    BY <1>1, <1>3
  <1> QED
    BY <1>2, <1>6, <1>7, <1>8

LEMMA OwedDates ==
    ASSUME TypeOK, NEW r \in Run
    PROVE  owed[r] \subseteq published /\ published \subseteq 1..today /\ owed[r] \subseteq RateDate
  <1>1. 1..today \subseteq RateDate
    BY SizeAssumption DEF TypeOK, RateDate
  <1> QED
    BY <1>1 DEF TypeOK

\* A catch-up that takes no step, or stays at its date, keeps what it covers.
LEMMA StaysCovered ==
    ASSUME TypeOK, LoopOK, [Next]_vars, NEW r \in Run, Accounted(r),
           owed'[r] = owed[r], (pc'[r] = "idle") = (pc[r] = "idle"),
           job'[r].end = job[r].end, job'[r].date = job[r].date
    PROVE  Accounted(r)'
  <1>1. owed[r] \subseteq RateDate
    BY OwedDates
  <1> QED
    BY <1>1, RatesGrow DEF Accounted, Window, RateDate, Oldest

LEMMA StepCovers ==
    ASSUME TypeOK, LoopOK, [Next]_vars, NEW r \in Run, Accounted(r)
    PROVE  Accounted(r)'
  <1> USE SizeAssumption
  <1>1. CASE pc' = pc /\ job' = job /\ owed' = owed
    BY <1>1, StaysCovered
  <1>2. ASSUME NEW s \in Run, s # r, Start(s) \/ Step(s)
        PROVE  Accounted(r)'
    <2>1. pc'[r] = pc[r] /\ job'[r] = job[r]
      BY <1>2, JobsTyped
    <2>2. owed'[r] = owed[r]
      BY <1>2 DEF Start, Step, CountRates, Fetch, Upsert, Commit, Fail, TypeOK
    <2> QED
      BY <2>1, <2>2, StaysCovered
  <1>3. CASE Start(r)
    <2>1. /\ pc'[r] = "count" /\ job'[r] = Locals(today, Oldest(today), 1)
          /\ owed'[r] = {d \in published : d + Backfill >= today}
      BY <1>3 DEF Start, Goto, TypeOK
    <2>2. /\ job'[r].end = today /\ job'[r].date = Oldest(today)
      BY <2>1 DEF Locals
    <2>3. \A d \in owed'[r] : d \in Window(today) /\ ~ (d < Oldest(today))
      <3>1. /\ today \in Nat /\ 1..today \subseteq RateDate /\ owed'[r] \subseteq 1..today
            /\ \A d \in owed'[r] : d + Backfill >= today
        <4>1. today \in Nat /\ 1..today \subseteq RateDate
          BY DEF TypeOK, RateDate
        <4>2. published \subseteq 1..today
          BY DEF TypeOK
        <4> QED
          BY <2>1, <4>1, <4>2
      <3>2. \A d \in owed'[r] : d \in RateDate /\ Oldest(today) <= d /\ d <= today
        BY <3>1, BackfillAssumption DEF Oldest
      <3>3. Oldest(today) \in Int
        BY <3>1, BackfillAssumption DEF Oldest
      <3>4. \A d \in owed'[r] : d \in Int
        BY <3>1
      <3> QED
        BY <3>2, <3>3, <3>4 DEF Window
    <2> QED
      BY <2>1, <2>2, <2>3 DEF Accounted, Window, RateDate, Oldest
  <1>4. CASE CountRates(r)
    <2>1. owed' = owed /\ rates' = rates /\ today' = today /\ pc[r] = "count"
      BY <1>4 DEF CountRates
    <2>2. CASE Full(job[r].date)
      <3>1. PICK date \in RateDate : date = job[r].date
        BY <2>1 DEF LoopOK, Window
      <3>2. \A p \in Pair : Has(date, p)'
        BY <2>2, <3>1, FullIsAll, RatesGrow
      <3>3. NextDate(r) /\ owed'[r] \in SUBSET owed[r] /\ pc[r] # "idle"
        BY <1>4, <2>1, <2>2 DEF CountRates
      <3> QED
        BY <2>1, <3>1, <3>2, <3>3, DatePassed
    <2>3. CASE ~ Full(job[r].date)
      <3>1. pc'[r] = "fetch" /\ job'[r] = job[r]
        BY <1>4, <2>3 DEF CountRates, Goto, TypeOK
      <3> QED
        BY <2>1, <3>1, StaysCovered
    <2> QED
      BY <2>2, <2>3
  <1>5. CASE Fetch(r)
    <2>1. pc'[r] = "write" /\ job'[r] = job[r] /\ pc[r] = "fetch" /\ owed' = owed
      BY <1>5 DEF Fetch, Goto, TypeOK
    <2> QED
      BY <2>1, StaysCovered
  <1>6. CASE Upsert(r)
    <2>1. /\ pc'[r] = "write" /\ pc[r] = "write" /\ owed' = owed
          /\ job'[r] = Locals(job[r].end, job[r].date, job[r].pair + 1)
      BY <1>6 DEF Upsert, Goto, TypeOK
    <2> QED
      BY <2>1, StaysCovered DEF Locals
  <1>7. CASE Commit(r)
    <2>1. /\ pc[r] = "write" /\ owed' = owed /\ today' = today
          /\ rates' = [rates EXCEPT ![job[r].date] = Matrix]
      BY <1>7 DEF Commit
    <2>2. PICK date \in RateDate : date = job[r].date
      BY <2>1 DEF LoopOK, Window
    <2>3. rates'[date] = Matrix
      BY <2>1, <2>2 DEF TypeOK
    <2>4. \A p \in Pair : Has(date, p)'
      BY <2>3 DEF Has, Matrix
    <2>5. NextDate(r) /\ owed'[r] \in SUBSET owed[r] /\ pc[r] # "idle"
      BY <1>7, <2>1 DEF Commit
    <2> QED
      BY <2>1, <2>2, <2>4, <2>5, DatePassed
  <1>8. CASE Fail(r)
    <2>1. /\ pc[r] # "idle" /\ today' = today /\ NextDate(r)
          /\ owed'[r] = owed[r] \ {job[r].date}
      BY <1>8 DEF Fail, TypeOK
    <2>2. PICK date \in RateDate : date = job[r].date
      BY <2>1 DEF LoopOK, Window
    <2>3. date \notin owed'[r] /\ owed'[r] \in SUBSET owed[r]
      BY <2>1, <2>2
    <2> QED
      BY <2>1, <2>2, <2>3, DatePassed
  <1>9. CASE Crash
    BY <1>9 DEF Crash, Accounted
  <1> QED
    BY <1>1, <1>2, <1>3, <1>4, <1>5, <1>6, <1>7, <1>8, <1>9
       DEF Next, vars, running, Midnight, Publish, Log, Logged, LookUp, Step

AllCovered == \A r \in Run : Accounted(r)

(* DailyRatesService.catchUp: a catch-up that has ended leaves full every  *)
(* date of its window that the provider had when it began, unless that     *)
(* very date failed.                                                       *)
THEOREM RunsCover == Spec => []RunCovers
  <1>1. Init => AllCovered
    BY DEF Init, AllCovered, Accounted
  <1>2. TypeOK /\ LoopOK /\ AllCovered /\ [Next]_vars => AllCovered'
    BY StepCovers DEF AllCovered
  <1>3. AllCovered => RunCovers
    BY DEF AllCovered, Accounted, RunCovers
  <1> QED
    BY <1>1, <1>2, <1>3, InTheWindow, PTL DEF Spec

----------------------------------------------------------------------------
(* ExpensesService.create: what has been found stays the most recent.      *)

\* Each pair has the rate it had when the logging began, until it is looked up.
FloorsHold ==
    logging # 0 => \A p \in Pair :
        floor[p] = 0 \/ (floor[p] \in RateDate /\ floor[p] <= logging /\ Has(floor[p], p))

LEMMA StepCurrent ==
    ASSUME TypeOK, LoopOK, FloorsHold, EntriesAreCurrent, [Next]_vars
    PROVE  FloorsHold' /\ EntriesAreCurrent'
  <1> USE SizeAssumption
  <1>1. CASE UNCHANGED conversion
    <2>1. FloorsHold'
      BY <1>1, RatesGrow DEF FloorsHold, conversion
    <2>2. EntriesAreCurrent'
      BY <1>1 DEF EntriesAreCurrent, conversion
    <2> QED
      BY <2>1, <2>2
  <1>2. CASE Log
    <2>1. /\ logging' = today /\ left' = Pair /\ rates' = rates
          /\ \A p \in Pair : floor'[p] = Newest({d \in 1..today : Has(d, p)})
      BY <1>2 DEF Log
    <2>2. 1..today \subseteq RateDate /\ today \in Nat
      BY DEF TypeOK, RateDate
    <2>3. ASSUME NEW p \in Pair
          PROVE  floor'[p] \in {0} \cup {d \in 1..today : Has(d, p)}
      <3> DEFINE S == {d \in 1..today : Has(d, p)}
      <3>1. S \in SUBSET RateDate /\ floor'[p] = Newest(S)
        BY <2>1, <2>2
      <3> HIDE DEF S
      <3>2. floor'[p] \in {0} \cup S
        BY <3>1, NewestDate
      <3> QED
        BY <3>2 DEF S
    <2>4. FloorsHold'
      BY <2>1, <2>2, <2>3 DEF FloorsHold, Has
    <2>5. EntriesAreCurrent'
      BY <2>1 DEF EntriesAreCurrent
    <2> QED
      BY <2>4, <2>5
  <1>3. ASSUME NEW p \in Pair, LookUp(p)
        PROVE  FloorsHold' /\ EntriesAreCurrent'
    <2>1. /\ left' = left \ {p} /\ rates' = rates /\ logging' = logging /\ floor' = floor
          /\ entry' \in [Pair -> 0..today]
          /\ entry'[p] = MostRecent(p, logging)
          /\ \A q \in Pair \ {p} : entry'[q] = entry[q]
      <3>1. entry'[p] = MostRecent(p, logging) /\ \A q \in Pair \ {p} : entry'[q] = entry[q]
        BY <1>3 DEF LookUp, TypeOK
      <3>2. entry' \in [Pair -> 0..today]
        BY <1>3, StepTyped DEF TypeOK, LookUp
      <3> QED
        BY <1>3, <3>1, <3>2 DEF LookUp
    <2>2. FloorsHold'
      BY <2>1 DEF FloorsHold, Has
    <2>3. ASSUME logging # 0
          PROVE  floor[p] <= MostRecent(p, logging) /\ MostRecent(p, logging) <= logging
      <3> DEFINE S == {d \in RateDate : d <= logging /\ Has(d, p)}
      <3>1. S \in SUBSET RateDate /\ MostRecent(p, logging) = Newest(S)
        BY DEF MostRecent
      <3>2. Newest(S) \in {0} \cup S /\ \A e \in S : e <= Newest(S)
        BY <3>1, NewestDate
      <3>3. logging \in Nat
        BY DEF TypeOK
      <3>4. Newest(S) \in Nat /\ Newest(S) <= logging
        BY <3>2, <3>3 DEF RateDate
      <3>5. floor[p] = 0 \/ floor[p] \in S
        BY <2>3 DEF FloorsHold
      <3> HIDE DEF S
      <3> QED
        BY <3>1, <3>2, <3>4, <3>5
    <2>4. EntriesAreCurrent'
      BY <2>1, <2>3 DEF EntriesAreCurrent
    <2> QED
      BY <2>2, <2>4
  <1>4. CASE NoConversion
    BY <1>4 DEF NoConversion, FloorsHold, EntriesAreCurrent
  <1> QED
    BY <1>1, <1>2, <1>3, <1>4
       DEF Next, vars, Midnight, Publish, Start, Step, CountRates, Fetch, Upsert, Commit, Fail,
           Crash, Logged

(* ConversionService.convert under ExpensesService.create: while rates     *)
(* arrive and midnight passes, an entry uses a rate no older than the      *)
(* newest its pair had when the Expense was logged, none of a later date.  *)
THEOREM EntriesCurrent == Spec => []EntriesAreCurrent
  <1>1. Init => FloorsHold /\ EntriesAreCurrent
    BY DEF Init, FloorsHold, EntriesAreCurrent
  <1>2. TypeOK /\ LoopOK /\ FloorsHold /\ EntriesAreCurrent /\ [Next]_vars
            => FloorsHold' /\ EntriesAreCurrent'
    BY StepCurrent
  <1> QED
    BY <1>1, <1>2, InTheWindow, PTL DEF Spec

----------------------------------------------------------------------------
(* SeedData: the seed makes any database whole, whatever rows it finds.    *)

Database(u, r, e, c) == [users |-> u, rates |-> r, expenses |-> e, conversions |-> c]

(* A pair without a rate gets one: only the pair's own row has its id.      *)
LEMMA EveryPairCovered ==
    ASSUME NEW R,
           \A r \in R : r.id \in RatePairs => r.pair = r.id /\ r.date = RATE_DATE,
           NEW pair \in RatePairs
    PROVE  \E r \in R \cup {row \in buildDailyRates : \A s \in R : ~SameRate(row, s)} :
               r.pair = pair /\ r.date = RATE_DATE
  <1> DEFINE row == RateRow(pair, pair)
  <1>1. row.id = pair /\ row.pair = pair /\ row.date = RATE_DATE
    BY DEF RateRow
  <1>2. row \in buildDailyRates
    BY DEF buildDailyRates
  <1>3. CASE \E s \in R : SameRate(row, s)
    <2>1. PICK s \in R : SameRate(row, s)
      BY <1>3
    <2>2. s.pair = pair /\ s.date = RATE_DATE
      BY <1>1, <2>1 DEF SameRate
    <2> QED
      BY <2>2
  <1>4. CASE \A s \in R : ~SameRate(row, s)
    BY <1>1, <1>2, <1>4
  <1> QED
    BY <1>3, <1>4

(* The owner of the Expenses is there after the first statement.            *)
LEMMA OwnerIsThere ==
    ASSUME NEW U, \A r \in U : r.name = "you" <=> r.id = "you"
    PROVE  \E u \in U \cup {row \in userRows : \A s \in U : ~SameUser(row, s)} :
               u.id = "you"
  <1> DEFINE row == [id |-> "you", name |-> "you"]
  <1>1. row \in userRows
    BY DEF userRows, users
  <1>2. row.id = "you" /\ row.name = "you"
    OBVIOUS
  <1> HIDE DEF row
  <1>3. CASE \E s \in U : SameUser(row, s)
    BY <1>2, <1>3 DEF SameUser
  <1>4. CASE \A s \in U : ~SameUser(row, s)
    BY <1>1, <1>2, <1>4
  <1> QED
    BY <1>3, <1>4

(* Every entry of every snapshot is among the rows of the fourth statement. *)
LEMMA EveryEntryListed ==
    ASSUME NEW e \in expenses, NEW c \in SUPPORTED_CURRENCIES
    PROVE  \E row \in buildConversions : row.expenseId = e.id /\ row.currency = c
  <1> DEFINE Entry(key) == [expenseId |-> key[1].id, currency |-> key[2],
                          rate |-> IF key[2] = key[1].currency THEN <<1, 1>>
                                   ELSE fixtureRate(key[1].currency, key[2])]
  <1>1. Entry(<<e, c>>) \in buildConversions
    BY DEF buildConversions
  <1>2. Entry(<<e, c>>).expenseId = e.id /\ Entry(<<e, c>>).currency = c
    OBVIOUS
  <1> QED
    BY <1>1, <1>2

LEMMA OwnedByYou ==
    ASSUME NEW e \in expenses
    PROVE  e.ownerId = "you"
  <1>1. PICK n \in DOMAIN Logs :
           e = LET log == Logs[n]
                   date == calendarDateToDate(<<2026, 1, log[1]>>)
               IN  [id |-> n, ownerId |-> "you", category |-> log[2],
                    visibility |-> log[3], currency |-> log[4], amount |-> log[5],
                    expenseDate |-> date,
                    loggedAt |-> date * Day + log[6] * Hour + log[7]]
    BY DEF expenses
  <1> QED
    BY <1>1

(* main (seed.ts:363-412), run to its end on a database where ids mean what  *)
(* they say: every pair has a rate, and every seeded Expense its snapshot.   *)
THEOREM SeedCompletes ==
    ASSUME NEW U, NEW R, NEW E, NEW C, IdsAreContent(Database(U, R, E, C))
    PROVE  Complete(main(Database(U, R, E, C), 4))
  <1> DEFINE
        U1 == U \cup {row \in userRows : \A s \in U : ~SameUser(row, s)}
        R1 == R \cup {row \in buildDailyRates : \A s \in R : ~SameRate(row, s)}
        E1 == E \cup {row \in expenses : \A s \in E : row.id # s.id}
        C1 == C \cup {row \in buildConversions : \A s \in C : ~SameConversion(row, s)}
        db2 == SeedRates(SeedUsers(Database(U, R, E, C)))
  <1>1. SeedUsers(Database(U, R, E, C)) = Database(U1, R, E, C)
    <2>1. Database(U, R, E, C).users = U
      BY DEF Database
    <2>2. SeedUsers(Database(U, R, E, C)) = [Database(U, R, E, C) EXCEPT !.users = U1]
      BY <2>1 DEF SeedUsers
    <2> HIDE DEF U1
    <2> QED
      BY <2>2 DEF Database
  <1>2. SeedRates(Database(U1, R, E, C)) = Database(U1, R1, E, C)
    <2>1. Database(U1, R, E, C).rates = R
      BY DEF Database
    <2>2. SeedRates(Database(U1, R, E, C)) = [Database(U1, R, E, C) EXCEPT !.rates = R1]
      BY <2>1 DEF SeedRates
    <2> HIDE DEF U1, R1
    <2> QED
      BY <2>2 DEF Database
  <1>3. SeedExpenses(Database(U1, R1, E, C)) = Database(U1, R1, E1, C)
    <2>1. Database(U1, R1, E, C).expenses = E
      BY DEF Database
    <2>2. SeedExpenses(Database(U1, R1, E, C)) = [Database(U1, R1, E, C) EXCEPT !.expenses = E1]
      BY <2>1 DEF SeedExpenses
    <2> HIDE DEF U1, R1, E1
    <2> QED
      BY <2>2 DEF Database
  <1>4. SeedConversions(Database(U1, R1, E1, C)) = Database(U1, R1, E1, C1)
    <2>1. Database(U1, R1, E1, C).conversions = C
      BY DEF Database
    <2>2. SeedConversions(Database(U1, R1, E1, C)) = [Database(U1, R1, E1, C) EXCEPT !.conversions = C1]
      BY <2>1 DEF SeedConversions
    <2> HIDE DEF U1, R1, E1, C1
    <2> QED
      BY <2>2 DEF Database
  <1>5. db2 = Database(U1, R1, E, C)
    BY <1>1, <1>2
  <1>6. SeedExpenses(db2) = Database(U1, R1, E1, C)
    BY <1>5, <1>3
  <1>7. SeedConversions(SeedExpenses(db2)) = Database(U1, R1, E1, C1)
    BY <1>6, <1>4
  <1>8. OwnersSeeded(db2)
    <2>1. \E u \in U1 : u.id = "you"
      BY OwnerIsThere DEF IdsAreContent, Database
    <2>2. \A row \in E1 \ E : row.ownerId = "you"
      BY OwnedByYou
    <2>3. SeedExpenses(db2).expenses = E1 /\ db2.users = U1 /\ db2.expenses = E
      BY <1>5, <1>6 DEF Database
    <2> HIDE DEF U1, E1
    <2> QED
      BY <2>1, <2>2, <2>3 DEF OwnersSeeded
  <1>9. main(Database(U, R, E, C), 4) = Database(U1, R1, E1, C1)
    BY <1>7, <1>8 DEF main
  <1>10. Covered(Database(U1, R1, E1, C1), RatePairs)
    <2>1. \A r \in R : r.id \in RatePairs => r.pair = r.id /\ r.date = RATE_DATE
      BY DEF IdsAreContent, Database
    <2>2. \A pair \in RatePairs : \E r \in R1 : r.pair = pair /\ r.date = RATE_DATE
      BY <2>1, EveryPairCovered
    <2> HIDE DEF R1
    <2> QED
      BY <2>2 DEF Covered, Database
  <1>11. \A e \in expenses : \E r \in E1 : r.id = e.id
    OBVIOUS
  <1>12. ASSUME NEW e \in expenses, NEW c \in SUPPORTED_CURRENCIES
        PROVE  \E r \in C1 : r.expenseId = e.id /\ r.currency = c
    <2>1. PICK row \in buildConversions : row.expenseId = e.id /\ row.currency = c
      BY EveryEntryListed
    <2>2. CASE \E s \in C : SameConversion(row, s)
      BY <2>1, <2>2 DEF SameConversion
    <2>3. CASE \A s \in C : ~SameConversion(row, s)
      BY <2>1, <2>3
    <2> QED
      BY <2>2, <2>3
  <1> HIDE DEF U1, R1, E1, C1
  <1> QED
    BY <1>9, <1>10, <1>11, <1>12 DEF Complete, Database
=============================================================================
