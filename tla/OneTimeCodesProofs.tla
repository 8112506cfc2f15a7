------------------------ MODULE OneTimeCodesProofs ------------------------
(***************************************************************************)
(* What holds of OneTimeCodes for any number of slots, any limits and any  *)
(* bounds, however the handlers interleave.                                *)
(***************************************************************************)
EXTENDS MCOneTimeCodes, FiniteSetTheorems, TLAPS

Verifying(c) == {h \in Slot : pc[h] = "confirm:verify" /\ job[h].code = c}

\* Ids of rows and numbers of codes are handed out once, and the live row holds
\* a code that was stored in it.
NumbersOK ==
    /\ row.id < nextRow
    /\ \A c \in Code : /\ storedIn[c] < nextRow
                       /\ c >= nextCode => storedIn[c] = 0
    /\ Live => row.code \in Code /\ storedIn[row.code] = row.id

\* A code about to be stored is new and one handler's; a code being confirmed
\* was read from the row it was stored in.
JobOK ==
    \A h \in Slot :
        /\ pc[h] = "issue:store" =>
              /\ job[h].code \in Code
              /\ job[h].code < nextCode
              /\ storedIn[job[h].code] = 0
              /\ \A g \in Slot \ {h} :
                    pc[g] = "issue:store" => job[g].code # job[h].code
        /\ pc[h] = "confirm:verify" =>
              /\ job[h].code \in Code
              /\ job[h].id = storedIn[job[h].code]
              /\ job[h].id # 0

\* The row a code was confirmed on is gone for good.
WonOK == \A c \in won : storedIn[c] # 0 /\ storedIn[c] # row.id

\* Guesses in flight are counted against the limit before they are wrong.
GuessesOK ==
    /\ \A c \in Code : wrong[c] + Cardinality(Verifying(c)) < MaxFailed + Cardinality(Slot)
    /\ \A c \in Code : storedIn[c] = 0 => wrong[c] = 0
    /\ Live => wrong[row.code] <= row.failedAttempts

IInv == TypeOK /\ NumbersOK /\ JobOK /\ WonOK /\ OneWinPerRow /\ GuessesOK

----------------------------------------------------------------------------
LEMMA Card ==
    ASSUME NEW S \in SUBSET Slot
    PROVE  /\ IsFiniteSet(S)
           /\ Cardinality(S) \in Nat
           /\ Cardinality(S) <= Cardinality(Slot)
           /\ \A T \in SUBSET S : Cardinality(T) <= Cardinality(S)
BY SlotAssumption, FS_Subset, FS_CardinalityType

LEMMA InitIInv == Init => IInv
<1> SUFFICES ASSUME Init PROVE IInv
  OBVIOUS
<1> USE DEF Init, NoRow, Row, NoJob, Locals, Live
<1>1. TypeOK
  BY DEF TypeOK, RowType, JobType, Pc
<1>2. NumbersOK /\ JobOK /\ WonOK /\ OneWinPerRow
  BY DEF NumbersOK, JobOK, WonOK, OneWinPerRow
<1>3. \A c \in Code : Verifying(c) = {}
  BY DEF Verifying
<1>4. GuessesOK
  <2>1. Cardinality(Slot) \in Nat /\ Cardinality({}) = 0
    BY SlotAssumption, FS_EmptySet, FS_CardinalityType
  <2>2. ASSUME NEW c \in Code
        PROVE  wrong[c] = 0 /\ Cardinality(Verifying(c)) = 0
    BY <1>3, <2>1
  <2>3. 0 + 0 < MaxFailed + Cardinality(Slot)
    BY <2>1, LimitAssumption
  <2>4. ~Live
    OBVIOUS
  <2>. QED  BY ONLY <2>2, <2>3, <2>4 DEF GuessesOK
<1>. QED  BY <1>1, <1>2, <1>4 DEF IInv

\* A handler that moves on to anything but a comparison of hashes, while no
\* wrong guess is counted, leaves room for as many wrong guesses as before.
LEMMA NoNewGuess ==
    ASSUME IInv, NEW h \in Slot, NEW where, NEW locals, Goto(h, where, locals),
           where # "confirm:verify", wrong' = wrong, NEW c \in Code
    PROVE  wrong'[c] + Cardinality(Verifying(c)') < MaxFailed + Cardinality(Slot)
<1>1. Verifying(c) \in SUBSET Slot /\ Verifying(c)' \in SUBSET Verifying(c)
  BY DEF Verifying, Goto, IInv, TypeOK
<1>2. /\ Cardinality(Verifying(c)) \in Nat /\ Cardinality(Verifying(c)') \in Nat
      /\ Cardinality(Verifying(c)') <= Cardinality(Verifying(c))
      /\ Cardinality(Slot) \in Nat
  BY <1>1, Card
<1>3. wrong[c] + Cardinality(Verifying(c)) < MaxFailed + Cardinality(Slot)
  BY DEF IInv, GuessesOK
<1>. QED  BY <1>2, <1>3, LimitAssumption DEF IInv, TypeOK

\* A step that leaves the row and the histories alone.
LEMMA QuietStep ==
    ASSUME IInv, NEW h \in Slot, NEW where \in Pc, NEW locals \in JobType,
           Goto(h, where, locals), where \notin {"issue:store", "confirm:verify"},
           UNCHANGED <<now, row, nextRow, nextCode, storedIn, latest, wrong, won>>
    PROVE  IInv'
<1> USE DEF IInv
<1>1. TypeOK'
  BY DEF TypeOK, Goto
<1>2. NumbersOK' /\ WonOK' /\ OneWinPerRow'
  BY DEF NumbersOK, WonOK, OneWinPerRow, Live
<1>3. JobOK'
  BY DEF JobOK, Goto, TypeOK
<1>4. GuessesOK'
  BY NoNewGuess DEF GuessesOK, Live
<1>. QED  BY <1>1, <1>2, <1>3, <1>4

LEMMA IssueFindKeeps ==
    ASSUME IInv, NEW h \in Slot, IssueFind(h)
    PROVE  IInv'
<1> USE DEF IInv, IssueFind
<1>1. CASE Answer(h) /\ UNCHANGED nextCode
  <2>1. NoJob \in JobType
    BY DEF NoJob, Locals, JobType
  <2>. QED  BY <1>1, <2>1, QuietStep DEF Answer, Pc
<1>2. CASE /\ nextCode \in Code
           /\ Goto(h, "issue:store", Locals(job[h].at, nextCode, 0, 0))
           /\ nextCode' = nextCode + 1
  <2> USE DEF Locals
  <2>1. TypeOK'
    BY <1>2 DEF TypeOK, Goto, JobType, Pc
  <2>2. NumbersOK' /\ WonOK' /\ OneWinPerRow'
    BY <1>2 DEF NumbersOK, WonOK, OneWinPerRow, Live, TypeOK, Code
  <2>3. JobOK'
    BY <1>2 DEF JobOK, Goto, TypeOK, NumbersOK, Code, JobType
  <2>4. GuessesOK'
    BY <1>2, NoNewGuess DEF GuessesOK, Live
  <2>. QED  BY <2>1, <2>2, <2>3, <2>4
<1>. QED  BY <1>1, <1>2

LEMMA IssueStoreKeeps ==
    ASSUME IInv, NEW h \in Slot, IssueStore(h)
    PROVE  IInv'
<1> DEFINE c == job[h].code
<1> USE DEF IInv, IssueStore, Upsert, Row
<1>1. /\ c \in Code /\ c < nextCode /\ storedIn[c] = 0 /\ c \notin won
      /\ \A g \in Slot \ {h} : pc[g] = "issue:store" => job[g].code # c
      /\ \A g \in Slot : pc[g] = "confirm:verify" => job[g].code # c
  BY DEF JobOK, WonOK
<1>2. /\ row'.id \in Nat \ {0} /\ row'.id < nextRow' /\ row'.code = c
      /\ row'.failedAttempts = 0
      /\ nextRow' \in Nat \ {0} /\ nextRow <= nextRow'
      /\ row'.id = row.id \/ row'.id = nextRow
  BY DEF TypeOK, NumbersOK, Live, RowType
<1>3. storedIn' = [storedIn EXCEPT ![c] = row'.id] /\ storedIn \in [Code -> Nat]
  BY DEF TypeOK
<1> HIDE DEF c
<1>4. row' \in RowType
  BY TimeAssumption DEF TypeOK, RowType, JobType, Live
<1>5. TypeOK'
  BY <1>1, <1>2, <1>3, <1>4 DEF TypeOK, Goto, JobType, Pc
<1>6. NumbersOK'
  BY <1>1, <1>2, <1>3 DEF NumbersOK, Live, TypeOK, Code
<1>7. WonOK' /\ OneWinPerRow'
  BY <1>1, <1>2, <1>3 DEF WonOK, OneWinPerRow, NumbersOK, TypeOK
<1>8. JobOK'
  BY <1>1, <1>2, <1>3 DEF JobOK, Goto, TypeOK
<1>9. GuessesOK'
  <2>1. \A d \in Code : storedIn'[d] = 0 => wrong'[d] = 0
    BY <1>1, <1>2, <1>3 DEF GuessesOK
  <2>2. wrong'[row'.code] <= row'.failedAttempts
    BY <1>1, <1>2 DEF GuessesOK
  <2>3. wrong' = wrong /\ Goto(h, "issued", job[h])
    OBVIOUS
  <2>. QED  BY <2>1, <2>2, <2>3, NoNewGuess DEF GuessesOK
<1>. QED  BY <1>5, <1>6, <1>7, <1>8, <1>9

LEMMA ConfirmFindKeeps ==
    ASSUME IInv, NEW h \in Slot, NEW guess \in 0..(nextCode - 1), ConfirmFind(h, guess)
    PROVE  IInv'
<1> USE DEF IInv, ConfirmFind, Locals
<1>1. /\ row.id # 0 /\ row.code \in Code /\ storedIn[row.code] = row.id
      /\ wrong[row.code] <= row.failedAttempts /\ row.failedAttempts < MaxFailed
  BY DEF Usable, Live, NumbersOK, GuessesOK
<1>2. TypeOK'
  BY DEF TypeOK, Goto, JobType, RowType, Pc
<1>3. NumbersOK' /\ WonOK' /\ OneWinPerRow'
  BY DEF NumbersOK, WonOK, OneWinPerRow, Live
<1>4. JobOK'
  BY <1>1 DEF JobOK, Goto, TypeOK
<1>5. ASSUME NEW c \in Code
      PROVE  wrong'[c] + Cardinality(Verifying(c)') < MaxFailed + Cardinality(Slot)
  <2>1. /\ Verifying(c)' \in SUBSET Slot
        /\ Cardinality(Verifying(c)') \in Nat
        /\ Cardinality(Verifying(c)') <= Cardinality(Slot)
        /\ Cardinality(Slot) \in Nat
    BY Card DEF Verifying
  <2>2. CASE c = row.code
    BY <1>1, <2>1, <2>2, LimitAssumption DEF TypeOK, RowType
  <2>3. CASE c # row.code
    <3>1. Verifying(c)' = Verifying(c)
      BY <2>3 DEF Verifying, Goto, TypeOK
    <3>. QED  BY <3>1 DEF GuessesOK
  <2>. QED  BY <2>2, <2>3
<1>6. GuessesOK'
  BY <1>5 DEF GuessesOK, Live
<1>. QED  BY <1>2, <1>3, <1>4, <1>6

LEMMA ConfirmMismatchKeeps ==
    ASSUME IInv, NEW h \in Slot, ConfirmMismatch(h)
    PROVE  IInv'
<1> DEFINE c == job[h].code
<1> USE DEF IInv, ConfirmMismatch, Answer, NoJob, Locals, Row
<1>1. c \in Code /\ job[h].id = storedIn[c] /\ storedIn[c] # 0
  BY DEF JobOK
<1>2. /\ wrong' = [wrong EXCEPT ![c] = wrong[c] + 1] /\ wrong \in [Code -> Nat]
      /\ row' \in RowType /\ row'.id = row.id /\ row'.code = row.code
      /\ row'.failedAttempts = IF row.id = job[h].id THEN row.failedAttempts + 1
                                                    ELSE row.failedAttempts
  BY DEF TypeOK, RowType
<1>3. TypeOK'
  BY <1>1, <1>2 DEF TypeOK, Goto, JobType, Pc
<1>4. NumbersOK' /\ WonOK' /\ OneWinPerRow'
  BY <1>2 DEF NumbersOK, WonOK, OneWinPerRow, Live
<1>5. JobOK'
  BY DEF JobOK, Goto, TypeOK
<1>6. ASSUME NEW d \in Code
      PROVE  wrong'[d] + Cardinality(Verifying(d)') < MaxFailed + Cardinality(Slot)
  <2>1. /\ IsFiniteSet(Verifying(d)) /\ Cardinality(Verifying(d)) \in Nat
        /\ Cardinality(Slot) \in Nat
    BY Card DEF Verifying
  <2>2. Verifying(d)' = Verifying(d) \ {h}
    BY DEF Verifying, Goto, TypeOK
  <2>3. Cardinality(Verifying(d)') = IF h \in Verifying(d) THEN Cardinality(Verifying(d)) - 1
                                                           ELSE Cardinality(Verifying(d))
    BY <2>1, <2>2, FS_RemoveElement
  <2>4. h \in Verifying(d) <=> d = c
    BY DEF Verifying
  <2>5. wrong[d] + Cardinality(Verifying(d)) < MaxFailed + Cardinality(Slot)
    BY DEF GuessesOK
  <2>. QED  BY <1>2, <2>1, <2>3, <2>4, <2>5, LimitAssumption
<1>7. GuessesOK'
  <2>1. \A d \in Code : storedIn'[d] = 0 => wrong'[d] = 0
    BY <1>1, <1>2 DEF GuessesOK
  <2>2. Live' => wrong'[row'.code] <= row'.failedAttempts
    BY <1>1, <1>2 DEF GuessesOK, Live, NumbersOK, TypeOK, RowType
  <2>. QED  BY <1>6, <2>1, <2>2 DEF GuessesOK
<1>. QED  BY <1>3, <1>4, <1>5, <1>7

LEMMA ConfirmMatchKeeps ==
    ASSUME IInv, NEW h \in Slot, ConfirmMatch(h)
    PROVE  IInv'
<1> USE DEF IInv, ConfirmMatch
<1>1. CASE row.id # job[h].id
  <2>1. NoJob \in JobType
    BY DEF NoJob, Locals, JobType
  <2>. QED  BY <1>1, <2>1, QuietStep DEF Answer, Pc
<1>2. CASE row.id = job[h].id
  <2>1. /\ job[h].code \in Code /\ storedIn[job[h].code] = row.id /\ row.id # 0
        /\ row' = NoRow /\ won' = won \cup {job[h].code}
        /\ NoRow \in RowType /\ NoRow.id = 0
        /\ Goto(h, "confirmed", job[h]) /\ wrong' = wrong
    BY <1>2 DEF JobOK, NoRow, Row, RowType
  <2>2. TypeOK'
    BY <1>2, <2>1 DEF TypeOK, Goto, Pc
  <2>3. NumbersOK' /\ WonOK' /\ OneWinPerRow'
    BY <1>2, <2>1 DEF NumbersOK, WonOK, OneWinPerRow, Live, TypeOK
  <2>4. JobOK'
    BY <1>2, <2>1 DEF JobOK, Goto, TypeOK
  <2>5. GuessesOK'
    BY <1>2, <2>1, NoNewGuess DEF GuessesOK, Live
  <2>. QED  BY <2>2, <2>3, <2>4, <2>5
<1>. QED  BY <1>1, <1>2

LEMMA NextIInv == IInv /\ [Next]_vars => IInv'
<1> SUFFICES ASSUME IInv, [Next]_vars PROVE IInv'
  OBVIOUS
<1>1. ASSUME NEW h \in Slot, IssueStart(h) \/ Return(h) \/ Crash(h)
      PROVE  IInv'
  <2>1. NoJob \in JobType /\ Locals(now, 0, 0, 0) \in JobType
    BY DEF NoJob, Locals, JobType, IInv, TypeOK
  <2>. QED  BY <1>1, <2>1, QuietStep DEF IssueStart, Return, Crash, Answer, Pc
<1>2. CASE Tick
  BY <1>2 DEF Tick, IInv, TypeOK, NumbersOK, JobOK, WonOK, OneWinPerRow, GuessesOK,
              Live, Verifying
<1>3. CASE UNCHANGED vars
  BY <1>3 DEF vars, IInv, TypeOK, NumbersOK, JobOK, WonOK, OneWinPerRow, GuessesOK,
              Live, Verifying
<1>. QED
  BY <1>1, <1>2, <1>3, IssueFindKeeps, IssueStoreKeeps, ConfirmFindKeeps,
     ConfirmMismatchKeeps, ConfirmMatchKeeps DEF Next, Handler

LEMMA Inductive == Spec => []IInv
BY InitIInv, NextIInv, PTL DEF Spec

----------------------------------------------------------------------------
\* The row and the handlers keep their types, for any constants.
THEOREM TypeCorrect == Spec => []TypeOK
BY Inductive, PTL DEF IInv

\* Of all the codes that replaced each other in one row, one at most is ever
\* confirmed, for any number of racing handlers.
THEOREM RowsWinOnce == Spec => []OneWinPerRow
BY Inductive, PTL DEF IInv

\* No code is ever confirmed twice, for any number of racing handlers.
THEOREM CodesAreSingleUse == Spec => SingleUse
<1>1. ASSUME IInv, NEW h \in Slot, [Next]_vars, Confirms(h)
      PROVE  job[h].code \notin won
  <2>1. PICK g \in Slot : ConfirmMatch(g) /\ row.id = job[g].id /\ g = h
    BY <1>1 DEF Next, Handler, vars, Confirms, Goto, Answer, IssueStart, IssueFind, IssueStore,
       ConfirmFind, ConfirmMismatch, ConfirmMatch, Return, Crash, Tick, IInv, TypeOK
  <2>. QED  BY <1>1, <2>1 DEF ConfirmMatch, IInv, JobOK, WonOK
<1>2. IInv /\ [Next]_vars => [\A h \in Slot : Confirms(h) => job[h].code \notin won]_vars
  BY <1>1
<1>. QED  BY <1>2, Inductive, PTL DEF Spec, SingleUse

\* n racing handlers get fewer than MaxFailed + n wrong guesses at any code,
\* whatever n and MaxFailed are.
THEOREM GuessesAreBounded == Spec => []WrongGuessesBounded
<1>1. IInv => WrongGuessesBounded
  <2> SUFFICES ASSUME IInv, NEW c \in Code
               PROVE  wrong[c] < MaxFailed + Cardinality(Slot)
    BY DEF WrongGuessesBounded
  <2>1. Cardinality(Verifying(c)) \in Nat /\ Cardinality(Slot) \in Nat
    BY Card DEF Verifying
  <2>. QED  BY <2>1, LimitAssumption DEF IInv, GuessesOK, TypeOK
<1>. QED  BY <1>1, Inductive, PTL

----------------------------------------------------------------------------
(* One handler at a time: what CodeRules promises.                         *)

Sole == \A g, h \in Slot : pc[g] # "idle" /\ pc[h] # "idle" => g = h

\* The attempts counted are the live code's own, and there is room for the next.
CountOK ==
    /\ Live => row.failedAttempts = wrong[row.code] /\ row.failedAttempts <= MaxFailed
    /\ \A h \in Slot : pc[h] = "confirm:verify" =>
          job[h].id = row.id /\ job[h].code = row.code /\ row.failedAttempts < MaxFailed

\* A code about to be stored is newer than any stored, and the cooldown of the
\* live one is over.
OrderOK ==
    /\ latest < nextCode
    /\ \A h \in Slot : pc[h] = "issue:store" =>
          /\ latest < job[h].code
          /\ Live => job[h].at >= row.createdAt + Cooldown

AloneOK == alone => Sole /\ CountOK /\ OrderOK
MCInv == IInv /\ AloneOK

LEMMA SoleStep ==
    ASSUME IInv, NEW h \in Slot, Handler(h), \A g \in Slot \ {h} : pc[g] = "idle"
    PROVE  Sole' /\ \A g \in Slot \ {h} : pc'[g] = "idle"
<1>1. PICK where, locals : Goto(h, where, locals)
  BY DEF Handler, IssueStart, IssueFind, IssueStore, ConfirmFind, ConfirmMismatch, ConfirmMatch,
         Return, Crash, Answer
<1>2. pc \in [Slot -> Pc]
  BY DEF IInv, TypeOK
<1>3. \A g \in Slot \ {h} : pc'[g] = "idle"
  BY <1>1, <1>2 DEF Goto
<1>. QED  BY <1>3 DEF Sole

LEMMA AloneStep ==
    ASSUME MCInv, alone, NEW h \in Slot, Handler(h), \A g \in Slot \ {h} : pc[g] = "idle"
    PROVE  CountOK' /\ OrderOK'
<1> USE DEF MCInv, AloneOK, IInv
<1>1. \A g \in Slot \ {h} : pc'[g] = "idle"
  BY SoleStep
<1>2. /\ row \in RowType /\ pc \in [Slot -> Pc] /\ job \in [Slot -> JobType]
      /\ wrong \in [Code -> Nat] /\ latest \in Nat /\ nextCode \in Nat /\ now \in Nat
      /\ Live => row.code \in Code
  BY DEF TypeOK, NumbersOK
<1>3. CASE IssueStart(h) \/ Return(h) \/ Crash(h)
  <2>1. /\ UNCHANGED <<row, nextCode, latest, wrong>>
        /\ pc'[h] \in {"idle", "issue:find"}
    BY <1>2, <1>3 DEF IssueStart, Return, Crash, Answer, Goto
  <2>. QED  BY <1>1, <2>1 DEF CountOK, OrderOK, Live
<1>4. CASE IssueFind(h)
  <2>1. UNCHANGED <<row, latest, wrong>>
    BY <1>4 DEF IssueFind
  <2>2. CASE Answer(h) /\ UNCHANGED nextCode
    <3>1. pc'[h] = "idle"
      BY <1>2, <2>2 DEF Answer, Goto
    <3>. QED  BY <1>1, <2>1, <2>2, <3>1 DEF CountOK, OrderOK, Live
  <2>3. CASE /\ ~CoolingDown(h) /\ nextCode' = nextCode + 1
             /\ Goto(h, "issue:store", Locals(job[h].at, nextCode, 0, 0))
    <3>1. pc'[h] = "issue:store" /\ job'[h].code = nextCode /\ job'[h].at = job[h].at
      BY <1>2, <2>3 DEF Goto, Locals
    <3>2. Live => job[h].at >= row.createdAt + Cooldown
      BY <1>2, <2>3, TimeAssumption DEF CoolingDown, RowType, JobType
    <3>3. latest < nextCode /\ latest < nextCode'
      BY <1>2, <2>3 DEF OrderOK
    <3>. QED  BY <1>1, <2>1, <3>1, <3>2, <3>3 DEF CountOK, OrderOK, Live
  <2>. QED  BY <1>4, <2>2, <2>3 DEF IssueFind
<1>5. CASE IssueStore(h)
  <2>1. /\ pc'[h] = "issued" /\ wrong' = wrong /\ nextCode' = nextCode
        /\ latest' = job[h].code /\ row'.code = job[h].code /\ row'.failedAttempts = 0
    BY <1>2, <1>5 DEF IssueStore, Upsert, Goto, Row
  <2>2. job[h].code < nextCode /\ wrong[job[h].code] = 0
    BY <1>5 DEF IssueStore, JobOK, GuessesOK
  <2>. QED  BY <1>1, <2>1, <2>2, LimitAssumption DEF CountOK, OrderOK
<1>6. CASE \E guess \in 0..(nextCode - 1) : ConfirmFind(h, guess)
  <2>1. /\ UNCHANGED <<row, nextCode, latest, wrong>> /\ row.failedAttempts < MaxFailed
        /\ pc'[h] = "confirm:verify" /\ job'[h].id = row.id /\ job'[h].code = row.code
    BY <1>2, <1>6 DEF ConfirmFind, Usable, Goto, Locals
  <2>. QED  BY <1>1, <2>1 DEF CountOK, OrderOK, Live
<1>7. CASE ConfirmMismatch(h)
  <2>1. /\ job[h].id = row.id /\ job[h].code = row.code /\ row.failedAttempts < MaxFailed
        /\ job[h].id # 0 /\ Live
    BY <1>7 DEF ConfirmMismatch, CountOK, JobOK, Live
  <2>2. /\ UNCHANGED <<nextCode, latest>> /\ pc'[h] = "idle"
        /\ row'.id = row.id /\ row'.code = row.code
        /\ row'.failedAttempts = row.failedAttempts + 1
        /\ wrong'[row.code] = wrong[row.code] + 1
    BY <1>2, <1>7, <2>1 DEF ConfirmMismatch, Answer, Goto, Row
  <2>3. row'.failedAttempts = wrong'[row'.code] /\ row'.failedAttempts <= MaxFailed
    BY <1>2, <2>1, <2>2, LimitAssumption DEF CountOK, RowType
  <2>. QED  BY <1>1, <2>2, <2>3 DEF CountOK, OrderOK
<1>8. CASE ConfirmMatch(h)
  <2>1. job[h].id = row.id
    BY <1>8 DEF ConfirmMatch, CountOK
  <2>2. UNCHANGED <<nextCode, latest, wrong>> /\ pc'[h] = "confirmed" /\ row' = NoRow
    BY <1>2, <1>8, <2>1 DEF ConfirmMatch, Goto
  <2>. QED  BY <1>1, <2>2 DEF CountOK, OrderOK, Live, NoRow, Row
<1>. QED  BY <1>3, <1>4, <1>5, <1>6, <1>7, <1>8 DEF Handler

MCVars == <<vars, alone>>
LEMMA MCInductive == MCSpec => []MCInv /\ [][MCNext]_MCVars
<1>1. MCInit => MCInv
  <2>1. Init => Sole /\ CountOK /\ OrderOK
    BY DEF Init, Sole, CountOK, OrderOK, Live, NoRow, Row
  <2>. QED  BY <2>1, InitIInv DEF MCInit, MCInv, AloneOK
<1>2. MCInv /\ [MCNext]_MCVars => MCInv'
  <2> SUFFICES ASSUME MCInv, [MCNext]_MCVars PROVE MCInv'
    OBVIOUS
  <2>1. IInv'
    BY NextIInv DEF MCInv, MCNext, MCVars, Next
  <2>2. CASE UNCHANGED <<row, nextCode, latest, wrong, pc, job, alone>>
    BY <2>1, <2>2 DEF MCInv, AloneOK, Sole, CountOK, OrderOK, Live
  <2>3. ASSUME NEW h \in Slot, Handler(h), UNCHANGED alone,
               alone => \A g \in Slot \ {h} : pc[g] = "idle"
        PROVE  AloneOK'
    BY <2>3, SoleStep, AloneStep DEF MCInv, AloneOK
  <2>. QED  BY <2>1, <2>2, <2>3 DEF MCNext, MCVars, Tick, vars, MCInv
<1>. QED  BY <1>1, <1>2, PTL DEF MCSpec, MCVars

\* One handler at a time, the attempts counted against a code are the wrong guesses
\* of that very code, and MaxFailed at most (one-time-codes.service.ts).
THEOREM CountsAreOwn == MCSpec => []CountsOwnGuesses
<1>1. MCInv => CountsOwnGuesses
  BY DEF MCInv, AloneOK, CountOK, CountsOwnGuesses
<1>. QED  BY <1>1, MCInductive, PTL

----------------------------------------------------------------------------
(* And so each step is one of CodeRules, or changes nothing it can tell.   *)

live == IF Usable \/ (Live /\ Held) THEN row.code ELSE 0
Promised ==
    /\ Rules!Next
    /\ latest' # latest /\ Live => row'.createdAt >= row.createdAt + Cooldown

\* What was live stays so or lapses, when the row and its code stay.
LEMMA StaysOrLapses ==
    ASSUME IInv, UNCHANGED <<latest, won>>, live' \in {live, 0}
    PROVE  Promised \/ UNCHANGED Rules!vars
<1>1. CASE live' = live
  BY <1>1 DEF Rules!vars, live
<1>2. CASE live' # live
  <2>1. live' = 0 /\ live # 0
    BY <1>2
  <2>2. Rules!Lapse
    BY <2>1 DEF Rules!Lapse, live
  <2>. QED  BY <2>2 DEF Rules!Next, Promised
<1>. QED  BY <1>1, <1>2

LEMMA HandlerPromised ==
    ASSUME MCInv, alone, NEW h \in Slot, Handler(h), \A g \in Slot \ {h} : pc[g] = "idle"
    PROVE  Promised \/ UNCHANGED Rules!vars
<1> USE DEF MCInv, AloneOK, IInv
<1>1. \A g \in Slot \ {h} : pc'[g] = "idle"
  BY SoleStep
<1>2. /\ row \in RowType /\ pc \in [Slot -> Pc] /\ job \in [Slot -> JobType]
      /\ latest \in Nat
      /\ Live => row.code \in Code /\ row.code # 0
  BY DEF TypeOK, NumbersOK, Code
<1>3. Held => pc[h] = "confirm:verify" /\ job[h].id = row.id
  BY DEF Held
<1>4. Held' => pc'[h] = "confirm:verify"
  BY <1>1 DEF Held
<1>5. CASE IssueStart(h) \/ IssueFind(h) \/ Return(h) \/ Crash(h)
  <2>1. /\ UNCHANGED <<row, now, latest, won>> /\ pc'[h] # "confirm:verify"
    BY <1>2, <1>5 DEF IssueStart, IssueFind, Return, Crash, Answer, Goto
  <2>2. live' \in {live, 0}
    BY <1>4, <2>1 DEF live, Usable, Live
  <2>. QED  BY <2>1, <2>2, StaysOrLapses
<1>6. CASE IssueStore(h)
  <2>1. /\ pc'[h] = "issued" /\ won' = won /\ job[h].code \in Code
        /\ latest' = job[h].code /\ row'.code = job[h].code /\ row'.createdAt = job[h].at
        /\ latest < job[h].code /\ (Live => job[h].at >= row.createdAt + Cooldown)
    BY <1>2, <1>6 DEF IssueStore, Upsert, Goto, Row, OrderOK, JobOK
  <2>2. live' \in {job[h].code, 0}
    BY <1>4, <2>1 DEF live
  <2>3. Rules!Issue(job[h].code)
    BY <1>2, <2>1, <2>2 DEF Rules!Issue, live, Code
  <2>. QED  BY <2>1, <2>3 DEF Rules!Next, Promised
<1>7. CASE \E guess \in 0..(nextCode - 1) : ConfirmFind(h, guess)
  <2>1. UNCHANGED <<row, now, latest, won>> /\ Usable /\ pc[h] = "idle"
    BY <1>7 DEF ConfirmFind
  <2>2. live' = live
    BY <2>1 DEF live, Usable, Live
  <2>. QED  BY <2>1, <2>2, StaysOrLapses
<1>8. CASE ConfirmMismatch(h)
  <2>1. /\ UNCHANGED <<latest, won>> /\ pc'[h] = "idle" /\ job[h].id = row.id /\ Live
        /\ pc[h] = "confirm:verify" /\ row'.code = row.code
    BY <1>2, <1>8 DEF ConfirmMismatch, Answer, Goto, Row, CountOK, JobOK, Live
  <2>2. live = row.code /\ live' \in {row.code, 0}
    BY <1>4, <2>1 DEF live, Held
  <2>. QED  BY <2>1, <2>2, StaysOrLapses
<1>9. CASE ConfirmMatch(h)
  <2>1. /\ job[h].id = row.id /\ job[h].code = row.code /\ pc[h] = "confirm:verify" /\ Live
        /\ job[h].code \in Code
    BY <1>9 DEF ConfirmMatch, CountOK, JobOK, Live
  <2>2. row' = NoRow /\ won' = won \cup {row.code} /\ latest' = latest
    BY <1>9, <2>1 DEF ConfirmMatch
  <2>3. live = row.code /\ row.code # 0
    BY <1>2, <2>1 DEF live, Held
  <2>4. row'.code = 0 /\ live' = 0
    BY <2>2 DEF live, NoRow, Row
  <2>5. Rules!Confirm(row.code)
    BY <2>2, <2>3, <2>4 DEF Rules!Confirm, live
  <2>. QED  BY <2>1, <2>2, <2>5 DEF Rules!Next, Promised
<1>. QED  BY <1>5, <1>6, <1>7, <1>8, <1>9 DEF Handler

LEMMA TickPromised ==
    ASSUME MCInv, Tick
    PROVE  Promised \/ UNCHANGED Rules!vars
<1>1. live' \in {live, 0} /\ UNCHANGED <<latest, won>>
  <2>1. UNCHANGED <<row, pc, job, latest, won>> /\ now' = now + 1
    BY DEF Tick
  <2>2. row \in RowType /\ now \in Nat
    BY DEF MCInv, IInv, TypeOK
  <2>3. Held' = Held /\ Live' = Live /\ (Usable' => Usable)
    BY <2>1, <2>2 DEF Held, Live, Usable, RowType
  <2>. QED  BY <2>1, <2>3 DEF live
<1>. QED  BY <1>1, StaysOrLapses DEF MCInv

\* One handler at a time, OneTimeCodesService does what CodeRules promises, and
\* supersedes a live code only once the cooldown of its issue is over.
THEOREM CodesImplementRules == MCSpec => ImplementsRules
<1>1. MCInit => Rules!Init
  <2> SUFFICES ASSUME MCInit PROVE Rules!Init
    OBVIOUS
  <2>. QED  BY DEF MCInit, Init, Rules!Init, Usable, Live, NoRow, Row
<1>2. MCInv /\ [MCNext]_MCVars =>
         [alone => Rules!Next /\ (latest' # latest /\ Live =>
              row'.createdAt >= row.createdAt + Cooldown)]_(Rules!vars)
  <2> SUFFICES ASSUME MCInv, [MCNext]_MCVars, alone
               PROVE  Promised \/ UNCHANGED Rules!vars
    BY DEF Promised
  <2>1. CASE UNCHANGED MCVars
    BY <2>1 DEF MCVars, vars, Rules!vars, Usable, Live, Held
  <2>2. CASE MCNext
    BY <2>2, HandlerPromised, TickPromised DEF MCNext
  <2>. QED  BY <2>1, <2>2
<1>. QED  BY <1>1, <1>2, MCInductive, PTL DEF MCSpec, ImplementsRules
=============================================================================
