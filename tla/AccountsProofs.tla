--------------------------- MODULE AccountsProofs ---------------------------
(***************************************************************************)
(* What holds of Accounts for any number of handlers, passwords and codes  *)
(* and any bounds: first however the handlers interleave, then for the     *)
(* behaviours of MCAccounts that run them one at a time.                   *)
(***************************************************************************)
EXTENDS MCAccounts, FiniteSetTheorems, TLAPS

\* What a handler holds at the statement it has come to.
JobOK ==
    \A h \in Slot :
        /\ pc[h] \in {"signUp:create", "session:sign", "reset:hash", "reset:write"} =>
              job[h].password \in Password
        /\ pc[h] \in {"verify:mail", "reset:mail"} => job[h].code \in Code

\* The row's password is one the row has had, and so is the password of whoever
\* is on the way to a session after the row was inserted.
PasswordsOK ==
    /\ IF Exists THEN user.password \in passwords ELSE passwords = {}
    /\ \A h \in Slot :
          pc[h] \in {"verify:issue", "verify:mail", "session:sign"} =>
              job[h].password \in passwords \cup {0}

\* The live code of a Password Reset has not been confirmed, and codes come in
\* the order of their numbers.
ResetCodesOK ==
    /\ resetCode # 0 => resetCode \notin usedResets /\ resetCode <= newestReset
    /\ \A c \in usedResets : c <= newestReset

\* The handlers between the confirmation of a code and the change it pays for.
Changing == {h \in Slot : pc[h] \in {"reset:hash", "reset:write"}}

\* Every password after the first was paid for by a code, and every handler about
\* to change it has paid with a code of its own.
ChangesOK ==
    /\ IsFiniteSet(passwords) /\ IsFiniteSet(usedResets) /\ IsFiniteSet(Changing)
    /\ Cardinality(passwords) + Cardinality(Changing)
          <= (IF Exists THEN 1 ELSE 0) + Cardinality(usedResets)

----------------------------------------------------------------------------
\* Counting a finite set with one element more, or less.
LEMMA OneMore ==
    ASSUME NEW S, NEW x, IsFiniteSet(S)
    PROVE  /\ IsFiniteSet(S \cup {x})
           /\ Cardinality(S \cup {x}) \in Nat /\ Cardinality(S) \in Nat
           /\ Cardinality(S \cup {x}) <= Cardinality(S) + 1
           /\ x \notin S => Cardinality(S \cup {x}) = Cardinality(S) + 1
  <1>1. Cardinality(S) \in Nat
    BY FS_CardinalityType
  <1> QED
    BY <1>1, FS_AddElement

LEMMA OneLess ==
    ASSUME NEW S, NEW x, IsFiniteSet(S)
    PROVE  /\ IsFiniteSet(S \ {x})
           /\ Cardinality(S \ {x}) \in Nat /\ Cardinality(S) \in Nat
           /\ Cardinality(S \ {x}) <= Cardinality(S)
           /\ x \in S => Cardinality(S \ {x}) = Cardinality(S) - 1
  <1>1. Cardinality(S) \in Nat
    BY FS_CardinalityType
  <1>2. IsFiniteSet(S \ {x})
    BY FS_RemoveElement
  <1>3. Cardinality(S \ {x}) \in Nat
    BY <1>2, FS_CardinalityType
  <1> QED
    BY <1>1, <1>2, <1>3, FS_RemoveElement

----------------------------------------------------------------------------
LEMMA InitTyped == Init => TypeOK /\ JobOK
  BY PasswordAssumption
  DEF Init, TypeOK, JobOK, NoUser, User, NoJob, Locals, Pc, CodeOrNone,
      Reset!Init, Verify!Init

LEMMA NextTyped == TypeOK /\ JobOK /\ [Next]_vars => TypeOK' /\ JobOK'
  <1> SUFFICES ASSUME TypeOK, JobOK, [Next]_vars
               PROVE  TypeOK' /\ JobOK'
    OBVIOUS
  <1> USE DEF TypeOK, JobOK, Goto, Answer, NoJob, Locals, Pc, CodeOrNone, resetCodes, verifyCodes
  <1>1. ASSUME NEW h \in Slot, NEW p \in Password, SignUpCheck(h, p)
        PROVE  TypeOK' /\ JobOK'
    BY <1>1 DEF SignUpCheck
  <1>2. ASSUME NEW h \in Slot, SignUpCreate(h)
        PROVE  TypeOK' /\ JobOK'
    BY <1>2 DEF SignUpCreate, User
  <1>3. ASSUME NEW h \in Slot, SignInFind(h)
        PROVE  TypeOK' /\ JobOK'
    BY <1>3 DEF SignInFind, Exists
  <1>4. ASSUME NEW h \in Slot, IssueSession(h)
        PROVE  TypeOK' /\ JobOK'
    BY <1>4 DEF IssueSession, Token, TokenType
  <1>5. ASSUME NEW h \in Slot, RequestVerification(h)
        PROVE  TypeOK' /\ JobOK'
    BY <1>5 DEF RequestVerification
  <1>6. ASSUME NEW h \in Slot, NEW c \in Code, IssueVerification(h, c)
        PROVE  TypeOK' /\ JobOK'
    BY <1>6 DEF IssueVerification, Verify!Issue
  <1>7. ASSUME NEW h \in Slot, NEW c \in Code, ConfirmVerification(h, c)
        PROVE  TypeOK' /\ JobOK'
    BY <1>7 DEF ConfirmVerification, Verify!Confirm
  <1>8. ASSUME NEW h \in Slot, IssueVerificationFails(h)
        PROVE  TypeOK' /\ JobOK'
    BY <1>8 DEF IssueVerificationFails, AfterVerification
  <1>9. ASSUME NEW h \in Slot, MailVerification(h)
        PROVE  TypeOK' /\ JobOK'
    BY <1>9 DEF MailVerification, AfterVerification, Letter
  <1>10. ASSUME NEW h \in Slot, MarkEmailVerified(h)
         PROVE  TypeOK' /\ JobOK'
    BY <1>10 DEF MarkEmailVerified, User
  <1>11. ASSUME NEW h \in Slot, NEW c \in Code, RequestReset(h, c)
         PROVE  TypeOK' /\ JobOK'
    BY <1>11 DEF RequestReset, Reset!Issue
  <1>12. ASSUME NEW h \in Slot, NEW c \in Code, NEW p \in Password, ConfirmReset(h, c, p)
         PROVE  TypeOK' /\ JobOK'
    BY <1>12 DEF ConfirmReset, Reset!Confirm
  <1>13. ASSUME NEW h \in Slot, MailReset(h)
         PROVE  TypeOK' /\ JobOK'
    BY <1>13 DEF MailReset, Letter
  <1>14. ASSUME NEW h \in Slot, ResetHashed(h)
         PROVE  TypeOK' /\ JobOK'
    BY <1>14 DEF ResetHashed
  <1>15. ASSUME NEW h \in Slot, ChangePassword(h)
         PROVE  TypeOK' /\ JobOK'
    BY <1>15 DEF ChangePassword, User
  <1>16. ASSUME NEW h \in Slot, Crash(h)
         PROVE  TypeOK' /\ JobOK'
    BY <1>16 DEF Crash
  <1>17. CASE LapseReset
    BY <1>17 DEF LapseReset, Reset!Lapse
  <1>18. CASE LapseVerification
    BY <1>18 DEF LapseVerification, Verify!Lapse
  <1>19. CASE Tick
    BY <1>19 DEF Tick
  <1>20. CASE UNCHANGED vars
    BY <1>20 DEF vars
  <1> QED
    BY <1>1, <1>2, <1>3, <1>4, <1>5, <1>6, <1>7, <1>8, <1>9, <1>10, <1>11, <1>12,
       <1>13, <1>14, <1>15, <1>16, <1>17, <1>18, <1>19, <1>20
    DEF Next, Handler

LEMMA Typed == Spec => [](TypeOK /\ JobOK)
  BY InitTyped, NextTyped, PTL DEF Spec

\* The row of users, the tokens, the codes and the locals of every handler of
\* auth, email-verification and password-reset keep their types.
THEOREM AccountsTyped == Spec => []TypeOK
  BY Typed, PTL

----------------------------------------------------------------------------
(* Sessions and passwords.                                                 *)

LEMMA InitPasswords == Init => PasswordsOK /\ SessionNeedsPassword
  BY DEF Init, PasswordsOK, SessionNeedsPassword, Exists, NoUser, User

LEMMA NextPasswords ==
    TypeOK /\ JobOK /\ PasswordsOK /\ SessionNeedsPassword /\ [Next]_vars =>
        PasswordsOK' /\ SessionNeedsPassword'
  <1> SUFFICES ASSUME TypeOK, JobOK, PasswordsOK, SessionNeedsPassword, [Next]_vars
               PROVE  PasswordsOK' /\ SessionNeedsPassword'
    OBVIOUS
  <1> USE PasswordAssumption DEF TypeOK, PasswordsOK, SessionNeedsPassword, Exists
  \* A handler that only moves on, with a password the row has had or none.
  <1>1. ASSUME NEW h \in Slot, NEW where, NEW locals, Goto(h, where, locals),
               where \in {"verify:issue", "verify:mail", "session:sign"} =>
                  locals.password \in passwords \cup {0},
               UNCHANGED <<user, tokens, passwords>>
        PROVE  PasswordsOK' /\ SessionNeedsPassword'
    BY <1>1 DEF Goto
  <1>2. ASSUME NEW h \in Slot, NEW p \in Password, SignUpCheck(h, p)
        PROVE  PasswordsOK' /\ SessionNeedsPassword'
    BY <1>1, <1>2 DEF SignUpCheck
  <1>3. ASSUME NEW h \in Slot, SignUpCreate(h)
        PROVE  PasswordsOK' /\ SessionNeedsPassword'
    <2>1. CASE Exists
      BY <1>1, <1>3, <2>1 DEF SignUpCreate, Answer
    <2>2. CASE ~Exists
      BY <1>3, <2>2 DEF SignUpCreate, User, Goto, JobOK
    <2> QED
      BY <2>1, <2>2
  <1>4. ASSUME NEW h \in Slot, SignInFind(h)
        PROVE  PasswordsOK' /\ SessionNeedsPassword'
    BY <1>1, <1>4 DEF SignInFind, Locals
  <1>5. ASSUME NEW h \in Slot, IssueSession(h)
        PROVE  PasswordsOK' /\ SessionNeedsPassword'
    BY <1>5 DEF IssueSession, Token, Goto, Answer, JobOK
  <1>6. ASSUME NEW h \in Slot, RequestVerification(h)
        PROVE  PasswordsOK' /\ SessionNeedsPassword'
    BY <1>1, <1>6 DEF RequestVerification, NoJob, Locals
  <1>7. ASSUME NEW h \in Slot, NEW c \in Code, IssueVerification(h, c)
        PROVE  PasswordsOK' /\ SessionNeedsPassword'
    BY <1>1, <1>7 DEF IssueVerification, Locals
  <1>8. ASSUME NEW h \in Slot, IssueVerificationFails(h) \/ MailVerification(h)
        PROVE  PasswordsOK' /\ SessionNeedsPassword'
    BY <1>1, <1>8 DEF IssueVerificationFails, MailVerification, AfterVerification, Answer
  <1>9. ASSUME NEW h \in Slot, NEW c \in Code, ConfirmVerification(h, c)
        PROVE  PasswordsOK' /\ SessionNeedsPassword'
    BY <1>1, <1>9 DEF ConfirmVerification
  <1>10. ASSUME NEW h \in Slot, MarkEmailVerified(h)
         PROVE  PasswordsOK' /\ SessionNeedsPassword'
    BY <1>10 DEF MarkEmailVerified, User, Goto, Answer
  <1>11. ASSUME NEW h \in Slot, NEW c \in Code, RequestReset(h, c)
         PROVE  PasswordsOK' /\ SessionNeedsPassword'
    BY <1>1, <1>11 DEF RequestReset
  <1>12. ASSUME NEW h \in Slot, NEW c \in Code, NEW p \in Password, ConfirmReset(h, c, p)
         PROVE  PasswordsOK' /\ SessionNeedsPassword'
    BY <1>1, <1>12 DEF ConfirmReset
  <1>13. ASSUME NEW h \in Slot, MailReset(h) \/ ResetHashed(h) \/ Crash(h)
         PROVE  PasswordsOK' /\ SessionNeedsPassword'
    BY <1>1, <1>13 DEF MailReset, ResetHashed, Crash, Answer
  <1>14. ASSUME NEW h \in Slot, ChangePassword(h)
         PROVE  PasswordsOK' /\ SessionNeedsPassword'
    BY <1>14 DEF ChangePassword, User, Goto, Answer, JobOK
  <1>15. CASE LapseReset \/ LapseVerification \/ Tick \/ UNCHANGED vars
    BY <1>15 DEF LapseReset, LapseVerification, Tick, vars
  <1> QED
    BY <1>2, <1>3, <1>4, <1>5, <1>6, <1>7, <1>8, <1>9, <1>10, <1>11, <1>12, <1>13,
       <1>14, <1>15
    DEF Next, Handler

\* SignUp (auth.service.ts:54-83) and signIn (89-109): however sign-ups race for
\* one email, every session was opened with a password the row has had.
THEOREM SessionsKnowThePassword == Spec => []SessionNeedsPassword
  BY Typed, InitPasswords, NextPasswords, PTL DEF Spec

----------------------------------------------------------------------------
(* The codes of Password Resets, and the changes they pay for.             *)

LEMMA InitChanges == Init => ResetCodesOK /\ ChangesOK
  <1> SUFFICES ASSUME Init PROVE ResetCodesOK /\ ChangesOK
    OBVIOUS
  <1>1. Changing = {}
    BY DEF Init, Changing
  <1> QED
    BY <1>1, FS_EmptySet
    DEF Init, ResetCodesOK, ChangesOK, Exists, NoUser, User, Reset!Init

LEMMA NextResetCodes == TypeOK /\ ResetCodesOK /\ [Next]_vars => ResetCodesOK'
  <1> SUFFICES ASSUME TypeOK, ResetCodesOK, [Next]_vars
               PROVE  ResetCodesOK'
    OBVIOUS
  <1> USE CodeAssumption DEF TypeOK, ResetCodesOK, CodeOrNone
  <1>1. ASSUME NEW h \in Slot, NEW c \in Code, RequestReset(h, c)
        PROVE  ResetCodesOK'
    BY <1>1 DEF RequestReset, Reset!Issue
  <1>2. ASSUME NEW h \in Slot, NEW c \in Code, NEW p \in Password, ConfirmReset(h, c, p)
        PROVE  ResetCodesOK'
    BY <1>2 DEF ConfirmReset, Reset!Confirm
  <1>3. CASE LapseReset
    BY <1>3 DEF LapseReset, Reset!Lapse
  <1>4. CASE UNCHANGED resetCodes
    BY <1>4 DEF resetCodes
  <1> QED
    BY <1>1, <1>2, <1>3, <1>4
    DEF Next, Handler, vars, SignUpCheck, SignUpCreate, SignInFind, IssueSession,
        RequestVerification, IssueVerification, ConfirmVerification,
        IssueVerificationFails, MailVerification, MarkEmailVerified, MailReset,
        ResetHashed, ChangePassword, Crash, LapseVerification, Tick

\* Where a handler goes decides whether it is among those about to change.
LEMMA GoingToChange ==
    ASSUME TypeOK, NEW h \in Slot, NEW where \in Pc, NEW locals, Goto(h, where, locals)
    PROVE  Changing' = IF where \in {"reset:hash", "reset:write"}
                       THEN Changing \cup {h} ELSE Changing \ {h}
  BY DEF TypeOK, Goto, Changing

\* One handler fewer, and the row as it was: the account is still balanced.
LEMMA GivingUp ==
    ASSUME TypeOK, ChangesOK, NEW h \in Slot, Changing' \in {Changing, Changing \ {h}},
           UNCHANGED <<user, passwords, usedResets>>
    PROVE  ChangesOK'
  <1>1. /\ IsFiniteSet(Changing') /\ Cardinality(Changing') <= Cardinality(Changing)
        /\ Cardinality(Changing') \in Nat /\ Cardinality(Changing) \in Nat
    <2>1. CASE Changing' = Changing
      BY <2>1, FS_CardinalityType DEF ChangesOK
    <2>2. CASE Changing' = Changing \ {h}
      BY <2>2, OneLess DEF ChangesOK
    <2> QED
      BY <2>1, <2>2
  <1>2. Cardinality(passwords) \in Nat /\ Cardinality(usedResets) \in Nat
    BY FS_CardinalityType DEF ChangesOK
  <1> QED
    BY <1>1, <1>2 DEF ChangesOK, Exists

LEMMA NextChanges ==
    TypeOK /\ JobOK /\ ResetCodesOK /\ ChangesOK /\ [Next]_vars => ChangesOK'
  <1> SUFFICES ASSUME TypeOK, JobOK, ResetCodesOK, ChangesOK, [Next]_vars
               PROVE  ChangesOK'
    OBVIOUS
  <1>1. /\ Cardinality(passwords) \in Nat /\ Cardinality(usedResets) \in Nat
        /\ Cardinality(Changing) \in Nat
    BY FS_CardinalityType DEF ChangesOK
  <1>2. ASSUME NEW h \in Slot, SignUpCreate(h)
        PROVE  ChangesOK'
    <2>1. Changing' = Changing
      BY <1>2, GoingToChange DEF SignUpCreate, Answer, Pc, Changing
    <2>2. CASE Exists
      BY <1>2, <2>1, <2>2, GivingUp DEF SignUpCreate, resetCodes
    <2>3. CASE ~Exists
      <3>1. passwords' = passwords \cup {job[h].password} /\ Exists' /\ usedResets' = usedResets
        BY <1>2, <2>3, PasswordAssumption
        DEF SignUpCreate, Exists, User, JobOK, resetCodes
      <3>2. /\ IsFiniteSet(passwords')
            /\ Cardinality(passwords') <= Cardinality(passwords) + 1
            /\ Cardinality(passwords') \in Nat
        BY <3>1, OneMore DEF ChangesOK
      <3> QED
        BY <1>1, <2>1, <2>3, <3>1, <3>2 DEF ChangesOK
    <2> QED
      BY <2>2, <2>3
  <1>3. ASSUME NEW h \in Slot, NEW c \in Code, NEW p \in Password, ConfirmReset(h, c, p)
        PROVE  ChangesOK'
    <2>1. Changing' = Changing \cup {h} /\ h \notin Changing
      BY <1>3, GoingToChange DEF ConfirmReset, Pc, Changing
    <2>2. usedResets' = usedResets \cup {c} /\ c \notin usedResets
          /\ UNCHANGED <<user, passwords>>
      BY <1>3 DEF ConfirmReset, Reset!Confirm, ResetCodesOK
    <2>3. /\ IsFiniteSet(Changing')
          /\ Cardinality(Changing') = Cardinality(Changing) + 1
          /\ IsFiniteSet(usedResets')
          /\ Cardinality(usedResets') = Cardinality(usedResets) + 1
      BY <2>1, <2>2, OneMore DEF ChangesOK
    <2> QED
      BY <1>1, <2>2, <2>3 DEF ChangesOK, Exists
  <1>4. ASSUME NEW h \in Slot, ResetHashed(h)
        PROVE  ChangesOK'
    <2>1. Changing' = Changing
      BY <1>4, GoingToChange DEF ResetHashed, Pc, Changing
    <2> QED
      BY <1>4, <2>1, GivingUp DEF ResetHashed, resetCodes
  <1>5. ASSUME NEW h \in Slot, ChangePassword(h)
        PROVE  ChangesOK'
    <2>1. Changing' = Changing \ {h} /\ h \in Changing
      BY <1>5, GoingToChange DEF ChangePassword, Answer, Pc, Changing
    <2>2. passwords' = passwords \cup {job[h].password} /\ Exists' /\ usedResets' = usedResets
      BY <1>5, PasswordAssumption DEF ChangePassword, Exists, User, JobOK, resetCodes
    <2>3. /\ IsFiniteSet(Changing')
          /\ Cardinality(Changing') = Cardinality(Changing) - 1
          /\ IsFiniteSet(passwords')
          /\ Cardinality(passwords') <= Cardinality(passwords) + 1
          /\ Cardinality(passwords') \in Nat
      BY <2>1, <2>2, OneMore, OneLess DEF ChangesOK
    <2> QED
      BY <1>1, <2>2, <2>3 DEF ChangesOK
  <1>6. ASSUME NEW h \in Slot, NEW p \in Password, SignUpCheck(h, p)
        PROVE  ChangesOK'
    BY <1>6, GoingToChange, GivingUp DEF SignUpCheck, resetCodes, Pc
  <1>7. ASSUME NEW h \in Slot,
               \/ SignInFind(h) \/ IssueSession(h) \/ RequestVerification(h)
               \/ IssueVerificationFails(h) \/ MailVerification(h)
               \/ MailReset(h) \/ Crash(h)
        PROVE  ChangesOK'
    BY <1>7, GoingToChange, GivingUp
    DEF SignInFind, IssueSession, RequestVerification, IssueVerificationFails,
        MailVerification, MailReset, Crash, AfterVerification, Answer, resetCodes, Pc
  <1>8. ASSUME NEW h \in Slot, MarkEmailVerified(h)
        PROVE  ChangesOK'
    <2>1. Changing' = Changing \ {h}
      BY <1>8, GoingToChange DEF MarkEmailVerified, Answer, Pc
    <2>2. IsFiniteSet(Changing') /\ Cardinality(Changing') <= Cardinality(Changing)
          /\ Cardinality(Changing') \in Nat
      BY <2>1, OneLess DEF ChangesOK
    <2>3. (Exists' <=> Exists) /\ UNCHANGED <<passwords, usedResets>>
      BY <1>8 DEF MarkEmailVerified, Exists, User, resetCodes
    <2> QED
      BY <1>1, <2>2, <2>3 DEF ChangesOK
  <1>9. ASSUME NEW h \in Slot, NEW c \in Code,
               IssueVerification(h, c) \/ ConfirmVerification(h, c) \/ RequestReset(h, c)
        PROVE  ChangesOK'
    BY <1>9, GoingToChange, GivingUp
    DEF IssueVerification, ConfirmVerification, RequestReset, Reset!Issue, resetCodes, Pc
  <1>10. CASE LapseReset \/ LapseVerification \/ Tick \/ UNCHANGED vars
    <2>1. UNCHANGED <<user, passwords, usedResets, pc>>
      BY <1>10 DEF LapseReset, Reset!Lapse, LapseVerification, Tick, vars, resetCodes
    <2>2. Changing' = Changing
      BY <2>1 DEF Changing
    <2> QED
      BY <2>1, <2>2 DEF ChangesOK, Exists
  <1> QED
    BY <1>2, <1>3, <1>4, <1>5, <1>6, <1>7, <1>8, <1>9, <1>10 DEF Next, Handler

\* confirm of PasswordResetService (password-reset.service.ts:98-131): a password
\* is paid for by a code of its own, however confirmations race and crash.
THEOREM CodesPayForChanges == Spec => []EveryChangeHasItsCode
  <1>1. Spec => [](ResetCodesOK /\ ChangesOK)
    BY Typed, InitChanges, NextResetCodes, NextChanges, PTL DEF Spec
  <1>2. ChangesOK => EveryChangeHasItsCode
    <2> SUFFICES ASSUME ChangesOK PROVE EveryChangeHasItsCode
      OBVIOUS
    <2>1. /\ Cardinality(passwords) \in Nat /\ Cardinality(usedResets) \in Nat
          /\ Cardinality(Changing) \in Nat
      BY FS_CardinalityType DEF ChangesOK
    <2> QED
      BY <2>1 DEF ChangesOK, EveryChangeHasItsCode
  <1> QED
    BY <1>1, <1>2, PTL

----------------------------------------------------------------------------
(* One handler at a time.                                                  *)

LEMMA MCImplements == MCSpec => Spec
  <1>1. MCInit => Init
    BY DEF MCInit
  <1>2. [MCNext]_<<vars, alone>> => [Next]_vars
    BY DEF MCNext, Next
  <1> QED
    BY <1>1, <1>2, PTL DEF MCSpec, Spec

\* Whole seconds keep the order of the ticks.
LEMMA SecondsInOrder ==
    ASSUME NEW a \in Nat, NEW b \in Nat, a <= b
    PROVE  InSeconds(a) <= InSeconds(b)
  <1>1. /\ a \div Second \in Nat /\ b \div Second \in Nat
        /\ Second * (a \div Second) <= a
        /\ b < Second * ((b \div Second) + 1)
    BY SecondAssumption
  <1>2. ASSUME NEW p \in Nat, NEW q \in Nat, Second * p <= a, b < Second * (q + 1)
        PROVE  p <= q
    <2>1. Second * p < Second * (q + 1)
      BY <1>2, SecondAssumption
    <2>2. p < q + 1
      BY <2>1, SecondAssumption
    <2> QED
      BY <2>2
  <1> QED
    BY <1>1, <1>2 DEF InSeconds

OneAtATime == \A g, h \in Slot : pc[g] # "idle" /\ pc[h] # "idle" => g = h

\* The stamp is the time of the last change; every older session was opened
\* before it, and no session is opened between the hash and the write.
StampsOK ==
    /\ \A t \in tokens : t.at <= now
    /\ user.changedAt <= now
    /\ OneAtATime
    /\ \A t \in tokens : t.password = user.password \/ t.at <= user.changedAt
    /\ \A h \in Slot :
          /\ pc[h] \in {"verify:issue", "verify:mail", "session:sign"} =>
                job[h].password \in {user.password, 0}
          /\ pc[h] = "reset:write" =>
                /\ job[h].at <= now /\ user.changedAt <= job[h].at
                /\ \A t \in tokens : t.at <= job[h].at

LEMMA NextStamps ==
    /\ TypeOK /\ JobOK /\ PasswordsOK /\ SessionNeedsPassword /\ StampsOK
    /\ [MCNext]_<<vars, alone>> /\ alone
    => StampsOK'
  <1> SUFFICES ASSUME TypeOK, JobOK, PasswordsOK, SessionNeedsPassword, StampsOK,
                      [MCNext]_<<vars, alone>>, alone
               PROVE  StampsOK'
    OBVIOUS
  <1> USE DEF StampsOK, OneAtATime
  <1>1. ASSUME NEW h \in Slot, NEW where, NEW locals, Goto(h, where, locals),
               \A g \in Slot \ {h} : pc[g] = "idle",
               where \in {"verify:issue", "verify:mail", "session:sign"} =>
                  locals.password \in {user.password, 0},
               where # "reset:write",
               UNCHANGED <<now, user, tokens>>
        PROVE  StampsOK'
    BY <1>1 DEF Goto, TypeOK
  <1>2. ASSUME NEW h \in Slot, \A g \in Slot \ {h} : pc[g] = "idle",
               \/ \E p \in Password : SignUpCheck(h, p)
               \/ SignInFind(h)
               \/ RequestVerification(h)
               \/ \E c \in Code : IssueVerification(h, c) \/ ConfirmVerification(h, c)
               \/ \E c \in Code : \/ RequestReset(h, c)
                                  \/ \E p \in Password : ConfirmReset(h, c, p)
        PROVE  StampsOK'
    BY <1>1, <1>2
    DEF SignUpCheck, SignInFind, RequestVerification, IssueVerification,
        ConfirmVerification, RequestReset, ConfirmReset, NoJob, Locals
  <1>3. ASSUME NEW h \in Slot, \A g \in Slot \ {h} : pc[g] = "idle",
               \/ IssueVerificationFails(h) \/ MailVerification(h)
               \/ MailReset(h) \/ Crash(h)
        PROVE  StampsOK'
    BY <1>1, <1>3
    DEF IssueVerificationFails, MailVerification, AfterVerification, Answer,
        MailReset, Crash
  <1>4. ASSUME NEW h \in Slot, \A g \in Slot \ {h} : pc[g] = "idle", SignUpCreate(h)
        PROVE  StampsOK'
    <2>1. CASE Exists
      BY <1>1, <1>4, <2>1 DEF SignUpCreate, Answer
    <2>2. CASE ~Exists
      <3>1. tokens = {}
        BY <2>2 DEF PasswordsOK, SessionNeedsPassword
      <3> QED
        BY <1>4, <2>2, <3>1 DEF SignUpCreate, Goto, User, TypeOK
    <2> QED
      BY <2>1, <2>2
  <1>5. ASSUME NEW h \in Slot, \A g \in Slot \ {h} : pc[g] = "idle", IssueSession(h)
        PROVE  StampsOK'
    <2>1. job[h].password = user.password
      BY <1>5, PasswordAssumption DEF IssueSession, JobOK, TypeOK
    <2> QED
      BY <1>5, <2>1 DEF IssueSession, Goto, Answer, Token, TypeOK
  <1>6. ASSUME NEW h \in Slot, \A g \in Slot \ {h} : pc[g] = "idle", MarkEmailVerified(h)
        PROVE  StampsOK'
    BY <1>6 DEF MarkEmailVerified, Goto, Answer, User, TypeOK
  <1>7. ASSUME NEW h \in Slot, \A g \in Slot \ {h} : pc[g] = "idle", ResetHashed(h)
        PROVE  StampsOK'
    BY <1>7 DEF ResetHashed, Goto, Locals, TypeOK
  <1>8. ASSUME NEW h \in Slot, \A g \in Slot \ {h} : pc[g] = "idle", ChangePassword(h)
        PROVE  StampsOK'
    BY <1>8 DEF ChangePassword, Goto, Answer, User, TypeOK
  <1>9. CASE Tick
    BY <1>9 DEF Tick, TypeOK, TokenType
  <1>10. CASE LapseReset \/ LapseVerification \/ UNCHANGED <<vars, alone>>
    BY <1>10 DEF LapseReset, LapseVerification, vars
  <1> QED
    BY <1>2, <1>3, <1>4, <1>5, <1>6, <1>7, <1>8, <1>9, <1>10 DEF MCNext, Handler

LEMMA StampsHold ==
    MCSpec => [](/\ TypeOK /\ JobOK /\ PasswordsOK /\ SessionNeedsPassword
                 /\ alone => StampsOK)
  <1>1. MCInit => StampsOK
    BY DEF MCInit, Init, StampsOK, OneAtATime, NoUser, User
  <1>2. Spec => [](TypeOK /\ JobOK /\ PasswordsOK /\ SessionNeedsPassword)
    BY InitTyped, NextTyped, InitPasswords, NextPasswords, PTL DEF Spec
  <1> DEFINE Good == alone => StampsOK
  <1>3. MCInit => Good
    BY <1>1
  <1>4. /\ TypeOK /\ JobOK /\ PasswordsOK /\ SessionNeedsPassword /\ Good
        /\ [MCNext]_<<vars, alone>>
        => Good'
    BY NextStamps DEF MCNext
  <1>5. MCSpec => []Good
    <2> HIDE DEF Good
    <2> QED
      BY <1>2, <1>3, <1>4, MCImplements, PTL DEF MCSpec
  <1> QED
    BY <1>2, <1>5, MCImplements, PTL

\* The guard (jwt-auth.guard.ts:58-70) against the stamp of a Password Reset: one
\* handler at a time, a session of a password since replaced is over, except one
\* of the very second of the stamp.
THEOREM ResetEndsSessions == MCSpec => []OldPasswordSessionsEnd
  <1>1. TypeOK /\ (alone => StampsOK) => OldPasswordSessionsEnd
    <2> SUFFICES ASSUME TypeOK, StampsOK, NEW t \in tokens, Accepted(t),
                        t.password # user.password
                 PROVE  InSeconds(t.at) = InSeconds(user.changedAt)
      BY DEF OldPasswordSessionsEnd
    <2>1. t.at \in Nat /\ t.at > 0 /\ user.changedAt \in Nat /\ t.at <= user.changedAt
      BY DEF TypeOK, TokenType, StampsOK
    <2>2. InSeconds(t.at) <= InSeconds(user.changedAt)
      BY <2>1, SecondsInOrder
    <2>3. InSeconds(t.at) >= InSeconds(user.changedAt)
      BY <2>1 DEF Accepted
    <2>4. InSeconds(t.at) \in Int /\ InSeconds(user.changedAt) \in Int
      BY <2>1, SecondAssumption DEF InSeconds
    <2> QED
      BY <2>2, <2>3, <2>4
  <1> QED
    BY <1>1, StampsHold, PTL

\* The same guard, as what no step does: a session that was rejected is never
\* accepted again, one handler at a time.
THEOREM RevokedForGood == MCSpec => RevokedStaysRevoked
  <1>1. /\ TypeOK /\ PasswordsOK /\ SessionNeedsPassword /\ (alone => StampsOK)
        /\ TypeOK' /\ [MCNext]_<<vars, alone>>
        => [alone => \A t \in tokens : Exists /\ ~Accepted(t) => ~Accepted(t)']_vars
    <2> SUFFICES ASSUME TypeOK, PasswordsOK, SessionNeedsPassword, StampsOK, TypeOK',
                        MCNext, NEW t \in tokens, Exists, ~Accepted(t)
                 PROVE  ~Accepted(t)'
      BY DEF vars
    <2>1. /\ t.at \in Nat /\ user.changedAt \in Nat /\ user'.changedAt \in Nat
      BY DEF TypeOK, TokenType
    <2>2. /\ user.changedAt # 0
          /\ ~(InSeconds(t.at) >= InSeconds(user.changedAt))
      BY DEF Accepted
    <2>3. user.changedAt <= user'.changedAt
      <3>1. CASE user' = user
        BY <2>1, <3>1
      <3>2. ASSUME NEW h \in Slot, SignUpCreate(h)
            PROVE  user' = user
        BY <3>2 DEF SignUpCreate
      <3>3. ASSUME NEW h \in Slot, MarkEmailVerified(h) \/ ChangePassword(h)
            PROVE  user.changedAt <= user'.changedAt
        BY <2>1, <3>3 DEF MarkEmailVerified, ChangePassword, User, StampsOK
      <3> QED
        BY <3>1, <3>2, <3>3
        DEF MCNext, Handler, SignUpCheck, SignInFind, IssueSession,
            RequestVerification, IssueVerification, ConfirmVerification,
            IssueVerificationFails, MailVerification, RequestReset, MailReset,
            ConfirmReset, ResetHashed, Crash, LapseReset, LapseVerification, Tick
    <2>4. InSeconds(user.changedAt) <= InSeconds(user'.changedAt)
      BY <2>1, <2>3, SecondsInOrder
    <2>5. /\ InSeconds(t.at) \in Int /\ InSeconds(user.changedAt) \in Int
          /\ InSeconds(user'.changedAt) \in Int
      BY <2>1, SecondAssumption DEF InSeconds
    <2>6. ~(InSeconds(t.at) >= InSeconds(user'.changedAt)) /\ user'.changedAt # 0
      BY <2>1, <2>2, <2>3, <2>4, <2>5
    <2> QED
      BY <2>6 DEF Accepted, InSeconds
  <1>2. MCSpec => [][MCNext]_<<vars, alone>>
    BY DEF MCSpec
  <1> QED
    BY <1>1, <1>2, StampsHold, PTL DEF RevokedStaysRevoked
=============================================================================
