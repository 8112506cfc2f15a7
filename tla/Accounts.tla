------------------------------ MODULE Accounts ------------------------------
(***************************************************************************)
(* One account: sign-up, sign-in, Email Verification, Password Reset and   *)
(* the guard that accepts or rejects the sessions handed out.  A session   *)
(* is a signed token nobody stores: it ends only when the guard finds its  *)
(* iat before users.credentialsChangedAt.  One action per await of a       *)
(* handler; handlers interleave.  The One-Time Codes of both Purposes keep *)
(* the promise of CodeRules, one step per operation.  OneTimeCodes has     *)
(* their inner steps, and shows where overlapping issues and confirms      *)
(* break that promise: of the properties about overlapping handlers below, *)
(* EveryChangeHasItsCode needs that no code is confirmed twice, which is   *)
(* proved for every interleaving; the others need nothing of the codes.    *)
(*                                                                         *)
(* The clock ticks several times a second; a token's iat is in seconds.    *)
(* A password is a number and its hash verifies that number only.  A       *)
(* token's own expiry is left out, and so are other accounts: every        *)
(* statement below is on one row of users.  Nothing deletes it.            *)
(*                                                                         *)
(* An operator named ...Slip is the operator below it with a mistake; no   *)
(* action uses one.                                                        *)
(***************************************************************************)
EXTENDS Integers, FiniteSets

CONSTANTS Slot,         \* the handlers the server runs at a time
          Second,       \* ticks of the clock in a second
          Password,
          Code,         \* the codes, numbered in the order of their issue
          MaxTokens,    \* bound: no sign-in starts once there are this many
          MaxTime       \* bound on the clock

ASSUME SecondAssumption == Second \in Nat \ {0}
ASSUME PasswordAssumption == Password \subseteq Nat \ {0}
ASSUME CodeAssumption == Code \subseteq Nat \ {0}
ASSUME BoundAssumption == MaxTokens \in Nat /\ MaxTime \in Nat

VARIABLES
    now,                                    \* the Clock, from 1 on
    user,                                   \* the users row, or NoUser
    tokens,                                 \* every token handed out
    pc, job,                                \* next statement and locals
    resetCode, newestReset, usedResets,     \* password_reset codes
    verifyCode, newestVerify, usedVerifies, \* email_verification codes
    mailbox,                                \* the codes its owner has received
    passwords                               \* history: passwords the row has had

resetCodes == <<resetCode, newestReset, usedResets>>
verifyCodes == <<verifyCode, newestVerify, usedVerifies>>
vars == <<now, user, tokens, pc, job, resetCodes, verifyCodes, mailbox, passwords>>

Reset == INSTANCE CodeRules WITH
    live <- resetCode, newest <- newestReset, used <- usedResets
Verify == INSTANCE CodeRules WITH
    live <- verifyCode, newest <- newestVerify, used <- usedVerifies

\* 0 is the null of credentialsChangedAt and emailVerifiedAt.
User(password, changedAt, verifiedAt) ==
    [password |-> password, changedAt |-> changedAt, verifiedAt |-> verifiedAt]
NoUser == User(0, 0, 0)
Exists == user.password # 0

Token(at, password) == [at |-> at, password |-> password]
Locals(password, at, code) == [password |-> password, at |-> at, code |-> code]
NoJob == Locals(0, 0, 0)

\* A letter is the Purpose of the code it carries, and the code.
Letter(purpose, code) == <<purpose, code>>

InSeconds(at) == at \div Second

Init ==
    /\ now = 1
    /\ user = NoUser
    /\ tokens = {}
    /\ pc = [h \in Slot |-> "idle"]
    /\ job = [h \in Slot |-> NoJob]
    /\ Reset!Init /\ Verify!Init
    /\ mailbox = {}
    /\ passwords = {}

Goto(h, where, locals) ==
    /\ pc' = [pc EXCEPT ![h] = where]
    /\ job' = [job EXCEPT ![h] = locals]

Answer(h) == Goto(h, "idle", NoJob)

----------------------------------------------------------------------------
(* The guard in front of every handler that needs a session.               *)

Accepted(t) ==
    /\ Exists
    /\ \/ user.changedAt = 0
       \/ InSeconds(t.at) >= InSeconds(user.changedAt)

SignedIn == \E t \in tokens : Accepted(t)

----------------------------------------------------------------------------
(* POST /auth/sign-up: the checks, the insert, an email that may fail, and *)
(* the session.                                                            *)

SignUpCheck(h, p) ==
    /\ pc[h] = "idle"
    /\ Cardinality(tokens) < MaxTokens
    /\ ~Exists
    /\ Goto(h, "signUp:create", Locals(p, 0, 0))
    /\ UNCHANGED <<now, user, tokens, resetCodes, verifyCodes, mailbox, passwords>>

SignUpCreateSlip(h) ==          \* on a row that is there, goes on to a session
    /\ pc[h] = "signUp:create"
    /\ IF Exists
       THEN UNCHANGED <<user, passwords>>
       ELSE /\ user' = User(job[h].password, 0, 0)
            /\ passwords' = passwords \cup {job[h].password}
    /\ Goto(h, "verify:issue", job[h])
    /\ UNCHANGED <<now, tokens, resetCodes, verifyCodes, mailbox>>

\* The unique indexes on email and username turn a lost race into a 409.
SignUpCreate(h) ==
    /\ pc[h] = "signUp:create"
    /\ IF Exists
       THEN Answer(h) /\ UNCHANGED <<user, passwords>>
       ELSE /\ user' = User(job[h].password, 0, 0)
            /\ passwords' = passwords \cup {job[h].password}
            /\ Goto(h, "verify:issue", job[h])
    /\ UNCHANGED <<now, tokens, resetCodes, verifyCodes, mailbox>>

\* Even a mere request for a code ends in a session.
AfterVerificationSlip(h) == Goto(h, "session:sign", job[h])

\* A sign-up goes on to its session, whatever became of the email.
AfterVerification(h) ==
    IF job[h].password # 0
    THEN Goto(h, "session:sign", job[h])
    ELSE Answer(h)

(* POST /auth/sign-in: the row is read, then the slow hash comparison runs, *)
(* then the token is signed.  A wrong password changes nothing.             *)

SignInFind(h) ==
    /\ pc[h] = "idle"
    /\ Exists
    /\ Cardinality(tokens) < MaxTokens
    /\ Goto(h, "session:sign", Locals(user.password, 0, 0))
    /\ UNCHANGED <<now, user, tokens, resetCodes, verifyCodes, mailbox, passwords>>

\* signAsync reads the time when it is called.
IssueSession(h) ==
    /\ pc[h] = "session:sign"
    /\ tokens' = tokens \cup {Token(now, job[h].password)}
    /\ Answer(h)
    /\ UNCHANGED <<now, user, resetCodes, verifyCodes, mailbox, passwords>>

----------------------------------------------------------------------------
(* Email Verification.                                                     *)

RequestVerification(h) ==
    /\ pc[h] = "idle"
    /\ SignedIn
    /\ user.verifiedAt = 0
    /\ Goto(h, "verify:issue", NoJob)
    /\ UNCHANGED <<now, user, tokens, resetCodes, verifyCodes, mailbox, passwords>>

IssueVerification(h, c) ==
    /\ pc[h] = "verify:issue"
    /\ Verify!Issue(c)
    /\ Goto(h, "verify:mail", Locals(job[h].password, 0, c))
    /\ UNCHANGED <<now, user, tokens, resetCodes, mailbox, passwords>>

\* The cooldown, or a failure: a request reports it, a sign-up only logs it.
IssueVerificationFails(h) ==
    /\ pc[h] = "verify:issue"
    /\ AfterVerification(h)
    /\ UNCHANGED <<now, user, tokens, resetCodes, verifyCodes, mailbox, passwords>>

\* The mail arrives, or it is lost or refused.
MailVerification(h) ==
    /\ pc[h] = "verify:mail"
    /\ \/ mailbox' = mailbox \cup {Letter("verify", job[h].code)}
       \/ UNCHANGED mailbox
    /\ AfterVerification(h)
    /\ UNCHANGED <<now, user, tokens, resetCodes, verifyCodes, passwords>>

\* Any other guess is answered with the same 400 and changes no row here.
ConfirmVerification(h, c) ==
    /\ pc[h] = "idle"
    /\ SignedIn
    /\ Letter("verify", c) \in mailbox
    /\ Verify!Confirm(c)
    /\ Goto(h, "verify:mark", Locals(0, now, 0))
    /\ UNCHANGED <<now, user, tokens, resetCodes, mailbox, passwords>>

MarkEmailVerifiedSlip(h) ==     \* the row is written back without its stamp
    /\ pc[h] = "verify:mark"
    /\ user' = User(user.password, 0, job[h].at)
    /\ Answer(h)
    /\ UNCHANGED <<now, tokens, resetCodes, verifyCodes, mailbox, passwords>>

MarkEmailVerified(h) ==
    /\ pc[h] = "verify:mark"
    /\ user' = User(user.password, user.changedAt, job[h].at)
    /\ Answer(h)
    /\ UNCHANGED <<now, tokens, resetCodes, verifyCodes, mailbox, passwords>>

----------------------------------------------------------------------------
(* Password Reset.                                                         *)

RequestReset(h, c) ==
    /\ pc[h] = "idle"
    /\ Exists
    /\ Reset!Issue(c)
    /\ Goto(h, "reset:mail", Locals(0, 0, c))
    /\ UNCHANGED <<now, user, tokens, verifyCodes, mailbox, passwords>>

MailReset(h) ==
    /\ pc[h] = "reset:mail"
    /\ \/ mailbox' = mailbox \cup {Letter("reset", job[h].code)}
       \/ UNCHANGED mailbox
    /\ Answer(h)
    /\ UNCHANGED <<now, user, tokens, resetCodes, verifyCodes, passwords>>

ConfirmResetSlip(h, c, p) ==    \* the code stays live
    /\ pc[h] = "idle"
    /\ Letter("reset", c) \in mailbox
    /\ c = resetCode
    /\ Goto(h, "reset:hash", Locals(p, 0, 0))
    /\ UNCHANGED <<now, user, tokens, resetCodes, verifyCodes, mailbox, passwords>>

ConfirmReset(h, c, p) ==
    /\ pc[h] = "idle"
    /\ Letter("reset", c) \in mailbox
    /\ Reset!Confirm(c)
    /\ Goto(h, "reset:hash", Locals(p, 0, 0))
    /\ UNCHANGED <<now, user, tokens, verifyCodes, mailbox, passwords>>

\* The new password is hashed, then the clock is read, then the row written.
ResetHashed(h) ==
    /\ pc[h] = "reset:hash"
    /\ Goto(h, "reset:write", Locals(job[h].password, now, 0))
    /\ UNCHANGED <<now, user, tokens, resetCodes, verifyCodes, mailbox, passwords>>

ChangePasswordSlip(h) ==        \* the stamp is forgotten
    /\ pc[h] = "reset:write"
    /\ user' = User(job[h].password, user.changedAt, user.verifiedAt)
    /\ passwords' = passwords \cup {job[h].password}
    /\ Answer(h)
    /\ UNCHANGED <<now, tokens, resetCodes, verifyCodes, mailbox>>

ChangePassword(h) ==
    /\ pc[h] = "reset:write"
    /\ user' = User(job[h].password, job[h].at, user.verifiedAt)
    /\ passwords' = passwords \cup {job[h].password}
    /\ Answer(h)
    /\ UNCHANGED <<now, tokens, resetCodes, verifyCodes, mailbox>>

----------------------------------------------------------------------------
\* A code expires, or dies of wrong guesses.
LapseReset ==
    /\ Reset!Lapse
    /\ UNCHANGED <<now, user, tokens, pc, job, verifyCodes, mailbox, passwords>>

LapseVerification ==
    /\ Verify!Lapse
    /\ UNCHANGED <<now, user, tokens, pc, job, resetCodes, mailbox, passwords>>

\* A handler dies at an await: the process stops, the database is out of reach.
Crash(h) ==
    /\ pc[h] # "idle"
    /\ Answer(h)
    /\ UNCHANGED <<now, user, tokens, resetCodes, verifyCodes, mailbox, passwords>>

Tick ==
    /\ now < MaxTime
    /\ now' = now + 1
    /\ UNCHANGED <<user, tokens, pc, job, resetCodes, verifyCodes, mailbox, passwords>>

Handler(h) ==
    \/ \E p \in Password : SignUpCheck(h, p)
    \/ SignUpCreate(h) \/ SignInFind(h) \/ IssueSession(h)
    \/ RequestVerification(h)
    \/ \E c \in Code : IssueVerification(h, c) \/ ConfirmVerification(h, c)
    \/ IssueVerificationFails(h) \/ MailVerification(h) \/ MarkEmailVerified(h)
    \/ \E c \in Code : \/ RequestReset(h, c)
                       \/ \E p \in Password : ConfirmReset(h, c, p)
    \/ MailReset(h) \/ ResetHashed(h) \/ ChangePassword(h)
    \/ Crash(h)

Next == (\E h \in Slot : Handler(h)) \/ LapseReset \/ LapseVerification \/ Tick

Spec == Init /\ [][Next]_vars

----------------------------------------------------------------------------
Pc == {"idle", "signUp:create", "verify:issue", "verify:mail", "verify:mark",
       "session:sign", "reset:mail", "reset:hash", "reset:write"}
TokenType == [at : Nat \ {0}, password : Password]
CodeOrNone == Code \cup {0}

\* Rows, tokens and handlers have the fields their schema and code give them.
TypeOK ==
    /\ now \in Nat \ {0}
    /\ user \in [password : Password \cup {0}, changedAt : Nat, verifiedAt : Nat]
    /\ tokens \subseteq TokenType
    /\ pc \in [Slot -> Pc]
    /\ job \in [Slot -> [password : Password \cup {0}, at : Nat, code : CodeOrNone]]
    /\ resetCode \in CodeOrNone /\ newestReset \in CodeOrNone /\ usedResets \subseteq Code
    /\ verifyCode \in CodeOrNone /\ newestVerify \in CodeOrNone /\ usedVerifies \subseteq Code
    /\ mailbox \subseteq {"reset", "verify"} \X Code
    /\ passwords \subseteq Password

(* However the handlers interleave.                                        *)

\* Whoever holds a session once knew the account's password: of sign-ups that
\* race for one email, only the one whose row was inserted gets a session.
SessionNeedsPassword == \A t \in tokens : t.password \in passwords

\* A password changes only by a code, and one code changes it once at most,
\* however confirmations race and crash.
EveryChangeHasItsCode == Cardinality(passwords) <= 1 + Cardinality(usedResets)
=============================================================================
