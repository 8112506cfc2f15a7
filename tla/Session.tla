------------------------------ MODULE Session ------------------------------
(***************************************************************************)
(* The app's session: the token in memory and in the device's secure       *)
(* store, the copy of the signed-in User, and the requests that outlive    *)
(* the screen, or the session, they were sent from.  One action per        *)
(* continuation of the JavaScript event loop, per request served, and per  *)
(* write of the secure store that lands.                                   *)
(*                                                                         *)
(* React commits setState calls of one continuation together and then runs *)
(* the effects they trigger, so each is one step.  A disabled button is    *)
(* disabled in its own mount of the screen only: every change of the       *)
(* navigator's guard unmounts what it hides.  Nothing aborts a request: one *)
(* that the app has given up, or did not live to see answered, may still   *)
(* be served.  The secure store may refuse a read or a write, and a User   *)
(* may be signed in on another device.                                     *)
(*                                                                         *)
(* An account is the set of its fields that were changed since it was      *)
(* made, so a copy that is older than another has fewer of them.           *)
(***************************************************************************)
EXTENDS Integers, Sequences, SequencesExt, FiniteSets

CONSTANTS User,
          Twin,         \* the Users signed in on another device as well
          Setting,      \* the fields the Profile screen edits: currency, language
          Form,         \* the sign-in and sign-up forms under way at a time
          Call,         \* the profile requests under way at a time
          NoUser, Me,
          MaxTokens,    \* bound on the sessions handed out
          MaxKills      \* bound on the times the app is killed

ASSUME TwinAssumption == Twin \subseteq User
ASSUME NoUserAssumption == NoUser \notin User
ASSUME MeAssumption == Me \notin Call
ASSUME BoundAssumption == MaxTokens \in Nat /\ MaxKills \in Nat

VARIABLES
    owner, account,             \* server: whose each token is; the users
    store, writes,              \* secure store, and writes not yet landed
    isTokenLoading, token,      \* useStorageState; 0 is null
    rejected,                   \* the secure store refused to be read
    user,                       \* the copy of GET /users/me, or Nobody
    isResolvingUser, resolve,   \* the effect's requests, by token
    form, call,                 \* submissions and profile requests under way
    kills,
    astray,     \* history: since the token changed, a write landed before an
                \* older one, or the last one was refused
    outlived,   \* history: the copy came from a request of an earlier session
    stale,      \* history: answers under way that the account has overtaken
    doubted     \* history: such an answer was the last shown, or the account has
                \* changed since with nobody to tell the app

server == <<owner, account>>
disk == <<store, writes>>
session == <<isTokenLoading, token, rejected, user, isResolvingUser, resolve>>
history == <<astray, outlived, stale, doubted>>
vars == <<server, disk, session, form, call, kills, history>>

Field == Setting \cup {"emailVerified"}
Token == 1 .. MaxTokens
Copy(id, fields) == [id |-> id, fields |-> fields]
Nobody == Copy(NoUser, {})
Current(t) == Copy(owner[t], account[owner[t]])

Request(kind, t, phase, copy) == [kind |-> kind, token |-> t, phase |-> phase, copy |-> copy]
NoRequest == Request("none", 0, "none", Nobody)

\* What RootNavigator renders.
Group == IF isTokenLoading \/ isResolvingUser THEN "splash"
         ELSE IF user # Nobody THEN "app" ELSE "auth"

\* What a process starts with.
NoRequests == [t \in Token |-> NoRequest]
NoForms == [f \in Form |-> NoUser]
NoCalls == [c \in Call |-> NoRequest]

Init ==
    /\ owner = <<>> /\ account = [u \in User |-> {}]
    /\ store = 0 /\ writes = <<>>
    /\ isTokenLoading = TRUE /\ token = 0 /\ rejected = FALSE /\ user = Nobody
    /\ isResolvingUser = TRUE /\ resolve = NoRequests
    /\ form = NoForms /\ call = NoCalls
    /\ kills = 0
    /\ astray = FALSE /\ outlived = FALSE /\ stale = {} /\ doubted = FALSE

----------------------------------------------------------------------------
(* useStorageState and the effect of SessionProvider.                      *)

\* An operator named ...Slip is the one after it with a mistake in it: no
\* specification uses it; it shows that a property notices the mistake.
setTokenSlip(t) ==              \* in memory only
    /\ token' = t
    /\ astray' = FALSE
    /\ UNCHANGED writes

\* Memory at once, the secure store when it gets to it.
setToken(t) ==
    /\ token' = t
    /\ writes' = Append(writes, t)
    /\ astray' = FALSE

\* The effect runs whenever the token changes: it asks who the token is.
RunEffect(t) ==
    /\ isResolvingUser' = (t # 0)
    /\ resolve' = IF t = 0 THEN resolve
                           ELSE [resolve EXCEPT ![t] = Request("me", t, "sent", Nobody)]

SecureStoreRead ==
    /\ isTokenLoading /\ ~rejected
    /\ isTokenLoading' = FALSE
    /\ token' = store
    /\ RunEffect(store)
    /\ UNCHANGED <<server, disk, rejected, user, form, call, kills, history>>

\* getItemAsync(key).then(setState): nothing catches it, and nothing reads again.
SecureStoreReadFails ==
    /\ isTokenLoading /\ ~rejected
    /\ rejected' = TRUE
    /\ UNCHANGED <<server, disk, isTokenLoading, token, user, isResolvingUser, resolve, form,
                   call, kills, history>>

\* Nothing awaits a write, so nothing orders two of them.
SecureStoreWrite ==
    \E n \in DOMAIN writes :
        /\ store' = writes[n]
        /\ writes' = RemoveAt(writes, n)
        /\ astray' = (astray \/ n # 1)
        /\ UNCHANGED <<server, session, form, call, kills, outlived, stale, doubted>>

\* Nor does anything hear of one that is refused.
SecureStoreWriteFails ==
    \E n \in DOMAIN writes :
        /\ writes' = RemoveAt(writes, n)
        /\ astray' = (astray \/ n = Len(writes))
        /\ UNCHANGED <<server, store, session, form, call, kills, outlived, stale, doubted>>

Served(r) == [r EXCEPT !.phase = "served", !.copy = Current(r.token)]

MeServed(t) ==
    /\ resolve[t].phase = "sent"
    /\ resolve' = [resolve EXCEPT ![t] = Served(@)]
    /\ UNCHANGED <<server, disk, isTokenLoading, token, rejected, user, isResolvingUser, form,
                   call, kills, history>>

MeArrivesSlip(t) ==             \* cancelled or not
    /\ resolve[t].phase = "served"
    /\ resolve' = [resolve EXCEPT ![t] = NoRequest]
    /\ user' = resolve[t].copy
    /\ isResolvingUser' = FALSE
    /\ outlived' = FALSE
    /\ doubted' = (Me \in stale)
    /\ UNCHANGED <<server, disk, isTokenLoading, token, rejected, form, call, kills, astray,
                   stale>>

\* The effect of another token has cancelled this one.
MeArrives(t) ==
    /\ resolve[t].phase = "served"
    /\ resolve' = [resolve EXCEPT ![t] = NoRequest]
    /\ IF t = token
       THEN /\ user' = resolve[t].copy
            /\ isResolvingUser' = FALSE
            /\ outlived' = FALSE
            /\ doubted' = (Me \in stale)
            /\ stale' = stale \ {Me}
       ELSE UNCHANGED <<user, isResolvingUser, outlived, stale, doubted>>
    /\ UNCHANGED <<server, disk, isTokenLoading, token, rejected, form, call, kills, astray>>

MeFailsSlip(t) ==               \* and is asked again
    /\ resolve[t].phase # "none"
    /\ resolve' = [resolve EXCEPT ![t] = Request("me", t, "sent", Nobody)]
    /\ UNCHANGED <<server, disk, isTokenLoading, token, rejected, user, isResolvingUser, form,
                   call, kills, history>>

\* A token ended elsewhere, an unreachable server, a 500: each drops the session.
MeFails(t) ==
    /\ resolve[t].phase # "none"
    /\ resolve' = [resolve EXCEPT ![t] = NoRequest]
    /\ IF t = token
       THEN /\ setToken(0)
            /\ user' = Nobody
            /\ isResolvingUser' = FALSE
            /\ outlived' = FALSE /\ stale' = stale \ {Me} /\ doubted' = FALSE
       ELSE UNCHANGED <<writes, token, user, isResolvingUser, astray, outlived, stale, doubted>>
    /\ UNCHANGED <<server, store, isTokenLoading, rejected, form, call, kills>>

----------------------------------------------------------------------------
(* The (auth) screens.  A form that is busy disables its own button; the   *)
(* other form is a tap away, and so is another mount of the first.         *)

Submit(f, u) ==
    /\ Group = "auth"
    /\ form[f] = NoUser
    /\ form' = [form EXCEPT ![f] = u]
    /\ UNCHANGED <<server, disk, session, call, kills, history>>

\* signIn and signUp go on, whatever screen is up by now.
SignedIn(f) ==
    /\ form[f] # NoUser
    /\ Len(owner) < MaxTokens
    /\ owner' = Append(owner, form[f])
    /\ setToken(Len(owner) + 1)
    /\ user' = Copy(form[f], account[form[f]])
    /\ RunEffect(Len(owner) + 1)
    /\ form' = [form EXCEPT ![f] = NoUser]
    /\ outlived' = FALSE /\ stale' = stale \ {Me} /\ doubted' = FALSE
    /\ UNCHANGED <<account, store, isTokenLoading, rejected, call, kills>>

Refused(f) ==
    /\ form[f] # NoUser
    /\ form' = [form EXCEPT ![f] = NoUser]
    /\ UNCHANGED <<server, disk, session, call, kills, history>>

----------------------------------------------------------------------------
(* The (app) screens: Profile and Verify Email.                            *)

signOut ==
    /\ Group = "app"
    /\ setToken(0)
    /\ user' = Nobody
    /\ outlived' = FALSE /\ stale' = stale \ {Me} /\ doubted' = FALSE
    /\ UNCHANGED <<server, store, isTokenLoading, rejected, isResolvingUser, resolve, form, call,
                   kills>>

\* A row of the Profile is disabled while its request of this session is under way.
\* So are the buttons of the Verify Email screen, but only until that is left: it
\* opens again with its buttons enabled.
Busy(kind) ==
    /\ kind \in Setting
    /\ \E c \in Call :
          call[c].kind = kind /\ call[c].token = token /\ call[c].phase # "lost"

\* Every profile request takes the token of the render it was pressed in; without
\* one it throws, and the Verify Email screen renders nothing.
Press(c, kind) ==
    /\ Group = "app" /\ token # 0
    /\ call[c] = NoRequest /\ ~Busy(kind)
    /\ call' = [call EXCEPT ![c] = Request(kind, token, "sent", Nobody)]
    /\ UNCHANGED <<server, disk, session, form, kills, history>>

\* Another currency, or another language, than the row shows.
onSelect(c, field) == field \notin user.fields /\ Press(c, field)

\* Verified, the Profile row leads nowhere and the screen has one button, Done.
CodeFormUp == "emailVerified" \notin user.fields
onConfirm(c) == CodeFormUp /\ Press(c, "confirm")
onResend(c) == CodeFormUp /\ Press(c, "resend")

Overtaken(u) ==
    {d \in Call : call[d].phase = "served" /\ owner[call[d].token] = u} \cup
    {x \in {Me} : token # 0 /\ resolve[token].phase = "served" /\ owner[token] = u}

\* The server writes the field; the account's older answers are stale from then on.
Write(c, field) ==
    LET u == owner[call[c].token]
    IN  /\ account' = [account EXCEPT ![u] = @ \cup {field}]
        /\ stale' = stale \cup Overtaken(u)

\* The same, with no answer that the app will see.
WriteUnheard(u, fields) ==
    /\ account' = [account EXCEPT ![u] = @ \cup fields]
    /\ stale' = stale \cup Overtaken(u)
    /\ doubted' = (doubted \/ (user.id = u /\ ~(fields \subseteq account[u])))

UpdateServed(c) ==
    /\ call[c].kind \in Setting /\ call[c].phase = "sent"
    /\ Write(c, call[c].kind)
    /\ LET u == owner[call[c].token]
       IN  call' = [call EXCEPT ![c].phase = "served", ![c].copy = Copy(u, account'[u])]
    /\ UNCHANGED <<owner, disk, session, form, kills, astray, outlived, doubted>>

ConfirmServedSlip(c) ==         \* and that is all
    /\ call[c].kind = "confirm" /\ call[c].phase = "sent"
    /\ Write(c, "emailVerified")
    /\ call' = [call EXCEPT ![c] = NoRequest]
    /\ UNCHANGED <<owner, disk, session, form, kills, astray, outlived, doubted>>

\* The code is right, and the client goes on to ask for the account.
ConfirmServed(c) ==
    /\ call[c].kind = "confirm" /\ call[c].phase = "sent"
    /\ Write(c, "emailVerified")
    /\ call' = [call EXCEPT ![c].phase = "refresh"]
    /\ UNCHANGED <<owner, disk, session, form, kills, astray, outlived, doubted>>

Verified(c) == "emailVerified" \in account[owner[call[c].token]]

ResendServedSlip(c) ==          \* told, and does not ask
    /\ call[c].kind = "resend" /\ call[c].phase = "sent"
    /\ call' = [call EXCEPT ![c] = NoRequest]
    /\ doubted' = (doubted /\ ~Verified(c))
    /\ UNCHANGED <<server, disk, session, form, kills, astray, outlived, stale>>

\* 409: verified already, "confirmed from another session": that tells the app, which
\* asks for the account.  Otherwise there is mail, or a 429.
ResendServed(c) ==
    /\ call[c].kind = "resend" /\ call[c].phase = "sent"
    /\ call' = IF Verified(c) THEN [call EXCEPT ![c].phase = "refresh"]
                              ELSE [call EXCEPT ![c] = NoRequest]
    /\ doubted' = (doubted /\ ~Verified(c))
    /\ UNCHANGED <<server, disk, session, form, kills, astray, outlived, stale>>

RefreshServed(c) ==
    /\ call[c].phase = "refresh"
    /\ call' = [call EXCEPT ![c] = Served(@)]
    /\ UNCHANGED <<server, disk, session, form, kills, history>>

\* updateMe and refreshMe end in setUser, whoever is signed in by now.
CallArrives(c) ==
    /\ call[c].phase = "served"
    /\ user' = call[c].copy
    /\ outlived' = (call[c].token # token)
    /\ doubted' = (c \in stale)
    /\ stale' = stale \ {c}
    /\ call' = [call EXCEPT ![c] = NoRequest]
    /\ UNCHANGED <<server, disk, isTokenLoading, token, rejected, isResolvingUser, resolve, form,
                   kills, astray>>

\* What is left of a request nobody waits for any more: it may still be served.
GivenUp(r) ==
    IF r.phase \in {"sent", "lost"} THEN [r EXCEPT !.phase = "lost"] ELSE NoRequest

\* A refusal, or no answer: a banner, or silence.  What the server may have written
\* is not shown.
CallFails(c) ==
    /\ call[c].phase \in {"sent", "refresh", "served"}
    /\ doubted' = (doubted \/ call[c].phase # "sent")
    /\ stale' = stale \ {c}
    /\ call' = [call EXCEPT ![c] = GivenUp(@)]
    /\ UNCHANGED <<server, disk, session, form, kills, astray, outlived>>

ServedLate(c) ==
    /\ call[c].phase = "lost"
    /\ WriteUnheard(owner[call[c].token],
                    IF call[c].kind = "confirm" THEN {"emailVerified"}
                                                ELSE {call[c].kind} \cap Setting)
    /\ call' = [call EXCEPT ![c] = NoRequest]
    /\ UNCHANGED <<owner, disk, session, form, kills, astray, outlived>>

NeverServed(c) ==
    /\ call[c].phase = "lost"
    /\ call' = [call EXCEPT ![c] = NoRequest]
    /\ UNCHANGED <<server, disk, session, form, kills, history>>

\* A User edits the profile, or confirms the email, in another session.
Elsewhere ==
    /\ \E u \in Twin, field \in Field :
          field \notin account[u] /\ WriteUnheard(u, {field})
    /\ UNCHANGED <<owner, disk, session, form, call, kills, astray, outlived>>

----------------------------------------------------------------------------
\* The process ends, and with it what had not landed; it starts again.  A start that
\* got nowhere is not counted.
Kill ==
    /\ rejected \/ kills < MaxKills
    /\ kills' = IF rejected THEN kills ELSE kills + 1
    /\ writes' = <<>>
    /\ isTokenLoading' = TRUE /\ token' = 0 /\ rejected' = FALSE /\ user' = Nobody
    /\ isResolvingUser' = TRUE /\ resolve' = NoRequests
    /\ form' = NoForms /\ call' = [c \in Call |-> GivenUp(call[c])]
    /\ astray' = FALSE /\ outlived' = FALSE /\ stale' = {} /\ doubted' = FALSE
    /\ UNCHANGED <<server, store>>

ReadStore == SecureStoreRead \/ SecureStoreReadFails
Resolve(t) == MeServed(t) \/ MeArrives(t) \/ MeFails(t)

Next ==
    \/ ReadStore \/ SecureStoreWrite \/ SecureStoreWriteFails
    \/ \E t \in Token : Resolve(t)
    \/ \E f \in Form : (\E u \in User : Submit(f, u)) \/ SignedIn(f) \/ Refused(f)
    \/ signOut
    \/ \E c \in Call :
          \/ \E field \in Setting : onSelect(c, field)
          \/ onConfirm(c) \/ onResend(c)
          \/ UpdateServed(c) \/ ConfirmServed(c) \/ ResendServed(c) \/ RefreshServed(c)
          \/ CallArrives(c) \/ CallFails(c)
          \/ ServedLate(c) \/ NeverServed(c)
    \/ Elsewhere
    \/ Kill

Spec == Init /\ [][Next]_vars

\* The secure store answers, if only with an error, and the request the splash screen
\* waits for ends, one way or another.
FairSpec ==
    /\ Spec
    /\ WF_vars(ReadStore)
    /\ \A t \in Token : WF_vars(Resolve(t))

----------------------------------------------------------------------------
\* The account on screen is the one the token speaks for: no answer to an effect
\* that was cancelled, or order of sign-ins and sign-outs, shows another's.  Voided
\* by updateMe and refreshMe, which may come back in another session.
OneIdentity ==
    Group = "app" /\ ~outlived => token # 0 /\ owner[token] = user.id

\* Whenever no write is under way, the device remembers the session that is open, or
\* none: a restart restores what the User saw last, whatever came of the writes of
\* earlier tokens.  Voided, since the token last changed, by a write that landed
\* before an older one, and by a refusal of the last one.
StoreFollows == writes = <<>> /\ ~astray /\ ~isTokenLoading => store = token

\* When no request of the app is under way the copy on screen is the account the
\* server has, whatever was edited, confirmed, refreshed or refused.  An overtaken
\* answer that came last voids it, and so does a change that nobody tells the app of:
\* another session's, one whose answer was lost or one served after it was given up;
\* until an answer that is not overtaken arrives, or a resend is told that the email
\* is verified, which must bring the account up to date (verify-email.tsx:105).
CopyIsFresh ==
    Group = "app" /\ ~doubted /\ (\A c \in Call : call[c].phase \in {"none", "lost"}) =>
        user.fields = account[user.id]

\* "rather than getting stuck loading forever" (session-context.tsx:107): whatever
\* becomes of the token and of its GET /users/me, the splash screen goes away.  Not
\* where the secure store refuses to be read: nothing catches that, and the screen
\* stays up until the process ends.
SplashEnds == Group = "splash" ~> Group # "splash" \/ rejected
=============================================================================
