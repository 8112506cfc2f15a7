--------------------------- MODULE SessionProofs ---------------------------
(***************************************************************************)
(* What holds of Session for any Users, any number of forms and requests   *)
(* under way and any number of sessions and restarts; then of the          *)
(* countdown a refused resend starts on the screen of the code.            *)
(***************************************************************************)
EXTENDS Session, Answers, SequenceTheorems, TLAPS

Tokens == 1 .. Len(owner)
Copies == [id : User \cup {NoUser}, fields : SUBSET Field]
Kinds == {"none", "me", "confirm", "resend"} \cup Field

Phases == {"none", "sent", "refresh", "served", "lost"}

Requests ==
    [kind : Kinds, token : Nat, phase : Phases, copy : Copies]

\* The server, and what the app keeps of it.
Typed ==
    /\ owner \in Seq(User) /\ Len(owner) <= MaxTokens
    /\ account \in [User -> SUBSET Field]
    /\ token \in {0} \cup Tokens /\ store \in {0} \cup Tokens
    /\ writes \in Seq(Nat) /\ \A n \in DOMAIN writes : writes[n] \in {0} \cup Tokens
    /\ user \in Copies
    /\ form \in [Form -> User \cup {NoUser}]
    /\ resolve \in [Token -> Requests]
    /\ call \in [Call -> Requests]

\* A request is of a session there was, and its answer of the User of that session.
OfItsSession(asked) ==
    asked.phase # "none" =>
        /\ asked.token \in Tokens
        /\ asked.phase = "served" => asked.copy.id = owner[asked.token]

Asked ==
    /\ \A t \in Token :
          OfItsSession(resolve[t]) /\ (resolve[t].phase # "none" => resolve[t].token = t)
    /\ \A c \in Call : OfItsSession(call[c])

\* Until the secure store has answered, the app has nothing but what it left behind.
Blank ==
    isTokenLoading =>
        /\ token = 0 /\ writes = <<>> /\ user = Nobody
        /\ resolve = NoRequests /\ form = NoForms
        /\ \A c \in Call : call[c].phase \in {"none", "lost"}

SessionOK == Typed /\ Asked /\ Blank

Identified == user # Nobody /\ ~outlived => token # 0 /\ owner[token] = user.id

\* The last write on its way brings the token in memory, unless the writes went astray.
StoreWillFollow ==
    ~astray /\ ~isTokenLoading =>
        IF writes = <<>> THEN store = token ELSE writes[Len(writes)] = token

\* An answer that nothing overtook, and the copy, unless one is still to come.
CallsFresh ==
    \A c \in Call : call[c].phase = "served" /\ c \notin stale =>
        call[c].copy.fields = account[owner[call[c].token]]

ResolveFresh ==
    token # 0 /\ resolve[token].phase = "served" /\ Me \notin stale =>
        resolve[token].copy.fields = account[owner[token]]

CopyFresh ==
    user # Nobody /\ ~doubted =>
        \/ user.id \in User /\ user.fields = account[user.id]
        \/ \E c \in Call : call[c].phase \in {"served", "refresh"}

Fresh == CallsFresh /\ ResolveFresh /\ CopyFresh

----------------------------------------------------------------------------
(* The values a step hands out.                                            *)

LEMMA Blanks ==
    /\ Nobody \in Copies /\ Nobody.id = NoUser /\ Nobody.fields = {}
    /\ NoRequest \in Requests /\ NoRequest.phase = "none"
    /\ NoRequests \in [Token -> Requests] /\ \A t \in Token : NoRequests[t] = NoRequest
    /\ NoForms \in [Form -> User \cup {NoUser}]
    /\ NoCalls \in [Call -> Requests] /\ \A c \in Call : NoCalls[c] = NoRequest
  BY DEF Nobody, Copy, Copies, NoRequest, Request, Requests, Kinds, Phases, NoRequests, NoForms,
     NoCalls

LEMMA NewRequest ==
    ASSUME NEW kind \in Kinds, NEW t \in Nat
    PROVE  /\ Request(kind, t, "sent", Nobody) \in Requests
           /\ Request(kind, t, "sent", Nobody).kind = kind
           /\ Request(kind, t, "sent", Nobody).token = t
           /\ Request(kind, t, "sent", Nobody).phase = "sent"
  BY Blanks DEF Request, Requests, Phases

LEMMA TokenTypes ==
    ASSUME Typed
    PROVE  /\ Len(owner) \in Nat /\ Tokens \subseteq Token /\ Token \subseteq Nat \ {0}
           /\ Tokens \subseteq Nat \ {0}
           /\ \A t \in Tokens : owner[t] \in User
  BY BoundAssumption, ElementOfSeq DEF Typed, Tokens, Token

LEMMA CurrentCopy ==
    ASSUME Typed, NEW t \in Tokens
    PROVE  /\ Current(t) \in Copies
           /\ Current(t).id = owner[t]
           /\ Current(t).fields = account[owner[t]]
  BY TokenTypes DEF Typed, Current, Copy, Copies

LEMMA ServedRequest ==
    ASSUME Typed, NEW r \in Requests, r.token \in Tokens
    PROVE  /\ Served(r) \in Requests
           /\ Served(r).kind = r.kind /\ Served(r).token = r.token
           /\ Served(r).phase = "served" /\ Served(r).copy = Current(r.token)
  BY CurrentCopy DEF Served, Requests, Phases

\* The list of the writes under way, when one lands.
LEMMA WriteLands ==
    ASSUME NEW S, NEW s \in Seq(S), NEW n \in 1 .. Len(s)
    PROVE  /\ RemoveAt(s, n) \in Seq(S)
           /\ Len(RemoveAt(s, n)) = Len(s) - 1
           /\ \A i \in 1 .. (Len(s) - 1) :
                 RemoveAt(s, n)[i] = IF i < n THEN s[i] ELSE s[i + 1]
  <1> DEFINE before == SubSeq(s, 1, n - 1)
             after == SubSeq(s, n + 1, Len(s))
  <1>1. Len(s) \in Nat /\ \A i \in 1 .. Len(s) : s[i] \in S
    BY LenProperties, ElementOfSeq
  <1>2. /\ before \in Seq(S) /\ Len(before) = n - 1
        /\ \A i \in 1 .. (n - 1) : before[i] = s[i]
    <2>1. \A i \in 1 .. (n - 1) : s[i] \in S
      BY <1>1
    <2>2. /\ before \in Seq(S) /\ Len(before) = IF 1 <= n - 1 THEN (n - 1) - 1 + 1 ELSE 0
          /\ \A i \in 1 .. ((n - 1) - 1 + 1) : before[i] = s[1 + i - 1]
      BY <1>1, <2>1, SubSeqProperties
    <2> HIDE DEF before
    <2> QED
      BY <1>1, <2>2
  <1>3. /\ after \in Seq(S) /\ Len(after) = Len(s) - n
        /\ \A i \in 1 .. (Len(s) - n) : after[i] = s[n + i]
    <2>1. \A i \in (n + 1) .. Len(s) : s[i] \in S
      BY <1>1
    <2>2. /\ after \in Seq(S)
          /\ Len(after) = IF n + 1 <= Len(s) THEN Len(s) - (n + 1) + 1 ELSE 0
          /\ \A i \in 1 .. (Len(s) - (n + 1) + 1) : after[i] = s[(n + 1) + i - 1]
      BY <1>1, <2>1, SubSeqProperties
    <2> HIDE DEF after
    <2> QED
      BY <1>1, <2>2
  <1>4. RemoveAt(s, n) = before \o after
    BY DEF RemoveAt
  <1> HIDE DEF before, after
  <1>5. /\ before \o after \in Seq(S) /\ Len(before \o after) = Len(before) + Len(after)
        /\ \A i \in 1 .. (Len(before) + Len(after)) :
              (before \o after)[i] =
                  IF i <= Len(before) THEN before[i] ELSE after[i - Len(before)]
    BY <1>2, <1>3, ConcatProperties
  <1>6. Len(before) + Len(after) = Len(s) - 1
    BY <1>1, <1>2, <1>3
  <1>7. ASSUME NEW i \in 1 .. (Len(s) - 1)
        PROVE  RemoveAt(s, n)[i] = IF i < n THEN s[i] ELSE s[i + 1]
    <2>1. CASE i < n
      <3>1. i <= Len(before) /\ i \in 1 .. (n - 1)
        BY <1>1, <1>2, <2>1
      <3> QED
        BY <1>2, <1>4, <1>5, <1>6, <2>1, <3>1
    <2>2. CASE ~ (i < n)
      <3>1. ~ (i <= Len(before)) /\ i - Len(before) \in 1 .. (Len(s) - n)
            /\ n + (i - Len(before)) = i + 1
        BY <1>1, <1>2, <2>2
      <3> QED
        BY <1>3, <1>4, <1>5, <1>6, <2>2, <3>1
    <2> QED
      BY <2>1, <2>2
  <1> QED
    BY <1>4, <1>5, <1>6, <1>7

----------------------------------------------------------------------------
(* The types, whose every request is, and the blank start.                 *)

LEMMA EffectAsks ==
    ASSUME Typed, NEW t \in {0} \cup Token, RunEffect(t)
    PROVE  /\ resolve' \in [Token -> Requests]
           /\ \A x \in Token : x # t => resolve'[x] = resolve[x]
           /\ t # 0 => /\ resolve'[t].phase = "sent" /\ resolve'[t].token = t
  <1>1. CASE t = 0
    BY <1>1, TokenTypes DEF RunEffect, Typed
  <1>2. CASE t # 0
    <2> DEFINE r == Request("me", t, "sent", Nobody)
    <2>1. r \in Requests /\ r.phase = "sent" /\ r.token = t
      <3>1. t \in Nat /\ "me" \in Kinds
        BY <1>2, TokenTypes DEF Kinds
      <3> QED
        BY <3>1, NewRequest
    <2>2. resolve' = [resolve EXCEPT ![t] = r]
      BY <1>2 DEF RunEffect
    <2> HIDE DEF r
    <2> QED
      BY <1>2, <2>1, <2>2 DEF Typed
  <1> QED
    BY <1>1, <1>2

LEMMA WriteJoins ==
    ASSUME writes \in Seq(Nat), NEW S, \A n \in DOMAIN writes : writes[n] \in S,
           NEW t \in S, t \in Nat, setToken(t)
    PROVE  /\ token' = t
           /\ writes' \in Seq(Nat) /\ \A n \in DOMAIN writes' : writes'[n] \in S
           /\ writes' # <<>> /\ writes'[Len(writes')] = t
  <1>1. /\ writes' \in Seq(Nat) /\ Len(writes') = Len(writes) + 1 /\ Len(writes) \in Nat
        /\ \A n \in 1 .. Len(writes) : writes'[n] = writes[n]
        /\ writes'[Len(writes) + 1] = t
    BY AppendProperties, LenProperties DEF setToken
  <1>2. DOMAIN writes' = 1 .. (Len(writes) + 1) /\ DOMAIN writes = 1 .. Len(writes)
    BY <1>1, LenProperties
  <1> QED
    BY <1>1, <1>2 DEF setToken

\* While something is under way the secure store has answered.
LEMMA NotBlank ==
    ASSUME SessionOK,
           \/ \E t \in Token : resolve[t].phase # "none"
           \/ \E f \in Form : form[f] # NoUser
           \/ \E c \in Call : call[c].phase \notin {"none", "lost"}
           \/ Group = "app"
    PROVE  ~isTokenLoading
  <1> SUFFICES ASSUME isTokenLoading PROVE FALSE
    OBVIOUS
  <1>1. /\ resolve = NoRequests /\ form = NoForms
        /\ \A c \in Call : call[c].phase \in {"none", "lost"}
    BY DEF SessionOK, Blank
  <1> QED
    BY <1>1, Blanks DEF NoForms, Group

\* A step of a profile request; while the app starts, of one that it left behind.
LEMMA CallStep ==
    ASSUME SessionOK, NEW c \in Call,
           isTokenLoading => user' = user /\ call'[c].phase \in {"none", "lost"},
           owner' = owner, account' \in [User -> SUBSET Field],
           UNCHANGED <<disk, isTokenLoading, token, isResolvingUser, resolve, form>>,
           user' \in Copies,
           call' \in [Call -> Requests], \A d \in Call \ {c} : call'[d] = call[d],
           OfItsSession(call[c])'
    PROVE  SessionOK'
  <1>1. Typed'
    BY DEF SessionOK, Typed, Tokens, disk
  <1>2. Asked'
    BY DEF SessionOK, Asked, OfItsSession, Tokens
  <1>3. Blank'
    BY DEF SessionOK, Blank, disk
  <1> QED
    BY <1>1, <1>2, <1>3 DEF SessionOK

\* A step of the request of the effect, which may end the session.
LEMMA ResolveStep ==
    ASSUME SessionOK, ~isTokenLoading, NEW t \in Token,
           UNCHANGED <<server, store, isTokenLoading, form, call>>,
           \/ UNCHANGED <<token, writes>>
           \/ setToken(0),
           user' \in Copies,
           resolve' \in [Token -> Requests], \A x \in Token \ {t} : resolve'[x] = resolve[x],
           OfItsSession(resolve[t])', resolve'[t].phase # "none" => resolve'[t].token = t
    PROVE  SessionOK'
  <1>1. /\ token' \in {0} \cup Tokens
        /\ writes' \in Seq(Nat) /\ \A n \in DOMAIN writes' : writes'[n] \in {0} \cup Tokens
    <2>1. CASE UNCHANGED <<token, writes>>
      BY <2>1 DEF SessionOK, Typed
    <2>2. CASE setToken(0)
      BY <2>2, WriteJoins DEF SessionOK, Typed
    <2> QED
      BY <2>1, <2>2
  <1>2. Typed'
    BY <1>1 DEF SessionOK, Typed, Tokens, server
  <1>3. Asked'
    BY DEF SessionOK, Asked, OfItsSession, Tokens, server
  <1>4. Blank'
    BY DEF Blank
  <1> QED
    BY <1>2, <1>3, <1>4 DEF SessionOK

\* A step of a form, while nobody's session changes.
LEMMA FormStep ==
    ASSUME SessionOK, ~isTokenLoading, form' \in [Form -> User \cup {NoUser}],
           UNCHANGED <<server, disk, session, call>>
    PROVE  SessionOK'
  <1>1. Typed'
    BY DEF SessionOK, Typed, Tokens, disk, session, server
  <1>2. Asked' /\ Blank'
    BY DEF SessionOK, Asked, OfItsSession, Tokens, Blank, server, session
  <1> QED
    BY <1>1, <1>2 DEF SessionOK

LEMMA InitOK == Init => SessionOK
  <1> SUFFICES ASSUME Init PROVE SessionOK
    OBVIOUS
  <1>1. Typed
    BY Blanks, BoundAssumption, EmptySeq DEF Init, Typed
  <1>2. Asked
    BY Blanks DEF Init, Asked, OfItsSession
  <1>3. Blank
    BY Blanks DEF Init, Blank
  <1> QED
    BY <1>1, <1>2, <1>3 DEF SessionOK

LEMMA ReadOK ==
    ASSUME SessionOK, SecureStoreRead
    PROVE  SessionOK'
  <1>1. Typed /\ Asked /\ isTokenLoading /\ token' = store /\ store \in {0} \cup Tokens
    BY DEF SessionOK, SecureStoreRead, Typed
  <1>2. /\ resolve' \in [Token -> Requests]
        /\ \A x \in Token : x # store => resolve'[x] = resolve[x]
        /\ store # 0 => resolve'[store].phase = "sent" /\ resolve'[store].token = store
    BY <1>1, EffectAsks, TokenTypes DEF SecureStoreRead
  <1>3. /\ owner' = owner /\ account' = account /\ store' = store /\ writes' = writes
        /\ user' = user /\ form' = form /\ call' = call /\ ~ isTokenLoading'
    BY DEF SecureStoreRead, server, disk
  <1>4. Typed'
    BY <1>1, <1>2, <1>3 DEF Typed, Tokens
  <1>5. Asked'
    <2>1. store # 0 => store \in Tokens
      BY <1>1
    <2> QED
      BY <1>1, <1>2, <1>3, <2>1, TokenTypes DEF Asked, OfItsSession, Tokens
  <1> QED
    BY <1>3, <1>4, <1>5 DEF SessionOK, Blank

LEMMA ReadFailsOK ==
    ASSUME SessionOK, SecureStoreReadFails
    PROVE  SessionOK'
  <1>1. UNCHANGED <<server, disk, isTokenLoading, token, user, resolve, form, call>>
    BY DEF SecureStoreReadFails
  <1>2. Typed'
    BY <1>1 DEF SessionOK, Typed, Tokens, server, disk
  <1>3. Asked' /\ Blank'
    BY <1>1 DEF SessionOK, Asked, OfItsSession, Tokens, Blank, server, disk
  <1> QED
    BY <1>2, <1>3 DEF SessionOK

\* Whatever becomes of it, a write leaves the list of those under way.
LEMMA OneLands ==
    ASSUME Typed, NEW n \in DOMAIN writes
    PROVE  /\ n \in 1 .. Len(writes) /\ Len(writes) \in Nat /\ writes # <<>>
           /\ RemoveAt(writes, n) \in Seq(Nat) /\ Len(RemoveAt(writes, n)) = Len(writes) - 1
           /\ \A i \in 1 .. (Len(writes) - 1) :
                 RemoveAt(writes, n)[i] = IF i < n THEN writes[i] ELSE writes[i + 1]
           /\ \A i \in DOMAIN RemoveAt(writes, n) : RemoveAt(writes, n)[i] \in {0} \cup Tokens
  <1>1. /\ writes \in Seq(Nat) /\ n \in 1 .. Len(writes) /\ Len(writes) \in Nat
        /\ writes # <<>>
    BY LenProperties, EmptySeq DEF Typed
  <1> DEFINE left == RemoveAt(writes, n)
  <1>2. /\ left \in Seq(Nat) /\ Len(left) = Len(writes) - 1
        /\ \A i \in 1 .. (Len(writes) - 1) :
              left[i] = IF i < n THEN writes[i] ELSE writes[i + 1]
    BY <1>1, WriteLands
  <1> HIDE DEF left
  <1>3. DOMAIN left = 1 .. (Len(writes) - 1) /\ DOMAIN writes = 1 .. Len(writes)
    BY <1>1, <1>2, LenProperties
  <1>4. \A i \in DOMAIN left : left[i] \in {0} \cup Tokens
    <2> SUFFICES ASSUME NEW i \in DOMAIN left PROVE left[i] \in {0} \cup Tokens
      OBVIOUS
    <2>1. i \in 1 .. Len(writes) /\ i + 1 \in 1 .. Len(writes)
      BY <1>1, <1>3
    <2> QED
      BY <1>2, <1>3, <2>1 DEF Typed
  <1> QED
    BY <1>1, <1>2, <1>4 DEF left

LEMMA WriteOK ==
    ASSUME SessionOK, SecureStoreWrite
    PROVE  SessionOK'
  <1>1. PICK n \in DOMAIN writes : store' = writes[n] /\ writes' = RemoveAt(writes, n)
    BY DEF SecureStoreWrite
  <1>2. /\ writes' \in Seq(Nat) /\ \A i \in DOMAIN writes' : writes'[i] \in {0} \cup Tokens
        /\ store' \in {0} \cup Tokens /\ writes # <<>>
    BY <1>1, OneLands DEF SessionOK, Typed
  <1>3. /\ owner' = owner /\ account' = account /\ token' = token /\ user' = user
        /\ resolve' = resolve /\ form' = form /\ call' = call
        /\ isTokenLoading' = isTokenLoading
    BY DEF SecureStoreWrite, server, session
  <1>4. Typed'
    BY <1>2, <1>3 DEF SessionOK, Typed, Tokens
  <1>5. Asked'
    BY <1>3 DEF SessionOK, Asked, OfItsSession, Tokens
  <1>6. ~ isTokenLoading'
    BY <1>2, <1>3 DEF SessionOK, Blank
  <1> QED
    BY <1>4, <1>5, <1>6 DEF SessionOK, Blank

LEMMA WriteFailsOK ==
    ASSUME SessionOK, SecureStoreWriteFails
    PROVE  SessionOK'
  <1>1. PICK n \in DOMAIN writes : writes' = RemoveAt(writes, n)
    BY DEF SecureStoreWriteFails
  <1>2. /\ writes' \in Seq(Nat) /\ \A i \in DOMAIN writes' : writes'[i] \in {0} \cup Tokens
        /\ writes # <<>>
    BY <1>1, OneLands DEF SessionOK
  <1>3. /\ owner' = owner /\ account' = account /\ token' = token /\ user' = user
        /\ resolve' = resolve /\ form' = form /\ call' = call /\ store' = store
        /\ isTokenLoading' = isTokenLoading
    BY DEF SecureStoreWriteFails, server, session
  <1>4. Typed'
    BY <1>2, <1>3 DEF SessionOK, Typed, Tokens
  <1>5. Asked'
    BY <1>3 DEF SessionOK, Asked, OfItsSession, Tokens
  <1>6. ~ isTokenLoading'
    BY <1>2, <1>3 DEF SessionOK, Blank
  <1> QED
    BY <1>4, <1>5, <1>6 DEF SessionOK, Blank

LEMMA SignedInOK ==
    ASSUME SessionOK, NEW f \in Form, SignedIn(f)
    PROVE  SessionOK'
  <1> DEFINE t == Len(owner) + 1
  <1>1. Typed /\ Asked /\ form[f] \in User /\ Len(owner) \in Nat
    BY TokenTypes DEF SessionOK, Typed, SignedIn
  <1>2. /\ owner' \in Seq(User) /\ Len(owner') = t /\ t <= MaxTokens
        /\ owner'[t] = form[f] /\ \A x \in Tokens : owner'[x] = owner[x]
    BY <1>1, AppendProperties, BoundAssumption DEF SignedIn, Typed, Tokens
  <1>3. Tokens' = Tokens \cup {t} /\ t \in Token /\ t # 0 /\ t \notin Tokens /\ t \in Nat
    BY <1>1, <1>2, BoundAssumption DEF Tokens, Token
  <1>4. /\ token' = t /\ writes' = Append(writes, t) /\ store' = store /\ account' = account
        /\ call' = call /\ form' = [form EXCEPT ![f] = NoUser]
        /\ user' = Copy(form[f], account[form[f]]) /\ isTokenLoading' = isTokenLoading
        /\ RunEffect(t)
    BY DEF SignedIn, setToken
  <1>5. /\ resolve' \in [Token -> Requests]
        /\ \A x \in Token : x # t => resolve'[x] = resolve[x]
        /\ resolve'[t].phase = "sent" /\ resolve'[t].token = t
    <2> HIDE DEF t
    <2> QED
      BY <1>1, <1>3, <1>4, EffectAsks
  <1>6. user' \in Copies
    BY <1>1, <1>4 DEF Copy, Copies, Typed
  <1>7. writes' \in Seq(Nat) /\ \A n \in DOMAIN writes' : writes'[n] \in {0} \cup Tokens'
    <2> HIDE DEF t
    <2> QED
      <3>1. \A n \in DOMAIN writes : writes[n] \in {0} \cup Tokens'
        BY <1>1, <1>3 DEF Typed
      <3> QED
        BY <1>1, <1>3, <1>4, <3>1, WriteJoins DEF Typed, setToken
  <1> HIDE DEF t
  <1>8. Typed'
    BY <1>1, <1>2, <1>3, <1>4, <1>5, <1>6, <1>7 DEF Typed
  <1>9. Asked'
    BY <1>1, <1>2, <1>3, <1>4, <1>5 DEF Asked, OfItsSession
  <1>10. ~ isTokenLoading'
    BY <1>4, NotBlank DEF SignedIn
  <1> QED
    BY <1>8, <1>9, <1>10 DEF SessionOK, Blank

LEMMA ResolveOK ==
    ASSUME SessionOK, NEW t \in Token, Resolve(t)
    PROVE  SessionOK'
  <1>1. resolve[t].phase # "none" /\ ~ isTokenLoading
    BY NotBlank DEF Resolve, MeServed, MeArrives, MeFails
  <1>2. /\ resolve[t] \in Requests /\ resolve[t].token = t /\ t \in Tokens
        /\ resolve[t].phase = "served" => resolve[t].copy.id = owner[t]
    BY <1>1 DEF SessionOK, Typed, Asked, OfItsSession
  <1>3. CASE MeServed(t)
    <2>1. resolve' = [resolve EXCEPT ![t] = Served(resolve[t])]
      BY <1>3 DEF MeServed
    <2>2. /\ Served(resolve[t]) \in Requests /\ Served(resolve[t]).token = t
          /\ Served(resolve[t]).copy.id = owner[t]
      BY <1>2, ServedRequest, CurrentCopy DEF SessionOK
    <2> HIDE DEF Served
    <2>3. /\ resolve' \in [Token -> Requests] /\ \A x \in Token \ {t} : resolve'[x] = resolve[x]
          /\ resolve'[t] = Served(resolve[t])
      BY <2>1, <2>2 DEF SessionOK, Typed
    <2>4. /\ UNCHANGED <<server, store, isTokenLoading, form, call>>
          /\ UNCHANGED <<token, writes>> /\ user' \in Copies
      BY <1>3 DEF MeServed, disk, SessionOK, Typed
    <2>5. OfItsSession(resolve[t])'
      BY <1>2, <2>2, <2>3, <2>4 DEF OfItsSession, Tokens, server
    <2> QED
      BY <1>1, <2>2, <2>3, <2>4, <2>5, ResolveStep
  <1>4. CASE MeArrives(t) \/ MeFails(t)
    <2>1. resolve' = [resolve EXCEPT ![t] = NoRequest]
      BY <1>4 DEF MeArrives, MeFails
    <2>2. /\ resolve' \in [Token -> Requests] /\ \A x \in Token \ {t} : resolve'[x] = resolve[x]
          /\ resolve'[t].phase = "none"
      BY <2>1, Blanks DEF SessionOK, Typed
    <2>3. user' \in Copies
      BY <1>2, <1>4, Blanks DEF MeArrives, MeFails, SessionOK, Typed, Requests
    <2>4. /\ UNCHANGED <<server, store, isTokenLoading, form, call>>
          /\ UNCHANGED <<token, writes>> \/ setToken(0)
      BY <1>4 DEF MeArrives, MeFails, disk
    <2>5. OfItsSession(resolve[t])'
      BY <2>2 DEF OfItsSession
    <2> QED
      BY <1>1, <2>2, <2>3, <2>4, <2>5, ResolveStep
  <1> QED
    BY <1>3, <1>4 DEF Resolve

LEMMA SignOutOK ==
    ASSUME SessionOK, signOut
    PROVE  SessionOK'
  <1>1. /\ setToken(0) /\ user' = Nobody /\ ~ isTokenLoading
        /\ UNCHANGED <<server, store, isTokenLoading, resolve, form, call>>
    BY NotBlank DEF signOut
  <1>2. /\ token' = 0
        /\ writes' \in Seq(Nat) /\ \A n \in DOMAIN writes' : writes'[n] \in {0} \cup Tokens
    BY <1>1, WriteJoins DEF SessionOK, Typed
  <1>3. Typed'
    BY <1>1, <1>2, Blanks DEF SessionOK, Typed, Tokens, server
  <1>4. Asked' /\ Blank'
    BY <1>1 DEF SessionOK, Asked, OfItsSession, Tokens, server, Blank
  <1> QED
    BY <1>3, <1>4 DEF SessionOK

LEMMA PressOK ==
    ASSUME SessionOK, NEW c \in Call, NEW kind \in Kinds, Press(c, kind)
    PROVE  SessionOK'
  <1> DEFINE r == Request(kind, token, "sent", Nobody)
  <1>1. token \in Tokens /\ token \in Nat /\ ~ isTokenLoading
    BY NotBlank, TokenTypes DEF Press, SessionOK, Typed
  <1>2. r \in Requests /\ r.token = token /\ r.phase = "sent"
    BY <1>1, NewRequest
  <1>3. call' = [call EXCEPT ![c] = r] /\ UNCHANGED <<server, disk, session, form>>
    BY DEF Press
  <1> HIDE DEF r
  <1>4. /\ call' \in [Call -> Requests] /\ \A d \in Call \ {c} : call'[d] = call[d]
        /\ call'[c] = r
    BY <1>2, <1>3 DEF SessionOK, Typed
  <1>5. /\ owner' = owner /\ account' \in [User -> SUBSET Field] /\ user' \in Copies
        /\ UNCHANGED <<disk, isTokenLoading, token, isResolvingUser, resolve, form>>
    BY <1>3 DEF server, session, SessionOK, Typed
  <1>6. OfItsSession(call[c])'
    BY <1>1, <1>2, <1>4, <1>5 DEF OfItsSession, Tokens
  <1> QED
    BY <1>1, <1>4, <1>5, <1>6, CallStep

\* What a write does to the accounts.
LEMMA AccountGrows ==
    ASSUME Typed, NEW u \in User, NEW fields \in SUBSET Field,
           account' = [account EXCEPT ![u] = account[u] \cup fields]
    PROVE  /\ account' \in [User -> SUBSET Field]
           /\ account'[u] = account[u] \cup fields
           /\ \A v \in User \ {u} : account'[v] = account[v]
  BY DEF Typed

LEMMA GivenUpRequest ==
    ASSUME NEW r \in Requests
    PROVE  /\ GivenUp(r) \in Requests /\ GivenUp(r).phase \in {"none", "lost"}
           /\ GivenUp(r).phase = "lost" => r.phase # "none" /\ GivenUp(r).token = r.token
  <1>1. CASE r.phase \in {"sent", "lost"}
    BY <1>1 DEF GivenUp, Requests, Phases
  <1>2. CASE r.phase \notin {"sent", "lost"}
    BY <1>2, Blanks DEF GivenUp
  <1> QED
    BY <1>1, <1>2

\* What the server does for a request, and what its answer is.
LEMMA CallServed ==
    ASSUME SessionOK, NEW c \in Call,
           UpdateServed(c) \/ ConfirmServed(c) \/ ResendServed(c) \/ RefreshServed(c)
    PROVE  /\ ~ isTokenLoading /\ call[c].token \in Tokens /\ owner[call[c].token] \in User
           /\ owner' = owner /\ account' \in [User -> SUBSET Field]
           /\ call' \in [Call -> Requests] /\ \A d \in Call \ {c} : call'[d] = call[d]
           /\ \/ call'[c].phase = "none" /\ account' = account
              \/ /\ call'[c].phase = "refresh" /\ call'[c].token = call[c].token
              \/ /\ call'[c].phase = "served" /\ call'[c].token = call[c].token
                 /\ call'[c].copy.id = owner[call[c].token]
                 /\ call'[c].copy.fields = account'[owner[call[c].token]]
  <1>1. call[c].phase # "none" /\ ~ isTokenLoading
    BY NotBlank DEF UpdateServed, ConfirmServed, ResendServed, RefreshServed
  <1>2. call[c] \in Requests /\ call[c].token \in Tokens
    BY <1>1 DEF SessionOK, Typed, Asked, OfItsSession
  <1> DEFINE u == owner[call[c].token]
  <1>3. u \in User
    BY <1>2, TokenTypes DEF SessionOK
  <1> HIDE DEF u
  <1>4. ASSUME NEW field \in Field, Write(c, field)
        PROVE  account' \in [User -> SUBSET Field]
    <2>1. account' = [account EXCEPT ![u] = account[u] \cup {field}]
      BY <1>4 DEF Write, u
    <2> QED
      BY <1>3, <2>1, AccountGrows DEF SessionOK
  <1>5. CASE UpdateServed(c)
    <2>1. Write(c, call[c].kind) /\ call[c].kind \in Field /\ owner' = owner
      BY <1>5 DEF UpdateServed, Field
    <2>2. account' \in [User -> SUBSET Field]
      BY <1>4, <2>1
    <2>3. call' = [call EXCEPT ![c].phase = "served", ![c].copy = Copy(u, account'[u])]
      BY <1>5 DEF UpdateServed, u
    <2>4. Copy(u, account'[u]) \in Copies /\ Copy(u, account'[u]).id = u
          /\ Copy(u, account'[u]).fields = account'[u]
      BY <1>3, <2>2 DEF Copy, Copies
    <2> DEFINE copy == Copy(u, account'[u])
    <2> HIDE DEF copy
    <2>5. /\ call' \in [Call -> Requests] /\ \A d \in Call \ {c} : call'[d] = call[d]
          /\ call'[c].phase = "served" /\ call'[c].copy = copy /\ call'[c].token = call[c].token
      BY <1>2, <2>3, <2>4 DEF SessionOK, Typed, Requests, Phases, copy
    <2> QED
      BY <1>1, <1>2, <1>3, <2>1, <2>2, <2>4, <2>5 DEF u, copy
  <1>6. CASE ConfirmServed(c)
    <2>1. Write(c, "emailVerified") /\ "emailVerified" \in Field /\ owner' = owner
          /\ call' = [call EXCEPT ![c].phase = "refresh"]
      BY <1>6 DEF ConfirmServed, Field
    <2>2. /\ call' \in [Call -> Requests] /\ \A d \in Call \ {c} : call'[d] = call[d]
          /\ call'[c].phase = "refresh" /\ call'[c].token = call[c].token
      BY <1>2, <2>1 DEF SessionOK, Typed, Requests, Phases
    <2> QED
      BY <1>1, <1>2, <1>3, <1>4, <2>1, <2>2 DEF u
  <1>7. CASE ResendServed(c)
    <2>1. /\ owner' = owner /\ account' = account
          /\ \/ call' = [call EXCEPT ![c].phase = "refresh"]
             \/ call' = [call EXCEPT ![c] = NoRequest]
      BY <1>7 DEF ResendServed, server
    <2>2. /\ call' \in [Call -> Requests] /\ \A d \in Call \ {c} : call'[d] = call[d]
          /\ \/ call'[c].phase = "refresh" /\ call'[c].token = call[c].token
             \/ call'[c].phase = "none"
      <3>1. CASE call' = [call EXCEPT ![c].phase = "refresh"]
        BY <1>2, <3>1 DEF SessionOK, Typed, Requests, Phases
      <3>2. CASE call' = [call EXCEPT ![c] = NoRequest]
        BY <3>2, Blanks DEF SessionOK, Typed
      <3> QED
        BY <2>1, <3>1, <3>2
    <2> QED
      BY <1>1, <1>2, <1>3, <2>1, <2>2 DEF u, SessionOK, Typed
  <1>8. CASE RefreshServed(c)
    <2>1. /\ owner' = owner /\ account' = account
          /\ call' = [call EXCEPT ![c] = Served(call[c])]
      BY <1>8 DEF RefreshServed, server
    <2>2. /\ Served(call[c]) \in Requests /\ Served(call[c]).token = call[c].token
          /\ Served(call[c]).phase = "served"
          /\ Served(call[c]).copy.id = u /\ Served(call[c]).copy.fields = account[u]
      BY <1>2, ServedRequest, CurrentCopy DEF SessionOK, u
    <2> HIDE DEF Served
    <2>3. /\ call' \in [Call -> Requests] /\ \A d \in Call \ {c} : call'[d] = call[d]
          /\ call'[c] = Served(call[c])
      BY <2>1, <2>2 DEF SessionOK, Typed
    <2> QED
      BY <1>1, <1>2, <1>3, <2>1, <2>2, <2>3 DEF u, SessionOK, Typed
  <1> QED
    BY <1>5, <1>6, <1>7, <1>8

Serves(c) == UpdateServed(c) \/ ConfirmServed(c) \/ ResendServed(c) \/ RefreshServed(c)
Ends(c) == CallArrives(c) \/ CallFails(c)
Leaves(c) == ServedLate(c) \/ NeverServed(c)
Presses(c) == (\E field \in Setting : onSelect(c, field)) \/ onConfirm(c) \/ onResend(c)

LEMMA CallLeft ==
    ASSUME Typed, NEW c \in Call, NEW r \in Requests, call' = [call EXCEPT ![c] = r]
    PROVE  /\ call' \in [Call -> Requests] /\ \A d \in Call \ {c} : call'[d] = call[d]
           /\ call'[c] = r
  BY DEF Typed

\* What the app does not hear of, and what it marks.
LEMMA Unheard ==
    ASSUME Typed, NEW u \in User, NEW fields \in SUBSET Field, WriteUnheard(u, fields)
    PROVE  /\ account' \in [User -> SUBSET Field]
           /\ stale \subseteq stale'
           /\ \A v \in User : account'[v] # account[v] =>
                 /\ user.id = v => doubted'
                 /\ \A d \in Call : call[d].phase = "served" /\ owner[call[d].token] = v
                                       => d \in stale'
                 /\ token # 0 /\ resolve[token].phase = "served" /\ owner[token] = v
                       => Me \in stale'
           /\ doubted => doubted'
  <1>1. account' = [account EXCEPT ![u] = account[u] \cup fields]
    BY DEF WriteUnheard
  <1>2. /\ account' \in [User -> SUBSET Field] /\ account'[u] = account[u] \cup fields
        /\ \A v \in User \ {u} : account'[v] = account[v]
    BY <1>1, AccountGrows
  <1>3. stale' = stale \cup Overtaken(u)
    BY DEF WriteUnheard
  <1>4. /\ \A d \in Call : call[d].phase = "served" /\ owner[call[d].token] = u => d \in stale'
        /\ token # 0 /\ resolve[token].phase = "served" /\ owner[token] = u => Me \in stale'
    BY <1>3 DEF Overtaken
  <1>5. doubted => doubted'
    BY DEF WriteUnheard
  <1>6. user.id = u /\ account'[u] # account[u] => doubted'
    BY <1>2 DEF WriteUnheard
  <1> QED
    BY <1>2, <1>3, <1>4, <1>5, <1>6

LEMMA LateWrites ==
    ASSUME SessionOK, NEW c \in Call, ServedLate(c)
    PROVE  /\ account' \in [User -> SUBSET Field]
           /\ \E u \in User, fields \in SUBSET Field : WriteUnheard(u, fields)
  <1> DEFINE u == owner[call[c].token]
             fields == IF call[c].kind = "confirm" THEN {"emailVerified"}
                                                   ELSE {call[c].kind} \cap Setting
  <1>1. u \in User
    BY TokenTypes DEF ServedLate, SessionOK, Asked, OfItsSession
  <1>2. fields \in SUBSET Field
    BY DEF Field
  <1>3. WriteUnheard(u, fields)
    BY DEF ServedLate
  <1> HIDE DEF u, fields
  <1> QED
    BY <1>1, <1>2, <1>3, Unheard DEF SessionOK

LEMMA ElsewhereWrites ==
    ASSUME SessionOK, Elsewhere
    PROVE  /\ account' \in [User -> SUBSET Field]
           /\ \E u \in User, fields \in SUBSET Field : WriteUnheard(u, fields)
  <1>1. PICK u \in Twin, field \in Field : WriteUnheard(u, {field})
    BY DEF Elsewhere
  <1>2. u \in User /\ {field} \in SUBSET Field
    BY TwinAssumption
  <1> QED
    BY <1>1, <1>2, Unheard DEF SessionOK

LEMMA CallOK ==
    ASSUME SessionOK, NEW c \in Call, Presses(c) \/ Serves(c) \/ Ends(c) \/ Leaves(c)
    PROVE  SessionOK'
  <1>1. CASE Presses(c)
    <2>1. PICK kind \in Kinds : Press(c, kind)
      BY <1>1 DEF Presses, onSelect, onConfirm, onResend, Kinds, Field
    <2> QED
      BY <2>1, PressOK
  <1>2. CASE Serves(c)
    <2>1. UNCHANGED <<disk, isTokenLoading, token, isResolvingUser, resolve, form, user>>
      BY <1>2 DEF Serves, UpdateServed, ConfirmServed, ResendServed, RefreshServed, session
    <2>2. /\ ~ isTokenLoading /\ call[c].token \in Tokens
          /\ owner' = owner /\ account' \in [User -> SUBSET Field]
          /\ call' \in [Call -> Requests] /\ \A d \in Call \ {c} : call'[d] = call[d]
          /\ call'[c].phase # "none" => call'[c].token = call[c].token
          /\ call'[c].phase = "served" => call'[c].copy.id = owner[call[c].token]
      BY <1>2, CallServed DEF Serves
    <2>3. OfItsSession(call[c])'
      BY <2>2 DEF OfItsSession, Tokens
    <2>4. user' \in Copies
      BY <2>1 DEF SessionOK, Typed
    <2> QED
      BY <2>1, <2>2, <2>3, <2>4, CallStep
  <1>3. CASE Ends(c)
    <2>1. call[c].phase # "none" /\ call[c] \in Requests /\ ~ isTokenLoading
      BY <1>3, NotBlank DEF Ends, CallArrives, CallFails, SessionOK, Typed
    <2>2. /\ UNCHANGED <<disk, isTokenLoading, token, isResolvingUser, resolve, form>>
          /\ owner' = owner /\ account' = account
          /\ user' = user \/ user' = call[c].copy
          /\ \/ call' = [call EXCEPT ![c] = NoRequest]
             \/ call' = [call EXCEPT ![c] = GivenUp(call[c])]
      BY <1>3 DEF Ends, CallArrives, CallFails, session, server
    <2>3. /\ call' \in [Call -> Requests] /\ \A d \in Call \ {c} : call'[d] = call[d]
          /\ call'[c].phase \in {"none", "lost"}
          /\ call'[c].phase = "lost" => call'[c].token = call[c].token
      BY <2>1, <2>2, Blanks, GivenUpRequest, CallLeft DEF SessionOK
    <2>4. user' \in Copies /\ account' \in [User -> SUBSET Field]
      BY <2>1, <2>2 DEF SessionOK, Typed, Requests
    <2>5. OfItsSession(call[c])'
      BY <2>1, <2>2, <2>3 DEF OfItsSession, Tokens, SessionOK, Asked
    <2> QED
      BY <2>1, <2>2, <2>3, <2>4, <2>5, CallStep
  <1>4. CASE Leaves(c)
    <2>1. call[c].phase = "lost" /\ call' = [call EXCEPT ![c] = NoRequest]
      BY <1>4 DEF Leaves, ServedLate, NeverServed
    <2>2. /\ UNCHANGED <<disk, isTokenLoading, token, isResolvingUser, resolve, form, user>>
          /\ owner' = owner
      BY <1>4 DEF Leaves, ServedLate, NeverServed, session, server
    <2>3. account' \in [User -> SUBSET Field]
      BY <1>4, LateWrites DEF Leaves, NeverServed, server, SessionOK, Typed
    <2>4. /\ call' \in [Call -> Requests] /\ \A d \in Call \ {c} : call'[d] = call[d]
          /\ call'[c].phase = "none"
      BY <2>1, Blanks, CallLeft DEF SessionOK
    <2>5. user' \in Copies
      BY <2>2 DEF SessionOK, Typed
    <2>6. OfItsSession(call[c])'
      BY <2>4 DEF OfItsSession
    <2> QED
      BY <2>2, <2>3, <2>4, <2>5, <2>6, CallStep
  <1> QED
    BY <1>1, <1>2, <1>3, <1>4

LEMMA ElsewhereOK ==
    ASSUME SessionOK, Elsewhere
    PROVE  SessionOK'
  <1>1. UNCHANGED <<owner, disk, session, form, call>>
    BY DEF Elsewhere
  <1>2. account' \in [User -> SUBSET Field]
    BY ElsewhereWrites
  <1>3. Typed'
    BY <1>1, <1>2 DEF SessionOK, Typed, Tokens, disk, session
  <1>4. Asked' /\ Blank'
    BY <1>1 DEF SessionOK, Asked, OfItsSession, Tokens, Blank, disk, session
  <1> QED
    BY <1>3, <1>4 DEF SessionOK

LEMMA KillOK ==
    ASSUME SessionOK, Kill
    PROVE  SessionOK'
  <1>1. /\ owner' = owner /\ account' = account /\ store' = store
        /\ writes' = <<>> /\ isTokenLoading' = TRUE /\ token' = 0 /\ user' = Nobody
        /\ resolve' = NoRequests /\ form' = NoForms
        /\ call' = [c \in Call |-> GivenUp(call[c])]
    BY DEF Kill, server
  <1>2. \A c \in Call : /\ call'[c] \in Requests /\ call'[c].phase \in {"none", "lost"}
                        /\ call'[c].phase = "lost" =>
                              call[c].phase # "none" /\ call'[c].token = call[c].token
    BY <1>1, GivenUpRequest DEF SessionOK, Typed
  <1>3. Typed'
    <2>1. call' \in [Call -> Requests]
      BY <1>1, <1>2
    <2> QED
      BY <1>1, <2>1, Blanks, EmptySeq DEF SessionOK, Typed, Tokens
  <1>4. Asked'
    BY <1>1, <1>2, Blanks DEF SessionOK, Asked, OfItsSession, Tokens
  <1>5. Blank'
    BY <1>1, <1>2 DEF Blank, NoRequests, NoForms, Nobody, NoRequest
  <1> QED
    BY <1>3, <1>4, <1>5 DEF SessionOK

LEMMA StepOK == SessionOK /\ [Next]_vars => SessionOK'
  <1> SUFFICES ASSUME SessionOK, [Next]_vars PROVE SessionOK'
    OBVIOUS
  <1>1. ASSUME NEW f \in Form, (\E u \in User : Submit(f, u)) \/ Refused(f)
        PROVE  SessionOK'
    <2>1. /\ UNCHANGED <<server, disk, session, call>>
          /\ form' \in [Form -> User \cup {NoUser}]
      BY <1>1 DEF Submit, Refused, SessionOK, Typed
    <2>2. ~ isTokenLoading
      BY <1>1, NotBlank DEF Submit, Refused, Group
    <2> QED
      BY <2>1, <2>2, FormStep
  <1>2. CASE UNCHANGED vars
    <2>1. Typed'
      BY <1>2 DEF vars, server, disk, session, SessionOK, Typed, Tokens
    <2>2. Asked' /\ Blank'
      BY <1>2 DEF vars, server, disk, session, SessionOK, Asked, OfItsSession, Tokens, Blank
    <2> QED
      BY <2>1, <2>2 DEF SessionOK
  <1> QED
    BY <1>1, <1>2, ReadOK, ReadFailsOK, WriteOK, WriteFailsOK, ResolveOK, SignedInOK, SignOutOK,
       CallOK, ElsewhereOK, KillOK
       DEF Next, ReadStore, Presses, Serves, Ends, Leaves

LEMMA AlwaysOK == Spec => []SessionOK
  BY InitOK, StepOK, PTL DEF Spec

----------------------------------------------------------------------------
(* Whose account is shown.                                                 *)

LEMMA StepIdentified ==
    ASSUME SessionOK, Identified, [Next]_vars
    PROVE  Identified'
  <1> USE DEF Identified
  <1>1. CASE UNCHANGED <<user, outlived, token, owner>>
    BY <1>1
  <1>2. CASE user' = Nobody
    BY <1>2 DEF Nobody, Copy
  <1>3. CASE SecureStoreRead
    BY <1>3, <1>2 DEF SecureStoreRead, SessionOK, Blank
  <1>4. ASSUME NEW t \in Token, MeArrives(t)
        PROVE  Identified'
    <2>1. resolve[t].phase = "served" /\ owner' = owner /\ token' = token
      BY <1>4 DEF MeArrives, server
    <2>2. resolve[t].copy.id = owner[t] /\ t # 0
      BY <2>1, TokenTypes DEF SessionOK, Asked, OfItsSession
    <2>3. CASE t = token
      BY <1>4, <2>1, <2>2, <2>3 DEF MeArrives
    <2>4. CASE t # token
      BY <1>1, <1>4, <2>1, <2>4 DEF MeArrives
    <2> QED
      BY <2>3, <2>4
  <1>5. ASSUME NEW t \in Token, MeFails(t)
        PROVE  Identified'
    BY <1>1, <1>2, <1>5 DEF MeFails, server
  <1>6. ASSUME NEW f \in Form, SignedIn(f)
        PROVE  Identified'
    <2>1. /\ owner' = Append(owner, form[f]) /\ token' = Len(owner) + 1
          /\ user' = Copy(form[f], account[form[f]])
      BY <1>6 DEF SignedIn, setToken
    <2>2. form[f] \in User /\ owner \in Seq(User)
      BY <1>6 DEF SignedIn, SessionOK, Typed
    <2>3. owner'[token'] = form[f] /\ token' # 0
      BY <2>1, <2>2, AppendProperties, LenProperties
    <2>4. user'.id = form[f]
      BY <2>1 DEF Copy
    <2> QED
      BY <2>3, <2>4
  <1>7. ASSUME NEW c \in Call, CallArrives(c)
        PROVE  Identified'
    <2>1. /\ call[c].phase = "served" /\ owner' = owner /\ token' = token
          /\ user' = call[c].copy /\ outlived' = (call[c].token # token)
      BY <1>7 DEF CallArrives, server
    <2>2. call[c].copy.id = owner[call[c].token] /\ call[c].token # 0
      BY <2>1, TokenTypes DEF SessionOK, Asked, OfItsSession
    <2> QED
      BY <2>1, <2>2
  <1>8. ASSUME NEW c \in Call, Presses(c) \/ Serves(c) \/ CallFails(c) \/ Leaves(c)
        PROVE  Identified'
    <2>1. UNCHANGED <<user, outlived, token, owner>>
      BY <1>8 DEF Presses, onSelect, onConfirm, onResend, Press, Serves, UpdateServed,
         ConfirmServed, ResendServed, RefreshServed, CallFails, Leaves, ServedLate, NeverServed,
         server, session, history
    <2> QED
      BY <1>1, <2>1
  <1> HIDE DEF Identified
  <1>9. ASSUME NEW c \in Call, Presses(c) \/ Serves(c) \/ Ends(c) \/ Leaves(c)
        PROVE  Identified'
    BY <1>7, <1>8, <1>9 DEF Ends
  <1>10. ASSUME NEW t \in Token, Resolve(t)
         PROVE  Identified'
    BY <1>1, <1>4, <1>5, <1>10 DEF Resolve, MeServed, server, history
  <1> QED
    BY <1>1, <1>2, <1>3, <1>6, <1>9, <1>10
       DEF Next, vars, ReadStore, SecureStoreReadFails, SecureStoreWrite, SecureStoreWriteFails,
           Submit, Refused, signOut, Elsewhere, Kill, Presses, Serves, Ends, Leaves,
           server, session, history

(* SessionProvider (session-context.tsx): the account on screen is the one *)
(* the token speaks for, whatever effect was cancelled and however sign-   *)
(* ins and sign-outs are ordered, unless a request of an earlier session   *)
(* has replaced it.                                                        *)
THEOREM IdentityKept == Spec => []OneIdentity
  <1>1. Init => Identified
    BY DEF Init, Identified
  <1>2. SessionOK /\ Identified /\ [Next]_vars => Identified'
    BY StepIdentified
  <1>3. Identified => OneIdentity
    BY DEF Identified, OneIdentity, Group
  <1> QED
    BY <1>1, <1>2, <1>3, AlwaysOK, PTL DEF Spec

----------------------------------------------------------------------------
(* What the device remembers.                                              *)

LEMMA StepFollows ==
    ASSUME SessionOK, StoreWillFollow, [Next]_vars
    PROVE  StoreWillFollow'
  <1>1. CASE UNCHANGED <<astray, isTokenLoading, writes, store, token>>
    BY <1>1 DEF StoreWillFollow
  <1>2. ASSUME NEW t \in Nat, setToken(t)
        PROVE  StoreWillFollow'
    <2>1. writes \in Seq(Nat)
      BY DEF SessionOK, Typed
    <2>2. /\ Len(writes') = Len(writes) + 1 /\ Len(writes) \in Nat
          /\ writes' \in Seq(Nat) /\ writes'[Len(writes) + 1] = t /\ token' = t
      BY <1>2, <2>1, AppendProperties, LenProperties DEF setToken
    <2>3. writes' # <<>> /\ writes'[Len(writes')] = token'
      BY <2>2, EmptySeq
    <2> QED
      BY <2>3 DEF StoreWillFollow
  <1>3. CASE SecureStoreRead
    <2>1. writes' = writes /\ store' = store /\ token' = store /\ isTokenLoading
      BY <1>3 DEF SecureStoreRead, disk
    <2>2. writes = <<>>
      BY <2>1 DEF SessionOK, Blank
    <2> QED
      BY <2>1, <2>2 DEF StoreWillFollow
  <1>4. CASE SecureStoreWrite
    <2>1. PICK n \in DOMAIN writes :
             /\ store' = writes[n] /\ writes' = RemoveAt(writes, n)
             /\ astray' = (astray \/ n # 1)
      BY <1>4 DEF SecureStoreWrite
    <2>2. token' = token /\ isTokenLoading' = isTokenLoading
      BY <1>4 DEF SecureStoreWrite, session
    <2>3. writes \in Seq(Nat) /\ Len(writes) \in Nat /\ DOMAIN writes = 1 .. Len(writes)
      BY LenProperties DEF SessionOK, Typed
    <2>4. /\ writes' \in Seq(Nat) /\ Len(writes') = Len(writes) - 1
          /\ \A i \in 1 .. (Len(writes) - 1) :
                writes'[i] = IF i < n THEN writes[i] ELSE writes[i + 1]
      BY <2>1, <2>3, WriteLands
    <2> SUFFICES ASSUME ~ astray', ~ isTokenLoading'
                 PROVE  IF writes' = <<>> THEN store' = token'
                                          ELSE writes'[Len(writes')] = token'
      BY DEF StoreWillFollow
    <2>5. n = 1 /\ writes # <<>> /\ writes[Len(writes)] = token
      <3>1. n = 1 /\ ~ astray /\ ~ isTokenLoading
        BY <2>1, <2>2, Zenon
      <3>2. writes # <<>>
        BY <2>3, EmptySeq
      <3> QED
        BY <3>1, <3>2 DEF StoreWillFollow
    <2>6. CASE Len(writes) = 1
      <3>1. writes' = <<>>
        BY <2>4, <2>6, EmptySeq
      <3>2. store' = token'
        BY <2>1, <2>2, <2>5, <2>6
      <3> QED
        BY <3>1, <3>2
    <2>7. CASE Len(writes) # 1
      <3>1. Len(writes) - 1 \in 1 .. (Len(writes) - 1) /\ ~ (Len(writes) - 1 < 1)
        BY <2>1, <2>3, <2>7
      <3>2. writes'[Len(writes')] = writes[(Len(writes) - 1) + 1]
        BY <2>4, <2>5, <3>1
      <3>3. writes' # <<>>
        BY <2>4, <3>1
      <3> QED
        BY <2>2, <2>3, <2>5, <3>2, <3>3
    <2> QED
      BY <2>6, <2>7
  <1>10. CASE SecureStoreWriteFails
    <2>1. PICK n \in DOMAIN writes :
             /\ writes' = RemoveAt(writes, n)
             /\ astray' = (astray \/ n = Len(writes))
      BY <1>10 DEF SecureStoreWriteFails
    <2>2. token' = token /\ isTokenLoading' = isTokenLoading
      BY <1>10 DEF SecureStoreWriteFails, session
    <2>3. /\ n \in 1 .. Len(writes) /\ Len(writes) \in Nat /\ writes # <<>>
          /\ writes' \in Seq(Nat) /\ Len(writes') = Len(writes) - 1
          /\ \A i \in 1 .. (Len(writes) - 1) :
                writes'[i] = IF i < n THEN writes[i] ELSE writes[i + 1]
      BY <2>1, OneLands DEF SessionOK
    <2> SUFFICES ASSUME ~ astray', ~ isTokenLoading'
                 PROVE  IF writes' = <<>> THEN store' = token'
                                          ELSE writes'[Len(writes')] = token'
      BY DEF StoreWillFollow
    <2>4. n # Len(writes) /\ ~ astray /\ ~ isTokenLoading
      BY <2>1, <2>2, Zenon
    <2>5. writes[Len(writes)] = token
      BY <2>3, <2>4 DEF StoreWillFollow
    <2>6. Len(writes) - 1 \in 1 .. (Len(writes) - 1) /\ ~ (Len(writes) - 1 < n)
      BY <2>3, <2>4
    <2>7. writes'[Len(writes')] = writes[(Len(writes) - 1) + 1] /\ writes' # <<>>
      BY <2>3, <2>6
    <2> QED
      BY <2>2, <2>3, <2>5, <2>7
  <1>5. ASSUME NEW t \in Token, Resolve(t)
        PROVE  StoreWillFollow'
    BY <1>1, <1>2, <1>5 DEF Resolve, MeServed, MeArrives, MeFails, disk, history
  <1>6. ASSUME NEW f \in Form, SignedIn(f)
        PROVE  StoreWillFollow'
    <2>1. Len(owner) + 1 \in Nat /\ setToken(Len(owner) + 1)
      BY <1>6, TokenTypes DEF SignedIn, SessionOK
    <2> QED
      BY <1>2, <2>1
  <1>7. CASE signOut
    BY <1>2, <1>7 DEF signOut
  <1>8. ASSUME NEW c \in Call, Presses(c) \/ Serves(c) \/ Ends(c) \/ Leaves(c)
        PROVE  StoreWillFollow'
    <2>1. UNCHANGED <<astray, isTokenLoading, writes, store, token>>
      BY <1>8 DEF Presses, onSelect, onConfirm, onResend, Press, Serves, UpdateServed,
         ConfirmServed, ResendServed, RefreshServed, Ends, CallArrives, CallFails, Leaves,
         ServedLate, NeverServed, disk, session, history
    <2> QED
      BY <1>1, <2>1
  <1>9. CASE Kill
    BY <1>9 DEF Kill, StoreWillFollow
  <1> QED
    BY <1>1, <1>3, <1>4, <1>5, <1>6, <1>7, <1>8, <1>9, <1>10
       DEF Next, vars, ReadStore, SecureStoreReadFails, Submit, Refused, Elsewhere, Presses,
           Serves, Ends, Leaves, disk, session, history

(* useStorageState (use-storage-state.ts) over the secure store: once no   *)
(* write is under way, the device remembers the session that is open, or   *)
(* none, unless since the token last changed a write landed before an      *)
(* older one or the last one was refused.                                  *)
THEOREM StoreKeepsUp == Spec => []StoreFollows
  <1>1. Init => StoreWillFollow
    BY DEF Init, StoreWillFollow
  <1>2. SessionOK /\ StoreWillFollow /\ [Next]_vars => StoreWillFollow'
    BY StepFollows
  <1>3. StoreWillFollow => StoreFollows
    BY DEF StoreWillFollow, StoreFollows
  <1> QED
    BY <1>1, <1>2, <1>3, AlwaysOK, PTL DEF Spec

----------------------------------------------------------------------------
(* How old the account shown is.                                           *)

\* What the server's writes overtake is marked, and the one that wrote answers.
LEMMA ServeMarks ==
    ASSUME SessionOK, NEW c \in Call, Serves(c)
    PROVE  /\ stale \subseteq stale'
           /\ \A v \in User : account'[v] # account[v] =>
                 /\ call'[c].phase # "none"
                 /\ \A d \in Call \ {c} :
                       call[d].phase = "served" /\ owner[call[d].token] = v => d \in stale'
                 /\ token # 0 /\ resolve[token].phase = "served" /\ owner[token] = v
                       => Me \in stale'
           /\ call'[c].phase = "none" => call[c].phase = "sent"
           /\ ~ doubted' => ~ doubted \/ call'[c].phase = "refresh"
           /\ UNCHANGED <<token, resolve, user>>
  <1>1. call[c].phase # "none" /\ call[c] \in Requests /\ owner[call[c].token] \in User
    BY CallServed DEF Serves, UpdateServed, ConfirmServed, ResendServed, RefreshServed,
       SessionOK, Typed
  <1> DEFINE u == owner[call[c].token]
  <1>2. ASSUME NEW field \in Field, Write(c, field)
        PROVE  /\ stale \subseteq stale'
               /\ \A v \in User \ {u} : account'[v] = account[v]
               /\ \A d \in Call \ {c} :
                     call[d].phase = "served" /\ owner[call[d].token] = u => d \in stale'
               /\ token # 0 /\ resolve[token].phase = "served" /\ owner[token] = u
                     => Me \in stale'
    <2>1. account' = [account EXCEPT ![u] = account[u] \cup {field}]
      BY <1>2 DEF Write
    <2>2. stale' = stale \cup Overtaken(u)
      BY <1>2 DEF Write
    <2>3. \A v \in User \ {u} : account'[v] = account[v]
      BY <2>1 DEF SessionOK, Typed
    <2> HIDE DEF u
    <2> QED
      BY <2>2, <2>3 DEF Overtaken
  <1> HIDE DEF u
  <1>3. CASE UpdateServed(c)
    <2>1. PICK field \in Field : Write(c, field)
      BY <1>3 DEF UpdateServed, Field
    <2>2. call'[c].phase = "served" /\ UNCHANGED <<token, resolve, user, doubted>>
      BY <1>1, <1>3 DEF UpdateServed, session, SessionOK, Typed, Requests
    <2> QED
      BY <1>2, <2>1, <2>2
  <1>4. CASE ConfirmServed(c)
    <2>1. PICK field \in Field : Write(c, field)
      BY <1>4 DEF ConfirmServed, Field
    <2>2. call'[c].phase = "refresh" /\ UNCHANGED <<token, resolve, user, doubted>>
      BY <1>1, <1>4 DEF ConfirmServed, session, SessionOK, Typed, Requests
    <2> QED
      BY <1>2, <2>1, <2>2
  <1>5. CASE ResendServed(c) \/ RefreshServed(c)
    <2>1. account' = account /\ UNCHANGED <<token, resolve, user, stale>>
      BY <1>5 DEF ResendServed, RefreshServed, server, session, history
    <2>2. call'[c].phase = "none" => call[c].phase = "sent"
      <3>1. CASE ResendServed(c)
        BY <3>1 DEF ResendServed
      <3>2. CASE RefreshServed(c)
        BY <1>1, <3>2 DEF RefreshServed, Served, SessionOK, Typed, Requests
      <3> QED
        BY <1>5, <3>1, <3>2
    <2>3. ~ doubted' => ~ doubted \/ call'[c].phase = "refresh"
      <3>1. CASE ResendServed(c)
        <4>1. CASE Verified(c)
          <5>1. call' = [call EXCEPT ![c].phase = "refresh"]
            BY <3>1, <4>1 DEF ResendServed
          <5> QED
            BY <1>1, <5>1 DEF SessionOK, Typed, Requests
        <4>2. CASE ~ Verified(c)
          BY <3>1, <4>2, Zenon DEF ResendServed
        <4> QED
          BY <4>1, <4>2
      <3>2. CASE RefreshServed(c)
        BY <3>2 DEF RefreshServed, history
      <3> QED
        BY <1>5, <3>1, <3>2
    <2> QED
      BY <2>1, <2>2, <2>3
  <1> QED
    BY <1>3, <1>4, <1>5 DEF Serves

LEMMA ServesFresh ==
    ASSUME SessionOK, Fresh, NEW c \in Call, Serves(c)
    PROVE  Fresh'
  <1>1. /\ owner' = owner /\ UNCHANGED <<token, resolve, user>>
        /\ call' \in [Call -> Requests] /\ \A d \in Call \ {c} : call'[d] = call[d]
        /\ stale \subseteq stale'
    BY CallServed, ServeMarks DEF Serves
  <1>2. CallsFresh'
    <2> SUFFICES ASSUME NEW d \in Call, call'[d].phase = "served", d \notin stale'
                 PROVE  call'[d].copy.fields = account'[owner'[call'[d].token]]
      BY DEF CallsFresh
    <2>1. CASE d = c
      BY <1>1, <2>1, CallServed DEF Serves
    <2>2. CASE d # c
      <3>1. call'[d] = call[d] /\ call[d].phase = "served" /\ d \notin stale
        BY <1>1, <2>2
      <3>2. owner[call[d].token] \in User
        BY <3>1, TokenTypes DEF SessionOK, Asked, OfItsSession
      <3>3. account'[owner[call[d].token]] = account[owner[call[d].token]]
        BY <2>2, <3>1, <3>2, ServeMarks
      <3> QED
        BY <1>1, <3>1, <3>3 DEF Fresh, CallsFresh
    <2> QED
      BY <2>1, <2>2
  <1>3. ResolveFresh'
    <2> SUFFICES ASSUME token # 0, resolve[token].phase = "served", Me \notin stale'
                 PROVE  resolve[token].copy.fields = account'[owner[token]]
      BY <1>1 DEF ResolveFresh
    <2>1. owner[token] \in User
      BY TokenTypes DEF SessionOK, Typed
    <2>2. Me \notin stale
      BY <1>1
    <2> QED
      BY <2>1, <2>2, ServeMarks DEF Fresh, ResolveFresh
  <1>4. CopyFresh'
    <2> SUFFICES ASSUME user # Nobody, ~ doubted',
                        ~ \E d \in Call : call'[d].phase \in {"served", "refresh"}
                 PROVE  user.id \in User /\ user.fields = account'[user.id]
      BY <1>1 DEF CopyFresh
    <2>1. call'[c].phase = "none" /\ ~ doubted
      BY CallServed, ServeMarks DEF Serves
    <2>2. ~ \E d \in Call : call[d].phase \in {"served", "refresh"}
      BY <1>1, <2>1, ServeMarks
    <2> QED
      BY <2>1, <2>2, ServeMarks DEF Fresh, CopyFresh
  <1> QED
    BY <1>2, <1>3, <1>4 DEF Fresh

LEMMA EndsFresh ==
    ASSUME SessionOK, Fresh, NEW c \in Call, Presses(c) \/ Ends(c)
    PROVE  Fresh'
  <1>1. /\ owner' = owner /\ account' = account
        /\ stale' = stale \/ stale' = stale \ {c}
        /\ UNCHANGED <<token, resolve>>
        /\ call' \in [Call -> Requests]
    BY CallOK DEF Presses, onSelect, onConfirm, onResend, Press, Ends, CallArrives,
       CallFails, server, session, history, SessionOK, Typed
  <1>2. ResolveFresh'
    BY <1>1, MeAssumption DEF Fresh, ResolveFresh
  <1>3. CASE Presses(c)
    <2>1. PICK kind \in Kinds : Press(c, kind)
      BY <1>3 DEF Presses, onSelect, onConfirm, onResend, Kinds, Field
    <2> DEFINE r == Request(kind, token, "sent", Nobody)
    <2>2. /\ call' = [call EXCEPT ![c] = r] /\ call[c] = NoRequest
          /\ user' = user /\ doubted' = doubted
      BY <2>1 DEF Press, session, history
    <2>3. r.phase = "sent"
      BY DEF Request
    <2> HIDE DEF r
    <2>4. /\ call'[c].phase = "sent" /\ call[c].phase = "none"
          /\ \A d \in Call \ {c} : call'[d] = call[d]
      BY <2>2, <2>3, Blanks DEF SessionOK, Typed
    <2>5. CallsFresh'
      BY <1>1, <2>4 DEF Fresh, CallsFresh
    <2>6. CopyFresh'
      BY <1>1, <2>2, <2>4 DEF Fresh, CopyFresh
    <2> QED
      BY <1>2, <2>5, <2>6 DEF Fresh
  <1>4. CASE Ends(c)
    <2>1. \/ call' = [call EXCEPT ![c] = NoRequest]
          \/ call' = [call EXCEPT ![c] = GivenUp(call[c])]
      BY <1>4 DEF Ends, CallArrives, CallFails
    <2>2. /\ call'[c].phase \in {"none", "lost"}
          /\ \A d \in Call \ {c} : call'[d] = call[d]
      <3>1. call[c] \in Requests
        BY DEF SessionOK, Typed
      <3> QED
        BY <2>1, <3>1, Blanks, GivenUpRequest, CallLeft DEF SessionOK
    <2>3. CallsFresh'
      BY <1>1, <2>2 DEF Fresh, CallsFresh
    <2>4. CASE CallArrives(c)
      <3>1. /\ call[c].phase = "served" /\ user' = call[c].copy
            /\ doubted' = (c \in stale)
        BY <2>4 DEF CallArrives
      <3>2. call[c].copy.id = owner[call[c].token] /\ owner[call[c].token] \in User
        BY <3>1, TokenTypes DEF SessionOK, Asked, OfItsSession
      <3>3. c \notin stale => call[c].copy.fields = account[owner[call[c].token]]
        BY <3>1 DEF Fresh, CallsFresh
      <3>4. ~ doubted' => user'.id \in User /\ user'.fields = account'[user'.id]
        BY <1>1, <3>1, <3>2, <3>3
      <3>5. CopyFresh'
        BY <3>4 DEF CopyFresh
      <3> QED
        BY <1>2, <2>3, <3>5 DEF Fresh
    <2>5. CASE CallFails(c)
      <3>1. user' = user /\ doubted' = (doubted \/ call[c].phase # "sent")
        BY <2>5 DEF CallFails, session
      <3>2. ~ doubted' => ~ doubted /\ call[c].phase = "sent"
        BY <3>1, Zenon
      <3>3. CopyFresh'
        BY <1>1, <2>2, <3>1, <3>2 DEF Fresh, CopyFresh
      <3> QED
        BY <1>2, <2>3, <3>3 DEF Fresh
    <2> QED
      BY <1>4, <2>4, <2>5 DEF Ends
  <1> QED
    BY <1>3, <1>4

LEMMA ResolvesFresh ==
    ASSUME SessionOK, Fresh, NEW t \in Token, Resolve(t)
    PROVE  Fresh'
  <1>1. resolve[t].phase # "none"
    BY DEF Resolve, MeServed, MeArrives, MeFails
  <1>2. /\ resolve[t] \in Requests /\ resolve[t].token = t /\ t \in Tokens /\ t # 0
        /\ owner[t] \in User
        /\ resolve[t].phase = "served" => resolve[t].copy.id = owner[t]
    BY <1>1, TokenTypes DEF SessionOK, Typed, Asked, OfItsSession
  <1>3. /\ owner' = owner /\ account' = account /\ call' = call
        /\ \A c \in Call : c \notin stale' => c \notin stale
    BY MeAssumption DEF Resolve, MeServed, MeArrives, MeFails, server, history
  <1>4. CallsFresh'
    BY <1>3 DEF Fresh, CallsFresh
  <1>5. CASE MeServed(t)
    <2>1. /\ resolve' = [resolve EXCEPT ![t] = Served(resolve[t])]
          /\ token' = token /\ user' = user /\ doubted' = doubted /\ stale' = stale
      BY <1>5 DEF MeServed, history
    <2>2. Served(resolve[t]).copy.fields = account[owner[t]]
      BY <1>2, ServedRequest, CurrentCopy DEF SessionOK
    <2> HIDE DEF Served
    <2>3. /\ resolve'[t] = Served(resolve[t])
          /\ \A x \in Token \ {t} : resolve'[x] = resolve[x]
      BY <2>1 DEF SessionOK, Typed
    <2>4. token # 0 => token \in Token
      BY TokenTypes DEF SessionOK, Typed
    <2>5. ResolveFresh'
      BY <1>3, <2>1, <2>2, <2>3, <2>4 DEF Fresh, ResolveFresh
    <2>6. CopyFresh'
      BY <1>3, <2>1 DEF Fresh, CopyFresh
    <2> QED
      BY <1>4, <2>5, <2>6 DEF Fresh
  <1>6. CASE MeArrives(t) \/ MeFails(t)
    <2>1. resolve' = [resolve EXCEPT ![t] = NoRequest]
      BY <1>6 DEF MeArrives, MeFails
    <2>2. resolve'[t].phase = "none" /\ \A x \in Token \ {t} : resolve'[x] = resolve[x]
      BY <2>1, Blanks DEF SessionOK, Typed
    <2>3. token' = token \/ token' = 0
      BY <1>6 DEF MeArrives, MeFails, setToken
    <2>4. token # 0 => token \in Token
      BY TokenTypes DEF SessionOK, Typed
    <2>5. ResolveFresh'
      <3>1. CASE t = token
        BY <2>2, <2>3, <3>1 DEF ResolveFresh
      <3>2. CASE t # token
        <4>1. stale' = stale /\ token' = token
          BY <1>6, <3>2 DEF MeArrives, MeFails
        <4> QED
          BY <1>3, <2>2, <2>4, <3>2, <4>1 DEF Fresh, ResolveFresh
      <3> QED
        BY <3>1, <3>2
    <2>6. CASE user' = Nobody \/ (user' = user /\ doubted' = doubted)
      <3>1. CopyFresh'
        BY <1>3, <2>6 DEF Fresh, CopyFresh, Nobody, Copy
      <3> QED
        BY <1>4, <2>5, <3>1 DEF Fresh
    <2>7. CASE MeArrives(t) /\ t = token
      <3>1. resolve[t].phase = "served" /\ user' = resolve[t].copy /\ doubted' = (Me \in stale)
        BY <2>7 DEF MeArrives
      <3>2. Me \notin stale => resolve[t].copy.fields = account[owner[t]]
        BY <1>2, <2>7, <3>1 DEF Fresh, ResolveFresh
      <3>3. ~ doubted' => user'.id \in User /\ user'.fields = account'[user'.id]
        BY <1>2, <1>3, <3>1, <3>2
      <3>4. CopyFresh'
        BY <3>3 DEF CopyFresh
      <3> QED
        BY <1>4, <2>5, <3>4 DEF Fresh
    <2> QED
      BY <1>6, <2>6, <2>7 DEF MeArrives, MeFails, history
  <1> QED
    BY <1>5, <1>6 DEF Resolve

LEMMA UnheardFresh ==
    ASSUME SessionOK, Fresh, NEW u \in User, NEW fields \in SUBSET Field,
           WriteUnheard(u, fields), UNCHANGED <<owner, token, user, resolve>>,
           \A c \in Call : \/ call'[c] = call[c]
                           \/ call[c].phase = "lost" /\ call'[c].phase = "none"
    PROVE  Fresh'
  <1>1. /\ stale \subseteq stale'
        /\ \A v \in User : account'[v] # account[v] =>
              /\ user.id = v => doubted'
              /\ \A d \in Call : call[d].phase = "served" /\ owner[call[d].token] = v
                                    => d \in stale'
              /\ token # 0 /\ resolve[token].phase = "served" /\ owner[token] = v
                    => Me \in stale'
        /\ doubted => doubted'
    BY Unheard DEF SessionOK
  <1>2. CallsFresh'
    <2> SUFFICES ASSUME NEW d \in Call, call'[d].phase = "served", d \notin stale'
                 PROVE  call'[d].copy.fields = account'[owner'[call'[d].token]]
      BY DEF CallsFresh
    <2>1. call'[d] = call[d] /\ call[d].phase = "served" /\ d \notin stale
      BY <1>1
    <2>2. owner[call[d].token] \in User
      BY <2>1, TokenTypes DEF SessionOK, Asked, OfItsSession
    <2> QED
      BY <1>1, <2>1, <2>2 DEF Fresh, CallsFresh
  <1>3. ResolveFresh'
    <2> SUFFICES ASSUME token # 0, resolve[token].phase = "served", Me \notin stale'
                 PROVE  resolve[token].copy.fields = account'[owner[token]]
      BY DEF ResolveFresh
    <2>1. owner[token] \in User /\ Me \notin stale
      BY <1>1, TokenTypes DEF SessionOK, Typed
    <2> QED
      BY <1>1, <2>1 DEF Fresh, ResolveFresh
  <1>4. CopyFresh'
    <2> SUFFICES ASSUME user # Nobody, ~ doubted',
                        ~ \E d \in Call : call'[d].phase \in {"served", "refresh"}
                 PROVE  user.id \in User /\ user.fields = account'[user.id]
      BY DEF CopyFresh
    <2>1. ~ doubted
      BY <1>1
    <2>2. ~ \E d \in Call : call[d].phase \in {"served", "refresh"}
      OBVIOUS
    <2> QED
      BY <1>1, <2>1, <2>2 DEF Fresh, CopyFresh
  <1> QED
    BY <1>2, <1>3, <1>4 DEF Fresh

LEMMA StepFresh ==
    ASSUME SessionOK, Fresh, [Next]_vars
    PROVE  Fresh'
  <1>1. CASE UNCHANGED <<owner, account, token, user, resolve, call, stale, doubted>>
    BY <1>1 DEF Fresh, CallsFresh, ResolveFresh, CopyFresh
  <1>2. CASE SecureStoreRead
    <2>1. /\ owner' = owner /\ account' = account /\ call' = call /\ stale' = stale
          /\ user' = user /\ token' = store /\ RunEffect(store) /\ isTokenLoading
      BY <1>2 DEF SecureStoreRead, server, history
    <2>2. CallsFresh'
      BY <2>1 DEF Fresh, CallsFresh
    <2>3. store \in {0} \cup Token
      BY TokenTypes DEF SessionOK, Typed
    <2>4. ResolveFresh'
      BY <2>1, <2>3, EffectAsks DEF SessionOK, ResolveFresh
    <2>5. CopyFresh'
      BY <2>1 DEF SessionOK, Blank, CopyFresh, Nobody, Copy
    <2> QED
      BY <2>2, <2>4, <2>5 DEF Fresh
  <1>3. ASSUME NEW f \in Form, SignedIn(f)
        PROVE  Fresh'
    <2> DEFINE t == Len(owner) + 1
    <2>1. /\ owner' = Append(owner, form[f]) /\ token' = t /\ account' = account
          /\ user' = Copy(form[f], account[form[f]]) /\ RunEffect(t)
          /\ call' = call /\ stale' = stale \ {Me}
      BY <1>3 DEF SignedIn, setToken
    <2>2. form[f] \in User /\ owner \in Seq(User) /\ Len(owner) \in Nat
          /\ t \in Token
      BY <1>3, TokenTypes, BoundAssumption DEF SignedIn, SessionOK, Typed, Token
    <2>3. \A x \in Tokens : owner'[x] = owner[x]
      BY <2>1, <2>2, AppendProperties DEF Tokens
    <2> HIDE DEF t
    <2>4. CallsFresh'
      BY <2>1, <2>3, MeAssumption DEF SessionOK, Asked, OfItsSession, Fresh, CallsFresh
    <2>5. resolve'[t].phase = "sent"
      BY <2>1, <2>2, EffectAsks, TokenTypes DEF SessionOK
    <2>6. ResolveFresh'
      BY <2>1, <2>5 DEF ResolveFresh
    <2>7. user'.id \in User /\ user'.fields = account'[user'.id]
      BY <2>1, <2>2 DEF Copy
    <2>8. CopyFresh'
      BY <2>7 DEF CopyFresh
    <2> QED
      BY <2>4, <2>6, <2>8 DEF Fresh
  <1>4. CASE signOut
    <2>1. /\ token' = 0 /\ user' = Nobody /\ owner' = owner /\ account' = account
          /\ call' = call /\ stale' = stale \ {Me}
      BY <1>4 DEF signOut, setToken, server
    <2> QED
      BY <2>1, MeAssumption DEF Fresh, CallsFresh, ResolveFresh, CopyFresh, Nobody, Copy
  <1>5. CASE Kill
    <2>1. /\ token' = 0 /\ user' = Nobody
          /\ \A c \in Call : call'[c].phase \in {"none", "lost"}
      BY <1>5, GivenUpRequest DEF Kill, SessionOK, Typed
    <2> QED
      BY <2>1 DEF Fresh, CallsFresh, ResolveFresh, CopyFresh, Nobody, Copy
  <1>6. ASSUME NEW c \in Call, Presses(c) \/ Serves(c) \/ Ends(c)
        PROVE  Fresh'
    BY <1>6, ServesFresh, EndsFresh
  <1>7. ASSUME NEW t \in Token, Resolve(t)
        PROVE  Fresh'
    BY <1>7, ResolvesFresh
  <1>8. ASSUME NEW c \in Call, Leaves(c)
        PROVE  Fresh'
    <2>1. /\ call[c].phase = "lost" /\ call' = [call EXCEPT ![c] = NoRequest]
          /\ UNCHANGED <<owner, token, user, resolve>>
      BY <1>8 DEF Leaves, ServedLate, NeverServed, server, session
    <2>2. call'[c].phase = "none" /\ \A d \in Call \ {c} : call'[d] = call[d]
      BY <2>1, Blanks, CallLeft DEF SessionOK
    <2>3. CASE ServedLate(c)
      <3>1. PICK u \in User, fields \in SUBSET Field : WriteUnheard(u, fields)
        BY <2>3, LateWrites
      <3> QED
        BY <2>1, <2>2, <3>1, UnheardFresh
    <2>4. CASE NeverServed(c)
      <3>1. account' = account /\ stale' = stale /\ doubted' = doubted
        BY <2>4 DEF NeverServed, server, history
      <3> QED
        BY <2>1, <2>2, <3>1 DEF Fresh, CallsFresh, ResolveFresh, CopyFresh
    <2> QED
      BY <1>8, <2>3, <2>4 DEF Leaves
  <1>9. CASE Elsewhere
    <2>1. UNCHANGED <<owner, token, user, resolve, call>>
      BY <1>9 DEF Elsewhere, session
    <2>2. PICK u \in User, fields \in SUBSET Field : WriteUnheard(u, fields)
      BY <1>9, ElsewhereWrites
    <2> QED
      BY <2>1, <2>2, UnheardFresh
  <1> QED
    BY <1>1, <1>2, <1>3, <1>4, <1>5, <1>6, <1>7, <1>8, <1>9
       DEF Next, vars, ReadStore, SecureStoreReadFails, SecureStoreWrite, SecureStoreWriteFails,
           Submit, Refused, Presses, Serves, Ends, Leaves, server, session, history

(* updateMe, refreshMe and the resolving effect (session-context.tsx):     *)
(* when the app waits for no request the copy on screen is the account the *)
(* server has, unless the last answer shown was overtaken or, since then,  *)
(* the account was changed by another session, by a request whose answer   *)
(* was lost or by one served after the app gave it up.  Told by a resend   *)
(* that the email is verified, the app catches up.                         *)
THEOREM CopyKeepsUp == Spec => []CopyIsFresh
  <1>1. Init => Fresh
    BY Blanks DEF Init, Fresh, CallsFresh, ResolveFresh, CopyFresh
  <1>2. SessionOK /\ Fresh /\ [Next]_vars => Fresh'
    BY StepFresh
  <1>3. Fresh => CopyIsFresh
    BY Blanks DEF Fresh, CopyFresh, CopyIsFresh, Group
  <1> QED
    BY <1>1, <1>2, <1>3, AlwaysOK, PTL DEF Spec

----------------------------------------------------------------------------
(* Answers.                                                                *)

(* Math.ceil of the milliseconds left, in whole seconds.                    *)
LEMMA Ceiling ==
    ASSUME NEW left \in Nat, left > 0
    PROVE  LET seconds == (left + 999) \div 1000
           IN  /\ seconds \in Nat /\ seconds > 0
               /\ seconds * 1000 >= left
               /\ (seconds - 1) * 1000 < left
  OBVIOUS

(* issue (one-time-codes.service.ts:74-85), the exception filter, the client *)
(* and useCountdown together: whatever is left of the cooldown, the resend  *)
(* button comes back when the cooldown is over, within its second.           *)
THEOREM CountdownEndsWithCooldown ==
    ASSUME NEW left \in Nat, left > 0
    PROVE  CountdownCoversCooldown(left)
  <1> DEFINE seconds == (left + 999) \div 1000
             error == request(CooldownAnswer(left))
  <1>1. /\ seconds \in Nat /\ seconds > 0
        /\ seconds * 1000 >= left
        /\ (seconds - 1) * 1000 < left
    BY Ceiling
  <1>2. CooldownAnswer(left) = [status |-> 429, header |-> seconds,
                                body |-> Body("text", <<"other">>)]
    BY DEF CooldownAnswer, Answer
  <1> HIDE DEF seconds
  <1>3. error = [type |-> "ApiError", status |-> 429, retryAfterSeconds |-> <<seconds>>,
                 body |-> Body("text", <<"other">>)]
    <2>1. CooldownAnswer(left) # Unreachable
      BY <1>2 DEF Unreachable, Answer
    <2>2. parseRetryAfterSeconds(seconds) = <<seconds>>
      BY <1>1 DEF parseRetryAfterSeconds
    <2> QED
      BY <1>2, <2>1, <2>2 DEF request
  <1> HIDE DEF error
  <1>4. resendCooldownSeconds(error) = seconds
    BY <1>3 DEF resendCooldownSeconds
  <1>5. ResendVerification(error).countdown = seconds
    BY <1>3, <1>4 DEF ResendVerification, Resent
  <1>6. /\ useCountdown(seconds, seconds) = 0
        /\ \A ticks \in 0 .. seconds - 1 : useCountdown(seconds, ticks) > 0
    BY <1>1 DEF useCountdown
  <1> QED
    BY <1>1, <1>5, <1>6 DEF CountdownCoversCooldown, error
=============================================================================
