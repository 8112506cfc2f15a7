----------------------------- MODULE MCSession -----------------------------
EXTENDS Session, Sequences, SequencesExt

CONSTANTS MaxUnderWay,  \* bound on the requests under way together
          MaxWrites,    \* bound on the writes that have not landed
          MaxPending    \* bound on both together

UnderWay ==
    Cardinality({f \in Form : form[f] # NoUser}) +
    Cardinality({c \in Call : call[c] # NoRequest}) +
    Cardinality({t \in Token : resolve[t] # NoRequest})

Bounded ==
    /\ UnderWay <= MaxUnderWay /\ Len(writes) <= MaxWrites
    /\ UnderWay + Len(writes) <= MaxPending

\* The names of the forms and of the requests mean nothing: the first free one is taken.
TakesFirst ==
    /\ \A f \in Form : form[f] = NoUser /\ form'[f] # NoUser =>
          \A e \in Form : e < f => form[e] # NoUser
    /\ \A c \in Call : call[c] = NoRequest /\ call'[c] # NoRequest =>
          \A d \in Call : d < c => call[d] # NoRequest

\* The forms of the auth screens, over every text of a few characters; the lengths
\* are scaled down with them.
F == INSTANCE Forms WITH MinPassword <- 3, MaxPassword <- 4, MinUsername <- 2,
        MaxUsername <- 3, MaxDisplayName <- 3, MaxDescription <- 4, CodeLength <- 2
Texts(characters, length) == UNION {[1 .. n -> characters] : n \in 0 .. length}

ASSUME F!FormsMirrorBodies(Texts({"a", "A", " ", "-", "wide"}, 5))
ASSUME F!EmailsFindTheirAccount(Texts({"A", " ", "@", "."}, 6))
ASSUME F!CodesFit(Texts({"1", "a", " "}, 4))

\* The answers those screens may get.
A == INSTANCE Answers WITH RESEND_COOLDOWN_SECONDS <- 60
Answers == {A!Unreachable} \cup
    {A!Answer(status, body, header) :
        status \in {200, 400, 401, 409, 429, 503}, header \in {0, 7},
        body \in A!Bodies({"email", "username", "no daily rate", "other"})}

ASSUME A!EveryFailureIsTold(Answers)
ASSUME A!CurrencyBlamedRightly(Answers)
ASSUME A!ConflictsFindTheirField(Answers)
ASSUME \A left \in {1, 999, 1000, 1001, 59999, 60000} : A!CountdownCoversCooldown(left)

\* The routes those requests name; a Username has 3 characters at least.
R == INSTANCE Routes

ASSUME R!CallsReachTheirRoutes({"expense"})
ASSUME R!FixedRoutesShadowNobody(3)
ASSUME R!EveryRouteIsThrottled

MCSpec ==
    /\ Init
    /\ [][Next /\ Bounded' /\ TakesFirst]_vars
    /\ WF_vars(ReadStore)
    /\ \A t \in Token : WF_vars(Resolve(t))
=============================================================================
