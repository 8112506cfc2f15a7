------------------------------- MODULE Routes -------------------------------
(***************************************************************************)
(* The routes of the API and the calls the app makes to them.  A path is   *)
(* the sequence of its segments; ":id" and ":username" are the parameters, *)
(* which the app writes {id} and {username}.  A value of one is a single   *)
(* segment: the client encodes it.  Bodies and query strings are left out. *)
(***************************************************************************)
EXTENDS Integers, Sequences, FiniteSets

Parameter == {":id", ":username"}

----------------------------------------------------------------------------
(* The controllers, each with the decorators that matter here: those of the *)
(* class hold for every route of it.                                        *)

Route(method, path, is) == [method |-> method, path |-> path, is |-> is]
Under(prefix, class, routes) ==
    [n \in DOMAIN routes |->
        [routes[n] EXCEPT !.path = <<prefix>> \o @, !.is = @ \cup class]]
Guessable == {"AuthRateLimited", "SkipThrottle"}

HealthController == Under("health", {"Public"}, <<Route("GET", <<>>, {})>>)
BlocksController == Under("blocks", {}, <<
    Route("POST", <<>>, {}), Route("GET", <<>>, {}), Route("DELETE", <<":username">>, {})>>)
UsersController == Under("users", {}, <<
    Route("GET", <<"me">>, {}), Route("PATCH", <<"me">>, {}),
    Route("GET", <<":username">>, {})>>)
EmailVerificationController == Under("email-verification", Guessable, <<
    Route("POST", <<"request">>, {}), Route("POST", <<"confirm">>, {})>>)
PasswordResetController == Under("password-reset", Guessable \cup {"Public"}, <<
    Route("POST", <<"request">>, {}), Route("POST", <<"confirm">>, {})>>)
AuthController == Under("auth", Guessable, <<
    Route("POST", <<"sign-up">>, {"Public"}), Route("POST", <<"sign-in">>, {"Public"})>>)
ExpensesController == Under("expenses", {}, <<
    Route("POST", <<>>, {}), Route("GET", <<>>, {}), Route("GET", <<"statistics">>, {}),
    Route("PATCH", <<":id">>, {}), Route("DELETE", <<":id">>, {})>>)
FriendRequestsController == Under("friend-requests", {}, <<
    Route("POST", <<>>, {}), Route("GET", <<>>, {}),
    Route("POST", <<":id", "accept">>, {}), Route("DELETE", <<":id">>, {})>>)
FriendshipsController == Under("friends", {}, <<
    Route("GET", <<>>, {}), Route("DELETE", <<":username">>, {})>>)
UserExpensesController == Under("users", {}, <<Route("GET", <<":username", "expenses">>, {})>>)
LeaderboardController == Under("leaderboard", {}, <<Route("GET", <<>>, {})>>)
FeedController == Under("feed", {}, <<Route("GET", <<>>, {})>>)
LikesController == Under("expenses", {}, <<
    Route("PUT", <<":id", "like">>, {}), Route("DELETE", <<":id", "like">>, {}),
    Route("GET", <<":id", "likes">>, {})>>)

\* In the order the modules are imported.
AppModule ==
    HealthController \o BlocksController \o UsersController \o EmailVerificationController
      \o PasswordResetController \o AuthController \o ExpensesController
      \o FriendRequestsController \o FriendshipsController \o UserExpensesController
      \o LeaderboardController \o FeedController \o LikesController

\* Express takes the first route that matches.
Matches(route, method, path) ==
    /\ route.method = method /\ Len(route.path) = Len(path)
    /\ \A n \in DOMAIN path : route.path[n] \in Parameter \cup {path[n]}
Matching(method, path) == {n \in DOMAIN AppModule : Matches(AppModule[n], method, path)}
Reached(method, path) ==
    LET all == Matching(method, path)
    IN  IF all = {} THEN <<>> ELSE <<AppModule[CHOOSE n \in all : \A m \in all : n <= m]>>

isPublic(route) == "Public" \in route.is
skipUnlessAuthRateLimited(route) == "AuthRateLimited" \notin route.is
Throttlers(route) ==
    (IF "SkipThrottle" \in route.is THEN {} ELSE {"default"})
      \cup (IF skipUnlessAuthRateLimited(route) THEN {} ELSE {"auth"})

----------------------------------------------------------------------------
(* The app's calls: a path of the schema, the parameters it is given values *)
(* for, and whether the token is sent.                                      *)

ApiCall(method, path, params, token) ==
    [method |-> method, path |-> path, params |-> params, token |-> token]
apiGet(path, params) == ApiCall("GET", path, params, TRUE)
apiPost(path, params) == ApiCall("POST", path, params, TRUE)
apiPostWithoutToken(path) == ApiCall("POST", path, {}, FALSE)
apiPatch(path, params) == ApiCall("PATCH", path, params, TRUE)
apiPut(path, params) == ApiCall("PUT", path, params, TRUE)
apiDelete(path, params) == ApiCall("DELETE", path, params, TRUE)

sessionCalls == {
    apiGet(<<"users", "me">>, {}), apiPatch(<<"users", "me">>, {}),
    apiPostWithoutToken(<<"auth", "sign-up">>), apiPostWithoutToken(<<"auth", "sign-in">>)}
passwordResetCalls == {
    apiPostWithoutToken(<<"password-reset", "request">>),
    apiPostWithoutToken(<<"password-reset", "confirm">>)}
emailVerificationCalls == {
    apiPost(<<"email-verification", "request">>, {}),
    apiPost(<<"email-verification", "confirm">>, {})}
blocksCalls == {
    apiGet(<<"blocks">>, {}), apiPost(<<"blocks">>, {}),
    apiDelete(<<"blocks", ":username">>, {":username"})}
expensesCalls == {
    apiGet(<<"expenses">>, {}), apiPost(<<"expenses">>, {}),
    apiPatch(<<"expenses", ":id">>, {":id"}), apiDelete(<<"expenses", ":id">>, {":id"}),
    apiGet(<<"expenses", "statistics">>, {})}
feedCalls == {apiGet(<<"feed">>, {})}
friendsCalls == {
    apiGet(<<"friend-requests">>, {}), apiPost(<<"friend-requests">>, {}),
    apiPost(<<"friend-requests", ":id", "accept">>, {":id"}),
    apiDelete(<<"friend-requests", ":id">>, {":id"}),
    apiDelete(<<"friends", ":username">>, {":username"}),
    apiGet(<<"users", ":username", "expenses">>, {":username"})}
leaderboardCalls == {apiGet(<<"leaderboard">>, {})}
likesCalls == {
    apiPut(<<"expenses", ":id", "like">>, {":id"}),
    apiDelete(<<"expenses", ":id", "like">>, {":id"})}

AppCalls ==
    UNION {sessionCalls, passwordResetCalls, emailVerificationCalls, blocksCalls,
           expensesCalls, feedCalls, friendsCalls, leaderboardCalls, likesCalls}

\* A parameter that is given no value stays in the path as it is written.
request(call, values) ==
    [n \in DOMAIN call.path |->
        IF call.path[n] \in call.params THEN values[call.path[n]] ELSE call.path[n]]

----------------------------------------------------------------------------
(* What the two sides rely on.  The segments written in the routes are the *)
(* values most likely to be taken for something else.                      *)

Literal == UNION {{AppModule[n].path[k] : k \in DOMAIN AppModule[n].path} :
                      n \in DOMAIN AppModule} \ Parameter

\* Whatever the values, a call reaches the route whose path it names, and carries a
\* token just where JwtAuthGuard asks for one.
CallsReachTheirRoutes(more) ==
    \A call \in AppCalls : \A values \in [Parameter -> Literal \cup more] :
        LET path == request(call, values)
            reached == Reached(call.method, path)
        IN  /\ reached # <<>>
            /\ reached[1].path = call.path
            /\ call.token <=> ~isPublic(reached[1])

\* "a fixed route must still come first in source order to win over a param route it
\* could otherwise shadow" (users.controller.ts:21-23): it does, no two controllers
\* compete, and no Username long enough to be signed up is shadowed by one.
FixedRoutesShadowNobody(minUsername) ==
    \A n \in DOMAIN AppModule :
        /\ Reached(AppModule[n].method, AppModule[n].path) = <<AppModule[n]>>
        /\ \A literal \in Literal :
              LET values == [p \in Parameter |-> literal]
                  path == request([path |-> AppModule[n].path, params |-> Parameter], values)
              IN  Len(literal) >= minUsername /\ ":username" \in
                      {AppModule[n].path[k] : k \in DOMAIN AppModule[n].path}
                  => Reached(AppModule[n].method, path) = <<AppModule[n]>>

\* Every route is under one of the two throttlers, and under the tighter one whatever
\* answers without a session, the probe apart.
EveryRouteIsThrottled ==
    \A n \in DOMAIN AppModule : LET route == AppModule[n] IN
        /\ Cardinality(Throttlers(route)) = 1
        /\ isPublic(route) /\ route.path # <<"health">> => Throttlers(route) = {"auth"}
=============================================================================
