------------------------------ MODULE Answers ------------------------------
(***************************************************************************)
(* What the app makes of an answer of the API, or of none: the error a     *)
(* screen catches, the message it shows and the countdown it starts.  An   *)
(* answer is [status, body, header]; a body is nothing or no JSON          *)
(* ("other"), or has a message, one text or a list of them; a text is      *)
(* known by what the app looks for in it.  A Retry-After that is missing   *)
(* or no number is 0.                                                      *)
(***************************************************************************)
EXTENDS Integers, Sequences

CONSTANT RESEND_COOLDOWN_SECONDS

Body(form, message) == [form |-> form, message |-> message]
Bodies(texts) ==
    {Body("other", <<>>)} \cup {Body("text", <<text>>) : text \in texts}
        \cup {Body("list", list) : list \in UNION {[1 .. n -> texts] : n \in 1 .. 2}}
Answer(status, body, header) == [status |-> status, body |-> body, header |-> header]
Unreachable == Answer(0, Body("other", <<>>), 0)

\* The error thrown for an answer: fetch's own TypeError, or an ApiError.
parseRetryAfterSeconds(header) ==
    IF header > 0 THEN <<header>> ELSE <<>>
request(answer) ==
    IF answer = Unreachable THEN [type |-> "TypeError"]
    ELSE IF answer.status \in 200 .. 299 THEN [type |-> "ok", body |-> answer.body]
    ELSE [type |-> "ApiError", status |-> answer.status, body |-> answer.body,
          retryAfterSeconds |-> parseRetryAfterSeconds(answer.header)]

Mentions(texts, text) == \E n \in DOMAIN texts : texts[n] = text

\* A list of messages is joined, whichever it mentions; a lone one is not listed.
mentionsMissingDailyRate(body) ==
    body.form = "text" /\ Mentions(body.message, "no daily rate")

Key(key) == [kind |-> "key", key |-> key]
Server(texts) == [kind |-> "server", texts |-> texts]
getErrorMessage(error) ==
    CASE error.type = "TypeError" -> Key("apiError.network")
      [] error.type = "ApiError" ->
           IF error.status = 503 /\ mentionsMissingDailyRate(error.body)
           THEN Key("apiError.rateUnavailable")
           ELSE IF error.body.form # "other" THEN Server(error.body.message)
                ELSE Key("apiError.generic")
      [] OTHER -> Key("apiError.generic")

\* The address wins where a text names both.
classifySignUpError(texts) ==
    IF Mentions(texts, "email") THEN "email"
    ELSE IF Mentions(texts, "username") THEN "username" ELSE "general"

----------------------------------------------------------------------------
(* The screens that catch one.                                             *)

\* Where a failed sign-up is shown.
SignUpShows(error) ==
    LET result == getErrorMessage(error)
    IN  IF result.kind = "key" THEN "general" ELSE classifySignUpError(result.texts)

resendCooldownSeconds(error) ==
    IF error.type = "ApiError" /\ error.status = 429 /\ error.retryAfterSeconds # <<>>
    THEN error.retryAfterSeconds[1] ELSE RESEND_COOLDOWN_SECONDS

Resent(countdown, banner, refresh) ==
    [countdown |-> countdown, banner |-> banner, refresh |-> refresh]

\* verify-email.tsx: a 409 is the news that there is nothing left to verify.
ResendVerification(error) ==
    IF error.type = "ok" THEN Resent(RESEND_COOLDOWN_SECONDS, FALSE, FALSE)
    ELSE IF error.type = "ApiError" /\ error.status = 409 THEN Resent(0, FALSE, TRUE)
    ELSE IF error.type = "ApiError" /\ error.status = 429
         THEN Resent(resendCooldownSeconds(error), FALSE, FALSE)
    ELSE Resent(0, TRUE, FALSE)

\* reset-password.tsx: the answer is the same whether a code was sent or not.
ResendReset(error) ==
    IF error.type = "ok" THEN Resent(RESEND_COOLDOWN_SECONDS, FALSE, FALSE)
    ELSE Resent(0, TRUE, FALSE)

\* What a countdown shows after a number of its ticks.
useCountdown(seconds, ticks) == IF ticks < seconds THEN seconds - ticks ELSE 0

\* The server's 429 for a code whose cooldown has that many milliseconds to go.
CooldownAnswer(left) ==
    Answer(429, Body("text", <<"other">>), (left + 999) \div 1000)

----------------------------------------------------------------------------
(* What the screens rely on.                                               *)

\* Every failure is told, and told in words: a banner, a field or a countdown.
EveryFailureIsTold(answers) == \A answer \in answers :
    LET error == request(answer)
        result == getErrorMessage(error)
        resent == ResendVerification(error)
    IN  error.type # "ok" =>
            /\ result.kind = "server" => result.texts # <<>>
            /\ resent.banner \/ resent.refresh \/ resent.countdown > 0
            /\ ResendReset(error).banner

\* "blaming those on the user's choice of currency would send them to change
\* something that was never the problem" (api-error-message.ts:37).
CurrencyBlamedRightly(answers) == \A answer \in answers :
    getErrorMessage(request(answer)) = Key("apiError.rateUnavailable") =>
        /\ answer.status = 503
        /\ Mentions(answer.body.message, "no daily rate")

\* "Email already registered" goes to the email and "Username already taken" to the
\* Username (auth.service.ts:49-52), and nothing the server did not name to either.
ConflictsFindTheirField(answers) == \A answer \in answers :
    LET error == request(answer)
        At == SignUpShows(error)
    IN  /\ answer.status = 409 =>
              \A text \in {"email", "username"} :
                  answer.body.message = <<text>> => At = text
        /\ At # "general" => Mentions(answer.body.message, At)

\* When the countdown a 429 starts is over, so is the server's cooldown, and not a
\* second earlier than need be.
CountdownCoversCooldown(left) ==
    LET countdown == ResendVerification(request(CooldownAnswer(left))).countdown
    IN  /\ countdown * 1000 >= left
        /\ (countdown - 1) * 1000 < left
        /\ useCountdown(countdown, countdown) = 0
        /\ \A ticks \in 0 .. countdown - 1 : useCountdown(countdown, ticks) > 0
=============================================================================
