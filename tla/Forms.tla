------------------------------- MODULE Forms -------------------------------
(***************************************************************************)
(* What the forms of the app accept and send, beside what the bodies of    *)
(* the API accept.  A text is a sequence of characters: "a" and "A" stand  *)
(* for the letters, "1" for the digits, " " for the white space, "-" for   *)
(* what else is one UTF-16 unit, and "wide" for a character of two, such   *)
(* as an emoji.  The app counts units and the server characters.           *)
(***************************************************************************)
EXTENDS Integers, Sequences, SequencesExt

CONSTANTS MinPassword, MaxPassword, MinUsername, MaxUsername, MaxDisplayName,
          MaxDescription, CodeLength

Character == {"a", "A", "1", "_", " ", "-", "@", ".", "wide"}

trim(text) ==
    LET kept == {n \in DOMAIN text : text[n] # " "}
    IN  IF kept = {} THEN <<>>
        ELSE SubSeq(text, CHOOSE n \in kept : \A m \in kept : n <= m,
                          CHOOSE n \in kept : \A m \in kept : n >= m)
toLowerCase(text) == [n \in DOMAIN text |-> IF text[n] = "A" THEN "a" ELSE text[n]]
trimAndLowercase(text) == toLowerCase(trim(text))

\* JavaScript's length, and class-validator's @Length(min, max).
Units(text) == Len(text) + Len(SelectSeq(text, LAMBDA c : c = "wide"))
HasLength(text, min, max) == Len(text) \in min .. max

OnlyFrom(text, characters) == \A n \in DOMAIN text : text[n] \in characters
USERNAME_PATTERN(text) == text # <<>> /\ OnlyFrom(text, {"a", "1", "_"})

----------------------------------------------------------------------------
(* lib/validation.ts, lib/expense-form.ts and lib/one-time-code.ts.        *)

normalizeEmail(email) == trimAndLowercase(email)
normalizeUsername(username) == trimAndLowercase(username)

\* Something, an "@", something with a "." inside.
isValidEmail(email) ==
    LET text == trim(email)
    IN  /\ OnlyFrom(text, Character \ {" "})
        /\ \E at \in DOMAIN text :
              /\ at > 1 /\ text[at] = "@"
              /\ \A n \in DOMAIN text : text[n] = "@" => n = at
              /\ \E dot \in at + 2 .. Len(text) - 1 : text[dot] = "."

isValidPassword(password) == Units(password) \in MinPassword .. MaxPassword
isValidUsername(username) ==
    LET normalized == normalizeUsername(username)
    IN  Units(normalized) \in MinUsername .. MaxUsername /\ USERNAME_PATTERN(normalized)
isValidDisplayName(displayName) == Units(trim(displayName)) \in 1 .. MaxDisplayName
isValidExpenseDescription(description) == Units(trim(description)) \in 1 .. MaxDescription

\* What the code fields keep of what is typed, and when their button is enabled.
digitsOf(typed) ==
    LET digits == SelectSeq(typed, LAMBDA c : c = "1")
    IN  SubSeq(digits, 1, IF Len(digits) < CodeLength THEN Len(digits) ELSE CodeLength)
isValidOneTimeCode(code) == Len(code) = CodeLength /\ OnlyFrom(code, {"1"})

----------------------------------------------------------------------------
(* A submit either names the fields at fault or makes a request.           *)

Errors(fields) == [errors |-> fields]
Request(body) == [body |-> body]

validateSignUpForm(values) ==
    {f \in {"displayName", "username", "email", "password"} :
        CASE f = "displayName" -> ~isValidDisplayName(values.displayName)
          [] f = "username" -> ~isValidUsername(values.username)
          [] f = "email" -> ~isValidEmail(values.email)
          [] f = "password" -> ~isValidPassword(values.password)}

signUp(values) ==
    LET errors == validateSignUpForm(values)
    IN  IF errors # {} THEN Errors(errors)
        ELSE Request([values EXCEPT !.email = normalizeEmail(@),
                                    !.username = normalizeUsername(@),
                                    !.displayName = trim(@)])

signIn(values) ==
    IF trim(values.email) = <<>> \/ values.password = <<>> THEN Errors({"missing"})
    ELSE Request([values EXCEPT !.email = trim(@)])

forgotPassword(email) ==
    IF ~isValidEmail(email) THEN Errors({"email"})
    ELSE Request([email |-> normalizeEmail(email)])

resetPassword(email, code, newPassword) ==
    IF ~isValidPassword(newPassword) THEN Errors({"password"})
    ELSE Request([email |-> email, code |-> code, newPassword |-> newPassword])

addFriend(username) ==
    LET normalized == normalizeUsername(username)
    IN  IF ~isValidUsername(normalized) THEN Errors({"username"})
        ELSE Request([username |-> normalized])

\* The screen of a reset: without an email there is only the way to ask for one.
ResetScreen(email, code, cooldown, isSubmitting, isResending) ==
    [redirect |-> email = <<>>,
     submit   |-> isValidOneTimeCode(code) /\ ~isSubmitting,
     resend   |-> cooldown = 0 /\ ~isResending]

----------------------------------------------------------------------------
(* The bodies, as their DTOs take them.                                    *)

\* class-validator's isEmail takes no address the app refuses, and no last label
\* of one letter.
IsEmail(text) == isValidEmail(text) /\ text[Len(text) - 1] # "."

SignUpDto(body) ==
    /\ IsEmail(trimAndLowercase(body.email))
    /\ HasLength(body.password, MinPassword, MaxPassword)
    /\ LET username == trimAndLowercase(body.username)
       IN  HasLength(username, MinUsername, MaxUsername) /\ USERNAME_PATTERN(username)
    /\ HasLength(trim(body.displayName), 1, MaxDisplayName)
SignInDto(body) == IsEmail(trimAndLowercase(body.email)) /\ body.password # <<>>
ConfirmPasswordResetDto(body) ==
    /\ IsEmail(trimAndLowercase(body.email))
    /\ Len(body.code) = CodeLength /\ OnlyFrom(body.code, {"1"})
    /\ HasLength(body.newPassword, MinPassword, MaxPassword)
CreateFriendRequestDto(body) == HasLength(trimAndLowercase(body.username), 1, MaxUsername)
ExpenseDescription(text) == HasLength(trim(text), 1, MaxDescription)

----------------------------------------------------------------------------
(* "The client-side mirror of the rules the API enforces"                  *)
(* (lib/validation.ts:4), for texts the runs evaluate it on.               *)

Narrow(text) == OnlyFrom(text, Character \ {"wide"})

\* Without characters of two units the two sides agree on every field but an email,
\* where the app may be the more lenient; with them the app is only the stricter,
\* except on a password, which it may send too short.
FormsMirrorBodies(texts) == \A text \in texts :
    LET signUpWith(field) == [values \in {"displayName", "username", "email", "password"} |->
            CASE values = field -> text
              [] values = "email" -> <<"a", "@", "a", ".", "a", "a">>
              [] values \in {"displayName", "username", "password"} \ {field} ->
                     [n \in 1 .. MinPassword |-> "a"]]
        Passes(field) == validateSignUpForm(signUpWith(field)) = {}
        Taken(field) == SignUpDto(signUpWith(field))
    IN  /\ \A field \in {"displayName", "username", "password"} :
              /\ Narrow(text) => (Passes(field) <=> Taken(field))
              /\ Passes(field) /\ field # "password" => Taken(field)
        /\ Taken("email") => Passes("email")
        /\ Narrow(text) => (isValidExpenseDescription(text) <=> ExpenseDescription(text))
        /\ isValidExpenseDescription(text) => ExpenseDescription(text)
        /\ isValidUsername(text) => CreateFriendRequestDto(addFriend(text).body)

\* However an email is typed, every form finds the one account it signed up.
EmailsFindTheirAccount(texts) == \A text \in {t \in texts : isValidEmail(t)} :
    LET stored == normalizeEmail(text)
    IN  /\ forgotPassword(text).body.email = stored
        /\ trimAndLowercase(signIn([email |-> text, password |-> <<"a">>]).body.email) = stored
        /\ trimAndLowercase(stored) = stored

\* What the code field lets through is what the server's pattern takes.
CodesFit(texts) == \A text \in texts :
    LET code == digitsOf(text)
    IN  ResetScreen(<<"a">>, code, 0, FALSE, FALSE).submit <=>
            ConfirmPasswordResetDto([email |-> <<"a", "@", "a", ".", "a", "a">>, code |-> code,
                                     newPassword |-> [n \in 1 .. MinPassword |-> "a"]])
=============================================================================
