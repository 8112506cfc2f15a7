------------------------------ MODULE Amounts ------------------------------
(***************************************************************************)
(* Money as text: what the Amount field takes for an amount, what the      *)
(* server takes for one, the fixed scale the server answers in, and the    *)
(* prefill of the edit sheet.  A text is a sequence of digits and marks;   *)
(* an amount is a natural number of the smallest unit the column holds.    *)
(* The blanks around a text, dropped first, are not part of it.            *)
(***************************************************************************)
EXTENDS Integers, Sequences, SequencesExt

CONSTANTS MaxIntegerDigits,     \* 16 in the code
          Scale                 \* 4 in the code

ASSUME DigitsAssumption == MaxIntegerDigits \in Nat \ {0} /\ Scale \in Nat \ {0}

Digits == <<"0", "1", "2", "3", "4", "5", "6", "7", "8", "9">>
Digit == ToSet(Digits)
DigitValue(c) == (CHOOSE n \in DOMAIN Digits : Digits[n] = c) - 1

AMOUNT_SEPARATORS ==
    [en |-> [decimal |-> ".", group |-> ","], vi |-> [decimal |-> ",", group |-> "."]]
Locale == DOMAIN AMOUNT_SEPARATORS

NotAnAmount == <<>>

\* The parts of a text around its first point.
Point(text) == SelectInSeq(text, LAMBDA c : c = ".")
Whole(text) == IF Point(text) = 0 THEN text ELSE SubSeq(text, 1, Point(text) - 1)
Fraction(text) == IF Point(text) = 0 THEN <<>> ELSE SubSeq(text, Point(text) + 1, Len(text))

\* /^\d{1,16}(\.\d{1,4})?$/ and not /^0+(\.0+)?$/.
isValidMoneyAmount(text) ==
    /\ ToSet(Whole(text)) \cup ToSet(Fraction(text)) \subseteq Digit
    /\ Len(Whole(text)) \in 1 .. MaxIntegerDigits
    /\ Point(text) # 0 => Len(Fraction(text)) \in 1 .. Scale
    /\ \E n \in DOMAIN text : text[n] \notin {"0", "."}

\* At least one digit stays.
StripLeadingZeros(digits) ==
    LET first == SelectInSeq(digits, LAMBDA c : c # "0")
    IN  IF first = 0 THEN <<"0">> ELSE SubSeq(digits, first, Len(digits))

StripTrailingZeros(digits) ==
    SubSeq(digits, 1, SelectLastInSeq(digits, LAMBDA c : c # "0"))

\* Grouping marks go first, for in vi they are points.
Normalized(raw, locale) ==
    LET ungrouped == SelectSeq(raw, LAMBDA c : c # AMOUNT_SEPARATORS[locale].group)
    IN  ReplaceAll(ungrouped, AMOUNT_SEPARATORS[locale].decimal, ".")

parseAmountInput(raw, locale) ==
    LET normalized == Normalized(raw, locale)
        candidate  == StripLeadingZeros(Whole(normalized)) \o
                      SubSeq(normalized, Len(Whole(normalized)) + 1, Len(normalized))
    IN  IF raw # <<>> /\ isValidMoneyAmount(candidate) THEN candidate ELSE NotAnAmount

amountInputFromDecimal(decimal, locale) ==
    LET fraction == StripTrailingZeros(Fraction(decimal))
    IN  IF fraction = <<>> THEN Whole(decimal)
        ELSE Whole(decimal) \o <<AMOUNT_SEPARATORS[locale].decimal>> \o fraction

\* The number a column of this scale holds for a valid text, and its toFixed.
Stored(text) ==
    LET padded == Whole(text) \o Fraction(text) \o
                  [n \in 1 .. Scale - Len(Fraction(text)) |-> "0"]
    IN  FoldLeft(LAMBDA n, c : 10 * n + DigitValue(c), 0, padded)

Size(n) == CHOOSE k \in 1 .. MaxIntegerDigits + Scale :
              n < 10 ^ k /\ (k = 1 \/ n >= 10 ^ (k - 1))
DigitsOf(n, k) == [i \in 1 .. k |-> Digits[((n \div 10 ^ (k - i)) % 10) + 1]]
toFixed(n) ==
    LET whole == n \div 10 ^ Scale
    IN  DigitsOf(whole, Size(whole)) \o <<".">> \o DigitsOf(n % 10 ^ Scale, Scale)

----------------------------------------------------------------------------
(* What the two sides rely on, for the bounded texts and amounts that the  *)
(* runs evaluate them on.                                                  *)

\* What the client accepts, the server accepts ("a reliable predictor",
\* amount-input.ts:20), and it is what the form would show again.
ClientPredictsServer(raws) ==
    \A raw \in raws, locale \in Locale :
        LET parsed == parseAmountInput(raw, locale)
        IN  parsed # NotAnAmount =>
                /\ isValidMoneyAmount(parsed)
                /\ parseAmountInput(amountInputFromDecimal(toFixed(Stored(parsed)), locale),
                                    locale)
                   = amountInputFromDecimal(toFixed(Stored(parsed)), "en")

\* The locked field of the edit sheet never stops a Save: whatever amount is
\* stored, its prefill parses, and to that amount.
PrefillParses(amounts) ==
    \A n \in amounts, locale \in Locale :
        LET parsed == parseAmountInput(amountInputFromDecimal(toFixed(n), locale), locale)
        IN  parsed # NotAnAmount /\ Stored(parsed) = n
=============================================================================
