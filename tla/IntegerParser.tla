--------------------------- MODULE IntegerParser ----------------------------
(***************************************************************************)
(* integer_parser<T>() of cxxopts.hpp for integer types T of any width:    *)
(* Half is 2^(w-1) for w bits, and there are 2 * Half values of T and of   *)
(* its unsigned type US.  A text is a sequence of characters, of which     *)
(* only the value of a digit, the sign and the x of a base matter.         *)
(***************************************************************************)
EXTENDS Integers, Sequences

CONSTANTS Half,    \* 2^(w-1)
          Texts    \* the texts to parse

\* Characters: 0..15 are hexadecimal digits, X is a small x; Letter stands for
\* every other letter, Other for what is neither a letter nor a digit.
Minus == 16
X == 17
Letter == 18
Other == 19
Characters == 0..Other

\* The narrowest type has 8 bits.
ASSUME IntegerParserAssumption ==
    /\ Half \in Nat /\ Half >= 128
    /\ \A text \in Texts : text \in Seq(Characters)

VARIABLES signed,      \* numeric_limits<T>::is_signed
          promoted,    \* T is narrower than int, in which US is computed with
          widest,      \* T is signed and as wide as intmax_t
          text, rest,  \* the text, and the part that is still to be read
          negative, base, result, value,
          exact,       \* the number read so far, of whatever size
          phase

type == <<signed, promoted, widest>>
desc == <<text, negative, base>>
vars == <<type, desc, rest, result, value, exact, phase>>

Modulus == 2 * Half
MinT == IF signed THEN -Half ELSE 0
MaxT == IF signed THEN Half - 1 ELSE Modulus - 1

\* Conversions to US and to T.
US(n) == n % Modulus
AsT(n) == IF signed /\ US(n) >= Half THEN US(n) - Modulus ELSE US(n)

Init ==
    /\ signed \in BOOLEAN /\ promoted \in BOOLEAN
    /\ widest \in {FALSE, signed /\ ~promoted}
    /\ text \in Texts
    /\ rest = << >> /\ negative = FALSE /\ base = 10
    /\ result = 0 /\ value = 0 /\ exact = 0
    /\ phase = "split"

-----------------------------------------------------------------------------
(* SplitInteger(), with and without regular expressions                    *)

AfterSign == IF text # << >> /\ Head(text) = Minus THEN Tail(text) ELSE text
HasBase == Len(AfterSign) >= 2 /\ AfterSign[1] = 0 /\ AfterSign[2] = X
Digits == IF HasBase THEN Tail(Tail(AfterSign)) ELSE AfterSign
Alphanumeric == \A i \in 1..Len(Digits) : Digits[i] \notin {Minus, Other}
Splits(regex) == Digits # << >> /\ (regex => Alphanumeric)

SplitInteger(regex) ==
    /\ phase = "split" /\ Splits(regex)
    /\ rest' = Digits
    /\ negative' = (text # << >> /\ Head(text) = Minus)
    /\ base' = IF HasBase THEN 16 ELSE 10
    /\ phase' = "digits"
    /\ UNCHANGED <<type, text, result, value, exact>>

\* ("0x" alone is a value for the regular expression; its "x" throws later.)
SplitThrows(regex) ==
    /\ phase = "split" /\ ~Splits(regex)
    /\ phase' = "threw"
    /\ UNCHANGED <<type, desc, rest, result, value, exact>>

-----------------------------------------------------------------------------
(* The loop over the digits.  Types narrower than int are computed with as *)
(* ints; in wider ones products and differences wrap around.               *)

digit == Head(rest)
limit == US(IF negative /\ signed THEN Half ELSE IF negative THEN 0 ELSE MaxT)
Wrap(n) == IF promoted THEN n ELSE US(n)

\* Mutant of Fits: the quotient is not compared.
Fits_ProductOnly == Wrap(result * base) <= Wrap(limit - digit)

Fits ==
    /\ result <= limit \div base
    /\ Wrap(result * base) <= Wrap(limit - digit)

NextDigit ==
    /\ phase = "digits" /\ rest # << >>
    /\ digit < base /\ Fits
    /\ result' = US(result * base + digit)
    /\ exact' = exact * base + digit
    /\ rest' = Tail(rest)
    /\ UNCHANGED <<type, desc, value, phase>>

\* std::abs() of the minimum of intmax_t has no value.  Wrapping around to Half,
\* as limit has it, is one outcome; after any other nothing is known.
AbsOverflows ==
    /\ phase = "digits" /\ rest # << >>
    /\ digit < base /\ negative /\ widest
    /\ phase' = "undefined"
    /\ UNCHANGED <<type, desc, rest, result, value, exact>>

DigitThrows ==
    /\ phase = "digits" /\ rest # << >>
    /\ digit < base => ~Fits
    /\ phase' = "threw"
    /\ UNCHANGED <<type, desc, rest, result, value, exact>>

-----------------------------------------------------------------------------
(* The end: check_signed_range() and checked_negate()                      *)

SignedCheck == signed => result <= US(IF negative THEN MinT ELSE MaxT)

Finish ==
    /\ phase = "digits" /\ rest = << >>
    /\ SignedCheck
    /\ negative => signed
    /\ value' = IF negative THEN AsT(-AsT(result - 1) - 1) ELSE AsT(result)
    /\ phase' = "done"
    /\ UNCHANGED <<type, desc, rest, result, exact>>

FinishThrows ==
    /\ phase = "digits" /\ rest = << >>
    /\ SignedCheck => negative /\ ~signed
    /\ phase' = "threw"
    /\ UNCHANGED <<type, desc, rest, result, value, exact>>

Next ==
    \/ \E regex \in BOOLEAN : SplitInteger(regex) \/ SplitThrows(regex)
    \/ NextDigit \/ AbsOverflows \/ DigitThrows \/ Finish \/ FinishThrows

Spec == Init /\ [][Next]_vars

-----------------------------------------------------------------------------
(* Properties                                                              *)

\* The largest absolute value of a number with this sign, in whole numbers.
Bound == IF negative THEN -MinT ELSE MaxT

\* A text is parsed to exactly the number it denotes, which fits into T, and it
\* is refused only for a reason: it has no digits or a character that is no
\* digit of its base, one more digit leaves the range of T, or it has a sign and
\* T does not.  No product, difference or negation that wraps around shows.  It
\* says nothing of a run in which std::abs() overflows without wrapping around.
ParsesExactly ==
    /\ phase = "done" =>
        value = (IF negative THEN -exact ELSE exact) /\ value \in MinT..MaxT
    /\ phase = "threw" =>
        \/ Digits = << >> \/ ~Alphanumeric
        \/ rest # << >> /\ (digit >= base \/ exact * base + digit > Bound)
        \/ negative /\ ~signed
=============================================================================
