------------------------ MODULE IntegerParserProofs -------------------------
(***************************************************************************)
(* Theorems about IntegerParser, for integers of every width from 8 bits   *)
(* up and texts of every length; what a build makes of std::abs() of the   *)
(* minimum of intmax_t is assumed where a theorem says so.                 *)
(***************************************************************************)
EXTENDS IntegerParser, TLAPS

\* Types of the variables.
TypeInv ==
    /\ signed \in BOOLEAN /\ promoted \in BOOLEAN /\ negative \in BOOLEAN
    /\ text \in Seq(Characters) /\ rest \in Seq(Characters)
    /\ base \in {10, 16}
    /\ result \in 0..Modulus - 1 /\ exact \in Nat
    /\ phase \in {"split", "digits", "threw", "undefined", "done"}

\* A number that T may have with this sign.
HasSign == signed \/ ~negative

\* The digits read so far were summed up without a wrap-around, within the range
\* of T; a sign that T does not have is only found at the end.
SumInv ==
    /\ phase = "split" => result = 0 /\ exact = 0
    /\ phase = "digits" => exact = result /\ (HasSign => result <= Bound)

\* What the proof of ParsesExactly needs to be inductive.
IInv == TypeInv /\ SumInv /\ ParsesExactly

-----------------------------------------------------------------------------
(* Arithmetic                                                              *)

\* A number that fits is converted to itself.
LEMMA ModSmall ==
  ASSUME NEW M \in Nat \ {0}, NEW n \in 0..M - 1
  PROVE  n % M = n
BY SMT

\* A negative number that fits is converted to its complement.
LEMMA ModNegative ==
  ASSUME NEW M \in Nat \ {0}, NEW n \in (-M)..(-1)
  PROVE  n % M = n + M
BY SMT

\* A remainder is smaller than the modulus.
LEMMA ModRange ==
  ASSUME NEW M \in Nat \ {0}, NEW n \in Int
  PROVE  n % M \in 0..M - 1
BY SMT

\* The comparison with the quotient decides the comparison with the product.
LEMMA QuotientBounds ==
  ASSUME NEW l \in Nat, NEW b \in {10, 16}, NEW r \in Nat
  PROVE  r <= l \div b <=> r * b <= l
BY SMT

\* The ranges of T, and the limit the loop computes from them.
LEMMA Ranges ==
  ASSUME TypeInv
  PROVE  /\ Half \in Nat /\ Half >= 128 /\ Modulus \in Nat \ {0} /\ Modulus = 2 * Half
         /\ MaxT \in Nat /\ MaxT >= 127 /\ MaxT < Modulus
         /\ MinT \in Int /\ -MinT \in 0..Half
         /\ Bound \in 0..Modulus - 1
         /\ HasSign => limit = Bound /\ Bound >= 127
         /\ ~HasSign => limit = 0
<1> USE DEF TypeInv
<1>1. Half \in Nat /\ Half >= 128 /\ Modulus \in Nat \ {0} /\ Modulus = 2 * Half
  BY IntegerParserAssumption DEF Modulus
<1>2. MaxT \in Nat /\ MaxT >= 127 /\ MaxT < Modulus
  BY <1>1 DEF MaxT
<1>3. MinT \in Int /\ -MinT \in 0..Half /\ (signed => MinT = -Half)
  BY <1>1 DEF MinT
<1>4. Bound \in 0..Modulus - 1
  BY <1>1, <1>2, <1>3 DEF Bound
<1>5. US(Half) = Half /\ US(MaxT) = MaxT /\ US(0) = 0
  BY <1>1, <1>2, ModSmall DEF US
<1>6. HasSign => limit = Bound /\ Bound >= 127
  BY <1>1, <1>2, <1>3, <1>5 DEF limit, Bound, HasSign
<1>7. ~HasSign => limit = 0
  BY <1>5 DEF limit, HasSign
<1> QED
  BY <1>1, <1>2, <1>3, <1>4, <1>6, <1>7

-----------------------------------------------------------------------------
(* The loop                                                                *)

\* The test for one more digit is exact: it neither lets a number pass that is
\* too large, nor refuses one that T can hold.
LEMMA FitsExactly ==
  ASSUME TypeInv, NEW c \in 0..15, digit = c, c < base,
         HasSign, result <= Bound
  PROVE  Fits <=> result * base + c <= Bound
<1>1. /\ Modulus \in Nat \ {0} /\ Bound \in 0..Modulus - 1
      /\ limit = Bound /\ Bound >= 127
  BY Ranges
<1>2. result \in Nat /\ base \in {10, 16} /\ result * base \in Nat
  BY DEF TypeInv
<1>3. Wrap(limit - digit) = Bound - c
  BY <1>1, ModSmall DEF Wrap, US
<1>4. result <= limit \div base <=> result * base <= Bound
  BY <1>1, <1>2, QuotientBounds
<1>5. result * base <= Bound => Wrap(result * base) = result * base
  BY <1>1, <1>2, ModSmall DEF Wrap, US
<1> QED
  BY <1>1, <1>2, <1>3, <1>4, <1>5 DEF Fits

\* Where T has no sign and the text has, nothing but zeros goes on.
LEMMA FitsWithoutSign ==
  ASSUME TypeInv, ~HasSign, Fits
  PROVE  result = 0
<1>1. limit = 0
  BY Ranges
<1>2. result <= 0
  BY <1>1, QuotientBounds DEF Fits, TypeInv
<1> QED
  BY <1>2 DEF TypeInv

\* One more digit.
LEMMA DigitStep == IInv /\ NextDigit => IInv'
<1> SUFFICES ASSUME IInv, NextDigit PROVE IInv'
  OBVIOUS
<1> USE DEF IInv
<1>1. /\ phase = "digits" /\ phase' = "digits" /\ rest # << >>
      /\ digit < base /\ Fits
      /\ result' = US(result * base + digit) /\ exact' = exact * base + digit
      /\ rest' = Tail(rest)
      /\ UNCHANGED <<signed, promoted, text, negative, base, value>>
  BY DEF NextDigit, type, desc
<1>2. digit \in 0..15 /\ rest' \in Seq(Characters)
  <2>1. Head(rest) \in Characters /\ Tail(rest) \in Seq(Characters)
    BY <1>1 DEF TypeInv
  <2>2. base \in {10, 16}
    BY DEF TypeInv
  <2>3. digit \in 0..19 /\ digit < base
    BY <1>1, <2>1 DEF digit, Characters, Other
  <2>4. digit \in 0..15
    BY <2>2, <2>3
  <2> QED
    BY <1>1, <2>1, <2>4
<1>3. exact = result /\ (HasSign => result <= Bound)
  BY <1>1 DEF SumInv
<1>4. Modulus \in Nat \ {0} /\ Modulus >= 256 /\ Bound \in 0..Modulus - 1
  BY Ranges
<1>5. result * base + digit \in 0..Modulus - 1
      /\ (HasSign => result * base + digit <= Bound)
  <2>1. result * base + digit \in Nat
    BY <1>2 DEF TypeInv
  <2>2. CASE HasSign
    <3>1. TypeInv /\ digit = digit /\ result <= Bound
      BY <1>3, <2>2
    <3>2. Fits <=> result * base + digit <= Bound
      BY <1>1, <1>2, <2>2, <3>1, FitsExactly
    <3> QED
      BY <1>1, <1>4, <2>1, <3>2
  <2>3. CASE ~HasSign
    <3>1. result = 0
      BY <1>1, <2>3, FitsWithoutSign
    <3>2. result * base + digit = digit
      BY <1>2, <3>1 DEF TypeInv
    <3> QED
      BY <1>2, <1>4, <2>3, <3>2
  <2> QED
    BY <2>2, <2>3
<1>6. result' = result * base + digit /\ exact' = result'
  BY <1>1, <1>3, <1>4, <1>5, ModSmall DEF US
<1>7. UNCHANGED <<Modulus, Bound, HasSign>>
  BY <1>1 DEF Modulus, Bound, HasSign, MinT, MaxT
<1>8. TypeInv'
  BY <1>1, <1>2, <1>4, <1>5, <1>6, <1>7 DEF TypeInv
<1>9. SumInv' /\ ParsesExactly'
  BY <1>1, <1>5, <1>6, <1>7 DEF SumInv, ParsesExactly
<1> QED
  BY <1>8, <1>9

\* A digit is refused for a reason.
LEMMA DigitThrowsStep == IInv /\ DigitThrows => IInv'
<1> SUFFICES ASSUME IInv, DigitThrows PROVE IInv'
  OBVIOUS
<1> USE DEF IInv
<1>1. /\ phase = "digits" /\ phase' = "threw" /\ rest # << >>
      /\ digit < base => ~Fits
      /\ UNCHANGED <<signed, promoted, text, negative, base, rest, result, value, exact>>
  BY DEF DigitThrows, type, desc
<1>2. digit >= base \/ exact * base + digit > Bound \/ (negative /\ ~signed)
  <2> SUFFICES ASSUME digit < base, HasSign PROVE exact * base + digit > Bound
    <3>1. digit \in Int /\ base \in Int
      <4>1. Head(rest) \in Characters
        BY <1>1 DEF TypeInv
      <4>2. base \in Int
        BY DEF TypeInv
      <4>3. digit \in Int
        BY <4>1 DEF digit, Characters, Other
      <4> QED
        BY <4>2, <4>3
    <3> QED
      BY <3>1 DEF HasSign
  <2>1. Head(rest) \in Characters /\ base <= 16
    BY <1>1 DEF TypeInv
  <2>2. digit \in 0..15
    <3>1. base \in {10, 16}
      BY DEF TypeInv
    <3> QED
      BY <2>1, <3>1 DEF digit, Characters, Other
  <2>3. exact = result /\ result <= Bound
    BY <1>1 DEF SumInv
  <2>4. ~(result * base + digit <= Bound)
    BY <1>1, <2>2, <2>3, FitsExactly
  <2>5. result * base + digit \in Int /\ Bound \in Int
    BY <2>2, Ranges DEF TypeInv
  <2> QED
    BY <2>3, <2>4, <2>5
<1>3. UNCHANGED <<Modulus, Bound, digit, Digits, Alphanumeric>>
  BY <1>1 DEF Modulus, Bound, MinT, MaxT, digit, Digits, Alphanumeric, AfterSign, HasBase
<1>4. TypeInv' /\ SumInv'
  BY <1>1, <1>3 DEF TypeInv, SumInv
<1>5. ParsesExactly'
  BY <1>1, <1>2, <1>3 DEF ParsesExactly
<1> QED
  BY <1>4, <1>5

-----------------------------------------------------------------------------
(* The end                                                                 *)

\* The negation goes through the most negative value without leaving T.
LEMMA Negated ==
  ASSUME TypeInv, signed, NEW n \in 0..Half
  PROVE  AsT(-AsT(n - 1) - 1) = -n
<1>1. Half \in Nat /\ Half >= 128 /\ Modulus \in Nat \ {0} /\ Modulus = 2 * Half
  BY Ranges
<1>2. \A i \in (-Half)..(Half - 1) : AsT(i) = i
  <2> SUFFICES ASSUME NEW i \in (-Half)..(Half - 1) PROVE AsT(i) = i
    OBVIOUS
  <2>1. CASE i >= 0
    <3>1. US(i) = i
      BY <1>1, <2>1, ModSmall DEF US
    <3> QED
      BY <1>1, <2>1, <3>1 DEF AsT
  <2>2. CASE i < 0
    <3>1. US(i) = i + Modulus
      BY <1>1, <2>2, ModNegative DEF US
    <3> QED
      BY <1>1, <2>2, <3>1 DEF AsT
  <2> QED
    BY <1>1, <2>1, <2>2
<1>3. AsT(n - 1) = n - 1
  BY <1>1, <1>2
<1>4. -(n - 1) - 1 = -n /\ -n \in (-Half)..(Half - 1)
  BY <1>1
<1> QED
  BY <1>2, <1>3, <1>4

\* The number is handed out.
LEMMA FinishStep == IInv /\ Finish => IInv'
<1> SUFFICES ASSUME IInv, Finish PROVE IInv'
  OBVIOUS
<1> USE DEF IInv
<1>1. /\ phase = "digits" /\ phase' = "done" /\ (negative => signed)
      /\ value' = IF negative THEN AsT(-AsT(result - 1) - 1) ELSE AsT(result)
      /\ UNCHANGED <<signed, promoted, text, negative, base, rest, result, exact>>
  BY DEF Finish, type, desc
<1>2. exact = result /\ result <= Bound /\ result \in Nat
  BY <1>1 DEF SumInv, HasSign, TypeInv
<1>3. value' = (IF negative THEN -exact ELSE exact) /\ value' \in MinT..MaxT
  <2>1. CASE negative
    <3>1. result \in 0..Half /\ MinT = -Half /\ Half \in Nat
      BY <1>1, <1>2, <2>1, Ranges DEF Bound, MinT
    <3>2. value' = -result
      BY <1>1, <2>1, <3>1, Negated
    <3> QED
      BY <1>2, <2>1, <3>1, <3>2, Ranges
  <2>2. CASE ~negative
    <3>1. result <= MaxT /\ MaxT \in Nat /\ MinT \in Int /\ MinT <= 0
      BY <1>2, <2>2, Ranges DEF Bound
    <3>2. US(result) = result
      BY <3>1, <1>2, Ranges, ModSmall DEF US
    <3>3. AsT(result) = result
      BY <3>1, <3>2, <1>2, Ranges DEF AsT, MaxT
    <3> QED
      BY <1>1, <1>2, <2>2, <3>1, <3>3
  <2> QED
    BY <2>1, <2>2
<1>4. UNCHANGED <<Modulus, MinT, MaxT>>
  BY <1>1 DEF Modulus, MinT, MaxT
<1>5. TypeInv' /\ SumInv'
  BY <1>1, <1>4 DEF TypeInv, SumInv
<1>6. ParsesExactly'
  BY <1>1, <1>3, <1>4 DEF ParsesExactly
<1> QED
  BY <1>5, <1>6

\* The range check at the end never strikes: the loop has done its work.
LEMMA FinishThrowsStep == IInv /\ FinishThrows => IInv'
<1> SUFFICES ASSUME IInv, FinishThrows PROVE IInv'
  OBVIOUS
<1> USE DEF IInv
<1>1. /\ phase = "digits" /\ phase' = "threw"
      /\ SignedCheck => negative /\ ~signed
      /\ UNCHANGED <<signed, promoted, text, negative, base, rest, result, value, exact>>
  BY DEF FinishThrows, type, desc
<1>2. SignedCheck
  <2> SUFFICES ASSUME signed PROVE result <= US(IF negative THEN MinT ELSE MaxT)
    BY DEF SignedCheck
  <2>1. result <= Bound /\ Bound = (IF negative THEN Half ELSE MaxT) /\ MinT = -Half
    BY <1>1, Ranges DEF SumInv, HasSign, Bound, MinT
  <2>2. US(-Half) = Half
    <3>1. /\ Modulus \in Nat \ {0} /\ -Half \in (-Modulus)..(-1)
          /\ -Half + Modulus = Half
      BY Ranges
    <3> QED
      BY <3>1, ModNegative DEF US
  <2>3. US(MaxT) = MaxT
    BY Ranges, ModSmall DEF US
  <2> QED
    BY <2>1, <2>2, <2>3
<1>3. negative /\ ~signed
  BY <1>1, <1>2
<1>4. UNCHANGED Modulus
  BY DEF Modulus
<1>5. TypeInv' /\ SumInv'
  BY <1>1, <1>4 DEF TypeInv, SumInv
<1>6. ParsesExactly'
  BY <1>1, <1>3 DEF ParsesExactly
<1> QED
  BY <1>5, <1>6

-----------------------------------------------------------------------------
(* The start                                                               *)

\* The sign and the base are split off.
LEMMA SplitStep ==
  ASSUME IInv, NEW regex \in BOOLEAN, SplitInteger(regex) \/ SplitThrows(regex)
  PROVE  IInv'
<1> USE DEF IInv, type, desc
<1>1. UNCHANGED <<signed, promoted, text, result, value, exact, Modulus>>
  BY DEF SplitInteger, SplitThrows, Modulus
<1>2. UNCHANGED <<Digits, Alphanumeric>>
  BY <1>1 DEF Digits, Alphanumeric, AfterSign, HasBase
<1>3. CASE SplitThrows(regex)
  <2>1. /\ phase' = "threw" /\ UNCHANGED <<negative, base, rest>>
        /\ (Digits = << >> \/ ~Alphanumeric)
    BY <1>3 DEF SplitThrows, Splits
  <2> QED
    BY <1>1, <1>2, <2>1 DEF TypeInv, SumInv, ParsesExactly
<1>4. CASE SplitInteger(regex)
  <2>1. /\ phase = "split" /\ phase' = "digits" /\ rest' = Digits
        /\ base' \in {10, 16}
    BY <1>4 DEF SplitInteger
  <2>2. negative' \in BOOLEAN
    BY <1>4 DEF SplitInteger
  <2>3. Digits \in Seq(Characters)
    <3>1. AfterSign \in Seq(Characters)
      BY DEF AfterSign, TypeInv
    <3>2. HasBase => Tail(AfterSign) \in Seq(Characters) /\ Tail(AfterSign) # << >>
      <4> SUFFICES ASSUME HasBase
                   PROVE  Tail(AfterSign) \in Seq(Characters) /\ Tail(AfterSign) # << >>
        OBVIOUS
      <4>1. Len(AfterSign) >= 2 /\ AfterSign # << >>
        BY <3>1 DEF HasBase
      <4>2. Tail(AfterSign) \in Seq(Characters) /\ Len(Tail(AfterSign)) = Len(AfterSign) - 1
        BY <3>1, <4>1
      <4>3. Len(AfterSign) \in Nat
        BY <3>1
      <4>4. Len(Tail(AfterSign)) # 0
        BY <4>1, <4>2, <4>3
      <4>5. Len(<< >>) = 0
        OBVIOUS
      <4> QED
        BY <4>2, <4>4, <4>5
    <3>3. HasBase => Tail(Tail(AfterSign)) \in Seq(Characters)
      BY <3>2
    <3> QED
      BY <3>1, <3>3 DEF Digits
  <2>4. TypeInv'
    BY <1>1, <2>1, <2>2, <2>3 DEF TypeInv
  <2>5. result = 0 /\ exact = 0
    BY <2>1 DEF SumInv
  <2>6. Bound' \in Nat
    BY <2>4, IntegerParserAssumption DEF TypeInv, Bound, MinT, MaxT, Modulus
  <2>7. SumInv' /\ ParsesExactly'
    BY <1>1, <2>1, <2>5, <2>6 DEF SumInv, ParsesExactly
  <2> QED
    BY <2>4, <2>7
<1> QED
  BY <1>3, <1>4

\* What std::abs() has no value for ends what is said.
LEMMA AbsOverflowsStep == IInv /\ AbsOverflows => IInv'
<1> SUFFICES ASSUME IInv, AbsOverflows PROVE IInv'
  OBVIOUS
<1>1. /\ phase' = "undefined"
      /\ UNCHANGED <<signed, promoted, text, negative, base, rest, result, value, exact>>
  BY DEF AbsOverflows, type, desc
<1>2. Modulus' = Modulus
  BY DEF Modulus
<1>3. TypeInv'
  BY <1>1, <1>2 DEF IInv, TypeInv
<1>4. SumInv' /\ ParsesExactly'
  BY <1>1 DEF SumInv, ParsesExactly
<1> QED
  BY <1>3, <1>4 DEF IInv

\* The invariant holds in every reachable state.
LEMMA Inductive == Spec => []IInv
<1>1. Init => IInv
  <2> SUFFICES ASSUME Init PROVE IInv
    OBVIOUS
  <2>1. signed \in BOOLEAN /\ promoted \in BOOLEAN
    BY DEF Init
  <2>2. negative \in BOOLEAN
    BY DEF Init
  <2>3. text \in Seq(Characters) /\ rest \in Seq(Characters)
    BY IntegerParserAssumption DEF Init
  <2>4. result \in 0..Modulus - 1
    BY IntegerParserAssumption DEF Init, Modulus
  <2>5. TypeInv
    BY <2>1, <2>2, <2>3, <2>4 DEF Init, TypeInv
  <2> QED
    BY <2>5 DEF Init, IInv, SumInv, ParsesExactly
<1>2. IInv /\ [Next]_vars => IInv'
  <2>1. IInv /\ UNCHANGED vars => IInv'
    <3> SUFFICES ASSUME IInv, UNCHANGED vars PROVE IInv'
      OBVIOUS
    <3>1. UNCHANGED <<signed, promoted, text, negative, base, rest, result, value, exact, phase>>
      BY DEF vars, type, desc
    <3>2. UNCHANGED <<Modulus, MinT, MaxT, Bound, digit, Digits, Alphanumeric>>
      BY <3>1 DEF Modulus, MinT, MaxT, Bound, digit, Digits, Alphanumeric, AfterSign, HasBase
    <3>3. TypeInv' /\ SumInv'
      BY <3>1, <3>2 DEF IInv, TypeInv, SumInv, HasSign
    <3>4. ParsesExactly'
      BY <3>1, <3>2 DEF IInv, ParsesExactly
    <3> QED
      BY <3>3, <3>4 DEF IInv
  <2> QED
    BY <2>1, SplitStep, DigitStep, AbsOverflowsStep, DigitThrowsStep, FinishStep, FinishThrowsStep DEF Next
<1> QED
  BY <1>1, <1>2, PTL DEF Spec

\* integer_parser() is exact for every integer type of 8 bits or more: it gives
\* the number that the text denotes, and throws only if there is none or T cannot
\* hold it.  For a signed type as wide as intmax_t and a text with a sign this
\* takes a build in which std::abs() of the minimum wraps around.
THEOREM ParserIsExact == Spec => []ParsesExactly
<1>1. IInv => ParsesExactly
  BY DEF IInv
<1> QED
  BY <1>1, Inductive, PTL
=============================================================================
