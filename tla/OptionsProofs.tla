--------------------------- MODULE OptionsProofs ----------------------------
(***************************************************************************)
(* Theorems about Options, for any declarations, any argument vector and   *)
(* any meaning of its texts.                                               *)
(***************************************************************************)
EXTENDS Options, TLAPS, FiniteSetTheorems, SequenceTheorems, WellFoundedInduction

-----------------------------------------------------------------------------
(* Natural numbers                                                         *)

Less == OpToRel(<, Nat)

\* A nonempty set of numbers has a smallest member.
LEMMA SmallestMember ==
    ASSUME NEW T, T \subseteq Nat, T # {}
    PROVE  \E x \in T : \A y \in T : x <= y
<1>1. \A x, y \in Nat : <<x, y>> \in Less <=> x < y
  BY DEF Less, OpToRel
<1>2. IsWellFoundedOn(Less, Nat)
  BY NatLessThanWellFounded DEF Less
<1>3. PICK x \in T : \A y \in T : ~ (<<y, x>> \in Less)
  BY <1>2, WFMin
<1>4. x \in Nat /\ \A y \in T : y \in Nat /\ ~ (y < x)
  BY <1>1, <1>3
<1> QED
  BY <1>4

\* A set that holds 0, and the next number with each it holds, holds them all.
LEMMA SetInduction ==
    ASSUME NEW T, 0 \in T, \A n \in Nat : n \in T => n + 1 \in T
    PROVE  Nat \subseteq T
<1> DEFINE B == Nat \ T
<1> SUFFICES ASSUME B # {} PROVE FALSE
  OBVIOUS
<1>1. PICK x \in B : \A y \in B : x <= y
  <2> B \subseteq Nat
    OBVIOUS
  <2> HIDE DEF B
  <2> QED
    BY SmallestMember
<1>2. x # 0 /\ x \in Nat
  OBVIOUS
<1>3. x - 1 \in T
  BY <1>1, <1>2
<1> QED
  BY <1>2, <1>3

LEMMA MinIsMember ==
    ASSUME NEW T, T \subseteq Nat, T # {}
    PROVE  Min(T) \in T /\ \A y \in T : Min(T) <= y
BY SmallestMember DEF Min

-----------------------------------------------------------------------------
(* Where parse() is                                                        *)

\* Nothing has been parsed before the call; the loop over the options leaves
\* the arguments after "--" alone, and no other; it is never inside an argument
\* that is no group of letters, and without a name of the program it never ends.
PlaceInv ==
    /\ TypeOK
    /\ phase = "declare" => current = 1 /\ argv = << >> /\ m_parsed = << >>
                            /\ m_sequential = << >> /\ m_defaults = << >>
                            /\ unmatched = << >> /\ letter = 1 /\ next_positional = 1
                            /\ bound = before
    /\ argc = 0 => argv = << >> /\ phase \in {"declare", "options", "outside"}
    /\ phase \in {"declare", "options"} => ~remaining
    /\ phase = "defaults" /\ ~remaining => current = argc
    /\ phase = "rest" => remaining
    /\ phase \in {"finish", "parsed"} => current = argc
    /\ InLoop => letter = 1 \/ (d.kind = "group" /\ letter <= Len(d.group))

\* argc and argv belong together where an argument is looked at.
LEMMA Counted ==
    ASSUME PlaceInv, AtArgument
    PROVE  /\ argc = Len(argv) + 1 /\ Len(argv) \in Nat
           /\ current \in 1..Len(argv) /\ argv[current] \in Texts
<1>1. Len(argv) \in Nat /\ argv \in Seq(Texts) /\ argc \in {0, Len(argv) + 1}
  BY DEF PlaceInv, TypeOK
<1>2. current \in 1..Len(argv)
  BY DEF AtArgument
<1>3. argc # 0
  <2> SUFFICES ASSUME argc = 0 PROVE FALSE
    OBVIOUS
  <2> Len(argv) = 0
    BY DEF PlaceInv
  <2> QED
    BY <1>2
<1> QED
  BY <1>1, <1>2, <1>3

\* The argument at hand, in the loop.
LEMMA AtHand ==
    ASSUME PlaceInv, InLoop
    PROVE  /\ current \in 1..Len(argv) /\ argv[current] \in Texts
           /\ argc = Len(argv) + 1 /\ Len(argv) \in Nat
           /\ d.kind \in {"long", "group", "plain", "bad", "--"}
           /\ d.kind = "group" => letter \in 1..Len(d.group) /\ Len(d.group) \in Nat
<1>1. /\ argc = Len(argv) + 1 /\ Len(argv) \in Nat
      /\ current \in 1..Len(argv) /\ argv[current] \in Texts
  BY Counted DEF InLoop
<1> QED
  BY <1>1, OptionsAssumption DEF PlaceInv, TypeOK, d

\* An option that takes the next argument has one.
LEMMA NextIsThere ==
    ASSUME PlaceInv, InLoop, ValueText # NoText, TakesNext
    PROVE  current < Len(argv) /\ ValueText = argv[current + 1]
<1>1. current + 1 < argc /\ ValueText = argv[current + 1]
  BY DEF TakesNext, ValueText
<1> QED
  BY <1>1, AtHand

\* A text that is stored, or does not convert, makes no variable.
LEMMA VariablesStay ==
    ASSUME NEW o, NEW text, NEW positional, NEW n, NEW default,
           Give(o, text, positional, n, default) \/ Refuses(o, text, positional)
    PROVE  DOMAIN bound' = DOMAIN bound
BY DEF Give, Refuses

LEMMA PlaceBounds ==
    ASSUME PlaceInv
    PROVE  /\ Place \in 1..Len(m_positional) + 1
           /\ Places # {} => Place \in Places /\ Place <= Len(m_positional)
<1>1. /\ \A x \in Places : x \in 1..Len(m_positional)
      /\ Places \subseteq Nat /\ Len(m_positional) \in Nat
  BY OptionsAssumption DEF Places, PlaceInv, TypeOK
<1>2. CASE Places = {}
  BY <1>1, <1>2 DEF Place
<1>3. CASE Places # {}
  <2>1. Place = Min(Places) /\ Min(Places) \in Places
    BY <1>1, <1>3, MinIsMember DEF Place
  <2>2. Place \in Places
    BY <2>1
  <2>3. Place \in 1..Len(m_positional)
    BY <1>1, <2>2
  <2> QED
    BY <1>1, <2>2, <2>3
<1> QED
  BY <1>2, <1>3

LEMMA PlaceInit == Init => PlaceInv
<1> SUFFICES ASSUME Init PROVE PlaceInv
  OBVIOUS
<1>1. Len(argv) = 0 /\ argv \in Seq(Texts) /\ Len(m_positional) \in Nat
  BY OptionsAssumption DEF Init
<1>2. {allow_unrecognised, refused, remaining} \subseteq BOOLEAN
  BY DEF Init
<1>3. before \in Before /\ DOMAIN bound = Variables
  BY OptionsAssumption DEF Init
<1> QED
  BY <1>1, <1>2, <1>3 DEF Init, PlaceInv, TypeOK, InLoop

LEMMA PlaceStep ==
    ASSUME PlaceInv, [Next]_vars
    PROVE  PlaceInv'
<1> USE DEF PlaceInv
<1>1. CASE AddOption
  BY <1>1 DEF AddOption, TypeOK, place, result, values, call, InLoop
<1>2. CASE ParseCall
  <2>1. argv' \in Seq(Texts) /\ Len(argv') \in Nat
    BY <1>2, OptionsAssumption DEF ParseCall, BoundedSeq, SeqOf
  <2>2. argc' \in {0, Len(argv') + 1} /\ (argc' = 0 => argv' = << >>)
    BY <1>2, <2>1 DEF ParseCall
  <2> QED
    BY <1>2, <2>1, <2>2 DEF ParseCall, TypeOK, place, options, result, values, InLoop
<1>3. CASE OptionTaken
  <2>1. current \in 1..Len(argv) /\ Len(argv) \in Nat /\ argc = Len(argv) + 1
    BY <1>3, AtHand DEF OptionTaken, TypeOK
  <2>2. TakesNext => current < Len(argv)
    BY <1>3, NextIsThere DEF OptionTaken
  <2>3. DOMAIN bound' = Variables
    BY <1>3, VariablesStay DEF OptionTaken, parse_option, Take, TypeOK
  <2>4. CASE ~lastLetter /\ HasImplicit(opt)
    <3> d.kind = "group" /\ letter \in 1..Len(d.group) /\ letter # Len(d.group)
        /\ Len(d.group) \in Nat
      BY <1>3, <2>4, AtHand DEF OptionTaken, lastLetter, IsOption
    <3> QED
      BY <1>3, <2>1, <2>3, <2>4 DEF OptionTaken, Step, TypeOK, InLoop, d, options, call
  <2>5. CASE ~(~lastLetter /\ HasImplicit(opt))
    <3> current' = current + (IF TakesNext THEN 2 ELSE 1) /\ letter' = 1
      BY <1>3, <2>5 DEF OptionTaken, Step, Advance
    <3> QED
      BY <1>3, <2>1, <2>2, <2>3 DEF OptionTaken, TypeOK, InLoop, options, call
  <2> QED
    BY <2>4, <2>5
<1>4. CASE OptionUnknown
  <2>1. current \in 1..Len(argv) /\ Len(argv) \in Nat /\ argc = Len(argv) + 1
    BY <1>4, AtHand DEF OptionUnknown, TypeOK
  <2>2. CASE lastLetter
    BY <1>4, <2>1, <2>2 DEF OptionUnknown, Advance, TypeOK, InLoop, options, call, values
  <2>3. CASE ~lastLetter
    <3> d.kind = "group" /\ letter \in 1..Len(d.group) /\ letter # Len(d.group)
        /\ Len(d.group) \in Nat
      BY <1>4, <2>3, AtHand DEF OptionUnknown, lastLetter, IsOption
    <3> QED
      BY <1>4, <2>1, <2>3 DEF OptionUnknown, TypeOK, InLoop, d, options, call, values
  <2> QED
    BY <2>2, <2>3
<1>5. ASSUME ConsumePositional
      PROVE  next_positional' \in 1..Len(m_positional) + 1 /\ DOMAIN bound' = Variables
  <2>1. Len(m_positional) \in Nat
    BY OptionsAssumption
  <2>2. next_positional' \in 1..Len(m_positional) + 1
    BY <1>5, <2>1, PlaceBounds DEF ConsumePositional, HasPlace
  <2>3. DOMAIN bound' = Variables
    BY <1>5, VariablesStay DEF ConsumePositional, add_to_option, Take, TypeOK, values
  <2> QED
    BY <2>2, <2>3
<1>6. CASE Positional
  <2>1. current \in 1..Len(argv) /\ Len(argv) \in Nat /\ argc = Len(argv) + 1
    BY <1>6, AtHand DEF Positional, IsPositional
  <2> QED
    BY <1>5, <1>6, <2>1 DEF Positional, IsPositional, Advance, TypeOK, InLoop, options, call
<1>7. CASE EndOfOptions
  <2>1. CASE InLoop /\ remaining' = TRUE /\ Advance(1)
    <3>1. {allow_unrecognised, refused, remaining}' \subseteq BOOLEAN
      BY <1>7, <2>1 DEF EndOfOptions, TypeOK, options
    <3>2. current \in 1..Len(argv) /\ Len(argv) \in Nat /\ argc = Len(argv) + 1
      BY <2>1, AtHand
    <3> QED
      BY <1>7, <2>1, <3>1, <3>2
         DEF EndOfOptions, Advance, TypeOK, InLoop, options, result, values, call
  <2>2. CASE current = argc /\ UNCHANGED <<current, letter, remaining>>
    <3> argc # 0
      BY <2>2 DEF TypeOK
    <3> QED
      BY <1>7, <2>2 DEF EndOfOptions, TypeOK, InLoop, options, result, values, call
  <2> QED
    BY <1>7, <2>1, <2>2 DEF EndOfOptions
<1>8. CASE RunsPast
  <2>1. argc = 0
    <3> SUFFICES ASSUME argc = Len(argv) + 1 PROVE FALSE
      BY DEF TypeOK
    <3> Len(argv) \in Nat
      BY DEF TypeOK
    <3> QED
      BY <1>8 DEF RunsPast, AtArgument, TypeOK
  <2> QED
    BY <1>8, <2>1 DEF RunsPast, TypeOK, InLoop, options, place, result, values, call
<1>9. ASSUME NEW o \in Range(m_options), Default(o) PROVE PlaceInv'
  <2>1. DOMAIN bound' = Variables
    BY <1>9, VariablesStay DEF Default, TypeOK
  <2> QED
    BY <1>9, <2>1 DEF Default, TypeOK, InLoop, options, place, call
<1>10. CASE EndOfDefaults
  BY <1>10 DEF EndOfDefaults, TypeOK, InLoop, options, place, call
<1>11. CASE Rest
  <2>1. CASE AtArgument /\ ConsumePositional /\ Advance(1) /\ UNCHANGED phase
    <3>1. current \in 1..Len(argv) /\ Len(argv) \in Nat /\ argc = Len(argv) + 1
      BY <2>1, Counted
    <3> QED
      BY <1>5, <1>11, <2>1, <3>1 DEF Rest, Advance, TypeOK, InLoop, options, call
  <2>2. CASE current = argc /\ phase' = "finish" /\ UNCHANGED <<place, values, unmatched>>
    BY <1>11, <2>2 DEF Rest, TypeOK, InLoop, options, place, values, call
  <2> QED
    BY <1>11, <2>1, <2>2 DEF Rest
<1>12. CASE Finish
  BY <1>12 DEF Finish, TypeOK, InLoop, options, place, result, values, call
<1>13. CASE ParseThrows
  <2>1. argc # 0
    <3>1. CASE phase \in {"defaults", "rest"}
      BY <3>1
    <3>2. CASE InLoop
      BY <3>2, AtHand
    <3> QED
      BY <1>13, <3>1, <3>2
         DEF ParseThrows, WrongArgument, WrongValue, WantsPlace, IsPositional
  <2>2. DOMAIN bound' = Variables
    BY <1>13, VariablesStay DEF ParseThrows, WrongArgument, WrongValue, TypeOK
  <2> QED
    BY <1>13, <2>1, <2>2 DEF ParseThrows, TypeOK, InLoop, options, place, call
<1>14. CASE UNCHANGED vars
  BY <1>14 DEF vars, TypeOK, InLoop, AtArgument, d, options, place, result, values, call
<1> QED
  BY <1>1, <1>2, <1>3, <1>4, <1>6, <1>7, <1>8, <1>9, <1>10, <1>11, <1>12, <1>13, <1>14 DEF Next

\* Where parse() is in its arguments and in the list of positional options
\* never leaves them, for whatever arguments there are, although its loops
\* compare with argc for equality only; it reads outside argv when argc is 0,
\* and never otherwise.
THEOREM TypeCorrect == Spec => []TypeOK
<1>1. PlaceInv => TypeOK
  BY DEF PlaceInv
<1> QED
  BY <1>1, PlaceInit, PlaceStep, PTL DEF Spec
-----------------------------------------------------------------------------
(* The names of the options                                                *)

\* An option as it is stored: a letter, or the empty name, and longer names.
Stored == [short : STRING \cup {NoName}, long : Seq(STRING \ {NoName}), container : BOOLEAN,
           type : DOMAIN Valid, default : DOMAIN Items \cup {NoText},
           implicit : DOMAIN Items \cup {NoText}, variable : Variables \cup {NoName}]
Named(o) == o \in Stored /\ (o.short = NoName => o.long # << >>)

LEMMA NamesAre ==
    ASSUME NEW o, Named(o)
    PROVE  /\ Names(o) \in Seq(STRING) /\ NoName \notin ToSet(Names(o))
           /\ ToSet(Names(o)) = Aliases(o) \ {NoName}
           /\ Essential(o) \in ToSet(Names(o))
<1>1. o.short \in STRING \cup {NoName} /\ o.long \in Seq(STRING \ {NoName}) /\ Len(o.long) \in Nat
  BY DEF Named, Stored
<1>2. ToSet(o.long) = {o.long[i] : i \in 1..Len(o.long)} /\ NoName \notin ToSet(o.long)
  BY <1>1 DEF ToSet
<1>3. CASE o.short = NoName
  <2>1. Names(o) = o.long
    BY <1>1, <1>3 DEF Names
  <2>2. o.long # << >> /\ Essential(o) = o.long[1]
    BY <1>1, <1>3 DEF Named, Essential
  <2>3. o.long[1] \in ToSet(o.long)
    BY <1>1, <1>2, <2>2
  <2> QED
    BY <1>1, <1>2, <1>3, <2>1, <2>2, <2>3 DEF Aliases
<1>4. CASE o.short # NoName
  <2>1. Names(o) = <<o.short>> \o o.long
    BY <1>4 DEF Names
  <2>2. /\ Len(Names(o)) = Len(o.long) + 1 /\ Names(o)[1] = o.short
        /\ \A i \in 1..Len(o.long) : Names(o)[i + 1] = o.long[i]
        /\ Names(o) \in Seq(STRING)
    <3> o.short \in STRING /\ o.long \in Seq(STRING)
      BY <1>1, <1>4
    <3> QED
      BY <2>1
  <2>3. ToSet(Names(o)) = {Names(o)[i] : i \in 1..Len(o.long) + 1}
    BY <2>2 DEF ToSet
  <2>4. ToSet(Names(o)) \subseteq {o.short} \cup ToSet(o.long)
    <3> SUFFICES ASSUME NEW i \in 1..Len(o.long) + 1
                 PROVE  Names(o)[i] \in {o.short} \cup ToSet(o.long)
      BY <2>3
    <3>1. CASE i = 1
      BY <2>2, <3>1
    <3>2. CASE i # 1
      <4> i - 1 \in 1..Len(o.long) /\ Names(o)[i] = o.long[i - 1]
        BY <1>1, <2>2, <3>2
      <4> QED
        BY <1>2
    <3> QED
      BY <3>1, <3>2
  <2>5. o.short \in ToSet(Names(o))
    BY <1>1, <2>2, <2>3
  <2>6. \A i \in 1..Len(o.long) : o.long[i] \in ToSet(Names(o))
    <3> TAKE i \in 1..Len(o.long)
    <3>1. i + 1 \in 1..Len(o.long) + 1 /\ Names(o)[i + 1] = o.long[i]
      BY <1>1, <2>2
    <3> QED
      BY <2>3, <3>1
  <2>7. ToSet(Names(o)) = {o.short} \cup ToSet(o.long)
    BY <1>2, <2>4, <2>5, <2>6
  <2>8. Essential(o) \in ToSet(Names(o))
    <3>1. CASE o.long = << >>
      BY <2>5, <3>1 DEF Essential
    <3>2. CASE o.long # << >>
      <4> 1 \in 1..Len(o.long) /\ Essential(o) = o.long[1]
        BY <1>1, <3>2 DEF Essential
      <4> QED
        BY <2>6
    <3> QED
      BY <3>1, <3>2
  <2> QED
    BY <1>2, <1>4, <2>2, <2>7, <2>8 DEF Aliases
<1> QED
  BY <1>3, <1>4

\* The adder stores an option that has a name.
LEMMA DetailsAreNamed ==
    ASSUME NEW given \in Declaration,
           NEW order \in SetToSeqs(1..Len(given.names) \ Letters(given))
    PROVE  Named(Details(given, order))
<1> DEFINE long == 1..Len(given.names) \ Letters(given)
           o == Details(given, order)
<1>1. /\ given.names \in Seq(STRING \ {NoName}) /\ given.names # << >>
      /\ Len(given.names) \in Nat /\ Len(given.names) # 0
  BY DEF Declaration
<1>2. IsFiniteSet(long) /\ Cardinality(long) \in Nat
  <2>1. IsFiniteSet(1..Len(given.names)) /\ long \in SUBSET (1..Len(given.names))
    BY <1>1, FS_Interval
  <2> HIDE DEF long
  <2> QED
    BY <2>1, FS_Subset, FS_CardinalityType
<1>3. order \in [1..Cardinality(long) -> long]
  BY DEF SetToSeqs
<1>4. order \in Seq(long) /\ Len(order) = Cardinality(long)
  <2> HIDE DEF long
  <2> QED
    BY <1>2, <1>3
<1>5. /\ \A i \in 1..Len(order) : given.names[order[i]] \in STRING \ {NoName}
      /\ o.long = [i \in 1..Len(order) |-> given.names[order[i]]]
  <2>1. \A i \in 1..Len(order) : order[i] \in 1..Len(given.names)
    BY <1>4
  <2> QED
    BY <1>1, <2>1 DEF Details
<1>6. o.long \in Seq(STRING \ {NoName}) /\ Len(o.long) = Len(order)
  <2> Len(order) \in Nat
    BY <1>2, <1>4
  <2> HIDE DEF o
  <2> QED
    BY <1>5
<1>7. o.short = IF Letters(given) = {} THEN NoName
                ELSE given.names[CHOOSE i \in Letters(given) : TRUE]
  BY DEF Details
<1>10. ASSUME o.short \in STRING \cup {NoName}, o.short = NoName => o.long # << >>
       PROVE  Named(Details(given, order))
  <2>1. /\ o.container \in BOOLEAN /\ o.type \in DOMAIN Valid
        /\ {o.default, o.implicit} \subseteq DOMAIN Items \cup {NoText}
        /\ o.variable \in Variables \cup {NoName}
    BY DEF Details, Declaration
  <2>2. o = [short |-> o.short, long |-> o.long, container |-> o.container,
             type |-> o.type, default |-> o.default, implicit |-> o.implicit,
             variable |-> o.variable]
    BY DEF Details
  <2> QED
    BY <1>6, <1>10, <2>1, <2>2 DEF Named, Stored
<1>8. CASE Letters(given) = {}
  <2>1. long = 1..Len(given.names)
    BY <1>8
  <2>2. Cardinality(long) # 0
    <3> 1 \in long
      BY <1>1, <2>1
    <3> HIDE DEF long
    <3> QED
      BY <1>2, FS_EmptySet
  <2>3. o.short = NoName /\ o.long # << >>
    <3> Len(o.long) # 0
      BY <1>4, <1>6, <2>2
    <3> o.long # << >>
      BY <1>6
    <3> QED
      BY <1>7, <1>8
  <2> QED
    BY <1>10, <2>3
<1>9. CASE Letters(given) # {}
  <2>1. PICK i \in Letters(given) : o.short = given.names[i]
    BY <1>7, <1>9
  <2>2. o.short \in STRING /\ o.short # NoName
    BY <1>1, <2>1 DEF Letters
  <2> QED
    BY <1>10, <2>2
<1> QED
  BY <1>8, <1>9

\* An option answers to its names and to no other, and to all of them unless a
\* declaration was refused.
NameInv ==
    /\ declared \in Seq(Declaration) /\ IsFiniteSet(DOMAIN m_options)
    /\ \A n \in DOMAIN m_options :
        Named(m_options[n]) /\ n \in ToSet(Names(m_options[n]))
    /\ ~refused => \A n \in DOMAIN m_options : \A k \in ToSet(Names(m_options[n])) :
        k \in DOMAIN m_options /\ m_options[k] = m_options[n]

LEMMA NameInit == Init => NameInv
<1> SUFFICES ASSUME Init PROVE NameInv
  OBVIOUS
<1>1. DOMAIN m_options = {} /\ IsFiniteSet({})
  BY FS_EmptySet DEF Init
<1> QED
  BY <1>1, OptionsAssumption DEF Init, NameInv

LEMMA AddKeepsNames ==
    ASSUME NameInv, AddOption
    PROVE  NameInv'
<1> DEFINE given == Head(declared)
<1>1. given \in Declaration /\ declared' \in Seq(Declaration)
  BY DEF AddOption, NameInv
<1>2. CASE Cardinality(Letters(given)) > 1
  BY <1>1, <1>2 DEF AddOption, NameInv
<1>3. CASE ~(Cardinality(Letters(given)) > 1)
  <2>1. PICK order \in SetToSeqs(1..Len(given.names) \ Letters(given)) :
          LET o == Details(given, order)
              taken == {i \in 1..Len(Names(o)) : Exists(o, i)}
              entered == {i \in 1..Len(Names(o)) : \A j \in taken : i < j}
          IN  /\ m_options' =
                   [n \in DOMAIN m_options \cup {Names(o)[i] : i \in entered} |->
                       IF n \in DOMAIN m_options THEN m_options[n] ELSE o]
              /\ refused' = (refused \/ taken # {})
    BY <1>3 DEF AddOption
  <2> DEFINE o == Details(given, order)
             taken == {i \in 1..Len(Names(o)) : Exists(o, i)}
             entered == {i \in 1..Len(Names(o)) : \A j \in taken : i < j}
  <2>2. Named(o)
    BY <1>1, DetailsAreNamed
  <2>3. /\ Names(o) \in Seq(STRING)
        /\ ToSet(Names(o)) = {Names(o)[i] : i \in 1..Len(Names(o))}
    BY <2>2, NamesAre DEF ToSet
  <2>4. /\ m_options' =
             [n \in DOMAIN m_options \cup {Names(o)[i] : i \in entered} |->
                 IF n \in DOMAIN m_options THEN m_options[n] ELSE o]
        /\ refused' = (refused \/ taken # {})
    BY <2>1
  <2>5. ASSUME NEW n \in DOMAIN m_options'
        PROVE  \/ n \in DOMAIN m_options /\ m_options'[n] = m_options[n]
               \/ n \in ToSet(Names(o)) /\ n \notin DOMAIN m_options /\ m_options'[n] = o
    BY <2>3, <2>4
  <2>6. \A n \in DOMAIN m_options' :
          Named(m_options'[n]) /\ n \in ToSet(Names(m_options'[n]))
    BY <2>2, <2>5 DEF NameInv
  <2>7. ASSUME ~refused', NEW n \in DOMAIN m_options', NEW k \in ToSet(Names(m_options'[n]))
        PROVE  k \in DOMAIN m_options' /\ m_options'[k] = m_options'[n]
    <3>1. ~refused /\ taken = {}
      BY <2>4, <2>7
    <3>2. entered = 1..Len(Names(o))
      BY <3>1
    <3>3. DOMAIN m_options' = DOMAIN m_options \cup ToSet(Names(o))
      BY <2>3, <2>4, <3>2
    <3>4. \A m \in ToSet(Names(o)) : m \notin DOMAIN m_options
      BY <2>3, <3>1 DEF Exists
    <3>5. CASE n \in DOMAIN m_options
      BY <2>4, <2>7, <3>1, <3>3, <3>5 DEF NameInv
    <3>6. CASE n \notin DOMAIN m_options
      <4> m_options'[n] = o
        BY <2>4, <3>6, <2>7
      <4> k \in ToSet(Names(o))
        BY <2>7
      <4> QED
        BY <2>4, <3>3, <3>4
    <3> QED
      BY <3>5, <3>6
  <2>8. IsFiniteSet(DOMAIN m_options')
    <3> DEFINE names == {Names(o)[i] : i \in 1..Len(Names(o))}
    <3>1. Names(o) \in Surjection(1..Len(Names(o)), names) /\ Len(Names(o)) \in Nat
      BY <2>3 DEF Surjection
    <3>2. IsFiniteSet(names)
      BY <3>1, FS_Interval, FS_Surjection
    <3>3. DOMAIN m_options' \subseteq DOMAIN m_options \cup names
      BY <2>4
    <3> HIDE DEF names
    <3> QED
      BY <3>2, <3>3, FS_Union, FS_Subset DEF NameInv
  <2> QED
    BY <1>1, <2>6, <2>7, <2>8 DEF NameInv
<1> QED
  BY <1>2, <1>3

LEMMA NameStep ==
    ASSUME NameInv, [Next]_vars
    PROVE  NameInv'
<1>1. CASE AddOption
  BY <1>1, AddKeepsNames
<1>2. CASE ~AddOption
  <2> UNCHANGED <<declared, m_options, refused>>
    BY <1>2 DEF Next, ParseCall, OptionTaken, OptionUnknown, Positional, EndOfOptions, RunsPast,
                Default, EndOfDefaults, Rest, Finish, ParseThrows, vars, options
  <2> QED
    BY DEF NameInv
<1> QED
  BY <1>1, <1>2
-----------------------------------------------------------------------------
(* Counting                                                                *)

IsSeq(s) == s \in Seq(ToSet(s))

LEMMA AppendIs ==
    ASSUME NEW s, IsSeq(s), NEW x
    PROVE  /\ Len(s) \in Nat /\ IsSeq(Append(s, x)) /\ Len(Append(s, x)) = Len(s) + 1
           /\ \A i \in 1..Len(s) : Append(s, x)[i] = s[i]
           /\ Append(s, x)[Len(s) + 1] = x
<1> DEFINE S == ToSet(s) \cup {x}
           t == Append(s, x)
<1>1. s \in Seq(S) /\ x \in S /\ Len(s) \in Nat
  <2> s \in Seq(ToSet(s))
    BY DEF IsSeq
  <2> QED
    OBVIOUS
<1>2. /\ t \in Seq(S) /\ Len(t) = Len(s) + 1
      /\ \A i \in 1..Len(s) : t[i] = s[i]
      /\ t[Len(s) + 1] = x
  <2> HIDE DEF S
  <2> QED
    BY <1>1
<1>3. IsSeq(t)
  <2> HIDE DEF S, t
  <2> DOMAIN t = 1..Len(t) /\ \A i \in 1..Len(t) : t[i] \in ToSet(t)
    BY <1>2 DEF ToSet
  <2> QED
    BY <1>1, <1>2 DEF IsSeq
<1> QED
  BY <1>1, <1>2, <1>3

\* A set of places grows by at most the next place.
LEMMA OneMore ==
    ASSUME NEW n \in Nat, NEW A, NEW B,
           A \subseteq 1..n, B \subseteq 1..n + 1,
           \A i \in 1..n : i \in B <=> i \in A
    PROVE  /\ Cardinality(A) \in Nat
           /\ Cardinality(B) = Cardinality(A) + (IF n + 1 \in B THEN 1 ELSE 0)
<1>1. IsFiniteSet(A) /\ Cardinality(A) \in Nat
  <2>1. IsFiniteSet(1..n) /\ A \in SUBSET (1..n)
    BY FS_Interval
  <2> QED
    BY <2>1, FS_Subset, FS_CardinalityType
<1>2. /\ \A i \in B : i \in A \/ i = n + 1
      /\ \A i \in A : i \in B /\ i # n + 1
  OBVIOUS
<1>3. CASE n + 1 \in B
  <2>1. B = A \cup {n + 1} /\ n + 1 \notin A
    BY <1>2, <1>3
  <2> QED
    BY <1>1, <1>3, <2>1, FS_AddElement
<1>4. CASE n + 1 \notin B
  <2>1. B = A
    BY <1>2, <1>4
  <2> QED
    BY <1>1, <1>4, <2>1
<1> QED
  BY <1>3, <1>4

\* Occurrences of a text after one more, and of texts and names in pairs.
LEMMA OneMoreText ==
    ASSUME NEW s, IsSeq(s), NEW x, NEW text
    PROVE  /\ Occurrences(text, s) \in Nat
           /\ Occurrences(text, Append(s, x))
                = Occurrences(text, s) + (IF x = text THEN 1 ELSE 0)
<1> DEFINE A == {i \in 1..Len(s) : s[i] = text}
           B == {i \in 1..Len(Append(s, x)) : Append(s, x)[i] = text}
           n == Len(s)
<1>1. /\ n \in Nat /\ A \subseteq 1..n /\ B \subseteq 1..n + 1
      /\ \A i \in 1..n : i \in B <=> i \in A
      /\ n + 1 \in B <=> x = text
  BY AppendIs
<1>2. Occurrences(text, s) = Cardinality(A) /\ Occurrences(text, Append(s, x)) = Cardinality(B)
  BY DEF Occurrences
<1> HIDE DEF A, B, n
<1>3. /\ Cardinality(A) \in Nat
      /\ Cardinality(B) = Cardinality(A) + (IF n + 1 \in B THEN 1 ELSE 0)
  BY <1>1, OneMore
<1> QED
  BY <1>1, <1>2, <1>3

PairsWith(s, k, text) == {i \in 1..Len(s) : s[i][k] = text}

LEMMA OneMorePair ==
    ASSUME NEW s, IsSeq(s), NEW x, NEW k, NEW text
    PROVE  /\ Cardinality(PairsWith(s, k, text)) \in Nat
           /\ Cardinality(PairsWith(Append(s, x), k, text))
                = Cardinality(PairsWith(s, k, text)) + (IF x[k] = text THEN 1 ELSE 0)
<1> DEFINE A == PairsWith(s, k, text)
           B == PairsWith(Append(s, x), k, text)
           n == Len(s)
<1>1. /\ n \in Nat /\ A \subseteq 1..n /\ B \subseteq 1..n + 1
      /\ \A i \in 1..n : i \in B <=> i \in A
      /\ n + 1 \in B <=> x[k] = text
  BY AppendIs DEF PairsWith
<1> HIDE DEF A, B, n
<1>2. /\ Cardinality(A) \in Nat
      /\ Cardinality(B) = Cardinality(A) + (IF n + 1 \in B THEN 1 ELSE 0)
  BY <1>1, OneMore
<1> QED
  BY <1>1, <1>2 DEF A, B

-----------------------------------------------------------------------------
(* No argument is lost and none is used twice                              *)

\* How often a text is among the first n arguments.
Read(text, n) == Cardinality({i \in 1..n : argv[i] = text})

Plain(text) == text \in Texts /\ Desc[text].kind = "plain"

\* What has been read of the arguments is among the values and in unmatched().
PlainInv ==
    /\ IsSeq(m_sequential) /\ IsSeq(unmatched)
    /\ \A text \in Texts : Plain(text) =>
        /\ Kept(text) >= Read(text, current - 1)
        /\ ~Implied(text) => Kept(text) = Read(text, current - 1)

LEMMA ReadMore ==
    ASSUME NEW text, NEW n \in Nat
    PROVE  /\ Read(text, n) \in Nat
           /\ Read(text, n + 1) = Read(text, n) + (IF argv[n + 1] = text THEN 1 ELSE 0)
<1> DEFINE A == {i \in 1..n : argv[i] = text}
           B == {i \in 1..n + 1 : argv[i] = text}
<1>1. /\ A \subseteq 1..n /\ B \subseteq 1..n + 1
      /\ \A i \in 1..n : i \in B <=> i \in A
      /\ n + 1 \in B <=> argv[n + 1] = text
  OBVIOUS
<1>2. Read(text, n) = Cardinality(A) /\ Read(text, n + 1) = Cardinality(B)
  BY DEF Read
<1> HIDE DEF A, B
<1>3. /\ Cardinality(A) \in Nat
      /\ Cardinality(B) = Cardinality(A) + (IF n + 1 \in B THEN 1 ELSE 0)
  BY <1>1, OneMore
<1> QED
  BY <1>1, <1>2, <1>3

\* A text that becomes a value, or unmatched, is kept.
LEMMA KeptMore ==
    ASSUME PlainInv, NEW text, NEW y, NEW kv, kv[2] = y,
           \/ m_sequential' = Append(m_sequential, kv) /\ unmatched' = unmatched
           \/ m_sequential' = m_sequential /\ unmatched' = Append(unmatched, y)
    PROVE  /\ IsSeq(m_sequential') /\ IsSeq(unmatched') /\ Kept(text) \in Nat
           /\ Kept(text)' = Kept(text) + (IF y = text THEN 1 ELSE 0)
<1> DEFINE Used(s) == Cardinality(PairsWith(s, 2, text))
<1>1. /\ Kept(text) = Occurrences(text, unmatched) + Used(m_sequential)
      /\ Kept(text)' = Occurrences(text, unmatched') + Used(m_sequential')
  BY DEF Kept, arguments, PairsWith
<1>2. /\ Occurrences(text, unmatched) \in Nat
      /\ Occurrences(text, Append(unmatched, y))
            = Occurrences(text, unmatched) + (IF y = text THEN 1 ELSE 0)
  BY OneMoreText DEF PlainInv
<1>3. /\ Used(m_sequential) \in Nat
      /\ Used(Append(m_sequential, kv)) = Used(m_sequential) + (IF y = text THEN 1 ELSE 0)
  BY OneMorePair DEF PlainInv
<1>4. /\ IsSeq(m_sequential) /\ IsSeq(Append(m_sequential, kv))
      /\ IsSeq(unmatched) /\ IsSeq(Append(unmatched, y))
  BY AppendIs DEF PlainInv
<1> HIDE DEF Used
<1>5. CASE m_sequential' = Append(m_sequential, kv) /\ unmatched' = unmatched
  BY <1>1, <1>2, <1>3, <1>4, <1>5
<1>6. CASE m_sequential' = m_sequential /\ unmatched' = Append(unmatched, y)
  BY <1>1, <1>2, <1>3, <1>4, <1>6
<1> QED
  BY <1>5, <1>6

LEMMA PlainInit == Init => PlainInv
<1> SUFFICES ASSUME Init PROVE PlainInv
  OBVIOUS
<1>1. Len(m_sequential) = 0 /\ Len(unmatched) = 0 /\ current - 1 = 0
  BY DEF Init
<1>2. IsSeq(m_sequential) /\ IsSeq(unmatched)
  BY DEF Init, IsSeq
<1>3. Cardinality({}) = 0
  BY FS_EmptySet
<1>4. ASSUME NEW text \in Texts PROVE Kept(text) = 0 /\ Read(text, current - 1) = 0
  <2>1. /\ {i \in 1..Len(m_sequential) : m_sequential[i][2] = text} = {}
        /\ {i \in 1..Len(unmatched) : unmatched[i] = text} = {}
        /\ {i \in 1..current - 1 : argv[i] = text} = {}
    BY <1>1
  <2> QED
    <3>1. Read(text, current - 1) = 0
      BY <1>3, <2>1 DEF Read
    <3>2. Occurrences(text, unmatched) = 0
      BY <1>3, <2>1 DEF Occurrences
    <3>3. Cardinality({i \in 1..Len(m_sequential) : m_sequential[i][2] = text}) = 0
      BY <1>3, <2>1
    <3>4. Kept(text) = 0
      BY <3>2, <3>3, 0 + 0 = 0 DEF Kept, arguments
    <3> QED
      BY <3>1, <3>4
<1> QED
  BY <1>2, <1>4 DEF PlainInv
\* What a step keeps of the texts it passes over.
LEMMA PlainByStep ==
    ASSUME PlaceInv, PlainInv, NEW y, NEW kv, kv[2] = y, NEW k \in {0, 1, 2},
           \/ m_sequential' = Append(m_sequential, kv) /\ unmatched' = unmatched
           \/ m_sequential' = m_sequential /\ unmatched' = Append(unmatched, y),
           argv' = argv, m_options' = m_options, current' = current + k,
           \A text \in Texts : Plain(text) =>
               LET read == (IF k > 0 /\ argv[current] = text THEN 1 ELSE 0)
                           + (IF k > 1 /\ argv[current + 1] = text THEN 1 ELSE 0)
                   kept == IF y = text THEN 1 ELSE 0
               IN  kept >= read /\ (kept = read \/ Implied(text))
    PROVE  PlainInv'
<1>1. IsSeq(m_sequential') /\ IsSeq(unmatched')
  BY KeptMore
<1>2. ASSUME NEW text \in Texts, Plain(text)
      PROVE  /\ Kept(text)' >= Read(text, current - 1)'
             /\ ~Implied(text)' => Kept(text)' = Read(text, current - 1)'
  <2> DEFINE first == IF k > 0 /\ argv[current] = text THEN 1 ELSE 0
             second == IF k > 1 /\ argv[current + 1] = text THEN 1 ELSE 0
             kept == IF y = text THEN 1 ELSE 0
  <2>1. current \in Nat /\ current - 1 \in Nat
    BY DEF PlaceInv, TypeOK
  <2>2. Kept(text) \in Nat /\ Kept(text)' = Kept(text) + kept
    BY KeptMore
  <2>3. Read(text, current - 1)' = Read(text, current' - 1)
    BY DEF Read
  <2>4. /\ Read(text, current - 1) \in Nat
        /\ Read(text, current) = Read(text, current - 1)
                                 + (IF argv[current] = text THEN 1 ELSE 0)
    <3> current - 1 + 1 = current
      BY <2>1
    <3> QED
      BY <2>1, SMTT(30), ReadMore
  <2>5. Read(text, current + 1) = Read(text, current)
                                  + (IF argv[current + 1] = text THEN 1 ELSE 0)
    BY <2>1, ReadMore
  <2>6. Read(text, current' - 1) = Read(text, current - 1) + first + second
    <3>1. CASE k = 0
      BY <2>1, <2>4, <3>1
    <3>2. CASE k = 1
      <4> current' - 1 = current
        BY <2>1, <3>2
      <4> QED
        BY <2>4, <3>2
    <3>3. CASE k = 2
      <4> current' - 1 = current + 1
        BY <2>1, <3>3
      <4> QED
        BY <2>4, <2>5, <3>3
    <3> QED
      BY <3>1, <3>2, <3>3
  <2>7. Implied(text)' <=> Implied(text)
    BY DEF Implied
  <2>8. /\ Kept(text) >= Read(text, current - 1)
        /\ ~Implied(text) => Kept(text) = Read(text, current - 1)
    BY <1>2 DEF PlainInv
  <2>9. kept >= first + second /\ (kept = first + second \/ Implied(text))
    BY <1>2
  <2>10. first \in {0, 1} /\ second \in {0, 1} /\ kept \in {0, 1}
    OBVIOUS
  <2> HIDE DEF first, second, kept
  <2> QED
    BY <2>2, <2>3, <2>4, <2>6, <2>7, <2>8, <2>9, <2>10, SMTT(30)
<1> QED
  BY <1>1, <1>2 DEF PlainInv, Plain

LEMMA PlainStep ==
    ASSUME PlaceInv, PlainInv, [Next]_vars
    PROVE  PlainInv'
<1>0. ASSUME UNCHANGED <<argv, m_options, m_sequential, unmatched, current>>
      PROVE  PlainInv'
  BY <1>0 DEF PlainInv, IsSeq, Kept, Occurrences, arguments, Read, Implied, Plain
<1>a. ASSUME phase = "declare", UNCHANGED <<m_sequential, unmatched, current>>
      PROVE  PlainInv'
  <2>1. m_sequential' = << >> /\ unmatched' = << >> /\ current' - 1 = 0
    BY <1>a DEF PlaceInv
  <2>2. IsSeq(m_sequential)' /\ IsSeq(unmatched)'
    BY <1>a DEF PlainInv
  <2>3. ASSUME NEW text \in Texts PROVE Kept(text)' = 0 /\ Read(text, current - 1)' = 0
    <3>1. Cardinality({}) = 0
      BY FS_EmptySet
    <3>2. /\ {i \in 1..Len(m_sequential') : m_sequential'[i][2] = text} = {}
          /\ {i \in 1..Len(unmatched') : unmatched'[i] = text} = {}
          /\ {i \in 1..current' - 1 : argv'[i] = text} = {}
      BY <2>1
    <3>3. Read(text, current - 1)' = 0 /\ Occurrences(text, unmatched)' = 0
      BY <3>1, <3>2 DEF Read, Occurrences
    <3>4. Cardinality({i \in 1..Len(m_sequential') : m_sequential'[i][2] = text}) = 0
      BY <3>1, <3>2
    <3>5. Kept(text)' = 0
      BY <3>3, <3>4, 0 + 0 = 0 DEF Kept, arguments
    <3> QED
      BY <3>3, <3>5
  <2> QED
    BY <2>2, <2>3 DEF PlainInv, Plain
<1>1. CASE AddOption
  BY <1>1, <1>a DEF AddOption, place, result, values
<1>2. CASE ParseCall
  BY <1>2, <1>a DEF ParseCall, place, result, values
<1>3. CASE OptionTaken
  <2>1. /\ InLoop /\ IsOption /\ ValueText # NoText
        /\ m_sequential' = Append(m_sequential, <<Essential(opt), ValueText>>)
        /\ unmatched' = unmatched /\ argv' = argv /\ m_options' = m_options /\ Step
        /\ Known
    BY <1>3 DEF OptionTaken, parse_option, Take, options, call
  <2>2. current \in 1..Len(argv) /\ d.kind # "plain" /\ Len(argv) \in Nat
    BY <2>1, AtHand DEF IsOption, TypeOK, PlaceInv
  <2>3. \A text : Plain(text) => argv[current] # text
    BY <2>2 DEF Plain, d
  <2>4. CASE TakesNext
    <3>1. current' = current + 2
      BY <2>1, <2>4 DEF Step, TakesNext, Advance
    <3>2. ValueText = argv[current + 1]
      BY <2>1, <2>4, NextIsThere
    <3> DEFINE y == ValueText
               kv == <<Essential(opt), y>>
    <3>3. kv[2] = y /\ m_sequential' = Append(m_sequential, kv)
      BY <2>1
    <3> HIDE DEF kv, y
    <3>4. \A text \in Texts : Plain(text) =>
            LET read == (IF 2 > 0 /\ argv[current] = text THEN 1 ELSE 0)
                        + (IF 2 > 1 /\ argv[current + 1] = text THEN 1 ELSE 0)
                kept == IF y = text THEN 1 ELSE 0
            IN  kept >= read /\ (kept = read \/ Implied(text))
      BY <2>3, <3>2 DEF y
    <3>5. 2 \in {0, 1, 2}
      OBVIOUS
    <3>6. /\ \/ m_sequential' = Append(m_sequential, kv) /\ unmatched' = unmatched
             \/ m_sequential' = m_sequential /\ unmatched' = Append(unmatched, y)
          /\ argv' = argv /\ m_options' = m_options
      BY <2>1, <3>3
    <3> QED
      BY <3>1, <3>3, <3>4, <3>5, <3>6, PlainByStep
  <2>5. CASE ~TakesNext
    <3>1. PICK k \in {0, 1} : current' = current + k
      <4> current \in Nat
        BY <2>2
      <4> QED
        BY <2>1, <2>5 DEF Step, Advance
    <3>2. \A text : Plain(text) /\ ValueText = text => Implied(text)
      <4>1. CASE d.kind = "long" /\ d.set_value
        BY <2>2, <4>1 DEF ValueText, Implied, d
      <4>2. CASE ~(d.kind = "long" /\ d.set_value) /\ HasImplicit(opt)
        <5> opt \in Range(m_options) /\ ValueText = opt.implicit
          BY <2>1, <4>2 DEF ValueText, opt, Known, Range
        <5> QED
          BY DEF Implied
      <4>3. CASE ~(d.kind = "long" /\ d.set_value) /\ ~HasImplicit(opt)
        <5>1. ~lastLetter /\ d.kind = "group" /\ letter \in 1..Len(d.group)
              /\ letter # Len(d.group) /\ Len(d.group) \in Nat
          BY <2>1, <2>5, <4>3, AtHand DEF TakesNext, lastLetter, IsOption
        <5>2. ValueText = From(d.group, letter + 1) /\ letter + 1 \in 1..Len(d.group)
          BY <4>3, <5>1 DEF ValueText
        <5> QED
          BY <2>2, <5>1, <5>2 DEF Implied, d
      <4> QED
        BY <4>1, <4>2, <4>3
    <3> DEFINE y == ValueText
               kv == <<Essential(opt), y>>
    <3>3. kv[2] = y /\ m_sequential' = Append(m_sequential, kv)
      BY <2>1
    <3> HIDE DEF kv, y
    <3>4. \A text \in Texts : Plain(text) =>
            LET read == (IF k > 0 /\ argv[current] = text THEN 1 ELSE 0)
                        + (IF k > 1 /\ argv[current + 1] = text THEN 1 ELSE 0)
                kept == IF y = text THEN 1 ELSE 0
            IN  kept >= read /\ (kept = read \/ Implied(text))
      <4> k > 1 <=> FALSE
        OBVIOUS
      <4> QED
        BY <2>3, <3>2 DEF y
    <3>5. k \in {0, 1, 2}
      OBVIOUS
    <3>6. /\ \/ m_sequential' = Append(m_sequential, kv) /\ unmatched' = unmatched
             \/ m_sequential' = m_sequential /\ unmatched' = Append(unmatched, y)
          /\ argv' = argv /\ m_options' = m_options
      BY <2>1, <3>3
    <3> QED
      BY <3>1, <3>3, <3>4, <3>5, <3>6, PlainByStep
  <2> QED
    BY <2>4, <2>5
<1>4. CASE OptionUnknown
  <2> DEFINE y == IF d.kind = "group" THEN "-" \o name ELSE argv[current]
             kv == <<y, y>>
  <2>1. /\ InLoop /\ IsOption /\ unmatched' = Append(unmatched, y)
        /\ m_sequential' = m_sequential /\ argv' = argv /\ m_options' = m_options
    BY <1>4 DEF OptionUnknown, options, call, values
  <2>2. current \in 1..Len(argv) /\ d.kind # "plain" /\ Len(argv) \in Nat
    BY <2>1, AtHand DEF IsOption, TypeOK, PlaceInv
  <2>3. \A text : Plain(text) => argv[current] # text
    BY <2>2 DEF Plain, d
  <2>4. PICK k \in {0, 1} : current' = current + k
    <3> current \in Nat
      BY <2>2
    <3> QED
      BY <1>4 DEF OptionUnknown, Advance
  <2>5. \A text : Plain(text) /\ y = text => Implied(text)
    <3>1. CASE d.kind = "group"
      <4> letter \in 1..Len(d.group) /\ y = "-" \o d.group[letter]
        BY <2>1, <3>1, AtHand DEF name
      <4> HIDE DEF y
      <4> QED
        BY <2>2, <3>1 DEF Implied, d
    <3>2. CASE d.kind # "group"
      BY <2>3, <3>2
    <3> QED
      BY <3>1, <3>2
  <2>6. kv[2] = y
    OBVIOUS
  <2> HIDE DEF y, kv
  <2> QED
    BY <2>1, <2>3, <2>4, <2>5, <2>6, PlainByStep
<1>5. ASSUME ConsumePositional, Advance(1), UNCHANGED <<argv, m_options>>
      PROVE  PlainInv'
  <2> DEFINE y == argv[current]
  <2>1. PICK kv : /\ kv[2] = y
                  /\ \/ m_sequential' = Append(m_sequential, kv) /\ unmatched' = unmatched
                     \/ m_sequential' = m_sequential /\ unmatched' = Append(unmatched, y)
    <3>1. CASE Places = {} /\ unmatched' = Append(unmatched, y) /\ m_sequential' = m_sequential
      <4> <<y, y>>[2] = y
        OBVIOUS
      <4> QED
        BY <3>1
    <3>2. CASE add_to_option(Placed, y) /\ unmatched' = unmatched
      <4> /\ <<Essential(Placed), y>>[2] = y
          /\ m_sequential' = Append(m_sequential, <<Essential(Placed), y>>)
        BY <3>2 DEF add_to_option, Take
      <4> QED
        BY <3>2
    <3> QED
      BY <1>5, <3>1, <3>2 DEF ConsumePositional, values
  <2>2. current' = current + 1
    BY <1>5 DEF Advance
  <2> QED
    BY <1>5, <2>1, <2>2, PlainByStep
<1>6. CASE Positional
  BY <1>5, <1>6 DEF Positional, options, call
<1>7. CASE EndOfOptions
  <2>1. CASE InLoop /\ d.kind = "--" /\ Advance(1)
    <3>1. \A text : Plain(text) => argv[current] # text
      BY <2>1 DEF Plain, d
    <3>2. /\ current' = current + 1 /\ current \in Nat /\ current - 1 \in Nat
          /\ UNCHANGED <<argv, m_options, m_sequential, unmatched>>
      BY <1>7, <2>1 DEF EndOfOptions, Advance, PlaceInv, TypeOK, options, result, values, call
    <3>3. ASSUME NEW text \in Texts, Plain(text)
          PROVE  /\ Read(text, current - 1)' = Read(text, current - 1)
                 /\ Kept(text)' = Kept(text) /\ (Implied(text)' <=> Implied(text))
      <4>1. Read(text, current - 1)' = Read(text, current)
        <5> current' - 1 = current
          BY <3>2
        <5> QED
          BY <3>2 DEF Read
      <4>2. Read(text, current) = Read(text, current - 1) /\ Read(text, current - 1) \in Nat
        <5> current - 1 + 1 = current
          BY <3>2
        <5> QED
          BY <3>1, <3>2, <3>3, ReadMore
      <4> QED
        BY <3>2, <4>1, <4>2 DEF Kept, Occurrences, arguments, Implied
    <3> QED
      BY <3>2, <3>3 DEF PlainInv, IsSeq, Plain
  <2> QED
    BY <1>0, <1>7, <2>1 DEF EndOfOptions, options, result, values, call
<1>8. CASE RunsPast
  BY <1>0, <1>8 DEF RunsPast, options, place, result, values, call
<1>9. ASSUME NEW o \in Range(m_options), Default(o) PROVE PlainInv'
  BY <1>0, <1>9 DEF Default, options, place, call
<1>10. CASE EndOfDefaults
  BY <1>0, <1>10 DEF EndOfDefaults, options, place, call
<1>11. CASE Rest
  BY <1>0, <1>5, <1>11 DEF Rest, options, place, values, call
<1>12. CASE Finish
  BY <1>0, <1>12 DEF Finish, options, place, result, values, call
<1>13. CASE ParseThrows
  BY <1>0, <1>13 DEF ParseThrows, options, place, call
<1>14. CASE UNCHANGED vars
  BY <1>0, <1>14 DEF vars, options, place, result, values, call
<1> QED
  BY <1>1, <1>2, <1>3, <1>4, <1>6, <1>7, <1>8, <1>9, <1>10, <1>11, <1>12, <1>13, <1>14 DEF Next

\* No argument is lost and none is used twice: a text that is no option is among
\* the values and in unmatched() as often as it was written, whatever options
\* take it, "--", and the arguments that find no place.
THEOREM EveryPlainTextKept == Spec => []PlainTextsKept
<1>1. PlaceInv /\ PlainInv => PlainTextsKept
  <2> SUFFICES ASSUME PlaceInv, PlainInv, phase = "parsed", NEW text \in Texts,
                      Desc[text].kind = "plain"
               PROVE  /\ Kept(text) >= Occurrences(text, argv)
                      /\ ~Implied(text) => Kept(text) = Occurrences(text, argv)
    BY DEF PlainTextsKept
  <2> current - 1 = Len(argv)
    <3> argc = Len(argv) + 1 /\ current = argc
      BY DEF PlaceInv, TypeOK
    <3> QED
      BY DEF PlaceInv, TypeOK
  <2> Read(text, current - 1) = Occurrences(text, argv)
    BY DEF Read, Occurrences
  <2> QED
    BY DEF PlainInv, Plain
<1> QED
  BY <1>1, PlaceInit, PlaceStep, PlainInit, PlainStep, PTL DEF Spec
-----------------------------------------------------------------------------
(* Counts and defaults                                                     *)

Opts == Range(m_options)

LEMMA OptsAre ==
    ASSUME NameInv
    PROVE  /\ \A o \in Opts : Named(o) /\ Essential(o) \in ToSet(Names(o))
           /\ ~refused => \A o \in Opts : \A n \in ToSet(Names(o)) :
                n \in DOMAIN m_options /\ m_options[n] = o
           /\ ~refused => \A o, p \in Opts : Essential(o) = Essential(p) => o = p
<1>1. \A o \in Opts : \E n \in DOMAIN m_options : o = m_options[n]
  BY DEF Opts, Range
<1>2. \A o \in Opts : Named(o) /\ Essential(o) \in ToSet(Names(o))
  BY <1>1, NamesAre DEF NameInv
<1>3. ~refused => \A o \in Opts : \A n \in ToSet(Names(o)) :
        n \in DOMAIN m_options /\ m_options[n] = o
  BY <1>1 DEF NameInv
<1> QED
  BY <1>2, <1>3

\* What a text given to an option changes.
LEMMA GiveChanges ==
    ASSUME NEW o, NEW text, NEW positional, NEW n, NEW default,
           Give(o, text, positional, n, default)
    PROVE  /\ Hash(o) \in DOMAIN m_parsed' /\ DOMAIN m_parsed \subseteq DOMAIN m_parsed'
           /\ Store(o)'.count = n /\ Store(o)'.default = default
           /\ Store(o)'.m_value = <<Storage(o)>>
           /\ Own(Storage(o)) => Store(o)'.m_result =
                Holds(Storage(o), Held(Storage(o), Store(o)), text, positional)
           /\ \A p : Hash(p) # Hash(o) => Store(p)' = Store(p)
<1> DEFINE held == Holds(Storage(o), Held(Storage(o), Store(o)), text, positional)
           v == [count |-> n, default |-> default, m_value |-> <<Storage(o)>>,
                 m_result |-> IF Own(Storage(o)) THEN held ELSE << >>]
<1>1. m_parsed' = [h \in DOMAIN m_parsed \cup {Hash(o)} |->
                      IF h = Hash(o) THEN v ELSE m_parsed[h]]
  BY DEF Give, SetStore
<1>2. /\ v.count = n /\ v.default = default /\ v.m_value = <<Storage(o)>>
      /\ Own(Storage(o)) => v.m_result = held
  OBVIOUS
<1> HIDE DEF v, held
<1>3. Store(o)' = v /\ \A p : Hash(p) # Hash(o) => Store(p)' = Store(p)
  BY <1>1 DEF Store
<1> QED
  BY <1>1, <1>2, <1>3 DEF held

LEMMA DefaultChanges ==
    ASSUME NEW o, Give(o, Storage(o).default, FALSE, Store(o).count, TRUE)
    PROVE  /\ Store(o)'.count = Store(o).count /\ Store(o)'.default = TRUE
           /\ \A p : Hash(p) # Hash(o) => Store(p)' = Store(p)
<1> DEFINE text == Storage(o).default
           positional == FALSE
           n == Store(o).count
           default == TRUE
<1>1. Give(o, text, positional, n, default)
  OBVIOUS
<1> HIDE DEF text, positional, n, default
<1>2. /\ Store(o)'.count = n /\ Store(o)'.default = default
      /\ \A p : Hash(p) # Hash(o) => Store(p)' = Store(p)
  BY <1>1, GiveChanges
<1> QED
  BY <1>2 DEF n, default

LEMMA TakeChanges ==
    ASSUME NEW o, NEW text, NEW positional, Take(o, text, positional)
    PROVE  /\ m_sequential' = Append(m_sequential, <<Essential(o), text>>)
           /\ Hash(o) \in DOMAIN m_parsed' /\ DOMAIN m_parsed \subseteq DOMAIN m_parsed'
           /\ Store(o)'.count = Store(o).count + 1 /\ Store(o)'.default = Store(o).default
           /\ \A p : Hash(p) # Hash(o) => Store(p)' = Store(p)
<1> DEFINE n == Store(o).count + 1
           default == Store(o).default
<1>1. /\ Give(o, text, positional, n, default)
      /\ m_sequential' = Append(m_sequential, <<Essential(o), text>>)
  BY DEF Take
<1> HIDE DEF n, default
<1>2. /\ Hash(o) \in DOMAIN m_parsed' /\ DOMAIN m_parsed \subseteq DOMAIN m_parsed'
      /\ Store(o)'.count = n /\ Store(o)'.default = default
      /\ \A p : Hash(p) # Hash(o) => Store(p)' = Store(p)
  BY <1>1, GiveChanges
<1> QED
  BY <1>1, <1>2 DEF n, default

\* The end of the defaults makes entries, and changes none.
LEMMA EndChangesNothing ==
    ASSUME EndOfDefaults
    PROVE  /\ \A o : Store(o)' = Store(o)
           /\ \A o \in Opts : Hash(o) \in DOMAIN m_parsed'
<1>1. m_parsed' = [h \in DOMAIN m_parsed \cup {Hash(o) : o \in Range(m_options)} |->
                      IF h \in DOMAIN m_parsed THEN m_parsed[h] ELSE NewValue]
  BY DEF EndOfDefaults
<1> QED
  BY <1>1 DEF Store, Opts

\* The count of an option is the number of its arguments.
StoreInv ==
    /\ ~refused /\ HashesDiffer =>
        \A o \in Opts : Store(o).count = Cardinality(EntriesOf(m_sequential, o))
    /\ phase \in {"rest", "finish", "parsed"} => \A o \in Opts : Hash(o) \in DOMAIN m_parsed

LEMMA StoreAtFirst ==
    ASSUME m_parsed' = << >>, m_sequential' = << >>,
           phase' \notin {"rest", "finish", "parsed"}
    PROVE  StoreInv'
<1>1. NewValue.count = 0 /\ Cardinality({}) = 0
  BY FS_EmptySet DEF NewValue
<1>2. ASSUME NEW o
      PROVE  Store(o)'.count = Cardinality(EntriesOf(m_sequential, o)')
  <2>1. Store(o)' = NewValue /\ EntriesOf(m_sequential, o)' = {}
    <3> DOMAIN << >> = {} /\ Len(<< >>) = 0
      OBVIOUS
    <3> QED
      BY DEF Store, EntriesOf
  <2> QED
    BY <1>1, <2>1
<1> QED
  BY <1>2 DEF StoreInv

\* An option takes a text: its count and its arguments grow by one.
LEMMA TakeKeepsStore ==
    ASSUME NameInv, StoreInv, IsSeq(m_sequential),
           NEW o \in Opts, NEW text, NEW positional, Take(o, text, positional),
           UNCHANGED <<m_options, refused>>, phase' = phase
    PROVE  StoreInv'
<1>1. /\ m_sequential' = Append(m_sequential, <<Essential(o), text>>)
      /\ Hash(o) \in DOMAIN m_parsed' /\ DOMAIN m_parsed \subseteq DOMAIN m_parsed'
      /\ Store(o)'.count = Store(o).count + 1
      /\ \A p : Hash(p) # Hash(o) => Store(p)' = Store(p)
  BY TakeChanges
<1>2. Opts' = Opts /\ (HashesDiffer' <=> HashesDiffer)
  BY DEF Opts, HashesDiffer
<1>3. ASSUME NEW p
      PROVE  /\ Cardinality(EntriesOf(m_sequential, p)) \in Nat
             /\ Cardinality(EntriesOf(m_sequential, p)')
                  = Cardinality(EntriesOf(m_sequential, p))
                    + (IF Essential(o) = Essential(p) THEN 1 ELSE 0)
  <2> DEFINE kv == <<Essential(o), text>>
             key == Essential(p)
  <2>1. kv[1] = Essential(o)
    OBVIOUS
  <2>2. /\ EntriesOf(m_sequential, p) = PairsWith(m_sequential, 1, key)
        /\ EntriesOf(m_sequential, p)' = PairsWith(Append(m_sequential, kv), 1, key)
    BY <1>1 DEF EntriesOf, PairsWith
  <2> HIDE DEF kv, key
  <2>3. /\ Cardinality(PairsWith(m_sequential, 1, key)) \in Nat
        /\ Cardinality(PairsWith(Append(m_sequential, kv), 1, key))
             = Cardinality(PairsWith(m_sequential, 1, key)) + (IF kv[1] = key THEN 1 ELSE 0)
    BY OneMorePair
  <2> QED
    BY <2>1, <2>2, <2>3 DEF key
<1>4. ASSUME ~refused, HashesDiffer, NEW p \in Opts
      PROVE  Store(p)'.count = Cardinality(EntriesOf(m_sequential, p)')
  <2>1. Store(p).count = Cardinality(EntriesOf(m_sequential, p))
    BY <1>4 DEF StoreInv
  <2>2. CASE p = o
    BY <1>1, <1>3, <2>1, <2>2
  <2>3. CASE p # o
    <3> Hash(p) # Hash(o) /\ Essential(p) # Essential(o)
      BY <1>4, <2>3, OptsAre DEF HashesDiffer, Opts
    <3> QED
      BY <1>1, <1>3, <2>1
  <2> QED
    BY <2>2, <2>3
<1>5. phase \in {"rest", "finish", "parsed"} => \A p \in Opts : Hash(p) \in DOMAIN m_parsed'
  BY <1>1 DEF StoreInv
<1> QED
  BY <1>2, <1>4, <1>5 DEF StoreInv

LEMMA PlacedIsOption ==
    ASSUME NameInv, PlaceInv, HasPlace
    PROVE  /\ Placed \in Opts
           /\ ToSet(Names(Placed)) \cap ToSet(m_positional) # {}
<1>1. Place \in 1..Len(m_positional) /\ m_positional[Place] \in DOMAIN m_options
  <2> Place \in 1..Len(m_positional) + 1 /\ Place <= Len(m_positional)
      /\ Len(m_positional) \in Nat
    BY PlaceBounds, OptionsAssumption DEF HasPlace
  <2> QED
    BY DEF HasPlace
<1>2. m_positional[Place] \in ToSet(m_positional)
  <2> DOMAIN m_positional = 1..Len(m_positional)
    BY OptionsAssumption
  <2> QED
    BY <1>1 DEF ToSet
<1>3. m_positional[Place] \in ToSet(Names(Placed))
  BY <1>1 DEF NameInv, Placed
<1> QED
  BY <1>1, <1>2, <1>3 DEF Placed, Opts, Range

LEMMA StoreStep ==
    ASSUME NameInv, PlaceInv, PlainInv, StoreInv, [Next]_vars
    PROVE  StoreInv'
<1>1. CASE AddOption
  BY <1>1, StoreAtFirst DEF AddOption, result, values, PlaceInv
<1>2. CASE ParseCall
  BY <1>2, StoreAtFirst DEF ParseCall, result, values, PlaceInv
<1>3. CASE OptionTaken
  <2>1. Take(opt, ValueText, FALSE) /\ opt \in Opts
    BY <1>3 DEF OptionTaken, parse_option, Known, opt, Opts, Range
  <2> QED
    BY <1>3, <2>1, TakeKeepsStore DEF OptionTaken, PlainInv, options
<1>4. ASSUME m_options' = m_options, refused' = refused, m_parsed' = m_parsed,
             m_sequential' = m_sequential,
             phase' \in {"rest", "finish", "parsed"} => phase \in {"rest", "finish", "parsed"}
      PROVE  StoreInv'
  BY <1>4 DEF StoreInv, HashesDiffer, Opts, Store, EntriesOf
<1>5. CASE OptionUnknown
  BY <1>4, <1>5 DEF OptionUnknown, options, values
<1>6. ASSUME ConsumePositional, UNCHANGED <<m_options, refused>>, phase' = phase
      PROVE  StoreInv'
  <2>1. CASE HasPlace /\ add_to_option(Placed, argv[current])
    <3> Placed \in Opts /\ Take(Placed, argv[current], TRUE)
      BY <2>1, PlacedIsOption DEF add_to_option
    <3> QED
      BY <1>6, TakeKeepsStore DEF PlainInv
  <2>2. CASE UNCHANGED values
    BY <1>4, <1>6, <2>2 DEF values
  <2> QED
    BY <1>6, <2>1, <2>2 DEF ConsumePositional
<1>7. CASE Positional
  BY <1>6, <1>7 DEF Positional, options
<1>8. CASE EndOfOptions
  BY <1>4, <1>8 DEF EndOfOptions, options, result, values
<1>9. CASE RunsPast
  BY <1>4, <1>9 DEF RunsPast, options, result, values
<1>10. ASSUME NEW o \in Range(m_options), Default(o) PROVE StoreInv'
  <2>1. /\ phase' = "defaults" /\ m_sequential' = m_sequential
        /\ m_options' = m_options /\ refused' = refused
        /\ Give(o, Storage(o).default, FALSE, Store(o).count, TRUE)
    BY <1>10 DEF Default, options
  <2>2. Store(o)'.count = Store(o).count /\ \A p : Hash(p) # Hash(o) => Store(p)' = Store(p)
    BY <2>1, DefaultChanges
  <2>3. Opts' = Opts /\ (HashesDiffer' <=> HashesDiffer)
    BY <2>1 DEF Opts, HashesDiffer
  <2>4. ASSUME ~refused, HashesDiffer, NEW p \in Opts
        PROVE  Store(p)'.count = Cardinality(EntriesOf(m_sequential, p)')
    <3>1. Store(p)'.count = Store(p).count
      <4>1. CASE p = o
        BY <2>2, <4>1
      <4>2. CASE p # o
        <5> Hash(p) # Hash(o)
          BY <2>4, <4>2 DEF HashesDiffer, Opts
        <5> QED
          BY <2>2
      <4> QED
        BY <4>1, <4>2
    <3> QED
      BY <2>1, <2>4, <3>1 DEF StoreInv, EntriesOf
  <2> QED
    BY <2>1, <2>3, <2>4 DEF StoreInv
<1>11. CASE EndOfDefaults
  <2>1. /\ m_sequential' = m_sequential /\ m_options' = m_options /\ refused' = refused
    BY <1>11 DEF EndOfDefaults, options
  <2>2. Opts' = Opts /\ (HashesDiffer' <=> HashesDiffer)
    BY <2>1 DEF Opts, HashesDiffer
  <2>3. /\ \A o : Store(o)' = Store(o)
        /\ \A o \in Opts : Hash(o) \in DOMAIN m_parsed'
    BY <1>11, EndChangesNothing
  <2> QED
    BY <2>1, <2>2, <2>3 DEF StoreInv, EntriesOf
<1>12. CASE Rest
  <2>1. CASE phase' = phase
    BY <1>4, <1>6, <1>12, <2>1 DEF Rest, options, values
  <2>2. CASE phase' # phase
    BY <1>4, <1>12, <2>2 DEF Rest, options, values
  <2> QED
    BY <2>1, <2>2
<1>13. CASE Finish
  BY <1>4, <1>13 DEF Finish, options, result, values
<1>14. CASE ParseThrows
  <2> phase' = "threw" /\ UNCHANGED <<options, m_parsed, m_sequential>>
    BY <1>14 DEF ParseThrows
  <2> QED
    BY DEF StoreInv, HashesDiffer, Opts, Store, EntriesOf, options
<1>15. CASE UNCHANGED vars
  BY <1>4, <1>15 DEF vars, options, result, values
<1> QED
  BY <1>1, <1>2, <1>3, <1>5, <1>7, <1>8, <1>9, <1>10, <1>11, <1>12, <1>13, <1>14, <1>15 DEF Next

\* Which defaults are listed: none before all arguments up to "--" are read; then
\* those of options without an argument, each once. An option that has both got
\* the argument after "--", as a positional one.
Visited == phase \in {"rest", "finish", "parsed"}
Listed(o) ==
    /\ \A i \in EntriesOf(m_defaults, o) : m_defaults[i] = DefaultListed(o)
    /\ \A i, j \in EntriesOf(m_defaults, o) : i = j
    /\ EntriesOf(m_defaults, o) = {} => Store(o).default = FALSE
    /\ EntriesOf(m_defaults, o) # {} => Store(o).default = TRUE
Due(o) ==
    /\ Visited /\ HasDefault(o) /\ Store(o).count = 0 => EntriesOf(m_defaults, o) # {}
    /\ Store(o).count > 0 /\ EntriesOf(m_defaults, o) # {} =>
         remaining /\ ToSet(Names(o)) \cap ToSet(m_positional) # {}
DefaultInv ==
    ~refused /\ HashesDiffer =>
        /\ IsSeq(m_defaults)
        /\ phase \in {"declare", "options"} => m_defaults = << >>
        /\ \A o \in Opts : Listed(o) /\ Due(o)

LEMMA DefaultAtFirst ==
    ASSUME m_parsed' = << >>, m_defaults' = << >>, phase' \in {"declare", "options"}
    PROVE  DefaultInv'
<1>1. IsSeq(<< >>)
  BY DEF IsSeq
<1>2. ASSUME NEW o
      PROVE  /\ EntriesOf(m_defaults, o)' = {} /\ Store(o)'.default = FALSE
             /\ Store(o)'.count = 0
  <2> DOMAIN << >> = {} /\ Len(<< >>) = 0
    OBVIOUS
  <2> QED
    BY DEF EntriesOf, Store, NewValue
<1> QED
  BY <1>1, <1>2 DEF DefaultInv, Listed, Due, Visited

\* An option's own default is listed when nothing else was said of it.
LEMMA DefaultIsListed ==
    ASSUME NameInv, StoreInv, DefaultInv, ~refused, HashesDiffer,
           NEW o \in Opts, Default(o), NEW p \in Opts
    PROVE  Listed(p)' /\ Due(p)' /\ IsSeq(m_defaults')
<1>1. /\ phase = "defaults" /\ phase' = "defaults" /\ NeedsDefault(o)
      /\ remaining' = remaining
      /\ m_defaults' = Append(m_defaults, DefaultListed(o)) /\ IsSeq(m_defaults)
      /\ Give(o, Storage(o).default, FALSE, Store(o).count, TRUE)
  BY DEF Default, DefaultInv
<1>2. /\ Store(o)'.count = Store(o).count /\ Store(o)'.default = TRUE
      /\ \A q : Hash(q) # Hash(o) => Store(q)' = Store(q)
  BY <1>1, DefaultChanges
<1> DEFINE n == Len(m_defaults)
<1>3. /\ n \in Nat /\ IsSeq(m_defaults') /\ Len(m_defaults') = n + 1
      /\ \A i \in 1..n : m_defaults'[i] = m_defaults[i]
      /\ m_defaults'[n + 1] = DefaultListed(o)
  BY <1>1, AppendIs
<1> HIDE DEF n
<1>4. Listed(p) /\ Due(p)
  BY DEF DefaultInv
<1>5. EntriesOf(m_defaults, p) \subseteq 1..n
  BY DEF EntriesOf, n
<1>6. CASE p = o
  <2>1. EntriesOf(m_defaults, o) = {} /\ Store(o).count = 0
    BY <1>1, <1>4, <1>6 DEF NeedsDefault, Listed
  <2>2. EntriesOf(m_defaults', o) = {n + 1}
    <3>1. \A i \in 1..n : m_defaults'[i][1] # Essential(o)
      BY <1>3, <2>1 DEF EntriesOf, n
    <3>2. m_defaults'[n + 1][1] = Essential(o)
      BY <1>3 DEF DefaultListed
    <3> QED
      BY <1>3, <3>1, <3>2 DEF EntriesOf
  <2>3. EntriesOf(m_defaults, p)' = {n + 1}
    BY <1>6, <2>2 DEF EntriesOf
  <2>4. Store(p)'.count = 0 /\ Store(p)'.default = TRUE
    BY <1>2, <1>6, <2>1
  <2> QED
    BY <1>1, <1>3, <1>6, <2>3, <2>4 DEF Listed, Due, Visited
<1>7. CASE p # o
  <2>1. Hash(p) # Hash(o) /\ Essential(p) # Essential(o)
    BY <1>7, OptsAre DEF HashesDiffer, Opts
  <2>2. Store(p)' = Store(p)
    BY <1>2, <2>1
  <2>3. EntriesOf(m_defaults', p) = EntriesOf(m_defaults, p)
    <3>1. m_defaults'[n + 1][1] # Essential(p)
      BY <1>3, <2>1 DEF DefaultListed
    <3> QED
      BY <1>3, <3>1 DEF EntriesOf, n
  <2>4. EntriesOf(m_defaults, p)' = EntriesOf(m_defaults, p)
    BY <2>3 DEF EntriesOf
  <2>5. \A i \in EntriesOf(m_defaults, p) : m_defaults'[i] = m_defaults[i]
    BY <1>3, <1>5
  <2> QED
    BY <1>1, <1>3, <1>4, <2>2, <2>4, <2>5 DEF Listed, Due, Visited
<1> QED
  BY <1>3, <1>6, <1>7

LEMMA DefaultStep ==
    ASSUME NameInv, PlaceInv, PlainInv, StoreInv, DefaultInv, [Next]_vars
    PROVE  DefaultInv'
<1>1. CASE AddOption
  BY <1>1, DefaultAtFirst DEF AddOption, result, values, PlaceInv
<1>2. CASE ParseCall
  BY <1>2, DefaultAtFirst DEF ParseCall, result, values, PlaceInv
\* An option takes a text of the arguments.
<1>3. ASSUME NEW o \in Opts, NEW text, NEW positional, Take(o, text, positional),
             UNCHANGED <<m_options, refused, m_defaults, remaining>>, phase' = phase,
             phase = "options" \/ (remaining /\ ToSet(Names(o)) \cap ToSet(m_positional) # {})
      PROVE  DefaultInv'
  <2>1. /\ Store(o)'.count = Store(o).count + 1 /\ Store(o)'.default = Store(o).default
        /\ \A p : Hash(p) # Hash(o) => Store(p)' = Store(p)
    BY <1>3, TakeChanges
  <2>2. Opts' = Opts /\ (HashesDiffer' <=> HashesDiffer)
    BY <1>3 DEF Opts, HashesDiffer
  <2>3. ASSUME ~refused, HashesDiffer, NEW p \in Opts
        PROVE  Listed(p)' /\ Due(p)'
    <3>1. Listed(p) /\ Due(p)
      BY <2>3 DEF DefaultInv
    <3>2. EntriesOf(m_defaults, p)' = EntriesOf(m_defaults, p)
      BY <1>3 DEF EntriesOf
    <3>3. CASE p = o
      <4>1. Store(o).count \in Nat
        <5>1. Store(o).count = Cardinality(PairsWith(m_sequential, 1, Essential(o)))
          BY <2>3 DEF StoreInv, EntriesOf, PairsWith
        <5> QED
          BY <5>1, OneMorePair DEF PlainInv
      <4>2. phase = "options" => EntriesOf(m_defaults, o) = {}
        <5> Len(<< >>) = 0
          OBVIOUS
        <5> QED
          BY <2>3 DEF DefaultInv, EntriesOf
      <4> QED
        BY <1>3, <2>1, <3>1, <3>2, <3>3, <4>1, <4>2 DEF Listed, Due, Visited
    <3>4. CASE p # o
      <4> Store(p)' = Store(p)
        BY <2>1, <2>3, <3>4 DEF HashesDiffer, Opts
      <4> QED
        BY <1>3, <3>1, <3>2 DEF Listed, Due, Visited
    <3> QED
      BY <3>3, <3>4
  <2> QED
    BY <1>3, <2>2, <2>3 DEF DefaultInv
<1>4. ASSUME UNCHANGED <<m_defaults, m_options, refused, m_parsed, remaining>>,
             phase' \in {"declare", "options"} => phase \in {"declare", "options"},
             Visited' => Visited
      PROVE  DefaultInv'
  BY <1>4 DEF DefaultInv, Listed, Due, EntriesOf, HashesDiffer, Opts, Store
<1>5. CASE OptionTaken
  <2>1. /\ Take(opt, ValueText, FALSE) /\ phase = "options" /\ phase' = phase
        /\ UNCHANGED <<m_options, refused, m_defaults, remaining>>
    BY <1>5 DEF OptionTaken, parse_option, options, InLoop
  <2>2. opt \in Opts
    BY <1>5 DEF OptionTaken, Known, opt, Opts, Range
  <2> QED
    BY <1>3, <2>1, <2>2
<1>6. CASE OptionUnknown
  BY <1>4, <1>6 DEF OptionUnknown, options, values, Visited
<1>7. ASSUME ConsumePositional, phase = "options" \/ remaining, phase' = phase,
             UNCHANGED <<m_options, refused, m_defaults, remaining>>
      PROVE  DefaultInv'
  <2>1. CASE HasPlace /\ add_to_option(Placed, argv[current])
    <3>1. /\ Placed \in Opts /\ ToSet(Names(Placed)) \cap ToSet(m_positional) # {}
          /\ Take(Placed, argv[current], TRUE)
      BY <2>1, PlacedIsOption DEF add_to_option
    <3> QED
      BY <1>3, <1>7, <3>1
  <2>2. CASE UNCHANGED values
    BY <1>4, <1>7, <2>2 DEF values, Visited
  <2> QED
    BY <1>7, <2>1, <2>2 DEF ConsumePositional
<1>8. CASE Positional
  BY <1>7, <1>8 DEF Positional, IsPositional, InLoop, options
<1>9. CASE EndOfOptions
  <2>1. /\ UNCHANGED <<m_defaults, m_options, refused, m_parsed>>
        /\ phase = "options" /\ phase' = "defaults"
    BY <1>9 DEF EndOfOptions, options, result, values
  <2>2. ASSUME ~refused, HashesDiffer, NEW o \in Opts PROVE Listed(o)' /\ Due(o)'
    <3>1. Listed(o) /\ m_defaults = << >>
      BY <2>1, <2>2 DEF DefaultInv
    <3>2. EntriesOf(m_defaults, o) = {}
      <4> Len(<< >>) = 0
        OBVIOUS
      <4> QED
        BY <3>1 DEF EntriesOf
    <3>3. EntriesOf(m_defaults, o)' = {} /\ Store(o)' = Store(o)
      BY <2>1, <3>2 DEF EntriesOf, Store
    <3> QED
      BY <2>1, <3>1, <3>2, <3>3 DEF Listed, Due, Visited
  <2>3. Opts' = Opts /\ (HashesDiffer' <=> HashesDiffer)
    BY <2>1 DEF Opts, HashesDiffer
  <2> QED
    BY <2>1, <2>2, <2>3 DEF DefaultInv
<1>10. ASSUME NEW o \in Range(m_options), Default(o) PROVE DefaultInv'
  <2>1. /\ phase' = "defaults" /\ m_options' = m_options /\ refused' = refused
    BY <1>10 DEF Default, options
  <2>2. Opts' = Opts /\ (HashesDiffer' <=> HashesDiffer) /\ o \in Opts
    BY <2>1 DEF Opts, HashesDiffer
  <2>3. ASSUME ~refused, HashesDiffer, NEW p \in Opts
        PROVE  Listed(p)' /\ Due(p)' /\ IsSeq(m_defaults')
    BY <1>10, <2>2, <2>3, DefaultIsListed
  <2>4. ~refused /\ HashesDiffer => IsSeq(m_defaults')
    BY <2>2, <2>3
  <2> QED
    BY <2>1, <2>2, <2>3, <2>4 DEF DefaultInv, IsSeq
<1>11. CASE EndOfDefaults
  <2>1. /\ UNCHANGED <<m_defaults, m_options, refused, remaining>>
        /\ phase = "defaults" /\ phase' \in {"rest", "finish"}
        /\ \A o \in Opts : ~NeedsDefault(o)
    BY <1>11 DEF EndOfDefaults, options, Opts
  <2>2. \A o : Store(o)' = Store(o)
    BY <1>11, EndChangesNothing
  <2>3. Opts' = Opts /\ (HashesDiffer' <=> HashesDiffer)
    BY <2>1 DEF Opts, HashesDiffer
  <2>4. ASSUME ~refused, HashesDiffer, NEW o \in Opts PROVE Listed(o)' /\ Due(o)'
    <3>1. Listed(o) /\ Due(o)
      BY <2>4 DEF DefaultInv
    <3>2. EntriesOf(m_defaults, o)' = EntriesOf(m_defaults, o) /\ Store(o)' = Store(o)
      BY <2>1, <2>2 DEF EntriesOf
    <3>3. HasDefault(o) /\ Store(o).count = 0 => EntriesOf(m_defaults, o) # {}
      BY <2>1, <3>1 DEF NeedsDefault, Listed
    <3> QED
      BY <2>1, <3>1, <3>2, <3>3 DEF Listed, Due
  <2> QED
    BY <2>1, <2>3, <2>4 DEF DefaultInv
<1>12. CASE Rest
  <2>1. /\ UNCHANGED <<m_defaults, m_options, refused, remaining>>
        /\ phase = "rest" /\ phase' \in {"rest", "finish"} /\ remaining
    BY <1>12 DEF Rest, options, PlaceInv
  <2>2. CASE UNCHANGED values
    BY <1>4, <2>1, <2>2 DEF Visited, values
  <2>3. CASE ConsumePositional /\ phase' = phase
    BY <1>7, <2>1, <2>3
  <2> QED
    BY <1>12, <2>2, <2>3 DEF Rest
<1>13. CASE Finish
  BY <1>4, <1>13 DEF Finish, options, result, values, Visited
<1>14. CASE ParseThrows
  BY <1>4, <1>14 DEF ParseThrows, options, Visited
<1>15. CASE RunsPast
  BY <1>4, <1>15 DEF RunsPast, options, result, values, Visited
<1>16. CASE UNCHANGED vars
  BY <1>4, <1>16 DEF vars, options, result, values, Visited
<1> QED
  BY <1>1, <1>2, <1>5, <1>6, <1>8, <1>9, <1>10, <1>11, <1>12, <1>13, <1>14, <1>15, <1>16 DEF Next

\* Under each of its names an option's own values are found.
KeysInv ==
    phase = "parsed" /\ ~refused => \A o \in Opts : \A n \in ToSet(Names(o)) :
        n \in DOMAIN m_keys /\ m_keys[n] = Hash(o)

LEMMA KeysStep ==
    ASSUME NameInv, KeysInv, [Next]_vars
    PROVE  KeysInv'
<1>1. CASE Finish
  <2> DEFINE names == UNION {Aliases(o) : o \in Range(m_options)}
  <2>1. /\ m_keys' \in [names -> {Hash(o) : o \in Range(m_options)}]
        /\ \A n \in names : \E o \in Range(m_options) : n \in Aliases(o) /\ m_keys'[n] = Hash(o)
        /\ UNCHANGED <<m_options, refused>>
    BY <1>1 DEF Finish, options
  <2>2. ASSUME ~refused, NEW o \in Opts, NEW n \in ToSet(Names(o))
        PROVE  n \in DOMAIN m_keys' /\ m_keys'[n] = Hash(o)
    <3>1. n \in Aliases(o) \ {NoName} /\ m_options[n] = o
      BY <2>2, OptsAre, NamesAre
    <3>2. n \in names
      BY <3>1 DEF Opts
    <3>3. PICK p \in Opts : n \in Aliases(p) /\ m_keys'[n] = Hash(p)
      BY <2>1, <3>2 DEF Opts
    <3>4. m_options[n] = p
      BY <2>2, <3>1, <3>3, OptsAre, NamesAre
    <3> QED
      BY <2>1, <3>1, <3>2, <3>3, <3>4
  <2>3. Opts' = Opts
    BY <2>1 DEF Opts
  <2> QED
    BY <2>1, <2>2, <2>3 DEF KeysInv
<1>2. CASE UNCHANGED vars
  BY <1>2 DEF vars, options, KeysInv, Opts
<1>3. CASE ~Finish /\ ~UNCHANGED vars
  <2> phase' # "parsed"
    BY <1>3 DEF Next, AddOption, ParseCall, OptionTaken, OptionUnknown, Positional,
                IsPositional, InLoop, EndOfOptions, RunsPast, Default, EndOfDefaults, Rest,
                ParseThrows
  <2> QED
    BY DEF KeysInv
<1> QED
  BY <1>1, <1>2, <1>3

\* The invariants together, which hold of every specification of Options.
IInv == PlaceInv /\ NameInv /\ PlainInv /\ StoreInv /\ DefaultInv /\ KeysInv

LEMMA IInvInit == Init => IInv
<1> SUFFICES ASSUME Init PROVE IInv
  OBVIOUS
<1>1. StoreInv
  <2>1. ASSUME NEW o PROVE Store(o) = NewValue /\ EntriesOf(m_sequential, o) = {}
    <3> DOMAIN << >> = {} /\ Len(<< >>) = 0
      OBVIOUS
    <3> QED
      BY DEF Init, Store, EntriesOf
  <2>2. Cardinality({}) = 0
    BY FS_EmptySet
  <2>3. ASSUME NEW o
        PROVE  Store(o).count = Cardinality(EntriesOf(m_sequential, o))
    <3> Store(o).count = 0
      BY <2>1 DEF NewValue
    <3> QED
      BY <2>1, <2>2
  <2> QED
    BY <2>3 DEF StoreInv, Init
<1>2. DefaultInv
  BY DEF Init, DefaultInv, IsSeq, Opts, Range
<1>3. KeysInv
  BY DEF Init, KeysInv
<1> QED
  BY <1>1, <1>2, <1>3, PlaceInit, NameInit, PlainInit DEF IInv

LEMMA IInvStep == IInv /\ [Next]_vars => IInv'
BY PlaceStep, NameStep, PlainStep, StoreStep, DefaultStep, KeysStep DEF IInv

\* What count() answers for a name of an option.
LEMMA CountIs ==
    ASSUME IInv, phase = "parsed", ~refused, HashesDiffer,
           NEW o \in Opts, NEW n \in ToSet(Names(o))
    PROVE  /\ count(n) = Store(o).count
           /\ as(n) = IF Store(o).m_value = << >> THEN << >>
                      ELSE Held(Head(Store(o).m_value), Store(o))
           /\ Store(o).count = Cardinality(EntriesOf(m_sequential, o))
           /\ Store(o).count \in Nat
           /\ Store(o).count = 0 <=> EntriesOf(m_sequential, o) = {}
<1>1. n \in DOMAIN m_keys /\ m_keys[n] = Hash(o) /\ Hash(o) \in DOMAIN m_parsed
  BY DEF IInv, KeysInv, StoreInv
<1>2. Store(o).count = Cardinality(EntriesOf(m_sequential, o))
  BY DEF IInv, StoreInv
<1>3. IsFiniteSet(EntriesOf(m_sequential, o))
  <2>1. Len(m_sequential) \in Nat
    BY DEF IInv, PlainInv, IsSeq
  <2>2. EntriesOf(m_sequential, o) \in SUBSET (1..Len(m_sequential))
    BY DEF EntriesOf
  <2> QED
    <3> IsFiniteSet(1..Len(m_sequential))
      BY <2>1, FS_Interval
    <3> QED
      BY <2>2, FS_Subset
<1> QED
  BY <1>1, <1>2, <1>3, FS_CardinalityType, FS_EmptySet DEF count, as, Store

\* A default is listed exactly for what nothing else was said of, once, unless
\* the arguments after "--" came too late: whatever the order in which the
\* options are visited, and under however many names they are stored.
THEOREM DefaultsListedOnce == Spec => []DefaultsOnce
<1>1. IInv => DefaultsOnce
  <2> SUFFICES ASSUME IInv, phase = "parsed", ~refused, HashesDiffer,
                      NEW o \in Range(m_options), HasDefault(o)
               PROVE  /\ \A i, j \in EntriesOf(defaults, o) : i = j
                      /\ count(Essential(o)) = 0 =>
                          \E i \in 1..Len(iteration) :
                            EntriesOf(iteration, o) = {i} /\ iteration[i] = DefaultListed(o)
                      /\ count(Essential(o)) > 0 /\ EntriesOf(defaults, o) # {} =>
                          remaining /\ ToSet(Names(o)) \cap ToSet(m_positional) # {}
    BY DEF DefaultsOnce
  <2>1. o \in Opts /\ Essential(o) \in ToSet(Names(o))
    BY OptsAre DEF Opts, IInv
  <2>2. /\ count(Essential(o)) = Store(o).count
        /\ Store(o).count = 0 <=> EntriesOf(m_sequential, o) = {}
    BY <2>1, CountIs
  <2>3. /\ \A i \in EntriesOf(m_defaults, o) : m_defaults[i] = DefaultListed(o)
        /\ \A i, j \in EntriesOf(m_defaults, o) : i = j
        /\ Store(o).count = 0 => EntriesOf(m_defaults, o) # {}
        /\ Store(o).count > 0 /\ EntriesOf(m_defaults, o) # {} =>
             remaining /\ ToSet(Names(o)) \cap ToSet(m_positional) # {}
    BY <2>1 DEF IInv, DefaultInv, Listed, Due, Visited
  <2>4. ASSUME Store(o).count = 0
        PROVE  \E i \in 1..Len(iteration) :
                 EntriesOf(iteration, o) = {i} /\ iteration[i] = DefaultListed(o)
    <3> DEFINE n == Len(m_sequential)
               m == Len(m_defaults)
    <3>1. /\ n \in Nat /\ m \in Nat /\ Len(iteration) = n + m
          /\ \A i \in 1..n : iteration[i] = m_sequential[i]
          /\ \A i \in 1..m : iteration[n + i] = m_defaults[i]
      <4> DEFINE S == ToSet(m_sequential) \cup ToSet(m_defaults)
      <4>1. m_sequential \in Seq(S) /\ m_defaults \in Seq(S)
        <5> IsSeq(m_sequential) /\ IsSeq(m_defaults)
          BY DEF IInv, PlainInv, DefaultInv
        <5> QED
          BY DEF IsSeq
      <4> HIDE DEF S
      <4> QED
        BY <4>1 DEF iteration
    <3>2. PICK k \in EntriesOf(m_defaults, o) : TRUE
      BY <2>3, <2>4
    <3>3. k \in 1..m /\ n + k \in 1..n + m /\ iteration[n + k] = DefaultListed(o)
      BY <2>3, <3>1 DEF EntriesOf
    <3>4. ASSUME NEW i \in 1..n + m
          PROVE  iteration[i][1] = Essential(o) <=> i = n + k
      <4>1. CASE i \in 1..n
        BY <2>2, <2>4, <3>1, <3>3, <4>1 DEF EntriesOf
      <4>2. CASE i \notin 1..n
        <5>1. i - n \in 1..m /\ n + (i - n) = i
          BY <3>1, <4>2
        <5>2. iteration[i] = m_defaults[i - n]
          BY <3>1, <5>1
        <5>3. m_defaults[i - n][1] = Essential(o) <=> i - n \in EntriesOf(m_defaults, o)
          BY <5>1 DEF EntriesOf
        <5>4. i - n \in EntriesOf(m_defaults, o) <=> i - n = k
          BY <2>3, <3>2
        <5> QED
          BY <3>1, <3>3, <5>1, <5>2, <5>3, <5>4
      <4> QED
        BY <4>1, <4>2
    <3>5. EntriesOf(iteration, o) = {n + k}
      BY <3>1, <3>3, <3>4 DEF EntriesOf
    <3> QED
      BY <3>1, <3>3, <3>5
  <2> QED
    BY <2>2, <2>3, <2>4 DEF defaults
<1> QED
  BY <1>1, IInvInit, IInvStep, PTL DEF Spec
-----------------------------------------------------------------------------
(* Texts and their parts: what the recursive functions compute             *)

\* The values that a step, a function of the place and of the value so far,
\* yields one after the other.
Computes(f, n, V, first, step) ==
    /\ f \in [0..n -> V] /\ f[0] = first
    /\ \A k \in 1..n : f[k] = step[k][f[k - 1]]

\* There is such a function, for every step.
LEMMA PrimitiveRecursion ==
    ASSUME NEW n \in Nat, NEW V, NEW first \in V, NEW step \in [1..n -> [V -> V]]
    PROVE  \E f : Computes(f, n, V, first, step)
<1> DEFINE T == {m \in Nat : m <= n => \E f : Computes(f, m, V, first, step)}
<1>1. 0 \in T
  <2> Computes([k \in 0..0 |-> first], 0, V, first, step)
    BY DEF Computes
  <2> QED
    BY Zenon
<1>2. ASSUME NEW m \in Nat, m \in T PROVE m + 1 \in T
  <2> SUFFICES ASSUME m + 1 <= n PROVE \E f : Computes(f, m + 1, V, first, step)
    OBVIOUS
  <2>1. PICK f : Computes(f, m, V, first, step)
    BY <1>2
  <2> DEFINE g == [k \in 0..m + 1 |-> IF k = m + 1 THEN step[m + 1][f[m]] ELSE f[k]]
  <2>2. m \in 0..m /\ m + 1 \in 1..n /\ f[m] \in V
    BY <2>1 DEF Computes
  <2>3. step[m + 1][f[m]] \in V
    BY <2>2
  <2>4. g \in [0..m + 1 -> V] /\ g[0] = first
    BY <2>1, <2>3 DEF Computes
  <2>5. ASSUME NEW k \in 1..m + 1 PROVE g[k] = step[k][g[k - 1]]
    <3>1. k - 1 \in 0..m /\ k - 1 # m + 1 /\ k \in 0..m + 1
      OBVIOUS
    <3>2. g[k - 1] = f[k - 1]
      BY <3>1
    <3>3. CASE k = m + 1
      <4>1. k - 1 = m /\ g[k] = step[m + 1][f[m]]
        BY <3>3
      <4> QED
        BY <3>2, <3>3, <4>1
    <3>4. CASE k # m + 1
      <4> k \in 1..m
        BY <3>4
      <4> QED
        BY <2>1, <3>1, <3>2, <3>4 DEF Computes
    <3> QED
      BY <3>3, <3>4
  <2>6. Computes(g, m + 1, V, first, step)
    BY <2>4, <2>5 DEF Computes
  <2> QED
    BY <2>6, Zenon
<1>3. n \in T
  <2> HIDE DEF T
  <2> QED
    BY <1>1, <1>2, SetInduction
<1> QED
  BY <1>3

LEMMA TextsUpToIs ==
    ASSUME NEW s, IsSeq(s), NEW o
    PROVE  /\ TextsUpTo(s, o)[0] = << >>
           /\ \A k \in 1..Len(s) : TextsUpTo(s, o)[k] =
                IF s[k][1] = Essential(o) THEN Append(TextsUpTo(s, o)[k - 1], s[k][2])
                ELSE TextsUpTo(s, o)[k - 1]
<1> DEFINE n == Len(s)
           S == {s[i][2] : i \in 1..n}
           V == Seq(S)
           step == [k \in 1..n |-> [v \in V |->
                      IF s[k][1] = Essential(o) THEN Append(v, s[k][2]) ELSE v]]
           Is(f) == f = [k \in 0..n |->
                          IF k = 0 THEN << >>
                          ELSE IF s[k][1] = Essential(o) THEN Append(f[k - 1], s[k][2])
                          ELSE f[k - 1]]
<1>1. n \in Nat
  BY DEF IsSeq
<1>2. << >> \in V
  <2> HIDE DEF S
  <2> QED
    OBVIOUS
<1>3. step \in [1..n -> [V -> V]]
  <2> SUFFICES ASSUME NEW k \in 1..n, NEW v \in V
               PROVE  (IF s[k][1] = Essential(o) THEN Append(v, s[k][2]) ELSE v) \in V
    OBVIOUS
  <2>1. s[k][2] \in S
    OBVIOUS
  <2> HIDE DEF S
  <2> QED
    BY <2>1
<1>4. \A k \in 1..n : \A v \in V : step[k][v] =
        IF s[k][1] = Essential(o) THEN Append(v, s[k][2]) ELSE v
  <2> HIDE DEF V
  <2> QED
    OBVIOUS
<1>5. PICK f \in [0..n -> V] :
        f[0] = << >> /\ \A k \in 1..n : f[k] = step[k][f[k - 1]]
  <2> DEFINE first == << >>
  <2>1. first \in V
    BY <1>2
  <2>2. \E f : Computes(f, n, V, first, step)
    <3> HIDE DEF step, V, n, first
    <3> QED
      BY <1>1, <1>3, <2>1, PrimitiveRecursion
  <2> QED
    BY <2>2 DEF Computes
<1>6. Is(f)
  <2> HIDE DEF step, V
  <2>1. \A k \in 1..n : f[k - 1] \in V
    BY <1>1, <1>5
  <2>2. ASSUME NEW k \in 0..n
        PROVE  f[k] = IF k = 0 THEN << >>
                      ELSE IF s[k][1] = Essential(o) THEN Append(f[k - 1], s[k][2])
                      ELSE f[k - 1]
    <3>1. CASE k = 0
      BY <1>5, <3>1
    <3>2. CASE k # 0
      <4> k \in 1..n
        BY <1>1, <3>2
      <4> QED
        BY <1>4, <1>5, <2>1, <3>2
    <3> QED
      BY <3>1, <3>2
  <2> QED
    BY <1>5, <2>2
<1>7. Is(TextsUpTo(s, o))
  <2>1. TextsUpTo(s, o) = CHOOSE g : Is(g)
    BY Zenon DEF TextsUpTo
  <2> HIDE DEF Is
  <2> QED
    BY <1>6, <2>1
<1>8. 0 \in 0..n /\ \A k \in 1..n : k \in 0..n /\ k # 0
  BY <1>1
<1> QED
  BY <1>7, <1>8

LEMMA SplitUpToIs ==
    ASSUME NEW s \in Seq(DOMAIN Items)
    PROVE  /\ SplitUpTo(s)[0] = << >>
           /\ \A k \in 1..Len(s) : SplitUpTo(s)[k] = SplitUpTo(s)[k - 1] \o Items[s[k]]
           /\ \A k \in 0..Len(s) : SplitUpTo(s)[k] \in Seq(DOMAIN Items)
<1> DEFINE n == Len(s)
           V == Seq(DOMAIN Items)
           step == [k \in 1..n |-> [v \in V |-> v \o Items[s[k]]]]
           Is(f) == f = [k \in 0..n |-> IF k = 0 THEN << >> ELSE f[k - 1] \o Items[s[k]]]
<1>1. n \in Nat /\ << >> \in V
  OBVIOUS
<1>2. \A k \in 1..n : Items[s[k]] \in V
  BY ItemsAssumption
<1>3. step \in [1..n -> [V -> V]]
  BY <1>2
<1>4. \A k \in 1..n : \A v \in V : step[k][v] = v \o Items[s[k]]
  <2> HIDE DEF V
  <2> QED
    OBVIOUS
<1>5. PICK f \in [0..n -> V] :
        f[0] = << >> /\ \A k \in 1..n : f[k] = step[k][f[k - 1]]
  <2> DEFINE first == << >>
  <2>1. first \in V
    BY <1>1
  <2>2. \E f : Computes(f, n, V, first, step)
    <3> HIDE DEF step, V, n, first
    <3> QED
      BY <1>1, <1>3, <2>1, PrimitiveRecursion
  <2> QED
    BY <2>2 DEF Computes
<1>6. Is(f)
  <2> HIDE DEF step, V
  <2>1. \A k \in 1..n : f[k - 1] \in V
    BY <1>1, <1>5
  <2>2. ASSUME NEW k \in 0..n
        PROVE  f[k] = IF k = 0 THEN << >> ELSE f[k - 1] \o Items[s[k]]
    <3>1. CASE k = 0
      BY <1>5, <3>1
    <3>2. CASE k # 0
      <4> k \in 1..n
        BY <1>1, <3>2
      <4> QED
        BY <1>4, <1>5, <2>1, <3>2
    <3> QED
      BY <3>1, <3>2
  <2> QED
    BY <1>5, <2>2
<1>7. Is(SplitUpTo(s))
  <2>1. SplitUpTo(s) = CHOOSE g : Is(g)
    BY Zenon DEF SplitUpTo
  <2> HIDE DEF Is
  <2> QED
    BY <1>6, <2>1
<1>8. 0 \in 0..n /\ \A k \in 1..n : k \in 0..n /\ k # 0
  BY <1>1
<1>9. /\ SplitUpTo(s)[0] = << >>
      /\ \A k \in 1..n : SplitUpTo(s)[k] = SplitUpTo(s)[k - 1] \o Items[s[k]]
  BY <1>7, <1>8
<1>10. \A k \in 0..n : SplitUpTo(s)[k] \in V
  <2> DEFINE T == {k \in Nat : k <= n => SplitUpTo(s)[k] \in V}
  <2>1. 0 \in T
    BY <1>1, <1>9
  <2>2. ASSUME NEW k \in Nat, k \in T PROVE k + 1 \in T
    <3> SUFFICES ASSUME k + 1 <= n PROVE SplitUpTo(s)[k + 1] \in V
      OBVIOUS
    <3>1. SplitUpTo(s)[k] \in V /\ k + 1 \in 1..n
      BY <1>1, <2>2
    <3>2. PICK j \in 1..n : j = k + 1
      BY <3>1
    <3>3. SplitUpTo(s)[j] = SplitUpTo(s)[j - 1] \o Items[s[j]]
      BY <1>9, Zenon
    <3>4. j - 1 = k
      BY <3>2
    <3>5. SplitUpTo(s)[j] \in V
      <4> HIDE DEF V
      <4>1. Items[s[j]] \in V /\ SplitUpTo(s)[j - 1] \in V
        BY <1>2, <3>1, <3>4
      <4> QED
        BY <3>3, <4>1 DEF V
    <3> QED
      BY <3>2, <3>5
  <2>3. Nat \subseteq T
    <3> HIDE DEF T
    <3> QED
      BY <2>1, <2>2, SetInduction
  <2> QED
    BY <1>1, <2>3
<1> QED
  BY <1>9, <1>10
\* The texts of an option in a sequence of pairs, and in one pair more.
LEMMA TextsAre ==
    ASSUME NEW s, IsSeq(s), NEW o, NEW S, \A i \in EntriesOf(s, o) : s[i][2] \in S
    PROVE  /\ TextsOf(s, o) \in Seq(S)
           /\ EntriesOf(s, o) = {} => TextsOf(s, o) = << >>
<1>1. Len(s) \in Nat
  BY DEF IsSeq
<1> DEFINE T == {k \in Nat : k <= Len(s) =>
                   /\ TextsUpTo(s, o)[k] \in Seq(S)
                   /\ EntriesOf(s, o) = {} => TextsUpTo(s, o)[k] = << >>}
<1>2. 0 \in T
  <2> << >> \in Seq(S) /\ TextsUpTo(s, o)[0] = << >>
    BY TextsUpToIs
  <2> QED
    OBVIOUS
<1>3. ASSUME NEW m \in Nat, m \in T PROVE m + 1 \in T
  <2> SUFFICES ASSUME m + 1 <= Len(s), NEW k \in 1..Len(s), k = m + 1
               PROVE  /\ TextsUpTo(s, o)[k] \in Seq(S)
                      /\ EntriesOf(s, o) = {} => TextsUpTo(s, o)[k] = << >>
    BY <1>1
  <2>1. TextsUpTo(s, o)[k] =
          IF s[k][1] = Essential(o) THEN Append(TextsUpTo(s, o)[k - 1], s[k][2])
          ELSE TextsUpTo(s, o)[k - 1]
    BY TextsUpToIs
  <2>2. k - 1 = m
    OBVIOUS
  <2>3. /\ TextsUpTo(s, o)[k - 1] \in Seq(S)
        /\ EntriesOf(s, o) = {} => TextsUpTo(s, o)[k - 1] = << >>
    BY <1>1, <1>3, <2>2
  <2>4. s[k][1] = Essential(o) => k \in EntriesOf(s, o) /\ s[k][2] \in S
    BY DEF EntriesOf
  <2> QED
    BY <2>1, <2>3, <2>4
<1>4. Nat \subseteq T
  <2> HIDE DEF T
  <2> QED
    BY <1>2, <1>3, SetInduction
<1> QED
  BY <1>1, <1>4 DEF TextsOf

LEMMA TextsOfMore ==
    ASSUME NEW s, IsSeq(s), NEW o, NEW x
    PROVE  TextsOf(Append(s, x), o) = IF x[1] = Essential(o) THEN Append(TextsOf(s, o), x[2])
                                      ELSE TextsOf(s, o)
<1> DEFINE t == Append(s, x)
           n == Len(s)
           T == {k \in Nat : k <= n => TextsUpTo(t, o)[k] = TextsUpTo(s, o)[k]}
<1>1. /\ n \in Nat /\ IsSeq(t) /\ Len(t) = n + 1
      /\ \A i \in 1..n : t[i] = s[i]
      /\ t[n + 1] = x
  BY AppendIs
<1> HIDE DEF t
<1>2. 0 \in T
  BY <1>1, TextsUpToIs
<1>3. ASSUME NEW m \in Nat, m \in T PROVE m + 1 \in T
  <2> SUFFICES ASSUME m + 1 <= n, NEW k \in 1..n, k = m + 1
               PROVE  TextsUpTo(t, o)[k] = TextsUpTo(s, o)[k]
    BY <1>1
  <2>1. k \in 1..Len(t) /\ t[k] = s[k]
    BY <1>1
  <2>2. TextsUpTo(t, o)[k] =
          IF t[k][1] = Essential(o) THEN Append(TextsUpTo(t, o)[k - 1], t[k][2])
          ELSE TextsUpTo(t, o)[k - 1]
    BY <1>1, <2>1, TextsUpToIs
  <2>3. TextsUpTo(s, o)[k] =
          IF s[k][1] = Essential(o) THEN Append(TextsUpTo(s, o)[k - 1], s[k][2])
          ELSE TextsUpTo(s, o)[k - 1]
    BY TextsUpToIs
  <2>4. TextsUpTo(t, o)[k - 1] = TextsUpTo(s, o)[k - 1]
    <3> k - 1 = m /\ m <= n
      BY <1>1
    <3> QED
      BY <1>3
  <2> QED
    BY <2>1, <2>2, <2>3, <2>4
<1>4. Nat \subseteq T
  <2> HIDE DEF T
  <2> QED
    BY <1>2, <1>3, SetInduction
<1>5. TextsUpTo(t, o)[n] = TextsUpTo(s, o)[n]
  BY <1>1, <1>4
<1>6. PICK k \in 1..Len(t) : k = n + 1
  BY <1>1
<1>7. TextsUpTo(t, o)[k] =
        IF t[k][1] = Essential(o) THEN Append(TextsUpTo(t, o)[k - 1], t[k][2])
        ELSE TextsUpTo(t, o)[k - 1]
  BY <1>1, TextsUpToIs
<1>8. k - 1 = n /\ t[k] = x /\ k = Len(t)
  BY <1>1, <1>6
<1>9. TextsOf(t, o) = TextsUpTo(t, o)[k] /\ TextsOf(s, o) = TextsUpTo(s, o)[n]
  BY <1>8 DEF TextsOf
<1> QED
  BY <1>5, <1>7, <1>8, <1>9 DEF t

\* The one text of an option that is there once.
LEMMA OneText ==
    ASSUME NEW s, IsSeq(s), NEW o, NEW i, EntriesOf(s, o) = {i}
    PROVE  TextsOf(s, o) = <<s[i][2]>>
<1>1. Len(s) \in Nat /\ i \in 1..Len(s) /\ s[i][1] = Essential(o)
  <2> i \in EntriesOf(s, o)
    OBVIOUS
  <2> QED
    BY DEF EntriesOf, IsSeq
<1> DEFINE T == {k \in Nat : k <= Len(s) =>
                   TextsUpTo(s, o)[k] = IF k < i THEN << >> ELSE <<s[i][2]>>}
<1>2. 0 \in T
  BY <1>1, TextsUpToIs
<1>3. ASSUME NEW m \in Nat, m \in T PROVE m + 1 \in T
  <2> SUFFICES ASSUME m + 1 <= Len(s), NEW k \in 1..Len(s), k = m + 1
               PROVE  TextsUpTo(s, o)[k] = IF k < i THEN << >> ELSE <<s[i][2]>>
    BY <1>1
  <2>1. TextsUpTo(s, o)[k] =
          IF s[k][1] = Essential(o) THEN Append(TextsUpTo(s, o)[k - 1], s[k][2])
          ELSE TextsUpTo(s, o)[k - 1]
    BY TextsUpToIs
  <2>2. TextsUpTo(s, o)[k - 1] = IF m < i THEN << >> ELSE <<s[i][2]>>
    <3> k - 1 = m
      OBVIOUS
    <3> QED
      BY <1>1, <1>3
  <2>3. s[k][1] = Essential(o) <=> k = i
    BY <1>1 DEF EntriesOf
  <2>4. CASE k = i
    <3> TextsUpTo(s, o)[k - 1] = << >> /\ ~(k < i)
      BY <1>1, <2>2, <2>4
    <3> QED
      BY <2>1, <2>3, <2>4
  <2>5. CASE k # i
    <3> m < i <=> k < i
      BY <1>1, <2>5
    <3> QED
      BY <2>1, <2>2, <2>3, <2>5
  <2> QED
    BY <2>4, <2>5
<1>4. Nat \subseteq T
  <2> HIDE DEF T
  <2> QED
    BY <1>2, <1>3, SetInduction
<1> QED
  BY <1>1, <1>4 DEF TextsOf
\* The parts of no texts, of one text more, and of parts.
LEMMA PartsOfNone == Split(<< >>) = << >>
<1>1. << >> \in Seq(DOMAIN Items) /\ Len(<< >>) = 0
  OBVIOUS
<1> QED
  BY <1>1, SplitUpToIs DEF Split

LEMMA PartsAre ==
    ASSUME NEW s \in Seq(DOMAIN Items)
    PROVE  Split(s) \in Seq(DOMAIN Items)
<1> Len(s) \in 0..Len(s)
  OBVIOUS
<1> QED
  BY SplitUpToIs DEF Split

\* What has been split of a sequence does not depend on what follows.
LEMMA PartsOfStart ==
    ASSUME NEW s \in Seq(DOMAIN Items), NEW t \in Seq(DOMAIN Items), Len(s) <= Len(t),
           \A i \in 1..Len(s) : t[i] = s[i]
    PROVE  SplitUpTo(t)[Len(s)] = Split(s)
<1> DEFINE n == Len(s)
           T == {k \in Nat : k <= n => SplitUpTo(t)[k] = SplitUpTo(s)[k]}
<1>1. n \in Nat /\ Len(t) \in Nat
  OBVIOUS
<1>2. 0 \in T
  BY SplitUpToIs
<1>3. ASSUME NEW m \in Nat, m \in T PROVE m + 1 \in T
  <2> SUFFICES ASSUME m + 1 <= n, NEW k \in 1..n, k = m + 1
               PROVE  SplitUpTo(t)[k] = SplitUpTo(s)[k]
    BY <1>1
  <2>1. k \in 1..Len(t) /\ t[k] = s[k]
    BY <1>1
  <2>2. SplitUpTo(t)[k] = SplitUpTo(t)[k - 1] \o Items[t[k]]
    BY <2>1, SplitUpToIs
  <2>3. SplitUpTo(s)[k] = SplitUpTo(s)[k - 1] \o Items[s[k]]
    BY SplitUpToIs
  <2>4. SplitUpTo(t)[k - 1] = SplitUpTo(s)[k - 1]
    <3> k - 1 = m /\ m <= n
      BY <1>1
    <3> QED
      BY <1>3
  <2> QED
    BY <2>1, <2>2, <2>3, <2>4
<1>4. Nat \subseteq T
  <2> HIDE DEF T
  <2> QED
    BY <1>2, <1>3, SetInduction
<1> QED
  BY <1>1, <1>4 DEF Split

LEMMA PartsOfMore ==
    ASSUME NEW s \in Seq(DOMAIN Items), NEW text \in DOMAIN Items
    PROVE  Split(Append(s, text)) = Split(s) \o Items[text]
<1> DEFINE t == Append(s, text)
<1>1. /\ t \in Seq(DOMAIN Items) /\ Len(s) \in Nat /\ Len(t) = Len(s) + 1
      /\ \A i \in 1..Len(s) : t[i] = s[i]
      /\ t[Len(s) + 1] = text
  OBVIOUS
<1> HIDE DEF t
<1>2. SplitUpTo(t)[Len(s)] = Split(s)
  BY <1>1, PartsOfStart
<1>3. PICK k \in 1..Len(t) : k = Len(s) + 1
  BY <1>1
<1>4. SplitUpTo(t)[k] = SplitUpTo(t)[k - 1] \o Items[t[k]]
  BY <1>1, SplitUpToIs
<1>5. k - 1 = Len(s) /\ t[k] = text /\ k = Len(t)
  BY <1>1, <1>3
<1> QED
  BY <1>2, <1>4, <1>5 DEF Split, t

LEMMA AppendOne ==
    ASSUME NEW S, NEW a \in Seq(S), NEW x \in S
    PROVE  a \o <<x>> = Append(a, x)
<1>1. Append(a, x) \in Seq(S) /\ Len(Append(a, x)) = Len(a) + 1
  OBVIOUS
<1>2. a \o <<x>> \in Seq(S) /\ Len(a \o <<x>>) = Len(a) + 1
  BY ConcatProperties
<1>3. \A i \in 1..Len(a) + 1 : (a \o <<x>>)[i] = Append(a, x)[i]
  OBVIOUS
<1> QED
  BY <1>1, <1>2, <1>3, SeqEqual

LEMMA AppendLast ==
    ASSUME NEW S, NEW a \in Seq(S), NEW b \in Seq(S), NEW x \in S
    PROVE  /\ a \o b \in Seq(S) /\ Append(b, x) \in Seq(S)
           /\ a \o Append(b, x) = Append(a \o b, x)
<1> DEFINE c == a \o b
<1>1. c \in Seq(S) /\ <<x>> \in Seq(S)
  OBVIOUS
<1>2. c \o <<x>> = a \o (b \o <<x>>)
  BY <1>1, ConcatAssociative
<1>3. b \o <<x>> = Append(b, x)
  BY AppendOne
<1>4. c \o <<x>> = Append(c, x)
  <2> HIDE DEF c
  <2> QED
    BY <1>1, AppendOne
<1> QED
  BY <1>1, <1>2, <1>3, <1>4

LEMMA PartsOfPart ==
    ASSUME NEW s \in Seq(DOMAIN Items), NEW text \in DOMAIN Items, Items[text] = <<text>>
    PROVE  Split(Append(s, text)) = Append(Split(s), text)
<1> DEFINE a == Split(s)
<1>1. a \in Seq(DOMAIN Items)
  BY PartsAre
<1>2. Split(Append(s, text)) = a \o <<text>>
  BY PartsOfMore
<1>3. a \o <<text>> = Append(a, text)
  <2> HIDE DEF a
  <2> QED
    BY <1>1, AppendOne
<1> QED
  BY <1>2, <1>3

LEMMA PartsOfParts ==
    ASSUME NEW s \in Seq(DOMAIN Items), NEW parts \in Seq(DOMAIN Items),
           \A i \in 1..Len(parts) : Items[parts[i]] = <<parts[i]>>
    PROVE  Split(s \o parts) = Split(s) \o parts
<1> DEFINE n == Len(parts)
           First(k) == SubSeq(parts, 1, k)
           T == {k \in Nat : k <= n => Split(s \o First(k)) = Split(s) \o First(k)}
<1>1. n \in Nat /\ Split(s) \in Seq(DOMAIN Items)
  BY PartsAre
<1>2. 0 \in T
  <2>1. First(0) = << >>
    OBVIOUS
  <2>2. s \o << >> = s /\ Split(s) \o << >> = Split(s)
    BY <1>1
  <2> QED
    BY <2>1, <2>2
<1>3. ASSUME NEW m \in Nat, m \in T PROVE m + 1 \in T
  <2> SUFFICES ASSUME m + 1 <= n
               PROVE  Split(s \o First(m + 1)) = Split(s) \o First(m + 1)
    OBVIOUS
  <2>1. /\ m + 1 \in 1..n /\ m <= n
        /\ parts[m + 1] \in DOMAIN Items /\ Items[parts[m + 1]] = <<parts[m + 1]>>
    BY <1>1
  <2>2. First(m) \in Seq(DOMAIN Items) /\ First(m + 1) = Append(First(m), parts[m + 1])
    BY <2>1
  <2>3. Split(s \o First(m)) = Split(s) \o First(m)
    BY <1>3, <2>1
  <2> DEFINE sofar == s \o First(m)
             text == parts[m + 1]
             first == First(m)
  <2>4. sofar \in Seq(DOMAIN Items) /\ s \o Append(first, text) = Append(sofar, text)
    BY <2>1, <2>2, AppendLast
  <2>5. Split(Append(sofar, text)) = Append(Split(sofar), text)
    BY <2>1, <2>4, PartsOfPart
  <2>6. Split(s) \o Append(first, text) = Append(Split(s) \o first, text)
    BY <1>1, <2>1, <2>2, AppendLast
  <2>7. Split(sofar) = Split(s) \o first
    BY <2>3
  <2>8. First(m + 1) = Append(first, text)
    BY <2>2
  <2> HIDE DEF sofar, first, text, First
  <2> QED
    BY <2>4, <2>5, <2>6, <2>7, <2>8
<1>4. Nat \subseteq T
  <2> HIDE DEF T
  <2> QED
    BY <1>2, <1>3, SetInduction
<1>5. Split(s \o First(n)) = Split(s) \o First(n)
  <2> n \in T /\ n <= n
    BY <1>1, <1>4
  <2> QED
    OBVIOUS
<1>6. First(n) = parts
  OBVIOUS
<1> QED
  BY <1>5, <1>6

-----------------------------------------------------------------------------
(* Every name of an option tells the same story                            *)

\* What an option holds after these texts; of one that is no list nothing is
\* said before the first.
Tells(o, value, texts) ==
    IF o.container THEN value \in Seq(DOMAIN Items) /\ Split(value) = Split(texts)
    ELSE texts # << >> => value = <<Last(texts)>>

\* One text more.
LEMMA TellsMore ==
    ASSUME NEW o, NEW value, NEW texts \in Seq(DOMAIN Items), Tells(o, value, texts),
           NEW text \in DOMAIN Items, NEW positional \in BOOLEAN
    PROVE  Tells(o, Holds(o, value, text, positional), Append(texts, text))
<1>1. CASE ~o.container
  <2>1. /\ Append(texts, text) # << >> /\ Last(Append(texts, text)) = text
    BY DEF Last
  <2> QED
    BY <1>1, <2>1 DEF Tells, Holds
<1>2. CASE o.container
  <2>1. value \in Seq(DOMAIN Items) /\ Split(value) = Split(texts)
    BY <1>2 DEF Tells
  <2>2. Split(Append(texts, text)) = Split(texts) \o Items[text]
    BY PartsOfMore
  <2>3. CASE positional
    <3>1. Holds(o, value, text, positional) = value \o <<text>>
      BY <1>2, <2>3 DEF Holds, Parts
    <3>2. value \o <<text>> = Append(value, text)
      BY <2>1, AppendOne
    <3>3. Append(value, text) \in Seq(DOMAIN Items)
      BY <2>1
    <3>4. Split(Append(value, text)) = Split(value) \o Items[text]
      BY <2>1, PartsOfMore
    <3> QED
      BY <1>2, <2>1, <2>2, <3>1, <3>2, <3>3, <3>4 DEF Tells
  <2>4. CASE ~positional
    <3>1. Holds(o, value, text, positional) = value \o Items[text]
      BY <1>2, <2>4 DEF Holds, Parts
    <3>2. /\ Items[text] \in Seq(DOMAIN Items)
          /\ \A i \in 1..Len(Items[text]) : Items[Items[text][i]] = <<Items[text][i]>>
      BY ItemsAssumption
    <3>3. value \o Items[text] \in Seq(DOMAIN Items)
      BY <2>1, <3>2, ConcatProperties
    <3>4. Split(value \o Items[text]) = Split(value) \o Items[text]
      BY <2>1, <3>2, PartsOfParts
    <3> QED
      BY <1>2, <2>1, <2>2, <3>1, <3>3, <3>4 DEF Tells
  <2> QED
    BY <2>3, <2>4
<1> QED
  BY <1>1, <1>2

\* What the texts of an option have made of its value: it is made by the first.
Story(o) == TextsOf(m_defaults, o) \o TextsOf(m_sequential, o)
Told(o) ==
    /\ TextsOf(m_defaults, o) \in Seq(DOMAIN Items)
    /\ TextsOf(m_sequential, o) \in Seq(DOMAIN Items)
    /\ Store(o).m_value = IF Story(o) = << >> THEN << >> ELSE <<o>>
    /\ Alone(o) => Tells(o, Held(o, Store(o)), Start(o) \o Story(o))
ValueInv == phase # "threw" /\ ~refused /\ HashesDiffer => \A o \in Opts : Told(o)

LEMMA NothingTold ==
    ASSUME NEW o
    PROVE  TextsOf(<< >>, o) = << >> /\ << >> \in Seq(DOMAIN Items) /\ << >> \o << >> = << >>
<1>1. IsSeq(<< >>) /\ EntriesOf(<< >>, o) = {}
  <2> Len(<< >>) = 0 /\ << >> \in Seq(ToSet(<< >>))
    OBVIOUS
  <2> QED
    BY DEF IsSeq, EntriesOf
<1>2. TextsOf(<< >>, o) = << >>
  <2> DEFINE s == << >>
  <2>1. IsSeq(s) /\ EntriesOf(s, o) = {}
    BY <1>1
  <2> HIDE DEF s
  <2>2. TextsOf(s, o) = << >>
    BY <2>1, TextsAre
  <2> QED
    BY <2>2 DEF s
<1> QED
  BY <1>2

\* What a list starts from.
LEMMA StartIs ==
    ASSUME PlaceInv, NEW o, Named(o)
    PROVE  /\ Start(o) \in Seq(DOMAIN Items)
           /\ ~o.container => Start(o) = << >>
           /\ Own(o) \/ o.variable \in DOMAIN bound
<1>1. o.variable \in Variables \cup {NoName}
  BY DEF Named, Stored
<1>2. before \in [Variables -> Seq(DOMAIN Items)] /\ DOMAIN bound = Variables
  BY OptionsAssumption DEF PlaceInv, TypeOK
<1>3. Own(o) \/ o.variable \in DOMAIN bound
  BY <1>1, <1>2 DEF Own
<1>4. CASE Own(o) \/ ~o.container
  <2> Start(o) = << >> /\ << >> \in Seq(DOMAIN Items)
    BY <1>4 DEF Start
  <2> QED
    BY <1>3
<1>5. CASE ~(Own(o) \/ ~o.container)
  <2>1. Start(o) = before[o.variable]
    BY <1>5 DEF Start
  <2>2. o.variable \in Variables
    BY <1>2, <1>3, <1>5
  <2> QED
    BY <1>2, <1>3, <1>5, <2>1, <2>2
<1> QED
  BY <1>4, <1>5

LEMMA ValueAtFirst ==
    PlaceInv /\ NameInv /\ m_parsed = << >> /\ m_sequential = << >> /\ m_defaults = << >>
      /\ bound = before => ValueInv
<1> SUFFICES ASSUME PlaceInv, NameInv, m_parsed = << >>, m_sequential = << >>,
                    m_defaults = << >>, bound = before, NEW o \in Opts
             PROVE  Told(o)
  BY DEF ValueInv
<1>1. Named(o)
  BY OptsAre
<1>2. Store(o) = NewValue
  <2> DOMAIN << >> = {}
    OBVIOUS
  <2> QED
    BY DEF Store
<1>3. Store(o).m_value = << >> /\ Store(o).m_result = << >>
  BY <1>2 DEF NewValue
<1>4. /\ TextsOf(m_defaults, o) = << >> /\ TextsOf(m_sequential, o) = << >>
      /\ Story(o) = << >> /\ << >> \in Seq(DOMAIN Items)
  BY NothingTold DEF Story
<1> DEFINE start == Start(o)
<1>5. /\ start \in Seq(DOMAIN Items)
      /\ start \o << >> = start
      /\ ~o.container => start = << >>
  BY <1>1, StartIs
<1>6. o.container => Held(o, Store(o)) = start
  BY <1>3 DEF Held, Start
<1>7. Tells(o, Held(o, Store(o)), start \o << >>)
  <2> HIDE DEF start
  <2> QED
    BY <1>5, <1>6 DEF Tells
<1> QED
  BY <1>3, <1>4, <1>7 DEF Told

\* What an option is given is stored where it looks for it, and only there.
LEMMA GiveStores ==
    ASSUME NEW o, NEW text, NEW positional, NEW n, NEW default,
           Give(o, text, positional, n, default), Storage(o) = o,
           Own(o) \/ o.variable \in DOMAIN bound
    PROVE  /\ Held(o, Store(o))' = Holds(o, Held(o, Store(o)), text, positional)
           /\ \A p : /\ Hash(p) # Hash(o) /\ (Own(p) \/ p.variable \in DOMAIN bound)
                     /\ Own(p) \/ p.variable # o.variable
                     => Held(p, Store(p))' = Held(p, Store(p))
<1> DEFINE held == Holds(o, Held(o, Store(o)), text, positional)
<1>1. /\ Own(o) => Store(o)'.m_result = held
      /\ \A p : Hash(p) # Hash(o) => Store(p)' = Store(p)
  BY GiveChanges
<1>2. bound' = IF Own(o) THEN bound ELSE [bound EXCEPT ![o.variable] = held]
  BY DEF Give
<1> HIDE DEF held
<1>3. Held(o, Store(o))' = held
  BY <1>1, <1>2 DEF Held
<1>4. ASSUME NEW p, Hash(p) # Hash(o), Own(p) \/ p.variable \in DOMAIN bound,
             Own(p) \/ p.variable # o.variable
      PROVE  Held(p, Store(p))' = Held(p, Store(p))
  <2>1. Store(p)' = Store(p)
    BY <1>1, <1>4
  <2>2. CASE Own(p)
    BY <2>1, <2>2 DEF Held
  <2>3. CASE ~Own(p)
    <3> bound'[p.variable] = bound[p.variable]
      BY <1>2, <1>4, <2>3
    <3> QED
      BY <2>3 DEF Held
  <2> QED
    BY <2>2, <2>3
<1> QED
  BY <1>3, <1>4 DEF held

\* An option takes a text, of an argument or its default.
LEMMA GiveKeepsValue ==
    ASSUME PlaceInv, NameInv, ValueInv, IsSeq(m_sequential), IsSeq(m_defaults),
           phase # "threw", ~refused, HashesDiffer, NEW o \in Opts, NEW p \in Opts,
           NEW text \in DOMAIN Items, NEW positional \in BOOLEAN, NEW n, NEW default,
           Give(o, text, positional, n, default), UNCHANGED <<m_options, before>>,
           \/ /\ m_sequential' = Append(m_sequential, <<Essential(o), text>>)
              /\ m_defaults' = m_defaults
           \/ /\ m_defaults' = Append(m_defaults, <<Essential(o), text>>)
              /\ m_sequential' = m_sequential
              /\ TextsOf(m_sequential, o) = << >>
    PROVE  Told(p)'
<1>1. Told(o) /\ Told(p) /\ Named(o) /\ Named(p)
  BY OptsAre DEF ValueInv
<1>2. Storage(o) = o
  <2> Head(<<o>>) = o /\ <<o>> # << >>
    OBVIOUS
  <2> QED
    BY <1>1 DEF Told, Storage
<1>3. /\ Store(o)'.m_value = <<o>>
      /\ \A q : Hash(q) # Hash(o) => Store(q)' = Store(q)
  BY <1>2, GiveChanges
<1>4. /\ Own(o) \/ o.variable \in DOMAIN bound
      /\ Own(p) \/ p.variable \in DOMAIN bound
      /\ Start(o) \in Seq(DOMAIN Items)
  BY <1>1, StartIs
<1>5. /\ Held(o, Store(o))' = Holds(o, Held(o, Store(o)), text, positional)
      /\ Hash(p) # Hash(o) /\ (Own(p) \/ p.variable # o.variable) =>
           Held(p, Store(p))' = Held(p, Store(p))
  BY <1>2, <1>4, GiveStores
<1>6. Start(p)' = Start(p) /\ (Alone(p)' <=> Alone(p))
  BY DEF Start, Alone
<1>7. ASSUME NEW s, IsSeq(s)
      PROVE  TextsOf(Append(s, <<Essential(o), text>>), p) =
               IF Essential(o) = Essential(p) THEN Append(TextsOf(s, p), text) ELSE TextsOf(s, p)
  <2> DEFINE kv == <<Essential(o), text>>
  <2>1. kv[1] = Essential(o) /\ kv[2] = text
    OBVIOUS
  <2> HIDE DEF kv
  <2>2. TextsOf(Append(s, kv), p) =
          IF kv[1] = Essential(p) THEN Append(TextsOf(s, p), kv[2]) ELSE TextsOf(s, p)
    BY <1>7, TextsOfMore
  <2> QED
    BY <2>1, <2>2 DEF kv
<1>8. CASE p = o
  <2> DEFINE a == TextsOf(m_defaults, o)
             b == TextsOf(m_sequential, o)
             a2 == TextsOf(m_defaults', o)
             b2 == TextsOf(m_sequential', o)
             start == Start(o)
             value == Held(o, Store(o))
  <2>1. a \in Seq(DOMAIN Items) /\ b \in Seq(DOMAIN Items)
    BY <1>1 DEF Told
  <2>2. \/ a2 = a /\ b2 = Append(b, text)
        \/ a2 = Append(a, text) /\ b2 = b /\ b = << >>
    BY <1>7, <1>8
  <2>3. start \in Seq(DOMAIN Items) /\ (Alone(o) => Tells(o, value, start \o (a \o b)))
    BY <1>1, <1>4 DEF Told, Story
  <2>4. Held(o, Store(o))' = Holds(o, value, text, positional)
    BY <1>5
  <2>5. TextsOf(m_defaults, o)' = a2 /\ TextsOf(m_sequential, o)' = b2 /\ Story(o)' = a2 \o b2
    BY DEF Story
  <2> HIDE DEF a, b, a2, b2, start, value
  <2>6. /\ a2 \in Seq(DOMAIN Items) /\ b2 \in Seq(DOMAIN Items)
        /\ a \o b \in Seq(DOMAIN Items) /\ a2 \o b2 = Append(a \o b, text)
    <3>1. CASE a2 = a /\ b2 = Append(b, text)
      BY <2>1, <3>1, AppendLast
    <3>2. CASE a2 = Append(a, text) /\ b2 = b /\ b = << >>
      <4>1. Append(a, text) \in Seq(DOMAIN Items) /\ a \o b = a
        BY <2>1, <3>2
      <4>2. a2 \o b2 = Append(a, text)
        BY <3>2, <4>1
      <4> QED
        BY <2>1, <3>2, <4>1, <4>2
    <3> QED
      BY <2>2, <3>1, <3>2
  <2> DEFINE texts == a \o b
  <2>7. texts \in Seq(DOMAIN Items) /\ a2 \o b2 = Append(texts, text)
    BY <2>6
  <2> HIDE DEF texts
  <2>8. /\ start \o texts \in Seq(DOMAIN Items)
        /\ start \o Append(texts, text) = Append(start \o texts, text)
    <3>1. start \in Seq(DOMAIN Items) /\ texts \in Seq(DOMAIN Items)
      BY <2>3, <2>7
    <3> QED
      BY <3>1, AppendLast
  <2>9. Alone(o) => Tells(o, Holds(o, value, text, positional), Append(start \o texts, text))
    <3> DEFINE all == start \o texts
    <3>1. all \in Seq(DOMAIN Items) /\ (Alone(o) => Tells(o, value, all))
      BY <2>3, <2>8 DEF texts
    <3> HIDE DEF all
    <3>2. Alone(o) => Tells(o, Holds(o, value, text, positional), Append(all, text))
      BY <3>1, TellsMore
    <3> QED
      BY <3>2 DEF all
  <2>10. Append(texts, text) # << >>
    BY <2>7
  <2>11. Start(o)' = start /\ (Alone(o)' <=> Alone(o))
    BY <1>6, <1>8 DEF start
  <2> QED
    BY <1>3, <1>8, <2>4, <2>5, <2>6, <2>7, <2>8, <2>9, <2>10, <2>11 DEF Told
<1>9. CASE p # o
  <2>1. Hash(p) # Hash(o) /\ Essential(p) # Essential(o)
    BY <1>9, OptsAre DEF HashesDiffer, Opts
  <2>2. TextsOf(m_defaults, p)' = TextsOf(m_defaults, p)
        /\ TextsOf(m_sequential, p)' = TextsOf(m_sequential, p)
    BY <1>7, <2>1
  <2>3. Store(p)' = Store(p) /\ Story(p)' = Story(p)
    BY <1>3, <2>1, <2>2 DEF Story
  <2>4. Alone(p) => Held(p, Store(p))' = Held(p, Store(p))
    <3> Alone(p) => Own(p) \/ p.variable # o.variable
      BY <1>9 DEF Alone, Opts
    <3> QED
      BY <1>5, <2>1
  <2> QED
    BY <1>1, <1>6, <2>2, <2>3, <2>4 DEF Told
<1> QED
  BY <1>8, <1>9

\* Every text an option is given has parts.
LEMMA TextIsListed ==
    ASSUME PlaceInv, NameInv, InLoop, IsOption, Known, ValueText # NoText
    PROVE  ValueText \in DOMAIN Items /\ opt \in Opts
<1>1. /\ current \in 1..Len(argv) /\ argv \in Seq(Texts) /\ argv[current] \in Texts
      /\ argc = Len(argv) + 1
  BY AtHand DEF PlaceInv, TypeOK
<1>2. Named(opt) /\ opt \in Opts
  BY DEF NameInv, Known, opt, Opts, Range
<1>3. CASE d.kind = "long" /\ d.set_value
  <2>1. ValueText = d.value
    BY <1>3 DEF ValueText
  <2>2. d.value \in DOMAIN Items
    BY <1>1, <1>3, ItemsAssumption DEF d
  <2> QED
    BY <1>2, <2>1, <2>2
<1>4. CASE ~(d.kind = "long" /\ d.set_value) /\ HasImplicit(opt)
  BY <1>2, <1>4 DEF ValueText, Named, Stored, HasImplicit
<1>5. CASE ~(d.kind = "long" /\ d.set_value) /\ ~HasImplicit(opt) /\ ~lastLetter
  <2>1. d.kind = "group" /\ letter # Len(d.group)
    BY <1>5 DEF IsOption, lastLetter
  <2>2. d.group \in Seq(STRING) \ {<< >>}
    BY <1>1, <2>1, OptionsAssumption DEF d
  <2>3. letter \in Nat \ {0} /\ (letter <= Len(d.group) \/ letter = 1)
    BY DEF PlaceInv, TypeOK
  <2>4. letter + 1 \in 2..Len(d.group)
    BY <2>1, <2>2, <2>3 DEF PlaceInv, TypeOK
  <2> QED
    BY <1>1, <1>2, <1>5, <2>1, <2>4, ItemsAssumption DEF ValueText, d
<1>6. CASE ~(d.kind = "long" /\ d.set_value) /\ ~HasImplicit(opt) /\ lastLetter
  <2>1. ~HasImplicit(opt) /\ lastLetter /\ ~(d.kind = "long" /\ d.set_value)
    BY <1>6
  <2>2. current < Len(argv) /\ ValueText = argv[current + 1]
    BY <2>1, NextIsThere DEF TakesNext
  <2>3. argv[current + 1] \in Texts
    BY <1>1, <2>2
  <2> QED
    BY <1>2, <2>2, <2>3, ItemsAssumption
<1> QED
  BY <1>3, <1>4, <1>5, <1>6

\* A default finds no text of its option among the arguments.
LEMMA NoTextBefore ==
    ASSUME PlainInv, StoreInv, ~refused, HashesDiffer, NEW o \in Opts, Store(o).count = 0
    PROVE  TextsOf(m_sequential, o) = << >>
<1>1. IsSeq(m_sequential) /\ Len(m_sequential) \in Nat
  BY DEF PlainInv, IsSeq
<1>2. EntriesOf(m_sequential, o) = {}
  <2>1. /\ IsFiniteSet(1..Len(m_sequential))
        /\ EntriesOf(m_sequential, o) \in SUBSET (1..Len(m_sequential))
    BY <1>1, FS_Interval DEF EntriesOf
  <2>2. Cardinality(EntriesOf(m_sequential, o)) = 0
    BY DEF StoreInv
  <2> QED
    BY <2>1, <2>2, FS_Subset, FS_EmptySet
<1> QED
  BY <1>1, <1>2, TextsAre

LEMMA ValueStep ==
    ASSUME IInv, ValueInv, [Next]_vars
    PROVE  ValueInv'
<1>0. PlaceInv /\ NameInv /\ PlainInv /\ StoreInv /\ DefaultInv
  BY DEF IInv
<1>a. (PlaceInv /\ NameInv)'
  BY <1>0, PlaceStep, NameStep
<1>b. ASSUME phase = "declare", UNCHANGED <<result, before>>
      PROVE  ValueInv'
  <2>1. (m_parsed = << >> /\ m_sequential = << >> /\ m_defaults = << >> /\ bound = before)'
    BY <1>0, <1>b DEF PlaceInv, result, values
  <2> QED
    BY <1>a, <2>1, ValueAtFirst, PTL
<1>1. CASE AddOption
  BY <1>1, <1>b DEF AddOption, call
<1>2. CASE ParseCall
  BY <1>2, <1>b DEF ParseCall
\* An option takes an argument.
<1>c. ASSUME NEW o \in Opts, NEW text \in DOMAIN Items, NEW positional \in BOOLEAN,
             Take(o, text, positional), UNCHANGED <<m_options, refused, m_defaults, before>>,
             phase # "threw"
      PROVE  ValueInv'
  <2>1. Opts' = Opts /\ (HashesDiffer' <=> HashesDiffer)
    BY <1>c DEF Opts, HashesDiffer
  <2>2. ASSUME ~refused, HashesDiffer, NEW p \in Opts PROVE Told(p)'
    <3> DEFINE n == Store(o).count + 1
               default == Store(o).default
    <3>1. /\ Give(o, text, positional, n, default)
          /\ m_sequential' = Append(m_sequential, <<Essential(o), text>>)
          /\ IsSeq(m_sequential) /\ IsSeq(m_defaults)
      BY <1>0, <1>c, <2>2 DEF Take, PlainInv, DefaultInv
    <3> HIDE DEF n, default
    <3> QED
      BY <1>0, <1>c, <2>2, <3>1, GiveKeepsValue
  <2> QED
    BY <1>c, <2>1, <2>2 DEF ValueInv
<1>3. CASE OptionTaken
  <2>1. Take(opt, ValueText, FALSE) /\ UNCHANGED <<m_options, refused, m_defaults, before>>
        /\ phase # "threw"
    BY <1>3 DEF OptionTaken, parse_option, options, call, InLoop
  <2>2. ValueText \in DOMAIN Items /\ opt \in Opts
    BY <1>0, <1>3, TextIsListed DEF OptionTaken
  <2> QED
    BY <1>c, <2>1, <2>2
<1>4. ASSUME UNCHANGED <<m_options, refused, m_parsed, m_sequential, m_defaults, bound, before>>,
             phase' # "threw" => phase # "threw"
      PROVE  ValueInv'
  BY <1>4 DEF ValueInv, Told, Story, HashesDiffer, Opts, Store, Held, Start, Alone
<1>5. CASE OptionUnknown
  BY <1>4, <1>5 DEF OptionUnknown, options, values, call
<1>6. ASSUME ConsumePositional, UNCHANGED <<m_options, refused, m_defaults, before>>,
             argv[current] \in Texts, phase # "threw"
      PROVE  ValueInv'
  <2>1. CASE HasPlace /\ add_to_option(Placed, argv[current])
    <3>1. Placed \in Opts /\ Take(Placed, argv[current], TRUE)
          /\ argv[current] \in DOMAIN Items
      BY <1>0, <1>6, <2>1, PlacedIsOption, ItemsAssumption DEF add_to_option
    <3> QED
      BY <1>6, <1>c, <3>1
  <2>2. CASE UNCHANGED values
    BY <1>4, <1>6, <2>2 DEF values
  <2> QED
    BY <1>6, <2>1, <2>2 DEF ConsumePositional
<1>7. CASE Positional
  <2>1. argv[current] \in Texts /\ phase # "threw"
    BY <1>0, <1>7, AtHand DEF Positional, IsPositional, InLoop
  <2> QED
    BY <1>6, <1>7, <2>1 DEF Positional, options, call
<1>8. CASE EndOfOptions
  BY <1>4, <1>8 DEF EndOfOptions, options, result, values, call
<1>9. CASE RunsPast
  BY <1>4, <1>9 DEF RunsPast, options, result, values, call
<1>10. ASSUME NEW o \in Range(m_options), Default(o) PROVE ValueInv'
  <2>1. /\ UNCHANGED <<m_options, refused, m_sequential, before>>
        /\ NeedsDefault(o) /\ o \in Opts /\ phase # "threw"
    BY <1>10 DEF Default, options, call, Opts
  <2>2. Opts' = Opts /\ (HashesDiffer' <=> HashesDiffer)
    BY <2>1 DEF Opts, HashesDiffer
  <2>3. ASSUME ~refused, HashesDiffer, NEW p \in Opts PROVE Told(p)'
    <3> DEFINE n == Store(o).count
               text == o.default
    <3>1. Storage(o) = o
      <4>1. Told(o) /\ Head(<<o>>) = o /\ <<o>> # << >>
        BY <2>1, <2>3 DEF ValueInv
      <4> QED
        BY <4>1 DEF Told, Storage
    <3>2. /\ Give(o, text, FALSE, n, TRUE)
          /\ m_defaults' = Append(m_defaults, <<Essential(o), text>>)
      BY <1>10, <3>1 DEF Default, DefaultListed
    <3>3. TextsOf(m_sequential, o) = << >>
      BY <1>0, <2>1, <2>3, NoTextBefore DEF NeedsDefault
    <3>4. text \in DOMAIN Items
      <4> Named(o)
        BY <1>0, <2>1, OptsAre
      <4> QED
        BY <2>1 DEF NeedsDefault, HasDefault, Named, Stored
    <3>5. IsSeq(m_sequential) /\ IsSeq(m_defaults)
      BY <1>0, <2>3 DEF PlainInv, DefaultInv
    <3> HIDE DEF n, text
    <3> QED
      BY <1>0, <2>1, <2>3, <3>2, <3>3, <3>4, <3>5, GiveKeepsValue
  <2> QED
    BY <2>1, <2>2, <2>3 DEF ValueInv
<1>11. CASE EndOfDefaults
  <2>1. UNCHANGED <<m_options, refused, m_sequential, m_defaults, bound, before>>
        /\ phase # "threw"
    BY <1>11 DEF EndOfDefaults, options, call
  <2>2. \A o : Store(o)' = Store(o)
    BY <1>11, EndChangesNothing
  <2>3. Opts' = Opts /\ (HashesDiffer' <=> HashesDiffer)
    BY <2>1 DEF Opts, HashesDiffer
  <2>4. ASSUME ~refused, HashesDiffer, NEW o \in Opts PROVE Told(o)'
    <3>1. Told(o) /\ Store(o)' = Store(o)
      BY <2>1, <2>2, <2>4 DEF ValueInv
    <3>2. /\ Held(o, Store(o))' = Held(o, Store(o)) /\ Story(o)' = Story(o)
          /\ Start(o)' = Start(o) /\ (Alone(o)' <=> Alone(o))
          /\ TextsOf(m_defaults, o)' = TextsOf(m_defaults, o)
          /\ TextsOf(m_sequential, o)' = TextsOf(m_sequential, o)
      BY <2>1, <3>1 DEF Held, Story, Start, Alone
    <3> QED
      BY <3>1, <3>2 DEF Told
  <2> QED
    BY <2>1, <2>3, <2>4 DEF ValueInv
<1>12. CASE Rest
  <2>1. UNCHANGED <<m_options, refused, m_defaults, before>> /\ phase # "threw"
    BY <1>12 DEF Rest, options, call
  <2>2. CASE AtArgument /\ ConsumePositional
    <3>1. argv[current] \in Texts
      BY <1>0, <2>2, Counted
    <3> QED
      BY <1>6, <2>1, <2>2, <3>1
  <2>3. CASE UNCHANGED values
    BY <1>4, <2>1, <2>3 DEF values
  <2> QED
    BY <1>12, <2>2, <2>3 DEF Rest
<1>13. CASE Finish
  BY <1>4, <1>13 DEF Finish, options, result, values, call
<1>14. CASE ParseThrows
  BY <1>14 DEF ParseThrows, ValueInv
<1>15. CASE UNCHANGED vars
  BY <1>4, <1>15 DEF vars, options, result, values, call
<1> QED
  BY <1>1, <1>2, <1>3, <1>5, <1>7, <1>8, <1>9, <1>10, <1>11, <1>12, <1>13, <1>14, <1>15 DEF Next

\* Whatever is asked of the result under whichever name of an option, the
\* answers follow from the arguments it was given, in their order, from its
\* default, and from what its variable held: nothing is stored that was not
\* written, and nothing is lost.
THEOREM ResultsTellOneStory == Spec => []ResultsAgree
<1>1. Init => ValueInv
  BY PlaceInit, NameInit, ValueAtFirst DEF Init
<1>2. IInv /\ ValueInv => ResultsAgree
  <2> SUFFICES ASSUME IInv, ValueInv, phase = "parsed", ~refused, HashesDiffer,
                      NEW n \in DOMAIN m_options, NEW o, o = m_options[n]
               PROVE  /\ count(n) = Cardinality(EntriesOf(arguments, o))
                      /\ Story(o) = << >> => as(n) = << >>
                      /\ Story(o) # << >> /\ Alone(o) =>
                           IF o.container THEN Split(as(n)) = Split(Start(o) \o Story(o))
                           ELSE as(n) = <<Last(Story(o))>>
    BY DEF ResultsAgree, Story, defaults, arguments
  <2>1. o \in Opts /\ n \in ToSet(Names(o)) /\ Named(o)
    BY DEF Opts, Range, IInv, NameInv
  <2>2. /\ count(n) = Store(o).count
        /\ as(n) = IF Store(o).m_value = << >> THEN << >>
                   ELSE Held(Head(Store(o).m_value), Store(o))
        /\ Store(o).count = Cardinality(EntriesOf(m_sequential, o))
    BY <2>1, CountIs
  <2>3. Told(o)
    BY <2>1 DEF ValueInv
  <2>4. as(n) = IF Story(o) = << >> THEN << >> ELSE Held(o, Store(o))
    <3> Head(<<o>>) = o /\ <<o>> # << >>
      OBVIOUS
    <3> QED
      BY <2>2, <2>3 DEF Told
  <2>5. ASSUME Story(o) # << >>, Alone(o)
        PROVE  IF o.container THEN Split(as(n)) = Split(Start(o) \o Story(o))
               ELSE as(n) = <<Last(Story(o))>>
    <3>1. Tells(o, as(n), Start(o) \o Story(o))
      BY <2>3, <2>4, <2>5 DEF Told
    <3>2. ~o.container => Start(o) \o Story(o) = Story(o)
      <4>1. ~o.container => Start(o) = << >>
        BY <2>1, StartIs DEF IInv
      <4>2. Story(o) \in Seq(DOMAIN Items)
        BY <2>3, ConcatProperties DEF Told, Story
      <4>3. << >> \o Story(o) = Story(o)
        BY <4>2
      <4> QED
        BY <4>1, <4>3
    <3> QED
      BY <2>5, <3>1, <3>2 DEF Tells
  <2> QED
    BY <2>2, <2>4, <2>5 DEF arguments
<1>3. IInv /\ ValueInv /\ [Next]_vars => (IInv /\ ValueInv)'
  BY IInvStep, ValueStep
<1> QED
  BY <1>1, <1>2, <1>3, IInvInit, PTL DEF Spec
=============================================================================
