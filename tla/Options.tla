------------------------------ MODULE Options -------------------------------
(***************************************************************************)
(* cxxopts.hpp: options are declared, an argument vector is parsed, and    *)
(* the ParseResult is asked.  A text is a string; Desc, Items and Valid    *)
(* say what the regular expressions, the splitting of lists and the        *)
(* conversion to a type make of the texts of an instance.                  *)
(***************************************************************************)
EXTENDS Integers, Sequences, SequencesExt, FiniteSets

CONSTANTS
    Declared,      \* the sequences of options a program may declare
    m_positional,  \* names of the options that take positional arguments
    Texts,         \* arguments a user may write
    Desc,          \* text |-> what ParseArgument() makes of it
    Items,         \* text |-> its parts between commas
    Valid,         \* type |-> texts that convert to it
    Variables,     \* of the program, which options are bound to
    Before,        \* what these may hold when parse() is called
    MaxArgs        \* bound: length of the argument vector

NoText == "none"    \* no default, no implicit value, no value
NoName == ""        \* of an option without a letter, or without a longer name

\* The text of a group from a letter on.
From(letters, l) == FoldLeft(LAMBDA r, t : r \o t, "", SubSeq(letters, l, Len(letters)))

\* Names are not empty: so the pattern of split_option_names() has it.
Declaration == [names : Seq(STRING \ {NoName}) \ {<< >>}, container : BOOLEAN,
                type : DOMAIN Valid, default : DOMAIN Items \cup {NoText},
                implicit : DOMAIN Items \cup {NoText}, variable : Variables \cup {NoName}]

ASSUME OptionsAssumption ==
    /\ MaxArgs \in Nat
    /\ NoName \notin Variables
    /\ Before \subseteq [Variables -> Seq(DOMAIN Items)]
    /\ m_positional \in Seq(STRING)
    /\ Declared \subseteq Seq(Declaration)
    /\ \A text \in Texts :
        /\ Desc[text].kind \in {"long", "group", "plain", "bad", "--"}
        /\ Desc[text].kind = "long" => Desc[text].set_value \in BOOLEAN
        /\ Desc[text].kind = "group" => Desc[text].group \in Seq(STRING) \ {<< >>}

\* Every text that an option may be given has parts, and these have no comma.
ASSUME ItemsAssumption ==
    /\ NoText \notin DOMAIN Items
    /\ Texts \subseteq DOMAIN Items
    /\ \A text \in Texts :
        /\ Desc[text].kind = "long" /\ Desc[text].set_value => Desc[text].value \in DOMAIN Items
        /\ Desc[text].kind = "group" =>
            \A l \in 2..Len(Desc[text].group) : From(Desc[text].group, l) \in DOMAIN Items
    /\ \A text \in DOMAIN Items :
        /\ Items[text] \in Seq(DOMAIN Items)
        /\ \A i \in 1..Len(Items[text]) : Items[Items[text][i]] = <<Items[text][i]>>

VARIABLES phase, allow_unrecognised,
          declared, m_options, refused,      \* Options
          argc, argv,                        \* argv: without the program's name
          current, letter, remaining,        \* parse(): where it is
          next_positional,
          m_parsed, m_sequential, m_defaults, unmatched, m_keys,
          bound, before  \* what the variables hold, and held at the call (history)

options == <<allow_unrecognised, declared, m_options, refused>>
call == <<argc, argv, before>>
place == <<current, letter, next_positional>>
values == <<m_parsed, m_sequential, bound>>
result == <<values, m_defaults, unmatched>>
vars == <<phase, options, call, remaining, place, result, m_keys>>

-----------------------------------------------------------------------------
(* OptionDetails and OptionValue                                           *)

HasDefault(o) == o.default # NoText
HasImplicit(o) == o.implicit # NoText

\* A value of type bool that nothing else was said of.
Flag(names) == [names |-> names, container |-> FALSE, type |-> "bool",
                default |-> "false", implicit |-> "true", variable |-> NoName]

FirstLong(o) == IF o.long = << >> THEN NoName ELSE Head(o.long)
Essential(o) == IF o.long = << >> THEN o.short ELSE Head(o.long)
Names(o) == (IF o.short = NoName THEN << >> ELSE <<o.short>>) \o o.long

\* An option without a letter also answers to the empty name.
Aliases(o) == {o.short} \cup ToSet(o.long)

\* The key of m_parsed, a hash of this text.
Hash(o) == FirstLong(o) \o o.short

\* An OptionValue: m_value is << >>, or a clone of this option's value, and
\* m_result what the clone holds itself.
NewValue == [count |-> 0, default |-> FALSE, m_value |-> << >>, m_result |-> << >>]
Store(o) == IF Hash(o) \in DOMAIN m_parsed THEN m_parsed[Hash(o)] ELSE NewValue
SetStore(o, v) ==
    m_parsed' = [h \in DOMAIN m_parsed \cup {Hash(o)} |->
                    IF h = Hash(o) THEN v ELSE m_parsed[h]]

\* ensure_value(): options with the same hash use what the first of them made.
Storage(o) == IF Store(o).m_value = << >> THEN o ELSE Head(Store(o).m_value)

\* The storage of an option is its own, or a variable of the program.
Own(o) == o.variable = NoName
Held(o, v) == IF Own(o) THEN v.m_result ELSE bound[o.variable]

\* parse_value() splits what a list is given at commas, add_value() does not.
Parts(o, text, positional) ==
    IF o.container /\ ~positional THEN Items[text] ELSE <<text>>
Converts(o, text, positional) ==
    ToSet(Parts(o, text, positional)) \subseteq Valid[o.type]

\* Mutant of Holds: an argument of a list replaces the earlier ones.
Holds_Replace(o, old, text, positional) == Parts(o, text, positional)

\* What an option holds after one more text: a list grows, others change.
Holds(o, old, text, positional) ==
    IF o.container THEN old \o Parts(o, text, positional) ELSE <<text>>

\* An option takes a text, and has this count and mark of its default then.
Give(o, text, positional, n, default) ==
    LET s == Storage(o)
        held == Holds(s, Held(s, Store(o)), text, positional)
    IN  /\ Converts(s, text, positional)
        /\ SetStore(o, [count |-> n, default |-> default, m_value |-> <<s>>,
                        m_result |-> IF Own(s) THEN held ELSE << >>])
        /\ bound' = IF Own(s) THEN bound ELSE [bound EXCEPT ![s.variable] = held]

Take(o, text, positional) ==
    /\ Give(o, text, positional, Store(o).count + 1, Store(o).default)
    /\ m_sequential' = Append(m_sequential, <<Essential(o), text>>)
parse_option(o, text) == Take(o, text, FALSE)
add_to_option(o, text) == Take(o, text, TRUE)

\* A text that does not convert throws; a list has taken the parts before.
Refuses(o, text, positional) ==
    LET s == Storage(o)
        parts == Parts(s, text, positional)
        bad == {i \in 1..Len(parts) : parts[i] \notin Valid[s.type]}
    IN  /\ ~Converts(s, text, positional)
        /\ bound' = IF Own(s) \/ ~s.container THEN bound
                    ELSE [bound EXCEPT ![s.variable] = @ \o SubSeq(parts, 1, Min(bad) - 1)]

DefaultListed(o) == <<Essential(o), o.default>>

-----------------------------------------------------------------------------
Init ==
    /\ phase = "declare" /\ allow_unrecognised \in BOOLEAN
    /\ declared \in Declared /\ m_options = << >> /\ refused = FALSE
    /\ argc = 0 /\ argv = << >> /\ before \in Before /\ bound = before
    /\ current = 1 /\ letter = 1 /\ remaining = FALSE /\ next_positional = 1
    /\ m_parsed = << >> /\ m_sequential = << >> /\ m_defaults = << >>
    /\ unmatched = << >> /\ m_keys = << >>

\* The adder separates the letter from the longer names, in whatever order the
\* partition leaves these.
Letters(o) == {i \in 1..Len(o.names) : Len(o.names[i]) = 1}
Details(o, order) ==
    [short |-> IF Letters(o) = {} THEN NoName ELSE o.names[CHOOSE i \in Letters(o) : TRUE],
     long |-> [i \in 1..Len(order) |-> o.names[order[i]]],
     container |-> o.container, type |-> o.type,
     default |-> o.default, implicit |-> o.implicit, variable |-> o.variable]

\* A name that exists already throws.
Exists(o, i) == Names(o)[i] \in DOMAIN m_options \cup {Names(o)[j] : j \in 1..i - 1}

\* An option is entered under its names one after the other: those before one
\* that exists already stay.  Two letters are refused before that.
AddOption ==
    /\ phase = "declare" /\ declared # << >>
    /\ LET given == Head(declared)
       IN  IF Cardinality(Letters(given)) > 1
           THEN refused' = TRUE /\ UNCHANGED m_options
           ELSE \E order \in SetToSeqs(1..Len(given.names) \ Letters(given)) :
               LET o == Details(given, order)
                   taken == {i \in 1..Len(Names(o)) : Exists(o, i)}
                   entered == {i \in 1..Len(Names(o)) : \A j \in taken : i < j}
               IN  /\ m_options' =
                        [n \in DOMAIN m_options \cup {Names(o)[i] : i \in entered} |->
                            IF n \in DOMAIN m_options THEN m_options[n] ELSE o]
                   /\ refused' = (refused \/ taken # {})
    /\ declared' = Tail(declared)
    /\ UNCHANGED <<phase, allow_unrecognised, call, remaining, place, result, m_keys>>

\* argc counts the program's name, but may be 0.
ParseCall ==
    /\ phase = "declare" /\ declared = << >>
    /\ argv' \in BoundedSeq(Texts, MaxArgs)
    /\ argc' = Len(argv') + 1 \/ (argv' = << >> /\ argc' = 0)
    /\ phase' = "options"
    /\ UNCHANGED <<options, before, remaining, place, result, m_keys>>

-----------------------------------------------------------------------------
(* parse(): the loop over the arguments                                    *)

d == Desc[argv[current]]
AtArgument == current # argc /\ current \in 1..Len(argv)
InLoop == phase = "options" /\ AtArgument
IsOption == d.kind \in {"long", "group"}
name == IF d.kind = "group" THEN d.group[letter] ELSE d.name
lastLetter == d.kind = "long" \/ letter = Len(d.group)
Known == name \in DOMAIN m_options
opt == m_options[name]

\* The argument is done, and n - 1 after it.
Advance(n) == current' = current + n /\ letter' = 1

\* Mutant of TakesNext: an option with an implicit value takes an argument too.
TakesNext_Implicit == lastLetter /\ ~(d.kind = "long" /\ d.set_value)

\* checked_parse_arg() uses the following argument.
TakesNext == lastLetter /\ ~(d.kind = "long" /\ d.set_value) /\ ~HasImplicit(opt)

\* The value of the option at hand: after "=", implied, the rest of a group, or
\* the next argument.
ValueText ==
    IF d.kind = "long" /\ d.set_value THEN d.value
    ELSE IF HasImplicit(opt) THEN opt.implicit
    ELSE IF ~lastLetter THEN From(d.group, letter + 1)
    ELSE IF current + 1 < argc THEN argv[current + 1] ELSE NoText

\* Mutant of Step: the argument after the option is not passed over.
Step_One ==
    IF ~lastLetter /\ HasImplicit(opt)
    THEN letter' = letter + 1 /\ UNCHANGED current
    ELSE Advance(1)

\* On to the next letter, or past the option and the value it took.
Step ==
    IF ~lastLetter /\ HasImplicit(opt)
    THEN letter' = letter + 1 /\ UNCHANGED current
    ELSE Advance(IF TakesNext THEN 2 ELSE 1)

OptionTaken ==
    /\ InLoop /\ IsOption /\ Known
    /\ ValueText # NoText
    /\ parse_option(opt, ValueText)
    /\ Step
    /\ UNCHANGED <<phase, options, call, remaining, next_positional,
                   m_defaults, unmatched, m_keys>>

OptionUnknown ==
    /\ InLoop /\ IsOption /\ ~Known /\ allow_unrecognised
    /\ unmatched' = Append(unmatched,
                           IF d.kind = "group" THEN "-" \o name ELSE argv[current])
    /\ IF lastLetter THEN Advance(1) ELSE letter' = letter + 1 /\ UNCHANGED current
    /\ UNCHANGED <<phase, options, call, remaining, next_positional,
                   values, m_defaults, m_keys>>

\* consume_positional(): the first place from next on that is a list, or an
\* option without a value yet; a name that no option has ends the search.
Places == {j \in next_positional..Len(m_positional) :
              \/ m_positional[j] \notin DOMAIN m_options
              \/ m_options[m_positional[j]].container
              \/ Store(m_options[m_positional[j]]).count = 0}
Place == IF Places = {} THEN Len(m_positional) + 1 ELSE Min(Places)
HasPlace == Places # {} /\ m_positional[Place] \in DOMAIN m_options
Placed == m_options[m_positional[Place]]

ConsumePositional ==
    \/ /\ HasPlace
       /\ add_to_option(Placed, argv[current])
       /\ next_positional' = IF Placed.container THEN Place ELSE Place + 1
       /\ UNCHANGED unmatched
    \/ /\ Places = {}
       /\ next_positional' = Place
       /\ unmatched' = Append(unmatched, argv[current])
       /\ UNCHANGED values

IsPositional == InLoop /\ (d.kind = "plain" \/ (d.kind = "bad" /\ allow_unrecognised))

Positional ==
    /\ IsPositional
    /\ ConsumePositional
    /\ Advance(1)
    /\ UNCHANGED <<phase, options, call, remaining, m_defaults, m_keys>>

\* The loop ends at "--" or when current is argc.
EndOfOptions ==
    /\ phase = "options"
    /\ \/ InLoop /\ d.kind = "--" /\ remaining' = TRUE /\ Advance(1)
       \/ current = argc /\ UNCHANGED <<current, letter, remaining>>
    /\ phase' = "defaults"
    /\ UNCHANGED <<options, call, next_positional, result, m_keys>>

\* A loop that compares with argc for inequality reads outside argv: undefined.
RunsPast ==
    /\ phase \in {"options", "rest"} /\ current # argc /\ ~AtArgument
    /\ phase' = "outside"
    /\ UNCHANGED <<options, call, remaining, place, result, m_keys>>

-----------------------------------------------------------------------------
(* parse(): defaults, the arguments after "--", the names                  *)

\* Mutant of NeedsDefault: options that have a value get their default too.
NeedsDefault_Always(o) == HasDefault(o) /\ ~Store(o).default

NeedsDefault(o) == HasDefault(o) /\ Store(o).count = 0 /\ ~Store(o).default

\* The order in which m_options is visited is not specified.
Default(o) ==
    /\ phase = "defaults" /\ NeedsDefault(o)
    /\ Give(o, Storage(o).default, FALSE, Store(o).count, TRUE)
    /\ m_defaults' = Append(m_defaults, DefaultListed(o))
    /\ UNCHANGED <<phase, options, call, remaining, place, m_sequential, unmatched, m_keys>>

\* All have been visited, and each has an entry then.
EndOfDefaults ==
    /\ phase = "defaults"
    /\ \A o \in Range(m_options) : ~NeedsDefault(o)
    /\ m_parsed' = [h \in DOMAIN m_parsed \cup {Hash(o) : o \in Range(m_options)} |->
                       IF h \in DOMAIN m_parsed THEN m_parsed[h] ELSE NewValue]
    /\ phase' = IF remaining THEN "rest" ELSE "finish"
    /\ UNCHANGED <<options, call, remaining, place, m_sequential, bound,
                   m_defaults, unmatched, m_keys>>

\* After "--" everything is positional; what finds no place is unmatched, and
\* all that follows.
Rest ==
    /\ phase = "rest"
    /\ \/ AtArgument /\ ConsumePositional /\ Advance(1) /\ UNCHANGED phase
       \/ current = argc /\ phase' = "finish" /\ UNCHANGED <<place, values, unmatched>>
    /\ UNCHANGED <<options, call, remaining, m_defaults, m_keys>>

\* finalise_aliases() goes through the details, again in no specified order.
Finish ==
    /\ phase = "finish"
    /\ LET all == UNION {Aliases(o) : o \in Range(m_options)}
       IN  m_keys' \in {keys \in [all -> {Hash(o) : o \in Range(m_options)}] :
               \A n \in all : \E o \in Range(m_options) :
                   n \in Aliases(o) /\ keys[n] = Hash(o)}
    /\ phase' = "parsed"
    /\ UNCHANGED <<options, call, remaining, place, result>>

\* An exception leaves parse(): there is no result.
WantsPlace == IsPositional \/ (phase = "rest" /\ AtArgument)
WrongArgument ==
    /\ \/ InLoop /\ IsOption /\ ~Known /\ ~allow_unrecognised
       \/ InLoop /\ IsOption /\ Known /\ ValueText = NoText
       \/ InLoop /\ d.kind = "bad" /\ ~allow_unrecognised
       \/ WantsPlace /\ Places # {} /\ ~HasPlace
    /\ UNCHANGED bound
WrongValue ==
    \/ InLoop /\ IsOption /\ Known /\ ValueText # NoText /\ Refuses(opt, ValueText, FALSE)
    \/ WantsPlace /\ HasPlace /\ Refuses(Placed, argv[current], TRUE)
    \/ /\ phase = "defaults"
       /\ \E o \in Range(m_options) :
            NeedsDefault(o) /\ Refuses(o, Storage(o).default, FALSE)
ParseThrows ==
    /\ WrongArgument \/ WrongValue
    /\ phase' = "threw"
    /\ UNCHANGED <<options, call, remaining, place, m_parsed, m_sequential,
                   m_defaults, unmatched, m_keys>>

Next == \/ AddOption \/ ParseCall
        \/ OptionTaken \/ OptionUnknown \/ Positional \/ EndOfOptions \/ RunsPast
        \/ \E o \in Range(m_options) : Default(o)
        \/ EndOfDefaults \/ Rest \/ Finish \/ ParseThrows

Spec == Init /\ [][Next]_vars

-----------------------------------------------------------------------------
(* ParseResult                                                             *)

count(n) == IF n \in DOMAIN m_keys THEN m_parsed[m_keys[n]].count ELSE 0
\* << >> where as() throws.
as(n) == LET v == m_parsed[m_keys[n]]
         IN  IF v.m_value = << >> THEN << >> ELSE Held(Head(v.m_value), v)
arguments == m_sequential
defaults == m_defaults
iteration == m_sequential \o m_defaults

-----------------------------------------------------------------------------
(* Properties                                                              *)

\* Types; parse(), whose loops compare with argc for equality only, never runs
\* past the arguments - unless argc is 0: current starts at 1.
TypeOK ==
    /\ phase \in {"declare", "options", "defaults", "rest", "finish", "parsed",
                  "threw", "outside"}
    /\ {allow_unrecognised, refused, remaining} \subseteq BOOLEAN
    /\ argv \in Seq(Texts) /\ argc \in {0, Len(argv) + 1}
    /\ current \in 1..Len(argv) + 1 /\ letter \in Nat \ {0}
    /\ next_positional \in 1..Len(m_positional) + 1
    /\ before \in Before /\ DOMAIN bound = Variables
    /\ phase = "parsed" => current = argc
    /\ phase = "outside" => argc = 0

\* The entries of an option, and their texts in order.
EntriesOf(pairs, o) == {i \in 1..Len(pairs) : pairs[i][1] = Essential(o)}
TextsUpTo(pairs, o) ==
    LET upto[k \in 0..Len(pairs)] ==
            IF k = 0 THEN << >>
            ELSE IF pairs[k][1] = Essential(o) THEN Append(upto[k - 1], pairs[k][2])
            ELSE upto[k - 1]
    IN  upto
TextsOf(pairs, o) == TextsUpTo(pairs, o)[Len(pairs)]

\* All parts of some texts.
SplitUpTo(texts) ==
    LET upto[k \in 0..Len(texts)] ==
            IF k = 0 THEN << >> ELSE upto[k - 1] \o Items[texts[k]]
    IN  upto
Split(texts) == SplitUpTo(texts)[Len(texts)]

HashesDiffer == \A o1, o2 \in Range(m_options) : Hash(o1) = Hash(o2) => o1 = o2

\* No other option stores in the same variable; what a list starts from.
Alone(o) == Own(o) \/ \A p \in Range(m_options) : p.variable = o.variable => p = o
Start(o) == IF Own(o) \/ ~o.container THEN << >> ELSE before[o.variable]

\* arguments(), defaults(), count() and as() tell one story, under each of an
\* option's names: the count is the number of its arguments; as() throws if it
\* got none and has no default; a list holds what its variable held at the call,
\* its default and then all arguments, another option the last of these.
\* (When a declaration was refused, a name of two options may give the wrong
\* one's answers; options with the same hash share one value, and options on
\* the same variable see each other's.)
ResultsAgree ==
    phase = "parsed" /\ ~refused /\ HashesDiffer =>
        \A n \in DOMAIN m_options :
            LET o == m_options[n]
                texts == TextsOf(defaults, o) \o TextsOf(arguments, o)
            IN  /\ count(n) = Cardinality(EntriesOf(arguments, o))
                /\ texts = << >> => as(n) = << >>
                /\ texts # << >> /\ Alone(o) =>
                     IF o.container THEN Split(as(n)) = Split(Start(o) \o texts)
                     ELSE as(n) = <<Last(texts)>>

\* An option with a default is listed in defaults() once if nothing gave it a
\* value, and not at all if something did - unless that was a positional
\* argument after "--", which comes when the defaults are already in place.
\* (Of options with the same hash only one is listed, and refused declarations
\* may leave two with the same first name.)
DefaultsOnce ==
    phase = "parsed" /\ ~refused /\ HashesDiffer =>
        \A o \in Range(m_options) : HasDefault(o) =>
            /\ \A i, j \in EntriesOf(defaults, o) : i = j
            /\ count(Essential(o)) = 0 =>
                \E i \in 1..Len(iteration) :
                    EntriesOf(iteration, o) = {i} /\ iteration[i] = DefaultListed(o)
            /\ count(Essential(o)) > 0 /\ EntriesOf(defaults, o) # {} =>
                remaining /\ ToSet(Names(o)) \cap ToSet(m_positional) # {}

\* A text the program may be given without an argument of its own: implied,
\* written after "=", or part of a group.
Implied(text) ==
    \/ \E o \in Range(m_options) : o.implicit = text
    \/ \E i \in 1..Len(argv) : LET D == Desc[argv[i]] IN
        \/ D.kind = "long" /\ D.set_value /\ D.value = text
        \/ D.kind = "group" /\ \E l \in 1..Len(D.group) :
               text \in {From(D.group, l), "-" \o D.group[l]}

\* No argument is lost and none is used twice: one that is no option appears
\* among the values and in unmatched() as often as the user wrote it, or more
\* often only where an option brings the same text along.
Occurrences(text, texts) == Cardinality({i \in 1..Len(texts) : texts[i] = text})
Kept(text) ==
    Occurrences(text, unmatched) + Cardinality({i \in 1..Len(arguments) : arguments[i][2] = text})
PlainTextsKept ==
    phase = "parsed" =>
        \A text \in Texts : Desc[text].kind = "plain" =>
            /\ Kept(text) >= Occurrences(text, argv)
            /\ ~Implied(text) => Kept(text) = Occurrences(text, argv)
=============================================================================
