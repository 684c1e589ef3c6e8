----------------------------- MODULE MCOptions ------------------------------
(* Instance of Options for TLC: a flag, a number, a list, a second          *)
(* declaration of a name, two flags with the same hash, and options bound   *)
(* to variables: a list that need not be empty, and two on one variable.    *)
EXTENDS Options

all == Flag(<<"a", "all">>)
file == [names |-> <<"f", "file", "path">>, container |-> FALSE, type |-> "int",
         default |-> NoText, implicit |-> NoText, variable |-> NoName]
list == [names |-> <<"list">>, container |-> TRUE, type |-> "string",
         default |-> "u,v", implicit |-> NoText, variable |-> NoName]
again == [file EXCEPT !.names = <<"g", "file">>, !.type = "string"]

bind(o, variable) == [o EXCEPT !.variable = variable]

MCDeclared == {<<all, file, list>>, <<file, again, Flag(<<"x", "y">>)>>,
               <<Flag(<<"all">>), Flag(<<"al", "l">>), list>>,
               <<bind(list, "names"), [bind(all, "on") EXCEPT !.default = NoText]>>,
               <<bind(list, "names"), [bind(list, "names") EXCEPT !.names = <<"f">>]>>}
MCPositional == <<"file", "list">>

plain == [kind |-> "plain"]
long(n) == [kind |-> "long", name |-> n, set_value |-> FALSE]
longIs(n, v) == [kind |-> "long", name |-> n, set_value |-> TRUE, value |-> v]
group(letters) == [kind |-> "group", group |-> letters]

MCDesc ==
    "7" :> plain @@ "p,q" :> plain @@
    "--" :> [kind |-> "--"] @@ "-=" :> [kind |-> "bad"] @@
    "--all" :> long("all") @@ "--path" :> long("path") @@ "--no" :> long("no") @@
    "--list=r,s" :> longIs("list", "r,s") @@ "--all=no" :> longIs("all", "no") @@
    "-af" :> group(<<"a", "f">>) @@ "-f8" :> group(<<"f", "8">>) @@ "-zg" :> group(<<"z", "g">>)

MCTexts == DOMAIN MCDesc
MCItems == "p,q" :> <<"p", "q">> @@ "r,s" :> <<"r", "s">> @@ "u,v" :> <<"u", "v">> @@
           [t \in MCTexts \cup {"true", "false", "no", "8", "f", "g", "p", "q", "r", "s", "u", "v"} |-> <<t>>]
MCValid == "int" :> {"7", "8"} @@ "bool" :> {"true", "false"} @@ "string" :> DOMAIN MCItems
MCVariables == {"names", "on"}
MCBefore == {[names |-> held, on |-> <<"false">>] : held \in {<< >>, <<"u">>}}
=============================================================================
