------------------------------ MODULE MCConfig ------------------------------
(* Instance of Config for TLC: each kind of node at each depth, and aliases *)
(* to a null and a sequence, to a father, to the root and to an entry.      *)
EXTENDS Config

MCKeys == {"a", "0"}
MCDecodes == "string" :> {} @@ "int" :> {"7"}

LOCAL Text(text) == Node("scalar", text, << >>)
LOCAL Null == Node("null", "", << >>)
LOCAL Map(sub) == Node("map", "", sub)
LOCAL Sequence(sub) == Node("sequence", "", sub)
LOCAL Both(first, second) == "a" :> first @@ "0" :> second

\* The root is the first node.
LOCAL File(memory) == Document(memory, 1)

MCFiles ==
    "missing" :> Missing @@ "broken" :> Broken @@ "empty" :> Empty @@
    "scalar" :> File(<<Text("7")>>) @@
    "map" :> File(<<Map(Both(2, 3)), Map(Both(4, 5)), Text("x"), Text("7"), Null>>) @@
    "lists" :> File(<<Sequence("0" :> 2), Map(Both(3, 4)), Sequence("0" :> 5),
                      Map(Both(5, 6)), Text("7"), Null>>) @@
    "fathers" :> File(<<Map(Both(2, 2)), Map(Both(3, 1)), Map("a" :> 4), Text("x")>>) @@
    "values" :> File(<<Map(Both(2, 3)), Null, Map(Both(2, 4)), Sequence("0" :> 2)>>) @@
    "top" :> File(<<Sequence("0" :> 2), Map("a" :> 1)>>)
=============================================================================
