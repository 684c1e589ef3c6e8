------------------------------- MODULE Config -------------------------------
(***************************************************************************)
(* class Config on the nodes of yaml-cpp.  A node is a scalar, a null, a   *)
(* sequence or a map; an alias is a second edge to the node it names, and  *)
(* may lead back up.  The entries of a sequence are under "0", "1" and so  *)
(* on.  GetParam() uses the subscripts of a node that is not const: they   *)
(* make a map of whatever they meet and enter the keys they do not find.   *)
(***************************************************************************)
EXTENDS Integers, Sequences, TLC

CONSTANTS Files,    \* file name |-> the document in it, or Missing or Broken
          Keys,     \* keys of maps: distinct scalars
          Texts,    \* of scalars
          Decodes   \* type |-> the texts that decode to a value of it

Types == DOMAIN Decodes
Shapes == {"value", "sequence", "map"}  \* T, std::vector<T>, std::map<_, T>

VARIABLES param_file_,  \* the nodes in memory, and which one is the root
          document,     \* the same, as the parser left it
          asked         \* the last GetParam() since then, and its answer

vars == <<param_file_, document, asked>>

\* A node with its edges, and what Node::Type() says of it.
Kinds == {"scalar", "null", "sequence", "map", "undefined"}
Node(kind, text, sub) == [kind |-> kind, text |-> text, sub |-> sub]
Undefined == Node("undefined", "", << >>)
Document(memory, root) == [memory |-> memory, root |-> root]
Empty == Document(<<Node("null", "", << >>)>>, 1)
Missing == Document(<< >>, 0)
Broken == Document(<< >>, 1)

Edges(ids) == UNION {[some -> ids] : some \in SUBSET Keys}
Nodes(ids) == [kind : Kinds, text : Texts \cup {""}, sub : Edges(ids)]

IsDocument(doc) ==
    /\ doc.memory \in Seq(Nodes(DOMAIN doc.memory))
    /\ doc.root \in DOMAIN doc.memory
    /\ doc = Document(doc.memory, doc.root)
    /\ \A id \in DOMAIN doc.memory :
          /\ doc.memory[id].kind # "undefined"
          /\ doc.memory[id].kind \in {"scalar", "null"} => DOMAIN doc.memory[id].sub = {}

ASSUME ConfigAssumption ==
    \A file \in DOMAIN Files :
        Files[file] \in {Missing, Broken} \/ IsDocument(Files[file])

Nothing == [father |-> "", child |-> "", shape |-> "", T |-> "", answer |-> {}]

\* A node that nothing was assigned to counts as defined, and as a null.
Init == param_file_ = Empty /\ document = Empty /\ asked = Nothing

-----------------------------------------------------------------------------
\* Mutant of LoadFile: an empty file is told before the assignment.
LoadFile_TestFirst(file) ==
    /\ Files[file] \notin {Missing, Broken}
    /\ param_file_' = IF Files[file].memory[Files[file].root].kind = "null"
                      THEN param_file_ ELSE Files[file]
    /\ document' = Files[file]
    /\ asked' = Nothing

\* A file that cannot be read or parsed throws before the assignment; an empty
\* one is assigned although LoadFile() then returns false.
LoadFile(file) ==
    /\ Files[file] \notin {Missing, Broken}
    /\ param_file_' = Files[file]
    /\ document' = Files[file]
    /\ asked' = Nothing

LoadFails(file) ==
    /\ Files[file] \in {Missing, Broken}
    /\ UNCHANGED vars

\* The nodes after memory[id][key]: a new node stays undefined, and so does a
\* node with nothing but those, although it is a map from then on.
Subscript(memory, id, key) ==
    LET node == memory[id]
        kind == IF node.kind = "undefined" THEN "undefined" ELSE "map"
        new == Len(memory) + 1
        sub == [k \in DOMAIN node.sub \cup {key} |->
                   IF k \in DOMAIN node.sub THEN node.sub[k] ELSE new]
        with == [memory EXCEPT ![id] = Node(kind, node.text, sub)]
    IN IF key \in DOMAIN node.sub THEN with ELSE Append(with, Undefined)

Throws(node) == node.kind = "scalar"

\* as<T>() of one node: no value if it throws.  The text stands for the value.
Convert(node, T) ==
    CASE node.kind = "scalar" /\ (T = "string" \/ node.text \in Decodes[T]) -> {node.text}
      [] node.kind = "null" /\ T = "string" -> {"null"}
      [] OTHER -> {}

\* as<T>(), also of a container: the iterators skip what is undefined, and one
\* entry that throws loses the answer.
As(memory, id, shape, T) ==
    LET sub == memory[id].sub
        entries == {k \in DOMAIN sub : memory[sub[k]].kind # "undefined"}
        each == [k \in entries |-> Convert(memory[sub[k]], T)]
    IN  CASE shape = "value" -> Convert(memory[id], T)
          [] shape = memory[id].kind /\ \A k \in entries : each[k] # {} -> {each}
          [] OTHER -> {}

\* The nodes after param_file_[father][child], as far as it got.
Visited(memory, root, father, child) ==
    LET one == Subscript(memory, root, father)
        id == one[root].sub[father]
    IN  IF memory[root].kind \in {"undefined", "scalar"} THEN memory
        ELSE IF Throws(one[id]) THEN one
        ELSE Subscript(one, id, child)

\* GetParam<T>(): every exception of yaml-cpp ends in nullopt.
GetParam(father, child, shape, T) ==
    LET root == param_file_.root
        now == Visited(param_file_.memory, root, father, child)
        node == now[root].sub[father]
        leaf == now[node].sub[child]
        found == /\ param_file_.memory[root].kind \notin {"undefined", "scalar"}
                 /\ ~Throws(now[node])
                 /\ now[leaf].kind # "undefined"
    IN  /\ param_file_' = Document(now, root)
        /\ asked' = [father |-> father, child |-> child, shape |-> shape, T |-> T,
                     answer |-> IF found THEN As(now, leaf, shape, T) ELSE {}]
        /\ UNCHANGED document

Next ==
    \/ \E file \in DOMAIN Files : LoadFile(file) \/ LoadFails(file)
    \/ \E father, child \in Keys, shape \in Shapes, T \in Types :
          GetParam(father, child, shape, T)

Spec == Init /\ [][Next]_vars

-----------------------------------------------------------------------------
(* Properties                                                              *)

\* What the document says under father and child.
Has(id, key) == key \in DOMAIN document.memory[id].sub
Below(id, key) == document.memory[id].sub[key]
Known(father, child) == Has(document.root, father) /\ Has(Below(document.root, father), child)
Leaf(father, child) == Below(Below(document.root, father), child)
Lookup(father, child, shape, T) ==
    IF Known(father, child) THEN As(document.memory, Leaf(father, child), shape, T) ELSE {}

\* The nodes a read subscripts, and those of them that it makes a map of.
Fathers == {document.root} \cup
           {Below(document.root, key) : key \in DOMAIN document.memory[document.root].sub}
Turned(id) == id \in Fathers /\ document.memory[id].kind \in {"null", "sequence"}

\* An alias: the value, or an entry of it, is such a node at the same time.
Reused(father, child) ==
    /\ Known(father, child)
    /\ LET leaf == Leaf(father, child) IN
       Turned(leaf) \/ \E key \in DOMAIN document.memory[leaf].sub : Turned(Below(leaf, key))

\* GetParam() answers what the file says that was read last, an empty file
\* included, however often and for whatever keys it was called since, although
\* each call may change the nodes; a load that failed without an assignment
\* changes nothing.  The exception is a null or a sequence that an alias makes
\* the value of one key and the father of others: a read of those turns it
\* into a map, and the answer for the value changes.
AnswersMatchFile ==
    asked # Nothing =>
        \/ asked.answer = Lookup(asked.father, asked.child, asked.shape, asked.T)
        \/ Reused(asked.father, asked.child)
=============================================================================
