---------------------------- MODULE ConfigProofs ----------------------------
(***************************************************************************)
(* Theorems about Config, for any files, keys and types.                   *)
(***************************************************************************)
EXTENDS Config, TLAPS

Size == Len(document.memory)

\* What the parser made of the file, as far as the proofs need it.
DocumentInv ==
    /\ document.memory \in Seq(Nodes(Nat))
    /\ document.root \in 1..Size
    /\ \A id \in 1..Size :
          LET node == document.memory[id] IN
          /\ node.kind # "undefined"
          /\ node.kind = "scalar" => DOMAIN node.sub = {}
          /\ \A key \in DOMAIN node.sub : node.sub[key] \in 1..Size

\* A node of the file: it keeps its text and its edges, and its kind if it is
\* not Turned; what it got leads to nodes that are not of the file.
Kept(memory, id) ==
    LET node == memory[id]
        old == document.memory[id]
    IN  /\ node.text = old.text
        /\ node.kind = old.kind \/ (Turned(id) /\ node.kind = "map")
        /\ \A key \in DOMAIN old.sub : key \in DOMAIN node.sub /\ node.sub[key] = old.sub[key]
        /\ \A key \in DOMAIN node.sub \ DOMAIN old.sub : node.sub[key] > Size

\* A node that a read made: undefined, with edges to its like.
Made(memory, id) ==
    /\ memory[id].kind = "undefined"
    /\ \A key \in DOMAIN memory[id].sub : memory[id].sub[key] > Size

\* What reads make of the nodes of the file.
Grown(memory) ==
    /\ memory \in Seq(Nodes(Nat))
    /\ Size <= Len(memory)
    /\ \A id \in 1..Len(memory) :
          /\ \A key \in DOMAIN memory[id].sub : memory[id].sub[key] \in 1..Len(memory)
          /\ IF id <= Size THEN Kept(memory, id) ELSE Made(memory, id)

\* What the proof of AnswersMatchFile needs to be inductive.
IInv ==
    /\ DocumentInv
    /\ Grown(param_file_.memory)
    /\ param_file_.root = document.root
    /\ AnswersMatchFile

-----------------------------------------------------------------------------
\* The sets of nodes, opened once.
LEMMA NodeFields ==
  ASSUME NEW node \in Nodes(Nat)
  PROVE  /\ node.kind \in Kinds /\ node.text \in Texts \cup {""}
         /\ DOMAIN node.sub \subseteq Keys
         /\ node.sub \in [DOMAIN node.sub -> Nat]
<1>1. node.kind \in Kinds /\ node.text \in Texts \cup {""} /\ node.sub \in Edges(Nat)
  BY DEF Nodes
<1>2. PICK some \in SUBSET Keys : node.sub \in [some -> Nat]
  BY <1>1 DEF Edges
<1> QED
  BY <1>1, <1>2

LEMMA EdgesIntro ==
  ASSUME NEW sub, DOMAIN sub \subseteq Keys, sub \in [DOMAIN sub -> Nat]
  PROVE  sub \in Edges(Nat)
<1>1. DOMAIN sub \in SUBSET Keys
  OBVIOUS
<1> QED
  BY <1>1 DEF Edges

LEMMA UndefinedNode ==
  /\ Undefined \in Nodes(Nat)
  /\ Undefined.kind = "undefined"
  /\ DOMAIN Undefined.sub = {}
<1>1. DOMAIN << >> = {}
  OBVIOUS
<1>2. << >> = [key \in DOMAIN << >> |-> << >>[key]]
  OBVIOUS
<1>3. << >> \in [{} -> Nat]
  BY <1>1, <1>2
<1>4. "undefined" \in Kinds
  BY DEF Kinds
<1>5. << >> \in Edges(Nat)
  BY <1>1, <1>3, EdgesIntro
<1> QED
  BY <1>1, <1>4, <1>5 DEF Undefined, Node, Nodes

\* One subscript: the node becomes a map, or stays undefined; it gets the key,
\* if it did not have it, with a new undefined node; nothing else changes.
LEMMA SubscriptStep ==
  ASSUME NEW memory \in Seq(Nodes(Nat)), NEW id \in 1..Len(memory), NEW key \in Keys
  PROVE  LET new == Subscript(memory, id, key)
             node == memory[id]
         IN  /\ new \in Seq(Nodes(Nat))
             /\ Len(new) = IF key \in DOMAIN node.sub THEN Len(memory) ELSE Len(memory) + 1
             /\ \A other \in 1..Len(memory) : other # id => new[other] = memory[other]
             /\ new[id].kind = IF node.kind = "undefined" THEN "undefined" ELSE "map"
             /\ new[id].text = node.text
             /\ DOMAIN new[id].sub = DOMAIN node.sub \cup {key}
             /\ \A k \in DOMAIN node.sub : new[id].sub[k] = node.sub[k]
             /\ key \notin DOMAIN node.sub =>
                   /\ new[id].sub[key] = Len(memory) + 1
                   /\ new[Len(memory) + 1] = Undefined
<1> DEFINE node == memory[id]
           n == Len(memory) + 1
           kind == IF node.kind = "undefined" THEN "undefined" ELSE "map"
           sub == [k \in DOMAIN node.sub \cup {key} |->
                      IF k \in DOMAIN node.sub THEN node.sub[k] ELSE n]
           changed == Node(kind, node.text, sub)
           with == [memory EXCEPT ![id] = changed]
           new == Subscript(memory, id, key)
<1>1. new = IF key \in DOMAIN node.sub THEN with ELSE Append(with, Undefined)
  BY DEF Subscript
<1>2. node \in Nodes(Nat)
  OBVIOUS
<1>3. /\ node.text \in Texts \cup {""} /\ DOMAIN node.sub \subseteq Keys
      /\ node.sub \in [DOMAIN node.sub -> Nat]
  BY <1>2, NodeFields
<1>4. n \in Nat
  OBVIOUS
<1>5. kind \in Kinds
  BY DEF Kinds
<1>6. /\ sub \in [DOMAIN node.sub \cup {key} -> Nat]
      /\ \A k \in DOMAIN node.sub : sub[k] = node.sub[k]
      /\ key \notin DOMAIN node.sub => sub[key] = n
  BY <1>3, <1>4
<1> HIDE DEF kind, sub, node
<1>7. /\ changed \in Nodes(Nat) /\ changed.kind = kind
      /\ changed.text = node.text /\ changed.sub = sub
  <2>1. DOMAIN sub \subseteq Keys /\ sub \in [DOMAIN sub -> Nat]
    BY <1>3, <1>6
  <2> QED
    BY <1>3, <1>5, <2>1, EdgesIntro DEF changed, Node, Nodes
<1> HIDE DEF changed
<1>8. /\ with \in Seq(Nodes(Nat)) /\ Len(with) = Len(memory) /\ with[id] = changed
      /\ \A other \in 1..Len(memory) : other # id => with[other] = memory[other]
  BY <1>7
<1> HIDE DEF with, n
<1>9. /\ Append(with, Undefined) \in Seq(Nodes(Nat))
      /\ Len(Append(with, Undefined)) = Len(memory) + 1
      /\ \A other \in 1..Len(memory) : Append(with, Undefined)[other] = with[other]
      /\ Append(with, Undefined)[Len(memory) + 1] = Undefined
  BY <1>8, UndefinedNode
<1> HIDE DEF new
<1>10. /\ new \in Seq(Nodes(Nat))
       /\ Len(new) = IF key \in DOMAIN node.sub THEN Len(memory) ELSE Len(memory) + 1
       /\ \A other \in 1..Len(memory) : new[other] = with[other]
       /\ key \notin DOMAIN node.sub => new[Len(memory) + 1] = Undefined
  BY <1>1, <1>8, <1>9
<1>11. new[id] = changed
  BY <1>8, <1>10
<1>12. DOMAIN new[id].sub = DOMAIN node.sub \cup {key}
  BY <1>6, <1>7, <1>11
<1>13. \A k \in DOMAIN node.sub : new[id].sub[k] = node.sub[k]
  BY <1>6, <1>7, <1>11
<1>14. key \notin DOMAIN node.sub => new[id].sub[key] = Len(memory) + 1
  BY <1>6, <1>7, <1>11 DEF n
<1>15. new[id].kind = kind /\ new[id].text = node.text
  BY <1>7, <1>11
<1>16. \A other \in 1..Len(memory) : other # id => new[other] = memory[other]
  BY <1>8, <1>10
<1> QED
  BY <1>10, <1>12, <1>13, <1>14, <1>15, <1>16 DEF new, node, kind
\* One subscript of a node that may be turned: what was read from the file is kept.
LEMMA SubscriptGrows ==
  ASSUME DocumentInv, NEW memory, Grown(memory), NEW id \in 1..Len(memory), NEW key \in Keys,
         ~Throws(memory[id]), id <= Size => id \in Fathers
  PROVE  LET new == Subscript(memory, id, key)
         IN  /\ Grown(new) /\ Len(new) >= Len(memory)
             /\ new[id].kind \in {"map", "undefined"}
             /\ key \in DOMAIN new[id].sub
             /\ \A other \in 1..Len(memory) : \A k \in DOMAIN memory[other].sub :
                   k \in DOMAIN new[other].sub /\ new[other].sub[k] = memory[other].sub[k]
<1> DEFINE new == Subscript(memory, id, key)
<1>1. memory \in Seq(Nodes(Nat)) /\ Size <= Len(memory) /\ Size \in Nat
  BY DEF Grown, DocumentInv, Size
<1>2. /\ new \in Seq(Nodes(Nat))
      /\ Len(new) = IF key \in DOMAIN memory[id].sub THEN Len(memory) ELSE Len(memory) + 1
      /\ \A other \in 1..Len(memory) : other # id => new[other] = memory[other]
      /\ new[id].kind = IF memory[id].kind = "undefined" THEN "undefined" ELSE "map"
      /\ new[id].text = memory[id].text
      /\ DOMAIN new[id].sub = DOMAIN memory[id].sub \cup {key}
      /\ \A k \in DOMAIN memory[id].sub : new[id].sub[k] = memory[id].sub[k]
      /\ key \notin DOMAIN memory[id].sub =>
            /\ new[id].sub[key] = Len(memory) + 1
            /\ new[Len(memory) + 1] = Undefined
  BY <1>1, SubscriptStep
<1> HIDE DEF new
<1>3. Len(memory) \in Nat /\ Len(new) \in Nat /\ Len(new) >= Len(memory)
  BY <1>1, <1>2
<1>4. \A k \in DOMAIN new[id].sub :
         k \in DOMAIN memory[id].sub \/ (k = key /\ new[id].sub[k] = Len(memory) + 1)
  BY <1>2
<1>5. ASSUME NEW other \in 1..Len(new)
      PROVE  /\ \A k \in DOMAIN new[other].sub : new[other].sub[k] \in 1..Len(new)
             /\ IF other <= Size THEN Kept(new, other) ELSE Made(new, other)
  <2>1. CASE other = id
    <3>1. /\ \A k \in DOMAIN memory[id].sub : memory[id].sub[k] \in 1..Len(memory)
          /\ IF id <= Size THEN Kept(memory, id) ELSE Made(memory, id)
      BY DEF Grown
    <3>2. ASSUME NEW k \in DOMAIN new[id].sub PROVE new[id].sub[k] \in 1..Len(new)
      <4>1. CASE k \in DOMAIN memory[id].sub
        BY <1>2, <1>3, <3>1, <4>1
      <4>2. CASE k \notin DOMAIN memory[id].sub
        <5>1. k = key /\ new[id].sub[k] = Len(memory) + 1
          BY <1>4, <4>2
        <5> QED
          BY <1>2, <1>3, <4>2, <5>1
      <4> QED
        BY <4>1, <4>2
    <3>3. CASE id <= Size
      <4>1. Kept(memory, id) /\ id \in Fathers /\ memory[id].kind # "scalar"
        BY <3>1, <3>3 DEF Throws
      <4> DEFINE old == document.memory[id]
      <4>2. old.kind # "undefined" /\ id \in 1..Size
        BY <1>1, <3>3 DEF DocumentInv
      <4>3. old.kind \in Kinds
        <5>1. document.memory \in Seq(Nodes(Nat)) /\ id \in 1..Len(document.memory)
          BY <4>2 DEF DocumentInv, Size
        <5>2. old \in Nodes(Nat)
          BY <5>1
        <5> QED
          BY <5>2, NodeFields
      <4>4. memory[id].kind = old.kind \/ (Turned(id) /\ memory[id].kind = "map")
        BY <4>1 DEF Kept
      <4>5. new[id].kind = "map"
        BY <1>2, <4>2, <4>4
      <4>6. new[id].kind = old.kind \/ (Turned(id) /\ new[id].kind = "map")
        BY <4>1, <4>2, <4>3, <4>4, <4>5 DEF Kinds, Turned
      <4>7. \A k \in DOMAIN old.sub :
               k \in DOMAIN new[id].sub /\ new[id].sub[k] = old.sub[k]
        BY <1>2, <4>1 DEF Kept
      <4>8. \A k \in DOMAIN new[id].sub \ DOMAIN old.sub : new[id].sub[k] > Size
        <5>1. \A k \in DOMAIN memory[id].sub \ DOMAIN old.sub : memory[id].sub[k] > Size
          BY <4>1 DEF Kept
        <5> HIDE DEF old
        <5> QED
          BY <1>1, <1>2, <1>3, <1>4, <5>1
      <4>9. new[id].text = old.text
        BY <1>2, <4>1 DEF Kept
      <4>10. Kept(new, id)
        BY <4>6, <4>7, <4>8, <4>9 DEF Kept
      <4> QED
        BY <2>1, <3>2, <3>3, <4>10
    <3>4. CASE ~(id <= Size)
      <4>1. /\ memory[id].kind = "undefined"
            /\ \A k \in DOMAIN memory[id].sub : memory[id].sub[k] > Size
        BY <3>1, <3>4 DEF Made
      <4>2. \A k \in DOMAIN new[id].sub : new[id].sub[k] > Size
        BY <1>1, <1>2, <1>3, <1>4, <4>1
      <4>3. Made(new, id)
        BY <1>2, <4>1, <4>2 DEF Made
      <4> QED
        BY <2>1, <3>2, <3>4, <4>3
    <3> QED
      BY <3>3, <3>4
  <2>2. CASE other # id /\ other \in 1..Len(memory)
    <3>1. new[other] = memory[other]
      BY <1>2, <2>2
    <3>2. /\ \A k \in DOMAIN memory[other].sub : memory[other].sub[k] \in 1..Len(memory)
          /\ IF other <= Size THEN Kept(memory, other) ELSE Made(memory, other)
      BY <2>2 DEF Grown
    <3>3. Kept(memory, other) => Kept(new, other)
      BY <3>1 DEF Kept
    <3>4. Made(memory, other) => Made(new, other)
      BY <3>1 DEF Made
    <3>5. \A k \in DOMAIN new[other].sub : new[other].sub[k] \in 1..Len(new)
      BY <1>3, <3>1, <3>2
    <3> QED
      BY <3>2, <3>3, <3>4, <3>5
  <2>3. CASE other \notin 1..Len(memory)
    <3>1. other = Len(memory) + 1 /\ key \notin DOMAIN memory[id].sub
      BY <1>2, <1>3, <2>3
    <3>2. new[other] = Undefined
      BY <1>2, <3>1
    <3>3. ~(other <= Size)
      BY <1>1, <1>3, <3>1
    <3>4. new[other].kind = "undefined" /\ DOMAIN new[other].sub = {}
      BY <3>2, UndefinedNode
    <3>5. Made(new, other)
      BY <3>4 DEF Made
    <3> QED
      BY <3>3, <3>4, <3>5
  <2> QED
    BY <2>1, <2>2, <2>3
<1>6. Grown(new)
  BY <1>1, <1>2, <1>3, <1>5 DEF Grown
<1>7. \A other \in 1..Len(memory) : \A k \in DOMAIN memory[other].sub :
         k \in DOMAIN new[other].sub /\ new[other].sub[k] = memory[other].sub[k]
  BY <1>2
<1>8. new[id].kind \in {"map", "undefined"} /\ key \in DOMAIN new[id].sub
  BY <1>2
<1> QED
  BY <1>3, <1>6, <1>7, <1>8 DEF new

\* A value of the file that is not turned, nor any entry of it, converts as in
\* the file: the entries it got are undefined.
LEMMA SameAnswer ==
  ASSUME DocumentInv, NEW memory, Grown(memory), NEW id \in 1..Size, ~Turned(id),
         \A key \in DOMAIN document.memory[id].sub : ~Turned(Below(id, key)),
         NEW shape, NEW T
  PROVE  As(memory, id, shape, T) = As(document.memory, id, shape, T)
<1> DEFINE old == document.memory
           before == {k \in DOMAIN old[id].sub : old[old[id].sub[k]].kind # "undefined"}
           after == {k \in DOMAIN memory[id].sub :
                        memory[memory[id].sub[k]].kind # "undefined"}
<1>1. Size \in Nat /\ Len(memory) \in Nat /\ Size <= Len(memory)
  BY DEF Grown, DocumentInv, Size
<1>2. ASSUME NEW i \in 1..Size, ~Turned(i)
      PROVE  /\ memory[i].kind = old[i].kind /\ memory[i].text = old[i].text
             /\ \A R : Convert(memory[i], R) = Convert(old[i], R)
  <2>1. Kept(memory, i)
    BY <1>1 DEF Grown
  <2>2. memory[i].kind = old[i].kind /\ memory[i].text = old[i].text
    BY <1>2, <2>1 DEF Kept
  <2> QED
    BY <2>2 DEF Convert
<1>3. Kept(memory, id)
  BY <1>1 DEF Grown
<1>4. ASSUME NEW k \in DOMAIN old[id].sub
      PROVE  /\ k \in before /\ k \in after
             /\ \A R : Convert(memory[memory[id].sub[k]], R) = Convert(old[old[id].sub[k]], R)
  <2>1. k \in DOMAIN memory[id].sub /\ memory[id].sub[k] = old[id].sub[k]
    BY <1>3 DEF Kept
  <2>2. old[id].sub[k] \in 1..Size /\ ~Turned(old[id].sub[k])
    BY DEF DocumentInv, Below
  <2>3. old[old[id].sub[k]].kind # "undefined"
    BY <2>2 DEF DocumentInv
  <2> QED
    BY <1>2, <2>1, <2>2, <2>3
<1>5. ASSUME NEW k \in DOMAIN memory[id].sub, k \notin DOMAIN old[id].sub
      PROVE  k \notin after
  <2>1. memory[id].sub[k] > Size
    BY <1>3, <1>5 DEF Kept
  <2>2. memory[id].sub[k] \in 1..Len(memory)
    BY <1>1 DEF Grown
  <2>3. Made(memory, memory[id].sub[k])
    BY <1>1, <2>1, <2>2 DEF Grown
  <2> QED
    BY <2>3 DEF Made
<1>6. before = DOMAIN old[id].sub /\ after = DOMAIN old[id].sub
  BY <1>4, <1>5
<1>7. [k \in after |-> Convert(memory[memory[id].sub[k]], T)]
        = [k \in before |-> Convert(old[old[id].sub[k]], T)]
  BY <1>4, <1>6
<1>8. memory[id].kind = old[id].kind /\ Convert(memory[id], T) = Convert(old[id], T)
  BY <1>2
<1> HIDE DEF before, after
<1> DEFINE each == [k \in after |-> Convert(memory[memory[id].sub[k]], T)]
           was == [k \in before |-> Convert(old[old[id].sub[k]], T)]
<1>9. As(memory, id, shape, T) =
        CASE shape = "value" -> Convert(memory[id], T)
          [] shape = memory[id].kind /\ (\A k \in after : each[k] # {}) -> {each}
          [] OTHER -> {}
  BY DEF As, after
<1>10. As(old, id, shape, T) =
        CASE shape = "value" -> Convert(old[id], T)
          [] shape = old[id].kind /\ (\A k \in before : was[k] # {}) -> {was}
          [] OTHER -> {}
  BY DEF As, before
<1>11. after = before /\ each = was
  BY <1>6, <1>7
<1> HIDE DEF each, was
<1> QED
  BY <1>8, <1>9, <1>10, <1>11
\* One read keeps what was read from the file, and answers what the file says
\* unless the value is reused.
LEMMA ReadStep ==
  ASSUME DocumentInv, Grown(param_file_.memory), param_file_.root = document.root,
         NEW f \in Keys, NEW c \in Keys, NEW shape, NEW T, GetParam(f, c, shape, T)
  PROVE  /\ Grown(param_file_'.memory) /\ param_file_'.root = document.root
         /\ asked' = [father |-> f, child |-> c, shape |-> shape, T |-> T,
                      answer |-> asked'.answer]
         /\ asked'.answer = Lookup(f, c, shape, T) \/ Reused(f, c)
<1> DEFINE memory == param_file_.memory
           root == document.root
           one == Subscript(memory, root, f)
           id == one[root].sub[f]
           now == Visited(memory, root, f, c)
           leaf == now[now[root].sub[f]].sub[c]
           found == /\ memory[root].kind \notin {"undefined", "scalar"}
                    /\ ~Throws(now[now[root].sub[f]])
                    /\ now[leaf].kind # "undefined"
           answer == IF found THEN As(now, leaf, shape, T) ELSE {}
           old == document.memory
<1>1. /\ param_file_' = Document(now, root)
      /\ asked' = [father |-> f, child |-> c, shape |-> shape, T |-> T, answer |-> answer]
  BY DEF GetParam
<1>2. param_file_'.memory = now /\ param_file_'.root = root
  BY <1>1 DEF Document
<1>3. /\ asked'.answer = answer
      /\ asked' = [father |-> f, child |-> c, shape |-> shape, T |-> T,
                   answer |-> asked'.answer]
  <2> HIDE DEF answer
  <2> QED
    BY <1>1
<1>4. now = IF memory[root].kind \in {"undefined", "scalar"} THEN memory
            ELSE IF Throws(one[id]) THEN one
            ELSE Subscript(one, id, c)
  BY DEF Visited
<1>5. /\ root \in 1..Size /\ Size \in Nat /\ Len(memory) \in Nat /\ Size <= Len(memory)
      /\ root \in 1..Len(memory) /\ root \in Fathers /\ memory \in Seq(Nodes(Nat))
  BY DEF DocumentInv, Grown, Size, Fathers
<1>6. Kept(memory, root)
  BY <1>5 DEF Grown
<1> HIDE DEF memory, now, answer
<1> SUFFICES Grown(now) /\ (answer = Lookup(f, c, shape, T) \/ Reused(f, c))
  BY <1>2, <1>3
<1> USE DEF answer
<1>7. ASSUME ~Known(f, c) PROVE Lookup(f, c, shape, T) = {}
  BY <1>7 DEF Lookup
<1>8. CASE memory[root].kind \in {"undefined", "scalar"}
  <2>1. now = memory
    BY <1>4, <1>8
  <2>2. old[root].kind = "scalar"
    BY <1>5, <1>6, <1>8 DEF Kept, DocumentInv
  <2>3. ~Known(f, c)
    BY <1>5, <2>2 DEF DocumentInv, Known, Has
  <2>4. answer = {}
    BY <1>8
  <2>5. Grown(now)
    BY <2>1 DEF memory
  <2> QED
    BY <1>7, <2>3, <2>4, <2>5
<1>9. CASE memory[root].kind \notin {"undefined", "scalar"}
  <2> HIDE DEF found
  <2>1. Grown(memory) /\ ~Throws(memory[root])
    BY <1>9 DEF memory, Throws
  <2>2. /\ Grown(one) /\ Len(one) >= Len(memory) /\ f \in DOMAIN one[root].sub
    BY <1>5, <2>1, SubscriptGrows
  <2>3. /\ Len(one) \in Nat /\ root \in 1..Len(one) /\ Size <= Len(one)
        /\ Kept(one, root) /\ id \in 1..Len(one)
        /\ IF id <= Size THEN Kept(one, id) ELSE Made(one, id)
    BY <1>5, <2>2 DEF Grown
  <2> HIDE DEF one
  <2>4. CASE Has(root, f)
    <3>1. id = Below(root, f) /\ id \in 1..Size /\ id \in Fathers
      BY <1>5, <2>3, <2>4 DEF Kept, Has, Below, DocumentInv, Fathers
    <3> HIDE DEF id
    <3>2. Kept(one, id)
      BY <1>5, <2>3, <3>1
    <3>3. CASE Throws(one[id])
      <4>1. now = one
        BY <1>4, <1>9, <3>3
      <4>2. old[id].kind = "scalar"
        BY <3>2, <3>3 DEF Kept, Throws
      <4>3. ~Known(f, c)
        BY <3>1, <4>2 DEF DocumentInv, Known, Has
      <4>4. ~found
        BY <3>3, <4>1 DEF found, id
      <4> QED
        BY <1>7, <2>2, <4>1, <4>3, <4>4
    <3>4. CASE ~Throws(one[id])
      <4>1. now = Subscript(one, id, c)
        BY <1>4, <1>9, <3>4
      <4>2. /\ Grown(now) /\ Len(now) >= Len(one)
            /\ now[id].kind \in {"map", "undefined"} /\ c \in DOMAIN now[id].sub
            /\ now[root].sub[f] = one[root].sub[f]
        BY <2>2, <2>3, <3>1, <3>4, <4>1, SubscriptGrows
      <4>3. /\ now[root].sub[f] = id /\ leaf = now[id].sub[c] /\ ~Throws(now[id])
            /\ Len(now) \in Nat /\ Kept(now, id) /\ leaf \in 1..Len(now)
        <5>1. now[root].sub[f] = id
          BY <4>2 DEF id
        <5>2. Len(now) \in Nat /\ id \in 1..Len(now)
          BY <2>3, <3>1, <4>2 DEF Grown
        <5>3. Kept(now, id) /\ now[id].sub[c] \in 1..Len(now)
          BY <3>1, <4>2, <5>2 DEF Grown
        <5> QED
          BY <4>2, <5>1, <5>2, <5>3 DEF Throws
      <4> HIDE DEF leaf
      <4>4. CASE Has(id, c)
        <5>1. Known(f, c) /\ Leaf(f, c) = leaf /\ leaf \in 1..Size
          <6>1. leaf = Below(id, c)
            BY <4>3, <4>4 DEF Kept, Has, Below
          <6>2. Below(id, c) \in 1..Size
            BY <3>1, <4>4 DEF Has, Below, DocumentInv
          <6> QED
            BY <2>4, <3>1, <4>4, <6>1, <6>2 DEF Known, Leaf
        <5>2. Lookup(f, c, shape, T) = As(old, leaf, shape, T)
          BY <5>1 DEF Lookup
        <5>3. CASE Turned(leaf) \/ \E key \in DOMAIN old[leaf].sub : Turned(Below(leaf, key))
          BY <4>2, <5>1, <5>3 DEF Reused
        <5>4. CASE ~Turned(leaf) /\ \A key \in DOMAIN old[leaf].sub : ~Turned(Below(leaf, key))
          <6>1. As(now, leaf, shape, T) = As(old, leaf, shape, T)
            BY <4>2, <5>1, <5>4, SameAnswer
          <6>2. now[leaf].kind # "undefined"
            <7>1. Kept(now, leaf)
              BY <1>5, <4>2, <4>3, <5>1 DEF Grown
            <7> QED
              BY <5>1, <7>1 DEF Kept, DocumentInv
          <6>3. found
            BY <1>9, <4>3, <6>2 DEF found, leaf
          <6> QED
            BY <4>2, <5>2, <6>1, <6>3
        <5> QED
          BY <5>3, <5>4
      <4>5. CASE ~Has(id, c)
        <5>1. leaf > Size
          BY <4>2, <4>3, <4>5 DEF Kept, Has
        <5>2. now[leaf].kind = "undefined"
          BY <1>5, <4>2, <4>3, <5>1 DEF Grown, Made
        <5>3. ~found
          BY <5>2 DEF found, leaf
        <5>4. ~Known(f, c)
          BY <3>1, <4>5 DEF Known
        <5> QED
          BY <1>7, <4>2, <5>3, <5>4
      <4> QED
        BY <4>4, <4>5
    <3> QED
      BY <3>3, <3>4
  <2>5. CASE ~Has(root, f)
    <3>1. ~Known(f, c)
      BY <2>5 DEF Known
    <3>2. id > Size
      BY <2>2, <2>3, <2>5 DEF Kept, Has
    <3>3. Made(one, id)
      BY <1>5, <2>3, <3>2
    <3>4. ~Throws(one[id])
      BY <3>3 DEF Made, Throws
    <3> HIDE DEF id
    <3>5. now = Subscript(one, id, c)
      BY <1>4, <1>9, <3>4
    <3>6. /\ Grown(now) /\ Len(now) >= Len(one) /\ c \in DOMAIN now[id].sub
          /\ now[root].sub[f] = one[root].sub[f]
      BY <1>5, <2>2, <2>3, <3>2, <3>4, <3>5, SubscriptGrows
    <3>7. now[root].sub[f] = id
      BY <3>6 DEF id
    <3>8. Len(now) \in Nat /\ id \in 1..Len(now) /\ ~(id <= Size)
      BY <1>5, <2>3, <3>2, <3>6 DEF Grown
    <3>9. Made(now, id)
      BY <3>6, <3>8 DEF Grown
    <3>10. now[id].sub[c] > Size /\ now[id].sub[c] \in 1..Len(now)
      BY <3>6, <3>8, <3>9 DEF Grown, Made
    <3>11. now[now[id].sub[c]].kind = "undefined"
      BY <1>5, <3>6, <3>8, <3>10 DEF Grown, Made
    <3>12. ~found
      BY <3>7, <3>11 DEF found
    <3> QED
      BY <1>7, <3>1, <3>6, <3>12
  <2> QED
    BY <2>4, <2>5
<1> QED
  BY <1>8, <1>9

-----------------------------------------------------------------------------
\* What the parser leaves is what no read has touched.
LEMMA FreshInv ==
  IsDocument(document) /\ param_file_ = document =>
    DocumentInv /\ Grown(param_file_.memory) /\ param_file_.root = document.root
<1> SUFFICES ASSUME IsDocument(document), param_file_ = document
             PROVE  /\ DocumentInv /\ Grown(param_file_.memory)
                    /\ param_file_.root = document.root
  OBVIOUS
<1> DEFINE memory == document.memory
<1>1. memory \in Seq(Nodes(DOMAIN memory)) /\ document.root \in DOMAIN memory
  BY DEF IsDocument
<1>2. DOMAIN memory = 1..Len(memory) /\ Len(memory) \in Nat
  BY <1>1
<1>3. Nodes(DOMAIN memory) \subseteq Nodes(Nat)
  <2>1. Edges(DOMAIN memory) \subseteq Edges(Nat)
    BY <1>2 DEF Edges
  <2> QED
    BY <2>1 DEF Nodes
<1>4. memory \in Seq(Nodes(Nat))
  BY <1>1, <1>3
<1>5. ASSUME NEW id \in 1..Len(memory)
      PROVE  \A key \in DOMAIN memory[id].sub : memory[id].sub[key] \in 1..Len(memory)
  <2>1. memory[id] \in Nodes(DOMAIN memory)
    BY <1>1
  <2>2. memory[id].sub \in Edges(DOMAIN memory)
    BY <2>1 DEF Nodes
  <2> QED
    BY <1>2, <2>2 DEF Edges
<1>6. DocumentInv
  BY <1>1, <1>2, <1>4, <1>5 DEF DocumentInv, Size, IsDocument
<1>7. Grown(memory)
  BY <1>2, <1>4, <1>5 DEF Grown, Kept, Size
<1> QED
  BY <1>6, <1>7

\* What no file was read from is one null.
LEMMA InitIInv == Init => IInv
<1> SUFFICES ASSUME Init PROVE IInv
  OBVIOUS
<1> DEFINE null == Node("null", "", << >>)
<1>1. DOMAIN << >> = {}
  OBVIOUS
<1>2. << >> = [key \in DOMAIN << >> |-> << >>[key]]
  OBVIOUS
<1>3. << >> \in [{} -> {1}] /\ {} \in SUBSET Keys
  BY <1>1, <1>2
<1>4. << >> \in Edges({1})
  BY <1>3 DEF Edges
<1>5. null \in Nodes({1}) /\ null.kind = "null" /\ null.sub = << >>
  BY <1>4 DEF Node, Nodes, Kinds
<1> HIDE DEF null
<1>6. /\ <<null>> \in Seq(Nodes({1})) /\ DOMAIN <<null>> = {1} /\ <<null>>[1] = null
  BY <1>5
<1>7. /\ Empty.memory = <<null>> /\ Empty.root = 1
      /\ Empty = Document(Empty.memory, Empty.root)
  BY DEF Empty, Document, null
<1>8. IsDocument(Empty)
  BY <1>1, <1>5, <1>6, <1>7 DEF IsDocument
<1>9. AnswersMatchFile
  BY DEF Init, AnswersMatchFile
<1> QED
  BY <1>8, <1>9, FreshInv DEF Init, IInv

\* Every load and every read keeps the invariant.
LEMMA NextIInv == IInv /\ [Next]_vars => IInv'
<1> SUFFICES ASSUME IInv, [Next]_vars PROVE IInv'
  OBVIOUS
<1> USE DEF IInv
<1>1. ASSUME NEW file \in DOMAIN Files, LoadFile(file)
      PROVE  IInv'
  <2>1. IsDocument(Files[file])
    BY <1>1, ConfigAssumption DEF LoadFile
  <2>2. param_file_' = document' /\ IsDocument(document')
    BY <1>1, <2>1 DEF LoadFile
  <2>3. (IsDocument(document) /\ param_file_ = document =>
            DocumentInv /\ Grown(param_file_.memory) /\ param_file_.root = document.root)'
    BY FreshInv, PTL
  <2>4. AnswersMatchFile'
    BY <1>1 DEF LoadFile, AnswersMatchFile
  <2> QED
    BY <2>2, <2>3, <2>4
<1>2. ASSUME NEW f \in Keys, NEW c \in Keys, NEW shape, NEW T, GetParam(f, c, shape, T)
      PROVE  IInv'
  <2>1. /\ Grown(param_file_'.memory) /\ param_file_'.root = document.root
        /\ asked' = [father |-> f, child |-> c, shape |-> shape, T |-> T,
                     answer |-> asked'.answer]
        /\ asked'.answer = Lookup(f, c, shape, T) \/ Reused(f, c)
    BY <1>2, ReadStep
  <2>2. document' = document
    BY <1>2 DEF GetParam
  <2>3. DocumentInv'
    BY <2>2 DEF DocumentInv, Size
  <2>4. Grown(param_file_.memory)'
    BY <2>1, <2>2 DEF Grown, Kept, Made, Size, Turned, Fathers, Below
  <2>5. /\ Lookup(f, c, shape, T)' = Lookup(f, c, shape, T)
        /\ Reused(f, c)' = Reused(f, c)
    BY <2>2 DEF Lookup, Reused, Known, Leaf, Has, Below, Turned, Fathers
  <2>6. /\ asked'.father = f /\ asked'.child = c /\ asked'.shape = shape /\ asked'.T = T
    BY <2>1
  <2>7. AnswersMatchFile'
    BY <2>1, <2>5, <2>6 DEF AnswersMatchFile
  <2> QED
    BY <2>1, <2>2, <2>3, <2>4, <2>7
<1>3. CASE UNCHANGED vars
  <2>1. param_file_' = param_file_ /\ document' = document /\ asked' = asked
    BY <1>3 DEF vars
  <2>2. DocumentInv'
    BY <2>1 DEF DocumentInv, Size
  <2>3. Grown(param_file_.memory)'
    BY <2>1 DEF Grown, Kept, Made, Size, Turned, Fathers, Below
  <2>4. ASSUME NEW f, NEW c, NEW shape, NEW T
        PROVE  /\ Lookup(f, c, shape, T)' = Lookup(f, c, shape, T)
               /\ Reused(f, c)' = Reused(f, c)
    BY <2>1 DEF Lookup, Reused, Known, Leaf, Has, Below, Turned, Fathers
  <2>5. AnswersMatchFile'
    BY <2>1, <2>4 DEF AnswersMatchFile
  <2> QED
    BY <2>1, <2>2, <2>3, <2>5
<1> QED
  BY <1>1, <1>2, <1>3 DEF Next, LoadFails

\* GetParam() answers what the file says that was read last, however often it
\* was called and whatever the calls entered and turned into maps: for any
\* files, with any aliases, and any keys and types; but for the reused nulls
\* and sequences that AnswersMatchFile names.
THEOREM AnswersAreTheFile == Spec => []AnswersMatchFile
<1>1. IInv => AnswersMatchFile
  BY DEF IInv
<1> QED
  BY <1>1, InitIInv, NextIInv, PTL DEF Spec
=============================================================================
