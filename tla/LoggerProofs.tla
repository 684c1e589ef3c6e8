---------------------------- MODULE LoggerProofs ----------------------------
(***************************************************************************)
(* Theorems about Logger, for any processes, functions, number of days and *)
(* length of a day.                                                        *)
(***************************************************************************)
EXTENDS Logger, TLAPS, FiniteSetTheorems, SequenceTheorems, WellFoundedInduction

-----------------------------------------------------------------------------
(* Natural numbers, and what is defined step by step                       *)

Less == OpToRel(<, Nat)

\* A nonempty set of numbers has a smallest member.
LEMMA SmallestMember ==
    ASSUME NEW T, T \subseteq Nat, T # {}
    PROVE  \E x \in T : \A y \in T : x <= y
<1>1. \A x, y \in Nat : <<x, y>> \in Less <=> x < y
  BY DEF Less, OpToRel
<1>2. IsWellFoundedOn(Less, Nat)
  BY NatLessThanWellFounded DEF Less
<1>3. PICK x \in T : \A y \in T : ~ (<<y, x>> \in Less)
  BY <1>2, WFMin
<1>4. x \in Nat /\ \A y \in T : y \in Nat /\ ~ (y < x)
  BY <1>1, <1>3
<1> QED
  BY <1>4

\* A set that holds 0, and the next number with each it holds, holds them all.
LEMMA SetInduction ==
    ASSUME NEW T, 0 \in T, \A n \in Nat : n \in T => n + 1 \in T
    PROVE  Nat \subseteq T
<1> DEFINE B == Nat \ T
<1> SUFFICES ASSUME B # {} PROVE FALSE
  OBVIOUS
<1>1. PICK x \in B : \A y \in B : x <= y
  <2> B \subseteq Nat
    OBVIOUS
  <2> HIDE DEF B
  <2> QED
    BY SmallestMember
<1>2. x # 0 /\ x \in Nat
  OBVIOUS
<1>3. x - 1 \in T
  BY <1>1, <1>2
<1> QED
  BY <1>2, <1>3

\* The values that a step, a function of the place and of the value so far,
\* yields one after the other.
Computes(f, n, V, first, step) ==
    /\ f \in [0..n -> V] /\ f[0] = first
    /\ \A k \in 1..n : f[k] = step[k][f[k - 1]]

\* There is such a function, for every step.
LEMMA PrimitiveRecursion ==
    ASSUME NEW n \in Nat, NEW V, NEW first \in V, NEW step \in [1..n -> [V -> V]]
    PROVE  \E f : Computes(f, n, V, first, step)
<1> DEFINE T == {m \in Nat : m <= n => \E f : Computes(f, m, V, first, step)}
<1>1. 0 \in T
  <2> Computes([k \in 0..0 |-> first], 0, V, first, step)
    BY DEF Computes
  <2> QED
    BY Zenon
<1>2. ASSUME NEW m \in Nat, m \in T PROVE m + 1 \in T
  <2> SUFFICES ASSUME m + 1 <= n PROVE \E f : Computes(f, m + 1, V, first, step)
    OBVIOUS
  <2>1. PICK f : Computes(f, m, V, first, step)
    BY <1>2
  <2> DEFINE g == [k \in 0..m + 1 |-> IF k = m + 1 THEN step[m + 1][f[m]] ELSE f[k]]
  <2>2. m \in 0..m /\ m + 1 \in 1..n /\ f[m] \in V
    BY <2>1 DEF Computes
  <2>3. step[m + 1][f[m]] \in V
    BY <2>2
  <2>4. g \in [0..m + 1 -> V] /\ g[0] = first
    BY <2>1, <2>3 DEF Computes
  <2>5. ASSUME NEW k \in 1..m + 1 PROVE g[k] = step[k][g[k - 1]]
    <3>1. k - 1 \in 0..m /\ k - 1 # m + 1 /\ k \in 0..m + 1
      OBVIOUS
    <3>2. g[k - 1] = f[k - 1]
      BY <3>1
    <3>3. CASE k = m + 1
      <4>1. k - 1 = m /\ g[k] = step[m + 1][f[m]]
        BY <3>3
      <4> QED
        BY <3>2, <3>3, <4>1
    <3>4. CASE k # m + 1
      <4> k \in 1..m
        BY <3>4
      <4> QED
        BY <2>1, <3>1, <3>2, <3>4 DEF Computes
    <3> QED
      BY <3>3, <3>4
  <2>6. Computes(g, m + 1, V, first, step)
    BY <2>4, <2>5 DEF Computes
  <2> QED
    BY <2>6, Zenon
<1>3. n \in T
  <2> HIDE DEF T
  <2> QED
    BY <1>1, <1>2, SetInduction
<1> QED
  BY <1>3

LEMMA SeqIsFunction ==
    ASSUME NEW S, NEW s \in Seq(S)
    PROVE  s = [i \in 1..Len(s) |-> s[i]]
OBVIOUS

\* Laws of concatenation, for the sequences the files and queues are read as.
LEMMA Associative ==
    \A x, y, z \in Seq(Nat) : (x \o y) \o z = x \o (y \o z)
OBVIOUS

LEMMA ConcatIn == \A x, y \in Seq(Nat) : x \o y \in Seq(Nat)
OBVIOUS

LEMMA AppendOne ==
    ASSUME NEW S, NEW a \in Seq(S), NEW x \in S
    PROVE  a \o <<x>> = Append(a, x)
<1>1. Append(a, x) \in Seq(S) /\ Len(Append(a, x)) = Len(a) + 1
  OBVIOUS
<1>2. a \o <<x>> \in Seq(S) /\ Len(a \o <<x>>) = Len(a) + 1
  BY ConcatProperties
<1>3. \A i \in 1..Len(a) + 1 : (a \o <<x>>)[i] = Append(a, x)[i]
  OBVIOUS
<1> QED
  BY <1>1, <1>2, <1>3, SeqEqual

LEMMA AppendLast ==
    ASSUME NEW S, NEW a \in Seq(S), NEW b \in Seq(S), NEW x \in S
    PROVE  /\ a \o b \in Seq(S) /\ Append(b, x) \in Seq(S)
           /\ a \o Append(b, x) = Append(a \o b, x)
<1> DEFINE c == a \o b
<1>1. c \in Seq(S) /\ <<x>> \in Seq(S)
  OBVIOUS
<1>2. c \o <<x>> = a \o (b \o <<x>>)
  BY <1>1, ConcatAssociative
<1>3. b \o <<x>> = Append(b, x)
  BY AppendOne
<1>4. c \o <<x>> = Append(c, x)
  <2> HIDE DEF c
  <2> QED
    BY <1>1, AppendOne
<1> QED
  BY <1>1, <1>2, <1>3, <1>4

-----------------------------------------------------------------------------
(* What stands under a key                                                 *)

\* Pairs with second parts of one type.
Pairs(S, V) == \A x \in S : x[2] \in V

\* What stands under a key, place by place.
LEMMA UnderUpToIs ==
    ASSUME NEW S, NEW V, Pairs(S, V), NEW s \in Seq(S), NEW key
    PROVE  /\ UnderUpTo(s, key)[0] = << >>
           /\ \A k \in 1..Len(s) :
                /\ UnderUpTo(s, key)[k - 1] \in Seq(V) /\ s[k][2] \in V
                /\ UnderUpTo(s, key)[k] =
                     IF s[k][1] = key THEN Append(UnderUpTo(s, key)[k - 1], s[k][2])
                     ELSE UnderUpTo(s, key)[k - 1]
           /\ UnderUpTo(s, key)[Len(s)] \in Seq(V)
<1> DEFINE n == Len(s)
           W == Seq(V)
           step == [k \in 1..n |-> [v \in W |->
                      IF s[k][1] = key THEN Append(v, s[k][2]) ELSE v]]
           Is(f) == f = [k \in 0..n |->
                          IF k = 0 THEN << >>
                          ELSE IF s[k][1] = key THEN Append(f[k - 1], s[k][2])
                          ELSE f[k - 1]]
<1>1. n \in Nat /\ << >> \in W
  OBVIOUS
<1>2. \A k \in 1..n : s[k][2] \in V
  <2> TAKE k \in 1..n
  <2> s[k] \in S
    OBVIOUS
  <2> QED
    BY DEF Pairs
<1>3. step \in [1..n -> [W -> W]]
  BY <1>2
<1>4. \A k \in 1..n : \A v \in W : step[k][v] =
        IF s[k][1] = key THEN Append(v, s[k][2]) ELSE v
  <2> HIDE DEF W
  <2> QED
    OBVIOUS
<1>5. PICK f \in [0..n -> W] :
        f[0] = << >> /\ \A k \in 1..n : f[k] = step[k][f[k - 1]]
  <2> DEFINE first == << >>
  <2>1. first \in W
    BY <1>1
  <2>2. \E f : Computes(f, n, W, first, step)
    <3> HIDE DEF step, W, n, first
    <3> QED
      BY <1>1, <1>3, <2>1, PrimitiveRecursion
  <2> QED
    BY <2>2 DEF Computes
<1>6. \A k \in 1..n : k - 1 \in 0..n /\ k \in 0..n /\ k # 0
  BY <1>1
<1>7. Is(f)
  <2> HIDE DEF step, W
  <2>1. \A k \in 1..n : f[k - 1] \in W
    BY <1>5, <1>6
  <2>2. ASSUME NEW k \in 0..n
        PROVE  f[k] = IF k = 0 THEN << >>
                      ELSE IF s[k][1] = key THEN Append(f[k - 1], s[k][2])
                      ELSE f[k - 1]
    <3>1. CASE k = 0
      BY <1>5, <3>1
    <3>2. CASE k # 0
      <4> k \in 1..n
        BY <1>1, <3>2
      <4> QED
        BY <1>4, <1>5, <2>1, <3>2
    <3> QED
      BY <3>1, <3>2
  <2> QED
    BY <1>5, <2>2
<1>8. Is(UnderUpTo(s, key)) /\ UnderUpTo(s, key) = f
  <2>1. UnderUpTo(s, key) = CHOOSE g : Is(g)
    BY Zenon DEF UnderUpTo
  <2>2. ASSUME NEW g, Is(g) PROVE g = f
    <3> DEFINE T == {k \in Nat : k <= n => g[k] = f[k]}
    <3>1. 0 \in T
      BY <1>1, <1>5, <2>2
    <3>2. ASSUME NEW m \in Nat, m \in T PROVE m + 1 \in T
      <4> SUFFICES ASSUME m + 1 <= n, NEW k \in 1..n, k = m + 1 PROVE g[k] = f[k]
        BY <1>1
      <4>1. k - 1 = m /\ g[k - 1] = f[k - 1]
        BY <1>1, <3>2
      <4>2. g[k] = IF s[k][1] = key THEN Append(g[k - 1], s[k][2]) ELSE g[k - 1]
        BY <1>6, <2>2
      <4>3. f[k] = IF s[k][1] = key THEN Append(f[k - 1], s[k][2]) ELSE f[k - 1]
        BY <1>6, <1>7
      <4> QED
        BY <4>1, <4>2, <4>3
    <3>3. Nat \subseteq T
      <4> HIDE DEF T
      <4> QED
        BY <3>1, <3>2, SetInduction
    <3>4. \A k \in 0..n : g[k] = f[k]
      BY <1>1, <3>3
    <3> QED
      BY <1>5, <2>2, <3>4
  <2> HIDE DEF Is
  <2> QED
    BY <1>7, <2>1, <2>2
<1>9. \A k \in 1..n : f[k - 1] \in W
  BY <1>5, <1>6
<1>10. n \in 0..n /\ f[n] \in W
  BY <1>1, <1>5
<1> QED
  BY <1>2, <1>5, <1>6, <1>8, <1>9, <1>10

LEMMA UnderIs ==
    ASSUME NEW S, NEW V, Pairs(S, V), NEW s \in Seq(S), NEW key
    PROVE  Under(s, key) \in Seq(V)
BY UnderUpToIs DEF Under

\* One pair more.
LEMMA UnderMore ==
    ASSUME NEW S, NEW V, Pairs(S, V), NEW s \in Seq(S), NEW x \in S, NEW key
    PROVE  Under(Append(s, x), key) = IF x[1] = key THEN Append(Under(s, key), x[2])
                                      ELSE Under(s, key)
<1> DEFINE t == Append(s, x)
           n == Len(s)
           T == {k \in Nat : k <= n => UnderUpTo(t, key)[k] = UnderUpTo(s, key)[k]}
<1>1. /\ n \in Nat /\ t \in Seq(S) /\ Len(t) = n + 1
      /\ \A i \in 1..n : t[i] = s[i]
      /\ t[n + 1] = x
  OBVIOUS
<1> HIDE DEF t
<1>0. /\ UnderUpTo(t, key)[0] = << >>
      /\ \A k \in 1..Len(t) : UnderUpTo(t, key)[k] =
           IF t[k][1] = key THEN Append(UnderUpTo(t, key)[k - 1], t[k][2])
           ELSE UnderUpTo(t, key)[k - 1]
  BY <1>1, UnderUpToIs
<1>2. 0 \in T
  BY <1>0, UnderUpToIs
<1>3. ASSUME NEW m \in Nat, m \in T PROVE m + 1 \in T
  <2> SUFFICES ASSUME m + 1 <= n, NEW k \in 1..n, k = m + 1
               PROVE  UnderUpTo(t, key)[k] = UnderUpTo(s, key)[k]
    BY <1>1
  <2>1. k \in 1..Len(t) /\ t[k] = s[k]
    BY <1>1
  <2>2. UnderUpTo(t, key)[k] =
          IF t[k][1] = key THEN Append(UnderUpTo(t, key)[k - 1], t[k][2])
          ELSE UnderUpTo(t, key)[k - 1]
    BY <1>0, <2>1
  <2>3. UnderUpTo(s, key)[k] =
          IF s[k][1] = key THEN Append(UnderUpTo(s, key)[k - 1], s[k][2])
          ELSE UnderUpTo(s, key)[k - 1]
    BY UnderUpToIs
  <2>4. UnderUpTo(t, key)[k - 1] = UnderUpTo(s, key)[k - 1]
    <3> k - 1 = m /\ m <= n
      BY <1>1
    <3> QED
      BY <1>3
  <2> QED
    BY <2>1, <2>2, <2>3, <2>4
<1>4. Nat \subseteq T
  <2> HIDE DEF T
  <2> QED
    BY <1>2, <1>3, SetInduction
<1>5. UnderUpTo(t, key)[n] = UnderUpTo(s, key)[n]
  BY <1>1, <1>4
<1>6. PICK k \in 1..Len(t) : k = n + 1
  BY <1>1
<1>7. UnderUpTo(t, key)[k] =
        IF t[k][1] = key THEN Append(UnderUpTo(t, key)[k - 1], t[k][2])
        ELSE UnderUpTo(t, key)[k - 1]
  BY <1>0
<1>8. k - 1 = n /\ t[k] = x /\ k = Len(t)
  BY <1>1, <1>6
<1>9. Under(t, key) = UnderUpTo(t, key)[k] /\ Under(s, key) = UnderUpTo(s, key)[n]
  BY <1>8 DEF Under
<1> QED
  BY <1>5, <1>7, <1>8, <1>9 DEF t

LEMMA UnderNothing == \A key : Under(<< >>, key) = << >>
<1> SUFFICES ASSUME NEW key PROVE Under(<< >>, key) = << >>
  OBVIOUS
<1> DEFINE s == << >>
           none == {}
<1>1. s \in Seq(none) /\ Len(s) = 0 /\ Pairs(none, none)
  BY DEF Pairs
<1>2. UnderUpTo(s, key)[0] = << >>
  <2> HIDE DEF s, none
  <2> SUFFICES ASSUME NEW S, NEW V, Pairs(S, V), NEW t \in Seq(S)
               PROVE  UnderUpTo(t, key)[0] = << >>
    BY <1>1
  <2> QED
    BY UnderUpToIs
<1> HIDE DEF s, none
<1>3. Under(s, key) = << >>
  BY <1>1, <1>2 DEF Under
<1> QED
  BY <1>3 DEF s

\* Two sequences of pairs, one after the other.
LEMMA UnderJoined ==
    ASSUME NEW S, NEW V, Pairs(S, V), NEW s \in Seq(S), NEW t \in Seq(S), NEW key
    PROVE  Under(s \o t, key) = Under(s, key) \o Under(t, key)
<1> DEFINE n == Len(t)
           Start(k) == SubSeq(t, 1, k)
           T == {k \in Nat : k <= n =>
                   Under(s \o Start(k), key) = Under(s, key) \o Under(Start(k), key)}
<1>1. n \in Nat /\ Under(s, key) \in Seq(V)
  BY UnderIs
<1>2. 0 \in T
  <2>1. Start(0) = << >> /\ s \o << >> = s
    OBVIOUS
  <2>2. Under(s, key) \o << >> = Under(s, key)
    BY <1>1
  <2> QED
    BY <2>1, <2>2, UnderNothing
<1>3. ASSUME NEW m \in Nat, m \in T PROVE m + 1 \in T
  <2> SUFFICES ASSUME m + 1 <= n
               PROVE  Under(s \o Start(m + 1), key) = Under(s, key) \o Under(Start(m + 1), key)
    OBVIOUS
  <2>1. m + 1 \in 1..n /\ m <= n /\ t[m + 1] \in S
    BY <1>1
  <2> DEFINE start == Start(m)
             x == t[m + 1]
             before == s \o start
  <2>2. start \in Seq(S) /\ Start(m + 1) = Append(start, x)
    BY <2>1
  <2>3. Under(before, key) = Under(s, key) \o Under(start, key)
    BY <1>3, <2>1
  <2>4. x \in S
    BY <2>1
  <2>5. before \in Seq(S) /\ s \o Append(start, x) = Append(before, x)
    <3> HIDE DEF start, x
    <3> QED
      BY <2>2, <2>4, AppendLast
  <2> HIDE DEF start, x, before
  <2>6. Under(Append(before, x), key) =
          IF x[1] = key THEN Append(Under(before, key), x[2]) ELSE Under(before, key)
    BY <2>4, <2>5, UnderMore
  <2>7. Under(Append(start, x), key) =
          IF x[1] = key THEN Append(Under(start, key), x[2]) ELSE Under(start, key)
    BY <2>2, <2>4, UnderMore
  <2>8. Under(s, key) \o Append(Under(start, key), x[2])
          = Append(Under(s, key) \o Under(start, key), x[2])
    <3> DEFINE a == Under(s, key)
               b == Under(start, key)
               v == x[2]
    <3>1. a \in Seq(V) /\ b \in Seq(V) /\ v \in V
      BY <1>1, <2>2, <2>4, UnderIs DEF Pairs
    <3> HIDE DEF a, b, v
    <3>2. a \o Append(b, v) = Append(a \o b, v)
      BY <3>1, AppendLast
    <3> QED
      BY <3>2 DEF a, b, v
  <2> QED
    BY <2>2, <2>3, <2>5, <2>6, <2>7, <2>8
<1>4. Nat \subseteq T
  <2> HIDE DEF T
  <2> QED
    BY <1>2, <1>3, SetInduction
<1>5. Under(s \o Start(n), key) = Under(s, key) \o Under(Start(n), key)
  <2> n \in T /\ n <= n
    BY <1>1, <1>4
  <2> QED
    OBVIOUS
<1>6. Start(n) = t
  OBVIOUS
<1> QED
  BY <1>5, <1>6

\* When all pairs have the key, or none has it.
LEMMA UnderAll ==
    ASSUME NEW S, NEW V, Pairs(S, V), NEW s \in Seq(S), NEW key
    PROVE  /\ (\A i \in 1..Len(s) : s[i][1] = key) =>
                Under(s, key) = [i \in 1..Len(s) |-> s[i][2]]
           /\ (\A i \in 1..Len(s) : s[i][1] # key) => Under(s, key) = << >>
<1> DEFINE n == Len(s)
           f(k) == [i \in 1..k |-> s[i][2]]
           T == {k \in Nat : k <= n =>
                   /\ (\A i \in 1..n : s[i][1] = key) => UnderUpTo(s, key)[k] = f(k)
                   /\ (\A i \in 1..n : s[i][1] # key) => UnderUpTo(s, key)[k] = << >>}
<1>1. n \in Nat /\ f(0) = << >>
  OBVIOUS
<1>2. /\ UnderUpTo(s, key)[0] = << >>
      /\ \A k \in 1..n : UnderUpTo(s, key)[k] =
            IF s[k][1] = key THEN Append(UnderUpTo(s, key)[k - 1], s[k][2])
            ELSE UnderUpTo(s, key)[k - 1]
  BY UnderUpToIs
<1>3. ASSUME NEW m \in Nat, m + 1 <= n
      PROVE  Append(f(m), s[m + 1][2]) = f(m + 1)
  <2>1. \A i \in 1..n : s[i][2] \in V
    <3> \A i \in 1..n : s[i] \in S
      OBVIOUS
    <3> QED
      BY DEF Pairs
  <2>2. m + 1 \in 1..n /\ \A i \in 1..m + 1 : i \in 1..n
    BY <1>1, <1>3
  <2>3. /\ f(m) \in Seq(V) /\ Len(f(m)) = m /\ f(m + 1) \in Seq(V) /\ Len(f(m + 1)) = m + 1
        /\ s[m + 1][2] \in V
    BY <1>3, <2>1, <2>2
  <2> DEFINE a == f(m)
             b == f(m + 1)
             v == s[m + 1][2]
  <2>4. (\A i \in 1..m : a[i] = s[i][2]) /\ (\A i \in 1..m + 1 : b[i] = s[i][2])
    OBVIOUS
  <2>5. Append(a, v) \in Seq(V) /\ Len(Append(a, v)) = m + 1
        /\ \A i \in 1..m + 1 : Append(a, v)[i] = IF i = m + 1 THEN v ELSE a[i]
    <3> a \in Seq(V) /\ Len(a) = m /\ v \in V
      BY <2>3
    <3> HIDE DEF a, v
    <3> QED
      OBVIOUS
  <2>6. \A i \in 1..m + 1 : Append(a, v)[i] = b[i]
    <3> HIDE DEF a, b
    <3> QED
      BY <2>4, <2>5
  <2> DEFINE c == Append(a, v)
  <2>7. c \in Seq(V) /\ b \in Seq(V) /\ Len(c) = Len(b) /\ \A i \in 1..Len(c) : c[i] = b[i]
    BY <2>3, <2>5, <2>6
  <2> HIDE DEF a, b, c
  <2>8. c = b
    BY <2>7, SeqEqual
  <2> QED
    BY <2>8 DEF a, b, c
<1> HIDE DEF f
<1>4. 0 \in T
  BY <1>1, <1>2
<1>5. ASSUME NEW m \in Nat, m \in T PROVE m + 1 \in T
  <2> SUFFICES ASSUME m + 1 <= n, NEW k \in 1..n, k = m + 1
               PROVE  /\ (\A i \in 1..n : s[i][1] = key) => UnderUpTo(s, key)[k] = f(k)
                      /\ (\A i \in 1..n : s[i][1] # key) => UnderUpTo(s, key)[k] = << >>
    BY <1>1
  <2>1. k - 1 = m /\ m <= n
    BY <1>1
  <2>2. /\ (\A i \in 1..n : s[i][1] = key) => UnderUpTo(s, key)[k - 1] = f(m)
        /\ (\A i \in 1..n : s[i][1] # key) => UnderUpTo(s, key)[k - 1] = << >>
    BY <1>5, <2>1
  <2>3. Append(f(m), s[k][2]) = f(k)
    BY <1>3
  <2> QED
    BY <1>2, <2>2, <2>3
<1>6. Nat \subseteq T
  <2> HIDE DEF T
  <2> QED
    BY <1>4, <1>5, SetInduction
<1>7. /\ (\A i \in 1..n : s[i][1] = key) => UnderUpTo(s, key)[n] = f(n)
      /\ (\A i \in 1..n : s[i][1] # key) => UnderUpTo(s, key)[n] = << >>
  BY <1>1, <1>6
<1> QED
  BY <1>7 DEF Under, f

-----------------------------------------------------------------------------
(* What a queue holds                                                      *)

Kinds == {"info", "debug", "flush", "line"}
Line == Nat \X Seq(Nat)
Texts == {<< >>} \cup Line
QueueItem == [kind : Kinds, number : Nat, line : Texts]

\* The numbers of the records in a queue, and the evaluation logger's lines.
RecordsIn(queue) == Under(ByRecord(queue), TRUE)
LinesIn(queue) == Under(ByKind(queue), "line")

Numbered == BOOLEAN \X Nat
Lined == Kinds \X Texts

LEMMA PairsAre ==
    /\ Pairs(Numbered, Nat) /\ Pairs(Lined, Texts)
    /\ Pairs(Procs \X Nat, Nat) /\ Pairs(Procs \X Texts, Texts)
    /\ Pairs(Line, Seq(Nat))
<1> DEFINE L == Seq(Nat)
<1>1. Pairs(Numbered, Nat) /\ Pairs(Procs \X Nat, Nat)
  BY DEF Pairs, Numbered
<1>2. Pairs(Kinds \X Texts, Texts) /\ Pairs(Procs \X Texts, Texts)
  BY DEF Pairs
<1>3. Pairs(Nat \X L, L)
  <2> HIDE DEF L
  <2> QED
    BY DEF Pairs
<1> QED
  BY <1>1, <1>2, <1>3 DEF Lined, Line

\* A queue read as records, and as lines.
LEMMA QueueIs ==
    ASSUME NEW q \in Seq(QueueItem)
    PROVE  /\ ByRecord(q) \in Seq(Numbered) /\ Len(ByRecord(q)) = Len(q)
           /\ ByKind(q) \in Seq(Lined) /\ Len(ByKind(q)) = Len(q)
           /\ RecordsIn(q) \in Seq(Nat) /\ LinesIn(q) \in Seq(Texts)
<1>1. \A i \in 1..Len(q) : q[i].kind \in Kinds /\ q[i].number \in Nat /\ q[i].line \in Texts
  <2> TAKE i \in 1..Len(q)
  <2> q[i] \in QueueItem
    OBVIOUS
  <2> QED
    BY DEF QueueItem
<1>2. ByRecord(q) \in Seq(Numbered) /\ Len(ByRecord(q)) = Len(q)
  <2> DEFINE pair(i) == <<q[i].kind \in {"info", "debug"}, q[i].number>>
  <2>1. \A i \in 1..Len(q) : pair(i) \in Numbered
    <3> TAKE i \in 1..Len(q)
    <3>1. (q[i].kind \in {"info", "debug"}) \in BOOLEAN
      OBVIOUS
    <3> QED
      BY <1>1, <3>1 DEF Numbered
  <2> HIDE DEF pair
  <2>2. /\ [i \in 1..Len(q) |-> pair(i)] \in Seq(Numbered)
        /\ Len([i \in 1..Len(q) |-> pair(i)]) = Len(q)
    BY <2>1
  <2> QED
    BY <2>2 DEF ByRecord, pair
<1>3. ByKind(q) \in Seq(Lined) /\ Len(ByKind(q)) = Len(q)
  <2>1. \A i \in 1..Len(q) : <<q[i].kind, q[i].line>> \in Kinds \X Texts
    BY <1>1
  <2>2. ByKind(q) \in Seq(Kinds \X Texts) /\ Len(ByKind(q)) = Len(q)
    BY <2>1 DEF ByKind
  <2> QED
    BY <2>2 DEF Lined
<1> QED
  BY <1>2, <1>3, PairsAre, UnderIs DEF RecordsIn, LinesIn

LEMMA JoinedIs ==
    ASSUME NEW S, NEW a \in Seq(S), NEW b \in Seq(S), NEW c \in Seq(S),
           Len(c) = Len(a) + Len(b), \A i \in 1..Len(a) : c[i] = a[i],
           \A i \in 1..Len(b) : c[Len(a) + i] = b[i]
    PROVE  c = a \o b
<1> DEFINE ab == a \o b
<1>1. /\ ab \in Seq(S) /\ Len(ab) = Len(c)
      /\ \A i \in 1..Len(c) : ab[i] = IF i <= Len(a) THEN a[i] ELSE b[i - Len(a)]
  BY ConcatProperties
<1>2. \A i \in 1..Len(c) : ab[i] = c[i]
  <2> HIDE DEF ab
  <2> TAKE i \in 1..Len(c)
  <2>1. CASE i <= Len(a)
    BY <1>1, <2>1
  <2>2. CASE ~(i <= Len(a))
    <3>1. PICK j \in 1..Len(b) : j = i - Len(a) /\ i = Len(a) + j
      BY <2>2
    <3> QED
      BY <1>1, <2>2, <3>1
  <2> QED
    BY <2>1, <2>2
<1> HIDE DEF ab
<1>3. ab = c
  BY <1>1, <1>2, SeqEqual
<1> QED
  BY <1>3 DEF ab

\* One queue after the other.
LEMMA QueueJoined ==
    ASSUME NEW q \in Seq(QueueItem), NEW r \in Seq(QueueItem)
    PROVE  /\ q \o r \in Seq(QueueItem)
           /\ RecordsIn(q \o r) = RecordsIn(q) \o RecordsIn(r)
           /\ LinesIn(q \o r) = LinesIn(q) \o LinesIn(r)
<1> DEFINE s == q \o r
           Q == QueueItem
<1>1. s \in Seq(Q) /\ Len(s) = Len(q) + Len(r) /\ Len(q) \in Nat /\ Len(r) \in Nat
  <2> q \in Seq(Q) /\ r \in Seq(Q)
    OBVIOUS
  <2> HIDE DEF Q
  <2> QED
    OBVIOUS
<1>2. /\ \A i \in 1..Len(q) : i \in 1..Len(s) /\ s[i] = q[i]
      /\ \A i \in 1..Len(r) : Len(q) + i \in 1..Len(s) /\ s[Len(q) + i] = r[i]
  <2> q \in Seq(Q) /\ r \in Seq(Q)
    OBVIOUS
  <2> HIDE DEF Q
  <2> QED
    OBVIOUS
<1> HIDE DEF s
<1>3. ByRecord(s) = ByRecord(q) \o ByRecord(r)
  <2> DEFINE a == ByRecord(q)
             b == ByRecord(r)
             c == ByRecord(s)
  <2>1. /\ a \in Seq(Numbered) /\ b \in Seq(Numbered) /\ c \in Seq(Numbered)
        /\ Len(a) = Len(q) /\ Len(b) = Len(r) /\ Len(c) = Len(s)
    BY <1>1, QueueIs
  <2>2. /\ \A i \in 1..Len(q) : a[i] = <<q[i].kind \in {"info", "debug"}, q[i].number>>
        /\ \A i \in 1..Len(r) : b[i] = <<r[i].kind \in {"info", "debug"}, r[i].number>>
        /\ \A i \in 1..Len(s) : c[i] = <<s[i].kind \in {"info", "debug"}, s[i].number>>
    BY DEF ByRecord
  <2> HIDE DEF a, b, c
  <2>3. \A i \in 1..Len(a) : c[i] = a[i]
    BY <1>1, <1>2, <2>1, <2>2
  <2>4. \A i \in 1..Len(b) : c[Len(a) + i] = b[i]
    <3> TAKE i \in 1..Len(b)
    <3>1. PICK j \in 1..Len(s) : j = Len(q) + i /\ s[j] = r[i]
      BY <1>1, <1>2, <2>1
    <3> QED
      BY <2>1, <2>2, <3>1
  <2>5. c = a \o b
    <3> Len(c) = Len(a) + Len(b)
      BY <1>1, <2>1
    <3> QED
      BY <2>1, <2>3, <2>4, JoinedIs
  <2> QED
    BY <2>5 DEF a, b, c
<1>4. ByKind(s) = ByKind(q) \o ByKind(r)
  <2> DEFINE a == ByKind(q)
             b == ByKind(r)
             c == ByKind(s)
  <2>1. /\ a \in Seq(Lined) /\ b \in Seq(Lined) /\ c \in Seq(Lined)
        /\ Len(a) = Len(q) /\ Len(b) = Len(r) /\ Len(c) = Len(s)
    BY <1>1, QueueIs
  <2>2. /\ \A i \in 1..Len(q) : a[i] = <<q[i].kind, q[i].line>>
        /\ \A i \in 1..Len(r) : b[i] = <<r[i].kind, r[i].line>>
        /\ \A i \in 1..Len(s) : c[i] = <<s[i].kind, s[i].line>>
    BY DEF ByKind
  <2> HIDE DEF a, b, c
  <2>3. \A i \in 1..Len(a) : c[i] = a[i]
    BY <1>1, <1>2, <2>1, <2>2
  <2>4. \A i \in 1..Len(b) : c[Len(a) + i] = b[i]
    <3> TAKE i \in 1..Len(b)
    <3>1. PICK j \in 1..Len(s) : j = Len(q) + i /\ s[j] = r[i]
      BY <1>1, <1>2, <2>1
    <3> QED
      BY <2>1, <2>2, <3>1
  <2>5. c = a \o b
    <3> Len(c) = Len(a) + Len(b)
      BY <1>1, <2>1
    <3> QED
      BY <2>1, <2>3, <2>4, JoinedIs
  <2> QED
    BY <2>5 DEF a, b, c
<1>5. RecordsIn(s) = RecordsIn(q) \o RecordsIn(r)
  <2> DEFINE a == ByRecord(q)
             b == ByRecord(r)
  <2>1. a \in Seq(Numbered) /\ b \in Seq(Numbered) /\ Pairs(Numbered, Nat)
    BY QueueIs, PairsAre
  <2> DEFINE key == TRUE
  <2>2. Under(a \o b, key) = Under(a, key) \o Under(b, key)
    <3> HIDE DEF a, b, key
    <3> QED
      BY <2>1, UnderJoined
  <2> HIDE DEF a, b
  <2> QED
    BY <1>3, <2>2 DEF RecordsIn, a, b
<1>6. LinesIn(s) = LinesIn(q) \o LinesIn(r)
  <2> DEFINE a == ByKind(q)
             b == ByKind(r)
             V == Texts
  <2>1. a \in Seq(Lined) /\ b \in Seq(Lined) /\ Pairs(Lined, V)
    BY QueueIs, PairsAre
  <2> HIDE DEF a, b, V
  <2>2. Under(a \o b, "line") = Under(a, "line") \o Under(b, "line")
    BY <2>1, UnderJoined
  <2> QED
    BY <1>4, <2>2 DEF LinesIn, a, b
<1> QED
  BY <1>1, <1>5, <1>6 DEF s

\* A queue whose items are all of one kind.
LEMMA UniformQueue ==
    ASSUME NEW q \in Seq(QueueItem), NEW kind, \A i \in 1..Len(q) : q[i].kind = kind
    PROVE  /\ RecordsIn(q) = IF kind \in {"info", "debug"} THEN [i \in 1..Len(q) |-> q[i].number]
                             ELSE << >>
           /\ LinesIn(q) = IF kind = "line" THEN [i \in 1..Len(q) |-> q[i].line] ELSE << >>
<1>1. RecordsIn(q) = IF kind \in {"info", "debug"} THEN [i \in 1..Len(q) |-> q[i].number]
                     ELSE << >>
  <2> DEFINE s == ByRecord(q)
             key == TRUE
  <2>1. s \in Seq(Numbered) /\ Pairs(Numbered, Nat) /\ Len(s) = Len(q)
    BY QueueIs, PairsAre
  <2>2. \A i \in 1..Len(s) : s[i][2] = q[i].number
    BY <2>1 DEF ByRecord
  <2>3. \A i \in 1..Len(s) : s[i][1] = key <=> kind \in {"info", "debug"}
    <3> TAKE i \in 1..Len(s)
    <3>1. s[i][1] = (q[i].kind \in {"info", "debug"})
      BY <2>1 DEF ByRecord
    <3>2. q[i].kind = kind
      BY <2>1
    <3> QED
      BY <3>1, <3>2
  <2> HIDE DEF s, key
  <2>4. /\ (\A i \in 1..Len(s) : s[i][1] = key) => Under(s, key) = [i \in 1..Len(s) |-> s[i][2]]
        /\ (\A i \in 1..Len(s) : s[i][1] # key) => Under(s, key) = << >>
    BY <2>1, UnderAll
  <2>5. [i \in 1..Len(s) |-> s[i][2]] = [i \in 1..Len(q) |-> q[i].number]
    BY <2>1, <2>2
  <2> QED
    BY <2>3, <2>4, <2>5 DEF RecordsIn, s, key
<1>2. LinesIn(q) = IF kind = "line" THEN [i \in 1..Len(q) |-> q[i].line] ELSE << >>
  <2> DEFINE s == ByKind(q)
             V == Texts
  <2>1. s \in Seq(Lined) /\ Pairs(Lined, V) /\ Len(s) = Len(q)
    BY QueueIs, PairsAre
  <2>2. \A i \in 1..Len(s) : s[i][2] = q[i].line /\ s[i][1] = kind
    BY <2>1 DEF ByKind
  <2> HIDE DEF s, V
  <2>4. /\ (\A i \in 1..Len(s) : s[i][1] = "line") =>
             Under(s, "line") = [i \in 1..Len(s) |-> s[i][2]]
        /\ (\A i \in 1..Len(s) : s[i][1] # "line") => Under(s, "line") = << >>
    BY <2>1, UnderAll
  <2>5. [i \in 1..Len(s) |-> s[i][2]] = [i \in 1..Len(q) |-> q[i].line]
    BY <2>1, <2>2
  <2> QED
    BY <2>2, <2>4, <2>5 DEF LinesIn, s
<1> QED
  BY <1>1, <1>2

\* The first item of a queue, and the others.
LEMMA QueueHead ==
    ASSUME NEW q \in Seq(QueueItem), q # << >>
    PROVE  /\ Head(q) \in QueueItem /\ Tail(q) \in Seq(QueueItem)
           /\ RecordsIn(q) = (IF Head(q).kind \in {"info", "debug"} THEN <<Head(q).number>>
                              ELSE << >>) \o RecordsIn(Tail(q))
           /\ LinesIn(q) = (IF Head(q).kind = "line" THEN <<Head(q).line>>
                            ELSE << >>) \o LinesIn(Tail(q))
<1> DEFINE Q == QueueItem
           x == Head(q)
           first == <<x>>
           rest == Tail(q)
<1>1. x \in Q /\ rest \in Seq(Q) /\ first \in Seq(Q) /\ Len(first) = 1 /\ first[1] = x
  <2> q \in Seq(Q)
    OBVIOUS
  <2> HIDE DEF Q
  <2> QED
    OBVIOUS
<1>2. q = first \o rest
  <2> DEFINE qq == first \o rest
  <2>1. q \in Seq(Q) /\ qq \in Seq(Q) /\ Len(q) = Len(qq) /\ \A i \in 1..Len(q) : q[i] = qq[i]
    <3> q \in Seq(Q)
      OBVIOUS
    <3> HIDE DEF Q
    <3> QED
      BY <1>1
  <2> HIDE DEF qq, Q
  <2>2. q = qq
    BY <2>1, SeqEqual
  <2> QED
    BY <2>2 DEF qq
<1> HIDE DEF first, rest
<1>3. RecordsIn(q) = RecordsIn(first) \o RecordsIn(rest) /\ LinesIn(q) = LinesIn(first) \o LinesIn(rest)
  BY <1>1, <1>2, QueueJoined
<1>4. \A i \in 1..Len(first) : first[i].kind = x.kind
  BY <1>1
<1>5. /\ RecordsIn(first) = IF x.kind \in {"info", "debug"}
                            THEN [i \in 1..Len(first) |-> first[i].number] ELSE << >>
      /\ LinesIn(first) = IF x.kind = "line" THEN [i \in 1..Len(first) |-> first[i].line]
                          ELSE << >>
  <2> HIDE DEF x
  <2> QED
    BY <1>1, <1>4, UniformQueue
<1>6. /\ [i \in 1..Len(first) |-> first[i].number] = <<x.number>>
      /\ [i \in 1..Len(first) |-> first[i].line] = <<x.line>>
  <2> HIDE DEF x
  <2> QED
    BY <1>1
<1> QED
  BY <1>1, <1>3, <1>5, <1>6 DEF rest

\* What the calls post.
Following(m, n) == [i \in 1..n |-> m + i]
RecordItems(kind, m, n) == [i \in 1..n |-> Item(kind, m + i, << >>)]

\* What log calls put into the queue is records, in their order, and no line.
LEMMA PostedRecords ==
    ASSUME NEW kind \in {"info", "debug"}, NEW n \in Nat, NEW m \in Nat
    PROVE  /\ RecordItems(kind, m, n) \in Seq(QueueItem)
           /\ RecordsIn(RecordItems(kind, m, n)) = Following(m, n)
           /\ LinesIn(RecordItems(kind, m, n)) = << >>
<1> DEFINE items == RecordItems(kind, m, n)
           none == << >>
           Q == QueueItem
<1>1. \A i \in 1..n : LET it == Item(kind, m + i, none)
                      IN  it \in Q /\ it.kind = kind /\ it.number = m + i
  <2> none \in Texts
    BY DEF Texts
  <2> HIDE DEF none
  <2> QED
    BY DEF Item, QueueItem, Kinds
<1>2. items \in Seq(Q) /\ Len(items) = n
  <2> DEFINE it(i) == Item(kind, m + i, none)
  <2>1. (\A i \in 1..n : it(i) \in Q) /\ items = [i \in 1..n |-> it(i)]
    BY <1>1 DEF RecordItems
  <2> HIDE DEF it, Q
  <2> QED
    BY <2>1
<1>3. \A i \in 1..Len(items) : items[i].kind = kind /\ items[i].number = m + i
  <2> items = [i \in 1..n |-> Item(kind, m + i, none)]
    BY DEF RecordItems
  <2> HIDE DEF none, Q, items
  <2> QED
    BY <1>1, <1>2
<1> HIDE DEF items
<1>4. [i \in 1..Len(items) |-> items[i].number] = [i \in 1..n |-> m + i]
  BY <1>2, <1>3
<1> QED
  <2>1. RecordsIn(items) = IF kind \in {"info", "debug"} THEN [i \in 1..Len(items) |-> items[i].number]
                           ELSE << >>
    BY <1>2, <1>3, UniformQueue
  <2>2. LinesIn(items) = IF kind = "line" THEN [i \in 1..Len(items) |-> items[i].line] ELSE << >>
    BY <1>2, <1>3, UniformQueue
  <2> QED
    BY <1>2, <1>4, <2>1, <2>2 DEF items, Following

\* A flush is neither a record nor a line.
LEMMA PostedFlush ==
    ASSUME NEW items, items = <<Item("flush", 0, << >>)>>
    PROVE  items \in Seq(QueueItem) /\ RecordsIn(items) = << >> /\ LinesIn(items) = << >>
<1> DEFINE it == Item("flush", 0, << >>)
           Q == QueueItem
<1>1. it \in Q /\ it.kind = "flush"
  BY DEF Item, QueueItem, Kinds, Texts
<1>2. items \in Seq(Q) /\ \A i \in 1..Len(items) : items[i].kind = "flush"
  <2> items = <<it>>
    OBVIOUS
  <2> HIDE DEF it, Q
  <2> QED
    BY <1>1
<1> QED
  BY <1>2, UniformQueue

\* A line for the evaluation logger is a line, and no record.
LEMMA PostedLine ==
    ASSUME NEW line \in Texts, NEW items, items = <<Item("line", 0, line)>>
    PROVE  /\ items \in Seq(QueueItem)
           /\ RecordsIn(items) = << >> /\ LinesIn(items) = <<line>>
<1> DEFINE it == Item("line", 0, line)
           Q == QueueItem
<1>1. it \in Q /\ it.kind = "line" /\ it.line = line
  BY DEF Item, QueueItem, Kinds
<1>2. /\ items \in Seq(Q) /\ Len(items) = 1
      /\ \A i \in 1..Len(items) : items[i].kind = "line" /\ items[i].line = line
  <2> items = <<it>>
    OBVIOUS
  <2> HIDE DEF it, Q
  <2> QED
    BY <1>1
<1>3. RecordsIn(items) = IF "line" \in {"info", "debug"} THEN [i \in 1..Len(items) |-> items[i].number]
                         ELSE << >>
  BY <1>2, UniformQueue
<1>4. LinesIn(items) = IF "line" = "line" THEN [i \in 1..Len(items) |-> items[i].line] ELSE << >>
  BY <1>2, UniformQueue
<1>5. [i \in 1..Len(items) |-> items[i].line] = <<line>>
  BY <1>2
<1> QED
  BY <1>2, <1>3, <1>4, <1>5

-----------------------------------------------------------------------------
(* The types                                                               *)

Queues == Seq(QueueItem)
Numbers == Seq(Nat)
Durations == Seq(1..MaxCalls)
Records == [1..Len(Funcs) -> Durations]
NodeFiles == Seq(Procs \X Nat)
TimeFiles == Seq(Procs \X Texts)
Statuses == {"up", "ended", "crashed"}
Places == {None} \cup Dirs
Dumps == Seq(Records)
Rows == Seq(Numbers)
Given == Seq(Line)

Process ==
    [status : Statuses, pool : Nat, node : Nat, time : Nat, dir : Places, queue : Queues,
     buffer : Numbers, logged : Nat, records_ : Records, evals : Nat, dumps : Dumps, rest : Rows,
     given : Given]

LEMMA AssociativeLines ==
    \A x, y, z \in Seq(Texts) : (x \o y) \o z = x \o (y \o z)
OBVIOUS

TypeInv ==
    /\ clock \in 2..MaxTime /\ dirs \subseteq 2..clock
    /\ nodeFile \in [Dirs -> NodeFiles] /\ timeFile \in [Dirs -> TimeFiles]
    /\ proc \in [Procs -> Process]
    /\ calls \in 0..MaxCalls /\ \A p \in Procs : proc[p].evals <= calls

LEMMA ConstantsAre ==
    /\ LOG_MAX_DAY \in Nat \ {0} /\ TicksPerDay \in Nat \ {0}
    /\ MaxCalls \in Nat /\ Printed \in [1..MaxCalls -> Nat \ {0}]
    /\ MaxTime \in Nat \ {0, 1} /\ Len(Funcs) \in Nat /\ Funcs \in Seq(STRING)
    /\ DebugProcs \subseteq Procs /\ EvaluateProcs \subseteq Procs
    /\ Root \in Dirs /\ Root = 1 /\ None = 0 /\ None \notin Dirs
    /\ None \in Places /\ Dirs \subseteq Places
    /\ \A d : d \in Places => d \in Nat /\ (d # None => d \in Dirs)
BY LoggerAssumption DEF Root, None, Dirs, Places

\* Days do not go back.
LEMMA DayGrows ==
    ASSUME NEW x \in Nat, NEW y \in Nat, x <= y
    PROVE  Day(x) \in Nat /\ Day(y) \in Nat /\ Day(x) <= Day(y)
BY ConstantsAre DEF Day

LEMMA EmptyIs ==
    /\ << >> \in Queues /\ << >> \in Numbers /\ << >> \in NodeFiles /\ << >> \in TimeFiles
    /\ << >> \in Dumps /\ << >> \in Rows /\ << >> \in Given /\ NoRecords \in Records
<1> DEFINE none == << >>
<1>1. none \in Queues /\ none \in Numbers /\ none \in NodeFiles /\ none \in TimeFiles
      /\ none \in Durations /\ none \in Dumps /\ none \in Rows /\ none \in Given
  BY DEF Queues, Numbers, NodeFiles, TimeFiles, Durations, Dumps, Rows, Given
<1>2. NoRecords \in Records
  <2> NoRecords = [i \in 1..Len(Funcs) |-> none]
    BY DEF NoRecords
  <2> HIDE DEF none
  <2> QED
    BY <1>1 DEF Records
<1> QED
  BY <1>1, <1>2

LEMMA InitTyped == Init => TypeInv
<1> SUFFICES ASSUME Init PROVE TypeInv
  OBVIOUS
<1> DEFINE none == << >>
           P == [status |-> "up", pool |-> 0, node |-> 0, time |-> 0, dir |-> None,
                 queue |-> none, buffer |-> none, logged |-> 0, records_ |-> NoRecords,
                 evals |-> 0, dumps |-> none, rest |-> none, given |-> none]
<1>1. P \in Process
  <2> none \in Queues /\ none \in Numbers /\ none \in Dumps /\ none \in Rows /\ none \in Given
    BY EmptyIs
  <2> HIDE DEF none
  <2> QED
    BY EmptyIs, ConstantsAre DEF Process, Statuses
<1>2. proc = [p \in Procs |-> P]
  BY DEF Init
<1>3. proc \in [Procs -> Process]
  <2> HIDE DEF P
  <2> QED
    BY <1>1, <1>2
<1>4. nodeFile \in [Dirs -> NodeFiles] /\ timeFile \in [Dirs -> TimeFiles]
  <2> none \in NodeFiles /\ none \in TimeFiles
    BY EmptyIs
  <2> nodeFile = [d \in Dirs |-> none] /\ timeFile = [d \in Dirs |-> none]
    BY DEF Init
  <2> HIDE DEF none
  <2> QED
    OBVIOUS
<1>5. calls = 0 /\ \A p \in Procs : proc[p].evals <= calls
  <2> P.evals = 0
    OBVIOUS
  <2> HIDE DEF P
  <2> QED
    BY <1>2 DEF Init
<1> QED
  BY <1>3, <1>4, <1>5, ConstantsAre DEF Init, TypeInv

-----------------------------------------------------------------------------
(* What each action does                                                   *)

Others(p) == \A q \in Procs \ {p} : proc'[q] = proc[q]

\* The fields of one process are those of another, but for some.
Same(P, Q, but) ==
    /\ "status" \in but \/ P.status = Q.status
    /\ "pool" \in but \/ P.pool = Q.pool
    /\ "node" \in but \/ P.node = Q.node
    /\ "time" \in but \/ P.time = Q.time
    /\ "dir" \in but \/ P.dir = Q.dir
    /\ "queue" \in but \/ P.queue = Q.queue
    /\ "buffer" \in but \/ P.buffer = Q.buffer
    /\ "logged" \in but \/ P.logged = Q.logged
    /\ "records_" \in but \/ P.records_ = Q.records_
    /\ "evals" \in but \/ P.evals = Q.evals
    /\ "dumps" \in but \/ P.dumps = Q.dumps
    /\ "rest" \in but \/ P.rest = Q.rest
    /\ "given" \in but \/ P.given = Q.given

\* What a cleanup may remove.
Gone(d) == d \in dirs /\ Expired(d)

\* Each action's effect on what the invariants look at.
LEMMA InitCallDoes ==
    ASSUME TypeInv, NEW p \in Procs, InitCall(p)
    PROVE  LET P == proc[p]
               Q == proc'[p]
           IN  /\ Others(p) /\ Q \in Process /\ proc' \in [Procs -> Process]
               /\ P.status = "up" /\ P.queue = << >>
               /\ Same(Q, P, {"pool", "node", "time", "dir"})
               /\ Q.pool = P.pool + 1
               /\ P.dir # None => Q.dir = P.dir
               /\ P.dir = None => Q.dir \in {None, Root, clock}
               /\ Q.dir \notin {None, Root} /\ P.dir = None => Q.dir \in dirs'
               /\ Q.node = P.node \/ (P.node = 0 /\ Q.dir # None /\ Q.node = P.pool + 1)
               /\ \/ Q.time = P.time
                  \/ /\ P.time = 0 /\ Q.time = P.pool + 1 /\ Q.node # 0 /\ Q.dir # None
                     /\ p \in EvaluateProcs /\ timeFile'[Q.dir] = << >>
               /\ clock' = clock
               /\ dirs' \subseteq 2..clock /\ \A d \in dirs : d \in dirs' \/ Gone(d)
               /\ nodeFile' \in [Dirs -> NodeFiles] /\ timeFile' \in [Dirs -> TimeFiles]
               /\ \A d \in Dirs : \/ nodeFile'[d] = nodeFile[d]
                                  \/ nodeFile'[d] = << >> /\ Gone(d)
               /\ \A d \in Dirs : \/ timeFile'[d] = timeFile[d]
                                  \/ timeFile'[d] = << >> /\ Gone(d)
                                  \/ timeFile'[d] = << >> /\ d = Q.dir /\ p \in EvaluateProcs
<1> DEFINE P == proc[p]
           Q == proc'[p]
           none == << >>
<1>0. P \in Process /\ none \in NodeFiles /\ none \in TimeFiles
  BY EmptyIs DEF TypeInv
<1>1. PICK d \in (IF P.dir = None THEN {None, Root, clock} ELSE {P.dir}),
           opens \in SUBSET {"node", "time"} :
        LET node == IF P.node # 0 \/ d = None \/ "node" \notin opens
                    THEN P.node ELSE P.pool + 1
            truncated == d # None /\ node # 0 /\ p \in EvaluateProcs /\ "time" \in opens
            time == IF truncated /\ P.time = 0 THEN P.pool + 1 ELSE P.time
        IN  /\ Manage(p, d)
            /\ timeFile' = [e \in Dirs |-> IF \/ truncated /\ e = d
                                              \/ e \in dirs \ dirs'
                                           THEN none ELSE timeFile[e]]
            /\ proc' = [proc EXCEPT ![p] = [P EXCEPT !.pool = @ + 1, !.dir = d,
                                                     !.node = node, !.time = time]]
  BY DEF InitCall
<1> DEFINE node == IF P.node # 0 \/ d = None \/ "node" \notin opens
                   THEN P.node ELSE P.pool + 1
           truncated == d # None /\ node # 0 /\ p \in EvaluateProcs /\ "time" \in opens
           time == IF truncated /\ P.time = 0 THEN P.pool + 1 ELSE P.time
           R == [P EXCEPT !.pool = @ + 1, !.dir = d, !.node = node, !.time = time]
<1>2. P.dir \in Places /\ clock \in Dirs /\ d \in Places /\ P.node \in Nat /\ P.time \in Nat /\ P.pool \in Nat
  BY <1>0, ConstantsAre DEF Process, TypeInv, Dirs, Root, None
<1>3. node \in Nat /\ time \in Nat
  BY <1>2
<1>4. R \in Process
  <2> DEFINE R1 == [P EXCEPT !.pool = @ + 1]
             R2 == [R1 EXCEPT !.dir = d]
             R3 == [R2 EXCEPT !.node = node]
  <2> HIDE DEF node, time, P
  <2>1. R1 \in Process
    BY <1>0, <1>2 DEF Process
  <2> HIDE DEF R1
  <2>2. R2 \in Process
    BY <1>2, <2>1 DEF Process
  <2> HIDE DEF R2
  <2>3. R3 \in Process
    BY <1>3, <2>2 DEF Process
  <2> HIDE DEF R3
  <2>4. [R3 EXCEPT !.time = time] \in Process
    BY <1>3, <2>3 DEF Process
  <2>5. R = [R3 EXCEPT !.time = time]
    BY <1>0 DEF R1, R2, R3, Process
  <2> QED
    BY <2>4, <2>5
<1>5. proc' = [proc EXCEPT ![p] = R]
  BY <1>1
<1>6. Q = R /\ Others(p) /\ proc' \in [Procs -> Process]
  <2> HIDE DEF R
  <2> QED
    BY <1>4, <1>5 DEF TypeInv, Others
<1>7. /\ R.pool = P.pool + 1 /\ R.dir = d /\ R.node = node /\ R.time = time
      /\ Same(R, P, {"pool", "node", "time", "dir"})
  <2> HIDE DEF node, time
  <2> QED
    BY <1>0 DEF Process, Same
<1>8. /\ dirs' \subseteq 2..clock /\ \A e \in dirs : e \in dirs' \/ Gone(e)
      /\ nodeFile' \in [Dirs -> NodeFiles]
      /\ \A e \in Dirs : nodeFile'[e] = nodeFile[e] \/ (nodeFile'[e] = << >> /\ Gone(e))
      /\ d = clock /\ P.dir = None => d \in dirs'
  <2>1. CASE d = clock /\ P.dir = None
    <3>1. PICK old \in SUBSET {e \in dirs : Expired(e)} :
            /\ dirs' = (dirs \ old) \cup {clock}
            /\ nodeFile' = [e \in Dirs |-> IF e \in old THEN none ELSE nodeFile[e]]
      BY <1>1, <2>1 DEF Manage
    <3> HIDE DEF none
    <3>2. nodeFile' \in [Dirs -> NodeFiles]
      BY <1>0, <3>1 DEF TypeInv
    <3>3. \A e \in Dirs : nodeFile'[e] = nodeFile[e] \/ (nodeFile'[e] = none /\ Gone(e))
      BY <3>1 DEF Gone
    <3>4. dirs' \subseteq 2..clock /\ d \in dirs'
      <4> clock \in 2..clock /\ dirs \subseteq 2..clock
        BY ConstantsAre DEF TypeInv
      <4> QED
        BY <2>1, <3>1
    <3>5. \A e \in dirs : e \in dirs' \/ Gone(e)
      BY <3>1 DEF Gone
    <3> QED
      BY <3>2, <3>3, <3>4, <3>5 DEF none
  <2>2. CASE ~(d = clock /\ P.dir = None)
    <3>1. UNCHANGED <<dirs, nodeFile>>
      BY <1>1, <2>2 DEF Manage
    <3> QED
      BY <2>2, <3>1 DEF TypeInv
  <2> QED
    BY <2>1, <2>2
<1>9. /\ timeFile' \in [Dirs -> TimeFiles]
      /\ truncated => timeFile'[d] = << >>
      /\ \A e \in Dirs : \/ timeFile'[e] = timeFile[e]
                         \/ timeFile'[e] = << >> /\ Gone(e)
                         \/ timeFile'[e] = << >> /\ e = d /\ p \in EvaluateProcs
  <2>1. timeFile' = [e \in Dirs |-> IF (truncated /\ e = d) \/ e \in dirs \ dirs'
                                    THEN none ELSE timeFile[e]]
    BY <1>1
  <2>2. truncated => d \in Dirs /\ p \in EvaluateProcs
    BY <1>2, ConstantsAre
  <2> HIDE DEF truncated, none
  <2>3. timeFile' \in [Dirs -> TimeFiles] /\ (truncated => timeFile'[d] = none)
    BY <1>0, <2>1, <2>2 DEF TypeInv
  <2>4. \A e \in Dirs : \/ timeFile'[e] = timeFile[e]
                        \/ timeFile'[e] = none /\ Gone(e)
                        \/ timeFile'[e] = none /\ e = d /\ p \in EvaluateProcs
    BY <1>8, <2>1, <2>2
  <2> QED
    BY <2>3, <2>4 DEF none
<1>10. P.status = "up" /\ P.queue = << >> /\ clock' = clock
  BY DEF InitCall, Call
<1>11. /\ R.node = P.node \/ (P.node = 0 /\ d # None /\ R.node = P.pool + 1)
       /\ \/ R.time = P.time
          \/ /\ P.time = 0 /\ R.time = P.pool + 1 /\ R.node # 0 /\ d # None
             /\ p \in EvaluateProcs /\ timeFile'[d] = << >>
  <2> HIDE DEF R
  <2> QED
    BY <1>2, <1>7, <1>9
<1>12. /\ P.dir # None => d = P.dir
       /\ P.dir = None => d \in {None, Root, clock}
       /\ d \notin {None, Root} /\ P.dir = None => d \in dirs'
  BY <1>8
<1> HIDE DEF node, truncated, time, R, none
<1> QED
  BY <1>4, <1>6, <1>7, <1>8, <1>9, <1>10, <1>11, <1>12
\* Most calls leave the time and the disk alone.
Quiet == clock' = clock /\ dirs' = dirs /\ nodeFile' = nodeFile /\ timeFile' = timeFile

LEMMA OneProcess ==
    ASSUME TypeInv, NEW p \in Procs, NEW R \in Process, proc' = [proc EXCEPT ![p] = R]
    PROVE  Others(p) /\ proc'[p] = R /\ proc' \in [Procs -> Process]
BY DEF TypeInv, Others

\* Reading a queue at whose end something was posted.
LEMMA QueuedIs ==
    ASSUME NEW queue \in Queues, NEW items \in Queues
    PROVE  /\ queue \o items \in Queues
           /\ RecordsIn(queue \o items) = RecordsIn(queue) \o RecordsIn(items)
           /\ LinesIn(queue \o items) = LinesIn(queue) \o LinesIn(items)
           /\ RecordsIn(queue) \in Numbers /\ LinesIn(queue) \in Seq(Texts)
           /\ RecordsIn(items) = << >> => RecordsIn(queue \o items) = RecordsIn(queue)
           /\ LinesIn(items) = << >> => LinesIn(queue \o items) = LinesIn(queue)
<1>1. /\ queue \o items \in Queues
      /\ RecordsIn(queue \o items) = RecordsIn(queue) \o RecordsIn(items)
      /\ LinesIn(queue \o items) = LinesIn(queue) \o LinesIn(items)
      /\ RecordsIn(queue) \in Numbers /\ LinesIn(queue) \in Seq(Texts)
  BY QueueJoined, QueueIs DEF Queues, Numbers
<1>2. ASSUME NEW S, NEW a \in Seq(S) PROVE a \o << >> = a
  OBVIOUS
<1>3. RecordsIn(items) = << >> => RecordsIn(queue \o items) = RecordsIn(queue)
  <2> SUFFICES ASSUME RecordsIn(items) = << >> PROVE RecordsIn(queue) \o << >> = RecordsIn(queue)
    BY <1>1
  <2> QED
    BY <1>1, <1>2 DEF Numbers
<1>4. LinesIn(items) = << >> => LinesIn(queue \o items) = LinesIn(queue)
  <2> SUFFICES ASSUME LinesIn(items) = << >> PROVE LinesIn(queue) \o << >> = LinesIn(queue)
    BY <1>1
  <2> QED
    BY <1>1, <1>2
<1> QED
  BY <1>1, <1>3, <1>4

LEMMA LogDoes ==
    ASSUME TypeInv, NEW p \in Procs, NEW kind \in {"info", "debug"}, NEW n \in Nat,
           Log(p, kind, n)
    PROVE  LET P == proc[p]
               Q == proc'[p]
           IN  /\ Others(p) /\ Q \in Process /\ proc' \in [Procs -> Process] /\ Quiet
               /\ P.status = "up" /\ P.node # 0
               /\ Same(Q, P, {"logged", "queue"}) /\ Q.logged = P.logged + n
               /\ RecordsIn(Q.queue) = IF P.node = P.pool
                                       THEN RecordsIn(P.queue) \o Following(P.logged, n)
                                       ELSE RecordsIn(P.queue)
               /\ LinesIn(Q.queue) = LinesIn(P.queue)
<1> DEFINE P == proc[p]
           Q == proc'[p]
           items == RecordItems(kind, P.logged, n)
           queue == Posted(P, P.node, items)
           logged == P.logged + n
           R == [P EXCEPT !.logged = logged, !.queue = queue]
<1>1. P \in Process /\ P.logged \in Nat /\ P.queue \in Queues
  BY DEF TypeInv, Process
<1>2. items \in Queues /\ RecordsIn(items) = Following(P.logged, n) /\ LinesIn(items) = << >>
  BY <1>1, PostedRecords DEF Queues
<1>3. P.status = "up" /\ P.node # 0 /\ Quiet
  BY DEF Log, Call, Quiet, disk
<1>4. queue = IF P.node = P.pool THEN P.queue \o items ELSE P.queue
  BY <1>3 DEF Posted
<1>5. proc' = [proc EXCEPT ![p] = R] /\ logged \in Nat
  BY <1>1 DEF Log, TypeInv, Process, RecordItems
<1> HIDE DEF items, queue
<1>0. queue \in Queues
  BY <1>1, <1>2, <1>4, QueuedIs
<1>6. /\ RecordsIn(queue) = IF P.node = P.pool
                            THEN RecordsIn(P.queue) \o Following(P.logged, n)
                            ELSE RecordsIn(P.queue)
      /\ LinesIn(queue) = LinesIn(P.queue)
  <2> DEFINE q == P.queue
             post == Following(P.logged, n)
  <2>1. q \in Queues /\ q = P.queue /\ RecordsIn(items) = post
    BY <1>1, <1>2
  <2> HIDE DEF post, q
  <2>2. RecordsIn(q \o items) = RecordsIn(q) \o post /\ LinesIn(q \o items) = LinesIn(q)
    BY <1>2, <2>1, QueuedIs
  <2>3. queue = IF P.node = P.pool THEN q \o items ELSE q
    BY <1>4, <2>1
  <2>4. /\ RecordsIn(queue) = IF P.node = P.pool THEN RecordsIn(q) \o post ELSE RecordsIn(q)
        /\ LinesIn(queue) = LinesIn(q)
    <3> HIDE DEF P
    <3> QED
      BY <2>2, <2>3
  <2> QED
    BY <2>4 DEF q, post
<1>7. /\ R \in Process /\ R.queue = queue /\ R.logged = logged
      /\ Same(R, P, {"logged", "queue"})
  <2> HIDE DEF P, logged
  <2> QED
    BY <1>0, <1>1, <1>5 DEF Process, Same
<1> HIDE DEF R
<1>8. Others(p) /\ Q = R /\ proc' \in [Procs -> Process]
  BY <1>5, <1>7, OneProcess
<1> HIDE DEF P, Q, logged
<1>9. /\ Others(p) /\ Q \in Process /\ proc' \in [Procs -> Process] /\ Quiet
      /\ P.status = "up" /\ P.node # 0
      /\ Same(Q, P, {"logged", "queue"}) /\ Q.logged = P.logged + n
      /\ RecordsIn(Q.queue) = IF P.node = P.pool
                              THEN RecordsIn(P.queue) \o Following(P.logged, n)
                              ELSE RecordsIn(P.queue)
      /\ LinesIn(Q.queue) = LinesIn(P.queue)
  BY <1>3, <1>6, <1>7, <1>8 DEF logged
<1> QED
  BY <1>9 DEF P, Q

LEMMA FlushDoes ==
    ASSUME TypeInv, NEW p \in Procs, Flush(p)
    PROVE  LET P == proc[p]
               Q == proc'[p]
           IN  /\ Others(p) /\ Q \in Process /\ proc' \in [Procs -> Process] /\ Quiet
               /\ P.status = "up" /\ Same(Q, P, {"queue"})
               /\ P.node = 0 => Q.queue = P.queue
               /\ RecordsIn(Q.queue) = RecordsIn(P.queue) /\ LinesIn(Q.queue) = LinesIn(P.queue)
<1> DEFINE P == proc[p]
           Q == proc'[p]
           items == <<Item("flush", 0, << >>)>>
           queue == Posted(P, P.node, items)
           R == [P EXCEPT !.queue = queue]
<1>1. P \in Process /\ P.queue \in Queues
  BY DEF TypeInv, Process
<1>2. items \in Queues /\ RecordsIn(items) = << >> /\ LinesIn(items) = << >>
  BY PostedFlush DEF Queues
<1>3. P.status = "up" /\ Quiet
  BY DEF Flush, Call, Quiet, disk
<1>4. queue = IF P.node # 0 /\ P.node = P.pool THEN P.queue \o items ELSE P.queue
  BY DEF Posted
<1>5. proc' = [proc EXCEPT ![p] = R]
  BY DEF Flush
<1> HIDE DEF items, queue
<1>0. queue \in Queues /\ (P.node = 0 => queue = P.queue)
  BY <1>1, <1>2, <1>4, QueuedIs
<1>6. RecordsIn(queue) = RecordsIn(P.queue) /\ LinesIn(queue) = LinesIn(P.queue)
  BY <1>1, <1>2, <1>4, QueuedIs
<1>7. R \in Process /\ R.queue = queue /\ Same(R, P, {"queue"})
  <2> HIDE DEF P
  <2> QED
    BY <1>0, <1>1 DEF Process, Same
<1> HIDE DEF R
<1>8. Others(p) /\ Q = R /\ proc' \in [Procs -> Process]
  BY <1>5, <1>7, OneProcess
<1> QED
  BY <1>0, <1>3, <1>6, <1>7, <1>8

LEMMA CrashDoes ==
    ASSUME TypeInv, NEW p \in Procs, Crash(p)
    PROVE  LET P == proc[p]
               Q == proc'[p]
           IN  /\ Others(p) /\ Q \in Process /\ proc' \in [Procs -> Process] /\ Quiet
               /\ P.status = "up" /\ Same(Q, P, {"status", "queue", "buffer"})
               /\ Q.status = "crashed" /\ Q.queue = << >> /\ Q.buffer = << >>
<1> DEFINE P == proc[p]
           Q == proc'[p]
           none == << >>
           R == [P EXCEPT !.status = "crashed", !.queue = none, !.buffer = none]
<1>1. P \in Process /\ none \in Queues /\ none \in Numbers
  BY EmptyIs DEF TypeInv
<1>2. proc' = [proc EXCEPT ![p] = R]
  BY DEF Crash, TypeInv
<1>3. P.status = "up" /\ Quiet
  BY DEF Crash, Call, Quiet, disk
<1>4. /\ R \in Process /\ Same(R, P, {"status", "queue", "buffer"})
      /\ R.status = "crashed" /\ R.queue = none /\ R.buffer = none
  <2> HIDE DEF none, P
  <2> QED
    BY <1>1 DEF Process, Statuses, Same
<1> HIDE DEF R
<1>5. Others(p) /\ Q = R /\ proc' \in [Procs -> Process]
  BY <1>2, <1>4, OneProcess
<1> QED
  BY <1>3, <1>4, <1>5

LEMMA EvaluateDoes ==
    ASSUME TypeInv, NEW p \in Procs, NEW i \in 1..Len(Funcs), Evaluate(p, i)
    PROVE  LET P == proc[p]
               Q == proc'[p]
           IN  /\ Others(p) /\ Q \in Process /\ proc' \in [Procs -> Process] /\ Quiet
               /\ P.status = "up" /\ Same(Q, P, {"records_", "evals"})
               /\ Q.evals = P.evals + 1 /\ calls' = calls + 1
<1> DEFINE P == proc[p]
           Q == proc'[p]
           records == [P.records_ EXCEPT ![i] = Append(@, P.evals + 1)]
           evals == P.evals + 1
           R == [P EXCEPT !.evals = evals, !.records_ = records]
<1>1. P \in Process /\ P.records_ \in Records /\ P.evals \in Nat
  BY DEF TypeInv, Process
<1>2. proc' = [proc EXCEPT ![p] = R]
  BY <1>1 DEF Evaluate, TypeInv, Process
<1>3. P.status = "up" /\ Quiet /\ calls < MaxCalls /\ calls' = calls + 1
  BY DEF Evaluate, Call, Quiet, disk
<1>4. records \in Records
  <2>1. P.evals + 1 \in 1..MaxCalls
    BY <1>1, <1>3, ConstantsAre DEF TypeInv
  <2> HIDE DEF P
  <2>2. P.records_[i] \in Seq(1..MaxCalls)
    BY <1>1 DEF Records, Durations
  <2>3. Append(P.records_[i], P.evals + 1) \in Durations
    BY <2>1, <2>2 DEF Durations
  <2> QED
    BY <1>1, <2>3 DEF Records
<1>5. R \in Process /\ Same(R, P, {"records_", "evals"}) /\ R.evals = evals
  <2> evals \in Nat
    BY <1>1
  <2> HIDE DEF P, records, evals
  <2> QED
    BY <1>1, <1>4 DEF Process, Same
<1> HIDE DEF R
<1>6. Others(p) /\ Q = R /\ proc' \in [Procs -> Process]
  BY <1>2, <1>5, OneProcess
<1> QED
  BY <1>3, <1>5, <1>6

LEMMA ClearDoes ==
    ASSUME TypeInv, NEW p \in Procs, Clear(p)
    PROVE  LET P == proc[p]
               Q == proc'[p]
           IN  /\ Others(p) /\ Q \in Process /\ proc' \in [Procs -> Process] /\ Quiet
               /\ P.status = "up" /\ Same(Q, P, {"records_"})
<1> DEFINE P == proc[p]
           Q == proc'[p]
           R == [P EXCEPT !.records_ = NoRecords]
<1>1. P \in Process
  BY DEF TypeInv
<1>2. proc' = [proc EXCEPT ![p] = R]
  BY DEF Clear, TypeInv
<1>3. P.status = "up" /\ Quiet
  BY DEF Clear, Call, Quiet, disk
<1>4. R \in Process /\ Same(R, P, {"records_"})
  <2> HIDE DEF P
  <2> QED
    BY <1>1, EmptyIs DEF Process, Same
<1> HIDE DEF R
<1>5. Others(p) /\ Q = R /\ proc' \in [Procs -> Process]
  BY <1>2, <1>4, OneProcess
<1> QED
  BY <1>3, <1>4, <1>5
-----------------------------------------------------------------------------
(* The table                                                               *)

\* No column of a table is longer than its number of rows.
LEMMA LongestIs ==
    ASSUME NEW r \in Records
    PROVE  LET m == Max({0} \cup {Len(r[i]) : i \in 1..Len(Funcs)})
           IN  m \in Nat /\ \A i \in 1..Len(Funcs) : Len(r[i]) \in Nat /\ Len(r[i]) <= m
<1> DEFINE n == Len(Funcs)
           H == {0} \cup {Len(r[i]) : i \in 1..n}
           T == {k \in Nat : k <= n => \E b \in Nat : \A i \in 1..k : Len(r[i]) <= b}
           U == {b \in Nat : \A i \in 1..n : Len(r[i]) <= b}
<1>1. n \in Nat /\ \A i \in 1..n : Len(r[i]) \in Nat
  BY ConstantsAre DEF Records, Durations
<1>2. 0 \in T
  OBVIOUS
<1>3. ASSUME NEW k \in Nat, k \in T PROVE k + 1 \in T
  <2> SUFFICES ASSUME k + 1 <= n PROVE \E b \in Nat : \A i \in 1..k + 1 : Len(r[i]) <= b
    OBVIOUS
  <2>1. k + 1 \in 1..n /\ k <= n
    BY <1>1
  <2>2. PICK b \in Nat : \A i \in 1..k : Len(r[i]) <= b
    BY <1>3, <2>1
  <2> DEFINE l == Len(r[k + 1])
  <2>3. l \in Nat
    BY <1>1, <2>1
  <2>4. \A i \in 1..k + 1 : i \in 1..n /\ (i \in 1..k \/ i = k + 1)
    BY <1>1, <2>1
  <2>5. \A i \in 1..k + 1 : Len(r[i]) <= b + l
    <3> TAKE i \in 1..k + 1
    <3>1. CASE i \in 1..k
      BY <1>1, <2>2, <2>3, <2>4, <3>1
    <3>2. CASE i = k + 1
      BY <2>3, <3>2
    <3> QED
      BY <2>4, <3>1, <3>2
  <2>6. b + l \in Nat
    BY <2>3
  <2> HIDE DEF l
  <2> QED
    BY <2>5, <2>6
<1>4. \E b \in Nat : b \in U
  <2> n \in T
    <3> HIDE DEF T
    <3> QED
      BY <1>1, <1>2, <1>3, SetInduction
  <2> QED
    BY <1>1
<1>5. PICK b \in U : \A c \in U : b <= c
  <2> U \subseteq Nat /\ U # {}
    BY <1>4
  <2> HIDE DEF U
  <2> QED
    BY SmallestMember
<1>6. b \in Nat /\ \A y \in H : y \in Nat /\ y <= b
  BY <1>1, <1>5
<1>7. b \in H
  <2> SUFFICES ASSUME b \notin H PROVE FALSE
    OBVIOUS
  <2>1. b # 0 /\ b - 1 \in Nat /\ \A i \in 1..n : Len(r[i]) <= b - 1
    BY <1>1, <1>6
  <2>2. b - 1 \in U
    BY <2>1
  <2> HIDE DEF U
  <2> QED
    BY <1>5, <1>6, <2>2
<1> DEFINE m == Max(H)
<1>8. m \in H /\ \A y \in H : m >= y
  <2>1. \E x \in H : \A y \in H : x >= y
    BY <1>6, <1>7
  <2> HIDE DEF H
  <2> QED
    BY <2>1 DEF Max
<1>9. m \in Nat
  BY <1>6, <1>8
<1>10. \A i \in 1..n : Len(r[i]) \in Nat /\ Len(r[i]) <= m
  <2> HIDE DEF m
  <2> QED
    BY <1>1, <1>8, <1>9
<1> QED
  BY <1>9, <1>10

LEMMA RecordedIs ==
    ASSUME NEW r \in Records
    PROVE  Recorded(r) \in Seq(1..Len(Funcs))
<1> DEFINE V == 1..Len(Funcs)
           pair(i) == <<r[i] # << >>, i>>
           s == [i \in V |-> pair(i)]
           key == TRUE
<1>1. Pairs(BOOLEAN \X V, V)
  BY DEF Pairs
<1>2. s \in Seq(BOOLEAN \X V)
  <2>1. \A i \in V : pair(i) \in BOOLEAN \X V
    <3> TAKE i \in V
    <3>1. (r[i] # << >>) \in BOOLEAN
      OBVIOUS
    <3> QED
      BY <3>1
  <2> HIDE DEF pair
  <2> QED
    BY <2>1, ConstantsAre
<1>3. Recorded(r) = Under(s, key)
  BY DEF Recorded
<1> HIDE DEF V, s, key
<1>4. Recorded(r) \in Seq(V)
  BY <1>1, <1>2, <1>3, UnderIs
<1> QED
  BY <1>4 DEF V

\* One more in front.
LEMMA InFront ==
    ASSUME NEW S, NEW a \in S, NEW s \in Seq(S)
    PROVE  /\ <<a>> \o s \in Seq(S) /\ Len(<<a>> \o s) = Len(s) + 1
           /\ (<<a>> \o s)[1] = a /\ \A i \in 1..Len(s) : (<<a>> \o s)[i + 1] = s[i]
<1> DEFINE t == <<a>> \o s
<1>1. /\ t \in Seq(S) /\ Len(t) = Len(s) + 1 /\ Len(s) \in Nat
      /\ \A i \in 1..Len(s) + 1 : t[i] = IF i <= 1 THEN <<a>>[i] ELSE s[i - 1]
  BY ConcatProperties
<1> HIDE DEF t
<1>2. t[1] = a
  BY <1>1
<1>3. ASSUME NEW i \in 1..Len(s) PROVE t[i + 1] = s[i]
  <2>1. PICK j \in 1..Len(s) + 1 : j = i + 1 /\ ~ (j <= 1) /\ j - 1 = i
    BY <1>1
  <2> QED
    BY <1>1, <2>1
<1> QED
  BY <1>1, <1>2, <1>3 DEF t

\* The head line of a table and its cells.
LEMMA TableIs ==
    ASSUME NEW r \in Records
    PROVE  /\ Table(r) \in Seq(Numbers) /\ Table(r) # << >>
           /\ Table(r)[1] = Recorded(r) /\ Recorded(r) \in Seq(1..Len(Funcs))
           /\ \A c \in 1..Len(Recorded(r)) :
                LET durations == r[Recorded(r)[c]]
                IN  /\ durations \in Durations /\ Len(durations) <= Len(Table(r)) - 1
                    /\ \A i \in 1..Len(Table(r)) - 1 :
                         Table(r)[i + 1][c] = IF i <= Len(durations)
                                              THEN Printed[durations[i]] ELSE 0
<1> DEFINE columns == Recorded(r)
           m == Max({0} \cup {Len(r[i]) : i \in 1..Len(Funcs)})
           cell(i, c) == IF i <= Len(r[columns[c]]) THEN Printed[r[columns[c]][i]] ELSE 0
           row(i) == [c \in 1..Len(columns) |-> cell(i, c)]
           rows == [i \in 1..m |-> row(i)]
           first == <<columns>>
           t == first \o rows
<1>1. m \in Nat /\ \A i \in 1..Len(Funcs) : Len(r[i]) \in Nat /\ Len(r[i]) <= m
  BY LongestIs
<1>2. columns \in Seq(1..Len(Funcs))
  BY RecordedIs
<1>3. Table(r) = t
  BY DEF Table
<1>4. \A c \in 1..Len(columns) :
        /\ columns[c] \in 1..Len(Funcs) /\ r[columns[c]] \in Durations
        /\ Len(r[columns[c]]) \in Nat /\ Len(r[columns[c]]) <= m
  <2> HIDE DEF columns, m
  <2> QED
    BY <1>1, <1>2, SMTT(30) DEF Records
<1>5. \A i \in 1..m : \A c \in 1..Len(columns) : cell(i, c) \in Nat
  <2> SUFFICES ASSUME NEW i \in 1..m, NEW c \in 1..Len(columns) PROVE cell(i, c) \in Nat
    OBVIOUS
  <2> DEFINE column == r[columns[c]]
  <2>0. i \in Nat \ {0} /\ column \in Durations
    BY <1>1, <1>4
  <2>1. column \in Seq(1..MaxCalls) /\ Len(column) \in Nat /\ i \in Nat \ {0}
    <3> HIDE DEF column
    <3> QED
      BY <2>0 DEF Durations
  <2> HIDE DEF columns, m, column
  <2>2. ASSUME i <= Len(column) PROVE column[i] \in 1..MaxCalls
    <3> i \in 1..Len(column)
      BY <2>1, <2>2
    <3> QED
      BY <2>1, ElementOfSeq
  <2>3. i <= Len(column) => Printed[column[i]] \in Nat
    BY <2>2, ConstantsAre
  <2> QED
    BY <2>3 DEF column
<1>6. columns \in Numbers /\ Len(columns) \in Nat
  <2> HIDE DEF columns
  <2>1. \A c \in 1..Len(columns) : columns[c] \in Nat
    BY <1>2, ConstantsAre
  <2> QED
    BY <1>2, <2>1 DEF Numbers
<1>7. \A i \in 1..m : row(i) \in Numbers
  <2> HIDE DEF cell, columns, m
  <2> QED
    BY <1>5, <1>6 DEF Numbers
<1> HIDE DEF columns, m
<1>8. rows \in Seq(Numbers) /\ Len(rows) = m /\ \A i \in 1..m : rows[i] = row(i)
  <2> HIDE DEF row
  <2> QED
    BY <1>1, <1>7
<1> HIDE DEF rows
<1>10. /\ t \in Seq(Numbers) /\ Len(t) = m + 1 /\ t[1] = columns
       /\ \A i \in 1..m : t[i + 1] = rows[i]
  BY <1>6, <1>8, InFront
<1> HIDE DEF t
<1>11. \A i \in 1..m : \A c \in 1..Len(columns) : t[i + 1][c] = cell(i, c)
  <2> HIDE DEF cell
  <2> QED
    BY <1>8, <1>10
<1>12. t # << >> /\ Len(t) - 1 = m
  BY <1>1, <1>10
<1> QED
  BY <1>1, <1>2, <1>3, <1>4, <1>10, <1>11, <1>12 DEF columns

LEMMA DumpDoes ==
    ASSUME TypeInv, NEW p \in Procs, DumpIntoFile(p)
    PROVE  LET P == proc[p]
               Q == proc'[p]
           IN  /\ Others(p) /\ Q \in Process /\ proc' \in [Procs -> Process] /\ Quiet
               /\ P.status = "up" /\ P.rest = << >> /\ P.time # 0
               /\ Same(Q, P, {"dumps", "rest"}) /\ P.records_ \in Records
               /\ Q.dumps = Append(P.dumps, P.records_) /\ Q.rest = Table(P.records_)
<1> DEFINE P == proc[p]
           Q == proc'[p]
           dumps == Append(P.dumps, P.records_)
           rest == Table(P.records_)
           R == [P EXCEPT !.dumps = dumps, !.rest = rest]
<1>1. P \in Process /\ P.records_ \in Records /\ P.dumps \in Dumps
  BY DEF TypeInv, Process
<1>2. dumps \in Dumps /\ rest \in Rows
  <2> DEFINE D == P.dumps
             r == P.records_
  <2>1. D \in Seq(Records) /\ r \in Records
    BY <1>1 DEF Dumps
  <2> HIDE DEF D, r
  <2>2. Append(D, r) \in Dumps /\ Table(r) \in Rows
    BY <2>1, TableIs DEF Dumps, Rows
  <2> QED
    BY <2>2 DEF D, r
<1>3. P.status = "up" /\ Quiet /\ P.rest = << >> /\ P.time # 0
  BY DEF DumpIntoFile, Call, Quiet, disk, Idle
<1>5. proc' = [proc EXCEPT ![p] = R]
  BY <1>1 DEF DumpIntoFile, TypeInv
<1>9. /\ R \in Process /\ R.dumps = dumps /\ R.rest = rest
      /\ Same(R, P, {"dumps", "rest"})
  <2> HIDE DEF P, dumps, rest
  <2> QED
    BY <1>1, <1>2 DEF Process, Same
<1> HIDE DEF R
<1>10. Others(p) /\ Q = R /\ proc' \in [Procs -> Process]
  BY <1>5, <1>9, OneProcess
<1> HIDE DEF dumps, rest
<1> QED
  BY <1>1, <1>3, <1>9, <1>10 DEF dumps, rest

\* What one line for the evaluation logger changes.
Tells(P, Q, line) ==
    /\ Q.given = Append(P.given, line)
    /\ RecordsIn(Q.queue) = RecordsIn(P.queue)
    /\ P.time = 0 => Q.queue = P.queue
    /\ P.time # 0 /\ P.time = P.pool => LinesIn(Q.queue) = LinesIn(P.queue) \o <<line>>

LEMMA EvaluatedIs ==
    ASSUME NEW P \in Process, NEW dump \in Nat, NEW cells \in Numbers
    PROVE  LET Q == Evaluated(P, dump, cells)
           IN  /\ Q \in Process /\ Same(Q, P, {"queue", "given"})
               /\ Tells(P, Q, <<dump, cells>>) /\ <<dump, cells>> \in Line
<1> DEFINE line == <<dump, cells>>
           items == <<Item("line", 0, line)>>
           queue == Posted(P, P.time, items)
           given == Append(P.given, line)
           R == [P EXCEPT !.given = given, !.queue = queue]
<1>1. /\ P.queue \in Queues /\ P.given \in Given /\ line \in Line /\ line \in Texts
      /\ P.time \in Nat /\ P.pool \in Nat
  BY DEF Process, Line, Texts, Numbers
<1>2. Evaluated(P, dump, cells) = R
  BY DEF Evaluated, Process
<1> HIDE DEF line
<1>3. items \in Queues /\ RecordsIn(items) = << >> /\ LinesIn(items) = <<line>>
  BY <1>1, PostedLine DEF Queues
<1>4. queue = IF P.time # 0 /\ P.time = P.pool THEN P.queue \o items ELSE P.queue
  BY DEF Posted
<1>5. given \in Given
  BY <1>1 DEF Given
<1> HIDE DEF items, queue
<1>6. queue \in Queues /\ RecordsIn(queue) = RecordsIn(P.queue)
      /\ (P.time = 0 => queue = P.queue)
      /\ (P.time # 0 /\ P.time = P.pool => LinesIn(queue) = LinesIn(P.queue) \o <<line>>)
  <2>1. CASE P.time # 0 /\ P.time = P.pool
    <3>1. /\ P.queue \o items \in Queues
          /\ RecordsIn(P.queue \o items) = RecordsIn(P.queue)
          /\ LinesIn(P.queue \o items) = LinesIn(P.queue) \o LinesIn(items)
      BY <1>1, <1>3, QueuedIs
    <3> QED
      BY <1>3, <1>4, <2>1, <3>1
  <2>2. CASE ~ (P.time # 0 /\ P.time = P.pool)
    BY <1>1, <1>4, <2>2
  <2> QED
    BY <2>1, <2>2
<1>7. /\ R \in Process /\ R.queue = queue /\ R.given = given
      /\ Same(R, P, {"queue", "given"})
  <2> HIDE DEF given
  <2> QED
    BY <1>5, <1>6 DEF Process, Same
<1> HIDE DEF R
<1> QED
  BY <1>1, <1>2, <1>6, <1>7 DEF line, Tells

LEMMA LogTimeDoes ==
    ASSUME TypeInv, NEW p \in Procs, log_time(p)
    PROVE  LET P == proc[p]
               Q == proc'[p]
           IN  /\ Others(p) /\ Q \in Process /\ proc' \in [Procs -> Process] /\ Quiet
               /\ P.status = "up" /\ P.time # 0 /\ Same(Q, P, {"queue", "given"})
               /\ \E cells \in Numbers : <<0, cells>> \in Line /\ Tells(P, Q, <<0, cells>>)
<1> DEFINE P == proc[p]
           Q == proc'[p]
           cells == <<Len(P.given) + 1>>
           R == Evaluated(P, 0, cells)
<1>1. P \in Process /\ cells \in Numbers
  <2> P.given \in Seq(Line)
    BY DEF TypeInv, Process, Given
  <2> QED
    BY DEF TypeInv, Numbers
<1>2. P.status = "up" /\ Quiet /\ P.time # 0 /\ proc' = [proc EXCEPT ![p] = R]
  BY DEF log_time, Call, Quiet, disk
<1> HIDE DEF cells
<1>3. /\ R \in Process /\ Same(R, P, {"queue", "given"})
      /\ Tells(P, R, <<0, cells>>) /\ <<0, cells>> \in Line
  <2> HIDE DEF P
  <2> QED
    BY <1>1, EvaluatedIs
<1> HIDE DEF R
<1>4. Others(p) /\ Q = R /\ proc' \in [Procs -> Process]
  BY <1>2, <1>3, OneProcess
<1> HIDE DEF P, Q
<1> QED
  BY <1>1, <1>2, <1>3, <1>4 DEF P, Q

LEMMA DumpLineDoes ==
    ASSUME TypeInv, NEW p \in Procs, DumpLine(p)
    PROVE  LET P == proc[p]
               Q == proc'[p]
           IN  /\ Others(p) /\ Q \in Process /\ proc' \in [Procs -> Process] /\ Quiet
               /\ calls' = calls
               /\ P.status = "up" /\ P.rest # << >> /\ Same(Q, P, {"queue", "given", "rest"})
               /\ Q.rest = Tail(P.rest) /\ Head(P.rest) \in Numbers /\ Len(P.dumps) \in Nat
               /\ <<Len(P.dumps), Head(P.rest)>> \in Line
               /\ Tells(P, Q, <<Len(P.dumps), Head(P.rest)>>)
<1> DEFINE P == proc[p]
           Q == proc'[p]
           row == Head(P.rest)
           n == Len(P.dumps)
           left == Tail(P.rest)
           O == [P EXCEPT !.rest = left]
           R == Evaluated(O, n, row)
<1>1. P \in Process /\ P.rest \in Rows /\ n \in Nat
  <2> P.dumps \in Seq(Records)
    BY DEF TypeInv, Process, Dumps
  <2> QED
    BY DEF TypeInv, Process
<1>2. /\ P.status = "up" /\ Quiet /\ P.rest # << >> /\ calls' = calls
      /\ proc' = [proc EXCEPT ![p] = Evaluated([P EXCEPT !.rest = Tail(@)], Len(P.dumps), row)]
  BY DEF DumpLine, Quiet, disk
<1>3. row \in Numbers /\ left \in Rows
  <2> DEFINE rest == P.rest
  <2>1. rest \in Seq(Numbers) /\ rest # << >>
    BY <1>1, <1>2 DEF Rows
  <2> HIDE DEF rest
  <2>2. Head(rest) \in Numbers /\ Tail(rest) \in Rows
    BY <2>1 DEF Rows
  <2> QED
    BY <2>2 DEF rest
<1>4. proc' = [proc EXCEPT ![p] = R]
  <2> [P EXCEPT !.rest = Tail(@)] = O
    BY <1>1 DEF Process
  <2> QED
    BY <1>2
<1> HIDE DEF row, n, left
<1>5. /\ O \in Process /\ Same(O, P, {"rest"}) /\ O.rest = left
  <2> HIDE DEF P
  <2> QED
    BY <1>1, <1>3 DEF Process, Same
<1> HIDE DEF O
<1>6. /\ R \in Process /\ Same(R, O, {"queue", "given"})
      /\ Tells(O, R, <<n, row>>) /\ <<n, row>> \in Line
  BY <1>1, <1>3, <1>5, EvaluatedIs
<1> HIDE DEF R
<1>7. Others(p) /\ Q = R /\ proc' \in [Procs -> Process]
  BY <1>4, <1>6, OneProcess
<1>8. Same(R, P, {"queue", "given", "rest"}) /\ R.rest = left
  <2> HIDE DEF P
  <2> QED
    BY <1>5, <1>6 DEF Same
<1>9. Tells(P, R, <<n, row>>)
  <2> HIDE DEF P
  <2> QED
    BY <1>5, <1>6 DEF Same, Tells
<1> HIDE DEF P, Q
<1> QED
  BY <1>1, <1>2, <1>3, <1>6, <1>7, <1>8, <1>9 DEF P, Q, row, n, left

-----------------------------------------------------------------------------
(* What the workers write                                                  *)

\* What a process has in the files of a directory.
NodeOf(d, p) == Under(nodeFile[d], p)
TimeOf(d, p) == Under(timeFile[d], p)

LEMMA FilesAre ==
    ASSUME TypeInv, NEW p, NEW d \in Dirs
    PROVE  NodeOf(d, p) \in Numbers /\ TimeOf(d, p) \in Seq(Texts)
<1>1. nodeFile[d] \in Seq(Procs \X Nat) /\ timeFile[d] \in TimeFiles
  BY DEF TypeInv, NodeFiles
<1>2. timeFile[d] \in Seq(Procs \X Texts) /\ Pairs(Procs \X Texts, Texts)
  BY <1>1, PairsAre DEF TimeFiles
<1> QED
  BY <1>1, <1>2, PairsAre, UnderIs DEF NodeOf, TimeOf, Numbers

\* The buffer goes to the end of the process's own records, and to no other's.
LEMMA WriteOutDoes ==
    ASSUME TypeInv, NEW p \in Procs, NEW buffer \in Numbers, WriteOut(p, buffer)
    PROVE  /\ nodeFile' \in [Dirs -> NodeFiles]
           /\ \A d \in Dirs : \A q :
                NodeOf(d, q)' = IF q = p /\ d = proc[p].dir /\ d \in dirs \cup {Root}
                                THEN NodeOf(d, q) \o buffer ELSE NodeOf(d, q)
<1> DEFINE dir == proc[p].dir
           pairs == [i \in 1..Len(buffer) |-> <<p, buffer[i]>>]
           S == Procs \X Nat
<1>1. pairs \in Seq(S) /\ Len(pairs) = Len(buffer) /\ Pairs(S, Nat)
      /\ \A i \in 1..Len(pairs) : pairs[i][1] = p /\ pairs[i][2] = buffer[i]
  BY PairsAre DEF Numbers
<1>2. nodeFile \in [Dirs -> Seq(S)] /\ dirs \cup {Root} \subseteq Dirs
  BY ConstantsAre DEF TypeInv, NodeFiles, Dirs
<1>3. nodeFile' = IF dir \in dirs \cup {Root} THEN [nodeFile EXCEPT ![dir] = @ \o pairs]
                  ELSE nodeFile
  BY DEF WriteOut
<1>4. \A q : Under(pairs, q) = IF q = p THEN buffer ELSE << >>
  <2> TAKE q
  <2>1. [i \in 1..Len(pairs) |-> pairs[i][2]] = buffer
    <3>1. buffer = [i \in 1..Len(buffer) |-> buffer[i]]
      BY Zenon, SeqIsFunction DEF Numbers
    <3>2. [i \in 1..Len(pairs) |-> pairs[i][2]] = [i \in 1..Len(buffer) |-> buffer[i]]
      <4> HIDE DEF pairs
      <4> QED
        BY <1>1
    <3> QED
      BY <3>1, <3>2
  <2> HIDE DEF pairs, S
  <2>2. CASE q = p
    <3> Under(pairs, q) = [i \in 1..Len(pairs) |-> pairs[i][2]]
      BY <1>1, <2>2, UnderAll
    <3> QED
      BY <2>1, <2>2
  <2>3. CASE q # p
    BY <1>1, <2>3, UnderAll
  <2> QED
    BY <2>2, <2>3
<1> HIDE DEF pairs
<1>5. \A d \in Dirs : nodeFile'[d] = IF d = dir /\ d \in dirs \cup {Root}
                                     THEN nodeFile[d] \o pairs ELSE nodeFile[d]
  BY <1>2, <1>3
<1>6. nodeFile' \in [Dirs -> Seq(S)]
  <2>1. \A d \in Dirs : nodeFile[d] \o pairs \in Seq(S)
    <3> HIDE DEF S
    <3> QED
      BY <1>1, <1>2
  <2> HIDE DEF S
  <2> QED
    BY <1>2, <1>3, <2>1
<1>7. ASSUME NEW d \in Dirs, NEW q
      PROVE  Under(nodeFile'[d], q) = IF q = p /\ d = dir /\ d \in dirs \cup {Root}
                                      THEN Under(nodeFile[d], q) \o buffer
                                      ELSE Under(nodeFile[d], q)
  <2>1. Under(nodeFile[d] \o pairs, q) = Under(nodeFile[d], q) \o Under(pairs, q)
    <3> DEFINE f == nodeFile[d]
    <3>1. f \in Seq(S) /\ pairs \in Seq(S) /\ Pairs(S, Nat)
      BY <1>1, <1>2
    <3> HIDE DEF S, f
    <3>2. Under(f \o pairs, q) = Under(f, q) \o Under(pairs, q)
      BY <3>1, UnderJoined
    <3> QED
      BY <3>2 DEF f
  <2>2. Under(nodeFile[d], q) \o << >> = Under(nodeFile[d], q)
    <3> Under(nodeFile[d], q) \in Seq(Nat)
      BY FilesAre DEF NodeOf, Numbers
    <3> QED
      OBVIOUS
  <2>3. Under(nodeFile[d] \o pairs, q) = IF q = p THEN Under(nodeFile[d], q) \o buffer
                                         ELSE Under(nodeFile[d], q)
    BY <1>4, <2>1, <2>2
  <2> HIDE DEF dir
  <2> QED
    BY <1>5, <2>3
<1> QED
  BY <1>6, <1>7 DEF NodeFiles, NodeOf

\* Reading a queue from its first item on.
LEMMA QueueFirst ==
    ASSUME NEW queue \in Queues, queue # << >>
    PROVE  /\ Head(queue) \in QueueItem /\ Tail(queue) \in Queues
           /\ RecordsIn(queue) = (IF Head(queue).kind \in {"info", "debug"}
                                  THEN <<Head(queue).number>> ELSE << >>) \o RecordsIn(Tail(queue))
           /\ LinesIn(queue) = (IF Head(queue).kind = "line" THEN <<Head(queue).line>>
                                ELSE << >>) \o LinesIn(Tail(queue))
BY QueueHead DEF Queues

LEMMA WorkerNodeDoes ==
    ASSUME TypeInv, NEW p \in Procs, WorkerNode(p)
    PROVE  LET P == proc[p]
               Q == proc'[p]
           IN  /\ Others(p) /\ Q \in Process /\ proc' \in [Procs -> Process]
               /\ clock' = clock /\ dirs' = dirs /\ timeFile' = timeFile
               /\ P.status = "up" /\ P.queue # << >> /\ Same(Q, P, {"queue", "buffer"})
               /\ LinesIn(Q.queue) = LinesIn(P.queue)
               /\ \E written \in Numbers :
                    /\ P.buffer \o RecordsIn(P.queue) = written \o (Q.buffer \o RecordsIn(Q.queue))
                    /\ nodeFile' \in [Dirs -> NodeFiles]
                    /\ \A d \in Dirs : \A q :
                         NodeOf(d, q)' = IF q = p /\ d = P.dir /\ d \in dirs \cup {Root}
                                         THEN NodeOf(d, q) \o written ELSE NodeOf(d, q)
<1> DEFINE P == proc[p]
           Q == proc'[p]
           item == Head(P.queue)
           rest == Tail(P.queue)
           none == << >>
           kept == IF item.kind = "flush" THEN P.buffer ELSE Append(P.buffer, item.number)
           buffer == IF item.kind = "debug" THEN kept ELSE none
           written == IF item.kind = "debug" THEN none ELSE kept
           R == [P EXCEPT !.queue = rest, !.buffer = buffer]
<1>1. P \in Process /\ P.queue \in Queues /\ P.buffer \in Numbers /\ none \in Numbers
  BY EmptyIs DEF TypeInv, Process
<1>2. P.status = "up" /\ P.queue # << >> /\ item.kind # "line" /\ clock' = clock
      /\ dirs' = dirs /\ timeFile' = timeFile
  BY DEF WorkerNode
<1>3. /\ item \in QueueItem /\ rest \in Queues
      /\ RecordsIn(P.queue) = (IF item.kind \in {"info", "debug"}
                               THEN <<item.number>> ELSE << >>) \o RecordsIn(rest)
      /\ LinesIn(P.queue) = << >> \o LinesIn(rest)
  <2> DEFINE queue == P.queue
  <2>1. queue \in Queues /\ queue # << >> /\ Head(queue).kind # "line"
    BY <1>1, <1>2
  <2> HIDE DEF queue
  <2>2. /\ Head(queue) \in QueueItem /\ Tail(queue) \in Queues
        /\ RecordsIn(queue) = (IF Head(queue).kind \in {"info", "debug"}
                               THEN <<Head(queue).number>> ELSE << >>) \o RecordsIn(Tail(queue))
        /\ LinesIn(queue) = (IF Head(queue).kind = "line" THEN <<Head(queue).line>>
                             ELSE << >>) \o LinesIn(Tail(queue))
    BY <2>1, QueueFirst
  <2>3. LinesIn(queue) = << >> \o LinesIn(Tail(queue))
    BY <2>1, <2>2
  <2> QED
    BY <2>2, <2>3 DEF queue
<1>4. item.kind \in {"info", "debug", "flush"} /\ item.number \in Nat
  BY <1>2, <1>3 DEF QueueItem, Kinds
<1>5. proc' = [proc EXCEPT ![p] = R]
  BY DEF WorkerNode, TypeInv
<1>6. IF item.kind = "debug" THEN nodeFile' = nodeFile ELSE WriteOut(p, kept)
  BY DEF WorkerNode
<1> HIDE DEF item, rest
<1>7. kept \in Numbers /\ buffer \in Numbers /\ written \in Numbers
  BY <1>1, <1>4 DEF Numbers
<1>8. R \in Process /\ R.queue = rest /\ R.buffer = buffer /\ Same(R, P, {"queue", "buffer"})
  <2> HIDE DEF P, buffer
  <2> QED
    BY <1>1, <1>3, <1>7 DEF Process, Same
<1> HIDE DEF R
<1>9. Others(p) /\ Q = R /\ proc' \in [Procs -> Process]
  BY <1>5, <1>8, OneProcess
<1>10. P.buffer \o RecordsIn(P.queue) = written \o (buffer \o RecordsIn(rest))
  <2> DEFINE a == P.buffer
             b == RecordsIn(rest)
             x == item.number
  <2>1. a \in Seq(Nat) /\ b \in Seq(Nat) /\ x \in Nat /\ kept \in Seq(Nat)
    BY <1>1, <1>3, <1>4, <1>7, QueuedIs, EmptyIs DEF Numbers
  <2>2. kept = IF item.kind = "flush" THEN a ELSE Append(a, x)
    OBVIOUS
  <2>3. /\ RecordsIn(P.queue) = (IF item.kind \in {"info", "debug"} THEN <<x>> ELSE << >>) \o b
        /\ P.buffer = a
    BY <1>3
  <2> HIDE DEF a, b, x
  <2>4. a \o (<<x>> \o b) = Append(a, x) \o b /\ << >> \o b = b
    <3>1. <<x>> \in Seq(Nat) /\ a \o <<x>> = Append(a, x)
      BY <2>1, AppendOne
    <3>2. a \o (<<x>> \o b) = (a \o <<x>>) \o b
      BY <2>1, <3>1, Zenon, Associative
    <3>3. << >> \o b = b
      BY <2>1
    <3> QED
      BY <3>1, <3>2, <3>3, Zenon
  <2> HIDE DEF kept
  <2>5. P.buffer \o RecordsIn(P.queue) = kept \o b
    BY <1>4, <2>2, <2>3, <2>4
  <2>6. written \o (buffer \o b) = kept \o b
    <3> DEFINE kb == kept \o b
    <3>1. kb \in Seq(Nat) /\ b \in Seq(Nat)
      BY <2>1
    <3>2. \A s \in Seq(Nat) : none \o s = s
      OBVIOUS
    <3>3. none \o b = b /\ none \o kb = kb
      <4> HIDE DEF kb, none
      <4> QED
        BY <3>1, <3>2
    <3>4. CASE item.kind = "debug"
      BY <3>3, <3>4
    <3>5. CASE item.kind # "debug"
      BY <3>3, <3>5
    <3> QED
      BY <3>4, <3>5
  <2> QED
    BY <2>5, <2>6 DEF b
<1>11. LinesIn(rest) = LinesIn(P.queue)
  <2> LinesIn(rest) \in Seq(Texts)
    BY <1>3, QueuedIs, EmptyIs
  <2> QED
    BY <1>3
<1>12. /\ nodeFile' \in [Dirs -> NodeFiles]
       /\ \A d \in Dirs : \A q :
            NodeOf(d, q)' = IF q = p /\ d = P.dir /\ d \in dirs \cup {Root}
                            THEN NodeOf(d, q) \o written ELSE NodeOf(d, q)
  <2>1. CASE item.kind = "debug"
    <3>1. nodeFile' = nodeFile /\ written = << >>
      BY <1>6, <2>1
    <3>2. \A d \in Dirs : \A q : NodeOf(d, q)' = NodeOf(d, q) /\ NodeOf(d, q) \o << >> = NodeOf(d, q)
      <4> TAKE d \in Dirs
      <4> TAKE q
      <4> NodeOf(d, q) \in Seq(Nat)
        BY FilesAre DEF Numbers
      <4>1. NodeOf(d, q) \o << >> = NodeOf(d, q)
        OBVIOUS
      <4>2. NodeOf(d, q)' = NodeOf(d, q)
        BY <3>1 DEF NodeOf
      <4> QED
        BY <4>1, <4>2
    <3> HIDE DEF written, P
    <3> QED
      BY <3>1, <3>2 DEF TypeInv
  <2>2. CASE item.kind # "debug"
    <3>1. written = kept /\ WriteOut(p, kept)
      BY <1>6, <2>2
    <3> HIDE DEF written, kept
    <3> QED
      BY <1>7, <3>1, WriteOutDoes
  <2> QED
    BY <2>1, <2>2
<1> HIDE DEF written, buffer, P, Q
<1> QED
  BY <1>2, <1>7, <1>8, <1>9, <1>10, <1>11, <1>12 DEF P, Q

LEMMA WorkerTimeDoes ==
    ASSUME TypeInv, NEW p \in Procs, WorkerTime(p)
    PROVE  LET P == proc[p]
               Q == proc'[p]
           IN  /\ Others(p) /\ Q \in Process /\ proc' \in [Procs -> Process]
               /\ clock' = clock /\ dirs' = dirs /\ nodeFile' = nodeFile
               /\ P.status = "up" /\ P.queue # << >> /\ Same(Q, P, {"queue"})
               /\ RecordsIn(Q.queue) = RecordsIn(P.queue)
               /\ \E line \in Texts :
                    /\ LinesIn(P.queue) = <<line>> \o LinesIn(Q.queue)
                    /\ timeFile' \in [Dirs -> TimeFiles]
                    /\ \A d \in Dirs : \A q :
                         TimeOf(d, q)' = IF q = p /\ d = P.dir /\ d \in dirs \cup {Root}
                                         THEN TimeOf(d, q) \o <<line>> ELSE TimeOf(d, q)
<1> DEFINE P == proc[p]
           Q == proc'[p]
           rest == Tail(P.queue)
           line == Head(P.queue).line
           R == [P EXCEPT !.queue = rest]
           S == Procs \X Texts
           pair == <<p, line>>
<1>1. P \in Process /\ P.queue \in Queues
  BY DEF TypeInv, Process
<1>2. P.status = "up" /\ P.queue # << >> /\ Head(P.queue).kind = "line" /\ clock' = clock
      /\ dirs' = dirs /\ nodeFile' = nodeFile
  BY DEF WorkerTime
<1>3. /\ line \in Texts /\ rest \in Queues
      /\ RecordsIn(P.queue) = << >> \o RecordsIn(rest)
      /\ LinesIn(P.queue) = <<line>> \o LinesIn(rest)
  <2> DEFINE queue == P.queue
  <2>1. queue \in Queues /\ queue # << >> /\ Head(queue).kind = "line"
    BY <1>1, <1>2
  <2> HIDE DEF queue
  <2>2. /\ Head(queue) \in QueueItem /\ Tail(queue) \in Queues
        /\ RecordsIn(queue) = (IF Head(queue).kind \in {"info", "debug"}
                               THEN <<Head(queue).number>> ELSE << >>) \o RecordsIn(Tail(queue))
        /\ LinesIn(queue) = (IF Head(queue).kind = "line" THEN <<Head(queue).line>>
                             ELSE << >>) \o LinesIn(Tail(queue))
    BY <2>1, QueueFirst
  <2>3. LinesIn(queue) = <<Head(queue).line>> \o LinesIn(Tail(queue))
    BY <2>1, <2>2
  <2>4. RecordsIn(queue) = << >> \o RecordsIn(Tail(queue))
    BY <2>1, <2>2
  <2>5. Head(queue).line \in Texts
    BY <2>2 DEF QueueItem
  <2> QED
    BY <2>2, <2>3, <2>4, <2>5 DEF queue
<1>4. RecordsIn(rest) = RecordsIn(P.queue)
  <2> RecordsIn(rest) \in Seq(Nat)
    BY <1>3, QueuedIs, EmptyIs DEF Numbers
  <2> QED
    BY <1>3
<1>5. proc' = [proc EXCEPT ![p] = R]
  BY DEF WorkerTime, TypeInv
<1>6. timeFile' = IF P.dir \in dirs \cup {Root}
                  THEN [timeFile EXCEPT ![P.dir] = Append(@, pair)] ELSE timeFile
  BY DEF WorkerTime
<1> HIDE DEF rest, line
<1>7. R \in Process /\ R.queue = rest /\ Same(R, P, {"queue"})
  <2> HIDE DEF P
  <2> QED
    BY <1>1, <1>3 DEF Process, Same
<1> HIDE DEF R
<1>8. Others(p) /\ Q = R /\ proc' \in [Procs -> Process]
  BY <1>5, <1>7, OneProcess
<1>9. timeFile \in [Dirs -> Seq(S)] /\ dirs \cup {Root} \subseteq Dirs
  BY ConstantsAre DEF TypeInv, TimeFiles, Dirs
<1>10. pair \in S /\ Pairs(S, Texts) /\ pair[1] = p /\ pair[2] = line
  BY <1>3 DEF Pairs
<1> HIDE DEF S, pair
<1>11. timeFile' \in [Dirs -> Seq(S)]
  <2> \A d \in Dirs : Append(timeFile[d], pair) \in Seq(S)
    BY <1>9, <1>10
  <2> HIDE DEF P
  <2> QED
    BY <1>6, <1>9
<1>12. \A d \in Dirs : timeFile'[d] = IF d = P.dir /\ d \in dirs \cup {Root}
                                      THEN Append(timeFile[d], pair) ELSE timeFile[d]
  <2> HIDE DEF P
  <2> QED
    BY <1>6, <1>9
<1>13. ASSUME NEW d \in Dirs, NEW q
       PROVE  TimeOf(d, q)' = IF q = p /\ d = P.dir /\ d \in dirs \cup {Root}
                              THEN TimeOf(d, q) \o <<line>> ELSE TimeOf(d, q)
  <2> DEFINE f == timeFile[d]
             u == Under(f, q)
  <2>1. f \in Seq(S)
    BY <1>9
  <2>2. u \in Seq(Texts)
    <3> HIDE DEF f
    <3> QED
      BY <1>10, <2>1, UnderIs
  <2>3. Under(Append(f, pair), q) = IF pair[1] = q THEN Append(u, pair[2]) ELSE u
    <3> HIDE DEF f
    <3> QED
      BY <1>10, <2>1, UnderMore
  <2>4. u \o <<line>> = Append(u, line)
    <3> HIDE DEF u
    <3> QED
      BY <1>3, <2>2, AppendOne
  <2>5. TimeOf(d, q)' = Under(timeFile'[d], q) /\ TimeOf(d, q) = u
    BY DEF TimeOf
  <2>6. timeFile'[d] = IF d = P.dir /\ d \in dirs \cup {Root} THEN Append(f, pair) ELSE f
    BY <1>12
  <2> HIDE DEF P, u
  <2>7. CASE d = P.dir /\ d \in dirs \cup {Root}
    BY <1>10, <2>3, <2>4, <2>5, <2>6, <2>7
  <2>8. CASE ~(d = P.dir /\ d \in dirs \cup {Root})
    BY <2>5, <2>6, <2>8 DEF u
  <2> QED
    BY <2>7, <2>8
<1>14. timeFile' \in [Dirs -> TimeFiles]
  BY <1>11 DEF TimeFiles, S
<1> HIDE DEF P, Q
<1> QED
  BY <1>2, <1>3, <1>4, <1>7, <1>8, <1>13, <1>14 DEF P, Q

LEMMA ExitDoes ==
    ASSUME TypeInv, NEW p \in Procs, Exit(p)
    PROVE  LET P == proc[p]
               Q == proc'[p]
           IN  /\ Others(p) /\ Q \in Process /\ proc' \in [Procs -> Process]
               /\ clock' = clock /\ dirs' = dirs /\ timeFile' = timeFile
               /\ P.status = "up" /\ P.queue = << >> /\ Same(Q, P, {"status", "buffer"})
               /\ Q.status = "ended" /\ Q.buffer = << >>
               /\ nodeFile' \in [Dirs -> NodeFiles]
               /\ \A d \in Dirs : \A q :
                    NodeOf(d, q)' = IF q = p /\ d = P.dir /\ d \in dirs \cup {Root}
                                    THEN NodeOf(d, q) \o P.buffer ELSE NodeOf(d, q)
<1> DEFINE P == proc[p]
           Q == proc'[p]
           none == << >>
           R == [P EXCEPT !.status = "ended", !.buffer = none]
<1>1. P \in Process /\ P.buffer \in Numbers /\ none \in Numbers
  BY EmptyIs DEF TypeInv, Process
<1>2. proc' = [proc EXCEPT ![p] = R]
  BY DEF Exit, TypeInv
<1>3. /\ P.status = "up" /\ P.queue = << >> /\ clock' = clock /\ dirs' = dirs
      /\ timeFile' = timeFile /\ WriteOut(p, P.buffer)
  BY DEF Exit, Call
<1>4. /\ R \in Process /\ Same(R, P, {"status", "buffer"})
      /\ R.status = "ended" /\ R.buffer = none
  <2> HIDE DEF none, P
  <2> QED
    BY <1>1 DEF Process, Statuses, Same
<1> HIDE DEF R
<1>5. Others(p) /\ Q = R /\ proc' \in [Procs -> Process]
  BY <1>2, <1>4, OneProcess
<1>6. /\ nodeFile' \in [Dirs -> NodeFiles]
      /\ \A d \in Dirs : \A q :
           NodeOf(d, q)' = IF q = p /\ d = P.dir /\ d \in dirs \cup {Root}
                           THEN NodeOf(d, q) \o P.buffer ELSE NodeOf(d, q)
  BY <1>1, <1>3, WriteOutDoes
<1> QED
  BY <1>3, <1>4, <1>5, <1>6
-----------------------------------------------------------------------------
(* Types and places                                                        *)

\* A step by its cases; PrintAll is a number of log calls.
LEMMA NextIs ==
    ASSUME TypeInv, [Next]_vars
    PROVE  \/ Tick
           \/ UNCHANGED vars
           \/ \E p \in Procs :
                \/ InitCall(p) \/ Flush(p) \/ WorkerNode(p) \/ WorkerTime(p)
                \/ Exit(p) \/ Crash(p) \/ Clear(p)
                \/ log_time(p) \/ DumpIntoFile(p) \/ DumpLine(p)
                \/ \E kind \in {"info", "debug"}, n \in Nat : Log(p, kind, n)
                \/ \E i \in 1..Len(Funcs) : Evaluate(p, i)
<1>1. ASSUME NEW p \in Procs, PrintAll(p)
      PROVE  \E kind \in {"info", "debug"}, n \in Nat : Log(p, kind, n)
  <2> DEFINE n == 2 + Len(Recorded(proc[p].records_))
  <2>1. n \in Nat
    <3> proc[p].records_ \in Records
      BY DEF TypeInv, Process
    <3> QED
      BY RecordedIs
  <2>2. Log(p, "info", n)
    BY <1>1 DEF PrintAll
  <2> HIDE DEF n
  <2> QED
    BY <2>1, <2>2
<1>2. CASE UNCHANGED vars
  BY <1>2
<1>3. CASE Next
  <2>1. CASE Tick
    BY <2>1
  <2>2. ASSUME NEW p \in Procs,
               \/ InitCall(p) \/ Flush(p) \/ WorkerNode(p) \/ WorkerTime(p)
               \/ Exit(p) \/ Crash(p) \/ Clear(p) \/ PrintAll(p)
               \/ log_time(p) \/ DumpIntoFile(p) \/ DumpLine(p)
               \/ \E kind \in {"info", "debug"} : Log(p, kind, 1)
               \/ \E i \in 1..Len(Funcs) : Evaluate(p, i)
        PROVE  \/ InitCall(p) \/ Flush(p) \/ WorkerNode(p) \/ WorkerTime(p)
               \/ Exit(p) \/ Crash(p) \/ Clear(p)
               \/ log_time(p) \/ DumpIntoFile(p) \/ DumpLine(p)
               \/ \E kind \in {"info", "debug"}, n \in Nat : Log(p, kind, n)
               \/ \E i \in 1..Len(Funcs) : Evaluate(p, i)
    BY <1>1, <2>2
  <2> QED
    BY <1>3, <2>1, <2>2 DEF Next
<1> QED
  BY <1>2, <1>3

\* The calls are counted, and bounded.
LEMMA CallsGrow ==
    ASSUME TypeInv, [Next]_vars
    PROVE  calls' \in 0..MaxCalls /\ calls <= calls'
<1>1. ASSUME NEW p \in Procs, Call(p) PROVE calls' \in 0..MaxCalls /\ calls <= calls'
  BY <1>1, ConstantsAre DEF Call, TypeInv
<1>2. CASE calls' = calls
  BY <1>2, ConstantsAre DEF TypeInv
<1>3. CASE Tick \/ UNCHANGED vars
  BY <1>2, <1>3 DEF Tick, vars
<1>4. ASSUME NEW p \in Procs,
             \/ InitCall(p) \/ Flush(p) \/ WorkerNode(p) \/ WorkerTime(p)
             \/ Exit(p) \/ Crash(p) \/ Clear(p)
             \/ log_time(p) \/ DumpIntoFile(p) \/ DumpLine(p)
             \/ \E kind \in {"info", "debug"}, n \in Nat : Log(p, kind, n)
             \/ \E i \in 1..Len(Funcs) : Evaluate(p, i)
      PROVE  Call(p) \/ calls' = calls
  <2>1. CASE InitCall(p) \/ Flush(p) \/ Exit(p) \/ Crash(p) \/ Clear(p)
    BY <2>1 DEF InitCall, Flush, Exit, Crash, Clear
  <2>2. CASE WorkerNode(p) \/ WorkerTime(p) \/ DumpLine(p)
    BY <2>2 DEF WorkerNode, WorkerTime, DumpLine
  <2>3. CASE log_time(p) \/ DumpIntoFile(p)
    BY <2>3 DEF log_time, DumpIntoFile
  <2>4. CASE \E kind \in {"info", "debug"}, n \in Nat : Log(p, kind, n)
    BY <2>4 DEF Log
  <2>5. CASE \E i \in 1..Len(Funcs) : Evaluate(p, i)
    BY <2>5 DEF Evaluate
  <2> QED
    BY <1>4, <2>1, <2>2, <2>3, <2>4, <2>5
<1> QED
  BY <1>1, <1>2, <1>3, <1>4, NextIs

\* No step leaves the types.
LEMMA TypeStep == TypeInv /\ [Next]_vars => TypeInv'
<1> SUFFICES ASSUME TypeInv, [Next]_vars PROVE TypeInv'
  OBVIOUS
<1>0. calls' \in 0..MaxCalls /\ calls <= calls' /\ calls \in Nat /\ calls' \in Nat
  BY CallsGrow, ConstantsAre DEF TypeInv
\* A measurement counts for no more than its call.
<1> DEFINE Counted == \A q \in Procs : proc'[q].evals <= calls'
<1>a. ASSUME NEW p \in Procs, Others(p), proc'[p].evals = proc[p].evals PROVE Counted
  <2>1. ASSUME NEW q \in Procs PROVE proc'[q].evals <= calls'
    <3>1. proc'[q].evals = proc[q].evals
      BY <1>a DEF Others
    <3>2. proc[q].evals <= calls /\ proc[q].evals \in Nat
      BY DEF TypeInv, Process
    <3> QED
      BY <1>0, <3>1, <3>2
  <2> QED
    BY <2>1
<1>b. proc' = proc => Counted
  <2> SUFFICES ASSUME proc' = proc, NEW q \in Procs PROVE proc[q].evals <= calls'
    OBVIOUS
  <2> proc[q].evals <= calls /\ proc[q].evals \in Nat
    BY DEF TypeInv, Process
  <2> QED
    BY <1>0
<1> HIDE DEF Counted
<1>1. CASE Tick
  <2>1. clock' = clock + 1 /\ clock < MaxTime /\ UNCHANGED <<dirs, nodeFile, timeFile, proc>>
    BY <1>1 DEF Tick, disk
  <2>2. clock' \in 2..MaxTime /\ dirs' \subseteq 2..clock'
    BY <2>1, ConstantsAre DEF TypeInv
  <2> QED
    BY <1>0, <1>b, <2>1, <2>2 DEF TypeInv, Counted
<1>2. CASE UNCHANGED vars
  BY <1>2 DEF TypeInv, vars
<1>3. ASSUME NEW p \in Procs, InitCall(p) PROVE TypeInv'
  <2> Counted
    BY <1>3, <1>a, InitCallDoes DEF Same
  <2> QED
    BY <1>0, <1>3, InitCallDoes DEF TypeInv, Counted
<1>4. ASSUME NEW p \in Procs, Flush(p) PROVE TypeInv'
  <2> Counted
    BY <1>4, <1>a, FlushDoes DEF Same
  <2> QED
    BY <1>0, <1>4, FlushDoes DEF TypeInv, Quiet, Counted
<1>5. ASSUME NEW p \in Procs, WorkerNode(p) PROVE TypeInv'
  <2> Counted
    BY <1>5, <1>a, WorkerNodeDoes DEF Same
  <2> QED
    BY <1>0, <1>5, WorkerNodeDoes DEF TypeInv, Counted
<1>6. ASSUME NEW p \in Procs, WorkerTime(p) PROVE TypeInv'
  <2> Counted
    BY <1>6, <1>a, WorkerTimeDoes DEF Same
  <2> QED
    BY <1>0, <1>6, WorkerTimeDoes DEF TypeInv, Counted
<1>7. ASSUME NEW p \in Procs, Exit(p) PROVE TypeInv'
  <2> Counted
    BY <1>7, <1>a, ExitDoes DEF Same
  <2> QED
    BY <1>0, <1>7, ExitDoes DEF TypeInv, Counted
<1>8. ASSUME NEW p \in Procs, Crash(p) PROVE TypeInv'
  <2> Counted
    BY <1>8, <1>a, CrashDoes DEF Same
  <2> QED
    BY <1>0, <1>8, CrashDoes DEF TypeInv, Quiet, Counted
<1>9. ASSUME NEW p \in Procs, Clear(p) PROVE TypeInv'
  <2> Counted
    BY <1>9, <1>a, ClearDoes DEF Same
  <2> QED
    BY <1>0, <1>9, ClearDoes DEF TypeInv, Quiet, Counted
<1>10. ASSUME NEW p \in Procs, DumpIntoFile(p) PROVE TypeInv'
  <2> Counted
    BY <1>10, <1>a, DumpDoes DEF Same
  <2> QED
    BY <1>0, <1>10, DumpDoes DEF TypeInv, Quiet, Counted
<1>11. ASSUME NEW p \in Procs, NEW kind \in {"info", "debug"}, NEW n \in Nat, Log(p, kind, n)
       PROVE  TypeInv'
  <2> Counted
    BY <1>11, <1>a, LogDoes DEF Same
  <2> QED
    BY <1>0, <1>11, LogDoes DEF TypeInv, Quiet, Counted
<1>12. ASSUME NEW p \in Procs, NEW i \in 1..Len(Funcs), Evaluate(p, i) PROVE TypeInv'
  <2>1. Others(p) /\ proc'[p].evals = proc[p].evals + 1 /\ calls' = calls + 1
    BY <1>12, EvaluateDoes
  <2>2. ASSUME NEW q \in Procs PROVE proc'[q].evals <= calls'
    <3>1. proc'[q].evals = proc[q].evals \/ proc'[q].evals = proc[q].evals + 1
      BY <2>1 DEF Others
    <3>2. proc[q].evals <= calls /\ proc[q].evals \in Nat
      BY DEF TypeInv, Process
    <3> QED
      BY <1>0, <2>1, <3>1, <3>2
  <2> QED
    BY <1>0, <1>12, <2>2, EvaluateDoes DEF TypeInv, Quiet
<1>13. ASSUME NEW p \in Procs, log_time(p) PROVE TypeInv'
  <2> Counted
    BY <1>13, <1>a, LogTimeDoes DEF Same
  <2> QED
    BY <1>0, <1>13, LogTimeDoes DEF TypeInv, Quiet, Counted
<1>14. ASSUME NEW p \in Procs, DumpLine(p) PROVE TypeInv'
  <2> Counted
    BY <1>14, <1>a, DumpLineDoes DEF Same
  <2> QED
    BY <1>0, <1>14, DumpLineDoes DEF TypeInv, Quiet, Counted
<1> QED
  BY <1>1, <1>2, <1>3, <1>4, <1>5, <1>6, <1>7, <1>8, <1>9, <1>10, <1>11, <1>12, <1>13, <1>14, NextIs

\* Where a process stands, and what it cannot have yet, or any more.
Placed(p) ==
    LET P == proc[p] IN
    /\ P.dir <= clock
    /\ P.dir \notin {None, Root} /\ Young(P.dir) => P.dir \in dirs
    /\ P.dir = None => P.node = 0
    /\ P.node = 0 => P.time = 0 /\ P.queue = << >> /\ P.buffer = << >> /\ P.logged = 0
    /\ P.time = 0 => P.rest = << >> /\ P.given = << >>
    /\ P.node <= P.pool
    /\ P.status # "up" => P.queue = << >> /\ P.buffer = << >>
    /\ \A d \in Dirs : NodeOf(d, p) # << >> => P.node # 0 /\ P.dir = d

PlaceInv == \A p \in Procs : Placed(p)

LEMMA InitPlaced == Init => PlaceInv
<1> SUFFICES ASSUME Init, NEW p \in Procs PROVE Placed(p)
  BY DEF PlaceInv
<1>1. /\ proc[p].dir = None /\ proc[p].node = 0 /\ proc[p].time = 0 /\ proc[p].pool = 0
      /\ proc[p].logged = 0 /\ proc[p].queue = << >> /\ proc[p].buffer = << >>
      /\ proc[p].rest = << >> /\ proc[p].given = << >> /\ proc[p].status = "up" /\ clock = 2
  BY DEF Init
<1>2. \A d \in Dirs : NodeOf(d, p) = << >>
  <2> TAKE d \in Dirs
  <2> nodeFile[d] = << >>
    BY DEF Init
  <2> QED
    BY UnderNothing DEF NodeOf
<1>3. proc[p].dir <= clock /\ proc[p].node <= proc[p].pool
  BY <1>1, ConstantsAre
<1> QED
  BY <1>1, <1>2, <1>3 DEF Placed

\* What is safe from a cleanup was so before, and a cleanup leaves it.
LEMMA YoungBefore ==
    ASSUME TypeInv, TypeInv', clock <= clock', NEW d \in Places, Young(d)'
    PROVE  Young(d) /\ ~ Gone(d) /\ ~ (d \in dirs /\ Expired(d)')
<1>1. clock \in Nat /\ clock' \in Nat /\ d \in Nat
  BY ConstantsAre DEF TypeInv
<1>2. Day(clock) \in Nat /\ Day(clock') \in Nat /\ Day(d) \in Nat /\ Day(clock) <= Day(clock')
  BY <1>1, DayGrows
<1>3. CASE d = Root
  <2> d \notin dirs
    BY <1>3, ConstantsAre DEF TypeInv
  <2> QED
    BY <1>3 DEF Young, Gone
<1>4. CASE d # Root
  <2>1. Day(clock') - Day(d) < LOG_MAX_DAY
    BY <1>4 DEF Young, Day
  <2> HIDE DEF Day
  <2> QED
    BY <1>2, <2>1, ConstantsAre DEF Young, Gone, Expired, Day
<1> QED
  BY <1>3, <1>4

\* A process that another one's step leaves alone stays where it is.
LEMMA PlaceKept ==
    ASSUME TypeInv, TypeInv', NEW p \in Procs, Placed(p), proc'[p] = proc[p], clock <= clock',
           \A d \in dirs : d \in dirs' \/ Gone(d) \/ Expired(d)',
           \A d \in Dirs : NodeOf(d, p)' # << >> => NodeOf(d, p) # << >>
    PROVE  Placed(p)'
<1>1. PICK d \in Places : d = proc[p].dir
  BY DEF TypeInv, Process
<1>2. proc'[p].dir = d /\ clock \in Nat /\ clock' \in Nat /\ d \in Nat
  BY <1>1, ConstantsAre DEF TypeInv
<1>3. d \notin {None, Root} /\ Young(d)' => d \in dirs'
  <2> SUFFICES ASSUME d \notin {None, Root}, Young(d)' PROVE d \in dirs'
    OBVIOUS
  <2>1. Young(d) /\ ~ Gone(d) /\ ~ (d \in dirs /\ Expired(d)')
    BY YoungBefore
  <2>2. d \in dirs
    BY <1>1, <2>1 DEF Placed
  <2> QED
    BY <2>1, <2>2
<1>4. Young(proc[p].dir)' <=> Young(d)'
  BY <1>2 DEF Young, Day
<1> QED
  BY <1>1, <1>2, <1>3, <1>4 DEF Placed
\* A step of a process that stays where it is.
LEMMA OwnPlace ==
    ASSUME TypeInv, NEW p \in Procs, Placed(p), clock' = clock, dirs' = dirs,
           Same(proc'[p], proc[p], {"status", "queue", "buffer", "logged", "records_", "evals",
                                    "dumps", "rest", "given"}),
           proc[p].node = 0 => /\ proc'[p].queue = << >> /\ proc'[p].buffer = << >>
                               /\ proc'[p].logged = 0,
           proc[p].time = 0 => proc'[p].rest = proc[p].rest /\ proc'[p].given = proc[p].given,
           proc'[p].status # "up" => proc'[p].queue = << >> /\ proc'[p].buffer = << >>,
           \A d \in Dirs : NodeOf(d, p)' # << >> =>
                NodeOf(d, p) # << >> \/ (proc[p].node # 0 /\ d = proc[p].dir)
    PROVE  Placed(p)'
<1>1. PICK d \in Places : d = proc[p].dir
  BY DEF TypeInv, Process
<1>2. /\ proc'[p].dir = d /\ proc'[p].node = proc[p].node /\ proc'[p].time = proc[p].time
      /\ proc'[p].pool = proc[p].pool
  BY <1>1 DEF Same
<1>3. Young(proc[p].dir)' <=> Young(proc[p].dir)
  BY <1>1, <1>2 DEF Young, Day
<1> QED
  BY <1>1, <1>2, <1>3 DEF Placed

LEMMA SameSince ==
    ASSUME NEW P, NEW Q, NEW S, NEW T, S \subseteq T, Same(Q, P, S)
    PROVE  Same(Q, P, T)
BY DEF Same

\* A line of either kind for the evaluation logger.
LEMMA LineDoes ==
    ASSUME TypeInv, NEW p \in Procs, Placed(p), log_time(p) \/ DumpLine(p)
    PROVE  /\ Others(p) /\ Quiet /\ proc[p].status = "up" /\ proc[p].time # 0
           /\ Same(proc'[p], proc[p], {"queue", "given", "rest"})
           /\ \E line \in Line : Tells(proc[p], proc'[p], line)
<1>1. CASE log_time(p)
  <2>1. /\ Others(p) /\ Quiet /\ proc[p].status = "up" /\ proc[p].time # 0
        /\ Same(proc'[p], proc[p], {"queue", "given"})
        /\ \E line \in Line : Tells(proc[p], proc'[p], line)
    BY <1>1, LogTimeDoes
  <2> QED
    BY <2>1, SameSince
<1>2. CASE DumpLine(p)
  <2>1. proc[p].time # 0
    BY <1>2, DumpLineDoes DEF Placed
  <2> QED
    BY <1>2, <2>1, DumpLineDoes
<1> QED
  BY <1>1, <1>2

LEMMA NodeSame ==
    ASSUME nodeFile' = nodeFile
    PROVE  \A d \in Dirs : \A q : NodeOf(d, q)' = NodeOf(d, q)
BY DEF NodeOf

\* The new directory, young as it is, is on disk and holds nothing of the process.
LEMMA InitCallPlace ==
    ASSUME TypeInv, TypeInv', NEW p \in Procs, Placed(p), InitCall(p)
    PROVE  Placed(p)'
<1>1. PICK d \in Places : d = proc'[p].dir
  BY InitCallDoes DEF Process
<1>2. Young(proc[p].dir)' <=> Young(d)
  BY <1>1, InitCallDoes DEF Young, Day
<1>3. d <= clock
  BY <1>1, InitCallDoes, ConstantsAre DEF Placed, TypeInv
<1>4. d \notin {None, Root} /\ Young(d) => d \in dirs'
  <2> SUFFICES ASSUME d \notin {None, Root}, Young(d) PROVE d \in dirs'
    OBVIOUS
  <2>1. CASE proc[p].dir = None
    BY <1>1, <2>1, InitCallDoes
  <2>2. CASE proc[p].dir # None
    <3>1. d = proc[p].dir
      BY <1>1, <2>2, InitCallDoes
    <3>2. d \in dirs
      BY <3>1 DEF Placed
    <3>3. ~ Gone(d)
      <4> Young(d)'
        BY InitCallDoes DEF Young, Day
      <4> clock <= clock'
        BY InitCallDoes, ConstantsAre DEF TypeInv
      <4> QED
        BY YoungBefore
    <3> QED
      BY <3>2, <3>3, InitCallDoes
  <2> QED
    BY <2>1, <2>2
<1>5. \A e \in Dirs : NodeOf(e, p)' # << >> => NodeOf(e, p) # << >>
  <2> TAKE e \in Dirs
  <2>1. nodeFile'[e] = nodeFile[e] \/ nodeFile'[e] = << >>
    BY InitCallDoes
  <2> QED
    BY <2>1, UnderNothing DEF NodeOf
<1>6. /\ proc[p].pool \in Nat /\ proc[p].node \in Nat /\ proc[p].time \in Nat
  BY DEF TypeInv, Process
<1>7. /\ proc'[p].queue = proc[p].queue /\ proc'[p].buffer = proc[p].buffer
      /\ proc'[p].logged = proc[p].logged /\ proc'[p].status = proc[p].status
      /\ proc'[p].rest = proc[p].rest /\ proc'[p].given = proc[p].given
  BY InitCallDoes DEF Same
<1>8. /\ proc[p].status = "up" /\ proc'[p].pool = proc[p].pool + 1
      /\ proc[p].dir # None => d = proc[p].dir
      /\ proc'[p].node = proc[p].node
         \/ (proc[p].node = 0 /\ d # None /\ proc'[p].node = proc[p].pool + 1)
      /\ proc'[p].time = proc[p].time \/ (proc[p].time = 0 /\ proc'[p].node # 0)
  BY <1>1, InitCallDoes
<1>9. proc'[p].dir = None => proc'[p].node = 0
  BY <1>1, <1>8 DEF Placed
<1>10. proc'[p].node = 0 => /\ proc'[p].time = 0 /\ proc'[p].queue = << >>
                            /\ proc'[p].buffer = << >> /\ proc'[p].logged = 0
  BY <1>6, <1>7, <1>8 DEF Placed
<1>11. proc'[p].time = 0 => proc'[p].rest = << >> /\ proc'[p].given = << >>
  <2> proc'[p].time = 0 => proc[p].time = 0
    BY <1>6, <1>8, InitCallDoes
  <2> QED
    BY <1>7 DEF Placed
<1>12. proc'[p].node <= proc'[p].pool
  BY <1>6, <1>8 DEF Placed
<1>13. \A e \in Dirs : NodeOf(e, p)' # << >> => proc'[p].node # 0 /\ proc'[p].dir = e
  <2> TAKE e \in Dirs
  <2> SUFFICES ASSUME NodeOf(e, p) # << >> PROVE proc'[p].node # 0 /\ proc'[p].dir = e
    BY <1>5
  <2>1. proc[p].node # 0 /\ proc[p].dir = e
    BY DEF Placed
  <2> QED
    BY <1>1, <1>8, <2>1, ConstantsAre
<1>14. clock' = clock
  BY InitCallDoes
<1> QED
  BY <1>1, <1>2, <1>3, <1>4, <1>7, <1>8, <1>9, <1>10, <1>11, <1>12, <1>13, <1>14 DEF Placed

LEMMA PlaceStep == TypeInv /\ PlaceInv /\ [Next]_vars => PlaceInv'
<1> SUFFICES ASSUME TypeInv, PlaceInv, [Next]_vars, NEW r \in Procs PROVE Placed(r)'
  BY DEF PlaceInv
<1> USE TypeStep
<1>0. TypeInv' /\ Placed(r) /\ clock \in Nat
  BY ConstantsAre DEF PlaceInv, TypeInv
<1> DEFINE All == {"status", "queue", "buffer", "logged", "records_", "evals",
                   "dumps", "rest", "given"}
<1>1. CASE Tick
  <2>1. clock' = clock + 1 /\ dirs' = dirs /\ nodeFile' = nodeFile /\ proc' = proc
    BY <1>1 DEF Tick, disk
  <2> QED
    BY <1>0, <2>1, NodeSame, PlaceKept
<1>2. CASE UNCHANGED vars
  <2>1. clock' = clock /\ dirs' = dirs /\ nodeFile' = nodeFile /\ proc' = proc
    BY <1>2 DEF vars
  <2> QED
    BY <1>0, <2>1, NodeSame, PlaceKept
<1>3. ASSUME NEW p \in Procs, InitCall(p) PROVE Placed(r)'
  <2>1. CASE p = r
    BY <1>0, <1>3, <2>1, InitCallPlace
  <2>2. CASE p # r
    <3>1. proc'[r] = proc[r] /\ clock' = clock /\ \A d \in dirs : d \in dirs' \/ Gone(d)
      BY <1>3, <2>2, InitCallDoes DEF Others
    <3>2. \A d \in Dirs : NodeOf(d, r)' # << >> => NodeOf(d, r) # << >>
      <4> TAKE d \in Dirs
      <4>1. nodeFile'[d] = nodeFile[d] \/ nodeFile'[d] = << >>
        BY <1>3, InitCallDoes
      <4> QED
        BY <4>1, UnderNothing DEF NodeOf
    <3> QED
      BY <1>0, <3>1, <3>2, PlaceKept
  <2> QED
    BY <2>1, <2>2
\* A step that leaves the time and the directories alone, and lets only its own
\* process have more in a file.
<1>4. ASSUME NEW p \in Procs, clock' = clock, dirs' = dirs, Others(p),
             Same(proc'[p], proc[p], All),
             proc[p].node = 0 => /\ proc'[p].queue = << >> /\ proc'[p].buffer = << >>
                                 /\ proc'[p].logged = 0,
             proc[p].time = 0 => /\ proc'[p].rest = proc[p].rest
                                 /\ proc'[p].given = proc[p].given,
             proc'[p].status # "up" => proc'[p].queue = << >> /\ proc'[p].buffer = << >>,
             \A d \in Dirs : \A q : NodeOf(d, q)' # << >> =>
                  NodeOf(d, q) # << >> \/ (q = p /\ proc[p].node # 0 /\ d = proc[p].dir)
      PROVE  Placed(r)'
  <2>1. CASE p = r
    BY <1>0, <1>4, <2>1, OwnPlace
  <2>2. CASE p # r
    <3> proc'[r] = proc[r]
      BY <1>4, <2>2 DEF Others
    <3> QED
      BY <1>0, <1>4, <2>2, PlaceKept
  <2> QED
    BY <2>1, <2>2
<1> HIDE DEF All
<1>5. ASSUME NEW p \in Procs, Flush(p) PROVE Placed(r)'
  <2>1. /\ Others(p) /\ Quiet /\ proc[p].status = "up" /\ Same(proc'[p], proc[p], {"queue"})
        /\ proc[p].node = 0 => proc'[p].queue = proc[p].queue
    BY <1>5, FlushDoes
  <2>2. Same(proc'[p], proc[p], All)
    BY <2>1, SameSince DEF All
  <2> QED
    BY <1>4, <2>1, <2>2, NodeSame DEF Quiet, Same, PlaceInv, Placed
<1>6. ASSUME NEW p \in Procs, WorkerNode(p) PROVE Placed(r)'
  <2>1. /\ Others(p) /\ clock' = clock /\ dirs' = dirs /\ proc[p].status = "up"
        /\ proc[p].queue # << >> /\ Same(proc'[p], proc[p], {"queue", "buffer"})
    BY <1>6, WorkerNodeDoes
  <2>2. Same(proc'[p], proc[p], All)
    BY <2>1, SameSince DEF All
  <2>3. proc[p].node # 0
    BY <2>1 DEF PlaceInv, Placed
  <2>4. PICK written \in Numbers :
          \A d \in Dirs : \A q :
            NodeOf(d, q)' = IF q = p /\ d = proc[p].dir /\ d \in dirs \cup {Root}
                            THEN NodeOf(d, q) \o written ELSE NodeOf(d, q)
    BY <1>6, WorkerNodeDoes
  <2> QED
    BY <1>4, <2>1, <2>2, <2>3, <2>4 DEF Same
<1>7. ASSUME NEW p \in Procs, WorkerTime(p) PROVE Placed(r)'
  <2>1. /\ Others(p) /\ clock' = clock /\ dirs' = dirs /\ nodeFile' = nodeFile
        /\ proc[p].status = "up" /\ proc[p].queue # << >> /\ Same(proc'[p], proc[p], {"queue"})
    BY <1>7, WorkerTimeDoes
  <2>2. Same(proc'[p], proc[p], All)
    BY <2>1, SameSince DEF All
  <2>3. proc[p].node # 0
    BY <2>1 DEF PlaceInv, Placed
  <2> QED
    BY <1>4, <2>1, <2>2, <2>3, NodeSame DEF Same
<1>8. ASSUME NEW p \in Procs, Exit(p) PROVE Placed(r)'
  <2>1. /\ Others(p) /\ clock' = clock /\ dirs' = dirs /\ proc[p].queue = << >>
        /\ proc'[p].buffer = << >> /\ Same(proc'[p], proc[p], {"status", "buffer"})
    BY <1>8, ExitDoes
  <2>2. Same(proc'[p], proc[p], All)
    BY <2>1, SameSince DEF All
  <2>3. \A d \in Dirs : \A q :
          NodeOf(d, q)' = IF q = p /\ d = proc[p].dir /\ d \in dirs \cup {Root}
                          THEN NodeOf(d, q) \o proc[p].buffer ELSE NodeOf(d, q)
    BY <1>8, ExitDoes
  <2>4. proc[p].node = 0 => proc[p].buffer = << >>
    BY DEF PlaceInv, Placed
  <2>5. << >> \o << >> = << >>
    OBVIOUS
  <2>6. \A d \in Dirs : \A q : NodeOf(d, q)' # << >> =>
          NodeOf(d, q) # << >> \/ (q = p /\ proc[p].node # 0 /\ d = proc[p].dir)
    BY <2>3, <2>4, <2>5
  <2> QED
    BY <1>4, <2>1, <2>2, <2>6 DEF Same, PlaceInv, Placed
<1>9. ASSUME NEW p \in Procs, Crash(p) PROVE Placed(r)'
  <2>1. /\ Others(p) /\ Quiet /\ proc'[p].queue = << >> /\ proc'[p].buffer = << >>
        /\ Same(proc'[p], proc[p], {"status", "queue", "buffer"})
    BY <1>9, CrashDoes
  <2>2. Same(proc'[p], proc[p], All)
    BY <2>1, SameSince DEF All
  <2> QED
    BY <1>4, <2>1, <2>2, NodeSame DEF Quiet, Same, PlaceInv, Placed
<1>10. ASSUME NEW p \in Procs, Others(p), Quiet, proc[p].status = "up",
              Same(proc'[p], proc[p], {"records_", "evals"})
       PROVE  Placed(r)'
  <2>2. Same(proc'[p], proc[p], All)
    BY <1>10, SameSince DEF All
  <2> QED
    BY <1>4, <1>10, <2>2, NodeSame DEF Quiet, Same, PlaceInv, Placed
<1>11. ASSUME NEW p \in Procs, Clear(p) PROVE Placed(r)'
  <2>1. Others(p) /\ Quiet /\ proc[p].status = "up" /\ Same(proc'[p], proc[p], {"records_"})
    BY <1>11, ClearDoes
  <2>2. Same(proc'[p], proc[p], {"records_", "evals"})
    BY <2>1, SameSince
  <2> QED
    BY <1>10, <2>1, <2>2
<1>12. ASSUME NEW p \in Procs, NEW i \in 1..Len(Funcs), Evaluate(p, i) PROVE Placed(r)'
  BY <1>10, <1>12, EvaluateDoes
<1>13. ASSUME NEW p \in Procs, DumpIntoFile(p) PROVE Placed(r)'
  <2>1. /\ Others(p) /\ Quiet /\ proc[p].status = "up" /\ proc[p].time # 0
        /\ Same(proc'[p], proc[p], {"dumps", "rest"})
    BY <1>13, DumpDoes
  <2>2. Same(proc'[p], proc[p], All)
    BY <2>1, SameSince DEF All
  <2> QED
    BY <1>4, <2>1, <2>2, NodeSame DEF Quiet, Same, PlaceInv, Placed
<1>15. ASSUME NEW p \in Procs, log_time(p) \/ DumpLine(p) PROVE Placed(r)'
  <2>1. /\ Others(p) /\ Quiet /\ proc[p].status = "up" /\ proc[p].time # 0
        /\ Same(proc'[p], proc[p], {"queue", "given", "rest"})
    BY <1>15, LineDoes DEF PlaceInv
  <2>2. Same(proc'[p], proc[p], All)
    BY <2>1, SameSince DEF All
  <2>3. proc[p].node # 0
    BY <2>1 DEF PlaceInv, Placed
  <2> QED
    BY <1>4, <2>1, <2>2, <2>3, NodeSame DEF Quiet, Same
<1>14. ASSUME NEW p \in Procs, NEW kind \in {"info", "debug"}, NEW n \in Nat, Log(p, kind, n)
       PROVE  Placed(r)'
  <2>1. /\ Others(p) /\ Quiet /\ proc[p].status = "up" /\ proc[p].node # 0
        /\ Same(proc'[p], proc[p], {"logged", "queue"})
    BY <1>14, LogDoes
  <2>2. Same(proc'[p], proc[p], All)
    BY <2>1, SameSince DEF All
  <2> QED
    BY <1>4, <2>1, <2>2, NodeSame DEF Quiet, Same
<1> QED
  BY <1>1, <1>2, <1>3, <1>5, <1>6, <1>7, <1>8, <1>9, <1>11, <1>12, <1>13, <1>14, <1>15, NextIs
-----------------------------------------------------------------------------
(* What is logged arrives in order                                         *)

InOrder(k) == k = [i \in 1..Len(k) |-> i]

\* LoggedInOrder, for one process.
OrderFor(p) ==
    LET P == proc[p] IN
    P.node # 0 /\ Young(P.dir) =>
        /\ InOrder(Kept(p)) /\ Len(Kept(p)) <= P.logged
        /\ P.node = P.pool /\ P.status # "crashed" => Len(Kept(p)) = P.logged

LEMMA OrderForAll == LoggedInOrder <=> \A p \in Procs : OrderFor(p)
BY DEF LoggedInOrder, OrderFor, InOrder

LEMMA NothingQueued == RecordsIn(<< >>) = << >> /\ LinesIn(<< >>) = << >>
<1> DEFINE none == << >>
<1>1. none \in Seq(QueueItem) /\ \A i \in 1..Len(none) : none[i].kind = "flush"
  OBVIOUS
<1> HIDE DEF none
<1>2. RecordsIn(none) = << >> /\ LinesIn(none) = << >>
  BY <1>1, UniformQueue
<1> QED
  BY <1>2 DEF none

\* The next numbers keep an order without gaps.
LEMMA OrderMore ==
    ASSUME NEW k \in Numbers, InOrder(k), NEW n \in Nat
    PROVE  /\ Following(Len(k), n) \in Numbers
           /\ InOrder(k \o Following(Len(k), n)) /\ Len(k \o Following(Len(k), n)) = Len(k) + n
<1> DEFINE f == Following(Len(k), n)
           g == [i \in 1..Len(k) + n |-> i]
           kf == k \o f
<1>1. k \in Seq(Nat) /\ Len(k) \in Nat /\ f \in Seq(Nat) /\ Len(f) = n
      /\ \A i \in 1..n : f[i] = Len(k) + i
  BY DEF Following, Numbers
<1>2. g \in Seq(Nat) /\ Len(g) = Len(k) + n /\ \A i \in 1..Len(k) + n : g[i] = i
  BY <1>1
<1>3. \A i \in 1..Len(k) : k[i] = i
  BY DEF InOrder
<1> HIDE DEF f, g
<1>4. g = kf
  <2>1. \A i \in 1..Len(k) : g[i] = k[i]
    BY <1>1, <1>2, <1>3
  <2>2. \A i \in 1..Len(f) : g[Len(k) + i] = f[i]
    <3> TAKE i \in 1..Len(f)
    <3> Len(k) + i \in 1..Len(k) + n
      BY <1>1
    <3> QED
      BY <1>1, <1>2
  <2> QED
    BY <1>1, <1>2, <2>1, <2>2, JoinedIs
<1>5. Len(kf) = Len(k) + n
  BY <1>2, <1>4
<1>6. kf = [i \in 1..Len(kf) |-> i]
  <2> HIDE DEF kf
  <2> QED
    BY <1>4, <1>5 DEF g
<1> QED
  BY <1>1, <1>5, <1>6 DEF InOrder, Numbers, f

\* The front of such an order is one.
LEMMA OrderLess ==
    ASSUME NEW a \in Numbers, NEW b \in Numbers, InOrder(a \o b)
    PROVE  InOrder(a) /\ Len(a) <= Len(a \o b)
<1> DEFINE ab == a \o b
<1>1. /\ a \in Seq(Nat) /\ Len(a) \in Nat /\ Len(b) \in Nat /\ Len(ab) = Len(a) + Len(b)
      /\ \A i \in 1..Len(a) : i \in 1..Len(ab) /\ ab[i] = a[i]
  BY DEF Numbers
<1>2. \A i \in 1..Len(ab) : ab[i] = i
  BY DEF InOrder
<1>3. \A i \in 1..Len(a) : a[i] = i
  BY <1>1, <1>2
<1>4. a = [i \in 1..Len(a) |-> a[i]]
  BY <1>1, Zenon, SeqIsFunction
<1>5. InOrder(a)
  BY <1>3, <1>4 DEF InOrder
<1> QED
  BY <1>1, <1>5

Joined(a, b, queue) == a \o b \o Under(ByRecord(queue), TRUE)

\* The records in the file, the buffer and the queue are one sequence.
LEMMA KeptIs ==
    ASSUME NEW a \in Numbers, NEW b \in Numbers, NEW queue \in Queues
    PROVE  /\ Joined(a, b, queue) = a \o (b \o RecordsIn(queue))
           /\ b \o RecordsIn(queue) \in Numbers /\ a \o (b \o RecordsIn(queue)) \in Numbers
<1> DEFINE c == RecordsIn(queue)
           bc == b \o c
<1>1. a \in Seq(Nat) /\ b \in Seq(Nat) /\ c \in Seq(Nat)
  BY QueuedIs, EmptyIs DEF Numbers
<1>2. (a \o b) \o c = a \o (b \o c) /\ bc \in Seq(Nat)
  <2> HIDE DEF c
  <2>1. (a \o b) \o c = a \o (b \o c)
    BY <1>1, Zenon, Associative
  <2>2. b \o c \in Seq(Nat)
    BY <1>1, Zenon, ConcatIn
  <2> QED
    BY <2>1, <2>2, Zenon
<1>3. a \o bc \in Seq(Nat)
  <2> HIDE DEF bc
  <2> QED
    BY <1>1, <1>2, Zenon, ConcatIn
<1>4. Joined(a, b, queue) = a \o b \o c
  BY DEF RecordsIn, Joined
<1> QED
  BY <1>2, <1>3, <1>4 DEF Numbers

\* What a process has logged in directory d: in the file, and before it.
LEMMA KeptSplit ==
    ASSUME TypeInv, TypeInv', NEW p \in Procs, NEW d \in Dirs
    PROVE  /\ proc[p].dir = d =>
                /\ Kept(p) = NodeOf(d, p) \o (proc[p].buffer \o RecordsIn(proc[p].queue))
                /\ Kept(p) \in Numbers
           /\ proc'[p].dir = d =>
                /\ Kept(p)' = NodeOf(d, p)' \o (proc'[p].buffer \o RecordsIn(proc'[p].queue))
                /\ Kept(p)' \in Numbers
<1>1. /\ proc[p].buffer \in Numbers /\ proc[p].queue \in Queues
      /\ proc'[p].buffer \in Numbers /\ proc'[p].queue \in Queues
  BY DEF TypeInv, Process
<1>2. NodeOf(d, p) \in Numbers
  BY FilesAre
<1>3. NodeOf(d, p)' \in Numbers
  <2>1. nodeFile'[d] \in Seq(Procs \X Nat)
    BY DEF TypeInv, NodeFiles
  <2> QED
    BY <2>1, PairsAre, UnderIs DEF NodeOf, Numbers
<1>4. proc[p].dir = d =>
        Kept(p) = Joined(NodeOf(d, p), proc[p].buffer, proc[p].queue)
  BY DEF Kept, NodeOf, Joined
<1>5. proc'[p].dir = d =>
        Kept(p)' = Joined(NodeOf(d, p)', proc'[p].buffer, proc'[p].queue)
  BY DEF Kept, NodeOf, Joined
<1> DEFINE a == NodeOf(d, p)'
           b == proc'[p].buffer
           queue == proc'[p].queue
<1>6. /\ Joined(NodeOf(d, p), proc[p].buffer, proc[p].queue)
           = NodeOf(d, p) \o (proc[p].buffer \o RecordsIn(proc[p].queue))
      /\ NodeOf(d, p) \o (proc[p].buffer \o RecordsIn(proc[p].queue)) \in Numbers
  BY <1>1, <1>2, KeptIs
<1>7. Joined(a, b, queue) = a \o (b \o RecordsIn(queue)) /\ a \o (b \o RecordsIn(queue)) \in Numbers
  <2> a \in Numbers /\ b \in Numbers /\ queue \in Queues
    BY <1>1, <1>3
  <2> HIDE DEF a, b, queue
  <2> QED
    BY KeptIs
<1> QED
  BY <1>4, <1>5, <1>6, <1>7

\* A step that moves what a process logged on, or leaves it where it is.
LEMMA OrderKept ==
    ASSUME TypeInv, TypeInv', NEW p \in Procs, Placed(p), OrderFor(p), clock <= clock',
           proc'[p].dir = proc[p].dir, proc'[p].node = proc[p].node,
           proc'[p].logged = proc[p].logged,
           proc'[p].node = proc'[p].pool /\ proc'[p].status # "crashed" =>
                proc[p].node = proc[p].pool /\ proc[p].status # "crashed",
           \A d \in Dirs : d = proc[p].dir /\ Young(d)' /\ d \in dirs \cup {Root} =>
                NodeOf(d, p)' \o (proc'[p].buffer \o RecordsIn(proc'[p].queue))
                  = NodeOf(d, p) \o (proc[p].buffer \o RecordsIn(proc[p].queue))
    PROVE  OrderFor(p)'
<1> SUFFICES ASSUME proc[p].node # 0, Young(proc[p].dir)'
             PROVE  /\ InOrder(Kept(p))' /\ Len(Kept(p)') <= proc'[p].logged
                    /\ proc'[p].node = proc'[p].pool /\ proc'[p].status # "crashed" =>
                          Len(Kept(p)') = proc'[p].logged
  BY DEF OrderFor
<1>1. PICK d \in Places : d = proc[p].dir
  BY DEF TypeInv, Process
<1>2. d \in Dirs
  BY <1>1, ConstantsAre DEF Placed
<1>3. Young(d)'
  BY <1>1 DEF Young, Day
<1>4. Young(d)
  BY <1>3, YoungBefore
<1>5. d \in dirs \cup {Root}
  BY <1>1, <1>2, <1>4, ConstantsAre DEF Placed
<1>6. Kept(p)' = Kept(p)
  BY <1>1, <1>2, <1>3, <1>5, KeptSplit
<1>7. InOrder(Kept(p))' <=> InOrder(Kept(p))
  BY <1>6 DEF InOrder
<1> QED
  BY <1>1, <1>4, <1>6, <1>7 DEF OrderFor

LEMMA NodeKept ==
    ASSUME TypeInv, NEW p \in Procs, NEW d \in Dirs, NodeOf(d, p)' = NodeOf(d, p),
           proc'[p].buffer = proc[p].buffer,
           RecordsIn(proc'[p].queue) = RecordsIn(proc[p].queue)
    PROVE  NodeOf(d, p)' \o (proc'[p].buffer \o RecordsIn(proc'[p].queue))
             = NodeOf(d, p) \o (proc[p].buffer \o RecordsIn(proc[p].queue))
OBVIOUS

\* A call that only touches the time-cost records, or the evaluation log.
LEMMA OrderSame ==
    ASSUME TypeInv, TypeInv', NEW p \in Procs, Placed(p), OrderFor(p),
           clock' = clock, nodeFile' = nodeFile,
           Same(proc'[p], proc[p], {"queue", "records_", "evals", "dumps", "rest", "given"}),
           RecordsIn(proc'[p].queue) = RecordsIn(proc[p].queue)
    PROVE  OrderFor(p)'
<1>1. \A d \in Dirs : NodeOf(d, p)' = NodeOf(d, p)
  BY NodeSame
<1>2. /\ proc'[p].dir = proc[p].dir /\ proc'[p].node = proc[p].node
      /\ proc'[p].pool = proc[p].pool /\ proc'[p].status = proc[p].status
      /\ proc'[p].logged = proc[p].logged /\ proc'[p].buffer = proc[p].buffer
  BY DEF Same
<1>3. clock <= clock'
  BY ConstantsAre DEF TypeInv
<1> QED
  BY <1>1, <1>2, <1>3, OrderKept, NodeKept

LEMMA OrderInitCall ==
    ASSUME TypeInv, TypeInv', PlaceInv, NEW r \in Procs, OrderFor(r),
           NEW p \in Procs, InitCall(p)
    PROVE  OrderFor(r)'
<1>1. clock' = clock /\ clock \in Nat /\ clock <= clock' /\ Placed(r)
  BY InitCallDoes, ConstantsAre DEF TypeInv, PlaceInv
<1>2. \A d \in Dirs : Young(d)' => NodeOf(d, r)' = NodeOf(d, r)
  <2> SUFFICES ASSUME NEW d \in Dirs, Young(d)' PROVE NodeOf(d, r)' = NodeOf(d, r)
    OBVIOUS
  <2>1. ~ Gone(d)
    BY <1>1, YoungBefore, ConstantsAre
  <2>2. nodeFile'[d] = nodeFile[d]
    BY <2>1, InitCallDoes
  <2> QED
    BY <2>2 DEF NodeOf
<1>3. CASE p # r
  <2>1. proc'[r] = proc[r]
    BY <1>3, InitCallDoes DEF Others
  <2> QED
    BY <1>1, <1>2, <2>1, OrderKept, NodeKept
<1>4. CASE p = r /\ proc[r].node # 0
  <2>1. /\ proc'[r].node = proc[r].node /\ proc'[r].dir = proc[r].dir
        /\ proc'[r].pool = proc[r].pool + 1
        /\ proc'[r].buffer = proc[r].buffer /\ proc'[r].queue = proc[r].queue
        /\ proc'[r].logged = proc[r].logged
    BY <1>1, <1>4, InitCallDoes DEF Same, Placed
  <2>2. proc'[r].node # proc'[r].pool
    <3> proc[r].node \in Nat /\ proc[r].pool \in Nat /\ proc[r].node <= proc[r].pool
      BY <1>1 DEF TypeInv, Process, Placed
    <3> QED
      BY <2>1
  <2> QED
    BY <1>1, <1>2, <2>1, <2>2, OrderKept, NodeKept
<1>5. CASE p = r /\ proc[r].node = 0
  <2> SUFFICES ASSUME proc'[r].node # 0
               PROVE  /\ InOrder(Kept(r))' /\ Len(Kept(r)') <= proc'[r].logged
                      /\ proc'[r].node = proc'[r].pool /\ proc'[r].status # "crashed" =>
                            Len(Kept(r)') = proc'[r].logged
    BY DEF OrderFor
  <2>1. PICK d \in Places : d = proc'[r].dir
    BY <1>5, InitCallDoes DEF Process
  <2>2. d \in Dirs
    BY <1>5, <2>1, InitCallDoes, ConstantsAre
  <2>3. /\ proc'[r].queue = << >> /\ proc'[r].buffer = << >> /\ proc'[r].logged = 0
    BY <1>1, <1>5, InitCallDoes DEF Same, Placed
  <2>4. NodeOf(d, r)' = << >>
    <3>1. NodeOf(d, r) = << >>
      BY <1>1, <1>5, <2>2 DEF Placed
    <3>2. nodeFile'[d] = nodeFile[d] \/ nodeFile'[d] = << >>
      BY <1>5, <2>2, InitCallDoes
    <3> QED
      BY <3>1, <3>2, UnderNothing DEF NodeOf
  <2>5. Kept(r)' = << >>
    <3> DEFINE none == << >>
    <3>1. RecordsIn(none) = none
      BY NothingQueued
    <3>2. none \o (none \o none) = none
      OBVIOUS
    <3>3. Kept(r)' = NodeOf(d, r)' \o (proc'[r].buffer \o RecordsIn(proc'[r].queue))
      BY <2>1, <2>2, KeptSplit
    <3>4. NodeOf(d, r)' = none /\ proc'[r].buffer = none /\ proc'[r].queue = none
      BY <2>3, <2>4
    <3> HIDE DEF none
    <3>5. Kept(r)' = none
      BY <3>1, <3>2, <3>3, <3>4
    <3> QED
      BY <3>5 DEF none
  <2>6. InOrder(Kept(r))'
    BY <2>5 DEF InOrder
  <2> QED
    BY <2>3, <2>5, <2>6
<1> QED
  BY <1>3, <1>4, <1>5

LEMMA OrderLog ==
    ASSUME TypeInv, TypeInv', NEW p \in Procs, Placed(p), OrderFor(p),
           NEW kind \in {"info", "debug"}, NEW n \in Nat, Log(p, kind, n)
    PROVE  OrderFor(p)'
<1>1. /\ Quiet /\ proc[p].node # 0 /\ proc'[p].logged = proc[p].logged + n
      /\ proc'[p].dir = proc[p].dir /\ proc'[p].node = proc[p].node
      /\ proc'[p].pool = proc[p].pool /\ proc'[p].status = "up" /\ proc[p].status = "up"
      /\ proc'[p].buffer = proc[p].buffer
  BY LogDoes DEF Same
<1>2. RecordsIn(proc'[p].queue) = IF proc[p].node = proc[p].pool
                                  THEN RecordsIn(proc[p].queue) \o Following(proc[p].logged, n)
                                  ELSE RecordsIn(proc[p].queue)
  BY LogDoes
<1> SUFFICES ASSUME Young(proc[p].dir)'
             PROVE  /\ InOrder(Kept(p))' /\ Len(Kept(p)') <= proc'[p].logged
                    /\ proc'[p].node = proc'[p].pool /\ proc'[p].status # "crashed" =>
                          Len(Kept(p)') = proc'[p].logged
  BY DEF OrderFor
<1>3. PICK d \in Places : d = proc[p].dir
  BY DEF TypeInv, Process
<1>4. d \in Dirs /\ Young(proc[p].dir)
  BY <1>1, <1>3, ConstantsAre DEF Placed, Young, Day, Quiet
<1>5. NodeOf(d, p)' = NodeOf(d, p)
  BY <1>1, <1>4, NodeSame DEF Quiet
<1> DEFINE a == NodeOf(d, p)
           b == proc[p].buffer
           c == RecordsIn(proc[p].queue)
           k == a \o (b \o c)
           m == proc[p].logged
           f == Following(m, n)
<1>6. a \in Seq(Nat) /\ b \in Seq(Nat) /\ c \in Seq(Nat) /\ m \in Nat
  <2> proc[p].queue \in Queues
    BY DEF TypeInv, Process
  <2> QED
    BY <1>4, FilesAre, QueuedIs, EmptyIs DEF TypeInv, Process, Numbers
<1>7. Kept(p) = k /\ k \in Numbers /\ InOrder(k) /\ Len(k) <= m
      /\ (proc[p].node = proc[p].pool => Len(k) = m)
  BY <1>1, <1>3, <1>4, KeptSplit DEF OrderFor
<1>8. Kept(p)' = a \o (b \o RecordsIn(proc'[p].queue))
  BY <1>1, <1>3, <1>4, <1>5, KeptSplit
<1>9. CASE proc[p].node # proc[p].pool
  <2>1. Kept(p)' = k
    BY <1>2, <1>8, <1>9
  <2>2. InOrder(Kept(p))'
    <3> InOrder(k)
      BY <1>7
    <3> HIDE DEF k
    <3> QED
      BY <2>1 DEF InOrder
  <2>3. Len(k) \in Nat
    <3> k \in Seq(Nat)
      BY <1>7 DEF Numbers
    <3> HIDE DEF k
    <3> QED
      OBVIOUS
  <2> HIDE DEF k, m
  <2> QED
    BY <1>1, <1>6, <1>7, <1>9, <2>1, <2>2, <2>3 DEF m
<1>10. CASE proc[p].node = proc[p].pool
  <2>1. Kept(p)' = a \o (b \o (c \o f))
    BY <1>2, <1>8, <1>10
  <2>2. f \in Seq(Nat) /\ InOrder(k \o f) /\ Len(k \o f) = m + n
    <3>1. m = Len(k)
      BY <1>7, <1>10
    <3> HIDE DEF k, m
    <3>2. Following(Len(k), n) = f
      BY <3>1
    <3> QED
      BY <1>7, <3>1, <3>2, OrderMore DEF Numbers
  <2>3. a \o (b \o (c \o f)) = k \o f
    <3>1. a \in Seq(Nat) /\ b \in Seq(Nat) /\ c \in Seq(Nat) /\ f \in Seq(Nat)
      BY <1>6, <2>2
    <3> HIDE DEF a, b, c, f, m, k
    <3> DEFINE bc == b \o c
    <3>3. a \in Seq(Nat) /\ bc \in Seq(Nat) /\ f \in Seq(Nat)
      BY <3>1
    <3>4. (b \o c) \o f = b \o (c \o f)
      <4> b \in Seq(Nat) /\ c \in Seq(Nat) /\ f \in Seq(Nat)
        BY <3>1
      <4> QED
        BY Zenon, Associative
    <3>5. (a \o bc) \o f = a \o (bc \o f)
      <4> HIDE DEF bc
      <4> QED
        BY <3>3, Zenon, Associative
    <3> QED
      BY <3>4, <3>5 DEF k
  <2> DEFINE kf == k \o f
  <2>4. Kept(p)' = kf
    BY <2>1, <2>3
  <2> HIDE DEF kf, k, m, f
  <2>5. InOrder(Kept(p))' /\ Len(Kept(p)') = m + n
    <3> InOrder(kf) /\ Len(kf) = m + n
      BY <2>2 DEF kf
    <3> QED
      BY <2>4 DEF InOrder
  <2> QED
    BY <1>1, <1>6, <2>5 DEF m
<1> QED
  BY <1>9, <1>10

LEMMA OrderCrash ==
    ASSUME TypeInv, TypeInv', NEW p \in Procs, Placed(p), OrderFor(p), Crash(p)
    PROVE  OrderFor(p)'
<1>1. /\ Quiet /\ proc'[p].queue = << >> /\ proc'[p].buffer = << >> /\ proc'[p].status = "crashed"
      /\ proc'[p].dir = proc[p].dir /\ proc'[p].node = proc[p].node
      /\ proc'[p].logged = proc[p].logged
  BY CrashDoes DEF Same
<1> SUFFICES ASSUME proc[p].node # 0, Young(proc[p].dir)'
             PROVE  InOrder(Kept(p))' /\ Len(Kept(p)') <= proc'[p].logged
  BY <1>1 DEF OrderFor
<1>2. PICK d \in Places : d = proc[p].dir
  BY DEF TypeInv, Process
<1>3. d \in Dirs /\ Young(proc[p].dir)
  BY <1>1, <1>2, ConstantsAre DEF Placed, Young, Day, Quiet
<1>4. NodeOf(d, p)' = NodeOf(d, p)
  BY <1>1, <1>3, NodeSame DEF Quiet
<1> DEFINE a == NodeOf(d, p)
           bc == proc[p].buffer \o RecordsIn(proc[p].queue)
           none == << >>
<1>5. a \in Numbers /\ bc \in Numbers
  <2> proc[p].queue \in Queues /\ proc[p].buffer \in Numbers
    BY DEF TypeInv, Process
  <2> QED
    BY <1>3, FilesAre, KeptIs
<1>6. Kept(p) = a \o bc /\ InOrder(Kept(p)) /\ Len(Kept(p)) <= proc[p].logged
  BY <1>2, <1>3, KeptSplit DEF OrderFor
<1>7. Kept(p)' = a
  <2>1. Kept(p)' = NodeOf(d, p)' \o (proc'[p].buffer \o RecordsIn(proc'[p].queue))
    BY <1>1, <1>2, <1>3, KeptSplit
  <2>2. RecordsIn(none) = none
    BY NothingQueued
  <2>3. none \o none = none
    OBVIOUS
  <2>4. a \o none = a
    BY <1>5 DEF Numbers
  <2>5. proc'[p].buffer = none /\ proc'[p].queue = none
    BY <1>1
  <2> HIDE DEF none, a
  <2> QED
    BY <1>4, <2>1, <2>2, <2>3, <2>4, <2>5 DEF a
<1> HIDE DEF a, bc
<1>8. InOrder(a) /\ Len(a) <= Len(a \o bc)
  BY <1>5, <1>6, OrderLess
<1>9. InOrder(Kept(p))'
  BY <1>7, <1>8 DEF InOrder
<1>10. Len(a) \in Nat /\ Len(a \o bc) \in Nat
  BY <1>5, SMTT(30), ConcatProperties DEF Numbers
<1>11. proc[p].logged \in Nat
  BY DEF TypeInv, Process
<1> QED
  BY <1>1, <1>6, <1>7, <1>8, <1>9, <1>10, <1>11

LEMMA OrderWorker ==
    ASSUME TypeInv, TypeInv', NEW p \in Procs, Placed(p), OrderFor(p), WorkerNode(p)
    PROVE  OrderFor(p)'
<1>1. /\ clock' = clock /\ proc'[p].dir = proc[p].dir /\ proc'[p].node = proc[p].node
      /\ proc'[p].pool = proc[p].pool /\ proc'[p].status = proc[p].status
      /\ proc'[p].logged = proc[p].logged
  BY WorkerNodeDoes DEF Same
<1>2. PICK written \in Numbers :
        /\ proc[p].buffer \o RecordsIn(proc[p].queue)
             = written \o (proc'[p].buffer \o RecordsIn(proc'[p].queue))
        /\ \A d \in Dirs : \A q :
             NodeOf(d, q)' = IF q = p /\ d = proc[p].dir /\ d \in dirs \cup {Root}
                             THEN NodeOf(d, q) \o written ELSE NodeOf(d, q)
  BY WorkerNodeDoes
<1>3. ASSUME NEW d \in Dirs, d = proc[p].dir, d \in dirs \cup {Root}
      PROVE  NodeOf(d, p)' \o (proc'[p].buffer \o RecordsIn(proc'[p].queue))
               = NodeOf(d, p) \o (proc[p].buffer \o RecordsIn(proc[p].queue))
  <2> DEFINE a == NodeOf(d, p)
             rest == proc'[p].buffer \o RecordsIn(proc'[p].queue)
  <2>1. a \in Seq(Nat)
    BY FilesAre DEF Numbers
  <2>2. rest \in Seq(Nat)
    <3> proc'[p].buffer \in Numbers /\ proc'[p].queue \in Queues
      BY DEF TypeInv, Process
    <3> QED
      BY <2>1, KeptIs DEF Numbers
  <2>3. NodeOf(d, p)' = a \o written
    BY <1>2, <1>3
  <2>4. proc[p].buffer \o RecordsIn(proc[p].queue) = written \o rest
    BY <1>2
  <2>5. (a \o written) \o rest = a \o (written \o rest)
    <3> written \in Seq(Nat)
      BY DEF Numbers
    <3> HIDE DEF a, rest
    <3> QED
      BY <2>1, <2>2, Zenon, Associative
  <2> HIDE DEF a
  <2> QED
    BY <2>3, <2>4, <2>5 DEF a
<1>4. clock <= clock'
  BY <1>1, ConstantsAre DEF TypeInv
<1> QED
  BY <1>1, <1>3, <1>4, OrderKept

LEMMA OrderExit ==
    ASSUME TypeInv, TypeInv', NEW p \in Procs, Placed(p), OrderFor(p), Exit(p)
    PROVE  OrderFor(p)'
<1>1. /\ clock' = clock /\ proc'[p].dir = proc[p].dir /\ proc'[p].node = proc[p].node
      /\ proc'[p].pool = proc[p].pool /\ proc[p].status = "up"
      /\ proc'[p].logged = proc[p].logged
      /\ proc[p].queue = << >> /\ proc'[p].queue = << >> /\ proc'[p].buffer = << >>
  BY ExitDoes DEF Same
<1>2. ASSUME NEW d \in Dirs, d = proc[p].dir, d \in dirs \cup {Root}
      PROVE  NodeOf(d, p)' \o (proc'[p].buffer \o RecordsIn(proc'[p].queue))
               = NodeOf(d, p) \o (proc[p].buffer \o RecordsIn(proc[p].queue))
  <2> DEFINE a == NodeOf(d, p)
             b == proc[p].buffer
             none == << >>
  <2>1. a \in Seq(Nat) /\ b \in Seq(Nat)
    BY FilesAre DEF Numbers, TypeInv, Process
  <2>2. NodeOf(d, p)' = a \o b
    BY <1>2, ExitDoes
  <2>3. RecordsIn(none) = none /\ none \o none = none
    BY NothingQueued
  <2>4. (a \o b) \o none = a \o b /\ b \o none = b
    <3> HIDE DEF a, b
    <3>1. a \o b \in Seq(Nat)
      BY <2>1
    <3> DEFINE ab == a \o b
    <3> HIDE DEF ab
    <3>2. ab \o none = ab /\ b \o none = b
      BY <2>1, <3>1 DEF ab
    <3> QED
      BY <3>2 DEF ab
  <2>5. proc'[p].buffer = none /\ proc'[p].queue = none /\ proc[p].queue = none
    BY <1>1
  <2> HIDE DEF a, none
  <2> QED
    BY <2>2, <2>3, <2>4, <2>5 DEF a
<1>3. clock <= clock'
  BY <1>1, ConstantsAre DEF TypeInv
<1> QED
  BY <1>1, <1>2, <1>3, OrderKept

LEMMA OrderStep == TypeInv /\ PlaceInv /\ LoggedInOrder /\ [Next]_vars => LoggedInOrder'
<1> SUFFICES ASSUME TypeInv, PlaceInv, \A p \in Procs : OrderFor(p), [Next]_vars, NEW r \in Procs
             PROVE  OrderFor(r)'
  <2>1. LoggedInOrder' <=> \A p \in Procs : OrderFor(p)'
    BY DEF LoggedInOrder, OrderFor, InOrder
  <2> QED
    BY <2>1, OrderForAll
<1>0. TypeInv' /\ Placed(r) /\ OrderFor(r) /\ clock \in Nat
  BY TypeStep, ConstantsAre DEF PlaceInv, TypeInv
\* What another process, or the clock, does.
<1>1. ASSUME proc'[r] = proc[r], clock <= clock', \A d \in Dirs : NodeOf(d, r)' = NodeOf(d, r)
      PROVE  OrderFor(r)'
  BY <1>0, <1>1, OrderKept, NodeKept
<1>2. CASE Tick
  <2> clock' = clock + 1 /\ nodeFile' = nodeFile /\ proc' = proc
    BY <1>2 DEF Tick, disk
  <2> QED
    BY <1>0, <1>1, NodeSame
<1>3. CASE UNCHANGED vars
  <2> clock' = clock /\ nodeFile' = nodeFile /\ proc' = proc
    BY <1>3 DEF vars
  <2> QED
    BY <1>0, <1>1, NodeSame
<1>4. ASSUME NEW p \in Procs, InitCall(p) PROVE OrderFor(r)'
  BY <1>0, <1>4, OrderInitCall
<1>5. ASSUME NEW p \in Procs, p # r, Others(p), Quiet PROVE OrderFor(r)'
  BY <1>0, <1>1, <1>5, NodeSame DEF Others, Quiet
<1>6. ASSUME NEW p \in Procs, Flush(p) PROVE OrderFor(r)'
  <2>1. /\ Others(p) /\ Quiet /\ Same(proc'[p], proc[p], {"queue"})
        /\ RecordsIn(proc'[p].queue) = RecordsIn(proc[p].queue)
    BY <1>6, FlushDoes
  <2>2. CASE p = r
    <3> Same(proc'[p], proc[p], {"queue", "records_", "evals", "dumps", "rest", "given"})
      BY <2>1, SameSince
    <3> QED
      BY <1>0, <2>1, <2>2, OrderSame DEF Quiet
  <2> QED
    BY <1>5, <2>1, <2>2
<1>7. ASSUME NEW p \in Procs, WorkerNode(p) PROVE OrderFor(r)'
  <2>1. CASE p = r
    BY <1>0, <1>7, <2>1, OrderWorker
  <2>2. CASE p # r
    <3>1. proc'[r] = proc[r] /\ clock' = clock
      BY <1>7, <2>2, WorkerNodeDoes DEF Others
    <3>2. \A d \in Dirs : NodeOf(d, r)' = NodeOf(d, r)
      BY <1>7, <2>2, WorkerNodeDoes
    <3> QED
      BY <1>0, <1>1, <3>1, <3>2
  <2> QED
    BY <2>1, <2>2
<1>8. ASSUME NEW p \in Procs, WorkerTime(p) PROVE OrderFor(r)'
  <2>1. /\ Others(p) /\ clock' = clock /\ nodeFile' = nodeFile
        /\ Same(proc'[p], proc[p], {"queue"})
        /\ RecordsIn(proc'[p].queue) = RecordsIn(proc[p].queue)
    BY <1>8, WorkerTimeDoes
  <2>2. CASE p = r
    <3> Same(proc'[p], proc[p], {"queue", "records_", "evals", "dumps", "rest", "given"})
      BY <2>1, SameSince
    <3> QED
      BY <1>0, <2>1, <2>2, OrderSame
  <2>3. CASE p # r
    BY <1>0, <1>1, <2>1, <2>3, NodeSame DEF Others
  <2> QED
    BY <2>2, <2>3
<1>9. ASSUME NEW p \in Procs, Exit(p) PROVE OrderFor(r)'
  <2>1. CASE p = r
    BY <1>0, <1>9, <2>1, OrderExit
  <2>2. CASE p # r
    <3>1. proc'[r] = proc[r] /\ clock' = clock
      BY <1>9, <2>2, ExitDoes DEF Others
    <3>2. \A d \in Dirs : NodeOf(d, r)' = NodeOf(d, r)
      BY <1>9, <2>2, ExitDoes
    <3> QED
      BY <1>0, <1>1, <3>1, <3>2
  <2> QED
    BY <2>1, <2>2
<1>10. ASSUME NEW p \in Procs, Crash(p) PROVE OrderFor(r)'
  <2>1. Others(p) /\ Quiet
    BY <1>10, CrashDoes
  <2> QED
    BY <1>0, <1>5, <1>10, <2>1, OrderCrash
<1>11. ASSUME NEW p \in Procs, Others(p), Quiet,
              Same(proc'[p], proc[p], {"records_", "evals", "dumps", "rest"})
       PROVE  OrderFor(r)'
  <2>1. CASE p = r
    <3>1. Same(proc'[p], proc[p], {"queue", "records_", "evals", "dumps", "rest", "given"})
      BY <1>11, SameSince
    <3>2. RecordsIn(proc'[p].queue) = RecordsIn(proc[p].queue)
      BY <1>11 DEF Same
    <3> QED
      BY <1>0, <1>11, <2>1, <3>1, <3>2, OrderSame DEF Quiet
  <2> QED
    BY <1>5, <1>11, <2>1
<1>12. ASSUME NEW p \in Procs, Clear(p) PROVE OrderFor(r)'
  BY <1>11, <1>12, ClearDoes, SameSince
<1>13. ASSUME NEW p \in Procs, NEW i \in 1..Len(Funcs), Evaluate(p, i) PROVE OrderFor(r)'
  BY <1>11, <1>13, EvaluateDoes, SameSince
<1>14. ASSUME NEW p \in Procs, DumpIntoFile(p) PROVE OrderFor(r)'
  BY <1>11, <1>14, DumpDoes, SameSince
<1>16. ASSUME NEW p \in Procs, log_time(p) \/ DumpLine(p) PROVE OrderFor(r)'
  <2>1. /\ Others(p) /\ Quiet /\ Same(proc'[p], proc[p], {"queue", "given", "rest"})
        /\ RecordsIn(proc'[p].queue) = RecordsIn(proc[p].queue)
    BY <1>16, LineDoes DEF PlaceInv, Tells
  <2>2. CASE p = r
    <3> Same(proc'[p], proc[p], {"queue", "records_", "evals", "dumps", "rest", "given"})
      BY <2>1, SameSince
    <3> QED
      BY <1>0, <2>1, <2>2, OrderSame DEF Quiet
  <2> QED
    BY <1>5, <2>1, <2>2
<1>15. ASSUME NEW p \in Procs, NEW kind \in {"info", "debug"}, NEW n \in Nat, Log(p, kind, n)
       PROVE  OrderFor(r)'
  <2>1. Others(p) /\ Quiet
    BY <1>15, LogDoes
  <2> QED
    BY <1>0, <1>5, <1>15, <2>1, OrderLog
<1> QED
  BY <1>2, <1>3, <1>4, <1>6, <1>7, <1>8, <1>9, <1>10, <1>12, <1>13, <1>14, <1>15,
     <1>16, NextIs

\* What a process logs arrives in its file, in its directory on the disk, once and
\* in order, whatever other processes and the cleanups do: for any number of
\* processes, of calls and of days, and any length of a day.
THEOREM RecordsArriveInOrder == Spec => []LoggedInOrder
<1>1. Init => LoggedInOrder
  <2> SUFFICES ASSUME Init, NEW p \in Procs PROVE OrderFor(p)
    BY OrderForAll
  <2> proc[p].node = 0
    BY DEF Init
  <2> QED
    BY DEF OrderFor
<1> DEFINE IInv == TypeInv /\ PlaceInv /\ LoggedInOrder
<1>2. Init => IInv
  BY <1>1, InitTyped, InitPlaced
<1>3. IInv /\ [Next]_vars => IInv'
  BY TypeStep, PlaceStep, OrderStep
<1> QED
  BY <1>2, <1>3, PTL DEF Spec
-----------------------------------------------------------------------------
(* The table can be read back                                              *)

Alone(p) == \A q \in EvaluateProcs \ {p} : proc[q].dir # proc[p].dir

\* The lines of a process are those it gave.
LinesFor(p) ==
    LET P == proc[p] IN
    P.status # "crashed" /\ P.time = P.pool /\ P.pool = 1 /\ Young(P.dir) /\ Alone(p)
    => Lines(p) = P.given

LinesInv == \A p \in Procs : LinesFor(p)

\* The lines of a process in directory d: in the file, and on their way.
Lining(a, queue) == a \o Under(ByKind(queue), "line")

\* The lines in the file and the queue are one sequence.
LEMMA LinesSplit ==
    ASSUME TypeInv, TypeInv', NEW p \in Procs, NEW d \in Dirs
    PROVE  /\ LinesIn(proc[p].queue) \in Seq(Texts) /\ TimeOf(d, p) \in Seq(Texts)
           /\ LinesIn(proc'[p].queue) \in Seq(Texts)
           /\ proc[p].dir = d => Lines(p) = TimeOf(d, p) \o LinesIn(proc[p].queue)
           /\ proc'[p].dir = d => Lines(p)' = TimeOf(d, p)' \o LinesIn(proc'[p].queue)
<1>1. proc[p].queue \in Queues /\ proc'[p].queue \in Queues
  BY DEF TypeInv, Process
<1>2. proc[p].dir = d => Lines(p) = Lining(TimeOf(d, p), proc[p].queue)
  BY DEF Lines, TimeOf, Lining
<1>3. proc'[p].dir = d => Lines(p)' = Lining(TimeOf(d, p)', proc'[p].queue)
  BY DEF Lines, TimeOf, Lining
<1>4. \A a, queue : Lining(a, queue) = a \o LinesIn(queue)
  BY DEF Lining, LinesIn
<1>5. LinesIn(proc[p].queue) \in Seq(Texts) /\ LinesIn(proc'[p].queue) \in Seq(Texts)
  BY <1>1, QueuedIs, EmptyIs
<1>6. TimeOf(d, p) \in Seq(Texts)
  BY FilesAre
<1> QED
  BY <1>2, <1>3, <1>4, <1>5, <1>6

LEMMA TimeSame ==
    ASSUME timeFile' = timeFile
    PROVE  \A d \in Dirs : \A q : TimeOf(d, q)' = TimeOf(d, q)
BY DEF TimeOf

\* A step that moves the lines of a process on, or leaves them where they are.
LEMMA LinesKept ==
    ASSUME TypeInv, TypeInv', NEW p \in Procs, Placed(p), LinesFor(p), clock <= clock',
           proc'[p].dir = proc[p].dir, proc'[p].time = proc[p].time,
           proc'[p].pool = proc[p].pool, proc'[p].given = proc[p].given,
           proc'[p].status # "crashed" => proc[p].status # "crashed",
           \A q \in Procs : proc'[q].dir = proc[q].dir \/ proc[q].dir = None,
           \A d \in Dirs : d = proc[p].dir /\ Young(d)' /\ d \in dirs \cup {Root} /\ Alone(p)' =>
                TimeOf(d, p)' \o LinesIn(proc'[p].queue) = TimeOf(d, p) \o LinesIn(proc[p].queue)
    PROVE  LinesFor(p)'
<1> SUFFICES ASSUME proc'[p].status # "crashed", proc[p].time = proc[p].pool,
                    proc[p].pool = 1, Young(proc[p].dir)', Alone(p)'
             PROVE  Lines(p)' = proc[p].given
  BY DEF LinesFor
<1>1. PICK d \in Places : d = proc[p].dir
  BY DEF TypeInv, Process
<1>2. d \in Dirs /\ d # None
  BY <1>1, ConstantsAre DEF Placed
<1>3. Young(d)'
  BY <1>1 DEF Young, Day
<1>4. Young(d)
  BY <1>3, YoungBefore
<1>5. d \in dirs \cup {Root}
  BY <1>1, <1>2, <1>4, ConstantsAre DEF Placed
<1>6. Alone(p)
  BY <1>1, <1>2, ConstantsAre DEF Alone
<1>7. Lines(p)' = Lines(p)
  BY <1>1, <1>2, <1>3, <1>5, LinesSplit
<1> QED
  BY <1>1, <1>4, <1>6, <1>7 DEF LinesFor

LEMMA LineKept ==
    ASSUME TypeInv, NEW p \in Procs, NEW d \in Dirs, TimeOf(d, p)' = TimeOf(d, p),
           LinesIn(proc'[p].queue) = LinesIn(proc[p].queue)
    PROVE  TimeOf(d, p)' \o LinesIn(proc'[p].queue) = TimeOf(d, p) \o LinesIn(proc[p].queue)
OBVIOUS

LEMMA LinesInitCall ==
    ASSUME TypeInv, TypeInv', PlaceInv, NEW r \in Procs, LinesFor(r),
           NEW p \in Procs, InitCall(p)
    PROVE  LinesFor(r)'
<1>1. clock' = clock /\ clock \in Nat /\ clock <= clock' /\ Placed(r)
  BY InitCallDoes, ConstantsAre DEF TypeInv, PlaceInv
<1>2. CASE p # r
  <2>1. proc'[r] = proc[r]
    BY <1>2, InitCallDoes DEF Others
  <2>2. \A q \in Procs : proc'[q].dir = proc[q].dir \/ proc[q].dir = None
    BY InitCallDoes DEF Others
  <2>3. ASSUME NEW d \in Dirs, d = proc[r].dir, Young(d)', Alone(r)'
        PROVE  TimeOf(d, r)' = TimeOf(d, r)
    <3>1. ~ Gone(d)
      BY <1>1, <2>3, YoungBefore, ConstantsAre
    <3>2. ~ (d = proc'[p].dir /\ p \in EvaluateProcs)
      BY <1>2, <2>1, <2>3 DEF Alone
    <3>3. timeFile'[d] = timeFile[d]
      BY <3>1, <3>2, InitCallDoes
    <3> QED
      BY <3>3 DEF TimeOf
  <2> QED
    BY <1>1, <2>1, <2>2, <2>3, LinesKept, LineKept
<1>3. CASE p = r
  <2> SUFFICES ASSUME proc'[r].time = 1, proc'[r].pool = 1
               PROVE  Lines(r)' = << >> /\ proc'[r].given = << >>
    BY DEF LinesFor
  <2>1. proc[r].pool \in Nat /\ proc[r].node \in Nat /\ proc[r].time \in Nat
    BY DEF TypeInv, Process
  <2>2. proc[r].pool = 0 /\ proc[r].node = 0 /\ proc[r].time = 0 /\ proc[r].given = << >>
    BY <1>1, <1>3, <2>1, InitCallDoes DEF Placed
  <2>3. proc'[r].queue = << >> /\ proc'[r].given = << >> /\ proc'[r].dir # None
        /\ timeFile'[proc'[r].dir] = << >>
    BY <1>3, <2>2, InitCallDoes DEF Same
  <2>4. PICK d \in Places : d = proc'[r].dir
    BY <1>3, InitCallDoes DEF Process
  <2>5. d \in Dirs
    BY <2>3, <2>4, ConstantsAre
  <2>6. TimeOf(d, r)' = << >>
    BY <2>3, <2>4, UnderNothing DEF TimeOf
  <2>7. Lines(r)' = << >>
    <3> DEFINE none == << >>
    <3>1. LinesIn(none) = none /\ none \o none = none
      BY NothingQueued
    <3>2. Lines(r)' = TimeOf(d, r)' \o LinesIn(proc'[r].queue)
      BY <2>4, <2>5, LinesSplit
    <3>3. TimeOf(d, r)' = none /\ proc'[r].queue = none
      BY <2>3, <2>6
    <3> HIDE DEF none
    <3>4. Lines(r)' = none
      BY <3>1, <3>2, <3>3
    <3> QED
      BY <3>4 DEF none
  <2> QED
    BY <2>3, <2>7
<1> QED
  BY <1>2, <1>3

LEMMA LinesMore ==
    ASSUME TypeInv, TypeInv', NEW p \in Procs, Placed(p), LinesFor(p), log_time(p) \/ DumpLine(p)
    PROVE  LinesFor(p)'
<1>1. /\ Others(p) /\ Quiet /\ proc[p].status = "up" /\ proc[p].time # 0
      /\ proc'[p].dir = proc[p].dir /\ proc'[p].time = proc[p].time
      /\ proc'[p].pool = proc[p].pool
  BY LineDoes DEF Same
<1> SUFFICES ASSUME proc[p].time = proc[p].pool, proc[p].pool = 1,
                    Young(proc[p].dir)', Alone(p)'
             PROVE  Lines(p)' = proc'[p].given
  BY <1>1 DEF LinesFor
<1>2. PICK line \in Line : /\ proc'[p].given = Append(proc[p].given, line)
                           /\ LinesIn(proc'[p].queue) = LinesIn(proc[p].queue) \o <<line>>
  BY <1>1, LineDoes DEF Tells
<1>3. PICK d \in Places : d = proc[p].dir
  BY DEF TypeInv, Process
<1>4. d \in Dirs /\ Young(proc[p].dir)
  <2>1. proc[p].node # 0
    BY <1>1 DEF Placed
  <2> QED
    BY <1>1, <1>3, <2>1, ConstantsAre DEF Placed, Young, Day, Quiet
<1>5. Alone(p)
  BY <1>1, ConstantsAre DEF Alone, Others
<1>6. TimeOf(d, p)' = TimeOf(d, p)
  BY <1>1, <1>4, TimeSame DEF Quiet
<1> DEFINE a == TimeOf(d, p)
           b == LinesIn(proc[p].queue)
           t == <<line>>
           given == proc[p].given
<1>7. /\ a \in Seq(Texts) /\ b \in Seq(Texts) /\ t \in Seq(Texts) /\ given \in Seq(Line)
  <2>1. line \in Texts
    BY DEF Texts
  <2>2. t \in Seq(Texts)
    BY <2>1
  <2>3. given \in Seq(Line)
    BY DEF TypeInv, Process, Given
  <2> QED
    BY <1>4, <2>2, <2>3, LinesSplit
<1>8. a \o b = given
  BY <1>1, <1>3, <1>4, <1>5, LinesSplit DEF LinesFor
<1>9. Lines(p)' = a \o (b \o t)
  BY <1>1, <1>2, <1>3, <1>4, <1>6, LinesSplit
<1>10. (a \o b) \o t = a \o (b \o t)
  <2> HIDE DEF a, b, t
  <2> QED
    BY <1>7, Zenon, AssociativeLines
<1>11. given \o t = Append(given, line)
  <2> HIDE DEF given
  <2> QED
    BY <1>7, AppendOne
<1> HIDE DEF a, b, t
<1> QED
  BY <1>2, <1>8, <1>9, <1>10, <1>11

LEMMA LinesWorker ==
    ASSUME TypeInv, TypeInv', NEW p \in Procs, Placed(p), LinesFor(p), WorkerTime(p)
    PROVE  LinesFor(p)'
<1>1. /\ clock' = clock /\ proc'[p].dir = proc[p].dir /\ proc'[p].time = proc[p].time
      /\ proc'[p].pool = proc[p].pool /\ proc'[p].status = proc[p].status
      /\ proc'[p].given = proc[p].given
      /\ \A q \in Procs : proc'[q].dir = proc[q].dir
  BY WorkerTimeDoes DEF Same, Others
<1>2. PICK line \in Texts :
        /\ LinesIn(proc[p].queue) = <<line>> \o LinesIn(proc'[p].queue)
        /\ \A d \in Dirs : \A q :
             TimeOf(d, q)' = IF q = p /\ d = proc[p].dir /\ d \in dirs \cup {Root}
                             THEN TimeOf(d, q) \o <<line>> ELSE TimeOf(d, q)
  BY WorkerTimeDoes
<1>3. ASSUME NEW d \in Dirs, d = proc[p].dir, d \in dirs \cup {Root}
      PROVE  TimeOf(d, p)' \o LinesIn(proc'[p].queue) = TimeOf(d, p) \o LinesIn(proc[p].queue)
  <2> DEFINE a == TimeOf(d, p)
             rest == LinesIn(proc'[p].queue)
             one == <<line>>
  <2>1. a \in Seq(Texts) /\ rest \in Seq(Texts) /\ one \in Seq(Texts)
    BY LinesSplit
  <2>2. TimeOf(d, p)' = a \o one /\ LinesIn(proc[p].queue) = one \o rest
    BY <1>2, <1>3
  <2>3. (a \o one) \o rest = a \o (one \o rest)
    <3> HIDE DEF a, rest, one
    <3> QED
      BY <2>1, Zenon, AssociativeLines
  <2> HIDE DEF a, one
  <2> QED
    BY <2>2, <2>3 DEF a
<1>4. clock <= clock'
  BY <1>1, ConstantsAre DEF TypeInv
<1> QED
  BY <1>1, <1>3, <1>4, LinesKept

LEMMA LinesStep == TypeInv /\ PlaceInv /\ LinesInv /\ [Next]_vars => LinesInv'
<1> SUFFICES ASSUME TypeInv, PlaceInv, LinesInv, [Next]_vars, NEW r \in Procs
             PROVE  LinesFor(r)'
  BY DEF LinesInv
<1>0. TypeInv' /\ Placed(r) /\ LinesFor(r) /\ clock \in Nat
  BY TypeStep, ConstantsAre DEF PlaceInv, LinesInv, TypeInv
\* A step that leaves the lines, the directories and what a process gave alone.
<1>1. ASSUME clock <= clock', timeFile' = timeFile,
             \A q \in Procs : proc'[q].dir = proc[q].dir,
             proc'[r].time = proc[r].time, proc'[r].pool = proc[r].pool,
             proc'[r].given = proc[r].given,
             proc'[r].status # "crashed" => proc[r].status # "crashed",
             LinesIn(proc'[r].queue) = LinesIn(proc[r].queue)
      PROVE  LinesFor(r)'
  BY <1>0, <1>1, TimeSame, LineKept, LinesKept
<1>2. ASSUME NEW p \in Procs, Others(p), clock' = clock, timeFile' = timeFile,
             proc'[p].dir = proc[p].dir, proc'[p].time = proc[p].time,
             proc'[p].pool = proc[p].pool, proc'[p].given = proc[p].given,
             proc'[p].status # "crashed" => proc[p].status # "crashed",
             LinesIn(proc'[p].queue) = LinesIn(proc[p].queue)
      PROVE  LinesFor(r)'
  <2>1. \A q \in Procs : q = p \/ proc'[q] = proc[q]
    BY <1>2 DEF Others
  <2> QED
    BY <1>0, <1>1, <1>2, <2>1
<1>3. CASE Tick
  <2> clock' = clock + 1 /\ timeFile' = timeFile /\ proc' = proc
    BY <1>3 DEF Tick, disk
  <2> QED
    BY <1>0, <1>1
<1>4. CASE UNCHANGED vars
  <2> clock' = clock /\ timeFile' = timeFile /\ proc' = proc
    BY <1>4 DEF vars
  <2> QED
    BY <1>0, <1>1
<1>5. ASSUME NEW p \in Procs, InitCall(p) PROVE LinesFor(r)'
  BY <1>0, <1>5, LinesInitCall
<1>6. ASSUME NEW p \in Procs, Flush(p) PROVE LinesFor(r)'
  BY <1>2, <1>6, FlushDoes DEF Same, Quiet
<1>7. ASSUME NEW p \in Procs, WorkerNode(p) PROVE LinesFor(r)'
  BY <1>2, <1>7, WorkerNodeDoes DEF Same
<1>8. ASSUME NEW p \in Procs, WorkerTime(p) PROVE LinesFor(r)'
  <2>1. CASE p = r
    BY <1>0, <1>8, <2>1, LinesWorker
  <2>2. CASE p # r
    <3>1. /\ clock' = clock /\ proc'[r] = proc[r]
          /\ \A q \in Procs : proc'[q].dir = proc[q].dir
      BY <1>8, <2>2, WorkerTimeDoes DEF Same, Others
    <3>2. \A d \in Dirs : TimeOf(d, r)' = TimeOf(d, r)
      BY <1>8, <2>2, WorkerTimeDoes
    <3> QED
      BY <1>0, <3>1, <3>2, LineKept, LinesKept
  <2> QED
    BY <2>1, <2>2
<1>9. ASSUME NEW p \in Procs, Exit(p) PROVE LinesFor(r)'
  BY <1>2, <1>9, ExitDoes DEF Same
<1>10. ASSUME NEW p \in Procs, Crash(p) PROVE LinesFor(r)'
  <2>1. /\ Others(p) /\ clock' = clock /\ timeFile' = timeFile
        /\ proc'[p].dir = proc[p].dir /\ proc'[p].status = "crashed"
    BY <1>10, CrashDoes DEF Same, Quiet
  <2>2. CASE p = r
    BY <2>1, <2>2 DEF LinesFor
  <2>3. CASE p # r
    <3> proc'[r] = proc[r] /\ \A q \in Procs : proc'[q].dir = proc[q].dir
      BY <2>1, <2>3 DEF Others
    <3> QED
      BY <1>0, <1>1, <2>1
  <2> QED
    BY <2>2, <2>3
<1>11. ASSUME NEW p \in Procs, Clear(p) PROVE LinesFor(r)'
  BY <1>2, <1>11, ClearDoes DEF Same, Quiet
<1>12. ASSUME NEW p \in Procs, NEW i \in 1..Len(Funcs), Evaluate(p, i) PROVE LinesFor(r)'
  BY <1>2, <1>12, EvaluateDoes DEF Same, Quiet
<1>13. ASSUME NEW p \in Procs, DumpIntoFile(p) PROVE LinesFor(r)'
  BY <1>2, <1>13, DumpDoes DEF Same, Quiet
<1>15. ASSUME NEW p \in Procs, log_time(p) \/ DumpLine(p) PROVE LinesFor(r)'
  <2>1. CASE p = r
    BY <1>0, <1>15, <2>1, LinesMore
  <2>2. CASE p # r
    <3> /\ proc'[r] = proc[r] /\ clock' = clock /\ timeFile' = timeFile
        /\ \A q \in Procs : proc'[q].dir = proc[q].dir
      BY <1>15, <2>2, LineDoes DEF Others, Same, Quiet, PlaceInv
    <3> QED
      BY <1>0, <1>1
  <2> QED
    BY <2>1, <2>2
<1>14. ASSUME NEW p \in Procs, NEW kind \in {"info", "debug"}, NEW n \in Nat, Log(p, kind, n)
       PROVE  LinesFor(r)'
  BY <1>2, <1>14, LogDoes DEF Same, Quiet
<1> QED
  BY <1>3, <1>4, <1>5, <1>6, <1>7, <1>8, <1>9, <1>10, <1>11, <1>12, <1>13, <1>14, <1>15,
     NextIs

-----------------------------------------------------------------------------
(* The lines of a dump                                                     *)

\* The lines a process gave for a dump, and those it still has to give, are the
\* dump's table; it gave none for a dump to come.
Tables(P) ==
    \A k \in Nat \ {0} :
        Under(P.given, k) \o (IF k = Len(P.dumps) THEN P.rest ELSE << >>)
            = IF k <= Len(P.dumps) THEN Table(P.dumps[k]) ELSE << >>

TablesInv == \A p \in Procs : Tables(proc[p])

\* The lines of a dump are rows, and one line more adds one of them.
LEMMA RowsOf ==
    ASSUME NEW given \in Given, NEW k
    PROVE  /\ Under(given, k) \in Rows
           /\ \A line \in Line : /\ line[2] \in Numbers
                                 /\ Under(Append(given, line), k) =
                                      IF line[1] = k THEN Append(Under(given, k), line[2])
                                      ELSE Under(given, k)
<1>1. Pairs(Line, Numbers) /\ given \in Seq(Line)
  BY PairsAre DEF Numbers, Given
<1>2. \A line \in Line : line[2] \in Numbers
  BY <1>1 DEF Pairs
<1> HIDE DEF Line, Numbers
<1> QED
  BY <1>1, <1>2, UnderIs, UnderMore DEF Rows

LEMMA NoRows == \A rows \in Rows : rows \o << >> = rows /\ << >> \o rows = rows
BY DEF Rows

LEMMA InitTables == Init => TablesInv
<1> SUFFICES ASSUME Init, NEW p \in Procs PROVE Tables(proc[p])
  BY DEF TablesInv
<1> DEFINE none == << >>
<1>1. proc[p].given = none /\ proc[p].dumps = none /\ Len(none) = 0
  BY DEF Init
<1>2. none \o none = none /\ \A k : Under(none, k) = none
  BY UnderNothing
<1>3. \A k \in Nat \ {0} : ~ (k <= 0)
  OBVIOUS
<1> HIDE DEF none
<1>4. \A k \in Nat \ {0} :
        Under(proc[p].given, k) \o (IF k = Len(proc[p].dumps) THEN proc[p].rest ELSE none)
          = IF k <= Len(proc[p].dumps) THEN Table(proc[p].dumps[k]) ELSE none
  BY <1>1, <1>2, <1>3
<1> QED
  BY <1>4 DEF Tables, none

\* A dump begins: its table is all to give.
LEMMA TablesDump ==
    ASSUME TypeInv, NEW p \in Procs, Tables(proc[p]), DumpIntoFile(p)
    PROVE  Tables(proc'[p])
<1> DEFINE P == proc[p]
           Q == proc'[p]
           none == << >>
           n == Len(P.dumps)
           table == Table(P.records_)
<1>1. /\ P.rest = none /\ P.records_ \in Records /\ Q.dumps = Append(P.dumps, P.records_)
      /\ Q.rest = table /\ Q.given = P.given
  BY DumpDoes DEF Same
<1>2. P.given \in Given /\ P.dumps \in Seq(Records) /\ table \in Rows
  BY <1>1, TableIs DEF TypeInv, Process, Dumps, Rows
<1>3. /\ n \in Nat /\ Len(Q.dumps) = n + 1 /\ Q.dumps[n + 1] = P.records_
      /\ \A k \in 1..n : Q.dumps[k] = P.dumps[k]
  <2> DEFINE dumps == P.dumps
             more == P.records_
  <2> HIDE DEF dumps, more
  <2>1. dumps \in Seq(Records) /\ more \in Records
    BY <1>1, <1>2 DEF dumps, more
  <2>2. /\ Len(Append(dumps, more)) = Len(dumps) + 1 /\ Append(dumps, more)[Len(dumps) + 1] = more
        /\ \A k \in 1..Len(dumps) : Append(dumps, more)[k] = dumps[k]
    BY <2>1
  <2> QED
    BY <1>1, <2>1, <2>2 DEF dumps, more
<1> SUFFICES ASSUME NEW k \in Nat \ {0}
             PROVE  Under(P.given, k) \o (IF k = n + 1 THEN table ELSE none)
                      = IF k <= n + 1 THEN Table(Q.dumps[k]) ELSE none
  BY <1>1, <1>3 DEF Tables
<1>4. Under(P.given, k) = IF k <= n THEN Table(P.dumps[k]) ELSE none
  <2>1. Under(P.given, k) \o (IF k = n THEN P.rest ELSE none)
          = IF k <= n THEN Table(P.dumps[k]) ELSE none
    BY DEF Tables
  <2>2. Under(P.given, k) \o none = Under(P.given, k)
    BY <1>2, RowsOf, NoRows
  <2> HIDE DEF P, n, none
  <2> QED
    BY <1>1, <2>1, <2>2
<1>5. Under(P.given, k) \o none = Under(P.given, k) /\ none \o table = table
  BY <1>2, RowsOf, NoRows
<1> DEFINE goal == Under(P.given, k) \o (IF k = n + 1 THEN table ELSE none)
                     = IF k <= n + 1 THEN Table(Q.dumps[k]) ELSE none
<1>6. ASSUME k <= n PROVE goal
  <2>1. k # n + 1 /\ k <= n + 1 /\ k \in 1..n
    BY <1>3, <1>6
  <2>2. Under(P.given, k) \o none = Table(Q.dumps[k])
    BY <1>3, <1>4, <1>5, <1>6, <2>1
  <2> QED
    BY <2>1, <2>2, Zenon
<1>7. ASSUME k = n + 1 PROVE goal
  <2>1. ~ (k <= n) /\ k <= n + 1
    BY <1>3, <1>7
  <2>2. Under(P.given, k) = none /\ Table(Q.dumps[k]) = table
    BY <1>1, <1>3, <1>4, <1>7, <2>1
  <2>3. Under(P.given, k) \o table = Table(Q.dumps[k])
    BY <1>5, <2>2
  <2> QED
    BY <1>7, <2>1, <2>3, Zenon
<1>8. ASSUME k > n + 1 PROVE goal
  <2>1. ~ (k <= n) /\ k # n + 1 /\ ~ (k <= n + 1)
    BY <1>3, <1>8
  <2>2. Under(P.given, k) \o none = none
    BY <1>4, <1>5, <2>1
  <2> QED
    BY <2>1, <2>2, Zenon
<1>9. k <= n \/ k = n + 1 \/ k > n + 1
  BY <1>3
<1> HIDE DEF goal
<1>10. goal
  BY <1>6, <1>7, <1>8, <1>9
<1> QED
  BY <1>10 DEF goal

\* The next line of the dump.
LEMMA TablesDumpLine ==
    ASSUME TypeInv, NEW p \in Procs, Tables(proc[p]), DumpLine(p)
    PROVE  Tables(proc'[p])
<1> DEFINE P == proc[p]
           Q == proc'[p]
           none == << >>
           n == Len(P.dumps)
           row == Head(P.rest)
           left == Tail(P.rest)
<1>1. /\ P.rest # none /\ Q.rest = left /\ Q.dumps = P.dumps /\ n \in Nat /\ row \in Numbers
      /\ <<n, row>> \in Line /\ Q.given = Append(P.given, <<n, row>>)
  BY DumpLineDoes DEF Same, Tells
<1>2. P.given \in Given /\ P.rest \in Seq(Numbers)
  BY DEF TypeInv, Process, Rows
<1>3. left \in Seq(Numbers) /\ P.rest = <<row>> \o left
  <2> DEFINE rest == P.rest
  <2> HIDE DEF rest
  <2>1. rest \in Seq(Numbers) /\ rest # << >>
    BY <1>1, <1>2 DEF rest
  <2>2. Tail(rest) \in Seq(Numbers) /\ rest = <<Head(rest)>> \o Tail(rest)
    BY <2>1
  <2> QED
    BY <2>2 DEF rest
<1> SUFFICES ASSUME NEW k \in Nat \ {0}
             PROVE  Under(Q.given, k) \o (IF k = n THEN left ELSE none)
                      = IF k <= n THEN Table(P.dumps[k]) ELSE none
  BY <1>1 DEF Tables
<1>4. Under(P.given, k) \o (IF k = n THEN P.rest ELSE none)
        = IF k <= n THEN Table(P.dumps[k]) ELSE none
  BY DEF Tables
<1>5. Under(P.given, k) \in Seq(Numbers)
  BY <1>2, RowsOf DEF Rows
<1>6. Under(Q.given, k) = IF n = k THEN Append(Under(P.given, k), row) ELSE Under(P.given, k)
  <2> DEFINE line == <<n, row>>
  <2>1. line \in Line /\ line[1] = n /\ line[2] = row
    BY <1>1
  <2> HIDE DEF line
  <2>2. Under(Append(P.given, line), k) =
          IF line[1] = k THEN Append(Under(P.given, k), line[2]) ELSE Under(P.given, k)
    BY <1>2, <2>1, RowsOf
  <2> QED
    BY <1>1, <2>1, <2>2 DEF line
<1>7. Append(Under(P.given, k), row) \o left = Under(P.given, k) \o P.rest
  <2> DEFINE a == Under(P.given, k)
             one == <<row>>
  <2> HIDE DEF row, left, Numbers
  <2>1. a \in Seq(Numbers) /\ one \in Seq(Numbers) /\ left \in Seq(Numbers)
    BY <1>1, <1>3, <1>5
  <2>2. Append(a, row) = a \o one
    <3> HIDE DEF a
    <3> QED
      BY <1>1, <2>1, AppendOne
  <2>3. (a \o one) \o left = a \o (one \o left)
    <3> HIDE DEF a, one
    <3> QED
      BY <2>1, ConcatAssociative
  <2> QED
    BY <1>3, <2>2, <2>3
<1> HIDE DEF P, Q, n, none, row, left
<1>8. CASE k = n
  BY <1>4, <1>6, <1>7, <1>8
<1>9. CASE k # n
  BY <1>4, <1>6, <1>9
<1> QED
  BY <1>8, <1>9

\* A line of no dump.
LEMMA TablesLogTime ==
    ASSUME TypeInv, NEW p \in Procs, Tables(proc[p]), log_time(p)
    PROVE  Tables(proc'[p])
<1>1. PICK cells \in Numbers :
        <<0, cells>> \in Line /\ proc'[p].given = Append(proc[p].given, <<0, cells>>)
  BY LogTimeDoes DEF Tells
<1>2. proc'[p].rest = proc[p].rest /\ proc'[p].dumps = proc[p].dumps
  BY LogTimeDoes DEF Same
<1>3. ASSUME NEW k \in Nat \ {0} PROVE Under(proc'[p].given, k) = Under(proc[p].given, k)
  <2> DEFINE line == <<0, cells>>
             given == proc[p].given
  <2>1. line \in Line /\ line[1] # k /\ given \in Given
    BY <1>1 DEF TypeInv, Process
  <2> HIDE DEF line, given
  <2>2. Under(Append(given, line), k) = Under(given, k)
    BY <2>1, RowsOf
  <2> QED
    BY <1>1, <2>2 DEF line, given
<1> QED
  BY <1>2, <1>3 DEF Tables

LEMMA TablesStep == TypeInv /\ TablesInv /\ [Next]_vars => TablesInv'
<1> SUFFICES ASSUME TypeInv, TablesInv, [Next]_vars, NEW r \in Procs PROVE Tables(proc'[r])
  <2>1. (\A p \in Procs : Tables(proc'[p])) => TablesInv'
    BY DEF TablesInv, Tables, Table, Recorded
  <2> QED
    BY <2>1
<1>0. Tables(proc[r])
  BY DEF TablesInv
<1>1. ASSUME proc'[r] = proc[r] PROVE Tables(proc'[r])
  BY <1>0, <1>1
<1>2. ASSUME NEW p \in Procs, Others(p), p # r PROVE Tables(proc'[r])
  BY <1>1, <1>2 DEF Others
<1>3. ASSUME NEW p \in Procs, Others(p),
             Same(proc'[p], proc[p], {"status", "pool", "node", "time", "dir", "queue", "buffer",
                                      "logged", "records_", "evals"})
      PROVE  Tables(proc'[r])
  <2>1. CASE p = r
    BY <1>0, <1>3, <2>1 DEF Same, Tables
  <2> QED
    BY <1>2, <1>3, <2>1
<1>4. CASE Tick \/ UNCHANGED vars
  BY <1>1, <1>4 DEF Tick, vars
<1>5. ASSUME NEW p \in Procs, InitCall(p) PROVE Tables(proc'[r])
  BY <1>3, <1>5, InitCallDoes, SameSince
<1>6. ASSUME NEW p \in Procs, Flush(p) PROVE Tables(proc'[r])
  BY <1>3, <1>6, FlushDoes, SameSince
<1>7. ASSUME NEW p \in Procs, WorkerNode(p) PROVE Tables(proc'[r])
  BY <1>3, <1>7, WorkerNodeDoes, SameSince
<1>8. ASSUME NEW p \in Procs, WorkerTime(p) PROVE Tables(proc'[r])
  BY <1>3, <1>8, WorkerTimeDoes, SameSince
<1>9. ASSUME NEW p \in Procs, Exit(p) PROVE Tables(proc'[r])
  BY <1>3, <1>9, ExitDoes, SameSince
<1>10. ASSUME NEW p \in Procs, Crash(p) PROVE Tables(proc'[r])
  BY <1>3, <1>10, CrashDoes, SameSince
<1>11. ASSUME NEW p \in Procs, Clear(p) PROVE Tables(proc'[r])
  BY <1>3, <1>11, ClearDoes, SameSince
<1>12. ASSUME NEW p \in Procs, NEW i \in 1..Len(Funcs), Evaluate(p, i) PROVE Tables(proc'[r])
  BY <1>3, <1>12, EvaluateDoes, SameSince
<1>13. ASSUME NEW p \in Procs, NEW kind \in {"info", "debug"}, NEW n \in Nat, Log(p, kind, n)
       PROVE  Tables(proc'[r])
  BY <1>3, <1>13, LogDoes, SameSince
<1>14. ASSUME NEW p \in Procs, DumpIntoFile(p) PROVE Tables(proc'[r])
  BY <1>0, <1>2, <1>14, TablesDump, DumpDoes
<1>15. ASSUME NEW p \in Procs, DumpLine(p) PROVE Tables(proc'[r])
  BY <1>0, <1>2, <1>15, TablesDumpLine, DumpLineDoes
<1>16. ASSUME NEW p \in Procs, log_time(p) PROVE Tables(proc'[r])
  BY <1>0, <1>2, <1>16, TablesLogTime, LogTimeDoes
<1> QED
  BY <1>4, <1>5, <1>6, <1>7, <1>8, <1>9, <1>10, <1>11, <1>12, <1>13, <1>14, <1>15, <1>16, NextIs

\* The columns of a table can be read back.
LEMMA TableReads ==
    ASSUME NEW r \in Records
    PROVE  ReadsBack(Table(r), r)
<1> DEFINE t == Table(r)
<1>1. /\ t \in Seq(Numbers) /\ t # << >> /\ t[1] = Recorded(r)
      /\ \A c \in 1..Len(Recorded(r)) :
           LET durations == r[Recorded(r)[c]]
           IN  /\ durations \in Durations /\ Len(durations) <= Len(t) - 1
               /\ \A i \in 1..Len(t) - 1 :
                    t[i + 1][c] = IF i <= Len(durations) THEN Printed[durations[i]] ELSE 0
  BY TableIs
<1> HIDE DEF t
<1>2. ASSUME NEW c \in 1..Len(t[1])
      PROVE  LET column == [i \in 1..Len(t) - 1 |-> t[i + 1][c]]
                 durations == r[t[1][c]]
             IN  /\ Len(durations) <= Len(column)
                 /\ \A i \in 1..Len(column) :
                      column[i] = IF i <= Len(durations) THEN Printed[durations[i]] ELSE 0
  <2> DEFINE n == Len(t) - 1
             durations == r[t[1][c]]
             cell(i) == t[i + 1][c]
             column == [i \in 1..n |-> cell(i)]
  <2>1. n \in Nat
    <3>1. Len(t) \in Nat /\ Len(t) # 0
      BY <1>1
    <3> QED
      BY <3>1
  <2>2. /\ Len(durations) <= n
        /\ \A i \in 1..n : cell(i) = IF i <= Len(durations) THEN Printed[durations[i]] ELSE 0
    BY <1>1
  <2> HIDE DEF durations, n, cell
  <2>3. Len(column) = n /\ \A i \in 1..n : column[i] = cell(i)
    BY <2>1
  <2> HIDE DEF column
  <2>4. /\ Len(durations) <= Len(column)
        /\ \A i \in 1..Len(column) :
             column[i] = IF i <= Len(durations) THEN Printed[durations[i]] ELSE 0
    BY <2>2, <2>3
  <2> QED
    BY <2>4 DEF column, durations, n, cell
<1>3. ReadsBack(t, r)
  BY <1>1, <1>2 DEF ReadsBack
<1> QED
  BY <1>3 DEF t

\* The lines of a finished dump, in the file or on their way, can be read back.
LEMMA LinesReadBack == TypeInv /\ LinesInv /\ TablesInv => TableReadsBack
<1> SUFFICES ASSUME TypeInv, LinesInv, TablesInv, NEW p \in Procs,
                    proc[p].status # "crashed",
                    proc[p].time = proc[p].pool, proc[p].pool = 1, Young(proc[p].dir),
                    \A q \in EvaluateProcs \ {p} : proc[q].dir # proc[p].dir
             PROVE  /\ Lines(p) = proc[p].given
                    /\ \A k \in 1..Len(proc[p].dumps) :
                        k < Len(proc[p].dumps) \/ Idle(p) =>
                            ReadsBack(Under(Lines(p), k), proc[p].dumps[k])
  BY DEF TableReadsBack
<1>1. Lines(p) = proc[p].given
  BY DEF LinesInv, LinesFor, Alone
<1>2. proc[p].given \in Given /\ proc[p].dumps \in Seq(Records)
  BY DEF TypeInv, Process, Dumps
<1>3. ASSUME NEW k \in 1..Len(proc[p].dumps), k < Len(proc[p].dumps) \/ Idle(p)
      PROVE  ReadsBack(Under(Lines(p), k), proc[p].dumps[k])
  <2> DEFINE dumps == proc[p].dumps
             given == proc[p].given
             rest == IF k = Len(dumps) THEN proc[p].rest ELSE << >>
  <2>1. rest = << >>
    BY <1>2, <1>3 DEF Idle
  <2>2. k \in Nat \ {0} /\ k <= Len(dumps) /\ dumps[k] \in Records
    <3> HIDE DEF dumps
    <3>1. dumps \in Seq(Records) /\ k \in 1..Len(dumps)
      BY <1>2 DEF dumps
    <3> QED
      BY <3>1
  <2>3. Under(given, k) \o rest = Table(dumps[k])
    BY <2>2 DEF TablesInv, Tables
  <2> HIDE DEF rest
  <2>4. Under(given, k) = Table(dumps[k])
    BY <1>2, <2>1, <2>3, RowsOf, NoRows
  <2> QED
    BY <1>1, <2>2, <2>4, TableReads
<1> QED
  BY <1>1, <1>3

\* Every line for the evaluation logger is in time.log or on its way there, and the
\* lines of every finished dump can be read back from among them: for any number of
\* processes, functions, measurements, dumps and days, whatever number of digits is
\* printed, and whatever other threads log between the lines.
THEOREM DumpReadsBack == Spec => []TableReadsBack
<1>1. Init => LinesInv
  <2> SUFFICES ASSUME Init, NEW p \in Procs PROVE LinesFor(p)
    BY DEF LinesInv
  <2> proc[p].pool = 0
    BY DEF Init
  <2> QED
    BY DEF LinesFor
<1> DEFINE IInv == TypeInv /\ PlaceInv /\ LinesInv /\ TablesInv
<1>2. Init => IInv
  BY <1>1, InitTyped, InitPlaced, InitTables
<1>3. IInv /\ [Next]_vars => IInv'
  BY TypeStep, PlaceStep, LinesStep, TablesStep
<1>4. IInv => TableReadsBack
  BY LinesReadBack
<1> QED
  BY <1>2, <1>3, <1>4, PTL DEF Spec
=============================================================================
