-------------------------------- MODULE Induction --------------------------------
(***************************************************************************)
(* Induction over the natural numbers for proofs about recursive           *)
(* functions and folds.  The lemmas are about sets and functions, not      *)
(* about operators, so that the provers can instantiate them.              *)
(***************************************************************************)

EXTENDS Naturals, Functions, SequencesExt, WellFoundedInduction, TLAPS

\* Induction: a set that has 0, and the successor of each of its numbers, has
\* all.  Its complement would otherwise have a smallest number.
LEMMA SetInduction ==
  ASSUME NEW S, 0 \in S, \A n \in Nat : n \in S => n + 1 \in S
  PROVE  Nat \subseteq S
<1> DEFINE R == {pair \in Nat \X Nat : pair[1] < pair[2]}
           T == Nat \ S
<1>1. IsWellFoundedOn(R, Nat)
  BY NatLessThanWellFounded DEF OpToRel
<1>2. SUFFICES ASSUME T # {} PROVE FALSE
  OBVIOUS
<1>3. PICK x \in T : \A y \in T : <<y, x>> \notin R
  <2>1. T \subseteq Nat
    OBVIOUS
  <2> HIDE DEF R, T
  <2>2. QED BY <1>1, <1>2, <2>1, WFMin
<1>4. x # 0 /\ x - 1 \in Nat /\ x - 1 + 1 = x /\ x - 1 < x
  OBVIOUS
<1>5. x - 1 \notin T
  <2>1. <<x - 1, x>> \in R
    BY <1>4
  <2>2. QED BY <1>3, <2>1
<1>6. QED BY <1>4, <1>5

\* A function on 0 .. n that begins with base, and whose next value is the step
\* from the one before.
CanRecur(V, base, step, n) ==
  \E f \in [0 .. n -> V] : f[0] = base /\ \A i \in 1 .. n : f[i] = step[i][f[i - 1]]

\* Recursion over an interval: such a function exists.
LEMMA RecursionExists ==
  ASSUME NEW V, NEW base \in V, NEW step, NEW n \in Nat,
         \A i \in 1 .. n, v \in V : step[i][v] \in V
  PROVE  CanRecur(V, base, step, n)
<1> DEFINE Defines(f, m) == f[0] = base /\ \A i \in 1 .. m : f[i] = step[i][f[i - 1]]
           S == {m \in Nat : m <= n => \E f \in [0 .. m -> V] : Defines(f, m)}
<1>1. 0 \in S
  <2>1. [i \in 0 .. 0 |-> base] \in [0 .. 0 -> V] /\ Defines([i \in 0 .. 0 |-> base], 0)
    OBVIOUS
  <2>2. QED BY <2>1
<1>2. ASSUME NEW m \in Nat, m \in S PROVE m + 1 \in S
  <2>1. SUFFICES ASSUME m + 1 <= n
                 PROVE  \E f \in [0 .. m + 1 -> V] : Defines(f, m + 1)
    OBVIOUS
  <2>2. PICK f \in [0 .. m -> V] : Defines(f, m)
    BY <1>2, <2>1
  <2> DEFINE g == [i \in 0 .. m + 1 |-> IF i <= m THEN f[i] ELSE step[m + 1][f[m]]]
  <2>3. g \in [0 .. m + 1 -> V]
    BY <2>1, <2>2
  <2>4. \A i \in 1 .. m + 1 : g[i] = step[i][g[i - 1]]
    <3>1. ASSUME NEW i \in 1 .. m + 1 PROVE g[i] = step[i][g[i - 1]]
      <4>1. g[i - 1] = f[i - 1]
        OBVIOUS
      <4>2. CASE i <= m
        BY <2>2, <4>1, <4>2
      <4>3. CASE i = m + 1
        BY <4>1, <4>3
      <4>4. QED BY <4>2, <4>3
    <3>2. QED BY <3>1
  <2>5. g[0] = base
    BY <2>2
  <2>6. QED BY <2>3, <2>4, <2>5
<1>3. n \in S
  <2> HIDE DEF S
  <2>1. QED BY <1>1, <1>2, SetInduction
<1>4. QED BY <1>3 DEF CanRecur

\* Two functions with the same values from m to n.
Agree(f, g, m, n) == \A i \in m .. n : f[i] = g[i]

\* Two functions that begin alike, and go on alike from where they agree, agree:
\* a recursion has one solution.
LEMMA SameRecursion ==
  ASSUME NEW m \in Nat, NEW n \in Nat, NEW f, NEW g, f[m] = g[m],
         \A i \in m + 1 .. n : f[i - 1] = g[i - 1] => f[i] = g[i]
  PROVE  Agree(f, g, m, n)
<1> DEFINE S == {k \in Nat : m + k <= n => f[m + k] = g[m + k]}
<1>1. 0 \in S
  <2>1. m + 0 = m
    OBVIOUS
  <2>2. QED BY <2>1
<1>2. ASSUME NEW k \in Nat, k \in S PROVE k + 1 \in S
  <2>1. SUFFICES ASSUME m + (k + 1) <= n PROVE f[m + (k + 1)] = g[m + (k + 1)]
    OBVIOUS
  <2>2. f[m + k] = g[m + k] /\ (m + (k + 1)) - 1 = m + k /\ m + (k + 1) \in m + 1 .. n
    BY <1>2, <2>1
  <2>3. QED BY ONLY <2>2, \A i \in m + 1 .. n : f[i - 1] = g[i - 1] => f[i] = g[i]
<1>3. Nat \subseteq S
  <2> HIDE DEF S
  <2>1. QED BY <1>1, <1>2, SetInduction
<1>4. ASSUME NEW i \in m .. n PROVE f[i] = g[i]
  <2>1. i - m \in S /\ m + (i - m) = i /\ i <= n
    BY <1>3
  <2>2. QED BY <2>1
<1>5. QED BY <1>4 DEF Agree

--------------------------------------------------------------------------------
(* Folds *)

\* A set of numbers up to n that is not empty has a greatest one.
LEMMA MaxIsThere ==
  ASSUME NEW n \in Nat, NEW s \in SUBSET (1 .. n), s # {}
  PROVE  Max(s) \in s /\ \A i \in s : i <= Max(s)
<1> DEFINE S == {m \in Nat : \A t \in SUBSET (1 .. m) : t # {} => \E x \in t : \A y \in t : x >= y}
<1>1. 0 \in S
  <2>1. 1 .. 0 = {}
    OBVIOUS
  <2>2. QED BY <2>1
<1>2. ASSUME NEW m \in Nat, m \in S PROVE m + 1 \in S
  <2>1. SUFFICES ASSUME NEW t \in SUBSET (1 .. m + 1), t # {}
                 PROVE  \E x \in t : \A y \in t : x >= y
    OBVIOUS
  <2>2. CASE m + 1 \in t
    BY <2>2
  <2>3. CASE m + 1 \notin t
    <3>1. t \in SUBSET (1 .. m)
      BY <2>3
    <3>2. QED BY <1>2, <2>1, <3>1
  <2>4. QED BY <2>2, <2>3
<1>3. n \in S
  <2> HIDE DEF S
  <2>1. QED BY <1>1, <1>2, SetInduction
<1>4. \E x \in s : \A y \in s : x >= y
  BY <1>3
<1>5. QED BY <1>4 DEF Max

\* And a smallest one.
LEMMA MinIsThere ==
  ASSUME NEW n \in Nat, NEW s \in SUBSET (1 .. n), s # {}
  PROVE  Min(s) \in s /\ \A i \in s : Min(s) <= i
<1> DEFINE t == {n + 1 - i : i \in s}
<1>1. t \in SUBSET (1 .. n) /\ t # {}
  <2>1. \A i \in 1 .. n : n + 1 - i \in 1 .. n
    OBVIOUS
  <2>2. QED BY <2>1
<1>2. PICK x \in t : \A y \in t : y <= x
  <2> HIDE DEF t
  <2>1. QED BY <1>1, MaxIsThere
<1>3. PICK i \in s : x = n + 1 - i
  OBVIOUS
<1>4. \A j \in s : i <= j
  <2>1. \A j \in s : n + 1 - j \in t
    OBVIOUS
  <2>2. QED BY <1>2, <1>3, <2>1
<1>5. QED BY <1>4 DEF Min

\* The recursion of MapThenFoldSet as FoldLeft uses it, over the sets of indices
\* up to n.
Folds(f, base, step, n) ==
  \A s \in SUBSET (1 .. n) :
    f[s] = IF s = {} THEN base ELSE step[Max(s)][f[s \ {Max(s)}]]

CanFold(V, base, step, n) == \E f \in [SUBSET (1 .. n) -> V] : Folds(f, base, step, n)

\* It has a solution.
LEMMA FoldExists ==
  ASSUME NEW V, NEW base \in V, NEW step, NEW n \in Nat,
         \A i \in 1 .. n, v \in V : step[i][v] \in V
  PROVE  CanFold(V, base, step, n)
<1> DEFINE S == {m \in Nat : m <= n => CanFold(V, base, step, m)}
<1>1. 0 \in S
  <2> DEFINE f == [s \in SUBSET (1 .. 0) |-> base]
  <2>1. f \in [SUBSET (1 .. 0) -> V]
    OBVIOUS
  <2>2. \A s \in SUBSET (1 .. 0) : s = {}
    OBVIOUS
  <2>3. Folds(f, base, step, 0)
    BY <2>2 DEF Folds
  <2>4. CanFold(V, base, step, 0)
    BY <2>1, <2>3 DEF CanFold
  <2>5. QED BY <2>4
<1>2. ASSUME NEW m \in Nat, m \in S PROVE m + 1 \in S
  <2>1. SUFFICES ASSUME m + 1 <= n PROVE CanFold(V, base, step, m + 1)
    OBVIOUS
  <2>2. PICK f \in [SUBSET (1 .. m) -> V] : Folds(f, base, step, m)
    <3>1. CanFold(V, base, step, m)
      BY <1>2, <2>1
    <3>2. QED BY ONLY <3>1 DEF CanFold
  <2> DEFINE g == [s \in SUBSET (1 .. m + 1) |->
                     IF m + 1 \in s THEN step[m + 1][f[s \ {m + 1}]] ELSE f[s]]
  <2>3. \A s \in SUBSET (1 .. m + 1) : m + 1 \notin s => s \in SUBSET (1 .. m)
    OBVIOUS
  <2>4. \A s \in SUBSET (1 .. m + 1) : s \ {m + 1} \in SUBSET (1 .. m)
    OBVIOUS
  <2>5. g \in [SUBSET (1 .. m + 1) -> V]
    BY <2>1, <2>2, <2>3, <2>4
  <2>6. ASSUME NEW s \in SUBSET (1 .. m + 1)
        PROVE  g[s] = IF s = {} THEN base ELSE step[Max(s)][g[s \ {Max(s)}]]
    <3>1. CASE m + 1 \in s
      <4>1. Max(s) = m + 1
        <5>1. Max(s) \in s /\ Max(s) >= m + 1
          BY <3>1, MaxIsThere
        <5>2. Max(s) \in 1 .. m + 1
          BY <5>1
        <5>3. QED BY <5>1, <5>2
      <4>2. g[s \ {m + 1}] = f[s \ {m + 1}]
        BY <2>4
      <4>3. QED BY <3>1, <4>1, <4>2
    <3>2. CASE m + 1 \notin s
      <4>1. s \in SUBSET (1 .. m) /\ g[s] = f[s]
        BY <2>3, <3>2
      <4>2. s \ {Max(s)} \in SUBSET (1 .. m) /\ g[s \ {Max(s)}] = f[s \ {Max(s)}]
        BY <4>1, <3>2
      <4>3. QED BY <2>2, <4>1, <4>2 DEF Folds
    <3>3. QED BY <3>1, <3>2
  <2>7. Folds(g, base, step, m + 1)
    BY <2>6 DEF Folds
  <2>8. QED BY <2>5, <2>7 DEF CanFold
<1>3. n \in S
  <2> HIDE DEF S
  <2>1. QED BY <1>1, <1>2, SetInduction
<1>4. QED BY <1>3

\* The sets of indices a fold comes by.
LEMMA PrefixOfIndices ==
  ASSUME NEW n \in Nat, NEW i \in 1 .. n
  PROVE  /\ 1 .. i \in SUBSET (1 .. n) /\ 1 .. i # {}
         /\ Max(1 .. i) = i /\ (1 .. i) \ {i} = 1 .. i - 1
<1>1. 1 .. i \in SUBSET (1 .. n) /\ i \in 1 .. i /\ (1 .. i) \ {i} = 1 .. i - 1
  OBVIOUS
<1>2. Max(1 .. i) \in 1 .. i /\ i <= Max(1 .. i)
  BY <1>1, MaxIsThere
<1>3. QED BY <1>1, <1>2

--------------------------------------------------------------------------------
(* Sequences joined to one *)

\* Sequences of a set T, joined one after the other: f[i] is the first i of them.
IsJoined(T, f, lines) ==
  /\ f \in [0 .. Len(lines) -> Seq(T)]
  /\ f[0] = <<>>
  /\ \A i \in 1 .. Len(lines) : f[i] = f[i - 1] \o lines[i]

\* They can be: this is a recursive function.
Joined(lines) ==
  LET f[i \in 0 .. Len(lines)] == IF i = 0 THEN <<>> ELSE f[i - 1] \o lines[i] IN f

\* Joining n lines, one after the other, has a result.
CanJoin(V, base, lines, n) ==
  \E f \in [0 .. n -> V] : f[0] = base /\ \A i \in 1 .. n : f[i] = f[i - 1] \o lines[i]

\* It has, when a line joined to a text is a text.
LEMMA CanJoinLines ==
  ASSUME NEW V, NEW base \in V, NEW lines, NEW n \in Nat,
         NEW step, \A i \in 1 .. n, t \in V : step[i][t] = t \o lines[i] /\ step[i][t] \in V
  PROVE  CanJoin(V, base, lines, n)
<1>1. \A i \in 1 .. n, t \in V : step[i][t] \in V
  OBVIOUS
<1>2. PICK f \in [0 .. n -> V] : f[0] = base /\ \A i \in 1 .. n : f[i] = step[i][f[i - 1]]
  <2>1. CanRecur(V, base, step, n)
    BY <1>1, RecursionExists
  <2>2. QED BY <2>1 DEF CanRecur
<1>3. \A i \in 1 .. n : f[i] = f[i - 1] \o lines[i]
  <2>1. \A i \in 1 .. n : i - 1 \in 0 .. n
    OBVIOUS
  <2>2. \A i \in 1 .. n : f[i - 1] \in V
    BY ONLY <2>1, f \in [0 .. n -> V]
  <2>3. QED BY <2>2, <1>2
<1>4. QED BY <1>2, <1>3 DEF CanJoin

\* The recursion that joins the lines has a solution, and only texts in it.
LEMMA JoinedExists ==
  ASSUME NEW T, NEW lines \in Seq(Seq(T))
  PROVE  IsJoined(T, Joined(lines), lines)
<1> DEFINE n == Len(lines)
           V == Seq(T)
           step == [i \in 1 .. n |-> [t \in V |-> t \o lines[i]]]
<1>1. n \in Nat /\ <<>> \in V /\ \A i \in 1 .. n : lines[i] \in V
  OBVIOUS
<1>2. \A i \in 1 .. n, t \in V : step[i][t] = t \o lines[i] /\ step[i][t] \in V
  BY <1>1
<1>3. CanJoin(V, <<>>, lines, n)
  <2> HIDE DEF step, V, n
  <2>1. QED BY ONLY <1>1, <1>2, CanJoinLines
<1> DEFINE body(g) == [i \in 0 .. n |-> IF i = 0 THEN <<>> ELSE g[i - 1] \o lines[i]]
           J == CHOOSE g : g = body(g)
<1>4. PICK f \in [0 .. n -> V] : f[0] = <<>> /\ \A i \in 1 .. n : f[i] = f[i - 1] \o lines[i]
  BY <1>3 DEF CanJoin
<1>5. \A i \in 0 .. n : i # 0 => i \in 1 .. n
  OBVIOUS
<1>6. f = body(f)
  <2> HIDE DEF n, V
  <2>1. \A i \in 0 .. n : f[i] = IF i = 0 THEN <<>> ELSE f[i - 1] \o lines[i]
    BY ONLY <1>4, <1>5
  <2>2. QED BY <2>1, <1>4
<1>7. J = body(J)
  <2> HIDE DEF body
  <2>1. QED BY <1>6
<1>8. \A i \in 0 .. n : J[i] = IF i = 0 THEN <<>> ELSE J[i - 1] \o lines[i]
  <2> HIDE DEF J
  <2>1. QED BY <1>7
<1> HIDE DEF J
<1>9. DOMAIN J = 0 .. n /\ J = [i \in 0 .. n |-> J[i]]
  BY <1>7
<1>10. Agree(f, J, 0, n)
  <2>1. f[0] = J[0]
    BY <1>1, <1>4, <1>8
  <2>2. \A i \in 0 + 1 .. n : f[i - 1] = J[i - 1] => f[i] = J[i]
    <3>1. \A i \in 0 + 1 .. n : i \in 0 .. n /\ i # 0 /\ i \in 1 .. n
      BY <1>1
    <3>2. QED BY ONLY <3>1, <1>4, <1>8
  <2> HIDE DEF n
  <2>3. QED BY <1>1, <2>1, <2>2, SameRecursion
<1>11. J = f
  BY <1>9, <1>10 DEF Agree
<1>12. IsJoined(T, J, lines)
  BY <1>4, <1>11 DEF IsJoined
<1>13. QED BY <1>12 DEF Joined, J

\* FlattenSeq joins all lines: by induction, since its recursion begins with the
\* first line and that of Joined with none.
LEMMA WholeIsJoined ==
  ASSUME NEW T, NEW lines \in Seq(Seq(T))
  PROVE  FlattenSeq(lines) = Joined(lines)[Len(lines)]
<1> DEFINE n == Len(lines)
           V == Seq(T)
           J == Joined(lines)
           body(g) == [i \in 1 .. n |-> IF i = 1 THEN lines[i] ELSE g[i - 1] \o lines[i]]
           G == CHOOSE g : g = body(g)
           H == [i \in 1 .. n |-> J[i]]
<1>1. n \in Nat /\ \A i \in 1 .. n : lines[i] \in V
  OBVIOUS
<1>2. J \in [0 .. n -> V] /\ J[0] = <<>> /\ \A i \in 1 .. n : J[i] = J[i - 1] \o lines[i]
  BY JoinedExists DEF IsJoined
<1>3. CASE n = 0
  <2>1. FlattenSeq(lines) = lines /\ lines = <<>>
    BY <1>3 DEF FlattenSeq
  <2>2. QED BY <1>2, <1>3, <2>1
<1>4. CASE n # 0
  <2>1. FlattenSeq(lines) = G[n]
    BY <1>4 DEF FlattenSeq
  <2>2. 1 \in 1 .. n /\ \A i \in 1 .. n : i # 1 => i - 1 \in 1 .. n
    BY <1>1, <1>4
  <2> HIDE DEF n, J
  <2>3. J[1] = lines[1]
    <3>1. J[1] = J[0] \o lines[1]
      <4>1. 1 - 1 = 0
        OBVIOUS
      <4>2. QED BY ONLY <1>2, <2>2, <4>1
    <3>2. \A s \in Seq(T) : <<>> \o s = s
      OBVIOUS
    <3>3. QED BY <1>1, <1>2, <2>2, <3>1, <3>2
  <2>4. H = body(H)
    <3>1. \A i \in 1 .. n : H[i] = IF i = 1 THEN lines[i] ELSE H[i - 1] \o lines[i]
      BY <1>2, <2>2, <2>3
    <3>2. QED BY <3>1
  <2>5. G = body(G)
    <3> HIDE DEF body, H
    <3>1. QED BY <2>4
  <2>6. \A i \in 1 .. n : G[i] = IF i = 1 THEN lines[i] ELSE G[i - 1] \o lines[i]
    <3> HIDE DEF G
    <3>1. QED BY <2>5
  <2> HIDE DEF G
  <2>7. \A i \in 2 .. n : J[i - 1] = G[i - 1] => J[i] = G[i]
    <3>1. \A i \in 2 .. n : i \in 1 .. n /\ i # 1
      OBVIOUS
    <3>2. QED BY ONLY <3>1, <1>2, <2>6
  <2>8. J[1] = G[1]
    BY <2>2, <2>3, <2>6
  <2>9. Agree(J, G, 1, n)
    <3>1. 1 \in Nat /\ 1 + 1 = 2
      OBVIOUS
    <3>2. QED BY <1>1, <2>7, <2>8, <3>1, SameRecursion
  <2>10. n \in 1 .. n
    BY <1>1, <1>4
  <2>11. QED BY <2>1, <2>9, <2>10 DEF n, J, Agree
<1>5. QED BY <1>3, <1>4

\* Each member x of s is member place[x] of the sequence lines[line[x]], the members
\* come in the order of the n sequences, and all of them do.
IsSpread(lines, n, s, line, place) ==
  /\ line \in [1 .. Len(s) -> Nat] /\ place \in [1 .. Len(s) -> Nat]
  /\ \A x \in 1 .. Len(s) :
       /\ line[x] \in 1 .. n /\ place[x] \in 1 .. Len(lines[line[x]])
       /\ s[x] = lines[line[x]][place[x]]
  /\ \A x, y \in 1 .. Len(s) :
       x < y => line[x] < line[y] \/ (line[x] = line[y] /\ place[x] < place[y])
  /\ \A i \in 1 .. n : \A j \in 1 .. Len(lines[i]) :
       \E x \in 1 .. Len(s) : line[x] = i /\ place[x] = j

\* s consists of the members of the first n sequences, in their order.
Spreads(lines, n, s) == \E line, place : IsSpread(lines, n, s, line, place)

\* It still does when s and the number of sequences grow by one sequence.
LEMMA SpreadOn ==
  ASSUME NEW T, NEW lines \in Seq(Seq(T)), NEW n \in Nat, n + 1 \in 1 .. Len(lines),
         NEW s \in Seq(T), Spreads(lines, n, s)
  PROVE  Spreads(lines, n + 1, s \o lines[n + 1])
<1> DEFINE l == lines[n + 1]
           t == s \o l
<1>1. PICK line, place : IsSpread(lines, n, s, line, place)
  BY DEF Spreads
<1>2. l \in Seq(T) /\ t \in Seq(T) /\ Len(s) \in Nat /\ Len(l) \in Nat /\ Len(t) = Len(s) + Len(l)
  OBVIOUS
<1>3. /\ \A x \in 1 .. Len(s) : t[x] = s[x]
      /\ \A x \in Len(s) + 1 .. Len(t) : x - Len(s) \in 1 .. Len(l) /\ t[x] = l[x - Len(s)]
  BY <1>2
<1> DEFINE a == [x \in 1 .. Len(t) |-> IF x <= Len(s) THEN line[x] ELSE n + 1]
           b == [x \in 1 .. Len(t) |-> IF x <= Len(s) THEN place[x] ELSE x - Len(s)]
<1> HIDE DEF l, t
<1>4. /\ line \in [1 .. Len(s) -> Nat] /\ place \in [1 .. Len(s) -> Nat]
      /\ \A x \in 1 .. Len(s) :
           /\ line[x] \in 1 .. n /\ place[x] \in 1 .. Len(lines[line[x]])
           /\ s[x] = lines[line[x]][place[x]]
  BY <1>1 DEF IsSpread
<1>5. /\ \A x \in 1 .. Len(s) : a[x] = line[x] /\ b[x] = place[x]
      /\ \A x \in Len(s) + 1 .. Len(t) : a[x] = n + 1 /\ b[x] = x - Len(s)
      /\ \A x \in 1 .. Len(t) : x \in 1 .. Len(s) \/ x \in Len(s) + 1 .. Len(t)
  BY <1>2
<1>6. a \in [1 .. Len(t) -> Nat] /\ b \in [1 .. Len(t) -> Nat]
  <2>1. \A x \in 1 .. Len(t) : a[x] \in Nat /\ b[x] \in Nat
    BY <1>2, <1>3, <1>4, <1>5
  <2>2. QED BY <2>1
<1>7. ASSUME NEW x \in 1 .. Len(t)
      PROVE  /\ a[x] \in 1 .. n + 1 /\ b[x] \in 1 .. Len(lines[a[x]])
             /\ t[x] = lines[a[x]][b[x]]
  <2> HIDE DEF a, b
  <2>1. CASE x \in 1 .. Len(s)
    <3>1. a[x] = line[x] /\ b[x] = place[x] /\ t[x] = s[x]
      BY ONLY <1>3, <1>5, <2>1
    <3>2. /\ line[x] \in 1 .. n /\ place[x] \in 1 .. Len(lines[line[x]])
          /\ s[x] = lines[line[x]][place[x]]
      BY ONLY <1>4, <2>1
    <3>3. 1 .. n \subseteq 1 .. n + 1
      OBVIOUS
    <3>4. QED BY ONLY <3>1, <3>2, <3>3
  <2>2. CASE x \in Len(s) + 1 .. Len(t)
    <3>1. a[x] = n + 1 /\ b[x] = x - Len(s) /\ x - Len(s) \in 1 .. Len(l) /\ t[x] = l[x - Len(s)]
      BY ONLY <1>3, <1>5, <2>2
    <3>2. n + 1 \in 1 .. n + 1
      OBVIOUS
    <3>3. QED BY ONLY <3>1, <3>2 DEF l
  <2>3. QED BY <1>5, <2>1, <2>2
<1>8. ASSUME NEW x \in 1 .. Len(t), NEW y \in 1 .. Len(t), x < y
      PROVE  a[x] < a[y] \/ (a[x] = a[y] /\ b[x] < b[y])
  <2> HIDE DEF a, b
  <2>1. CASE y \in 1 .. Len(s)
    <3>1. x \in 1 .. Len(s)
      BY <1>8, <1>2, <2>1
    <3>2. line[x] < line[y] \/ (line[x] = line[y] /\ place[x] < place[y])
      BY ONLY <1>1, <1>8, <2>1, <3>1 DEF IsSpread
    <3>3. a[x] = line[x] /\ a[y] = line[y] /\ b[x] = place[x] /\ b[y] = place[y]
      BY ONLY <1>5, <2>1, <3>1
    <3>4. QED BY ONLY <3>2, <3>3
  <2>2. CASE x \in 1 .. Len(s) /\ y \in Len(s) + 1 .. Len(t)
    BY <1>4, <1>5, <2>2
  <2>3. CASE x \in Len(s) + 1 .. Len(t) /\ y \in Len(s) + 1 .. Len(t)
    BY <1>2, <1>5, <1>8, <2>3
  <2>4. QED BY <1>2, <1>5, <1>8, <2>1, <2>2, <2>3
<1>9. ASSUME NEW i \in 1 .. n + 1, NEW j \in 1 .. Len(lines[i])
      PROVE  \E x \in 1 .. Len(t) : a[x] = i /\ b[x] = j
  <2> HIDE DEF a, b
  <2>1. CASE i = n + 1
    <3>1. Len(s) + j \in Len(s) + 1 .. Len(t) /\ (Len(s) + j) - Len(s) = j
          /\ Len(s) + j \in 1 .. Len(t)
      BY <1>2, <2>1 DEF l
    <3>2. QED BY <1>5, <2>1, <3>1
  <2>2. CASE i \in 1 .. n
    <3>1. PICK x \in 1 .. Len(s) : line[x] = i /\ place[x] = j
      BY <1>1, <2>2 DEF IsSpread
    <3>2. x \in 1 .. Len(t)
      BY <1>2
    <3>3. QED BY <1>5, <3>1, <3>2
  <2>3. QED BY <2>1, <2>2
<1>10. IsSpread(lines, n + 1, t, a, b)
  <2> HIDE DEF a, b
  <2>1. QED BY <1>6, <1>7, <1>8, <1>9 DEF IsSpread
<1>11. QED BY <1>10 DEF Spreads, t, l

\* Joined sequences consist of their members, in their order, and of no other.
LEMMA FlattenSpreads ==
  ASSUME NEW T, NEW lines \in Seq(Seq(T))
  PROVE  FlattenSeq(lines) \in Seq(T) /\ Spreads(lines, Len(lines), FlattenSeq(lines))
<1> DEFINE J == Joined(lines)
           n == Len(lines)
           S == {m \in Nat : m <= n => Spreads(lines, m, J[m])}
<1>1. n \in Nat /\ J \in [0 .. n -> Seq(T)] /\ J[0] = <<>>
      /\ \A i \in 1 .. n : J[i] = J[i - 1] \o lines[i]
  <2>1. n \in Nat
    OBVIOUS
  <2>2. IsJoined(T, J, lines)
    BY JoinedExists
  <2> HIDE DEF J
  <2>3. QED BY <2>1, <2>2 DEF IsJoined
<1> HIDE DEF J
<1>2. 0 \in S
  <2>1. 1 .. Len(<<>>) = {} /\ 1 .. 0 = {}
    OBVIOUS
  <2> DEFINE e == [x \in 1 .. Len(<<>>) |-> 0]
  <2>2. IsSpread(lines, 0, <<>>, e, e)
    BY <2>1 DEF IsSpread
  <2>3. Spreads(lines, 0, <<>>)
    BY <2>2 DEF Spreads
  <2>4. QED BY <1>1, <2>3
<1>3. ASSUME NEW m \in Nat, m \in S PROVE m + 1 \in S
  <2>1. SUFFICES ASSUME m + 1 <= n PROVE Spreads(lines, m + 1, J[m + 1])
    OBVIOUS
  <2>2. Spreads(lines, m, J[m])
    BY <1>1, <1>3, <2>1
  <2>3. m \in 0 .. n /\ m + 1 \in 1 .. n /\ (m + 1) - 1 = m
    BY <1>1, <2>1
  <2>4. J[m] \in Seq(T) /\ J[m + 1] = J[m] \o lines[m + 1]
    <3> HIDE DEF n
    <3>1. QED BY ONLY <1>1, <2>3
  <2>5. QED BY <2>2, <2>3, <2>4, SpreadOn
<1>4. n \in S
  <2> HIDE DEF S
  <2>1. QED BY <1>1, <1>2, <1>3, SetInduction
<1>5. FlattenSeq(lines) = J[n]
  BY WholeIsJoined DEF J
<1>6. J[n] \in Seq(T)
  BY <1>1
<1>7. QED BY <1>1, <1>4, <1>5, <1>6
==================================================================================
