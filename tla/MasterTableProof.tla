-------------------------- MODULE MasterTableProof --------------------------
(***************************************************************************)
(* Proofs about the profile table and its file, for any threads, profiles, *)
(* messages and number of kills, as long as no kill comes inside a save    *)
(* and no profile has a dot in its name.  First the text of the file is    *)
(* taken apart: what is read back from it, for names and tables of any     *)
(* size.  Then TableInv is shown to be inductive; the properties of the    *)
(* table follow.                                                           *)
(***************************************************************************)
EXTENDS MasterTable, SequenceTheorems, FiniteSetTheorems,
        WellFoundedInduction, TLAPS

-----------------------------------------------------------------------------
(* Sequences without repetitions *)

\* What Append adds to the elements.
LEMMA AppendElements ==
  ASSUME NEW S, NEW s \in Seq(S), NEW x \in S
  PROVE  ToSet(Append(s, x)) = ToSet(s) \union {x}
<1>1. /\ DOMAIN s = 1..Len(s) /\ Len(s) \in Nat
      /\ DOMAIN Append(s, x) = 1..Len(s) + 1
      /\ \A i \in 1..Len(s) : Append(s, x)[i] = s[i]
      /\ Append(s, x)[Len(s) + 1] = x
  OBVIOUS
<1>2. \A i \in 1..Len(s) + 1 : i \in 1..Len(s) \/ i = Len(s) + 1
  BY <1>1
<1>3. Len(s) + 1 \in 1..Len(s) + 1 /\ 1..Len(s) \subseteq 1..Len(s) + 1
  BY <1>1
<1> QED
  BY <1>1, <1>2, <1>3, Zenon DEF ToSet

\* A new element can be appended.
LEMMA AppendNew ==
  ASSUME NEW S, NEW s \in Seq(S), NEW x \in S,
         IsInjective(s), x \notin ToSet(s)
  PROVE  IsInjective(Append(s, x))
<1> DEFINE z == Append(s, x)
<1>1. /\ Len(s) \in Nat /\ DOMAIN s = 1..Len(s)
      /\ DOMAIN z = 1..Len(s) + 1
      /\ z[Len(s) + 1] = x
      /\ \A i \in 1..Len(s) : z[i] = s[i]
  OBVIOUS
<1>2. \A i \in 1..Len(s) : s[i] # x
  BY <1>1 DEF ToSet
<1>3. \A i, j \in 1..Len(s) : s[i] = s[j] => i = j
  BY <1>1 DEF IsInjective
<1>4. \A a, b \in 1..Len(s) + 1 : z[a] = z[b] => a = b
  <2> HIDE DEF z
  <2>1. \A i \in 1..Len(s) + 1 : i \in 1..Len(s) \/ i = Len(s) + 1
    BY <1>1
  <2> QED
    BY <1>1, <1>2, <1>3, <2>1
<1>5. \A a, b \in DOMAIN z : z[a] = z[b] => a = b
  BY <1>1, <1>4
<1>6. IsInjective(z)
  BY <1>5 DEF IsInjective
<1>7. QED
  BY <1>6

\* The first element is not in the rest.
LEMMA HeadAndTail ==
  ASSUME NEW S, NEW s \in Seq(S), s # <<>>, IsInjective(s)
  PROVE  /\ Head(s) \in ToSet(s)
         /\ ToSet(Tail(s)) = ToSet(s) \ {Head(s)}
         /\ IsInjective(Tail(s))
<1>1. /\ Len(s) \in Nat \ {0} /\ Head(s) = s[1]
      /\ DOMAIN s = 1..Len(s) /\ DOMAIN Tail(s) = 1..Len(s) - 1
      /\ \A i \in 1..Len(s) - 1 : Tail(s)[i] = s[i + 1]
  BY HeadTailProperties, EmptySeq
<1>2. \A i, j \in 1..Len(s) : s[i] = s[j] => i = j
  BY <1>1 DEF IsInjective
<1>3. Head(s) \in ToSet(s)
  BY <1>1 DEF ToSet
<1>4. IsInjective(Tail(s))
  BY <1>1, <1>2 DEF IsInjective
<1>5. ToSet(Tail(s)) \subseteq ToSet(s) \ {Head(s)}
  BY <1>1, <1>2 DEF ToSet
<1>6. ASSUME NEW x \in ToSet(s), x # Head(s)
      PROVE  x \in ToSet(Tail(s))
  <2>1. PICK i \in 1..Len(s) : x = s[i]
    BY <1>1 DEF ToSet
  <2>2. i - 1 \in 1..Len(s) - 1 /\ Tail(s)[i - 1] = x
    BY <1>1, <1>6, <2>1
  <2> QED
    BY <1>1, <2>2 DEF ToSet
<1> QED
  BY <1>3, <1>4, <1>5, <1>6

\* The empty sequence has no elements.
LEMMA NoElements == ToSet(<<>>) = {} /\ IsInjective(<<>>)
BY DEF ToSet, IsInjective

-----------------------------------------------------------------------------
(* Numbers, and what is defined along them *)

\* Of some numbers one is the least.
LEMMA Least ==
  ASSUME NEW T, T \subseteq Nat, T # {}
  PROVE  \E m \in T : \A n \in T : m <= n
<1> DEFINE R == {ss \in Nat \X Nat : ss[1] < ss[2]}
<1>1. IsWellFoundedOn(R, Nat)
  BY NatLessThanWellFounded DEF OpToRel
<1>2. \A n, m \in Nat : <<n, m>> \in R <=> n < m
  OBVIOUS
<1> HIDE DEF R
<1>3. PICK m \in T : \A n \in T : ~(<<n, m>> \in R)
  BY <1>1, WFMin
<1>4. ASSUME NEW n \in T PROVE m <= n
  <2>1. n \in Nat /\ m \in Nat
    OBVIOUS
  <2>2. ~(n < m)
    BY <1>2, <1>3, <2>1, Zenon
  <2> QED
    BY <2>1, <2>2
<1> QED
  BY <1>4

\* What holds of 0, and of n + 1 if of n, holds of all.
LEMMA SetInduction ==
  ASSUME NEW S, 0 \in S, \A n \in Nat : n \in S => n + 1 \in S
  PROVE  Nat \subseteq S
<1>1. SUFFICES ASSUME NEW k \in Nat \ S PROVE FALSE
  OBVIOUS
<1>2. PICK m \in Nat \ S : \A n \in Nat \ S : m <= n
  BY <1>1, Least
<1>3. m # 0 /\ m - 1 \in Nat /\ m - 1 \in S
  BY <1>2
<1> QED
  BY <1>2, <1>3

\* f goes on from first by the steps.
Repeats(f, first, step, n) == f[0] = first /\ \A i \in 1..n : f[i] = step[i][f[i - 1]]

\* Steps from a beginning make a function.
LEMMA Recursion ==
  ASSUME NEW V, NEW first \in V, NEW step \in [Nat -> [V -> V]], NEW n \in Nat
  PROVE  \E f \in [0..n -> V] : Repeats(f, first, step, n)
<1> DEFINE Made(m, f) == /\ f \in [0..m -> V]
                         /\ f[0] = first
                         /\ \A i \in 1..m : f[i] = step[i][f[i - 1]]
           S == {m \in Nat : \E f : Made(m, f)}
<1>1. 0 \in S
  <2>1. Made(0, [i \in 0..0 |-> first])
    OBVIOUS
  <2> QED
    BY <2>1
<1>2. ASSUME NEW m \in Nat, m \in S
      PROVE  m + 1 \in S
  <2>1. PICK f : Made(m, f)
    BY <1>2
  <2> DEFINE g == [i \in 0..m + 1 |-> IF i = m + 1 THEN step[i][f[m]] ELSE f[i]]
  <2>2. f[m] \in V /\ step[m + 1][f[m]] \in V
    BY <2>1
  <2>3. g \in [0..m + 1 -> V]
    BY <2>1, <2>2
  <2>4. g[0] = first
    BY <2>1
  <2>5. ASSUME NEW i \in 1..m + 1 PROVE g[i] = step[i][g[i - 1]]
    BY <2>1
  <2>6. Made(m + 1, g)
    <3> HIDE DEF g
    <3> QED
      BY <2>3, <2>4, <2>5
  <2> HIDE DEF g, Made
  <2>7. m + 1 \in Nat
    OBVIOUS
  <2>8. \E h : Made(m + 1, h)
    BY <2>6
  <2> QED
    BY <2>7, <2>8, Zenon
<1>3. Nat \subseteq S
  <2> HIDE DEF S
  <2> QED
    BY <1>1, <1>2, SetInduction
<1> QED
  BY <1>3 DEF Repeats

-----------------------------------------------------------------------------
(* What FlattenSeq makes of pieces *)

\* g has the texts on the way to the whole.
Glues(g, p) == g[0] = <<>> /\ \A i \in 1..Len(p) : g[i] = g[i - 1] \o p[i]

\* FlattenSeq's function exists, and so it is one.
LEMMA FlattenSteps ==
  ASSUME NEW C, NEW p \in Seq(Seq(C)), p # <<>>
  PROVE  \E g \in [0..Len(p) -> Seq(C)] : Glues(g, p) /\ FlattenSeq(p) = g[Len(p)]
<1> DEFINE V == Seq(C)
           N == Len(p)
           piece(i) == IF i \in 1..N THEN p[i] ELSE <<>>
           step == [i \in Nat |-> [x \in V |-> x \o piece(i)]]
<1>1. N \in Nat \ {0} /\ \A i \in 1..N : p[i] \in V
  OBVIOUS
<1>2. \A i \in Nat : piece(i) \in V
  BY <1>1
<1>3. step \in [Nat -> [V -> V]]
  <2> HIDE DEF piece
  <2> QED
    BY <1>2
<1> DEFINE first == <<>>
<1>4. first \in V
  OBVIOUS
<1>5. PICK g \in [0..N -> V] : Repeats(g, first, step, N)
  <2> HIDE DEF step, V, N, first
  <2>1. N \in Nat
    BY <1>1
  <2> QED
    BY <2>1, <1>3, <1>4, Recursion, Zenon
<1>6. g[0] = first /\ \A i \in 1..N : g[i] = step[i][g[i - 1]]
  BY <1>5, Zenon DEF Repeats
<1>7. ASSUME NEW i \in 1..N
      PROVE  g[i] = g[i - 1] \o p[i]
  <2>1. i - 1 \in 0..N /\ i \in Nat
    BY <1>1
  <2>2. g[i - 1] \in V
    BY <2>1
  <2>3. step[i][g[i - 1]] = g[i - 1] \o p[i]
    BY <2>1, <2>2
  <2> QED
    BY <1>6, <2>3
<1> DEFINE Is(f) == f = [i \in 1..N |-> IF i = 1 THEN p[i] ELSE f[i - 1] \o p[i]]
           made == [i \in 1..N |-> g[i]]
           flatten == CHOOSE f : Is(f)
<1>8. g[1] = p[1]
  <2>1. 1 \in 1..N /\ p[1] \in Seq(C) /\ 1 - 1 = 0
    BY <1>1
  <2>2. g[1] = <<>> \o p[1]
    BY <1>6, <1>7, <2>1
  <2> QED
    BY <2>1, <2>2, ConcatEmptySeq
<1>9. Is(made)
  <2>1. ASSUME NEW i \in 1..N
        PROVE  made[i] = IF i = 1 THEN p[i] ELSE made[i - 1] \o p[i]
    <3>1. CASE i = 1
      BY <1>1, <1>8, <3>1
    <3>2. CASE i # 1
      <4>1. i - 1 \in 1..N
        BY <1>1, <3>2
      <4> QED
        BY <1>7, <3>2, <4>1
    <3> QED
      BY <3>1, <3>2
  <2>2. made = [i \in 1..N |-> made[i]]
    OBVIOUS
  <2> HIDE DEF made
  <2> QED
    BY <2>1, <2>2
<1>10. Is(flatten)
  <2> HIDE DEF Is, made
  <2> QED
    BY <1>9, Zenon
<1>11. FlattenSeq(p) = flatten[N]
  <2>1. Len(p) # 0
    BY <1>1
  <2> QED
    BY <2>1, Zenon DEF FlattenSeq
<1> HIDE DEF flatten
<1>12. \A i \in 1..N : flatten[i] = IF i = 1 THEN p[i] ELSE flatten[i - 1] \o p[i]
  <2>1. flatten = [i \in 1..N |-> IF i = 1 THEN p[i] ELSE flatten[i - 1] \o p[i]]
    BY <1>10
  <2> QED
    BY <2>1, Zenon
<1>13. flatten[N] = g[N]
  <2> DEFINE S == {i \in Nat : i \in 1..N => flatten[i] = g[i]}
  <2>1. 0 \in S
    OBVIOUS
  <2>2. ASSUME NEW i \in Nat, i \in S PROVE i + 1 \in S
    <3> DEFINE j == i + 1
    <3>1. j \in Nat /\ j - 1 = i
      OBVIOUS
    <3> SUFFICES ASSUME j \in 1..N PROVE flatten[j] = g[j]
      BY <3>1, Zenon
    <3>2. CASE j = 1
      BY <1>8, <1>12, <3>2
    <3>3. CASE j # 1
      <4>1. i \in 1..N
        BY <1>1, <3>3
      <4>2. flatten[i] = g[i]
        BY <2>2, <4>1
      <4> HIDE DEF j
      <4>3. flatten[j] = flatten[i] \o p[j]
        BY <1>12, <3>1, <3>3, Zenon
      <4>4. g[j] = g[i] \o p[j]
        BY <1>7, <3>1, Zenon
      <4> QED
        BY <4>2, <4>3, <4>4
    <3> QED
      BY <3>2, <3>3
  <2>3. Nat \subseteq S
    <3> HIDE DEF S
    <3>1. Nat \subseteq S
      BY <2>1, <2>2, SetInduction
    <3> QED
      BY <3>1
  <2>4. N \in S
    <3> HIDE DEF S
    <3> QED
      BY <1>1, <2>3
  <2> QED
    BY <1>1, <2>4
<1>14. Glues(g, p) /\ FlattenSeq(p) = g[N]
  BY <1>6, <1>7, <1>11, <1>13 DEF Glues
<1> QED
  BY <1>14, Zenon

\* The pieces p lie in text one behind the other, with these ends.
Lie(p, end, text) ==
  /\ end[0] = 0
  /\ \A i \in 1..Len(p) : end[i] = end[i - 1] + Len(p[i])
  /\ Len(text) = end[Len(p)]
  /\ \A i \in 1..Len(p) : \A k \in 1..Len(p[i]) :
       end[i - 1] + k <= Len(text) /\ text[end[i - 1] + k] = p[i][k]

\* Each piece lies where the ones before it end.
LEMMA Flattened ==
  ASSUME NEW C, NEW p \in Seq(Seq(C))
  PROVE  /\ FlattenSeq(p) \in Seq(C)
         /\ \E end \in [0..Len(p) -> Nat] : Lie(p, end, FlattenSeq(p))
<1> DEFINE N == Len(p)
<1>1. N \in Nat /\ \A i \in 1..N : p[i] \in Seq(C)
  OBVIOUS
<1>2. CASE p = <<>>
  <2>1. FlattenSeq(p) = <<>> /\ Len(p) = 0
    BY <1>2 DEF FlattenSeq
  <2>2. Lie(p, [i \in 0..0 |-> 0], <<>>)
    BY <2>1 DEF Lie
  <2>3. [i \in 0..0 |-> 0] \in [0..0 -> Nat] /\ <<>> \in Seq(C)
    OBVIOUS
  <2> QED
    BY <2>1, <2>2, <2>3, Zenon
<1>3. CASE p # <<>>
  <2>1. PICK g \in [0..N -> Seq(C)] : Glues(g, p) /\ FlattenSeq(p) = g[N]
    BY <1>3, FlattenSteps, Zenon
  <2>2. \A i \in 1..N : g[i] = g[i - 1] \o p[i]
    BY <2>1, Zenon DEF Glues
  <2> DEFINE end == [i \in 0..N |-> Len(g[i])]
             S == {m \in Nat : m \in 0..N =>
                     \A i \in 1..m : \A k \in 1..Len(p[i]) :
                       /\ Len(g[i - 1]) + k <= Len(g[m])
                       /\ g[m][Len(g[i - 1]) + k] = p[i][k]}
  <2>3. g[0] = <<>>
    BY <2>1 DEF Glues
  <2>4. \A i \in 1..N : Len(g[i]) = Len(g[i - 1]) + Len(p[i])
    <3> SUFFICES ASSUME NEW i \in 1..N PROVE Len(g[i]) = Len(g[i - 1]) + Len(p[i])
      OBVIOUS
    <3>1. i - 1 \in 0..N
      BY <1>1
    <3>2. g[i - 1] \in Seq(C) /\ p[i] \in Seq(C)
      BY <1>1, <3>1
    <3>3. Len(g[i - 1] \o p[i]) = Len(g[i - 1]) + Len(p[i])
      BY <3>2, ConcatProperties
    <3> QED
      BY <2>2, <3>3
  <2>5. 0 \in S
    OBVIOUS
  <2>6. ASSUME NEW m \in Nat, m \in S PROVE m + 1 \in S
    <3> DEFINE n == m + 1
    <3>1. n \in Nat /\ n - 1 = m
      OBVIOUS
    <3> SUFFICES ASSUME n \in 0..N, NEW i \in 1..n, NEW k \in 1..Len(p[i])
                 PROVE  Len(g[i - 1]) + k <= Len(g[n]) /\ g[n][Len(g[i - 1]) + k] = p[i][k]
      BY <3>1
    <3> HIDE DEF n
    <3>2. /\ n \in 1..N /\ m \in 0..N /\ i \in 1..N /\ i - 1 \in 0..N
      BY <1>1, <3>1
    <3>3. g[m] \in Seq(C) /\ p[n] \in Seq(C) /\ g[i - 1] \in Seq(C) /\ p[i] \in Seq(C)
      BY <1>1, <3>2
    <3>4. g[n] = g[m] \o p[n] /\ Len(g[n]) = Len(g[m]) + Len(p[n])
      BY <2>2, <2>4, <3>1, <3>2
    <3>5. \A x \in 1..Len(g[n]) :
            g[n][x] = IF x <= Len(g[m]) THEN g[m][x] ELSE p[n][x - Len(g[m])]
      BY <3>3, <3>4, ConcatProperties
    <3>6. CASE i = n
      <4>1. g[i - 1] = g[m] /\ p[i] = p[n] /\ Len(p[n]) \in Nat /\ Len(g[m]) \in Nat
        BY <3>1, <3>3, <3>6
      <4>2. k \in 1..Len(p[n])
        BY <4>1
      <4>3. Len(g[m]) + k \in 1..Len(g[n]) /\ ~(Len(g[m]) + k <= Len(g[m]))
        <5>1. \A a, b \in Nat : \A x \in 1..b : a + x \in 1..(a + b) /\ ~(a + x <= a)
          OBVIOUS
        <5> QED
          BY <3>4, <4>2, <4>1, <5>1, Zenon
      <4>4. g[n][Len(g[m]) + k] = p[n][(Len(g[m]) + k) - Len(g[m])]
        BY <3>5, <4>3
      <4>5. (Len(g[m]) + k) - Len(g[m]) = k
        BY <4>1
      <4> QED
        BY <3>6, <4>1, <4>3, <4>4, <4>5
    <3>7. CASE i # n
      <4>1. i \in 1..m
        BY <3>1, <3>7
      <4>2. Len(g[i - 1]) + k <= Len(g[m]) /\ g[m][Len(g[i - 1]) + k] = p[i][k]
        BY <2>6, <3>2, <4>1
      <4>3. /\ Len(g[m]) \in Nat /\ Len(p[n]) \in Nat
            /\ Len(g[i - 1]) \in Nat /\ Len(p[i]) \in Nat
        BY <3>3
      <4> DEFINE x == Len(g[i - 1]) + k
      <4>4. x \in 1..Len(g[n]) /\ x <= Len(g[m]) /\ x <= Len(g[n])
        <5>1. \A a, b, c, d \in Nat : \A y \in 1..b : a + y <= c => /\ a + y \in 1..(c + d)
                                                                    /\ a + y <= c
                                                                    /\ a + y <= c + d
          OBVIOUS
        <5>2. /\ x \in 1..(Len(g[m]) + Len(p[n]))
              /\ x <= Len(g[m]) /\ x <= Len(g[m]) + Len(p[n])
          BY <4>2, <4>3, <5>1
        <5> QED
          BY <3>4, <5>2, Zenon
      <4>5. g[n][x] = g[m][x]
        BY <3>5, <4>4, Zenon
      <4> QED
        BY <4>2, <4>4, <4>5, Zenon
    <3> QED
      BY <3>6, <3>7
  <2>7. N \in S
    <3> HIDE DEF S
    <3> QED
      BY <1>1, <2>5, <2>6, SetInduction
  <2>8. end \in [0..N -> Nat]
    OBVIOUS
  <2>9. \A i \in 1..N : i \in 0..N /\ i - 1 \in 0..N
    BY <1>1
  <2>10. \A i \in 0..N : end[i] = Len(g[i])
    OBVIOUS
  <2>11. 0 \in 0..N /\ N \in 0..N
    BY <1>1
  <2>12. Lie(p, end, g[N])
    <3> HIDE DEF end
    <3>1. end[0] = 0
      BY <2>3, <2>10, <2>11
    <3>2. \A i \in 1..N : end[i] = end[i - 1] + Len(p[i])
      BY <2>4, <2>9, <2>10
    <3>3. Len(g[N]) = end[N]
      BY <2>10, <2>11
    <3>4. \A i \in 1..N : \A k \in 1..Len(p[i]) :
            end[i - 1] + k <= Len(g[N]) /\ g[N][end[i - 1] + k] = p[i][k]
      BY <2>7, <2>9, <2>10, <2>11
    <3> QED
      BY <3>1, <3>2, <3>3, <3>4 DEF Lie
  <2>13. g[N] \in Seq(C)
    BY <2>11
  <2> HIDE DEF end
  <2> QED
    BY <2>1, <2>8, <2>12, <2>13, Zenon
<1> QED
  BY <1>2, <1>3

-----------------------------------------------------------------------------
(* What strtok_r takes from a text *)

\* The least is what Min chooses.
LEMMA MinIs ==
  ASSUME NEW T, T \subseteq Nat, NEW m \in T, \A n \in T : m <= n
  PROVE  Min(T) = m
<1>1. \A k \in T : (\A n \in T : k <= n) => k = m
  OBVIOUS
<1> QED
  BY <1>1, Zenon DEF Min

\* Nothing is passed over in a text that begins with something else.
LEMMA PassedNothing ==
  ASSUME NEW C, NEW text \in Seq(C), NEW d, text # <<>> => text[1] # d
  PROVE  Passed(text, d) = text
<1> DEFINE I == {i \in 1..Len(text) : text[i] # d}
           first == IF I # {} THEN Min(I) ELSE 0
<1>1. Passed(text, d) = IF first = 0 THEN <<>> ELSE SubSeq(text, first, Len(text))
  BY DEF Passed, SelectInSeq
<1>2. CASE text = <<>>
  <2>1. I = {}
    BY <1>2
  <2> QED
    BY <1>1, <1>2, <2>1
<1>3. CASE text # <<>>
  <2>1. 1 \in I /\ I \subseteq Nat /\ \A i \in I : 1 <= i
    BY <1>3
  <2>2. Min(I) = 1
    <3> HIDE DEF I
    <3> QED
      BY <2>1, MinIs
  <2>3. SubSeq(text, 1, Len(text)) = text
    BY SubSeqFull
  <2>4. first = 1
    BY <2>1, <2>2
  <2> HIDE DEF first
  <2> QED
    BY <1>1, <2>3, <2>4
<1> QED
  BY <1>2, <1>3

\* The text up to a delimiter, or to the end, without one before it.
Ends(text, d, n) ==
  /\ n \in 1..Len(text)
  /\ \A i \in 1..n : text[i] # d
  /\ n < Len(text) => text[n + 1] = d

\* What is taken from a text that does not begin with a delimiter.
LEMMA TokenFound ==
  ASSUME NEW C, NEW text \in Seq(C), NEW d, NEW n, Ends(text, d, n)
  PROVE  /\ Token(text, d) = SubSeq(text, 1, n)
         /\ Behind(text, d) = SubSeq(text, n + 2, Len(text))
<1>1. /\ n \in 1..Len(text) /\ Len(text) \in Nat /\ \A i \in 1..n : text[i] # d
      /\ n < Len(text) => text[n + 1] = d
  BY DEF Ends
<1>2. Passed(text, d) = text
  <2>1. text[1] # d
    BY <1>1
  <2> QED
    BY <2>1, PassedNothing
<1> DEFINE z == Append(text, d)
           I == {i \in 1..Len(z) : z[i] = d}
<1>3. /\ Len(z) = Len(text) + 1 /\ z[Len(text) + 1] = d
      /\ \A i \in 1..Len(text) : z[i] = text[i]
  OBVIOUS
<1>4. TokenEnd(text, d) = IF I # {} THEN Min(I) ELSE 0
  BY <1>2 DEF TokenEnd, SelectInSeq
<1> HIDE DEF z
<1>5. n + 1 \in I
  BY <1>1, <1>3
<1>6. I \subseteq Nat /\ \A i \in I : n + 1 <= i
  BY <1>1, <1>3
<1>7. Min(I) = n + 1
  <2> HIDE DEF I
  <2> QED
    BY <1>5, <1>6, MinIs
<1>8. TokenEnd(text, d) = n + 1
  BY <1>4, <1>5, <1>7
<1> QED
  BY <1>1, <1>2, <1>8 DEF Token, Behind

\* A text that does not begin with the delimiter begins with a token.
LEMMA TokenEnds ==
  ASSUME NEW C, NEW text \in Seq(C), NEW d, text # <<>>, text[1] # d
  PROVE  \E n : Ends(text, d, n)
<1> DEFINE T == {n \in 1..Len(text) : n < Len(text) => text[n + 1] = d}
<1>1. Len(text) \in Nat \ {0}
  OBVIOUS
<1>2. T # {} /\ T \subseteq Nat
  <2>1. Len(text) \in T
    BY <1>1
  <2> QED
    BY <1>1, <2>1
<1>3. PICK n \in T : \A k \in T : n <= k
  <2> HIDE DEF T
  <2> QED
    BY <1>2, Least
<1>4. ASSUME NEW i \in 1..n
      PROVE  text[i] # d
  <2>1. CASE i = 1
    BY <2>1
  <2>2. CASE i # 1
    <3>1. i - 1 \in 1..Len(text) /\ i - 1 < Len(text) /\ i - 1 < n
      BY <1>1, <2>2
    <3>2. i - 1 \notin T
      BY <1>1, <1>3, <3>1
    <3> QED
      BY <1>1, <3>1, <3>2
  <2> QED
    BY <2>1, <2>2
<1> QED
  BY <1>3, <1>4 DEF Ends

\* Behind nothing is nothing.
LEMMA BehindNothing ==
  ASSUME NEW d
  PROVE  Passed(<<>>, d) = <<>> /\ Behind(<<>>, d) = <<>>
<1>1. Passed(<<>>, d) = <<>>
  <2>1. <<>> \in Seq({d})
    OBVIOUS
  <2> QED
    BY <2>1, PassedNothing
<1> DEFINE z == Append(<<>>, d)
           I == {i \in 1..Len(z) : z[i] = d}
<1>2. TokenEnd(<<>>, d) = IF I # {} THEN Min(I) ELSE 0
  BY <1>1 DEF TokenEnd, SelectInSeq
<1>3. I = {1}
  <2>1. Len(z) = 1 /\ z[1] = d
    OBVIOUS
  <2> HIDE DEF z
  <2> QED
    BY <2>1
<1> HIDE DEF I
<1>4. Min(I) = 1
  <2>1. I \subseteq Nat /\ 1 \in I /\ \A n \in I : 1 <= n
    BY <1>3
  <2> QED
    BY <2>1, MinIs
<1>5. TokenEnd(<<>>, d) = 1
  BY <1>2, <1>3, <1>4
<1>6. Len(<<>>) = 0 /\ SubSeq(<<>>, 2, 0) = <<>>
  BY SubSeqEmpty
<1> QED
  BY <1>1, <1>5, <1>6 DEF Behind

\* The end of the end of a text.
LEMMA EndOfEnd ==
  ASSUME NEW C, NEW text \in Seq(C), NEW a \in 0..Len(text), NEW b \in 0..Len(text) - a
  PROVE  /\ Len(SubSeq(text, a + 1, Len(text))) = Len(text) - a
         /\ SubSeq(text, a + 1, Len(text)) \in Seq(C)
         /\ \A j \in 1..Len(text) - a : SubSeq(text, a + 1, Len(text))[j] = text[a + j]
         /\ SubSeq(SubSeq(text, a + 1, Len(text)), b + 1, Len(text) - a)
              = SubSeq(text, a + b + 1, Len(text))
<1> DEFINE L == Len(text)
           s == SubSeq(text, a + 1, L)
<1>1. L \in Nat /\ a \in Nat /\ b \in Nat /\ a <= L /\ a + b <= L
  OBVIOUS
<1>2. \A i \in 1..L : text[i] \in C
  OBVIOUS
<1> HIDE DEF L
<1>3. s \in Seq(C) /\ Len(s) = L - a /\ \A j \in 1..L - a : s[j] = text[a + j]
  <2>1. a + 1 \in Int /\ L \in Int /\ \A i \in (a + 1)..L : text[i] \in C
    BY <1>1, <1>2
  <2>2. /\ s \in Seq(C)
        /\ Len(s) = IF a + 1 <= L THEN L - (a + 1) + 1 ELSE 0
        /\ \A j \in 1..L - (a + 1) + 1 : s[j] = text[(a + 1) + j - 1]
    BY <2>1, SubSeqProperties
  <2> HIDE DEF s
  <2> QED
    BY <1>1, <2>2
<1> HIDE DEF s
<1> DEFINE u == SubSeq(s, b + 1, L - a)
           v == SubSeq(text, a + b + 1, L)
<1>4. u \in Seq(C) /\ Len(u) = L - a - b /\ \A j \in 1..L - a - b : u[j] = text[a + b + j]
  <2>1. b + 1 \in Int /\ L - a \in Int /\ \A i \in (b + 1)..L - a : s[i] \in C
    BY <1>1, <1>2, <1>3
  <2>2. /\ u \in Seq(C)
        /\ Len(u) = IF b + 1 <= L - a THEN L - a - (b + 1) + 1 ELSE 0
        /\ \A j \in 1..L - a - (b + 1) + 1 : u[j] = s[(b + 1) + j - 1]
    BY <2>1, SubSeqProperties
  <2> HIDE DEF u
  <2> QED
    BY <1>1, <1>3, <2>2
<1>5. v \in Seq(C) /\ Len(v) = L - a - b /\ \A j \in 1..L - a - b : v[j] = text[a + b + j]
  <2>1. a + b + 1 \in Int /\ L \in Int /\ \A i \in (a + b + 1)..L : text[i] \in C
    BY <1>1, <1>2
  <2>2. /\ v \in Seq(C)
        /\ Len(v) = IF a + b + 1 <= L THEN L - (a + b + 1) + 1 ELSE 0
        /\ \A j \in 1..L - (a + b + 1) + 1 : v[j] = text[(a + b + 1) + j - 1]
    BY <2>1, SubSeqProperties
  <2> HIDE DEF v
  <2> QED
    BY <1>1, <2>2
<1>6. u = v
  <2> HIDE DEF u, v
  <2> QED
    BY <1>4, <1>5, SeqEqual
<1> QED
  BY <1>3, <1>6 DEF L, s

\* What s begins with is cut from it.
LEMMA BeginningIs ==
  ASSUME NEW C, NEW s, NEW x \in Seq(C), \A k \in 1..Len(x) : s[k] = x[k]
  PROVE  SubSeq(s, 1, Len(x)) = x
<1> DEFINE n == Len(x)
           u == SubSeq(s, 1, n)
<1>1. n \in Nat /\ \A k \in 1..n : x[k] \in C
  BY LenProperties, ElementOfSeq
<1> HIDE DEF n
<1>2. n \in Int /\ 1 \in Int /\ \A k \in 1..n : s[k] \in C
  BY <1>1 DEF n
<1>3. /\ u \in Seq(C)
      /\ Len(u) = IF 1 <= n THEN n - 1 + 1 ELSE 0
      /\ \A k \in 1..n - 1 + 1 : u[k] = s[1 + k - 1]
  BY <1>2, SubSeqProperties
<1> HIDE DEF u
<1>4. u \in Seq(C) /\ Len(u) = n /\ \A k \in 1..n : u[k] = s[k]
  BY <1>1, <1>3
<1>5. \A k \in 1..n : u[k] = x[k]
  BY <1>4 DEF n
<1>6. u = x
  BY <1>4, <1>5, SeqEqual DEF n
<1> QED
  BY <1>6 DEF u, n

\* y is x with d behind it.
IsClosed(y, x, d) ==
  /\ Len(y) = Len(x) + 1
  /\ y[Len(x) + 1] = d
  /\ \A k \in 1..Len(x) : y[k] = x[k]

\* Each piece with d behind it, as Line writes the followers.
Closed(q, d) == [i \in DOMAIN q |-> q[i] \o <<d>>]

\* Each closed piece, with its elements.
LEMMA ClosedPiece ==
  ASSUME NEW C, NEW d, NEW q \in Seq(Seq(C)), NEW i \in 1..Len(q)
  PROVE  /\ Closed(q, d)[i] \in Seq(C \union {d})
         /\ IsClosed(Closed(q, d)[i], q[i], d)
<1> PICK y, x, D : y = Closed(q, d)[i] /\ x = q[i] /\ D = C \union {d}
  OBVIOUS
<1> PICK n : n = Len(x)
  OBVIOUS
<1>1. i \in DOMAIN q /\ x \in Seq(C)
  OBVIOUS
<1>2. y = x \o <<d>>
  BY <1>1 DEF Closed
<1>3. x \in Seq(D) /\ <<d>> \in Seq(D) /\ Len(<<d>>) = 1 /\ <<d>>[1] = d /\ n \in Nat
  BY <1>1
<1>4. /\ y \in Seq(D) /\ Len(y) = n + 1
      /\ \A k \in 1..n + 1 : y[k] = IF k <= n THEN x[k] ELSE <<d>>[k - n]
  BY <1>2, <1>3, ConcatProperties
<1>5. y[n + 1] = d
  <2>1. n + 1 \in 1..n + 1 /\ ~(n + 1 <= n) /\ (n + 1) - n = 1
    BY <1>3
  <2>2. y[n + 1] = <<d>>[(n + 1) - n]
    BY <1>4, <2>1, Zenon
  <2> QED
    BY <1>3, <2>1, <2>2
<1>6. ASSUME NEW k \in 1..n PROVE y[k] = x[k]
  <2>1. k \in 1..n + 1 /\ k <= n
    BY <1>3
  <2> QED
    BY <1>4, <2>1, Zenon
<1>7. IsClosed(y, x, d)
  BY <1>4, <1>5, <1>6 DEF IsClosed
<1> QED
  BY <1>4, <1>7

\* The closed pieces are as many.
LEMMA ClosedPieces ==
  ASSUME NEW C, NEW d, NEW q \in Seq(Seq(C))
  PROVE  Closed(q, d) \in Seq(Seq(C \union {d})) /\ Len(Closed(q, d)) = Len(q)
<1> PICK p, D, N : p = Closed(q, d) /\ D = C \union {d} /\ N = Len(q)
  OBVIOUS
<1>1. N \in Nat /\ DOMAIN q = 1..N
  OBVIOUS
<1>2. p = [i \in 1..N |-> q[i] \o <<d>>]
  BY <1>1 DEF Closed
<1>3. \A i \in 1..N : p[i] \in Seq(D)
  BY ClosedPiece
<1>4. p \in [1..N -> Seq(D)]
  BY <1>2, <1>3
<1>5. p \in Seq(Seq(D)) /\ Len(p) = N
  <2>1. \A T : \A f \in [1..N -> T] : f \in Seq(T) /\ Len(f) = N
    BY <1>1
  <2> QED
    BY <1>4, <2>1, Zenon
<1> QED
  BY <1>5

\* A piece of n lies in the text of L behind the a-th place, and d behind it.
PieceAt(x, n, d, a, text, L) ==
  /\ x # <<>> /\ d \notin ToSet(x)
  /\ a + n + 1 <= L
  /\ \A k \in 1..n : text[a + k] = x[k]
  /\ text[a + n + 1] = d

\* strtok_r takes x from s and leaves left.
Taken(s, d, x, left) == Passed(s, d) # <<>> /\ Token(s, d) = x /\ Behind(s, d) = left

\* What is taken from a text where a piece begins that has d behind it.
LEMMA PieceFound ==
  ASSUME NEW C, NEW d, NEW x \in Seq(C), NEW text \in Seq(C),
         NEW a \in Nat, PieceAt(x, Len(x), d, a, text, Len(text))
  PROVE  Taken(SubSeq(text, a + 1, Len(text)), d, x, SubSeq(text, a + Len(x) + 2, Len(text)))
<1> PICK n, L, s : n = Len(x) /\ L = Len(text) /\ s = SubSeq(text, a + 1, L)
  OBVIOUS
<1>1. /\ x # <<>> /\ d \notin ToSet(x) /\ a + n + 1 <= L
      /\ \A k \in 1..n : text[a + k] = x[k]
      /\ text[a + n + 1] = d
  BY DEF PieceAt
<1>2. n \in Nat \ {0} /\ L \in Nat
  BY <1>1, LenProperties, EmptySeq
<1>3. \A k \in 1..n : x[k] # d
  <2>1. DOMAIN x = 1..n
    BY LenProperties
  <2> QED
    BY <1>1, <2>1, Zenon DEF ToSet
<1>4. /\ Len(s) = L - a /\ s \in Seq(C)
      /\ \A j \in 1..L - a : s[j] = text[a + j]
      /\ SubSeq(s, (n + 1) + 1, L - a) = SubSeq(text, a + (n + 1) + 1, L)
  <2>1. a \in 0..L /\ n + 1 \in 0..L - a
    BY <1>1, <1>2
  <2> QED
    BY <2>1, EndOfEnd
<1>5. SubSeq(s, n + 2, L - a) = SubSeq(text, a + n + 2, L)
  <2>1. (n + 1) + 1 = n + 2 /\ a + (n + 1) + 1 = a + n + 2
    BY <1>1, <1>2
  <2> QED
    BY <1>4, <2>1, Zenon
<1>6. \A k \in 1..n : s[k] = x[k]
  BY <1>1, <1>2, <1>4
<1>7. Ends(s, d, n)
  <2>1. n \in 1..Len(s) /\ n + 1 \in 1..L - a
    BY <1>1, <1>2, <1>4
  <2>2. s[n + 1] = d
    <3>1. a + (n + 1) = a + n + 1
      BY <1>2
    <3>2. s[n + 1] = text[a + (n + 1)]
      BY <1>4, <2>1, Zenon
    <3> QED
      BY <1>1, <3>1, <3>2
  <2>3. \A i \in 1..n : s[i] # d
    BY <1>3, <1>6
  <2> QED
    BY <2>1, <2>2, <2>3, Zenon DEF Ends
<1>8. Token(s, d) = SubSeq(s, 1, n) /\ Behind(s, d) = SubSeq(s, n + 2, Len(s))
  <2>1. s \in Seq(C)
    BY <1>4
  <2> QED
    BY <1>7, <2>1, TokenFound, Zenon
<1>9. SubSeq(s, 1, n) = x
  BY <1>6, BeginningIs
<1>10. Passed(s, d) = s /\ s # <<>>
  <2>1. s[1] # d /\ Len(s) # 0
    BY <1>1, <1>2, <1>3, <1>4, <1>6
  <2>2. s # <<>>
    BY <2>1, EmptySeq
  <2> QED
    BY <1>4, <2>1, <2>2, PassedNothing
<1> QED
  BY <1>4, <1>8, <1>9, <1>10, <1>5, Zenon DEF Taken

\* A text of pieces with d behind each is taken apart into them.
LEMMA PiecesFound ==
  ASSUME NEW C, NEW d, NEW q \in Seq(Seq(C)), NEW N, N = Len(q),
         \A i \in 1..N : q[i] # <<>> /\ d \notin ToSet(q[i]),
         NEW text \in Seq(C \union {d}), NEW L, L = Len(text),
         NEW end \in [0..N -> Nat], Lie(Closed(q, d), end, text)
  PROVE  TokensOf(text, d) = q
<1> DEFINE D == C \union {d}
           ahead(k) == IF k <= N THEN SubSeq(text, end[k] + 1, L) ELSE <<>>
<1>1. N \in Nat /\ L \in Nat /\ q = [i \in 1..N |-> q[i]]
  BY LenProperties
<1>2. \A i \in 1..N : q[i] \in Seq(C) /\ q[i] \in Seq(D) /\ Len(q[i]) \in Nat
  OBVIOUS
<1>3. end[0] = 0 /\ end[N] = L /\ \A i \in 0..N : end[i] \in Nat
  <2>1. Len(Closed(q, d)) = N
    BY ClosedPieces
  <2> QED
    BY <1>1, <2>1 DEF Lie
<1>4. ASSUME NEW i \in 1..N
      PROVE  /\ end[i] = end[i - 1] + Len(q[i]) + 1
             /\ end[i] <= L
             /\ text[end[i - 1] + Len(q[i]) + 1] = d
             /\ \A k \in 1..Len(q[i]) : text[end[i - 1] + k] = q[i][k]
  <2> DEFINE n == Len(q[i])
             a == end[i - 1]
             p == Closed(q, d)
  <2>1. n \in Nat /\ a \in Nat
    BY <1>1, <1>2, <1>3
  <2>2. Len(p) = N
    BY ClosedPieces
  <2>3. /\ Len(p[i]) = n + 1 /\ p[i][n + 1] = d
        /\ \A k \in 1..n : p[i][k] = q[i][k]
    <3>1. i \in 1..Len(q) /\ q \in Seq(Seq(C))
      OBVIOUS
    <3>2. IsClosed(Closed(q, d)[i], q[i], d)
      BY <3>1, ClosedPiece, Zenon
    <3> QED
      BY <3>2, Zenon DEF IsClosed
  <2> HIDE DEF n, a, p
  <2>4. /\ Len(p) = N /\ Len(p[i]) = n + 1 /\ p[i][n + 1] = d
        /\ \A k \in 1..n : p[i][k] = q[i][k]
    BY <2>2, <2>3, Zenon
  <2>5. /\ end[i] = a + Len(p[i])
        /\ \A k \in 1..Len(p[i]) : a + k <= L /\ text[a + k] = p[i][k]
    BY <2>4, Zenon DEF Lie, p, a
  <2> HIDE DEF n, a
  <2>6. n + 1 \in 1..n + 1 /\ 1..n \subseteq 1..n + 1 /\ a + (n + 1) = a + n + 1
    BY <2>1
  <2>7. end[i] = a + n + 1
    BY <2>4, <2>5, <2>6
  <2>8. a + (n + 1) <= L /\ text[a + (n + 1)] = d
    BY <2>4, <2>5, <2>6
  <2>9. \A k \in 1..n : text[a + k] = q[i][k]
    BY <2>4, <2>5, <2>6
  <2> QED
    BY <2>6, <2>7, <2>8, <2>9, Zenon DEF n, a
<1>5. ASSUME NEW i \in 1..N
      PROVE  /\ Passed(ahead(i - 1), d) # <<>>
             /\ Token(ahead(i - 1), d) = q[i]
             /\ Behind(ahead(i - 1), d) = ahead(i)
  <2> DEFINE n == Len(q[i])
             a == end[i - 1]
             s == SubSeq(text, a + 1, L)
  <2>1. n \in Nat /\ a \in Nat /\ q[i] \in Seq(D) /\ text \in Seq(D)
    BY <1>1, <1>2, <1>3
  <2>2. q[i] # <<>> /\ d \notin ToSet(q[i])
    OBVIOUS
  <2>3. end[i] = a + n + 1 /\ end[i] + 1 = a + n + 2 /\ a + n + 1 <= L
    BY <1>4, <2>1
  <2>4. text[a + n + 1] = d /\ \A k \in 1..n : text[a + k] = q[i][k]
    BY <1>4, Zenon
  <2>5. ahead(i - 1) = s /\ ahead(i) = SubSeq(text, end[i] + 1, L)
    <3>1. i - 1 <= N /\ i <= N
      BY <1>1
    <3> QED
      BY <3>1, Zenon
  <2> HIDE DEF n, a, s, D, ahead
  <2>6. n = Len(q[i]) /\ s = SubSeq(text, a + 1, L)
    BY DEF n, s
  <2>7. /\ Passed(s, d) # <<>>
        /\ Token(s, d) = q[i]
        /\ Behind(s, d) = SubSeq(text, a + n + 2, L)
    <3>1. PieceAt(q[i], n, d, a, text, L)
      BY <2>2, <2>3, <2>4, Zenon DEF PieceAt
    <3>2. PieceAt(q[i], Len(q[i]), d, a, text, Len(text))
      BY <2>6, <3>1
    <3>3. Taken(SubSeq(text, a + 1, Len(text)), d, q[i],
                SubSeq(text, a + Len(q[i]) + 2, Len(text)))
      BY <2>1, <3>2, PieceFound, Zenon
    <3> QED
      BY <2>6, <3>3, Zenon DEF Taken
  <2> QED
    BY <2>3, <2>5, <2>7, Zenon
<1>6. \A k \in Nat : k >= N => ahead(k) = <<>>
  <2>1. SubSeq(text, L + 1, L) = <<>>
    BY <1>1, SubSeqEmpty
  <2> QED
    BY <1>1, <1>3, <2>1
<1>7. ahead(0) = text
  <2>1. SubSeq(text, 1, L) = text
    BY SubSeqFull
  <2> QED
    BY <1>1, <1>3, <2>1
<1>8. N <= L
  <2> DEFINE S == {i \in Nat : i <= N => i <= end[i]}
  <2>1. 0 \in S
    BY <1>3
  <2>2. ASSUME NEW i \in Nat, i \in S PROVE i + 1 \in S
    <3> DEFINE j == i + 1
    <3>1. j \in Nat /\ j - 1 = i
      OBVIOUS
    <3> SUFFICES ASSUME j <= N PROVE j <= end[j]
      BY <3>1
    <3>2. j \in 1..N /\ i <= N /\ i \in 0..N
      BY <1>1
    <3>3. i <= end[i] /\ end[i] \in Nat /\ Len(q[j]) \in Nat
      BY <1>2, <1>3, <2>2, <3>2
    <3> HIDE DEF j
    <3>4. end[j] = end[i] + Len(q[j]) + 1
      BY <1>4, <3>1, <3>2
    <3> QED
      BY <3>3, <3>4 DEF j
  <2>3. N \in S
    <3> HIDE DEF S
    <3> QED
      BY <1>1, <2>1, <2>2, SetInduction
  <2> QED
    BY <1>1, <1>3, <2>3
<1> HIDE DEF ahead
<1>9. \A k \in Nat : Behind(ahead(k), d) = ahead(k + 1)
  <2> SUFFICES ASSUME NEW k \in Nat PROVE Behind(ahead(k), d) = ahead(k + 1)
    OBVIOUS
  <2>1. CASE k < N
    <3>1. k + 1 \in 1..N /\ (k + 1) - 1 = k
      BY <1>1, <2>1
    <3> QED
      BY <1>5, <3>1, Zenon
  <2>2. CASE k >= N
    BY <1>1, <1>6, <2>2, BehindNothing
  <2>3. k < N \/ k >= N
    BY <1>1
  <2> QED
    BY <2>1, <2>2, <2>3, Zenon
<1> DEFINE Is(f) == f = [k \in 0..Len(text) |-> IF k = 0 THEN text ELSE Behind(f[k - 1], d)]
           made == [k \in 0..Len(text) |-> ahead(k)]
           left == CHOOSE f : Is(f)
<1>10. Is(made)
  <2>1. ASSUME NEW k \in 0..L
        PROVE  made[k] = IF k = 0 THEN text ELSE Behind(made[k - 1], d)
    <3>1. CASE k = 0
      BY <1>7, <3>1
    <3>2. CASE k # 0
      <4> DEFINE j == k - 1
      <4>1. j \in Nat /\ j \in 0..L /\ j + 1 = k
        BY <1>1, <3>2
      <4>2. made[j] = ahead(j) /\ made[k] = ahead(k)
        BY <4>1
      <4> HIDE DEF j, made
      <4>3. Behind(ahead(j), d) = ahead(k)
        BY <1>9, <4>1, Zenon
      <4> QED
        BY <3>2, <4>2, <4>3, Zenon DEF j
    <3> QED
      BY <3>1, <3>2
  <2>2. made = [k \in 0..Len(text) |-> made[k]]
    OBVIOUS
  <2> HIDE DEF made
  <2> QED
    BY <2>1, <2>2
<1>11. Is(left)
  <2> HIDE DEF Is, made
  <2> QED
    BY <1>10, Zenon
<1> DEFINE calls == {k \in 1..Len(text) : Passed(left[k - 1], d) # <<>>}
<1>12. TokensOf(text, d) = [k \in calls |-> Token(left[k - 1], d)]
  BY Zenon DEF TokensOf
<1> HIDE DEF left
<1>13. \A k \in 0..L : left[k] = IF k = 0 THEN text ELSE Behind(left[k - 1], d)
  <2>1. left = [k \in 0..Len(text) |-> IF k = 0 THEN text ELSE Behind(left[k - 1], d)]
    BY <1>11
  <2> QED
    BY <2>1, Zenon
<1>14. \A k \in 0..L : left[k] = ahead(k)
  <2> DEFINE S == {k \in Nat : k \in 0..L => left[k] = ahead(k)}
  <2>1. 0 \in S
    BY <1>7, <1>13
  <2>2. ASSUME NEW k \in Nat, k \in S PROVE k + 1 \in S
    <3> DEFINE j == k + 1
    <3>1. j \in Nat /\ j - 1 = k /\ j # 0
      OBVIOUS
    <3> SUFFICES ASSUME j \in 0..L PROVE left[j] = ahead(j)
      BY <3>1
    <3>2. left[k] = ahead(k)
      BY <1>1, <2>2
    <3>3. Behind(ahead(k), d) = ahead(j)
      BY <1>9
    <3> HIDE DEF j
    <3>4. left[j] = Behind(left[k], d)
      BY <1>13, <3>1, Zenon
    <3> QED
      BY <3>2, <3>3, <3>4, Zenon
  <2>3. \A k \in 0..L : k \in S
    <3> HIDE DEF S
    <3>1. Nat \subseteq S
      BY <2>1, <2>2, SetInduction
    <3> QED
      BY <3>1
  <2> QED
    BY <2>3
<1>15. \A k \in 1..L : left[k - 1] = ahead(k - 1)
  <2>1. \A k \in 1..L : k - 1 \in 0..L
    BY <1>1
  <2> QED
    BY <1>14, <2>1, Zenon
<1>16. calls = 1..N
  <2>1. ASSUME NEW k \in 1..N PROVE k \in calls
    <3>1. k \in 1..L
      BY <1>1, <1>8
    <3> QED
      BY <1>5, <1>15, <3>1, Zenon
  <2>2. ASSUME NEW k \in calls PROVE k \in 1..N
    <3>1. k \in 1..L /\ Passed(ahead(k - 1), d) # <<>>
      BY <1>15
    <3>2. k - 1 \in Nat
      BY <1>1, <3>1
    <3>3. ahead(k - 1) # <<>>
      BY <3>1, BehindNothing, Zenon
    <3>4. ~(k - 1 >= N)
      BY <1>6, <3>2, <3>3, Zenon
    <3> QED
      BY <1>1, <3>1, <3>4
  <2> HIDE DEF calls
  <2> QED
    BY <2>1, <2>2
<1> HIDE DEF calls
<1>17. \A k \in 1..N : Token(left[k - 1], d) = q[k]
  <2>1. \A k \in 1..N : k \in 1..L
    BY <1>1, <1>8
  <2> QED
    BY <1>5, <1>15, <2>1, Zenon
<1>18. [k \in calls |-> Token(left[k - 1], d)] = [k \in 1..N |-> q[k]]
  BY <1>16, <1>17, Zenon
<1> QED
  BY <1>1, <1>12, <1>18, Zenon

\* The followers in a line are read as they were written.
LEMMA TokensFound ==
  ASSUME NEW C, NEW d, NEW q \in Seq(Seq(C)),
         \A i \in 1..Len(q) : q[i] # <<>> /\ d \notin ToSet(q[i])
  PROVE  /\ FlattenSeq(Closed(q, d)) \in Seq(C \union {d})
         /\ TokensOf(FlattenSeq(Closed(q, d)), d) = q
<1> DEFINE D == C \union {d}
<1>1. Closed(q, d) \in Seq(Seq(D)) /\ Len(Closed(q, d)) = Len(q)
  BY ClosedPieces
<1> HIDE DEF D
<1>2. PICK text : text = FlattenSeq(Closed(q, d))
  OBVIOUS
<1>3. text \in Seq(D)
  BY <1>1, <1>2, Flattened, Zenon
<1>4. PICK end \in [0..Len(q) -> Nat] : Lie(Closed(q, d), end, text)
  BY <1>1, <1>2, Flattened, Zenon
<1>5. TokensOf(text, d) = q
  BY <1>3, <1>4, PiecesFound, Zenon DEF D
<1> QED
  BY <1>2, <1>3, <1>5, Zenon DEF D

-----------------------------------------------------------------------------
(* A line *)

\* The elements of what is written, a delimiter behind it, and more.
LEMMA Written ==
  ASSUME NEW C, NEW w \in Seq(C), NEW d \in C, NEW r \in Seq(C),
         NEW line, line = w \o <<d>> \o r
  PROVE  /\ line \in Seq(C) /\ Len(line) = Len(w) + 1 + Len(r)
         /\ \A j \in 1..Len(w) : line[j] = w[j]
         /\ line[Len(w) + 1] = d
         /\ \A j \in 1..Len(r) : line[Len(w) + 1 + j] = r[j]
<1> PICK head : head = w \o <<d>>
  OBVIOUS
<1> PICK n, m : n = Len(w) /\ m = Len(r)
  OBVIOUS
<1>1. n \in Nat /\ m \in Nat /\ <<d>> \in Seq(C) /\ Len(<<d>>) = 1 /\ <<d>>[1] = d
  BY LenProperties
<1>2. /\ head \in Seq(C) /\ Len(head) = n + 1
      /\ \A j \in 1..n + 1 : head[j] = IF j <= n THEN w[j] ELSE <<d>>[j - n]
  BY <1>1, ConcatProperties
<1>3. head[n + 1] = d /\ \A j \in 1..n : head[j] = w[j]
  BY <1>1, <1>2
<1>4. line = head \o r
  OBVIOUS
<1>5. /\ line \in Seq(C) /\ Len(line) = n + 1 + m
      /\ \A j \in 1..n + 1 + m : line[j] = IF j <= n + 1 THEN head[j] ELSE r[j - (n + 1)]
  BY <1>1, <1>2, <1>4, ConcatProperties
<1>6. \A j \in 1..n : line[j] = w[j]
  BY <1>1, <1>3, <1>5
<1>7. line[n + 1] = d
  BY <1>1, <1>3, <1>5
<1>8. \A j \in 1..m : line[n + 1 + j] = r[j]
  BY <1>1, <1>5
<1> QED
  BY <1>5, <1>6, <1>7, <1>8

\* The first k of w, up to a d or to the end of w.
CutAt(w, d, k) ==
  /\ k \in 1..Len(w)
  /\ \A i \in 1..k : w[i] # d
  /\ k < Len(w) => w[k + 1] = d

\* What is read up to the first d, and what is behind it if w has none.
FirstWord(line, d, w, r) ==
  /\ \E k : CutAt(w, d, k) /\ Token(line, d) = SubSeq(w, 1, k)
  /\ d \notin ToSet(w) => Token(line, d) = w /\ Behind(line, d) = r

\* The word that a text begins with, with a d behind it.
LEMMA WordFound ==
  ASSUME NEW C, NEW w \in Seq(C), NEW d \in C, NEW r \in Seq(C),
         w # <<>>, w[1] # d
  PROVE  FirstWord(w \o <<d>> \o r, d, w, r)
<1> PICK line, n, m : line = w \o <<d>> \o r /\ n = Len(w) /\ m = Len(r)
  OBVIOUS
<1>1. n \in Nat \ {0} /\ m \in Nat
  BY LenProperties, EmptySeq
<1>2. /\ line \in Seq(C) /\ Len(line) = n + 1 + m
      /\ \A j \in 1..n : line[j] = w[j]
      /\ line[n + 1] = d
      /\ \A j \in 1..m : line[n + 1 + j] = r[j]
  BY Written
<1>3. line # <<>> /\ line[1] # d
  BY <1>1, <1>2
<1>4. PICK k : Ends(line, d, k)
  BY <1>2, <1>3, TokenEnds, Zenon
<1>5. /\ k \in 1..n
      /\ \A i \in 1..k : w[i] # d
      /\ k < n => w[k + 1] = d
  <2>1. /\ k \in 1..n + 1 + m
        /\ \A i \in 1..k : line[i] # d
        /\ k < n + 1 + m => line[k + 1] = d
    BY <1>2, <1>4 DEF Ends
  <2>2. ~(n + 1 \in 1..k)
    BY <1>2, <2>1
  <2>3. k \in 1..n
    BY <1>1, <2>1, <2>2
  <2>4. k < n => w[k + 1] = d
    BY <1>1, <1>2, <2>1, <2>3
  <2>5. \A i \in 1..k : w[i] # d
    BY <1>1, <1>2, <2>1, <2>3
  <2> QED
    BY <2>3, <2>4, <2>5
<1>6. Token(line, d) = SubSeq(line, 1, k) /\ Behind(line, d) = SubSeq(line, k + 2, n + 1 + m)
  <2>1. line \in Seq(C) /\ Len(line) = n + 1 + m
    BY <1>2
  <2>2. Token(line, d) = SubSeq(line, 1, k) /\ Behind(line, d) = SubSeq(line, k + 2, Len(line))
    BY <1>4, <2>1, TokenFound, Zenon
  <2> QED
    BY <2>1, <2>2, Zenon
<1>7. SubSeq(line, 1, k) = SubSeq(w, 1, k)
  <2> PICK x : x = SubSeq(w, 1, k)
    OBVIOUS
  <2>1. x \in Seq(C) /\ Len(x) = k /\ \A j \in 1..k : x[j] = w[j]
    <3>1. \A i \in 1..n : w[i] \in C
      BY ElementOfSeq
    <3>2. \A i \in 1..k : w[i] \in C
      BY <1>1, <1>5, <3>1
    <3>3. /\ x \in Seq(C) /\ Len(x) = IF 1 <= k THEN k - 1 + 1 ELSE 0
          /\ \A i \in 1..k - 1 + 1 : x[i] = w[1 + i - 1]
      BY <1>1, <1>5, <3>2, SubSeqProperties
    <3> QED
      BY <1>1, <1>5, <3>3
  <2>2. \A j \in 1..k : line[j] = x[j]
    BY <1>1, <1>2, <1>5, <2>1
  <2>3. SubSeq(line, 1, Len(x)) = x
    <3>1. \A j \in 1..Len(x) : line[j] = x[j]
      BY <2>1, <2>2
    <3> QED
      BY <2>1, <3>1, BeginningIs, Zenon
  <2> QED
    BY <2>1, <2>3
<1>8. CutAt(w, d, k)
  BY <1>5 DEF CutAt
<1>9. ASSUME d \notin ToSet(w)
      PROVE  Token(line, d) = w /\ Behind(line, d) = r
  <2>1. \A i \in 1..n : w[i] # d
    <3>1. DOMAIN w = 1..n
      BY LenProperties
    <3> QED
      BY <1>9, <3>1, Zenon DEF ToSet
  <2>2. k = n
    BY <1>1, <1>5, <2>1
  <2>3. SubSeq(w, 1, n) = w
    BY SubSeqFull
  <2> PICK s : s = SubSeq(line, (n + 1) + 1, Len(line))
    OBVIOUS
  <2>4. n + 1 \in 0..Len(line) /\ 0 \in 0..Len(line) - (n + 1) /\ Len(line) - (n + 1) = m
    BY <1>1, <1>2
  <2>5. s \in Seq(C) /\ Len(s) = m /\ \A j \in 1..m : s[j] = line[(n + 1) + j]
    BY <1>2, <2>4, EndOfEnd
  <2>6. s = r
    <3>1. \A j \in 1..m : s[j] = r[j]
      BY <1>1, <1>2, <2>5
    <3> QED
      BY <2>5, <3>1, SeqEqual
  <2>7. (n + 1) + 1 = n + 2
    BY <1>1
  <2>8. Behind(line, d) = r
    BY <1>2, <1>6, <2>2, <2>6, <2>7, Zenon
  <2>9. Token(line, d) = w
    BY <1>6, <1>7, <2>2, <2>3, Zenon
  <2> QED
    BY <2>8, <2>9
<1>10. Token(line, d) = SubSeq(w, 1, k)
  BY <1>6, <1>7, Zenon
<1> QED
  BY <1>8, <1>9, <1>10, Zenon DEF FirstWord

-----------------------------------------------------------------------------
(* The file *)

\* A profile's name is a text, is not empty and holds no comma.
LEMMA ProfileNames ==
  ASSUME NEW n \in Profiles
  PROVE  /\ n \in Seq(Characters) /\ n \in Texts
         /\ n # <<>>
         /\ Comma \notin ToSet(n)
<1>1. n \in Seq(Characters) /\ n # <<>> /\ Comma \notin Characters
  BY TableAssumption, TextAssumption
<1>2. ToSet(n) \subseteq Characters
  <2>1. \A i \in DOMAIN n : n[i] \in Characters
    BY <1>1
  <2> QED
    BY <2>1 DEF ToSet
<1>3. n \in Texts
  BY <1>1 DEF Texts
<1> QED
  BY <1>1, <1>2, <1>3

\* What is behind the dot of a line are the followers.
LEMMA LineWritten ==
  ASSUME NEW n \in Profiles, NEW q \in Seq(Profiles)
  PROVE  \E r \in Texts : /\ Line(n, q) = n \o <<Dot>> \o r
                          /\ TokensOf(r, Comma) = q
<1>1. DOMAIN q = 1..Len(q) /\ Len(q) \in Nat /\ \A i \in 1..Len(q) : q[i] \in Profiles
  BY LenProperties, ElementOfSeq
<1>2. q \in Seq(Seq(Characters))
  <2>1. Profiles \subseteq Seq(Characters)
    BY TableAssumption
  <2> QED
    BY <1>1, <2>1
<1>3. \A i \in 1..Len(q) : q[i] # <<>> /\ Comma \notin ToSet(q[i])
  BY <1>1, ProfileNames
<1> PICK r : r = FlattenSeq(Closed(q, Comma))
  OBVIOUS
<1>4. r \in Texts /\ TokensOf(r, Comma) = q
  BY <1>2, <1>3, TokensFound DEF Texts
<1>5. Line(n, q) = n \o <<Dot>> \o r
  BY DEF Line, Closed
<1> QED
  BY <1>4, <1>5, Zenon

\* A name without a dot is read back, with its followers.
LEMMA LineRead ==
  ASSUME PlainNames, NEW n \in Profiles, NEW q \in Seq(Profiles)
  PROVE  /\ Line(n, q) \in Texts
         /\ NameRead(Line(n, q)) = n
         /\ FollowersRead(Line(n, q)) = q
<1>1. Dot \notin ToSet(n)
  BY DEF PlainNames
<1>2. Dot \in Characters \union {Comma} /\ n \in Texts /\ n # <<>>
  BY ProfileNames, TextAssumption
<1>3. n[1] # Dot
  <2>1. 1 \in DOMAIN n
    BY <1>2, EmptySeq, LenProperties DEF Texts
  <2> QED
    BY <1>1, <2>1 DEF ToSet
<1>4. PICK r \in Texts : Line(n, q) = n \o <<Dot>> \o r /\ TokensOf(r, Comma) = q
  BY LineWritten
<1> PICK line : line = Line(n, q)
  OBVIOUS
<1>5. line = n \o <<Dot>> \o r
  BY <1>4
<1>6. FirstWord(n \o <<Dot>> \o r, Dot, n, r)
  BY <1>2, <1>3, WordFound, Zenon DEF Texts
<1>7. Token(line, Dot) = n /\ Behind(line, Dot) = r
  <2>1. FirstWord(line, Dot, n, r)
    BY <1>5, <1>6
  <2> QED
    BY <1>1, <2>1, Zenon DEF FirstWord
<1>8. line \in Texts
  <2> PICK C : C = Characters \union {Comma}
    OBVIOUS
  <2>1. n \in Seq(C) /\ r \in Seq(C) /\ Dot \in C
    BY <1>2 DEF Texts
  <2>2. line \in Seq(C)
    BY <1>5, <2>1, Written
  <2> QED
    BY <2>2 DEF Texts
<1> QED
  BY <1>4, <1>7, <1>8 DEF NameRead, FollowersRead

\* A table is read back from its lines.
LEMMA LinesRead ==
  ASSUME PlainNames, NEW tb, OfProfiles(tb)
  PROVE  IsFile(Lines(tb)) /\ Read(Lines(tb)) = tb
<1> PICK lines : lines = Lines(tb)
  OBVIOUS
<1>1. DOMAIN tb \subseteq Profiles /\ tb = [n \in DOMAIN tb |-> tb[n]]
  BY DEF OfProfiles
<1>2. lines = [n \in DOMAIN tb |-> Line(n, tb[n])]
  BY DEF Lines
<1>3. \A n \in DOMAIN tb : /\ lines[n] \in Texts
                           /\ NameRead(lines[n]) = n
                           /\ FollowersRead(lines[n]) = tb[n]
  <2>1. ASSUME NEW n \in DOMAIN tb
        PROVE  /\ Line(n, tb[n]) \in Texts
               /\ NameRead(Line(n, tb[n])) = n
               /\ FollowersRead(Line(n, tb[n])) = tb[n]
    <3>1. n \in Profiles /\ tb[n] \in Seq(Profiles)
      BY DEF OfProfiles
    <3> QED
      BY <3>1, LineRead
  <2> QED
    BY <1>2, <2>1
<1>4. IsFile(lines)
  <2>1. DOMAIN tb \subseteq Texts
    BY <1>1, ProfileNames
  <2> QED
    BY <1>2, <1>3, <2>1 DEF IsFile
<1> DEFINE under(name) == {n \in DOMAIN tb : NameRead(lines[n]) = name}
<1>5. ASSUME NEW name \in DOMAIN tb
      PROVE  FirstOf(under(name)) = name
  <2>1. under(name) = {name}
    BY <1>3
  <2>2. FirstOf({name}) = name
    BY DEF FirstOf
  <2> QED
    BY <2>1, <2>2
<1>6. {NameRead(lines[n]) : n \in DOMAIN tb} = DOMAIN tb
  BY <1>3
<1>7. Read(lines) = [name \in DOMAIN tb |-> FollowersRead(lines[FirstOf(under(name))])]
  <2>1. DOMAIN lines = DOMAIN tb
    BY <1>2
  <2> QED
    BY <1>6, <2>1 DEF Read, RowsRead
<1> HIDE DEF under
<1>8. Read(lines) = [name \in DOMAIN tb |-> tb[name]]
  BY <1>3, <1>5, <1>7
<1> QED
  BY <1>1, <1>4, <1>8

\* Nothing is read from an empty file.
LEMMA NothingRead == Read(Nothing) = Nothing
<1>1. DOMAIN Nothing = {}
  BY DEF Nothing
<1>2. {NameRead(Nothing[n]) : n \in {}} = {}
  OBVIOUS
<1> QED
  BY <1>1, <1>2 DEF Read, RowsRead, Nothing

-----------------------------------------------------------------------------
(* The initial state *)

LEMMA InitTableInv == Init => TableInv
<1> SUFFICES ASSUME Init PROVE TableInv
  OBVIOUS
<1> USE TableAssumption DEF Init, ForAll, Nothing
<1>1. TypeOK
  BY DEF TypeOK, IsTable, IsFile
<1>2. WriterInv /\ UserInv /\ PendingInv /\ WalkInv
  BY DEF WriterInv, UserInv, PendingInv, WalkInv
<1>3. FileInv
  <2>1. WholeTable(Nothing)
    BY DEF WholeTable, OfProfiles
  <2> QED
    BY <2>1, NothingRead DEF FileInv, FileReadsBack
<1>4. SentInv /\ OncePerFollower /\ ReachesFollowers
  BY DEF SentInv, OncePerFollower, ReachesFollowers
<1> QED
  BY <1>1, <1>2, <1>3, <1>4 DEF TableInv

-----------------------------------------------------------------------------
(* Types *)

\* Lines of a table, the last one cut, are lines of a file.
LEMMA CutLines ==
  ASSUME NEW lines, IsFile(lines), NEW kept \in SUBSET DOMAIN lines, NEW name \in kept,
         NEW k \in 1..Len(lines[name]),
         NEW cut, cut = [n \in kept |-> IF n = name THEN SubSeq(lines[n], 1, k) ELSE lines[n]]
  PROVE  IsFile(cut)
<1>1. name \in DOMAIN lines
  OBVIOUS
<1>2. lines[name] \in Texts /\ \A n \in kept : n \in Texts /\ lines[n] \in Texts
  BY <1>1 DEF IsFile
<1>3. SubSeq(lines[name], 1, k) \in Texts
  <2> PICK w : w = lines[name]
    OBVIOUS
  <2>1. w \in Texts /\ k \in 1..Len(w)
    BY <1>2
  <2> QED
    BY <2>1, SubSeqProperties, ElementOfSeq DEF Texts
<1> QED
  BY <1>2, <1>3 DEF IsFile

\* A table of the users' names is a table, and they are texts.
LEMMA ProfileTables ==
  ASSUME NEW tb, OfProfiles(tb)
  PROVE  IsTable(tb)
<1>1. Profiles \subseteq Texts
  BY ProfileNames
<1>2. ASSUME NEW n \in DOMAIN tb PROVE tb[n] \in Seq(Texts)
  <2>1. tb[n] \in Seq(Profiles)
    BY DEF OfProfiles
  <2> QED
    BY <1>1, <2>1
<1> QED
  BY <1>1, <1>2 DEF OfProfiles, IsTable

\* Each step keeps the types; that what is answered is a profile, and what is
\* sent to the followers a message, is in the other parts of TableInv, and so
\* is what a file can be read as.
LEMMA NextTypeOK ==
  ASSUME KillInSave = FALSE, PlainNames
  PROVE  TableInv /\ [Next]_vars => TypeOK'
<1> SUFFICES ASSUME TypeOK, UserInv, FileInv, PendingInv, WalkInv, WriterInv, [Next]_vars
             PROVE  TypeOK'
  BY DEF TableInv
<1> USE TableAssumption DEF Goto, ForAll
<1> DEFINE Unchanged == IsTable(table)' /\ IsFile(file)' /\ inbox' \in [DOMAIN table' -> Seq(Messages)]
<1>0. UNCHANGED <<table, inbox, file>> => Unchanged
  BY DEF TypeOK, IsTable, IsFile
<1>1. CASE UNCHANGED vars
  <2>1. Unchanged
    BY <1>0, <1>1 DEF vars, memory
  <2> QED
    BY <1>1, <2>1 DEF TypeOK, vars, memory
<1>2. ASSUME NEW t \in Threads, NEW name \in Profiles, AddUser(t, name)
      PROVE  TypeOK'
  <2>1. name \in Texts
    BY ProfileNames
  <2>2. Unchanged
    <3>1. CASE table' = WithRow(table, name) /\ inbox' = WithRow(inbox, name)
      <4>1. file' = file
        BY <1>2 DEF AddUser
      <4>2. DOMAIN inbox = DOMAIN table
        BY DEF TypeOK
      <4>3. IsTable(table)'
        BY <2>1, <3>1 DEF TypeOK, IsTable, WithRow
      <4>4. inbox' \in [DOMAIN table' -> Seq(Messages)]
        BY <3>1, <4>2 DEF TypeOK, WithRow
      <4> QED
        BY <4>1, <4>3, <4>4 DEF TypeOK, IsFile
    <3> QED
      BY <1>0, <1>2, <3>1 DEF AddUser
  <2> QED
    BY <1>2, <2>1, <2>2 DEF AddUser, TypeOK
<1>3. ASSUME NEW t \in Threads, NEW name \in DOMAIN table, followUser(t, name)
      PROVE  TypeOK'
  <2>1. name \in Texts /\ user[t] \in Texts /\ table[name] \in Seq(Texts)
    BY <1>3, ProfileNames DEF followUser, TypeOK, IsTable
  <2>2. Append(table[name], user[t]) \in Seq(Texts)
    BY <2>1, AppendProperties
  <2>3. IsTable(table)' /\ DOMAIN table' = DOMAIN table
    BY <1>3, <2>1, <2>2 DEF followUser, TypeOK, IsTable
  <2>4. Unchanged
    BY <1>3, <2>3 DEF followUser, TypeOK, IsFile
  <2> QED
    BY <1>3, <2>1, <2>4 DEF followUser, TypeOK
<1>4. ASSUME NEW t \in Threads, Truncate(t)
      PROVE  TypeOK'
  <2>1. Unchanged
    BY <1>4 DEF Truncate, TypeOK, IsTable, IsFile, Nothing
  <2> QED
    BY <1>4, <2>1 DEF Truncate, TypeOK
<1> DEFINE lines == Lines(table)
<1>5. ASSUME up PROVE IsFile(lines)
  BY <1>5, LinesRead DEF FileInv, WholeTable
<1>6. DOMAIN lines = DOMAIN table
  BY DEF Lines
<1> HIDE DEF lines
<1>7. ASSUME NEW t \in Threads, WriteSome(t)
      PROVE  TypeOK'
  <2>1. up
    BY <1>7 DEF WriteSome
  <2>2. PICK name \in DOMAIN table : \E k \in 1..Len(lines[name]) :
          LET before == {n \in DOMAIN table : Precedes(n, name)}
          IN  file' = [n \in before \union {name} |->
                         IF n = name THEN SubSeq(lines[n], 1, k) ELSE lines[n]]
    BY <1>7 DEF WriteSome, lines
  <2> DEFINE kept == {n \in DOMAIN table : Precedes(n, name)} \union {name}
  <2>3. PICK k \in 1..Len(lines[name]) :
          file' = [n \in kept |-> IF n = name THEN SubSeq(lines[n], 1, k) ELSE lines[n]]
    BY <2>2
  <2>4. name \in kept /\ kept \subseteq DOMAIN lines
    BY <1>6
  <2> HIDE DEF kept
  <2>5. IsFile(file')
    BY <1>5, <2>1, <2>3, <2>4, CutLines
  <2>6. Unchanged
    BY <1>7, <2>5 DEF WriteSome, TypeOK, IsTable, IsFile
  <2> QED
    BY <1>7, <2>6 DEF WriteSome, TypeOK
<1>8. ASSUME NEW t \in Threads, CloseFile(t)
      PROVE  TypeOK'
  <2>1. file' = lines /\ up
    BY <1>8 DEF CloseFile, Saved, lines
  <2>2. IsFile(file')
    BY <1>5, <2>1
  <2>3. Unchanged
    BY <1>8, <2>2 DEF CloseFile, TypeOK, IsTable, IsFile
  <2> QED
    BY <1>8, <2>3 DEF CloseFile, TypeOK
<1>9. ASSUME NEW t \in Threads, Answer(t)
      PROVE  TypeOK'
  <2>1. arg[t] \in Profiles /\ arg[t] \in Texts
    BY <1>9, ProfileNames DEF Answer, PendingInv
  <2>2. user' \in [Threads -> Profiles \union {Nobody}]
    BY <1>9, <2>1 DEF Answer, TypeOK
  <2>3. answered' \subseteq Profiles \X Texts
    BY <1>9, <2>1 DEF Answer, TypeOK
  <2>4. Unchanged
    BY <1>0, <1>9 DEF Answer
  <2> QED
    BY <1>9, <2>2, <2>3, <2>4 DEF Answer, TypeOK
<1>10. ASSUME NEW t \in Threads, Disconnect(t)
       PROVE  TypeOK'
  <2>1. Unchanged
    BY <1>0, <1>10 DEF Disconnect
  <2> QED
    BY <1>10, <2>1 DEF Disconnect, TypeOK
<1>11. ASSUME NEW t \in Threads, NEW message \in Messages, SendMessage(t, message)
       PROVE  TypeOK'
  <2>1. rest' \in [Threads -> Seq(Texts)]
    BY <1>11 DEF SendMessage, Recipients, UserInv, HasRow, TypeOK, IsTable
  <2>2. due' \subseteq Messages \X Profiles
    BY <1>11 DEF SendMessage, TypeOK
  <2>3. Unchanged
    BY <1>0, <1>11 DEF SendMessage
  <2> QED
    BY <1>11, <2>1, <2>2, <2>3 DEF SendMessage, TypeOK
<1>12. ASSUME Stop, kills' \in Nat
       PROVE  TypeOK'
  <2>1. rest' \in [Threads -> Seq(Texts)]
    BY <1>12, EmptySeq DEF Stop
  <2>2. Unchanged
    BY <1>12 DEF Stop, Nothing, TypeOK, IsTable, IsFile
  <2> QED
    BY <1>12, <2>1, <2>2 DEF Stop, TypeOK
<1>13. ASSUME NEW t \in Threads, NotifyFollower(t)
       PROVE  TypeOK'
  <2>1. CASE HasRow(Head(rest[t]))
    <3>1. Head(rest[t]) \in DOMAIN table /\ Tail(rest[t]) \in Seq(Texts)
      BY <1>13, <2>1, HeadTailProperties DEF NotifyFollower, TypeOK, HasRow
    <3>2. arg[t] \in Messages
      BY <1>13 DEF NotifyFollower, WalkInv, TypeOK
    <3>3. inbox' \in [DOMAIN table -> Seq(Messages)]
      <4>1. Append(inbox[Head(rest[t])], arg[t]) \in Seq(Messages)
        BY <3>1, <3>2 DEF TypeOK
      <4>2. inbox' = [inbox EXCEPT ![Head(rest[t])] = Append(@, arg[t])]
        BY <1>13, <2>1 DEF NotifyFollower, Notification
      <4> QED
        BY <3>1, <4>1, <4>2 DEF TypeOK
    <3>4. Unchanged
      BY <1>13, <2>1, <3>3 DEF NotifyFollower, TypeOK, IsTable, IsFile
    <3> QED
      BY <1>13, <2>1, <3>1, <3>4 DEF NotifyFollower, TypeOK
  <2>2. CASE ~HasRow(Head(rest[t]))
    BY <1>12, <1>13, <2>2 DEF NotifyFollower, TypeOK
  <2> QED
    BY <2>1, <2>2
<1>14. ASSUME NEW t \in Threads, AnswerSend(t)
       PROVE  TypeOK'
  <2>1. Unchanged
    BY <1>0, <1>14 DEF AnswerSend
  <2> QED
    BY <1>14, <2>1 DEF AnswerSend, WalkInv, TypeOK
<1>15. CASE Kill
  BY <1>12, <1>15 DEF Kill, TypeOK
<1>16. CASE load_backup_table
  <2> PICK read : read = Read(file)
    OBVIOUS
  <2>1. ~Saving
    BY <1>16 DEF load_backup_table, UserInv, Saving
  <2>2. OfProfiles(read)
    BY <2>1 DEF FileInv, WholeTable
  <2>3. IsTable(read)
    BY <2>2, ProfileTables
  <2>4. table' = read /\ inbox' = [n \in DOMAIN read |-> <<>>] /\ file' = file
    BY <1>16 DEF load_backup_table
  <2>5. Unchanged
    BY <2>3, <2>4 DEF TypeOK, IsTable, IsFile
  <2> QED
    BY <1>16, <2>5 DEF load_backup_table, TypeOK
<1> QED
  BY <1>1, <1>2, <1>3, <1>4, <1>7, <1>8, <1>9, <1>10, <1>11, <1>13, <1>14, <1>15, <1>16
  DEF Next, Thread

-----------------------------------------------------------------------------
(* Changes of the table and of the file *)

\* The table after a change: who followed before follows still.
Grown == /\ DOMAIN table \subseteq DOMAIN table'
         /\ \A n \in DOMAIN table : ToSet(table[n]) \subseteq ToSet(table'[n])

LEMMA FollowersStay ==
  ASSUME Grown, NEW p, Follows(table, p)
  PROVE  Follows(table', p)
BY DEF Grown, Follows

\* What is said of walks and of messages stays when none of them goes on, and
\* rows that are new have no messages.
LEMMA WalksStay ==
  ASSUME TypeOK, TypeOK', WalkInv, SentInv, OncePerFollower, ReachesFollowers,
         UNCHANGED <<up, sent, due, done>>,
         DOMAIN table \subseteq DOMAIN table',
         \A n \in DOMAIN table' :
           IF n \in DOMAIN table THEN inbox'[n] = inbox[n] ELSE inbox'[n] = <<>>,
         \A t \in Threads : pc'[t] = "walk" =>
           /\ pc[t] = "walk"
           /\ arg'[t] = arg[t] /\ rest'[t] = rest[t]
  PROVE  WalkInv' /\ SentInv' /\ OncePerFollower' /\ ReachesFollowers'
<1>1. /\ \A n \in DOMAIN table : inbox'[n] = inbox[n]
      /\ \A n \in DOMAIN table' : n \in DOMAIN table \/ inbox'[n] = <<>>
      /\ DOMAIN inbox = DOMAIN table /\ DOMAIN inbox' = DOMAIN table'
  BY DEF TypeOK
<1>2. \A d \in due : d[2] \in DOMAIN table
  BY DEF SentInv, HasRow
<1>3. WalkInv'
  <2>1. ASSUME NEW t \in Threads, pc'[t] = "walk"
        PROVE  /\ pc[t] = "walk" /\ arg'[t] = arg[t] /\ rest'[t] = rest[t]
               /\ ToSet(rest[t]) \subseteq DOMAIN table
    BY <2>1 DEF WalkInv
  <2>2. ASSUME NEW t \in Threads, pc'[t] = "walk"
        PROVE  /\ \A n \in ToSet(rest'[t]) : arg'[t] \notin ToSet(inbox'[n])
               /\ \A d \in due' : d[1] = arg'[t] =>
                    d[2] \in ToSet(rest'[t]) \/ d[1] \in ToSet(inbox'[d[2]])
    BY <1>1, <1>2, <2>1, <2>2 DEF WalkInv
  <2>3. ASSUME NEW t \in Threads, pc'[t] = "walk"
        PROVE  /\ arg'[t] \in sent' \ done'
               /\ IsInjective(rest'[t]) /\ ToSet(rest'[t]) \subseteq DOMAIN table'
               /\ \A u \in Threads : pc'[u] = "walk" /\ arg'[u] = arg'[t] => u = t
    BY <2>1, <2>3 DEF WalkInv
  <2> QED
    BY <2>2, <2>3 DEF WalkInv
<1>4. SentInv'
  BY <1>1, NoElements DEF SentInv, HasRow
<1>5. OncePerFollower' /\ ReachesFollowers'
  BY <1>1, <1>2, NoElements DEF OncePerFollower, ReachesFollowers, HasRow
<1> QED
  BY <1>3, <1>4, <1>5

\* A profile that is added has no followers, and follows nobody.
LEMMA AddUserInv ==
  ASSUME TableInv, TypeOK', NEW t \in Threads, NEW name \in Profiles, AddUser(t, name)
  PROVE  TableInv'
<1> USE TableAssumption DEF AddUser, Goto, NobodyInside, NobodyWrites, HasRow
<1>1. /\ TypeOK /\ WriterInv /\ UserInv /\ FileInv /\ PendingInv
      /\ WalkInv /\ SentInv /\ OncePerFollower /\ ReachesFollowers
  BY DEF TableInv
<1> DEFINE Grows == /\ Grown
                    /\ WholeTable(table')
                    /\ \A n \in DOMAIN table' :
                         IF n \in DOMAIN table THEN inbox'[n] = inbox[n] ELSE inbox'[n] = <<>>
<1>2. Grows
  <2>1. WholeTable(table)
    BY <1>1 DEF FileInv
  <2>2. CASE UNCHANGED <<table, inbox>>
    BY <2>1, <2>2 DEF Grown, WholeTable, OfProfiles, Follows
  <2>3. CASE /\ name \notin DOMAIN table
             /\ table' = WithRow(table, name)
             /\ inbox' = WithRow(inbox, name)
    <3>1. /\ DOMAIN table' = DOMAIN table \union {name}
          /\ table'[name] = <<>>
          /\ \A n \in DOMAIN table : table'[n] = table[n]
      BY <2>3 DEF WithRow
    <3>2. Grown
      BY <3>1 DEF Grown
    <3>3. \A n \in DOMAIN table' : ToSet(table'[n]) \subseteq DOMAIN table' /\ IsInjective(table'[n])
      BY <2>1, <3>1, NoElements DEF WholeTable
    <3>4. OfProfiles(table')
      <4>1. ASSUME NEW n \in DOMAIN table'
            PROVE  n \in Profiles /\ table'[n] \in Seq(Profiles)
        <5>1. CASE n = name
          BY <3>1, <5>1, EmptySeq
        <5>2. CASE n \in DOMAIN table
          BY <2>1, <3>1, <5>2 DEF WholeTable, OfProfiles
        <5> QED
          BY <3>1, <5>1, <5>2
      <4>2. table' = [n \in DOMAIN table' |-> table'[n]]
        BY <2>3 DEF WithRow
      <4> QED
        BY <4>1, <4>2 DEF OfProfiles
    <3>5. WholeTable(table')
      BY <2>1, <3>2, <3>3, <3>4, FollowersStay DEF WholeTable
    <3>6. \A n \in DOMAIN table' :
            IF n \in DOMAIN table THEN inbox'[n] = inbox[n] ELSE inbox'[n] = <<>>
      BY <1>1, <2>3, <3>1 DEF WithRow, TypeOK
    <3> QED
      BY <3>2, <3>5, <3>6
  <2> QED
    BY <2>2, <2>3
<1>3. WriterInv'
  BY <1>1 DEF WriterInv, TypeOK
<1>4. UserInv'
  BY <1>1, <1>2 DEF UserInv, Grown, TypeOK
<1>5. Saving' = Saving
  BY <1>1 DEF Saving, TypeOK
<1>6. FileInv'
  <2>1. WholeTable(table)' = WholeTable(table')
    BY DEF WholeTable, OfProfiles, Follows
  <2>2. FileReadsBack'
    BY <1>1, <1>2 DEF FileInv, FileReadsBack
  <2> QED
    BY <1>1, <1>2, <1>5, <2>1, <2>2 DEF FileInv, WholeTable, OfProfiles, Follows
<1>7. PendingInv'
  <2>1. arg'[t] = name /\ user'[t] = Nobody /\ name \in DOMAIN table'
    BY <1>1 DEF TypeOK, WithRow
  <2>2. ASSUME NEW u \in Threads, u # t, pc'[u] \in {"changed", "saving", "cut", "reply"}
        PROVE  pc[u] = pc'[u] /\ arg'[u] = arg[u] /\ user'[u] = user[u]
    BY <1>1, <2>2 DEF TypeOK
  <2> QED
    BY <1>1, <1>2, <1>5, <2>1, <2>2, FollowersStay DEF PendingInv, Grown
<1>8. WalkInv' /\ SentInv' /\ OncePerFollower' /\ ReachesFollowers'
  BY <1>1, <1>2, WalksStay DEF Grown, TypeOK
<1> QED
  BY <1>3, <1>4, <1>6, <1>7, <1>8 DEF TableInv

\* A FOLLOW adds one who does not follow yet, and has a row.
LEMMA followUserInv ==
  ASSUME TableInv, TypeOK', NEW t \in Threads, NEW followed \in DOMAIN table,
         followUser(t, followed)
  PROVE  TableInv'
<1> USE TableAssumption DEF Goto, followUser, NewFollower, NobodyInside, NobodyWrites, HasRow
<1>1. /\ TypeOK /\ WriterInv /\ UserInv /\ FileInv /\ PendingInv
      /\ WalkInv /\ SentInv /\ OncePerFollower /\ ReachesFollowers
  BY DEF TableInv
<1> DEFINE follower == user[t]
<1>2. /\ follower \in Profiles /\ follower \in DOMAIN table
      /\ followed \in Profiles /\ followed \in DOMAIN table
      /\ table[followed] \in Seq(Profiles)
      /\ DOMAIN table' = DOMAIN table
      /\ table'[followed] = Append(table[followed], follower)
      /\ \A n \in DOMAIN table \ {followed} : table'[n] = table[n]
  BY <1>1 DEF TypeOK, FileInv, WholeTable, OfProfiles
<1>3. ToSet(table'[followed]) = ToSet(table[followed]) \union {follower}
  BY <1>2, AppendElements
<1>4. Grown
  BY <1>2, <1>3 DEF Grown
<1>5. WholeTable(table')
  <2>1. up /\ WholeTable(table)
    BY <1>1 DEF FileInv
  <2>2. IsInjective(table'[followed])
    BY <1>2, <2>1, AppendNew DEF WholeTable
  <2>3. \A n \in DOMAIN table' : ToSet(table'[n]) \subseteq DOMAIN table' /\ IsInjective(table'[n])
    BY <1>2, <1>3, <2>1, <2>2 DEF WholeTable
  <2>4. OfProfiles(table')
    <3>1. \A n \in DOMAIN table : n \in Profiles /\ table[n] \in Seq(Profiles)
      BY <2>1 DEF WholeTable, OfProfiles
    <3>2. table'[followed] \in Seq(Profiles)
      BY <1>2, AppendProperties
    <3>3. table' = [n \in DOMAIN table' |-> table'[n]]
      OBVIOUS
    <3> QED
      BY <1>2, <3>1, <3>2, <3>3 DEF OfProfiles
  <2> QED
    BY <1>4, <2>1, <2>3, <2>4, FollowersStay DEF WholeTable
<1>6. WriterInv'
  BY <1>1 DEF WriterInv, TypeOK
<1>7. UserInv'
  BY <1>1, <1>4 DEF UserInv, Grown, TypeOK
<1>8. Saving' = Saving
  BY <1>1 DEF Saving, TypeOK
<1>9. FileInv'
  <2>1. FileReadsBack'
    BY DEF FileReadsBack
  <2> QED
    BY <1>1, <1>5, <1>8, <2>1 DEF FileInv, WholeTable, OfProfiles, Follows
<1>10. PendingInv'
  <2>1. /\ arg'[t] = followed /\ user'[t] = follower /\ pc'[t] = "changed"
        /\ Follows(table', <<follower, followed>>)
    BY <1>1, <1>2, <1>3 DEF TypeOK, Follows
  <2>2. ASSUME NEW u \in Threads, u # t, pc'[u] \in {"changed", "saving", "cut", "reply"}
        PROVE  pc[u] = pc'[u] /\ arg'[u] = arg[u] /\ user'[u] = user[u]
    BY <1>1, <2>2 DEF TypeOK
  <2>3. \A p : Follows(table, p) => Follows(table', p)
    BY <1>4, FollowersStay
  <2>4. ASSUME NEW u \in Threads, u # t, pc'[u] \in {"changed", "saving", "cut", "reply"}
        PROVE  /\ arg'[u] \in Profiles
               /\ user'[u] = Nobody => arg'[u] \in DOMAIN table'
               /\ user'[u] # Nobody =>
                    /\ Follows(table', <<user'[u], arg'[u]>>)
                    /\ pc'[u] = "reply" /\ ~Saving' => Follows(Read(file'), <<user'[u], arg'[u]>>)
    BY <1>1, <1>2, <1>8, <2>2, <2>3, <2>4 DEF PendingInv
  <2>5. user[t] # Nobody /\ user[t] = follower /\ user'[t] # Nobody
    BY <1>1, <2>1
  <2> QED
    BY <1>2, <2>1, <2>4, <2>5 DEF PendingInv, Follows
<1>11. WalkInv' /\ SentInv' /\ OncePerFollower' /\ ReachesFollowers'
  BY <1>1, <1>4, WalksStay DEF Grown, TypeOK
<1> QED
  BY <1>6, <1>7, <1>9, <1>10, <1>11 DEF TableInv

\* While the file is truncated or cut the lock is held, and nothing that is
\* answered rests on the file.
LEMMA WriteFileInv ==
  ASSUME TableInv, TypeOK', NEW t \in Threads, Truncate(t) \/ WriteSome(t)
  PROVE  TableInv'
<1> USE TableAssumption DEF Goto, Truncate, WriteSome, HasRow
<1>1. /\ TypeOK /\ WriterInv /\ UserInv /\ FileInv /\ PendingInv
      /\ WalkInv /\ SentInv /\ OncePerFollower /\ ReachesFollowers
  BY DEF TableInv
<1>2. /\ UNCHANGED <<up, table, inbox, writer, user, arg, rest, answered, sent, due, done>>
      /\ up /\ pc[t] \in {"changed", "saving"}
      /\ pc'[t] \in {"saving", "cut"} /\ \A u \in Threads \ {t} : pc'[u] = pc[u]
  BY <1>1 DEF TypeOK
<1>3. writer = t
  BY <1>1, <1>2 DEF WriterInv
<1>4. Saving' /\ WriterInv' /\ UserInv'
  BY <1>1, <1>2 DEF Saving, WriterInv, UserInv
<1>5. FileInv'
  BY <1>1, <1>2, <1>3, <1>4
  DEF FileInv, WholeTable, OfProfiles, Follows, FileReadsBack, NobodyWrites
<1>6. PendingInv'
  BY <1>1, <1>2, <1>4 DEF PendingInv, Follows
<1>7. WalkInv' /\ SentInv' /\ OncePerFollower' /\ ReachesFollowers'
  BY <1>1, <1>2, WalksStay
<1> QED
  BY <1>4, <1>5, <1>6, <1>7 DEF TableInv

\* A file that is closed is the table, with all that is pending.
LEMMA CloseFileInv ==
  ASSUME PlainNames, TableInv, TypeOK', NEW t \in Threads, CloseFile(t)
  PROVE  TableInv'
<1> USE TableAssumption DEF Goto, CloseFile, Saved, HasRow
<1>1. /\ TypeOK /\ WriterInv /\ UserInv /\ FileInv /\ PendingInv
      /\ WalkInv /\ SentInv /\ OncePerFollower /\ ReachesFollowers
  BY DEF TableInv
<1>2. /\ UNCHANGED <<up, table, inbox, user, arg, rest, answered, sent, due, done>>
      /\ up /\ pc[t] \in {"saving", "cut"}
      /\ pc'[t] = "reply" /\ \A u \in Threads \ {t} : pc'[u] = pc[u]
      /\ Read(file') = table' /\ writer' = Free
  <2>1. OfProfiles(table)
    BY <1>1 DEF FileInv, WholeTable
  <2>2. Read(Lines(table)) = table
    BY <2>1, LinesRead
  <2> QED
    BY <1>1, <2>2 DEF TypeOK
<1>3. writer = t /\ \A u \in Threads : pc'[u] \notin {"changed", "saving", "cut", "walk"}
  BY <1>1, <1>2 DEF WriterInv
<1>4. WriterInv' /\ UserInv'
  BY <1>1, <1>2, <1>3 DEF WriterInv, UserInv
<1>5. FileInv'
  BY <1>1, <1>2 DEF FileInv, WholeTable, OfProfiles, Follows, FileReadsBack
<1>6. PendingInv'
  BY <1>1, <1>2 DEF PendingInv, Follows
<1>7. WalkInv' /\ SentInv' /\ OncePerFollower' /\ ReachesFollowers'
  BY <1>1, <1>2, WalksStay
<1> QED
  BY <1>4, <1>5, <1>6, <1>7 DEF TableInv

\* What is answered was pending.
LEMMA AnswerInv ==
  ASSUME TableInv, TypeOK', NEW t \in Threads, Answer(t)
  PROVE  TableInv'
<1> USE TableAssumption DEF Goto, Answer, HasRow
<1>1. /\ TypeOK /\ WriterInv /\ UserInv /\ FileInv /\ PendingInv
      /\ WalkInv /\ SentInv /\ OncePerFollower /\ ReachesFollowers
  BY DEF TableInv
<1>2. /\ UNCHANGED <<up, table, inbox, file, writer, rest, sent, due, done>>
      /\ up /\ pc[t] = "reply" /\ pc'[t] = "idle"
      /\ \A u \in Threads \ {t} : pc'[u] = pc[u] /\ user'[u] = user[u] /\ arg'[u] = arg[u]
  BY <1>1 DEF TypeOK
<1>3. Saving' = Saving
  BY <1>2 DEF Saving
<1>4. WriterInv'
  BY <1>1, <1>2 DEF WriterInv
<1>5. UserInv'
  <2>1. user'[t] # Nobody => HasRow(user'[t])
    BY <1>1, <1>2 DEF PendingInv, UserInv, TypeOK
  <2> QED
    BY <1>1, <1>2, <2>1 DEF UserInv
<1>6. FileInv'
  <2>1. CASE UNCHANGED answered
    BY <1>1, <1>2, <1>3, <2>1
    DEF FileInv, WholeTable, OfProfiles, Follows, FileReadsBack, NobodyWrites
  <2>2. CASE user[t] # Nobody /\ answered' = answered \union {<<user[t], arg[t]>>}
    <3>1. /\ Follows(table, <<user[t], arg[t]>>)
          /\ ~Saving => Follows(Read(file), <<user[t], arg[t]>>)
      BY <1>1, <1>2, <2>2 DEF PendingInv
    <3> QED
      BY <1>1, <1>2, <1>3, <2>2, <3>1
      DEF FileInv, WholeTable, OfProfiles, Follows, FileReadsBack, NobodyWrites
  <2> QED
    BY <2>1, <2>2
<1>7. PendingInv'
  BY <1>1, <1>2, <1>3 DEF PendingInv, Follows
<1>8. WalkInv' /\ SentInv' /\ OncePerFollower' /\ ReachesFollowers'
  BY <1>1, <1>2, WalksStay
<1> QED
  BY <1>4, <1>5, <1>6, <1>7, <1>8 DEF TableInv

\* A session that ends leaves the table alone.
LEMMA DisconnectInv ==
  ASSUME TableInv, TypeOK', NEW t \in Threads, Disconnect(t)
  PROVE  TableInv'
<1> USE TableAssumption DEF Goto, Disconnect, HasRow
<1>1. /\ TypeOK /\ WriterInv /\ UserInv /\ FileInv /\ PendingInv
      /\ WalkInv /\ SentInv /\ OncePerFollower /\ ReachesFollowers
  BY DEF TableInv
<1>2. /\ UNCHANGED <<up, table, inbox, file, writer, pc, arg, rest, answered, sent, due, done>>
      /\ pc[t] = "idle" /\ user'[t] = Nobody
      /\ \A u \in Threads \ {t} : user'[u] = user[u]
  BY <1>1 DEF TypeOK
<1>3. Saving' = Saving /\ WriterInv' /\ UserInv'
  BY <1>1, <1>2 DEF Saving, WriterInv, UserInv
<1>4. FileInv'
  BY <1>1, <1>2, <1>3
  DEF FileInv, WholeTable, OfProfiles, Follows, FileReadsBack, NobodyWrites
<1>5. PendingInv'
  BY <1>1, <1>2, <1>3 DEF PendingInv, Follows
<1>6. WalkInv' /\ SentInv' /\ OncePerFollower' /\ ReachesFollowers'
  BY <1>1, <1>2, WalksStay
<1> QED
  BY <1>3, <1>4, <1>5, <1>6 DEF TableInv

-----------------------------------------------------------------------------
(* Messages *)

\* What is said of the table and its file stays in a step of a reader.
LEMMA TableStays ==
  ASSUME TypeOK, WriterInv, UserInv, FileInv, PendingInv,
         UNCHANGED <<up, table, file, writer, user, answered>>,
         NEW t \in Threads, \A u \in Threads \ {t} : pc'[u] = pc[u] /\ arg'[u] = arg[u],
         pc[t] \in {"idle", "walk"}, pc'[t] \in {"idle", "walk"},
         up, writer = Free
  PROVE  WriterInv' /\ UserInv' /\ FileInv' /\ PendingInv'
<1>1. Saving' = Saving
  BY DEF Saving
<1>2. WriterInv' /\ UserInv'
  BY TableAssumption DEF WriterInv, UserInv, HasRow
<1>3. FileInv'
  BY <1>1 DEF FileInv, WholeTable, OfProfiles, Follows, FileReadsBack, NobodyWrites
<1>4. PendingInv'
  BY <1>1 DEF PendingInv, Follows, HasRow
<1> QED
  BY <1>2, <1>3, <1>4

\* A new message is in no row, and its walk has all followers before it.
LEMMA SendMessageInv ==
  ASSUME TableInv, TypeOK', NEW t \in Threads, NEW message \in Messages,
         SendMessage(t, message)
  PROVE  TableInv'
<1> USE TableAssumption DEF Goto, SendMessage, NobodyWrites, Recipients, HasRow
<1>1. /\ TypeOK /\ WriterInv /\ UserInv /\ FileInv /\ PendingInv
      /\ WalkInv /\ SentInv /\ OncePerFollower /\ ReachesFollowers
  BY DEF TableInv
<1>2. /\ UNCHANGED <<up, table, inbox, file, writer, user, answered, done>>
      /\ up /\ writer = Free /\ user[t] # Nobody /\ message \notin sent
      /\ pc[t] = "idle" /\ pc'[t] = "walk"
      /\ arg'[t] = message /\ rest'[t] = table[user[t]]
      /\ \A u \in Threads \ {t} : /\ pc'[u] = pc[u] /\ arg'[u] = arg[u]
                                  /\ rest'[u] = rest[u]
      /\ sent' = sent \union {message}
      /\ due' = due \union {<<message, p[1]>> : p \in {q \in answered : q[2] = user[t]}}
  BY <1>1 DEF TypeOK
<1>3. WriterInv' /\ UserInv' /\ FileInv' /\ PendingInv'
  BY <1>1, <1>2, TableStays
<1>4. SentInv' /\ OncePerFollower' /\ ReachesFollowers'
  <2>1. WholeTable(table)
    BY <1>1, <1>2 DEF FileInv
  <2>2. \A p \in answered : p[2] = user[t] => p[1] \in DOMAIN table
    BY <2>1 DEF WholeTable, Follows
  <2>3. SentInv'
    BY <1>1, <1>2, <2>2 DEF SentInv
  <2>4. \A d \in due' : d[1] \in done' => d \in due
    BY <1>1, <1>2 DEF SentInv
  <2> QED
    BY <1>1, <1>2, <2>3, <2>4 DEF OncePerFollower, ReachesFollowers
<1>5. /\ user[t] \in DOMAIN table
      /\ IsInjective(rest'[t]) /\ ToSet(rest'[t]) \subseteq DOMAIN table'
      /\ \A p \in answered : p[2] = user[t] => p[1] \in ToSet(rest'[t])
  BY <1>1, <1>2 DEF UserInv, FileInv, WholeTable, Follows
<1>6. ToSet(rest'[t]) \subseteq DOMAIN table
  BY <1>2, <1>5
<1>7. \A d \in due' : d[1] = message => d[2] \in ToSet(rest'[t])
  BY <1>1, <1>2, <1>5 DEF SentInv
<1>8. WalkInv'
  <2>1. /\ message \in sent' \ done'
        /\ \A n \in ToSet(rest'[t]) : message \notin ToSet(inbox'[n])
    BY <1>1, <1>2, <1>6 DEF SentInv
  <2>2. \A u \in Threads \ {t} : pc[u] = "walk" => arg[u] \in sent /\ arg[u] # message
    BY <1>1, <1>2 DEF WalkInv
  <2>3. ASSUME NEW u \in Threads \ {t}, pc'[u] = "walk"
        PROVE  \A d \in due' : d[1] = arg'[u] => d \in due
    BY <1>2, <2>2, <2>3
  <2> QED
    BY <1>1, <1>2, <1>5, <1>7, <2>1, <2>2, <2>3 DEF WalkInv
<1> QED
  BY <1>3, <1>4, <1>8 DEF TableInv

\* No kill comes inside a save, so that the file is whole when the server stops.
LEMMA StopInv ==
  ASSUME TableInv, TypeOK', Stop, ~Saving
  PROVE  TableInv'
<1> USE TableAssumption DEF Goto, Stop, ForAll, Nothing
<1>1. /\ TypeOK /\ WriterInv /\ UserInv /\ FileInv /\ PendingInv
      /\ WalkInv /\ SentInv /\ OncePerFollower /\ ReachesFollowers
  BY DEF TableInv
<1>2. WriterInv' /\ UserInv' /\ PendingInv' /\ WalkInv'
  BY DEF WriterInv, UserInv, PendingInv, WalkInv
<1>3. FileInv'
  BY <1>1 DEF FileInv, WholeTable, OfProfiles, Follows, FileReadsBack
<1>4. SentInv' /\ OncePerFollower' /\ ReachesFollowers'
  BY NoElements DEF SentInv, OncePerFollower, ReachesFollowers
<1> QED
  BY <1>2, <1>3, <1>4 DEF TableInv

\* The next follower has a row and has not had the message; it gets it, and
\* leaves the walk.
LEMMA NotifyFollowerInv ==
  ASSUME TableInv, TypeOK', NEW t \in Threads, NotifyFollower(t)
  PROVE  TableInv'
<1> USE TableAssumption DEF Goto, NotifyFollower, Notification, HasRow
<1>1. /\ TypeOK /\ WriterInv /\ UserInv /\ FileInv /\ PendingInv
      /\ WalkInv /\ SentInv /\ OncePerFollower /\ ReachesFollowers
  BY DEF TableInv
<1> DEFINE h == Head(rest[t])
<1>2. /\ up /\ pc[t] = "walk" /\ rest[t] # <<>> /\ rest[t] \in Seq(Texts)
  BY <1>1 DEF TypeOK
<1>3. /\ h \in ToSet(rest[t])
      /\ ToSet(Tail(rest[t])) = ToSet(rest[t]) \ {h} /\ IsInjective(Tail(rest[t]))
  BY <1>1, <1>2, HeadAndTail DEF WalkInv
<1>4. h \in DOMAIN table /\ arg[t] \in Messages
  BY <1>1, <1>2, <1>3 DEF WalkInv, TypeOK
<1>5. /\ UNCHANGED <<up, table, file, writer, pc, user, arg, answered, sent, due, done>>
      /\ inbox' = [inbox EXCEPT ![h] = Append(@, arg[t])]
      /\ rest' = [rest EXCEPT ![t] = Tail(@)]
  BY <1>4
<1>6. writer = Free
  BY <1>1, <1>2 DEF WriterInv
<1>7. WriterInv' /\ UserInv' /\ FileInv' /\ PendingInv'
  BY <1>1, <1>2, <1>5, <1>6, TableStays
<1>8. arg[t] \in sent \ done /\ arg[t] \notin ToSet(inbox[h])
  BY <1>1, <1>2, <1>3 DEF WalkInv
<1>9. /\ ToSet(inbox'[h]) = ToSet(inbox[h]) \union {arg[t]}
      /\ IsInjective(inbox'[h])
      /\ \A n \in DOMAIN table \ {h} : inbox'[n] = inbox[n]
  <2>1. inbox[h] \in Seq(Messages) /\ inbox'[h] = Append(inbox[h], arg[t])
    BY <1>1, <1>4, <1>5 DEF TypeOK
  <2>2. IsInjective(inbox[h])
    BY <1>1, <1>4 DEF OncePerFollower, TypeOK
  <2>3. /\ ToSet(Append(inbox[h], arg[t])) = ToSet(inbox[h]) \union {arg[t]}
        /\ IsInjective(Append(inbox[h], arg[t]))
    BY <1>4, <1>8, <2>1, <2>2, AppendElements, AppendNew
  <2> QED
    BY <1>1, <1>5, <2>1, <2>3 DEF TypeOK
<1>10. \A n \in DOMAIN table : ToSet(inbox[n]) \subseteq ToSet(inbox'[n])
  BY <1>9
<1>11. \A d \in due : d[2] \in DOMAIN table
  BY <1>1 DEF SentInv
<1>12. SentInv' /\ OncePerFollower'
  BY <1>1, <1>5, <1>8, <1>9 DEF SentInv, OncePerFollower
<1>13. ReachesFollowers'
  BY <1>1, <1>5, <1>10, <1>11 DEF ReachesFollowers
<1>14. WalkInv'
  <2>1. rest'[t] = Tail(rest[t]) /\ \A u \in Threads \ {t} : rest'[u] = rest[u]
    BY <1>1, <1>5 DEF TypeOK
  <2>2. ASSUME NEW u \in Threads, pc'[u] = "walk", u # t
        PROVE  /\ arg[u] # arg[t]
               /\ \A n \in ToSet(rest'[u]) : arg'[u] \notin ToSet(inbox'[n])
    <3>1. arg[u] # arg[t]
      BY <1>1, <1>2, <1>5, <2>2 DEF WalkInv
    <3>2. ToSet(rest[u]) \subseteq DOMAIN table
      BY <1>1, <1>5, <2>2 DEF WalkInv
    <3> QED
      BY <1>1, <1>5, <1>9, <2>1, <2>2, <3>1, <3>2 DEF WalkInv
  <2>3. \A n \in ToSet(rest'[t]) : arg'[t] \notin ToSet(inbox'[n])
    <3>1. ToSet(rest[t]) \subseteq DOMAIN table
      BY <1>1, <1>2 DEF WalkInv
    <3> QED
      BY <1>1, <1>2, <1>3, <1>5, <1>9, <2>1, <3>1 DEF WalkInv
  <2>4. ASSUME NEW u \in Threads, pc'[u] = "walk", NEW d \in due', d[1] = arg'[u]
        PROVE  d[2] \in ToSet(rest'[u]) \/ d[1] \in ToSet(inbox'[d[2]])
    <3>1. d[2] \in ToSet(rest[u]) \/ d[1] \in ToSet(inbox[d[2]])
      BY <1>1, <1>5, <2>4 DEF WalkInv
    <3>2. CASE u = t
      BY <1>3, <1>5, <1>9, <1>10, <1>11, <2>1, <2>4, <3>1, <3>2
    <3>3. CASE u # t
      BY <1>5, <1>10, <1>11, <2>1, <2>4, <3>1, <3>3
    <3> QED
      BY <3>2, <3>3
  <2>5. ASSUME NEW u \in Threads, pc'[u] = "walk"
        PROVE  IsInjective(rest'[u]) /\ ToSet(rest'[u]) \subseteq DOMAIN table'
    BY <1>1, <1>3, <1>5, <2>1, <2>5 DEF WalkInv
  <2> QED
    BY <1>1, <1>5, <2>2, <2>3, <2>4, <2>5 DEF WalkInv
<1> QED
  BY <1>7, <1>12, <1>13, <1>14 DEF TableInv

\* A walk that is over has been to everybody.
LEMMA AnswerSendInv ==
  ASSUME TableInv, TypeOK', NEW t \in Threads, AnswerSend(t)
  PROVE  TableInv'
<1> USE TableAssumption DEF Goto, AnswerSend, HasRow
<1>1. /\ TypeOK /\ WriterInv /\ UserInv /\ FileInv /\ PendingInv
      /\ WalkInv /\ SentInv /\ OncePerFollower /\ ReachesFollowers
  BY DEF TableInv
<1>2. /\ UNCHANGED <<up, table, inbox, file, writer, user, rest, answered, sent, due>>
      /\ up /\ pc[t] = "walk" /\ pc'[t] = "idle" /\ rest[t] = <<>>
      /\ \A u \in Threads \ {t} : pc'[u] = pc[u] /\ arg'[u] = arg[u]
      /\ done' = done \union {arg[t]}
  BY <1>1 DEF TypeOK
<1>3. writer = Free
  BY <1>1, <1>2 DEF WriterInv
<1>4. WriterInv' /\ UserInv' /\ FileInv' /\ PendingInv'
  BY <1>1, <1>2, <1>3, TableStays
<1>5. /\ arg[t] \in sent
      /\ \A d \in due : d[1] = arg[t] => d[1] \in ToSet(inbox[d[2]])
  BY <1>1, <1>2, NoElements DEF WalkInv
<1>6. SentInv' /\ OncePerFollower' /\ ReachesFollowers'
  BY <1>1, <1>2, <1>5 DEF SentInv, OncePerFollower, ReachesFollowers
<1>7. WalkInv'
  BY <1>1, <1>2 DEF WalkInv
<1> QED
  BY <1>4, <1>6, <1>7 DEF TableInv

\* What is loaded is what was saved.
LEMMA LoadInv ==
  ASSUME TableInv, TypeOK', load_backup_table
  PROVE  TableInv'
<1> USE TableAssumption DEF Goto, load_backup_table, HasRow
<1>1. /\ TypeOK /\ WriterInv /\ UserInv /\ FileInv /\ PendingInv
      /\ WalkInv /\ SentInv /\ OncePerFollower /\ ReachesFollowers
  BY DEF TableInv
<1>2. \A t \in Threads : pc[t] = "idle" /\ user[t] = Nobody
  BY <1>1 DEF UserInv, TypeOK
<1>3. ~Saving /\ Saving' = Saving
  BY <1>2 DEF Saving
<1>4. WriterInv' /\ UserInv' /\ PendingInv'
  BY <1>1, <1>2 DEF WriterInv, UserInv, PendingInv
<1>5. FileInv'
  BY <1>1, <1>3 DEF FileInv, WholeTable, OfProfiles, Follows, FileReadsBack
<1>6. DOMAIN table' = DOMAIN Read(file) /\ \A n \in DOMAIN table' : inbox'[n] = <<>>
  OBVIOUS
<1>7. due = {}
  BY <1>1 DEF SentInv
<1>8. WalkInv'
  BY <1>2 DEF WalkInv
<1>9. SentInv' /\ OncePerFollower' /\ ReachesFollowers'
  BY <1>1, <1>6, <1>7, NoElements DEF SentInv, OncePerFollower, ReachesFollowers
<1> QED
  BY <1>4, <1>5, <1>8, <1>9 DEF TableInv

-----------------------------------------------------------------------------
(* The theorems *)

\* Every step keeps the invariant when kills do not come inside saves.
LEMMA NextTableInv ==
  ASSUME KillInSave = FALSE, PlainNames
  PROVE  TableInv /\ [Next]_vars => TableInv'
<1> SUFFICES ASSUME TableInv, [Next]_vars PROVE TableInv'
  OBVIOUS
<1>1. TypeOK'
  BY NextTypeOK
<1>2. CASE UNCHANGED vars
  <2>1. /\ UNCHANGED <<up, table, file, writer, user, answered, pc, arg>>
        /\ UNCHANGED <<inbox, sent, due, done, rest>>
    BY <1>2 DEF vars, memory
  <2>2. WriterInv' /\ UserInv' /\ FileInv' /\ PendingInv'
    BY <2>1 DEF TableInv, WriterInv, UserInv, FileInv, PendingInv, WholeTable, OfProfiles, Follows,
                FileReadsBack, NobodyWrites, Saving, HasRow
  <2>3. WalkInv' /\ SentInv' /\ OncePerFollower' /\ ReachesFollowers'
    BY <1>1, <2>1, WalksStay DEF TableInv
  <2> QED
    BY <1>1, <2>2, <2>3 DEF TableInv
<1>3. ASSUME NEW t \in Threads, Thread(t)
      PROVE  TableInv'
  <2>1. /\ \A name \in Profiles : AddUser(t, name) => TableInv'
        /\ \A name \in DOMAIN table : followUser(t, name) => TableInv'
    BY <1>1, AddUserInv, followUserInv
  <2>2. CASE Truncate(t) \/ WriteSome(t) \/ CloseFile(t)
    BY <1>1, <2>2, WriteFileInv, CloseFileInv
  <2>3. CASE Answer(t) \/ Disconnect(t)
    BY <1>1, <2>3, AnswerInv, DisconnectInv
  <2>4. ASSUME NEW message \in Messages, SendMessage(t, message)
        PROVE  TableInv'
    BY <1>1, <2>4, SendMessageInv
  <2>5. CASE NotifyFollower(t) \/ AnswerSend(t)
    BY <1>1, <2>5, NotifyFollowerInv, AnswerSendInv
  <2> QED
    BY <1>3, <2>1, <2>2, <2>3, <2>4, <2>5 DEF Thread
<1>4. CASE Kill
  BY <1>1, <1>4, StopInv DEF Kill
<1>5. CASE load_backup_table
  BY <1>1, <1>5, LoadInv
<1> QED
  BY <1>2, <1>3, <1>4, <1>5 DEF Next

\* The invariant of the table, its file and the threads that use them.
THEOREM TableInvariant ==
  ASSUME KillInSave = FALSE, PlainNames
  PROVE  Spec => []TableInv
BY InitTableInv, NextTableInv, PTL DEF Spec

\* Every row is a set of names and a list of messages, and each thread is where
\* its variables say, after restarts from the file too.
THEOREM TableTypes ==
  ASSUME KillInSave = FALSE, PlainNames
  PROVE  Spec => []TypeOK
<1>1. TableInv => TypeOK
  BY DEF TableInv
<1> QED
  BY <1>1, TableInvariant, PTL

\* find() never returns end() for a follower in sendMessageToFollowers.
THEOREM EveryFollowerHasRow ==
  ASSUME KillInSave = FALSE, PlainNames
  PROVE  Spec => []FollowersHaveRows
<1>1. TableInv => FollowersHaveRows
  BY DEF TableInv, FileInv, WholeTable, FollowersHaveRows
<1> QED
  BY <1>1, TableInvariant, PTL

\* followUser's ACK is a promise that other threads' saves and restarts keep.
THEOREM AnsweredFollowsSurvive ==
  ASSUME KillInSave = FALSE, PlainNames
  PROVE  Spec => []FollowsSurvive
<1>1. TableInv => FollowsSurvive
  BY DEF TableInv, FileInv, WholeTable, Follows, HasRow, FollowsSurvive
<1> QED
  BY <1>1, TableInvariant, PTL

\* No message is put twice into a row.
THEOREM NoMessageTwice ==
  ASSUME KillInSave = FALSE, PlainNames
  PROVE  Spec => []OncePerFollower
<1>1. TableInv => OncePerFollower
  BY DEF TableInv
<1> QED
  BY <1>1, TableInvariant, PTL

\* A SEND that is answered has reached all who followed before.
THEOREM AnsweredSendReaches ==
  ASSUME KillInSave = FALSE, PlainNames
  PROVE  Spec => []ReachesFollowers
<1>1. TableInv => ReachesFollowers
  BY DEF TableInv
<1> QED
  BY <1>1, TableInvariant, PTL

\* Whenever nobody writes, load_backup_table would make of the file the table
\* that is in memory.
THEOREM FileComesBack ==
  ASSUME KillInSave = FALSE, PlainNames
  PROVE  Spec => []FileReadsBack
<1>1. TableInv => FileReadsBack
  BY DEF TableInv, FileInv
<1> QED
  BY <1>1, TableInvariant, PTL
=============================================================================
