----------------------------- MODULE ValueProofs -----------------------------
(***************************************************************************)
(* What Value makes of numbers and their digits, for numbers of any size.  *)
(*                                                                         *)
(* Recursive functions and folds are followed by induction on sets of      *)
(* numbers (AllNumbers): first that there is a function that satisfies the *)
(* recursion, then what it returns.                                        *)
(***************************************************************************)
EXTENDS Value, SequenceTheorems, FiniteSetTheorems, WellFoundedInduction, TLAPS

\* A set of numbers has a least one
LEMMA LeastNumber ==
    ASSUME NEW T \in SUBSET Nat, T # {}
    PROVE  \E x \in T : \A y \in T : x <= y
<1> DEFINE R == OpToRel(<, Nat)
<1>1. IsWellFoundedOn(R, Nat)
  BY NatLessThanWellFounded
<1>2. PICK x \in T : \A y \in T : ~ (<<y, x>> \in R)
  <2> HIDE DEF R
  <2> QED  BY <1>1, WFMin
<1>3. \A y \in T : ~ (y < x)
  BY <1>2 DEF OpToRel
<1> QED  BY <1>3

\* which Min of the community modules returns
LEMMA MinIs ==
    ASSUME NEW T \in SUBSET Nat, T # {}
    PROVE  Min(T) \in T /\ \A y \in T : Min(T) <= y
BY LeastNumber DEF Min

\* Induction over numbers, for a set instead of a formula
LEMMA AllNumbers ==
    ASSUME NEW S, 0 \in S, \A n \in Nat : n \in S => n + 1 \in S
    PROVE  Nat \subseteq S
<1> DEFINE T == Nat \ S
<1> SUFFICES ASSUME T # {} PROVE FALSE
  OBVIOUS
<1>1. PICK x \in T : \A y \in T : x <= y
  BY LeastNumber
<1>2. x - 1 \in Nat /\ x - 1 \notin T
  BY <1>1
<1> QED  BY <1>1, <1>2

\* The order in which a fold to the left takes apart the positions of a sequence
LEMMA GreatestRemoved ==
    ASSUME NEW n \in Nat, NEW s \in SUBSET (1..n)
    PROVE  /\ Cardinality(s) \in 0..n
           /\ s = {} => Cardinality(s) = 0
           /\ s # {} => /\ Max(s) \in s /\ s \ {Max(s)} \in SUBSET (1..n)
                        /\ Cardinality(s \ {Max(s)}) = Cardinality(s) - 1
                        /\ Cardinality(s) # 0
                        /\ s = 1..Cardinality(s) =>
                              /\ Max(s) = Cardinality(s)
                              /\ s \ {Max(s)} = 1..(Cardinality(s) - 1)
<1>1. IsFiniteSet(1..n) /\ Cardinality(1..n) = n
  BY FS_Interval
<1>2. IsFiniteSet(s) /\ Cardinality(s) <= n /\ Cardinality(s) \in Nat
  BY <1>1, FS_Subset, FS_CardinalityType
<1>3. Cardinality({}) = 0
  BY FS_EmptySet
<1>4. ASSUME s # {}
      PROVE  Max(s) \in s /\ \A z \in s : Max(s) >= z
  <2> DEFINE T == {n - x : x \in s}
  <2>1. T \in SUBSET Nat /\ T # {}
    <3>1. \A x \in s : n - x \in Nat
      OBVIOUS
    <3>2. T \in SUBSET Nat
      BY <3>1
    <3> QED  BY <1>4, <3>2
  <2>2. PICK y \in T : \A z \in T : y <= z
    BY <2>1, LeastNumber
  <2>3. PICK x \in s : y = n - x
    BY <2>2
  <2>4. \A z \in s : x >= z
    BY <2>2, <2>3
  <2> QED  BY <2>3, <2>4 DEF Max
<1>5. ASSUME s # {}
      PROVE  Cardinality(s \ {Max(s)}) = Cardinality(s) - 1 /\ Cardinality(s) # 0
  <2>1. Cardinality(s \ {Max(s)}) = Cardinality(s) - 1
    BY <1>2, <1>4, <1>5, FS_RemoveElement
  <2>2. Cardinality(s) # 0
    BY <1>2, <1>5, FS_EmptySet
  <2> QED  BY <2>1, <2>2
<1>6. s \ {Max(s)} \in SUBSET (1..n)
  BY Zenon
<1>7. Cardinality(s) \in 0..n
  BY <1>1, <1>2
<1>8. s = {} => Cardinality(s) = 0
  BY <1>3
<1>9. ASSUME s # {}, s = 1..Cardinality(s)
      PROVE  Max(s) = Cardinality(s) /\ s \ {Max(s)} = 1..(Cardinality(s) - 1)
  <2> DEFINE c == Cardinality(s)
  <2>1. c \in Nat \ {0}
    BY <1>2, <1>5, <1>9
  <2> HIDE DEF c
  <2>2. s = 1..c /\ c \in s
    BY <1>9, <2>1 DEF c
  <2>3. Max(s) = c
    BY <1>4, <2>1, <2>2
  <2>4. (1..c) \ {c} = 1..(c - 1)
    BY <2>1
  <2> QED  BY <2>2, <2>3, <2>4 DEF c
<1> QED  BY <1>4, <1>5, <1>6, <1>7, <1>8, <1>9

-----------------------------------------------------------------------------
\* The number that the digits of a text make, digit by digit
DigitOf(digit) == CHOOSE d \in 0..9 : Digits[d + 1] = digit

Reads(text, h) ==
    /\ h[0] = 0
    /\ \A j \in 1..Len(text) : h[j] = 10 * h[j - 1] + DigitOf(text[j])

\* The fold in Sto reads the digits from the left
LEMMA FoldReads ==
    ASSUME NEW text, Len(text) \in Nat, DOMAIN text = 1..Len(text),
           NEW h, Reads(text, h)
    PROVE  FoldLeft(LAMBDA m, digit : 10 * m + DigitOf(digit), 0, text) = h[Len(text)]
<1> DEFINE n == Len(text)
           iter[s \in SUBSET (1..n)] ==
             IF s = {} THEN 0 ELSE 10 * iter[s \ {Max(s)}] + DigitOf(text[Max(s)])
           Body(f, s) == IF s = {} THEN 0 ELSE 10 * f[s \ {Max(s)}] + DigitOf(text[Max(s)])
<1>1. n \in Nat
  OBVIOUS
<1>2. \E f : f = [s \in SUBSET (1..n) |->
             IF s = {} THEN 0 ELSE 10 * f[s \ {Max(s)}] + DigitOf(text[Max(s)])]
  <2> DEFINE Solves(f, k) == \A s \in SUBSET (1..n) : Cardinality(s) <= k =>
                               f[s] = Body(f, s)
             R == {k \in Nat : \E f : Solves(f, k)}
  <2>1. ASSUME NEW s \in SUBSET (1..n), s # {}
        PROVE  /\ s \ {Max(s)} \in SUBSET (1..n) /\ Cardinality(s) \in 1..n
               /\ Cardinality(s \ {Max(s)}) = Cardinality(s) - 1
    <3>1. /\ Cardinality(s) \in 0..n /\ Cardinality(s) # 0
          /\ s \ {Max(s)} \in SUBSET (1..n)
          /\ Cardinality(s \ {Max(s)}) = Cardinality(s) - 1
      BY <1>1, <2>1, GreatestRemoved
    <3> QED  BY <3>1
  <2>2. 0 \in R
    <3> DEFINE none == [s \in SUBSET (1..n) |-> 0]
    <3>1. ASSUME NEW s \in SUBSET (1..n), Cardinality(s) <= 0
          PROVE  s = {}
      <4> SUFFICES ASSUME s # {} PROVE FALSE
        OBVIOUS
      <4>1. Cardinality(s) \in 1..n
        BY <2>1
      <4> QED  BY <3>1, <4>1
    <3>2. Solves(none, 0)
      BY <3>1
    <3> HIDE DEF Solves, none
    <3> QED  BY <3>2
  <2>3. ASSUME NEW k \in Nat, k \in R
        PROVE  k + 1 \in R
    <3>1. PICK f : Solves(f, k)
      BY <2>3
    <3> DEFINE g == [s \in SUBSET (1..n) |-> IF Cardinality(s) <= k THEN f[s] ELSE Body(f, s)]
    <3>2. ASSUME NEW s \in SUBSET (1..n), Cardinality(s) <= k + 1
          PROVE  g[s] = Body(g, s)
      <4>1. g[s] = Body(f, s)
        BY <3>1
      <4>2. CASE s = {}
        BY <4>1, <4>2
      <4>3. CASE s # {}
        <5> DEFINE t == s \ {Max(s)}
        <5>1. t \in SUBSET (1..n) /\ Cardinality(t) = Cardinality(s) - 1 /\ Cardinality(s) \in 1..n
          BY <2>1, <4>3
        <5>2. Cardinality(t) <= k
          <6> HIDE DEF t
          <6> QED  BY <3>2, <5>1
        <5>3. g[t] = f[t]
          BY <5>1, <5>2
        <5> HIDE DEF g
        <5> QED  BY <4>1, <4>3, <5>3
      <4> QED  BY <4>2, <4>3
    <3> HIDE DEF g
    <3>3. Solves(g, k + 1)
      BY <3>2
    <3> HIDE DEF Solves
    <3> QED  BY <3>3
  <2> HIDE DEF R
  <2>4. n \in R
    BY <1>1, <2>2, <2>3, AllNumbers
  <2>5. PICK f : Solves(f, n)
    BY <2>4 DEF R
  <2> DEFINE g == [s \in SUBSET (1..n) |-> f[s]]
  <2>6. ASSUME NEW s \in SUBSET (1..n)
        PROVE  g[s] = Body(g, s)
    <3>1. Cardinality(s) \in 0..n
      BY <1>1, GreatestRemoved
    <3>2. f[s] = Body(f, s)
      <4>1. Cardinality(s) <= n
        BY <1>1, <3>1
      <4> QED  BY <2>5, <4>1
    <3>3. s # {} => g[s \ {Max(s)}] = f[s \ {Max(s)}]
      BY <2>1
    <3> QED  BY <3>2, <3>3
  <2>7. g = [s \in SUBSET (1..n) |-> Body(g, s)]
    <3>1. g = [s \in SUBSET (1..n) |-> g[s]]
      OBVIOUS
    <3> HIDE DEF g
    <3> QED  BY <2>6, <3>1
  <2> QED  BY <2>7
<1>3. iter = [s \in SUBSET (1..n) |->
                IF s = {} THEN 0 ELSE 10 * iter[s \ {Max(s)}] + DigitOf(text[Max(s)])]
  BY <1>2
<1> HIDE DEF iter
<1> DEFINE S == {m \in Nat : m <= n => iter[1..m] = h[m]}
<1>4. 0 \in S
  <2>1. 1..0 = {} /\ 1..0 \in SUBSET (1..n)
    BY <1>1
  <2> QED  BY <1>3, <2>1 DEF Reads
<1>5. ASSUME NEW m \in Nat, m \in S
      PROVE  m + 1 \in S
  <2> SUFFICES ASSUME m + 1 <= n
               PROVE  iter[1..(m + 1)] = h[m + 1]
    OBVIOUS
  <2> DEFINE s == 1..(m + 1)
  <2>1. s \in SUBSET (1..n) /\ s # {}
    BY <1>1
  <2>2. Cardinality(s) = m + 1
    BY FS_Interval
  <2>3. Max(s) = m + 1 /\ s \ {Max(s)} = 1..m
    <3> HIDE DEF s
    <3>1. s = 1..Cardinality(s)
      BY <2>2 DEF s
    <3>2. Max(s) = Cardinality(s) /\ s \ {Max(s)} = 1..(Cardinality(s) - 1)
      BY <1>1, <2>1, <3>1, GreatestRemoved
    <3> QED  BY <2>2, <3>2
  <2> HIDE DEF s
  <2>4. iter[s] = 10 * iter[1..m] + DigitOf(text[m + 1])
    BY <1>3, <2>1, <2>3
  <2>5. h[m + 1] = 10 * h[m] + DigitOf(text[m + 1])
    BY <1>1 DEF Reads
  <2> QED  BY <1>5, <2>4, <2>5 DEF s
<1> HIDE DEF S
<1>6. n \in S
  BY <1>1, <1>4, <1>5, AllNumbers
<1>7. FoldLeft(LAMBDA m, digit : 10 * m + DigitOf(digit), 0, text) = iter[1..n]
  BY DEF FoldLeft, MapThenFoldSet, iter
<1>8. iter[1..n] = h[n]
  BY <1>1, <1>6 DEF S
<1> QED  BY <1>7, <1>8

\* The digits of a number make that number again
LEMMA DigitsRead ==
    /\ \A d \in 0..9 : Digits[d + 1] \in DigitSet /\ DigitOf(Digits[d + 1]) = d
    /\ \A digit \in DigitSet : digit \notin WhiteSpace /\ digit \notin {"-", "+"}
<1>1. ASSUME NEW d \in 0..9
      PROVE  Digits[d + 1] \in DigitSet /\ DigitOf(Digits[d + 1]) = d
  <2>1. d + 1 \in DOMAIN Digits
    BY DEF Digits
  <2>2. \A e \in 0..9 : Digits[e + 1] = Digits[d + 1] => e = d
    BY DEF Digits
  <2> QED  BY <2>1, <2>2 DEF DigitSet, DigitOf
<1>2. ASSUME NEW digit \in DigitSet
      PROVE  digit \notin WhiteSpace /\ digit \notin {"-", "+"}
  BY DEF DigitSet, Digits, WhiteSpace
<1> QED  BY <1>1, <1>2

Spells(text, m) ==
    /\ text \in Seq(DigitSet) /\ Len(text) > 0
    /\ \E h : Reads(text, h) /\ h[Len(text)] = m

\* One digit spells its number
LEMMA SpellsOne ==
    ASSUME NEW d \in 0..9
    PROVE  Spells(<<Digits[d + 1]>>, d)
<1> DEFINE h == [j \in 0..1 |-> IF j = 0 THEN 0 ELSE d]
<1>1. Digits[d + 1] \in DigitSet /\ DigitOf(Digits[d + 1]) = d
  BY DigitsRead
<1>2. Reads(<<Digits[d + 1]>>, h)
  BY <1>1 DEF Reads
<1>3. h[1] = d
  OBVIOUS
<1> HIDE DEF h
<1> QED  BY <1>1, <1>2, <1>3 DEF Spells

\* and one digit more a number ten times as great, plus the digit
LEMMA SpellsMore ==
    ASSUME NEW text, NEW m \in Nat, Spells(text, m), NEW d \in 0..9
    PROVE  Spells(Append(text, Digits[d + 1]), 10 * m + d)
<1> DEFINE digit == Digits[d + 1]
           longer == Append(text, digit)
           n == Len(text)
<1>1. digit \in DigitSet /\ DigitOf(digit) = d
  BY DigitsRead
<1>2. text \in Seq(DigitSet) /\ n \in Nat /\ n > 0
  BY LenProperties DEF Spells
<1>3. PICK h : Reads(text, h) /\ h[n] = m
  BY DEF Spells
<1> HIDE DEF digit
<1>4. /\ longer \in Seq(DigitSet) /\ Len(longer) = n + 1
      /\ longer[n + 1] = digit /\ \A j \in 1..n : longer[j] = text[j]
  BY <1>1, <1>2, AppendProperties
<1> HIDE DEF longer, n
<1> DEFINE g == [j \in 0..(n + 1) |-> IF j <= n THEN h[j] ELSE 10 * m + d]
<1>5. g[0] = 0
  BY <1>2, <1>3 DEF Reads
<1>6. ASSUME NEW j \in 1..(n + 1)
      PROVE  g[j] = 10 * g[j - 1] + DigitOf(longer[j])
  <2>1. CASE j <= n
    BY <1>2, <1>3, <1>4, <2>1 DEF Reads, n
  <2>2. CASE j = n + 1
    BY <1>1, <1>2, <1>3, <1>4, <2>2
  <2> QED  BY <1>2, <2>1, <2>2
<1>7. g[n + 1] = 10 * m + d
  BY <1>2
<1> HIDE DEF g
<1>8. Reads(longer, g)
  BY <1>4, <1>5, <1>6 DEF Reads
<1> QED  BY <1>2, <1>4, <1>7, <1>8 DEF Spells, longer, digit

\* The recursion of Decimal has a solution: one up to each number, and they agree
LEMMA DecimalExists ==
    \E decimal : decimal = [m \in Nat |-> IF m < 10 THEN <<Digits[m + 1]>>
                          ELSE Append(decimal[m \div 10], Digits[(m % 10) + 1])]
<1> DEFINE Body(f, m) == IF m < 10 THEN <<Digits[m + 1]>>
                         ELSE Append(f[m \div 10], Digits[(m % 10) + 1])
           Solves(f, k) == \A m \in 0..k : f[m] = Body(f, m)
           S == {k \in Nat : \E f : Solves(f, k)}
<1>0. \A m \in Nat : m >= 10 => m \div 10 \in Nat /\ m \div 10 < m
  OBVIOUS
<1>1. 0 \in S
  <2> DEFINE first == [m \in {0} |-> <<Digits[m + 1]>>]
  <2>1. Solves(first, 0)
    OBVIOUS
  <2> HIDE DEF Solves, first
  <2> QED  BY <2>1
<1>2. ASSUME NEW k \in Nat, k \in S
      PROVE  k + 1 \in S
  <2>1. PICK f : Solves(f, k)
    BY <1>2
  <2> DEFINE g == [m \in 0..(k + 1) |-> IF m <= k THEN f[m] ELSE Body(f, m)]
  <2>2. ASSUME NEW m \in 0..(k + 1)
        PROVE  g[m] = Body(g, m)
    <3>1. g[m] = Body(f, m)
      BY <2>1
    <3>2. ASSUME m >= 10
          PROVE  g[m \div 10] = f[m \div 10]
      <4>1. m \div 10 \in 0..k
        BY <1>0, <3>2
      <4> QED  BY <4>1
    <3> HIDE DEF g
    <3> QED  BY <3>1, <3>2
  <2>3. Solves(g, k + 1)
    <3> HIDE DEF g
    <3> QED  BY <2>2
  <2> HIDE DEF Solves, g
  <2> QED  BY <2>3
<1> HIDE DEF S
<1>3. Nat \subseteq S
  BY <1>1, <1>2, AllNumbers
<1>4. \A k \in Nat : \E f : Solves(f, k)
  BY <1>3 DEF S
<1> DEFINE some == [k \in Nat |-> CHOOSE f : Solves(f, k)]
           all == [m \in Nat |-> some[m][m]]
<1>5. \A k \in Nat : Solves(some[k], k)
  <2> HIDE DEF Solves
  <2> QED  BY <1>4
<1> HIDE DEF some
<1>6. ASSUME NEW m \in Nat
      PROVE  \A k, l \in Nat : m <= k /\ m <= l => some[k][m] = some[l][m]
  <2> DEFINE R == {n \in Nat : \A x \in 0..n, k, l \in Nat :
                                  x <= k /\ x <= l => some[k][x] = some[l][x]}
  <2>1. 0 \in R
    <3>1. ASSUME NEW k \in Nat
          PROVE  some[k][0] = <<Digits[1]>>
      <4>1. Solves(some[k], k) /\ 0 \in 0..k
        <5> HIDE DEF Solves
        <5> QED  BY <1>5
      <4>2. some[k][0] = Body(some[k], 0)
        <5> HIDE DEF Body
        <5> QED  BY <4>1
      <4> QED  BY <4>2
    <3> QED  BY <3>1
  <2>2. ASSUME NEW n \in Nat, n \in R
        PROVE  n + 1 \in R
    <3> SUFFICES ASSUME NEW x \in 0..(n + 1), NEW k \in Nat, NEW l \in Nat, x <= k, x <= l
                 PROVE  some[k][x] = some[l][x]
      OBVIOUS
    <3>1. some[k][x] = Body(some[k], x) /\ some[l][x] = Body(some[l], x)
      BY <1>5
    <3>2. ASSUME x >= 10
          PROVE  some[k][x \div 10] = some[l][x \div 10]
      <4>1. x \div 10 \in 0..n /\ x \div 10 <= k /\ x \div 10 <= l
        BY <1>0, <3>2
      <4> HIDE DEF Solves
      <4> QED  BY <2>2, <4>1
    <3> QED  BY <3>1, <3>2
  <2> HIDE DEF R
  <2>3. Nat \subseteq R
    BY <2>1, <2>2, AllNumbers
  <2> QED  BY <2>3 DEF R
<1>7. ASSUME NEW m \in Nat
      PROVE  all[m] = Body(all, m)
  <2>1. all[m] = Body(some[m], m)
    BY <1>5
  <2>2. ASSUME m >= 10
        PROVE  all[m \div 10] = some[m][m \div 10]
    <3>1. m \div 10 \in Nat /\ m \div 10 < m
      BY <1>0, <2>2
    <3> HIDE DEF Solves
    <3> QED  BY <1>6, <3>1
  <2> HIDE DEF all
  <2> QED  BY <2>1, <2>2
<1>8. all = [m \in Nat |-> Body(all, m)]
  <2>1. all = [m \in Nat |-> all[m]]
    OBVIOUS
  <2> HIDE DEF all
  <2> QED  BY <1>7, <2>1
<1> QED  BY <1>8

\* std::to_string writes the digits of a number, behind the sign of a negative one
LEMMA DecimalSpells ==
    ASSUME NEW k \in Nat
    PROVE  /\ Spells(Decimal(k), k)
           /\ k > 0 => \E text : Spells(text, k) /\ Decimal(-k) = <<"-">> \o text
<1> DEFINE decimal[m \in Nat] ==
             IF m < 10 THEN <<Digits[m + 1]>>
             ELSE Append(decimal[m \div 10], Digits[(m % 10) + 1])
           S == {n \in Nat : \A m \in 0..n : Spells(decimal[m], m)}
<1>1. decimal = [m \in Nat |-> IF m < 10 THEN <<Digits[m + 1]>>
                          ELSE Append(decimal[m \div 10], Digits[(m % 10) + 1])]
  BY DecimalExists
<1>2. /\ Decimal(k) = decimal[k]
      /\ k > 0 => Decimal(-k) = <<"-">> \o decimal[-(-k)]
  BY DEF Decimal
<1>3. -(-k) = k
  OBVIOUS
<1> HIDE DEF decimal
<1>4. \A m \in 0..9 : Spells(decimal[m], m)
  <2> SUFFICES ASSUME NEW m \in 0..9
               PROVE  Spells(decimal[m], m)
    OBVIOUS
  <2>1. decimal[m] = <<Digits[m + 1]>>
    BY <1>1
  <2> QED  BY <2>1, SpellsOne
<1>5. 0 \in S
  BY <1>4
<1>6. ASSUME NEW n \in Nat, n \in S
      PROVE  n + 1 \in S
  <2> DEFINE m == n + 1
  <2> SUFFICES Spells(decimal[m], m)
    BY <1>6
  <2>1. CASE m < 10
    BY <1>4, <2>1
  <2>2. CASE m >= 10
    <3> DEFINE front == m \div 10
               d == m % 10
    <3>1. front \in 0..n /\ d \in 0..9 /\ 10 * front + d = m
      BY <2>2
    <3>2. decimal[m] = Append(decimal[front], Digits[d + 1])
      <4>1. m \in Nat /\ ~ (m < 10)
        BY <2>2
      <4> HIDE DEF m
      <4> QED  BY <1>1, <4>1
    <3>3. Spells(decimal[front], front)
      BY <1>6, <3>1
    <3> HIDE DEF front, d
    <3>4. Spells(Append(decimal[front], Digits[d + 1]), 10 * front + d)
      <4>1. front \in Nat /\ d \in 0..9
        BY <3>1
      <4> QED  BY <3>3, <4>1, SpellsMore
    <3> QED  BY <3>1, <3>2, <3>4
  <2> QED  BY <2>1, <2>2
<1> HIDE DEF S
<1>7. k \in S
  BY <1>5, <1>6, AllNumbers
<1>8. Spells(decimal[k], k)
  BY <1>7 DEF S
<1> QED  BY <1>2, <1>3, <1>8

\* The part of Sto from the first byte that is not white space on
LEMMA StoDigits ==
    ASSUME NEW body, NEW k \in Nat, Spells(body, k)
    PROVE  /\ {i \in DOMAIN body : body[i] \notin DigitSet} = {}
           /\ body # <<>> /\ Len(body) \in Nat \ {0} /\ DOMAIN body = 1..Len(body)
           /\ \A i \in DOMAIN body : body[i] \notin WhiteSpace /\ body[i] \notin {"-", "+"}
           /\ FoldLeft(LAMBDA m, digit : 10 * m + DigitOf(digit), 0, body) = k
<1>1. body \in Seq(DigitSet) /\ Len(body) > 0
  BY DEF Spells
<1>2. /\ Len(body) \in Nat \ {0} /\ DOMAIN body = 1..Len(body)
      /\ \A i \in DOMAIN body : body[i] \in DigitSet
  BY <1>1, LenProperties
<1>3. body # <<>>
  BY <1>1
<1>4. \A i \in DOMAIN body : body[i] \notin WhiteSpace /\ body[i] \notin {"-", "+"}
  BY <1>2, DigitsRead
<1>5. PICK h : Reads(body, h) /\ h[Len(body)] = k
  BY DEF Spells
<1>6. FoldLeft(LAMBDA m, digit : 10 * m + DigitOf(digit), 0, body) = h[Len(body)]
  BY <1>2, <1>5, FoldReads
<1>7. FoldLeft(LAMBDA m, digit : 10 * m + DigitOf(digit), 0, body) = k
  BY <1>5, <1>6 DEF FoldLeft, MapThenFoldSet
<1>8. {i \in DOMAIN body : body[i] \notin DigitSet} = {}
  BY <1>2
<1> QED  BY <1>2, <1>3, <1>4, <1>7, <1>8 DEF FoldLeft, MapThenFoldSet

\* stol reads digits as the number they spell, with and without a sign
LEMMA StoSpelled ==
    ASSUME NEW text, NEW k \in Nat, Spells(text, k), NEW range
    PROVE  /\ Sto(text, range) = {n \in {k} : n \in range}
           /\ Sto(<<"-">> \o text, range) = {n \in {-k} : n \in range}
<1>1. text \in Seq(DigitSet)
  BY DEF Spells
<1>2. /\ {i \in DOMAIN text : text[i] \notin DigitSet} = {}
      /\ text # <<>> /\ Len(text) \in Nat \ {0} /\ DOMAIN text = 1..Len(text)
      /\ \A i \in 1..Len(text) : text[i] \notin WhiteSpace /\ text[i] \notin {"-", "+"}
  BY StoDigits DEF FoldLeft, MapThenFoldSet
<1>6. FoldLeft(LAMBDA m, digit : 10 * m + DigitOf(digit), 0, text) = k
  BY StoDigits DEF FoldLeft, MapThenFoldSet
<1>3. ASSUME NEW n \in Nat \ {0}
      PROVE  Min(1..n) = 1
  <2>1. 1..n \in SUBSET Nat /\ 1 \in 1..n
    OBVIOUS
  <2>2. Min(1..n) \in 1..n /\ Min(1..n) <= 1
    BY <2>1, MinIs
  <2> QED  BY <2>2
<1>4. Sto(text, range) = {n \in {k} : n \in range}
  <2> DEFINE black  == {i \in DOMAIN text : text[i] \notin WhiteSpace}
             number == IF black = {} THEN <<>> ELSE SubSeq(text, Min(black), Len(text))
             signed == number # <<>> /\ number[1] \in {"-", "+"}
             body   == IF signed THEN Tail(number) ELSE number
             others == {i \in DOMAIN body : body[i] \notin DigitSet}
             digits == IF others = {} THEN body ELSE SubSeq(body, 1, Min(others) - 1)
             size   == FoldLeft(LAMBDA m, digit : 10 * m + DigitOf(digit), 0, digits)
  <2> HIDE DEF black, number, signed, body, others, digits, size
  <2>1. black = 1..Len(text)
    BY <1>2 DEF black
  <2>2. Min(black) = 1 /\ black # {}
    <3>1. 1 \in 1..Len(text)
      BY <1>2
    <3> QED  BY <1>2, <1>3, <2>1, <3>1
  <2>3. number = text
    BY <1>1, <2>2, SubSeqFull DEF number
  <2>4. ~ signed
    <3>1. 1 \in 1..Len(text)
      BY <1>2
    <3> QED  BY <1>2, <2>3, <3>1 DEF signed
  <2>5. body = text
    BY <2>3, <2>4 DEF body
  <2>6. digits = text
    BY <1>2, <2>5 DEF digits, others
  <2>7. size = k
    BY <1>6, <2>6 DEF size, FoldLeft, MapThenFoldSet
  <2>8. Sto(text, range) = {n \in {IF signed /\ number[1] = "-" THEN -size ELSE size} :
                              digits # <<>> /\ n \in range}
    BY DEF Sto, DigitOf, black, number, signed, body, others, digits, size, FoldLeft, MapThenFoldSet
  <2> QED  BY <1>2, <2>4, <2>6, <2>7, <2>8
<1>5. Sto(<<"-">> \o text, range) = {n \in {-k} : n \in range}
  <2> DEFINE whole  == <<"-">> \o text
             black  == {i \in DOMAIN whole : whole[i] \notin WhiteSpace}
             number == IF black = {} THEN <<>> ELSE SubSeq(whole, Min(black), Len(whole))
             signed == number # <<>> /\ number[1] \in {"-", "+"}
             body   == IF signed THEN Tail(number) ELSE number
             others == {i \in DOMAIN body : body[i] \notin DigitSet}
             digits == IF others = {} THEN body ELSE SubSeq(body, 1, Min(others) - 1)
             size   == FoldLeft(LAMBDA m, digit : 10 * m + DigitOf(digit), 0, digits)
             Some   == DigitSet \cup {"-"}
  <2> HIDE DEF black, number, signed, body, others, digits, size
  <2>1. /\ whole \in Seq(Some) /\ Len(whole) = Len(text) + 1 /\ whole[1] = "-"
        /\ \A i \in 1..Len(text) : whole[i + 1] = text[i]
        /\ DOMAIN whole = 1..(Len(text) + 1)
    <3>1. text \in Seq(Some) /\ <<"-">> \in Seq(Some) /\ Len(<<"-">>) = 1
      BY <1>1, SeqMonotonic
    <3> HIDE DEF Some
    <3>2. /\ whole \in Seq(Some) /\ Len(whole) = 1 + Len(text)
          /\ \A i \in 1..(1 + Len(text)) :
                whole[i] = IF i <= 1 THEN <<"-">>[i] ELSE text[i - 1]
      BY <3>1, ConcatProperties
    <3>3. DOMAIN whole = 1..Len(whole)
      BY <3>2, LenProperties
    <3> HIDE DEF whole
    <3>4. whole[1] = "-"
      BY <1>2, <3>2
    <3>5. \A i \in 1..Len(text) : whole[i + 1] = text[i]
      BY <1>2, <3>2
    <3>6. Len(text) + 1 = 1 + Len(text)
      BY <1>2
    <3> QED  BY <3>2, <3>3, <3>4, <3>5, <3>6
  <2> HIDE DEF whole
  <2>2. black = 1..Len(whole)
    <3>1. "-" \notin WhiteSpace
      BY DEF WhiteSpace
    <3>2. ASSUME NEW i \in 1..(Len(text) + 1)
          PROVE  whole[i] \notin WhiteSpace
      <4>1. CASE i = 1
        BY <2>1, <3>1, <4>1
      <4>2. CASE i # 1
        <5>1. i - 1 \in 1..Len(text) /\ (i - 1) + 1 = i
          BY <1>2, <4>2
        <5>2. whole[i] = text[i - 1]
          BY <2>1, <5>1
        <5>3. text[i - 1] \notin WhiteSpace
          BY <1>2, <5>1
        <5> QED  BY <5>2, <5>3
      <4> QED  BY <4>1, <4>2
    <3> QED  BY <2>1, <3>2 DEF black
  <2>3. Min(black) = 1 /\ black # {}
    <3>1. Len(whole) \in Nat \ {0} /\ 1 \in 1..Len(whole)
      BY <1>2, <2>1
    <3> QED  BY <1>3, <2>2, <3>1
  <2>4. number = whole
    BY <2>1, <2>3, SubSeqFull DEF number
  <2>5. whole # <<>>
    BY <1>2, <2>1
  <2>6. signed /\ number[1] = "-"
    BY <2>1, <2>4, <2>5 DEF signed
  <2>7. Tail(whole) = text
    <3>1. /\ Tail(whole) \in Seq(Some) /\ Len(Tail(whole)) = Len(text)
          /\ \A i \in 1..Len(text) : Tail(whole)[i] = whole[i + 1]
      BY <1>2, <2>1, <2>5, HeadTailProperties
    <3>2. text \in Seq(Some)
      BY <1>1, SeqMonotonic
    <3> HIDE DEF Some
    <3>3. \A i \in 1..Len(text) : Tail(whole)[i] = text[i]
      BY <2>1, <3>1
    <3> QED  BY <3>1, <3>2, <3>3, SeqEqual
  <2>8. body = text
    BY <2>4, <2>6, <2>7 DEF body
  <2>9. digits = text
    BY <1>2, <2>8 DEF digits, others
  <2>10. size = k
    BY <1>6, <2>9 DEF size, FoldLeft, MapThenFoldSet
  <2>11. Sto(whole, range) = {n \in {IF signed /\ number[1] = "-" THEN -size ELSE size} :
                              digits # <<>> /\ n \in range}
    BY DEF Sto, DigitOf, black, number, signed, body, others, digits, size, FoldLeft, MapThenFoldSet
  <2> QED  BY <1>2, <2>6, <2>9, <2>10, <2>11 DEF whole
<1> QED  BY <1>4, <1>5

\* std::to_string and stol: a number comes back from its digits if it is in range
LEMMA DecimalReadsBack ==
    ASSUME NEW n \in Int, NEW range
    PROVE  Sto(Decimal(n), range) = {m \in {n} : m \in range}
<1>1. CASE n >= 0
  BY <1>1, DecimalSpells, StoSpelled
<1>2. CASE n < 0
  <2> DEFINE k == -n
  <2>1. k \in Nat /\ k > 0 /\ -k = n
    BY <1>2
  <2> HIDE DEF k
  <2>2. PICK text : Spells(text, k) /\ Decimal(-k) = <<"-">> \o text
    BY <2>1, DecimalSpells
  <2>3. Sto(<<"-">> \o text, range) = {m \in {-k} : m \in range}
    BY <2>1, <2>2, StoSpelled
  <2> QED  BY <2>1, <2>2, <2>3
<1> QED  BY <1>1, <1>2

-----------------------------------------------------------------------------
(* Recursion over values.                                                  *)

\* A recursion that goes down from every argument to lesser ones has a solution:
\* one up to each depth, and they agree
Descends(D, R, depth, F) ==
    /\ depth \in [D -> Nat]
    /\ F \in [[D -> R] -> [D -> R]] /\ [D -> R] # {}
    /\ \A f, g \in [D -> R] : \A v \in D :
          (\A w \in D : depth[w] < depth[v] => f[w] = g[w]) => F[f][v] = F[g][v]
Solution(D, R, F, g) == g \in [D -> R] /\ g = F[g]

LEMMA RecursionSolved ==
    ASSUME NEW D, NEW R, NEW depth, NEW F, Descends(D, R, depth, F)
    PROVE  \E g : Solution(D, R, F, g)
<1> DEFINE Solves(g, k) == /\ g \in [D -> R]
                           /\ \A v \in D : depth[v] < k => g[v] = F[g][v]
           S == {k \in Nat : \E g : Solves(g, k)}
           U == {k \in Nat : \A f, g : Solves(f, k) /\ Solves(g, k) =>
                               \A v \in D : depth[v] < k => f[v] = g[v]}
<1>0. /\ \A v \in D : depth[v] \in Nat
      /\ \A g \in [D -> R] : F[g] \in [D -> R]
  BY DEF Descends
<1>1. ASSUME NEW f \in [D -> R], NEW g \in [D -> R], NEW v \in D,
             \A w \in D : depth[w] < depth[v] => f[w] = g[w]
      PROVE  F[f][v] = F[g][v]
  BY <1>1 DEF Descends
<1>2. Nat \subseteq S
  <2>1. 0 \in S
    <3>1. PICK first : first \in [D -> R]
      BY DEF Descends
    <3>2. Solves(first, 0)
      BY <1>0, <3>1
    <3> HIDE DEF Solves
    <3> QED  BY <3>2
  <2>2. ASSUME NEW k \in Nat, k \in S
        PROVE  k + 1 \in S
    <3>1. PICK g : Solves(g, k)
      BY <2>2
    <3> DEFINE f == F[g]
    <3>2. f \in [D -> R] /\ g \in [D -> R]
      BY <1>0, <3>1
    <3>3. ASSUME NEW v \in D, depth[v] < k + 1
          PROVE  f[v] = F[f][v]
      <4>1. \A w \in D : depth[w] < depth[v] => g[w] = f[w]
        BY <1>0, <3>1, <3>3
      <4> HIDE DEF f
      <4>2. F[g][v] = F[f][v]
        BY <1>1, <3>2, <4>1
      <4> QED  BY <4>2 DEF f
    <3> HIDE DEF f
    <3>4. Solves(f, k + 1)
      BY <3>2, <3>3
    <3> HIDE DEF Solves
    <3> QED  BY <3>4
  <2> HIDE DEF S
  <2> QED  BY <2>1, <2>2, AllNumbers
<1>3. Nat \subseteq U
  <2>1. 0 \in U
    BY <1>0
  <2>2. ASSUME NEW k \in Nat, k \in U
        PROVE  k + 1 \in U
    <3> SUFFICES ASSUME NEW f, NEW g, Solves(f, k + 1), Solves(g, k + 1),
                        NEW v \in D, depth[v] < k + 1
                 PROVE  f[v] = g[v]
      OBVIOUS
    <3>1. Solves(f, k) /\ Solves(g, k)
      BY <1>0
    <3>2. \A w \in D : depth[w] < k => f[w] = g[w]
      <4> HIDE DEF Solves
      <4> QED  BY <2>2, <3>1
    <3>3. \A w \in D : depth[w] < depth[v] => f[w] = g[w]
      BY <1>0, <3>2
    <3>4. F[f][v] = F[g][v]
      BY <1>1, <3>3
    <3> QED  BY <3>4
  <2> HIDE DEF U
  <2> QED  BY <2>1, <2>2, AllNumbers
<1> DEFINE at == [v \in D |-> CHOOSE g : Solves(g, depth[v] + 1)]
           all == [v \in D |-> at[v][v]]
<1>4. ASSUME NEW v \in D
      PROVE  Solves(at[v], depth[v] + 1)
  <2>1. depth[v] + 1 \in S
    BY <1>0, <1>2
  <2> HIDE DEF Solves
  <2> QED  BY <2>1
<1> HIDE DEF at
<1>5. ASSUME NEW v \in D, NEW w \in D, depth[w] <= depth[v]
      PROVE  at[v][w] = all[w]
  <2>1. Solves(at[v], depth[w] + 1)
    BY <1>0, <1>4, <1>5
  <2>2. Solves(at[w], depth[w] + 1)
    BY <1>4
  <2>3. depth[w] + 1 \in U /\ depth[w] < depth[w] + 1
    BY <1>0, <1>3
  <2> HIDE DEF Solves
  <2> QED  BY <2>1, <2>2, <2>3
<1>6. all \in [D -> R]
  BY <1>0, <1>4
<1>7. ASSUME NEW v \in D
      PROVE  all[v] = F[all][v]
  <2>1. at[v] \in [D -> R] /\ at[v][v] = F[at[v]][v]
    BY <1>0, <1>4
  <2>2. \A w \in D : depth[w] < depth[v] => at[v][w] = all[w]
    BY <1>0, <1>5
  <2>3. at[v][v] = all[v]
    BY <1>0
  <2> HIDE DEF all
  <2>4. F[at[v]][v] = F[all][v]
    BY <1>1, <1>6, <2>1, <2>2
  <2> QED  BY <2>1, <2>3, <2>4
<1> HIDE DEF all
<1>8. all = F[all]
  BY <1>0, <1>6, <1>7
<1> QED  BY <1>6, <1>8 DEF Solution

-----------------------------------------------------------------------------
(* Orders.                                                                 *)

\* A strict total order of the members of S, as a set of pairs
Orders(R, S) ==
    /\ \A a \in S : <<a, a>> \notin R
    /\ \A a, b \in S : a = b \/ <<a, b>> \in R \/ <<b, a>> \in R
    /\ \A a, b, c \in S : <<a, b>> \in R /\ <<b, c>> \in R => <<a, c>> \in R

\* The order of sequences by their first difference, at k
LexAt(R, s, t, k) ==
    /\ k \in 1..(Len(s) + 1) /\ k <= Len(t)
    /\ \A i \in 1..(k - 1) : s[i] = t[i]
    /\ k = Len(s) + 1 \/ <<s[k], t[k]>> \in R
Lex(R, s, t) == \E k \in Nat : LexAt(R, s, t, k)

LEMMA LexNotSelf ==
    ASSUME NEW S, NEW R, Orders(R, S), NEW s \in Seq(S)
    PROVE  ~ Lex(R, s, s)
<1> SUFFICES ASSUME NEW k \in Nat, LexAt(R, s, s, k)
             PROVE  FALSE
  BY DEF Lex
<1>1. Len(s) \in Nat
  BY LenProperties
<1>2. k \in 1..Len(s) /\ k # Len(s) + 1
  BY <1>1 DEF LexAt
<1>3. s[k] \in S
  BY <1>2, ElementOfSeq
<1> QED  BY <1>2, <1>3 DEF LexAt, Orders

LEMMA LexTotal ==
    ASSUME NEW S, NEW R, Orders(R, S), NEW s \in Seq(S), NEW t \in Seq(S), s # t
    PROVE  Lex(R, s, t) \/ Lex(R, t, s)
<1> DEFINE D == {k \in Nat : k > 0 /\ (k > Len(s) \/ k > Len(t) \/ s[k] # t[k])}
           k == Min(D)
           m == Len(s)
           n == Len(t)
<1>1. m \in Nat /\ n \in Nat
  BY LenProperties
<1>2. D \in SUBSET Nat /\ m + 1 \in D
  <2> HIDE DEF n
  <2> QED  BY <1>1
<1>3. k \in D /\ \A j \in D : k <= j
  <2> HIDE DEF D
  <2> QED  BY <1>2, MinIs
<1>4. k \in Nat /\ k > 0 /\ (k > m \/ k > n \/ s[k] # t[k])
  <2> HIDE DEF k
  <2> QED  BY <1>3
<1> HIDE DEF k
<1>5. \A i \in 1..(k - 1) : i <= m /\ i <= n /\ s[i] = t[i]
  <2> SUFFICES ASSUME NEW i \in 1..(k - 1)
               PROVE  i <= m /\ i <= n /\ s[i] = t[i]
    OBVIOUS
  <2>1. i \in Nat /\ i > 0 /\ i < k
    BY <1>4
  <2>2. i \notin D
    <3> HIDE DEF D
    <3> QED  BY <1>3, <1>4, <2>1
  <2>3. ~ (i > m) /\ ~ (i > n) /\ s[i] = t[i]
    BY <2>1, <2>2
  <2> HIDE DEF m, n, D
  <2> QED  BY <1>1, <2>1, <2>3
<1> HIDE DEF D
<1>6. k <= m + 1 /\ k <= n + 1
  <2>1. k - 1 = 0 \/ k - 1 \in 1..(k - 1)
    BY <1>4
  <2> HIDE DEF m, n
  <2> QED  BY <1>1, <1>4, <1>5, <2>1
<1>7. CASE k > m /\ k > n
  <2>1. m = n
    <3> HIDE DEF m, n
    <3> QED  BY <1>1, <1>4, <1>6, <1>7
  <2>2. \A i \in 1..Len(s) : s[i] = t[i]
    <3> TAKE i \in 1..Len(s)
    <3>1. i \in 1..(k - 1)
      BY <1>1, <1>4, <1>7
    <3> QED  BY <1>5, <3>1
  <2>3. s = t
    BY <2>1, <2>2, SeqEqual
  <2> QED  BY <2>3
<1>8. CASE k > m /\ k <= n
  <2>1. k = Len(s) + 1
    <3>1. k = m + 1
      <4> HIDE DEF m, n
      <4> QED  BY <1>1, <1>4, <1>6, <1>8
    <3> QED  BY <3>1
  <2>2. k \in 1..(Len(s) + 1)
    BY <1>1, <1>4, <2>1
  <2>3. LexAt(R, s, t, k)
    BY <1>5, <1>8, <2>1, <2>2 DEF LexAt
  <2> QED  BY <1>4, <2>3 DEF Lex
<1>9. CASE k > n /\ k <= m
  <2>1. k = Len(t) + 1
    <3>1. k = n + 1
      <4> HIDE DEF m, n
      <4> QED  BY <1>1, <1>4, <1>6, <1>9
    <3> QED  BY <3>1
  <2>2. k \in 1..(Len(t) + 1)
    BY <1>1, <1>4, <2>1
  <2>3. LexAt(R, t, s, k)
    BY <1>5, <1>9, <2>1, <2>2 DEF LexAt
  <2> QED  BY <1>4, <2>3 DEF Lex
<1>10. CASE k <= m /\ k <= n
  <2>1. s[k] # t[k] /\ k \in 1..Len(s) /\ k \in 1..Len(t)
    BY <1>1, <1>4, <1>10
  <2>2. s[k] \in S /\ t[k] \in S
    BY <2>1, ElementOfSeq
  <2>3. <<s[k], t[k]>> \in R \/ <<t[k], s[k]>> \in R
    BY <2>1, <2>2 DEF Orders
  <2>4. k \in 1..(Len(s) + 1) /\ k \in 1..(Len(t) + 1)
    BY <1>1, <1>4, <1>10
  <2>5. \A i \in 1..(k - 1) : s[i] = t[i] /\ t[i] = s[i]
    BY <1>5
  <2>6. CASE <<s[k], t[k]>> \in R
    <3>1. LexAt(R, s, t, k)
      BY <1>10, <2>4, <2>5, <2>6 DEF LexAt
    <3> QED  BY <1>4, <3>1 DEF Lex
  <2>7. CASE <<t[k], s[k]>> \in R
    <3>1. LexAt(R, t, s, k)
      BY <1>10, <2>4, <2>5, <2>7 DEF LexAt
    <3> QED  BY <1>4, <3>1 DEF Lex
  <2> QED  BY <2>3, <2>6, <2>7
<1> QED
  <2> HIDE DEF m, n
  <2> QED  BY <1>1, <1>4, <1>7, <1>8, <1>9, <1>10

LEMMA LexTransitive ==
    ASSUME NEW S, NEW R, Orders(R, S), NEW s \in Seq(S), NEW t \in Seq(S), NEW u \in Seq(S),
           Lex(R, s, t), Lex(R, t, u)
    PROVE  Lex(R, s, u)
<1>1. Len(s) \in Nat /\ Len(t) \in Nat /\ Len(u) \in Nat
  BY LenProperties
<1>2. PICK k \in Nat : LexAt(R, s, t, k)
  BY DEF Lex
<1>3. PICK m \in Nat : LexAt(R, t, u, m)
  BY DEF Lex
<1>4. /\ k \in 1..(Len(s) + 1) /\ k <= Len(t) /\ \A i \in 1..(k - 1) : s[i] = t[i]
      /\ k = Len(s) + 1 \/ <<s[k], t[k]>> \in R
  BY <1>2 DEF LexAt
<1>5. /\ m \in 1..(Len(t) + 1) /\ m <= Len(u) /\ \A i \in 1..(m - 1) : t[i] = u[i]
      /\ m = Len(t) + 1 \/ <<t[m], u[m]>> \in R
  BY <1>3 DEF LexAt
<1>6. CASE k < m
  <2>1. k \in 1..(m - 1) /\ k <= Len(u)
    BY <1>1, <1>4, <1>5, <1>6
  <2>2. \A i \in 1..(k - 1) : s[i] = u[i]
    <3> TAKE i \in 1..(k - 1)
    <3>1. i \in 1..(m - 1)
      BY <2>1
    <3> QED  BY <1>4, <1>5, <3>1
  <2>3. k = Len(s) + 1 \/ <<s[k], u[k]>> \in R
    BY <1>4, <1>5, <2>1
  <2>4. LexAt(R, s, u, k)
    BY <1>4, <2>1, <2>2, <2>3 DEF LexAt
  <2> QED  BY <2>4 DEF Lex
<1>7. CASE k = m
  <2>1. \A i \in 1..(k - 1) : s[i] = u[i]
    BY <1>4, <1>5, <1>7
  <2>2. k = Len(s) + 1 \/ <<s[k], u[k]>> \in R
    <3> SUFFICES ASSUME k # Len(s) + 1
                 PROVE  <<s[k], u[k]>> \in R
      OBVIOUS
    <3>1. k \in 1..Len(s) /\ k \in 1..Len(t) /\ k \in 1..Len(u) /\ k # Len(t) + 1
      BY <1>1, <1>4, <1>5, <1>7
    <3>2. s[k] \in S /\ t[k] \in S /\ u[k] \in S
      BY <3>1, ElementOfSeq
    <3>3. <<s[k], t[k]>> \in R /\ <<t[k], u[k]>> \in R
      BY <1>4, <1>5, <1>7, <3>1
    <3> QED  BY <3>2, <3>3 DEF Orders
  <2>3. LexAt(R, s, u, k)
    BY <1>4, <1>5, <1>7, <2>1, <2>2 DEF LexAt
  <2> QED  BY <2>3 DEF Lex
<1>8. CASE m < k
  <2>1. m \in 1..(k - 1) /\ m \in 1..(Len(s) + 1) /\ m # Len(t) + 1
    BY <1>1, <1>4, <1>5, <1>8
  <2>2. \A i \in 1..(m - 1) : s[i] = u[i]
    <3> TAKE i \in 1..(m - 1)
    <3>1. i \in 1..(k - 1)
      BY <2>1
    <3> QED  BY <1>4, <1>5, <3>1
  <2>3. <<s[m], u[m]>> \in R
    BY <1>4, <1>5, <2>1
  <2>4. LexAt(R, s, u, m)
    BY <1>5, <2>1, <2>2, <2>3 DEF LexAt
  <2> QED  BY <2>4 DEF Lex
<1> QED
  <2>1. k < m \/ k = m \/ m < k
    OBVIOUS
  <2> QED  BY <1>6, <1>7, <1>8, <2>1

\* Sequences are ordered if their elements are
LEMMA LexOrders ==
    ASSUME NEW S, NEW R, Orders(R, S), NEW Q,
           \A s, t \in Seq(S) : <<s, t>> \in Q <=> Lex(R, s, t)
    PROVE  Orders(Q, Seq(S))
<1>1. \A s \in Seq(S) : <<s, s>> \notin Q
  BY LexNotSelf
<1>2. \A s, t \in Seq(S) : s = t \/ <<s, t>> \in Q \/ <<t, s>> \in Q
  BY LexTotal
<1>3. \A s, t, u \in Seq(S) : <<s, t>> \in Q /\ <<t, u>> \in Q => <<s, u>> \in Q
  BY LexTransitive
<1> QED  BY <1>1, <1>2, <1>3 DEF Orders

-----------------------------------------------------------------------------
(* Texts are ordered by the codes of their bytes.                          *)

CodeBelow == {p \in (DOMAIN CodeOf) \X (DOMAIN CodeOf) : CodeOf[p[1]] < CodeOf[p[2]]}

LEMMA CodeOfIs == \A b \in DOMAIN CodeOf : CodeOf[b] \in Nat /\ Bytecodes[CodeOf[b]] = b
<1> DEFINE first == <<"NUL", "LF", "CR", "SP", "QUOTE", "$", "*", "+", "-">>
           last == <<":", "OK", "message", "pmessage", "x">>
           X == {"NUL", "LF", "CR", "SP", "QUOTE", "$", "*", "+", "-"}
                   \cup {"0", "1", "2", "3", "4", "5", "6", "7", "8", "9"}
                   \cup {":", "OK", "message", "pmessage", "x"}
<1>1. first \in Seq(X) /\ last \in Seq(X)
  OBVIOUS
<1>2. Digits \in Seq(X)
  BY DEF Digits
<1>3. Bytecodes = (first \o Digits) \o last
  BY DEF Bytecodes
<1> HIDE DEF first, last, X
<1>4. Bytecodes \in Seq(X)
  BY <1>1, <1>2, <1>3, ConcatProperties
<1>5. DOMAIN Bytecodes \subseteq Nat
  <2>1. Len(Bytecodes) \in Nat /\ DOMAIN Bytecodes = 1..Len(Bytecodes)
    BY <1>4, LenProperties
  <2> QED  BY <2>1
<1> QED  BY <1>5 DEF CodeOf

LEMMA CodesOrdered == Orders(CodeBelow, DOMAIN CodeOf)
<1>1. \A a, b \in DOMAIN CodeOf : <<a, b>> \in CodeBelow <=> CodeOf[a] < CodeOf[b]
  BY DEF CodeBelow
<1>2. \A a, b \in DOMAIN CodeOf : CodeOf[a] = CodeOf[b] => a = b
  BY CodeOfIs
<1>3. \A a \in DOMAIN CodeOf : CodeOf[a] \in Nat
  BY CodeOfIs
<1> QED  BY <1>1, <1>2, <1>3 DEF Orders

LEMMA SamePrefix ==
    ASSUME NEW S, NEW s \in Seq(S), NEW t \in Seq(S), NEW n \in Nat, n <= Len(s), n <= Len(t)
    PROVE  SubSeq(s, 1, n) = SubSeq(t, 1, n) <=> \A i \in 1..n : s[i] = t[i]
<1> DEFINE p == SubSeq(s, 1, n)
           q == SubSeq(t, 1, n)
<1>1. Len(s) \in Nat /\ Len(t) \in Nat
  BY LenProperties
<1>2. \A i \in 1..n : i \in 1..Len(s) /\ i \in 1..Len(t)
  BY <1>1
<1>3. \A i \in 1..n : s[i] \in S /\ t[i] \in S
  BY <1>2, ElementOfSeq
<1>4. 1 \in Int /\ n \in Int /\ n - 1 + 1 = n /\ (1 <= n \/ n = 0)
  OBVIOUS
<1>5. p \in Seq(S) /\ q \in Seq(S)
  BY <1>3, <1>4, SubSeqProperties
<1>6. Len(p) = IF 1 <= n THEN n - 1 + 1 ELSE 0
  BY <1>3, <1>4, SubSeqProperties
<1>7. Len(q) = IF 1 <= n THEN n - 1 + 1 ELSE 0
  BY <1>3, <1>4, SubSeqProperties
<1>8. \A i \in 1..(n - 1 + 1) : p[i] = s[1 + i - 1]
  BY <1>3, <1>4, SubSeqProperties
<1>9. \A i \in 1..(n - 1 + 1) : q[i] = t[1 + i - 1]
  BY <1>3, <1>4, SubSeqProperties
<1> HIDE DEF p, q
<1>10. Len(p) = n /\ Len(q) = n
  BY <1>4, <1>6, <1>7
<1>11. \A i \in 1..n : p[i] = s[i] /\ q[i] = t[i]
  <2> TAKE i \in 1..n
  <2>1. 1 + i - 1 = i /\ i \in 1..(n - 1 + 1)
    BY <1>4
  <2> QED  BY <1>8, <1>9, <2>1
<1>12. p = q => \A i \in 1..n : s[i] = t[i]
  BY <1>11
<1>13. (\A i \in 1..n : s[i] = t[i]) => p = q
  <2> SUFFICES ASSUME \A i \in 1..n : s[i] = t[i]
               PROVE  p = q
    OBVIOUS
  <2>1. \A i \in 1..Len(p) : p[i] = q[i]
    BY <1>10, <1>11
  <2>2. Len(p) = Len(q)
    BY <1>10
  <2> QED  BY <1>5, <2>1, <2>2, SeqEqual
<1> QED  BY <1>12, <1>13 DEF p, q

\* TextLess, of bytes
LEMMA TextLessIs ==
    ASSUME NEW s \in Seq(DOMAIN CodeOf), NEW t \in Seq(DOMAIN CodeOf)
    PROVE  TextLess(s, t) <=> Lex(CodeBelow, s, t)
<1> DEFINE S == DOMAIN CodeOf
           m == Len(s)
           n == Len(t)
<1>1. Len(s) \in Nat /\ Len(t) \in Nat /\ DOMAIN s = 1..Len(s) /\ DOMAIN t = 1..Len(t)
  BY LenProperties
<1>2. ASSUME NEW a \in S, NEW b \in S
      PROVE  <<a, b>> \in CodeBelow <=> CodeOf[a] < CodeOf[b]
  BY DEF CodeBelow
<1>9. m \in Nat /\ n \in Nat
  BY <1>1
<1> HIDE DEF S
<1>0. s \in Seq(S) /\ t \in Seq(S)
  BY DEF S
<1>3. ASSUME IsStrictPrefix(s, t)
      PROVE  Lex(CodeBelow, s, t)
  <2> DEFINE k == Len(s) + 1
  <2>1. Len(s) <= Len(t) /\ SubSeq(s, 1, Len(s)) = SubSeq(t, 1, Len(s)) /\ s # t
    BY <1>3 DEF IsStrictPrefix, IsPrefix
  <2>2. \A i \in 1..Len(s) : s[i] = t[i]
    <3>1. Len(s) <= Len(s)
      BY <1>1
    <3> QED  BY <1>0, <1>1, <2>1, <3>1, SamePrefix
  <2>3. Len(s) # Len(t)
    BY <1>0, <2>1, <2>2, SeqEqual
  <2>4. k \in Nat /\ k \in 1..(Len(s) + 1) /\ k <= Len(t) /\ k - 1 = Len(s)
    <3>1. m <= n /\ m # n
      BY <2>1, <2>3
    <3>2. m + 1 \in Nat /\ m + 1 \in 1..(m + 1) /\ m + 1 <= n /\ (m + 1) - 1 = m
      <4> HIDE DEF m, n
      <4> QED  BY <1>9, <3>1
    <3> QED  BY <3>2
  <2> HIDE DEF k
  <2>5. LexAt(CodeBelow, s, t, k)
    BY <2>2, <2>4 DEF LexAt, k
  <2> QED  BY <2>4, <2>5 DEF Lex
<1>4. ASSUME NEW k \in DOMAIN s \cap DOMAIN t,
             SubSeq(s, 1, k - 1) = SubSeq(t, 1, k - 1), CodeOf[s[k]] < CodeOf[t[k]]
      PROVE  Lex(CodeBelow, s, t)
  <2>1. /\ k \in 1..Len(s) /\ k \in 1..Len(t) /\ k \in Nat /\ k - 1 \in Nat
        /\ k - 1 <= Len(s) /\ k - 1 <= Len(t) /\ k \in 1..(Len(s) + 1) /\ k <= Len(t)
    BY <1>1
  <2>2. \A i \in 1..(k - 1) : s[i] = t[i]
    BY <1>0, <1>4, <2>1, SamePrefix
  <2>3. s[k] \in S /\ t[k] \in S
    BY <1>0, <2>1, ElementOfSeq
  <2>4. <<s[k], t[k]>> \in CodeBelow
    BY <1>2, <1>4, <2>3
  <2>5. LexAt(CodeBelow, s, t, k)
    BY <2>1, <2>2, <2>4 DEF LexAt
  <2> QED  BY <2>1, <2>5 DEF Lex
<1>5. ASSUME NEW k \in Nat, LexAt(CodeBelow, s, t, k)
      PROVE  TextLess(s, t)
  <2>1. /\ k \in 1..(Len(s) + 1) /\ k <= Len(t) /\ \A i \in 1..(k - 1) : s[i] = t[i]
        /\ k = Len(s) + 1 \/ <<s[k], t[k]>> \in CodeBelow
    BY <1>5 DEF LexAt
  <2>2. k - 1 \in Nat /\ k - 1 <= Len(s) /\ k - 1 <= Len(t)
    BY <1>1, <2>1
  <2>3. SubSeq(s, 1, k - 1) = SubSeq(t, 1, k - 1)
    BY <1>0, <2>1, <2>2, SamePrefix
  <2>4. CASE k = Len(s) + 1
    <3>1. k - 1 = Len(s) /\ Len(s) # Len(t) /\ Len(s) <= Len(t)
      <4>1. k = m + 1 /\ k <= n
        BY <2>1, <2>4
      <4>2. k - 1 = m /\ m # n /\ m <= n
        <5> HIDE DEF m, n
        <5> QED  BY <1>9, <4>1
      <4> QED  BY <4>2
    <3>2. IsPrefix(s, t)
      BY <2>3, <3>1 DEF IsPrefix
    <3>3. s # t
      BY <3>1
    <3> QED  BY <3>2, <3>3 DEF TextLess, IsStrictPrefix
  <2>5. CASE k # Len(s) + 1
    <3>1. k \in 1..Len(s) /\ k \in 1..Len(t)
      BY <1>1, <2>1, <2>5
    <3>2. s[k] \in S /\ t[k] \in S
      BY <1>0, <3>1, ElementOfSeq
    <3>3. CodeOf[s[k]] < CodeOf[t[k]]
      BY <1>2, <2>1, <2>5, <3>2
    <3>4. k \in DOMAIN s \cap DOMAIN t
      BY <1>1, <3>1
    <3> QED  BY <2>3, <3>3, <3>4 DEF TextLess
  <2> QED  BY <2>4, <2>5
<1>6. TextLess(s, t) => Lex(CodeBelow, s, t)
  BY <1>3, <1>4 DEF TextLess
<1>7. Lex(CodeBelow, s, t) => TextLess(s, t)
  BY <1>5 DEF Lex
<1> QED  BY <1>6, <1>7

LEMMA TextsOrdered ==
    ASSUME NEW Q, \A s, t \in Seq(DOMAIN CodeOf) : <<s, t>> \in Q <=> TextLess(s, t)
    PROVE  Orders(Q, Seq(DOMAIN CodeOf))
<1>1. \A s, t \in Seq(DOMAIN CodeOf) : <<s, t>> \in Q <=> Lex(CodeBelow, s, t)
  BY TextLessIs
<1> QED  BY <1>1, CodesOrdered, LexOrders

-----------------------------------------------------------------------------
(* Arrays are ordered like texts.                                          *)

\* One turn of LessItems
LessTurn(below, above, next) ==
    LET same == (IF TRUE \in above THEN {FALSE} ELSE {})
                   \cup (IF FALSE \in above THEN next ELSE {})
    IN  (below \cap {TRUE}) \cup (IF FALSE \in below THEN same ELSE {})
LessFrom(less, s, t, from, k) ==
    IF k > Len(t) THEN {FALSE}
    ELSE IF k > Len(s) THEN {TRUE}
    ELSE LessTurn(less[<<s[k], t[k]>>], less[<<t[k], s[k]>>], from[k + 1])
LessSteps(less, s, t, from) ==
    /\ from \in [Nat -> SUBSET BOOLEAN]
    /\ \A k \in Nat : from[k] = LessFrom(less, s, t, from, k)

LEMMA LessFromTyped ==
    ASSUME NEW less, NEW s, NEW t, NEW from \in [Nat -> SUBSET BOOLEAN], NEW k \in Nat
    PROVE  LessFrom(less, s, t, from, k) \in SUBSET BOOLEAN
<1>1. from[k + 1] \in SUBSET BOOLEAN
  OBVIOUS
<1>2. ASSUME NEW below, NEW above, NEW next \in SUBSET BOOLEAN
      PROVE  LessTurn(below, above, next) \in SUBSET BOOLEAN
  BY <1>2 DEF LessTurn
<1> QED  BY <1>1, <1>2 DEF LessFrom

LEMMA LessItemsIs ==
    ASSUME NEW less, NEW S, NEW s \in Seq(S), NEW t \in Seq(S)
    PROVE  \E from : LessSteps(less, s, t, from) /\ LessItems(less, s, t) = from[1]
<1> DEFINE R == SUBSET BOOLEAN
           n == Len(t)
           depth == [k \in Nat |-> IF k > n THEN 0 ELSE n + 1 - k]
           Unfold == [g \in [Nat -> R] |-> [k \in Nat |-> LessFrom(less, s, t, g, k)]]
           first == [k \in Nat |-> {}]
<1>1. n \in Nat
  BY LenProperties
<1>2. Unfold \in [[Nat -> R] -> [Nat -> R]]
  BY LessFromTyped
<1>3. first \in [Nat -> R]
  OBVIOUS
<1>4. depth \in [Nat -> Nat]
  <2> HIDE DEF n
  <2> QED  BY <1>1
<1>5. ASSUME NEW f \in [Nat -> R], NEW g \in [Nat -> R],
             NEW k \in Nat, \A j \in Nat : depth[j] < depth[k] => f[j] = g[j]
      PROVE  Unfold[f][k] = Unfold[g][k]
  <2>1. CASE k > n
    BY <2>1 DEF LessFrom
  <2>2. CASE ~ (k > n)
    <3>1. depth[k + 1] < depth[k] /\ k + 1 \in Nat
      <4> HIDE DEF n
      <4> QED  BY <1>1, <2>2
    <3>2. f[k + 1] = g[k + 1]
      BY <1>5, <3>1
    <3> QED  BY <3>2 DEF LessFrom
  <2> QED  BY <2>1, <2>2
<1> HIDE DEF Unfold, first, depth
<1>6. Descends(Nat, R, depth, Unfold)
  BY <1>2, <1>3, <1>4, <1>5 DEF Descends
<1>7. PICK g : Solution(Nat, R, Unfold, g)
  BY <1>6, RecursionSolved
<1>8. g \in [Nat -> R] /\ g = [k \in Nat |-> LessFrom(less, s, t, g, k)]
  BY <1>7 DEF Solution, Unfold
<1> DEFINE from[k \in Nat] ==
             IF k > Len(t) THEN {FALSE}
             ELSE IF k > Len(s) THEN {TRUE}
             ELSE LET below == less[<<s[k], t[k]>>]
                      above == less[<<t[k], s[k]>>]
                      same  == (IF TRUE \in above THEN {FALSE} ELSE {})
                               \cup (IF FALSE \in above THEN from[k + 1] ELSE {})
                  IN  (below \cap {TRUE}) \cup (IF FALSE \in below THEN same ELSE {})
<1>9. from = [k \in Nat |-> LessFrom(less, s, t, from, k)]
  BY <1>8 DEF LessFrom, LessTurn
<1>10. LessItems(less, s, t) = from[1]
  BY DEF LessItems
<1> HIDE DEF from
<1>11. \A k \in Nat : from[k] = LessFrom(less, s, t, from, k)
  BY <1>9
<1> DEFINE T == {d \in Nat : \A k \in Nat : k + d > n => from[k] \in R}
<1>12. 0 \in T
  <2> SUFFICES ASSUME NEW k \in Nat, k > n
               PROVE  from[k] \in R
    OBVIOUS
  <2>1. from[k] = {FALSE}
    BY <1>11 DEF LessFrom
  <2> QED  BY <2>1
<1>13. ASSUME NEW d \in Nat, d \in T
       PROVE  d + 1 \in T
  <2> SUFFICES ASSUME NEW k \in Nat, k + (d + 1) > n
               PROVE  from[k] \in R
    OBVIOUS
  <2>1. (k + 1) + d > n /\ k + 1 \in Nat
    <3> HIDE DEF n
    <3> QED  BY <1>1
  <2>2. from[k + 1] \in R
    BY <1>13, <2>1
  <2>3. ASSUME NEW below, NEW above, NEW next \in R
        PROVE  LessTurn(below, above, next) \in R
    BY <2>3 DEF LessTurn
  <2>4. LessFrom(less, s, t, from, k) \in R
    BY <2>2, <2>3 DEF LessFrom
  <2> QED  BY <1>11, <2>4
<1> HIDE DEF T
<1>14. Nat \subseteq T
  BY <1>12, <1>13, AllNumbers
<1>15. from \in [Nat -> R]
  <2>1. ASSUME NEW k \in Nat
        PROVE  from[k] \in R
    <3>1. n + 1 \in T /\ k + (n + 1) > n
      <4> HIDE DEF n
      <4> QED  BY <1>1, <1>14
    <3> QED  BY <3>1 DEF T
  <2>2. from = [k \in Nat |-> from[k]]
    BY <1>9
  <2> HIDE DEF R
  <2> QED  BY <2>1, <2>2
<1>16. LessSteps(less, s, t, from)
  BY <1>11, <1>15 DEF LessSteps
<1> QED  BY <1>10, <1>16

\* It asks only for the elements at the same place
SameAt(f, g, s, t) ==
    \A k \in 1..Len(t) : k <= Len(s) =>
       f[<<s[k], t[k]>>] = g[<<s[k], t[k]>>] /\ f[<<t[k], s[k]>>] = g[<<t[k], s[k]>>]

LEMMA LessItemsSame ==
    ASSUME NEW S, NEW s \in Seq(S), NEW t \in Seq(S), NEW f, NEW g, SameAt(f, g, s, t)
    PROVE  LessItems(f, s, t) = LessItems(g, s, t)
<1> DEFINE n == Len(t)
<1>1. n \in Nat /\ Len(s) \in Nat
  BY LenProperties
<1>2. PICK h : LessSteps(f, s, t, h) /\ LessItems(f, s, t) = h[1]
  BY LessItemsIs
<1>3. PICK l : LessSteps(g, s, t, l) /\ LessItems(g, s, t) = l[1]
  BY LessItemsIs
<1> DEFINE T == {d \in Nat : \A k \in Nat : k > 0 /\ k + d > n => h[k] = l[k]}
<1>4. ASSUME NEW k \in Nat
      PROVE  h[k] = LessFrom(f, s, t, h, k) /\ l[k] = LessFrom(g, s, t, l, k)
  BY <1>2, <1>3 DEF LessSteps
<1>5. 0 \in T
  <2> SUFFICES ASSUME NEW k \in Nat, k > n
               PROVE  h[k] = l[k]
    OBVIOUS
  <2> QED  BY <1>4 DEF LessFrom
<1>6. ASSUME NEW d \in Nat, d \in T
      PROVE  d + 1 \in T
  <2> SUFFICES ASSUME NEW k \in Nat, k > 0, k + (d + 1) > n
               PROVE  h[k] = l[k]
    OBVIOUS
  <2>1. (k + 1) + d > n /\ k + 1 \in Nat /\ k + 1 > 0
    <3> HIDE DEF n
    <3> QED  BY <1>1
  <2>2. h[k + 1] = l[k + 1]
    BY <1>6, <2>1
  <2>3. CASE k > Len(t) \/ k > Len(s)
    BY <1>4, <2>3 DEF LessFrom
  <2>4. CASE ~ (k > Len(t)) /\ ~ (k > Len(s))
    <3>1. k \in 1..Len(t) /\ k <= Len(s)
      BY <1>1, <2>4
    <3>2. f[<<s[k], t[k]>>] = g[<<s[k], t[k]>>] /\ f[<<t[k], s[k]>>] = g[<<t[k], s[k]>>]
      BY <3>1 DEF SameAt
    <3>3. h[k] = LessTurn(f[<<s[k], t[k]>>], f[<<t[k], s[k]>>], h[k + 1])
      BY <1>4, <2>4 DEF LessFrom
    <3>4. l[k] = LessTurn(g[<<s[k], t[k]>>], g[<<t[k], s[k]>>], l[k + 1])
      BY <1>4, <2>4 DEF LessFrom
    <3> QED  BY <2>2, <3>2, <3>3, <3>4
  <2> QED  BY <2>3, <2>4
<1> HIDE DEF T
<1>7. Nat \subseteq T
  BY <1>5, <1>6, AllNumbers
<1>8. h[1] = l[1]
  <2>1. n \in T /\ 1 + n > n /\ 1 > 0
    <3> HIDE DEF n
    <3> QED  BY <1>1, <1>7
  <2> QED  BY <2>1 DEF T
<1> QED  BY <1>2, <1>3, <1>8

\* Of elements that are ordered it gives one answer, that of their order
Tells(less, R, S) ==
    \A a, b \in S : less[<<a, b>>] = {(<<a, b>> \in R)}
LEMMA LessItemsLex ==
    ASSUME NEW S, NEW R, Orders(R, S), NEW less, Tells(less, R, S),
           NEW s \in Seq(S), NEW t \in Seq(S)
    PROVE  LessItems(less, s, t) = {Lex(R, s, t)}
<1> DEFINE n == Len(t)
           Agree(k) == k - 1 <= Len(s) /\ k - 1 <= n /\ \A i \in 1..(k - 1) : s[i] = t[i]
<1>1. n \in Nat /\ Len(s) \in Nat /\ Len(t) \in Nat
  BY LenProperties
<1>2. PICK from : LessSteps(less, s, t, from) /\ LessItems(less, s, t) = from[1]
  BY LessItemsIs
<1> DEFINE T == {d \in Nat : \A k \in Nat : k > 0 /\ k + d > n /\ Agree(k)
                                               => from[k] = {Lex(R, s, t)}}
<1>3. ASSUME NEW k \in Nat
      PROVE  from[k] = LessFrom(less, s, t, from, k)
  BY <1>2 DEF LessSteps
<1>4. ASSUME NEW i \in 1..Len(s), i <= Len(t)
      PROVE  s[i] \in S /\ t[i] \in S
  <2>1. i \in 1..Len(t)
    BY <1>1, <1>4
  <2> QED  BY <2>1, ElementOfSeq
<1>5. ASSUME NEW k \in Nat, k > Len(t), Agree(k)
      PROVE  from[k] = {Lex(R, s, t)}
  <2>1. ASSUME NEW j \in Nat, LexAt(R, s, t, j)
        PROVE  FALSE
    <3>1. j \in 1..(Len(s) + 1) /\ j <= Len(t) /\ (j = Len(s) + 1 \/ <<s[j], t[j]>> \in R)
      BY <2>1 DEF LexAt
    <3>2. k - 1 <= Len(s) /\ \A i \in 1..(k - 1) : s[i] = t[i]
      BY <1>5
    <3>3. j \in 1..(k - 1) /\ j \in 1..Len(s) /\ j # Len(s) + 1
      BY <1>1, <1>5, <3>1, <3>2
    <3>4. s[j] = t[j] /\ s[j] \in S
      BY <1>4, <3>1, <3>2, <3>3
    <3> QED  BY <3>1, <3>3, <3>4 DEF Orders
  <2>2. Lex(R, s, t) = FALSE
    BY <2>1 DEF Lex
  <2>3. from[k] = {FALSE}
    BY <1>3, <1>5 DEF LessFrom
  <2> QED  BY <2>2, <2>3
<1>6. ASSUME NEW k \in Nat, k > 0, ~ (k > Len(t)), k > Len(s), Agree(k)
      PROVE  from[k] = {Lex(R, s, t)}
  <2>1. k - 1 <= Len(s) /\ \A i \in 1..(k - 1) : s[i] = t[i]
    BY <1>6
  <2>2. k = Len(s) + 1 /\ k \in 1..(Len(s) + 1) /\ k <= Len(t)
    BY <1>1, <1>6, <2>1
  <2>3. LexAt(R, s, t, k)
    BY <2>1, <2>2 DEF LexAt
  <2>4. Lex(R, s, t) = TRUE
    BY <2>3 DEF Lex
  <2>5. from[k] = {TRUE}
    BY <1>3, <1>6 DEF LessFrom
  <2> QED  BY <2>4, <2>5
<1>7. ASSUME NEW k \in Nat, k > 0, ~ (k > Len(t)), ~ (k > Len(s)), Agree(k),
             Agree(k + 1) => from[k + 1] = {Lex(R, s, t)}
      PROVE  from[k] = {Lex(R, s, t)}
  <2> DEFINE a == s[k]
             b == t[k]
  <2>1. k \in 1..Len(s) /\ k <= Len(t) /\ k \in 1..(Len(s) + 1) /\ k # Len(s) + 1
    BY <1>1, <1>7
  <2>2. a \in S /\ b \in S
    BY <1>4, <2>1
  <2>3. less[<<a, b>>] = {(<<a, b>> \in R)} /\ less[<<b, a>>] = {(<<b, a>> \in R)}
    BY <2>2 DEF Tells
  <2>4. from[k] = LessTurn({(<<a, b>> \in R)}, {(<<b, a>> \in R)}, from[k + 1])
    BY <1>3, <1>7, <2>3 DEF LessFrom
  <2>5. \A i \in 1..(k - 1) : s[i] = t[i]
    BY <1>7
  <2>6. CASE a = b
    <3>1. (<<a, b>> \in R) = FALSE /\ (<<b, a>> \in R) = FALSE
      BY <2>2, <2>6 DEF Orders
    <3>2. from[k] = from[k + 1]
      BY <2>4, <3>1 DEF LessTurn
    <3>3. Agree(k + 1)
      <4>1. (k + 1) - 1 = k /\ k <= Len(s)
        BY <2>1
      <4>2. \A i \in 1..k : s[i] = t[i]
        <5> TAKE i \in 1..k
        <5>1. i \in 1..(k - 1) \/ i = k
          OBVIOUS
        <5> QED  BY <2>5, <2>6, <5>1
      <4> QED  BY <2>1, <4>1, <4>2
    <3> QED  BY <1>7, <3>2, <3>3
  <2>7. CASE <<a, b>> \in R
    <3>1. LexAt(R, s, t, k)
      BY <2>1, <2>5, <2>7 DEF LexAt
    <3>2. Lex(R, s, t) = TRUE
      BY <3>1 DEF Lex
    <3>3. from[k] = {TRUE}
      BY <2>4, <2>7 DEF LessTurn
    <3> QED  BY <3>2, <3>3
  <2>8. CASE a # b /\ <<a, b>> \notin R
    <3>1. <<b, a>> \in R
      BY <2>2, <2>8 DEF Orders
    <3>2. from[k] = {FALSE}
      <4>1. (<<a, b>> \in R) = FALSE /\ (<<b, a>> \in R) = TRUE
        BY <2>8, <3>1
      <4>2. from[k] = LessTurn({FALSE}, {TRUE}, from[k + 1])
        BY <2>4, <4>1
      <4> QED  BY <4>2 DEF LessTurn
    <3>3. ASSUME NEW j \in Nat, LexAt(R, s, t, j)
          PROVE  FALSE
      <4>1. /\ j \in 1..(Len(s) + 1) /\ j <= Len(t) /\ \A i \in 1..(j - 1) : s[i] = t[i]
            /\ j = Len(s) + 1 \/ <<s[j], t[j]>> \in R
        BY <3>3 DEF LexAt
      <4>2. CASE j < k
        <5>1. j \in 1..(k - 1) /\ j \in 1..Len(s) /\ j # Len(s) + 1
          BY <1>1, <2>1, <4>1, <4>2
        <5>2. s[j] = t[j] /\ s[j] \in S
          BY <1>4, <2>5, <4>1, <5>1
        <5> QED  BY <4>1, <5>1, <5>2 DEF Orders
      <4>3. CASE j = k
        BY <2>1, <2>8, <4>1, <4>3
      <4>4. CASE k < j
        <5>1. k \in 1..(j - 1)
          BY <2>1, <4>4
        <5> QED  BY <2>8, <4>1, <5>1
      <4> QED  BY <4>2, <4>3, <4>4
    <3>4. Lex(R, s, t) = FALSE
      BY <3>3 DEF Lex
    <3> QED  BY <3>2, <3>4
  <2> QED  BY <2>6, <2>7, <2>8
<1>8. 0 \in T
  BY <1>5
<1>9. ASSUME NEW d \in Nat, d \in T
      PROVE  d + 1 \in T
  <2> HIDE DEF Agree
  <2> SUFFICES ASSUME NEW k \in Nat, k > 0, k + (d + 1) > n, Agree(k)
               PROVE  from[k] = {Lex(R, s, t)}
    OBVIOUS
  <2>1. (k + 1) + d > n /\ k + 1 \in Nat /\ k + 1 > 0
    <3> HIDE DEF n
    <3> QED  BY <1>1
  <2>2. Agree(k + 1) => from[k + 1] = {Lex(R, s, t)}
    BY <1>9, <2>1
  <2> QED  BY <1>5, <1>6, <1>7, <2>2
<1>10. Agree(1)
  <2>1. 1 - 1 = 0 /\ \A i \in 1..0 : s[i] = t[i]
    OBVIOUS
  <2> QED  BY <1>1, <2>1
<1> HIDE DEF T, Agree
<1>11. Nat \subseteq T
  BY <1>8, <1>9, AllNumbers
<1>12. from[1] = {Lex(R, s, t)}
  <2>1. n \in T /\ 1 + n > n /\ 1 > 0
    <3> HIDE DEF n
    <3> QED  BY <1>1, <1>11
  <2> QED  BY <1>10, <2>1 DEF T
<1> QED  BY <1>2, <1>12
=============================================================================
