----------------------------- MODULE WireProofs -----------------------------
(***************************************************************************)
(* What is written is read back: the parser returns the strings, numbers   *)
(* and arrays whose bytes are in a buffer, wherever in it they begin and   *)
(* whatever is behind them.                                                *)
(***************************************************************************)
EXTENDS ReplyParserProofs

\* Bytes, and the words that are one symbol
Byte == DOMAIN CodeOf \cup DigitSet \cup STRING
           \cup {"CR", "LF", "+", "-", "$", "*", ":", "OK", "x"}

\* The bytes of s are in the buffer b from i on
Holds(b, i, s) ==
    /\ b \in Seq(Byte) /\ i \in Nat \ {0} /\ s \in Seq(Byte)
    /\ i + Len(s) <= End(b)
    /\ \A k \in 1..Len(s) : b[i + k - 1] = s[k]

-----------------------------------------------------------------------------
(* Sequences of sequences.                                                 *)

\* What FlattenSeq has made of the first none, one, two, ... m sequences
Joined(s, t) == s \o t
Flat(ss, m, f) ==
    /\ f[0] = <<>>
    /\ \A j \in 1..m : f[j] = Joined(f[j - 1], ss[j])

LEMMA FlatExists ==
    ASSUME NEW ss, NEW n \in Nat
    PROVE  \E f : Flat(ss, n, f)
<1> DEFINE T == {m \in Nat : \E f : Flat(ss, m, f)}
<1>1. 0 \in T
  <2>1. Flat(ss, 0, [j \in {0} |-> <<>>])
    BY DEF Flat
  <2> QED  BY <2>1
<1>2. ASSUME NEW m \in Nat, m \in T
      PROVE  m + 1 \in T
  <2>1. PICK f : Flat(ss, m, f)
    BY <1>2
  <2> DEFINE g == [j \in 0..(m + 1) |-> IF j <= m THEN f[j] ELSE Joined(f[m], ss[m + 1])]
  <2>2. g[0] = <<>>
    BY <2>1 DEF Flat
  <2>3. ASSUME NEW j \in 1..(m + 1)
        PROVE  g[j] = Joined(g[j - 1], ss[j])
    <3>1. CASE j <= m
      BY <2>1, <3>1 DEF Flat
    <3>2. CASE j = m + 1
      BY <3>2
    <3> QED  BY <3>1, <3>2
  <2>4. Flat(ss, m + 1, g)
    BY <2>2, <2>3 DEF Flat
  <2> QED  BY <2>4
<1> HIDE DEF T
<1>3. Nat \subseteq T
  BY <1>1, <1>2, AllNumbers
<1> QED  BY <1>3 DEF T

\* All of them are sequences, the later ones longer
LEMMA FlatSeqs ==
    ASSUME NEW S, NEW ss \in Seq(Seq(S)), NEW f, Flat(ss, Len(ss), f)
    PROVE  \A j \in 0..Len(ss) : f[j] \in Seq(S)
<1> DEFINE n == Len(ss)
           T == {j \in Nat : j \in 0..n => f[j] \in Seq(S)}
<1>1. n \in Nat /\ \A j \in 1..n : ss[j] \in Seq(S)
  BY LenProperties, ElementOfSeq
<1>2. 0 \in T
  BY EmptySeq DEF Flat
<1>3. ASSUME NEW j \in Nat, j \in T
      PROVE  j + 1 \in T
  <2> SUFFICES ASSUME j + 1 \in 0..n
               PROVE  f[j + 1] \in Seq(S)
    OBVIOUS
  <2>1. f[j] \in Seq(S) /\ j + 1 \in 1..n
    BY <1>1, <1>3
  <2>2. f[j + 1] = Joined(f[j], ss[j + 1])
    <3>1. (j + 1) - 1 = j
      OBVIOUS
    <3> QED  BY <2>1, <3>1 DEF Flat
  <2>3. ss[j + 1] \in Seq(S)
    BY <1>1, <2>1
  <2> QED  BY <2>1, <2>2, <2>3, ConcatProperties DEF Joined
<1> HIDE DEF T
<1>4. Nat \subseteq T
  BY <1>2, <1>3, AllNumbers
<1> QED  BY <1>1, <1>4 DEF T

\* and the last one is what FlattenSeq gives
LEMMA FlatLast ==
    ASSUME NEW S, NEW ss \in Seq(Seq(S)), NEW f, Flat(ss, Len(ss), f)
    PROVE  FlattenSeq(ss) = f[Len(ss)] /\ FlattenSeq(ss) \in Seq(S)
<1> DEFINE n == Len(ss)
           flatten[i \in 1..Len(ss)] ==
             IF i = 1 THEN ss[i] ELSE flatten[i - 1] \o ss[i]
           Step(g, i) == IF i = 1 THEN ss[i] ELSE Joined(g[i - 1], ss[i])
           g == [i \in 1..n |-> f[i]]
<1>1. n \in Nat /\ \A j \in 1..n : ss[j] \in Seq(S)
  BY LenProperties, ElementOfSeq
<1>2. f[n] \in Seq(S)
  BY <1>1, FlatSeqs
<1>3. CASE n = 0
  <2>1. ss = <<>>
    BY <1>3, EmptySeq
  <2> QED  BY <1>2, <1>3, <2>1 DEF Flat, FlattenSeq
<1>4. CASE n # 0
  <2>1. f[1] = ss[1]
    <3>1. 1 \in 1..n /\ 1 - 1 = 0
      BY <1>1, <1>4
    <3>2. f[1] = Joined(<<>>, ss[1]) /\ ss[1] \in Seq(S)
      BY <1>1, <3>1 DEF Flat
    <3> QED  BY <3>2, ConcatEmptySeq DEF Joined
  <2>2. ASSUME NEW i \in 1..n
        PROVE  g[i] = Step(g, i)
    BY <1>1, <2>1 DEF Flat
  <2>3. g = [i \in 1..n |-> Step(g, i)]
    <3>1. g = [i \in 1..n |-> g[i]]
      OBVIOUS
    <3> HIDE DEF g, Step
    <3> QED  BY <2>2, <3>1
  <2>4. flatten = [i \in 1..n |-> Step(flatten, i)]
    <3> HIDE DEF g
    <3> QED  BY <2>3 DEF Joined
  <2>5. FlattenSeq(ss) = flatten[n]
    BY <1>4 DEF FlattenSeq
  <2> HIDE DEF flatten
  <2> DEFINE U == {i \in Nat : i \in 1..n => flatten[i] = f[i]}
  <2>6. 0 \in U
    BY <1>1
  <2>7. ASSUME NEW i \in Nat, i \in U
        PROVE  i + 1 \in U
    <3> SUFFICES ASSUME i + 1 \in 1..n
                 PROVE  flatten[i + 1] = f[i + 1]
      OBVIOUS
    <3>1. flatten[i + 1] = Step(flatten, i + 1) /\ (i + 1) - 1 = i
      BY <2>4
    <3>2. CASE i = 0
      BY <2>1, <3>1, <3>2
    <3>3. CASE i # 0
      <4>1. flatten[i] = f[i]
        BY <1>1, <2>7, <3>3
      <4>2. f[i + 1] = Joined(f[i], ss[i + 1])
        BY <3>1 DEF Flat
      <4>3. i + 1 # 1
        BY <3>3
      <4> QED  BY <3>1, <4>1, <4>2, <4>3
    <3> QED  BY <3>2, <3>3
  <2> HIDE DEF U
  <2>8. n \in U
    BY <1>1, <2>6, <2>7, AllNumbers
  <2>9. flatten[n] = f[n]
    BY <1>1, <1>4, <2>8 DEF U
  <2> QED  BY <1>2, <2>5, <2>9
<1> QED  BY <1>3, <1>4

\* A function of the positions of a sequence is a sequence
LEMMA MappedIs ==
    ASSUME NEW S, NEW T, NEW s \in Seq(S), NEW t, t = [i \in DOMAIN s |-> t[i]],
           \A i \in DOMAIN s : t[i] \in T
    PROVE  t \in Seq(T)
<1>1. Len(s) \in Nat /\ DOMAIN s = 1..Len(s)
  BY LenProperties
<1>2. t \in [1..Len(s) -> T]
  BY <1>1
<1> QED  BY <1>1, <1>2, SeqDef

\* as long as that
LEMMA MappedMany ==
    ASSUME NEW S, NEW s \in Seq(S), NEW t, t = [i \in DOMAIN s |-> t[i]]
    PROVE  Len(t) = Len(s)
<1> DEFINE T == {t[i] : i \in DOMAIN s}
<1>1. t \in Seq(T)
  BY MappedIs
<1>2. Len(t) \in Nat /\ DOMAIN t = 1..Len(t)
  BY <1>1, LenProperties
<1>3. Len(s) \in Nat /\ DOMAIN s = 1..Len(s)
  BY LenProperties
<1> HIDE DEF T
<1>4. 1..Len(t) = 1..Len(s)
  BY <1>2, <1>3
<1> QED  BY <1>2, <1>3, <1>4

-----------------------------------------------------------------------------
(* Parts of a buffer.                                                      *)

LEMMA JoinedLength ==
    ASSUME NEW S, NEW s \in Seq(S), NEW t \in Seq(S)
    PROVE  Joined(s, t) \in Seq(S) /\ Len(Joined(s, t)) = Len(s) + Len(t)
BY ConcatProperties DEF Joined

\* One part behind the other
LEMMA HoldsParts ==
    ASSUME NEW b, NEW i, NEW s \in Seq(Byte), NEW t \in Seq(Byte),
           NEW whole, whole = Joined(s, t), Holds(b, i, whole)
    PROVE  /\ Holds(b, i, s) /\ Holds(b, i + Len(s), t)
           /\ Len(s) \in Nat /\ Len(t) \in Nat
<1>1. /\ Len(whole) = Len(s) + Len(t)
      /\ \A k \in 1..(Len(s) + Len(t)) :
            whole[k] = IF k <= Len(s) THEN s[k] ELSE t[k - Len(s)]
  BY ConcatProperties DEF Joined
<1>2. Len(s) \in Nat /\ Len(t) \in Nat /\ Len(b) \in Nat
  BY LenProperties DEF Holds
<1>3. /\ b \in Seq(Byte) /\ i \in Nat \ {0} /\ i + Len(whole) <= End(b)
      /\ \A k \in 1..Len(whole) : b[i + k - 1] = whole[k]
  BY DEF Holds
<1>4. \A k \in 1..Len(s) : b[i + k - 1] = s[k]
  <2> TAKE k \in 1..Len(s)
  <2>1. k \in 1..Len(whole) /\ whole[k] = s[k]
    BY <1>1, <1>2
  <2> QED  BY <1>3, <2>1
<1>5. \A k \in 1..Len(t) : b[(i + Len(s)) + k - 1] = t[k]
  <2> TAKE k \in 1..Len(t)
  <2>1. Len(s) + k \in 1..Len(whole) /\ whole[Len(s) + k] = t[k]
    BY <1>1, <1>2
  <2>2. b[i + (Len(s) + k) - 1] = t[k]
    BY <1>3, <2>1
  <2>3. i + (Len(s) + k) - 1 = (i + Len(s)) + k - 1
    BY <1>2, <1>3
  <2> QED  BY <2>2, <2>3
<1>6. Len(whole) = Len(s) + Len(t)
  BY <1>1
<1>7. Holds(b, i, s)
  BY <1>2, <1>3, <1>4, <1>6 DEF Holds, End
<1>8. Holds(b, i + Len(s), t)
  BY <1>2, <1>3, <1>5, <1>6 DEF Holds, End
<1> QED  BY <1>2, <1>6, <1>7, <1>8

\* Each of several
LEMMA HoldsEach ==
    ASSUME NEW b, NEW i, NEW ss \in Seq(Seq(Byte)), NEW f, Flat(ss, Len(ss), f),
           Holds(b, i, FlattenSeq(ss))
    PROVE  \A j \in 1..Len(ss) :
              /\ Holds(b, i + Len(f[j - 1]), ss[j])
              /\ Len(f[j]) = Len(f[j - 1]) + Len(ss[j])
              /\ Len(f[j - 1]) \in Nat /\ Len(ss[j]) \in Nat
<1> DEFINE n == Len(ss)
           T == {m \in Nat : m \in 0..n => Holds(b, i, f[n - m])}
<1>1. n \in Nat /\ \A j \in 1..n : ss[j] \in Seq(Byte)
  BY LenProperties, ElementOfSeq
<1>2. \A j \in 0..n : f[j] \in Seq(Byte)
  BY FlatSeqs
<1>3. \A j \in 1..n : f[j] = Joined(f[j - 1], ss[j])
  BY DEF Flat
<1>4. 0 \in T
  <2>1. n - 0 = n
    BY <1>1
  <2>2. Holds(b, i, f[n])
    BY FlatLast
  <2> QED  BY <2>1, <2>2
<1>5. ASSUME NEW m \in Nat, m \in T
      PROVE  m + 1 \in T
  <2> SUFFICES ASSUME m + 1 \in 0..n
               PROVE  Holds(b, i, f[n - (m + 1)])
    OBVIOUS
  <2> DEFINE j == n - m
  <2>1. j \in 1..n /\ Holds(b, i, f[j]) /\ j - 1 \in 0..n /\ n - (m + 1) = j - 1
    BY <1>1, <1>5
  <2> HIDE DEF j
  <2>2. f[j] = Joined(f[j - 1], ss[j]) /\ f[j - 1] \in Seq(Byte) /\ ss[j] \in Seq(Byte)
    BY <1>1, <1>2, <1>3, <2>1
  <2> QED  BY <2>1, <2>2, HoldsParts
<1> HIDE DEF T
<1>6. Nat \subseteq T
  BY <1>4, <1>5, AllNumbers
<1> SUFFICES ASSUME NEW j \in 1..n
             PROVE  /\ Holds(b, i + Len(f[j - 1]), ss[j])
                    /\ Len(f[j]) = Len(f[j - 1]) + Len(ss[j])
                    /\ Len(f[j - 1]) \in Nat /\ Len(ss[j]) \in Nat
  OBVIOUS
<1>7. Holds(b, i, f[j])
  <2>1. n - j \in T /\ n - j \in 0..n /\ n - (n - j) = j
    BY <1>1, <1>6
  <2> QED  BY <2>1 DEF T
<1>8. f[j] = Joined(f[j - 1], ss[j]) /\ f[j - 1] \in Seq(Byte) /\ ss[j] \in Seq(Byte)
  <2>1. j - 1 \in 0..n /\ j \in 1..n
    BY <1>1
  <2>2. f[j - 1] \in Seq(Byte)
    BY <1>2, <2>1
  <2>3. ss[j] \in Seq(Byte)
    BY <1>1, <2>1
  <2>4. f[j] = Joined(f[j - 1], ss[j])
    BY <1>3, <2>1
  <2> QED  BY <2>2, <2>3, <2>4
<1>9. Len(f[j]) = Len(f[j - 1]) + Len(ss[j])
  BY <1>8, JoinedLength
<1>10. Holds(b, i + Len(f[j - 1]), ss[j]) /\ Len(f[j - 1]) \in Nat /\ Len(ss[j]) \in Nat
  BY <1>7, <1>8, HoldsParts
<1> QED  BY <1>9, <1>10

\* A text ends where its line does, if it has no line end in it
LEMMA HoldsText ==
    ASSUME NEW b, NEW i, NEW text \in Seq(Byte),
           \A k \in 1..Len(text) : text[k] # "CR",
           Holds(b, i, Joined(text, CRLF))
    PROVE  /\ i # End(b) /\ LineEnd(b, i) # End(b) /\ Line(b, i) = text
           /\ AfterLine(b, i) = i + Len(Joined(text, CRLF))
<1> DEFINE n == Len(text)
<1>1. CRLF \in Seq(Byte) /\ Len(CRLF) = 2 /\ CRLF[1] = "CR"
  <2>1. "CR" \in Byte /\ "LF" \in Byte
    BY DEF Byte
  <2> QED  BY <2>1 DEF CRLF
<1>2. Holds(b, i, text) /\ Holds(b, i + Len(text), CRLF) /\ Len(text) \in Nat
  BY <1>1, HoldsParts
<1>3. Len(Joined(text, CRLF)) = n + 2
  <2>1. Len(Joined(text, CRLF)) = Len(text) + Len(CRLF)
    BY <1>1, JoinedLength
  <2> QED  BY <1>1, <2>1
<1>4. /\ i \in Nat \ {0} /\ n \in Nat /\ Len(b) \in Nat /\ b \in Seq(Byte)
      /\ i + n + 2 <= Len(b) + 1
  BY <1>1, <1>2, LenProperties DEF Holds, End
<1>5. \A k \in 1..n : b[i + k - 1] = text[k]
  BY <1>2 DEF Holds
<1>6. b[i + n] = "CR"
  <2>1. b[(i + Len(text)) + 1 - 1] = CRLF[1]
    BY <1>1, <1>2 DEF Holds
  <2>2. (i + Len(text)) + 1 - 1 = i + n
    BY <1>4
  <2> QED  BY <1>1, <2>1, <2>2
<1> DEFINE returns == {j \in i..Len(b) : b[j] = "CR"}
<1>7. i + n \in returns
  BY <1>4, <1>6
<1>8. \A j \in returns : j >= i + n
  <2> SUFFICES ASSUME NEW j \in i..Len(b), b[j] = "CR", j < i + n
               PROVE  FALSE
    BY <1>4
  <2> DEFINE k == j - i + 1
  <2>1. k \in 1..n /\ i + k - 1 = j
    BY <1>4
  <2> HIDE DEF k
  <2>2. b[j] = text[k]
    BY <1>5, <2>1
  <2> QED  BY <2>1, <2>2
<1>9. LineEnd(b, i) = i + n /\ Searched(b, i) = b
  <2>0. Searched(b, i) = b
    BY <1>4 DEF Searched, End
  <2>1. returns \in SUBSET Nat /\ returns # {}
    BY <1>4, <1>7
  <2>2. Min(returns) \in returns /\ \A j \in returns : Min(returns) <= j
    BY <2>1, MinIs
  <2>3. LineEnd(b, i) = Min(returns)
    BY <2>0, <2>1 DEF LineEnd
  <2> HIDE DEF returns
  <2>4. Min(returns) \in Nat
    BY <2>1, <2>2
  <2> QED  BY <1>4, <1>7, <1>8, <2>0, <2>2, <2>3, <2>4
<1>10. Line(b, i) = text
  <2> DEFINE line == SubSeq(b, i, i + n - 1)
  <2>1. /\ line \in Seq(Byte) /\ Len(line) = n
        /\ \A k \in 1..n : line[k] = b[i + k - 1]
    <3>1. \A j \in i..(i + n - 1) : b[j] \in Byte
      BY <1>4, ElementOfSeq
    <3>2. i \in Int /\ i + n - 1 \in Int
      BY <1>4
    <3>3. (i + n - 1) - i + 1 = n
      BY <1>4
    <3>4. Len(line) = IF i <= i + n - 1 THEN (i + n - 1) - i + 1 ELSE 0
      BY <3>1, <3>2, SubSeqProperties
    <3>5. line \in Seq(Byte)
      BY <3>1, <3>2, SubSeqProperties
    <3>6. \A k \in 1..n : line[k] = b[i + k - 1]
      BY <3>1, <3>2, <3>3, SubSeqProperties
    <3> HIDE DEF line
    <3> QED  BY <1>4, <3>4, <3>5, <3>6
  <2>2. Line(b, i) = line
    <3>1. LineEnd(b, i) - 1 = i + n - 1
      BY <1>4, <1>9
    <3> HIDE DEF n
    <3> QED  BY <1>9, <3>1 DEF Line
  <2> HIDE DEF line
  <2>3. line = text
    <3>1. \A k \in 1..Len(line) : line[k] = text[k]
      BY <1>5, <2>1
    <3>2. Len(line) = Len(text)
      BY <2>1
    <3> QED  BY <2>1, <3>1, <3>2, SeqEqual
  <2> QED  BY <2>2, <2>3
<1>11. i # End(b) /\ LineEnd(b, i) # End(b)
  BY <1>4, <1>9 DEF End
<1>12. AfterLine(b, i) = i + Len(Joined(text, CRLF))
  BY <1>3, <1>4, <1>9 DEF AfterLine
<1> QED  BY <1>10, <1>11, <1>12

\* The same behind the byte with the type of a reply
LEMMA HoldsLine ==
    ASSUME NEW b, NEW i, NEW type \in Byte, NEW text \in Seq(Byte),
           \A k \in 1..Len(text) : text[k] # "CR",
           Holds(b, i, LineOf(type, text))
    PROVE  /\ b[i] = type /\ At(b, i) = type /\ i # End(b) /\ i + 1 # End(b)
           /\ LineEnd(b, i + 1) # End(b)
           /\ Line(b, i + 1) = text
           /\ AfterLine(b, i + 1) = i + Len(LineOf(type, text))
<1> DEFINE line == Joined(text, CRLF)
<1>1. /\ <<type>> \in Seq(Byte) /\ Len(<<type>>) = 1 /\ <<type>>[1] = type
      /\ CRLF \in Seq(Byte)
  <2>1. "CR" \in Byte /\ "LF" \in Byte
    BY DEF Byte
  <2> QED  BY <2>1 DEF CRLF
<1>2. line \in Seq(Byte)
  BY <1>1, JoinedLength
<1>3. LineOf(type, text) = Joined(<<type>>, line)
  BY <1>1, ConcatAssociative DEF LineOf, Joined
<1> HIDE DEF line
<1>4. Holds(b, i, <<type>>) /\ Holds(b, i + Len(<<type>>), line)
  BY <1>1, <1>2, <1>3, HoldsParts
<1>5. Holds(b, i + 1, line) /\ i \in Nat \ {0}
  BY <1>1, <1>4 DEF Holds
<1>6. /\ i + 1 # End(b) /\ LineEnd(b, i + 1) # End(b) /\ Line(b, i + 1) = text
      /\ AfterLine(b, i + 1) = (i + 1) + Len(line)
  BY <1>5, HoldsText DEF line
<1>7. b[i] = type
  <2> DEFINE first == <<type>>
  <2>1. Len(first) = 1 /\ first[1] = type
    BY <1>1
  <2>2. \A k \in 1..Len(first) : b[i + k - 1] = first[k]
    BY <1>4 DEF Holds
  <2> HIDE DEF first
  <2>3. 1 \in 1..Len(first)
    BY <2>1
  <2>4. b[i + 1 - 1] = first[1]
    BY <2>2, <2>3
  <2>5. i + 1 - 1 = i
    BY <1>5
  <2> QED  BY <2>1, <2>4, <2>5
<1>8. Len(b) \in Nat /\ i + 1 <= Len(b) + 1 /\ Len(line) \in Nat
  BY <1>1, <1>2, <1>4, LenProperties DEF Holds, End
<1>9. At(b, i) = type /\ i # End(b)
  BY <1>5, <1>7, <1>8 DEF At, End
<1>10. Len(Joined(<<type>>, line)) = Len(<<type>>) + Len(line)
  BY <1>1, <1>2, JoinedLength
<1>11. AfterLine(b, i + 1) = i + Len(LineOf(type, text))
  BY <1>1, <1>3, <1>5, <1>6, <1>8, <1>10
<1> QED  BY <1>6, <1>7, <1>9, <1>11

-----------------------------------------------------------------------------
(* Strings and numbers.                                                    *)

LEMMA ParseReplyIs ==
    ASSUME NEW b, Len(b) \in Nat, NEW start \in Nat
    PROVE  \E parse : /\ \A i \in Nat : parse[i] = ParseReply(b, i)
                      /\ ParseReply(b, start) = ParsedAt(b, parse, start)
<1> DEFINE parse[i \in Nat] ==
             IF i = End(b) THEN Failure("eof", i)
             ELSE CASE At(b, i) = "+"   -> SimpleString(b, i + 1)
                    [] At(b, i) = "-"   -> ErrorReply(b, i + 1)
                    [] At(b, i) = "$"   -> BulkString(b, i + 1)
                    [] At(b, i) = "*"   -> ArrayReply(b, i + 1, parse)
                    [] At(b, i) = ":"   -> IntegerReply(b, i + 1)
                    [] OTHER            -> Unknown(b, i)
<1>1. parse = [i \in Nat |-> ParsedAt(b, parse, i)]
  BY ParseExists DEF ParsedAt
<1>2. \A i \in Nat : ParseReply(b, i) = parse[i]
  BY DEF ParseReply
<1> HIDE DEF parse
<1>3. parse[start] = ParsedAt(b, parse, start)
  BY <1>1
<1> QED  BY <1>2, <1>3

\* What parse_reply does with the first byte
LEMMA ParseReplyBy ==
    ASSUME NEW b, Len(b) \in Nat, NEW i \in Nat, i # End(b)
    PROVE  /\ At(b, i) = "+" => ParseReply(b, i) = SimpleString(b, i + 1)
           /\ At(b, i) = "-" => ParseReply(b, i) = ErrorReply(b, i + 1)
           /\ At(b, i) = "$" => ParseReply(b, i) = BulkString(b, i + 1)
           /\ At(b, i) = ":" => ParseReply(b, i) = IntegerReply(b, i + 1)
           /\ At(b, i) = "*" => \E parse : /\ \A j \in Nat : parse[j] = ParseReply(b, j)
                                          /\ ParseReply(b, i) = ArrayReply(b, i + 1, parse)
<1>1. PICK parse : /\ \A j \in Nat : parse[j] = ParseReply(b, j)
                   /\ ParseReply(b, i) = ParsedAt(b, parse, i)
  BY ParseReplyIs
<1>2. At(b, i) = "+" => ParseReply(b, i) = SimpleString(b, i + 1)
  BY <1>1 DEF ParsedAt
<1>3. At(b, i) = "-" => ParseReply(b, i) = ErrorReply(b, i + 1)
  BY <1>1 DEF ParsedAt
<1>4. At(b, i) = "$" => ParseReply(b, i) = BulkString(b, i + 1)
  BY <1>1 DEF ParsedAt
<1>5. At(b, i) = ":" => ParseReply(b, i) = IntegerReply(b, i + 1)
  BY <1>1 DEF ParsedAt
<1>6. At(b, i) = "*" => ParseReply(b, i) = ArrayReply(b, i + 1, parse)
  BY <1>1 DEF ParsedAt
<1> QED  BY <1>1, <1>2, <1>3, <1>4, <1>5, <1>6

\* The bytes of a number are a line of their own
LEMMA DecimalBytes ==
    ASSUME NEW n \in Int
    PROVE  /\ Decimal(n) \in Seq(Byte)
           /\ \A k \in 1..Len(Decimal(n)) : Decimal(n)[k] # "CR"
<1>1. ASSUME NEW text \in Seq(DigitSet)
      PROVE  text \in Seq(Byte) /\ \A k \in 1..Len(text) : text[k] # "CR"
  <2>1. DigitSet \subseteq Byte
    BY DEF Byte
  <2>2. text \in Seq(Byte)
    BY <2>1, SeqMonotonic
  <2>3. ASSUME NEW k \in 1..Len(text)
        PROVE  text[k] # "CR"
    <3>1. text[k] \in DigitSet
      BY ElementOfSeq
    <3>2. "CR" \notin DigitSet
      BY DEF DigitSet, Digits
    <3> QED  BY <3>1, <3>2
  <2> QED  BY <2>2, <2>3
<1>2. CASE n >= 0
  <2>1. Decimal(n) \in Seq(DigitSet)
    BY <1>2, DecimalSpells DEF Spells
  <2> QED  BY <1>1, <2>1
<1>3. CASE n < 0
  <2> DEFINE k == -n
  <2>1. k \in Nat /\ k > 0 /\ -k = n
    BY <1>3
  <2> HIDE DEF k
  <2>2. PICK text : Spells(text, k) /\ Decimal(-k) = <<"-">> \o text
    BY <2>1, DecimalSpells
  <2>3. text \in Seq(Byte) /\ \A j \in 1..Len(text) : text[j] # "CR"
    BY <1>1, <2>2 DEF Spells
  <2>4. <<"-">> \in Seq(Byte) /\ Len(<<"-">>) = 1 /\ <<"-">>[1] = "-"
    <3>1. "-" \in Byte
      BY DEF Byte
    <3> QED  BY <3>1
  <2>5. Decimal(n) = Joined(<<"-">>, text)
    BY <2>1, <2>2 DEF Joined
  <2>6. /\ Decimal(n) \in Seq(Byte) /\ Len(Decimal(n)) = 1 + Len(text)
        /\ Len(text) \in Nat
    BY <2>3, <2>4, <2>5, JoinedLength, LenProperties
  <2>7. \A j \in 1..Len(Decimal(n)) :
           Decimal(n)[j] = IF j <= 1 THEN "-" ELSE text[j - 1]
    <3>1. \A j \in 1..(1 + Len(text)) : Joined(<<"-">>, text)[j] =
             IF j <= Len(<<"-">>) THEN <<"-">>[j] ELSE text[j - Len(<<"-">>)]
      BY <2>3, <2>4, ConcatProperties DEF Joined
    <3> QED  BY <2>4, <2>5, <2>6, <3>1
  <2>8. ASSUME NEW j \in 1..Len(Decimal(n))
        PROVE  Decimal(n)[j] # "CR"
    <3>1. CASE j = 1
      BY <2>7, <3>1
    <3>2. CASE j # 1
      <4>1. j - 1 \in 1..Len(text) /\ ~ (j <= 1)
        BY <2>6, <3>2
      <4> QED  BY <2>3, <2>7, <4>1
    <3> QED  BY <3>1, <3>2
  <2> QED  BY <2>6, <2>8
<1> QED  BY <1>2, <1>3

\* Lines are sequences of bytes, and not empty
LEMMA LineBytes ==
    ASSUME NEW type \in Byte, NEW text \in Seq(Byte)
    PROVE  LineOf(type, text) \in Seq(Byte) /\ Len(LineOf(type, text)) # 0
<1>1. <<type>> \in Seq(Byte) /\ Len(<<type>>) = 1 /\ CRLF \in Seq(Byte) /\ Len(CRLF) = 2
  <2>1. "CR" \in Byte /\ "LF" \in Byte
    BY DEF Byte
  <2> QED  BY <2>1 DEF CRLF
<1> DEFINE head == Joined(<<type>>, text)
<1>2. head \in Seq(Byte)
  BY <1>1, JoinedLength
<1>3. LineOf(type, text) = Joined(head, CRLF)
  BY DEF LineOf, Joined
<1> HIDE DEF head
<1>4. Len(Joined(head, CRLF)) = Len(head) + Len(CRLF) /\ Joined(head, CRLF) \in Seq(Byte)
  BY <1>1, <1>2, JoinedLength
<1>5. Len(head) \in Nat
  BY <1>2, LenProperties
<1> QED  BY <1>1, <1>3, <1>4, <1>5

\* and so is a line with something behind it
LEMMA BytesBehind ==
    ASSUME NEW s \in Seq(Byte), Len(s) # 0, NEW t \in Seq(Byte)
    PROVE  Joined(s, t) \in Seq(Byte) /\ Len(Joined(s, t)) # 0
<1>1. Len(Joined(s, t)) = Len(s) + Len(t) /\ Joined(s, t) \in Seq(Byte)
  BY JoinedLength
<1>2. Len(s) \in Nat /\ Len(t) \in Nat
  BY LenProperties
<1> QED  BY <1>1, <1>2

LEMMA TheOf == \A n : The({n}) = n
BY DEF The

\* Wherever they are in a buffer, the bytes of s are read as v and no others
ReadAs(s, v) ==
    \A b, i : Holds(b, i, s) => ParseReply(b, i) = Success(v, i + Len(s))

\* A line that begins with + is a string
LEMMA SimpleStringRead ==
    ASSUME NEW text \in Seq(Byte), \A k \in 1..Len(text) : text[k] # "CR"
    PROVE  ReadAs(LineOf("+", text), SimpleStringValue(text))
<1> SUFFICES ASSUME NEW b, NEW i, Holds(b, i, LineOf("+", text))
             PROVE  ParseReply(b, i) =
                       Success(SimpleStringValue(text), i + Len(LineOf("+", text)))
  BY DEF ReadAs
<1>1. i \in Nat /\ Len(b) \in Nat
  BY LenProperties DEF Holds
<1>2. "+" \in Byte
  BY DEF Byte
<1>3. /\ At(b, i) = "+" /\ i # End(b) /\ i + 1 # End(b) /\ Line(b, i + 1) = text
      /\ AfterLine(b, i + 1) = i + Len(LineOf("+", text))
  BY <1>2, HoldsLine
<1>4. ParseReply(b, i) = SimpleString(b, i + 1)
  BY <1>1, <1>3, ParseReplyBy
<1> QED  BY <1>3, <1>4 DEF SimpleString

\* one with - an error
LEMMA ErrorRead ==
    ASSUME NEW b, NEW i, NEW text \in Seq(Byte),
           \A k \in 1..Len(text) : text[k] # "CR",
           Holds(b, i, LineOf("-", text))
    PROVE  ParseReply(b, i) =
              Response(ErrorValue(text), "error", i + Len(LineOf("-", text)))
<1>1. i \in Nat /\ Len(b) \in Nat
  BY LenProperties DEF Holds
<1>2. "-" \in Byte
  BY DEF Byte
<1>3. /\ At(b, i) = "-" /\ i # End(b) /\ LineEnd(b, i + 1) # End(b)
      /\ Line(b, i + 1) = text
      /\ AfterLine(b, i + 1) = i + Len(LineOf("-", text))
  BY <1>2, HoldsLine
<1>4. ParseReply(b, i) = ErrorReply(b, i + 1)
  BY <1>1, <1>3, ParseReplyBy
<1> QED  BY <1>3, <1>4 DEF ErrorReply

\* one with : a number, if that has its 64 bits
LEMMA IntegerRead ==
    ASSUME NEW n \in Long
    PROVE  ReadAs(LineOf(":", Decimal(n)), IntegerValue(n))
<1> SUFFICES ASSUME NEW b, NEW i, Holds(b, i, LineOf(":", Decimal(n)))
             PROVE  ParseReply(b, i) =
                       Success(IntegerValue(n), i + Len(LineOf(":", Decimal(n))))
  BY DEF ReadAs
<1> DEFINE text == Decimal(n)
<1>1. i \in Nat /\ Len(b) \in Nat /\ n \in Int
  BY WidthsAssumption, LenProperties DEF Holds, Long
<1>2. ":" \in Byte
  BY DEF Byte
<1>3. text \in Seq(Byte) /\ \A k \in 1..Len(text) : text[k] # "CR"
  BY <1>1, DecimalBytes
<1>4. Stol(text) = {n}
  BY <1>1, DecimalReadsBack DEF Stol
<1> HIDE DEF text
<1>5. /\ At(b, i) = ":" /\ i # End(b) /\ LineEnd(b, i + 1) # End(b)
      /\ Line(b, i + 1) = text
      /\ AfterLine(b, i + 1) = i + Len(LineOf(":", text))
  BY <1>2, <1>3, HoldsLine DEF text
<1>6. ParseReply(b, i) = IntegerReply(b, i + 1)
  BY <1>1, <1>5, ParseReplyBy
<1>7. IntegerReply(b, i + 1) = Success(IntegerValue(The({n})), AfterLine(b, i + 1))
  BY <1>4, <1>5 DEF IntegerReply
<1> QED  BY <1>5, <1>6, <1>7, TheOf DEF text

\* The size -1 is that of null
LEMMA NilRead == ReadAs(LineOf("$", <<"-", "1">>), NilValue)
<1> SUFFICES ASSUME NEW b, NEW i, Holds(b, i, LineOf("$", <<"-", "1">>))
             PROVE  ParseReply(b, i) =
                       Success(NilValue, i + Len(LineOf("$", <<"-", "1">>)))
  BY DEF ReadAs
<1> DEFINE text == <<"-", "1">>
<1>1. i \in Nat /\ Len(b) \in Nat
  BY LenProperties DEF Holds
<1>2. "$" \in Byte /\ "-" \in Byte /\ "1" \in Byte
  <2>1. "1" \in DigitSet
    BY DEF DigitSet, Digits
  <2> QED  BY <2>1 DEF Byte
<1>3. text \in Seq(Byte) /\ \A k \in 1..Len(text) : text[k] # "CR"
  BY <1>2
<1>4. Stol(text) = {-1}
  <2>1. Spells(<<"1">>, 1)
    <3>1. Digits[1 + 1] = "1" /\ 1 \in 0..9
      BY DEF Digits
    <3> QED  BY <3>1, SpellsOne
  <2>2. text = <<"-">> \o <<"1">>
    OBVIOUS
  <2> HIDE DEF text
  <2>3. Sto(<<"-">> \o <<"1">>, Long) = {n \in {-1} : n \in Long}
    BY <2>1, StoSpelled
  <2>4. -1 \in Long
    BY WidthsAssumption DEF Long
  <2> QED  BY <2>2, <2>3, <2>4 DEF Stol
<1> HIDE DEF text
<1>5. /\ At(b, i) = "$" /\ i # End(b) /\ LineEnd(b, i + 1) # End(b)
      /\ Line(b, i + 1) = text
      /\ AfterLine(b, i + 1) = i + Len(LineOf("$", text))
  BY <1>2, <1>3, HoldsLine DEF text
<1>6. ParseReply(b, i) = BulkString(b, i + 1)
  BY <1>1, <1>5, ParseReplyBy
<1> QED  BY <1>4, <1>5, <1>6 DEF BulkString, text

\* The bytes of a string behind its size may be any
BulkBytes(text) == LineOf("$", Decimal(Len(text))) \o text \o CRLF
LEMMA BulkTyped ==
    ASSUME NEW text \in Seq(Byte)
    PROVE  BulkBytes(text) \in Seq(Byte) /\ Len(BulkBytes(text)) # 0
<1> DEFINE head == LineOf("$", Decimal(Len(text)))
<1>1. Len(text) \in Int
  BY LenProperties
<1>2. Decimal(Len(text)) \in Seq(Byte)
  BY <1>1, DecimalBytes
<1>3. "$" \in Byte /\ CRLF \in Seq(Byte)
  <2>1. "CR" \in Byte /\ "LF" \in Byte /\ "$" \in Byte
    BY DEF Byte
  <2> QED  BY <2>1 DEF CRLF
<1>4. head \in Seq(Byte) /\ Len(head) # 0
  BY <1>2, <1>3, LineBytes
<1>5. BulkBytes(text) = Joined(Joined(head, text), CRLF)
  BY DEF Joined, BulkBytes
<1> HIDE DEF head
<1>6. Joined(head, text) \in Seq(Byte) /\ Len(Joined(head, text)) # 0
  BY <1>4, BytesBehind
<1> QED  BY <1>3, <1>5, <1>6, BytesBehind

LEMMA BulkStringRead ==
    ASSUME NEW text \in Seq(Byte), Len(text) <= MaxLong
    PROVE  ReadAs(BulkBytes(text), BulkStringValue(text))
<1> SUFFICES ASSUME NEW b, NEW i, Holds(b, i, BulkBytes(text))
             PROVE  ParseReply(b, i) =
                       Success(BulkStringValue(text), i + Len(BulkBytes(text)))
  BY DEF ReadAs
<1> DEFINE n == Len(text)
           size == Decimal(n)
           head == LineOf("$", size)
           front == Joined(head, text)
           bytes == BulkBytes(text)
<1>1. i \in Nat /\ Len(b) \in Nat /\ n \in Nat /\ n \in Int /\ n \in Long
  BY WidthsAssumption, LenProperties DEF Holds, Long
<1>2. "$" \in Byte /\ "CR" \in Byte /\ "LF" \in Byte
  BY DEF Byte
<1>3. size \in Seq(Byte) /\ \A k \in 1..Len(size) : size[k] # "CR"
  BY <1>1, DecimalBytes
<1>4. Stol(size) = {n}
  BY <1>1, DecimalReadsBack DEF Stol
<1> HIDE DEF size
<1>5. CRLF \in Seq(Byte) /\ Len(CRLF) = 2
  BY <1>2 DEF CRLF
<1>6. head \in Seq(Byte)
  <2>1. <<"$">> \in Seq(Byte)
    BY <1>2
  <2>2. Joined(<<"$">>, size) \in Seq(Byte)
    BY <1>3, <2>1, JoinedLength
  <2>3. head = Joined(Joined(<<"$">>, size), CRLF)
    BY DEF LineOf, Joined
  <2> QED  BY <1>5, <2>2, <2>3, JoinedLength
<1>7. bytes = Joined(front, CRLF)
  BY DEF Joined, size, BulkBytes
<1> HIDE DEF head, bytes
<1>8. front \in Seq(Byte) /\ Len(front) = Len(head) + n
  BY <1>6, JoinedLength
<1>9. Len(bytes) = Len(front) + 2
  <2>1. Len(Joined(front, CRLF)) = Len(front) + Len(CRLF)
    <3> HIDE DEF front
    <3> QED  BY <1>5, <1>8, JoinedLength
  <2> QED  BY <1>5, <1>7, <2>1
<1>10. Holds(b, i, front)
  BY <1>5, <1>7, <1>8, HoldsParts DEF bytes
<1>11. Holds(b, i, head) /\ Holds(b, i + Len(head), text) /\ Len(head) \in Nat
  BY <1>6, <1>10, HoldsParts
<1> HIDE DEF front
<1>12. /\ At(b, i) = "$" /\ i # End(b) /\ LineEnd(b, i + 1) # End(b)
       /\ Line(b, i + 1) = size
       /\ AfterLine(b, i + 1) = i + Len(head)
  BY <1>2, <1>3, <1>11, HoldsLine DEF head
<1>13. ParseReply(b, i) = BulkString(b, i + 1)
  BY <1>1, <1>12, ParseReplyBy
<1> DEFINE start == AfterLine(b, i + 1)
<1>14. BulkString(b, i + 1) =
         Success(BulkStringValue([k \in 1..n |-> At(b, start + k - 1)]), start + n + 2)
  <2>1. Stol(Line(b, i + 1)) = {n} /\ {n} # {-1} /\ ~ (n < 0) /\ {n} # {}
    BY <1>1, <1>4, <1>12
  <2> QED  BY <1>12, <2>1, TheOf DEF BulkString
<1>15. [k \in 1..n |-> At(b, start + k - 1)] = text
  <2>1. ASSUME NEW k \in 1..n
        PROVE  At(b, start + k - 1) = text[k]
    <3>1. b[(i + Len(head)) + k - 1] = text[k] /\ (i + Len(head)) + n <= End(b)
      BY <1>11 DEF Holds
    <3>2. (i + Len(head)) + k - 1 < End(b)
      BY <1>1, <1>11, <3>1 DEF End
    <3> QED  BY <1>12, <3>1, <3>2 DEF At
  <2>2. text = [k \in 1..n |-> text[k]]
    BY LenProperties
  <2> HIDE DEF start, n
  <2>3. [k \in 1..n |-> At(b, start + k - 1)] = [k \in 1..n |-> text[k]]
    BY <2>1
  <2> QED  BY <2>2, <2>3
<1>16. start + n + 2 = i + Len(bytes)
  BY <1>1, <1>8, <1>9, <1>11, <1>12
<1> QED  BY <1>13, <1>14, <1>15, <1>16 DEF bytes
-----------------------------------------------------------------------------
(* Arrays.                                                                 *)

LEMMA AppendNext ==
    ASSUME NEW S, NEW s \in Seq(S), NEW j \in Nat, j + 1 <= Len(s)
    PROVE  Append(SubSeq(s, 1, j), s[j + 1]) = SubSeq(s, 1, j + 1)
<1> DEFINE m == j + 1
<1>1. Len(s) \in Nat /\ \A k \in 1..Len(s) : s[k] \in S
  BY LenProperties, ElementOfSeq
<1>2. m \in 1..Len(s) /\ m - 1 = j /\ 1 \in 1..Len(s)
  BY <1>1
<1>3. SubSeq(s, 1, j) \in Seq(S) /\ s[m] \in S
  BY <1>1, <1>2, SubSeqProperties
<1>4. Append(SubSeq(s, 1, j), s[m]) = SubSeq(s, 1, j) \o <<s[m]>>
  BY <1>3, AppendIsConcat
<1> HIDE DEF m
<1>5. SubSeq(s, 1, m) = SubSeq(s, 1, m - 1) \o <<s[m]>>
  BY <1>2, SubSeqRecursiveSecond
<1> QED  BY <1>2, <1>4, <1>5 DEF m

\* One element more
LEMMA AddedOne ==
    ASSUME NEW b, NEW parse, NEW items, NEW p, NEW v, NEW q, p # End(b),
           parse[p] = Success(v, q)
    PROVE  Added(b, parse, Success(ArrayValue(items), p)) =
              Success(ArrayValue(Append(items, v)), q)
<1> DEFINE array == Success(ArrayValue(items), p)
<1>1. array.error = "none" /\ array.next = p /\ array.value = ArrayValue(items)
  BY DEF Success, Response
<1>2. parse[p].error = "none" /\ parse[p].next = q /\ parse[p].value = v
  BY DEF Success, Response
<1>3. [ArrayValue(items) EXCEPT !.items = Append(@, v)] = ArrayValue(Append(items, v))
  BY DEF ArrayValue
<1> HIDE DEF array
<1>4. Added(b, parse, array) =
        Success([array.value EXCEPT !.items = Append(@, parse[p].value)], parse[p].next)
  BY <1>1, <1>2 DEF Added
<1> QED  BY <1>1, <1>2, <1>3, <1>4 DEF array

\* An array of what is read is read, with its elements in their order
ArrayBytes(ss) == LineOf("*", Decimal(Len(ss))) \o FlattenSeq(ss)
LEMMA ArrayTyped ==
    ASSUME NEW ss \in Seq(Seq(Byte))
    PROVE  ArrayBytes(ss) \in Seq(Byte) /\ Len(ArrayBytes(ss)) # 0
<1> DEFINE head == LineOf("*", Decimal(Len(ss)))
<1>1. Len(ss) \in Nat /\ Len(ss) \in Int
  BY LenProperties
<1>2. Decimal(Len(ss)) \in Seq(Byte)
  BY <1>1, DecimalBytes
<1>3. "*" \in Byte
  BY DEF Byte
<1>4. head \in Seq(Byte) /\ Len(head) # 0
  BY <1>2, <1>3, LineBytes
<1>5. PICK f : Flat(ss, Len(ss), f)
  BY <1>1, FlatExists
<1>6. FlattenSeq(ss) \in Seq(Byte)
  BY <1>5, FlatLast
<1>7. ArrayBytes(ss) = Joined(head, FlattenSeq(ss))
  BY DEF Joined, ArrayBytes
<1> HIDE DEF head
<1> QED  BY <1>4, <1>6, <1>7, BytesBehind

LEMMA ArrayRead ==
    ASSUME NEW V, NEW vs \in Seq(V), NEW ss \in Seq(Seq(Byte)), Len(ss) = Len(vs),
           Len(ss) <= MaxLong,
           \A j \in 1..Len(ss) : Len(ss[j]) # 0 /\ ReadAs(ss[j], vs[j])
    PROVE  ReadAs(ArrayBytes(ss), ArrayValue(vs))
<1> SUFFICES ASSUME NEW b, NEW i, Holds(b, i, ArrayBytes(ss))
             PROVE  ParseReply(b, i) = Success(ArrayValue(vs), i + Len(ArrayBytes(ss)))
  BY DEF ReadAs
<1> DEFINE n == Len(ss)
           size == Decimal(n)
           head == LineOf("*", size)
           flat == FlattenSeq(ss)
           bytes == ArrayBytes(ss)
           start == i + Len(head)
<1>1. i \in Nat /\ Len(b) \in Nat /\ n \in Nat /\ n \in Int
  BY LenProperties DEF Holds
<1>2. "*" \in Byte /\ "CR" \in Byte /\ "LF" \in Byte
  BY DEF Byte
<1>3. size \in Seq(Byte) /\ \A k \in 1..Len(size) : size[k] # "CR"
  BY <1>1, DecimalBytes
<1>4. Stol(size) = {n}
  <2>1. n \in Long
    BY <1>1, WidthsAssumption DEF Long
  <2> QED  BY <1>1, <2>1, DecimalReadsBack DEF Stol
<1> HIDE DEF size
<1>5. PICK f : Flat(ss, n, f)
  BY <1>1, FlatExists
<1>6. flat = f[n] /\ flat \in Seq(Byte)
  BY <1>5, FlatLast
<1>7. head \in Seq(Byte)
  <2>1. <<"*">> \in Seq(Byte) /\ CRLF \in Seq(Byte)
    BY <1>2 DEF CRLF
  <2>2. Joined(<<"*">>, size) \in Seq(Byte)
    BY <1>3, <2>1, JoinedLength
  <2>3. head = Joined(Joined(<<"*">>, size), CRLF)
    BY DEF LineOf, Joined
  <2> QED  BY <2>1, <2>2, <2>3, JoinedLength
<1>8. bytes = Joined(head, flat)
  BY DEF Joined, size, ArrayBytes
<1> HIDE DEF head, flat, bytes
<1>9. Holds(b, i, head) /\ Holds(b, i + Len(head), flat) /\ Len(head) \in Nat
  BY <1>6, <1>7, <1>8, HoldsParts DEF bytes
<1>10. Len(bytes) = Len(head) + Len(flat) /\ Len(flat) \in Nat
  BY <1>6, <1>7, <1>8, JoinedLength, LenProperties
<1>22. start \in Nat
  BY <1>1, <1>9
<1>11. /\ At(b, i) = "*" /\ i # End(b) /\ LineEnd(b, i + 1) # End(b)
       /\ Line(b, i + 1) = size
       /\ AfterLine(b, i + 1) = i + Len(head)
  BY <1>2, <1>3, <1>9, HoldsLine DEF head
<1>12. \A j \in 1..n : /\ Holds(b, start + Len(f[j - 1]), ss[j])
                       /\ Len(f[j]) = Len(f[j - 1]) + Len(ss[j])
                       /\ Len(f[j - 1]) \in Nat /\ Len(ss[j]) \in Nat
  BY <1>5, <1>9, HoldsEach DEF flat
<1>13. PICK parse : /\ \A j \in Nat : parse[j] = ParseReply(b, j)
                    /\ ParseReply(b, i) = ArrayReply(b, i + 1, parse)
  BY <1>1, <1>11, ParseReplyBy
<1>14. Number(b, i + 1) = n
  <2>1. Stol(Line(b, i + 1)) = {n} /\ {n} # {}
    BY <1>4, <1>11
  <2>2. Number(b, i + 1) = IF n > 0 THEN n ELSE 0
    BY <2>1, TheOf DEF Number
  <2> QED  BY <1>1, <2>2
<1> DEFINE first == Success(ArrayValue(<<>>), start)
<1>15. PICK h : Adding(b, parse, first, n, h)
  BY <1>1, AddingExists
<1>16. ParseReply(b, i) = h[n]
  <2>1. Adding(b, parse, Success(ArrayValue(<<>>), AfterLine(b, i + 1)), Number(b, i + 1), h)
    BY <1>11, <1>14, <1>15
  <2>2. i + 1 \in Nat
    BY <1>1
  <2>3. ArrayReply(b, i + 1, parse) =
          IF LineEnd(b, i + 1) = End(b) THEN Failure("eof", End(b))
          ELSE IF Stol(Line(b, i + 1)) = {} THEN Failure("throws", AfterLine(b, i + 1))
          ELSE h[Number(b, i + 1)]
    BY <2>1, <2>2, ArrayAdds
  <2>4. Stol(Line(b, i + 1)) # {}
    BY <1>4, <1>11
  <2> QED  BY <1>11, <1>13, <1>14, <2>3, <2>4
<1> DEFINE After(j) == Success(ArrayValue(SubSeq(vs, 1, j)), start + Len(f[j]))
           T == {j \in Nat : j <= n => h[j] = After(j)}
<1>17. 0 \in T
  <2>1. f[0] = <<>> /\ Len(f[0]) = 0
    BY <1>5 DEF Flat
  <2>2. SubSeq(vs, 1, 0) = <<>>
    BY SubSeqEmpty
  <2>3. start + 0 = start
    BY <1>1, <1>9
  <2>4. h[0] = first
    BY <1>15 DEF Adding
  <2> QED  BY <2>1, <2>2, <2>3, <2>4
<1>18. ASSUME NEW j \in Nat, j \in T
       PROVE  j + 1 \in T
  <2> SUFFICES ASSUME j + 1 <= n
               PROVE  h[j + 1] = After(j + 1)
    OBVIOUS
  <2> DEFINE m == j + 1
             p == start + Len(f[j])
  <2>1. m \in 1..n /\ m - 1 = j
    BY <1>1
  <2>2. h[j] = Success(ArrayValue(SubSeq(vs, 1, j)), p)
    <3>1. j <= n
      BY <1>1
    <3> HIDE DEF n, start
    <3> QED  BY <1>18, <3>1
  <2>3. h[m] = Added(b, parse, h[j])
    BY <1>15, <2>1 DEF Adding
  <2>4. /\ Holds(b, p, ss[m]) /\ Len(f[m]) = Len(f[j]) + Len(ss[m])
        /\ Len(f[j]) \in Nat /\ Len(ss[m]) \in Nat
    <3> HIDE DEF m, start
    <3> QED  BY <1>12, <2>1
  <2>5. ReadAs(ss[m], vs[m]) /\ Len(ss[m]) # 0
    <3> HIDE DEF m
    <3> QED  BY <2>1
  <2>6. p \in Nat
    <3> HIDE DEF start
    <3> QED  BY <1>22, <2>4
  <2>7. p # End(b)
    <3>1. p + Len(ss[m]) <= End(b)
      BY <2>4 DEF Holds
    <3> HIDE DEF p, m
    <3> QED  BY <2>4, <2>5, <2>6, <3>1
  <2>8. parse[p] = Success(vs[m], p + Len(ss[m]))
    <3> HIDE DEF p, m
    <3> QED  BY <1>13, <2>4, <2>5, <2>6 DEF ReadAs
  <2>9. h[m] = Success(ArrayValue(Append(SubSeq(vs, 1, j), vs[m])), p + Len(ss[m]))
    <3> HIDE DEF p, m
    <3> QED  BY <2>2, <2>3, <2>7, <2>8, AddedOne
  <2>10. Append(SubSeq(vs, 1, j), vs[m]) = SubSeq(vs, 1, m)
    BY AppendNext
  <2>11. p + Len(ss[m]) = start + Len(f[m])
    <3> HIDE DEF m, start
    <3>1. \A x, y \in Nat : (start + x) + y = start + (x + y)
      BY <1>22
    <3>2. p + Len(ss[m]) = start + (Len(f[j]) + Len(ss[m]))
      BY <2>4, <3>1
    <3> QED  BY <2>4, <3>2
  <2> QED  BY <2>9, <2>10, <2>11
<1> HIDE DEF T
<1>19. h[n] = After(n)
  <2>1. n \in T
    BY <1>1, <1>17, <1>18, AllNumbers
  <2> HIDE DEF n, start
  <2> QED  BY <1>1, <2>1 DEF T
<1>20. SubSeq(vs, 1, n) = vs
  BY SubSeqFull
<1>21. start + Len(f[n]) = i + Len(bytes)
  <2>1. Len(f[n]) = Len(flat)
    BY <1>6
  <2> HIDE DEF n
  <2> QED  BY <1>1, <1>9, <1>10, <2>1
<1> QED  BY <1>16, <1>19, <1>20, <1>21 DEF bytes

-----------------------------------------------------------------------------
(* Values.                                                                 *)

\* The bytes of one value, those of the elements of an array being given
Elements(v, bytes) == [i \in DOMAIN v.items |-> bytes[v.items[i]]]
BytesOne(v, bytes) ==
    CASE v.type = "nil"           -> LineOf("$", <<"-", "1">>)
      [] v.type = "simple_string" -> LineOf("+", v.text)
      [] v.type = "error"         -> LineOf("-", v.text)
      [] v.type = "integer"       -> LineOf(":", Decimal(v.number))
      [] v.type = "bulk_string"   ->
            LineOf("$", Decimal(Len(v.text))) \o v.text \o CRLF
      [] v.type = "array"         ->
            LineOf("*", Decimal(Len(v.items))) \o FlattenSeq(Elements(v, bytes))

LEMMA BytesSame ==
    ASSUME NEW v, NEW f, NEW g,
           v.type = "array" => \A i \in DOMAIN v.items : f[v.items[i]] = g[v.items[i]]
    PROVE  BytesOne(v, f) = BytesOne(v, g)
<1>1. v.type = "array" => Elements(v, f) = Elements(v, g)
  BY DEF Elements
<1>2. CASE v.type = "array"
  BY <1>1, <1>2 DEF BytesOne
<1>3. CASE v.type # "array"
  BY <1>3 DEF BytesOne
<1> QED  BY <1>2, <1>3

=============================================================================
