--------------------------- MODULE ExchangeProofs ---------------------------
(***************************************************************************)
(* The server reads the commands that the client sent: the words of each,  *)
(* in their order, whatever bytes they hold and however they were made.    *)
(* The words of a text are those that its spaces and quotes make.          *)
(***************************************************************************)
EXTENDS Exchange, WireProofs

-----------------------------------------------------------------------------
(* Sequences of sequences.                                                 *)

LEMMA JoinedAssociative ==
    ASSUME NEW S, NEW s \in Seq(S), NEW t \in Seq(S), NEW u \in Seq(S)
    PROVE  Joined(Joined(s, t), u) = Joined(s, Joined(t, u))
BY ConcatAssociative DEF Joined

\* What has been joined is the beginning of all of it
LEMMA FlatRest ==
    ASSUME NEW S, NEW ss \in Seq(Seq(S)), NEW f, Flat(ss, Len(ss), f), NEW j \in 0..Len(ss)
    PROVE  \E rest \in Seq(S) : f[Len(ss)] = Joined(f[j], rest)
<1> DEFINE n == Len(ss)
           T == {m \in Nat : m \in 0..n =>
                    \E rest \in Seq(S) : f[n] = Joined(f[n - m], rest)}
<1>1. n \in Nat /\ \A i \in 1..n : ss[i] \in Seq(S)
  BY LenProperties, ElementOfSeq
<1>2. \A i \in 0..n : f[i] \in Seq(S)
  BY FlatSeqs
<1>3. \A i \in 1..n : f[i] = Joined(f[i - 1], ss[i])
  BY DEF Flat
<1>4. 0 \in T
  <2>1. n - 0 = n /\ n \in 0..n
    BY <1>1
  <2>2. f[n] \in Seq(S) /\ <<>> \in Seq(S)
    BY <1>2, <2>1, EmptySeq
  <2>3. f[n] = Joined(f[n], <<>>)
    BY <2>2, ConcatEmptySeq DEF Joined
  <2> QED  BY <2>1, <2>2, <2>3
<1>5. ASSUME NEW m \in Nat, m \in T
      PROVE  m + 1 \in T
  <2> SUFFICES ASSUME m + 1 \in 0..n
               PROVE  \E rest \in Seq(S) : f[n] = Joined(f[n - (m + 1)], rest)
    OBVIOUS
  <2> DEFINE i == n - m
  <2>1. i \in 1..n /\ i - 1 \in 0..n /\ n - (m + 1) = i - 1
        /\ \E rest \in Seq(S) : f[n] = Joined(f[i], rest)
    BY <1>1, <1>5
  <2> HIDE DEF i
  <2>2. PICK rest \in Seq(S) : f[n] = Joined(f[i], rest)
    BY <2>1
  <2>3. f[i] = Joined(f[i - 1], ss[i]) /\ f[i - 1] \in Seq(S) /\ ss[i] \in Seq(S)
    BY <1>1, <1>2, <1>3, <2>1
  <2>4. Joined(ss[i], rest) \in Seq(S)
    BY <2>3, ConcatProperties DEF Joined
  <2>5. f[n] = Joined(f[i - 1], Joined(ss[i], rest))
    <3> DEFINE u == f[i - 1]
               v == ss[i]
    <3>1. u \in Seq(S) /\ v \in Seq(S) /\ f[n] = Joined(Joined(u, v), rest)
      BY <2>2, <2>3
    <3> HIDE DEF u, v
    <3>2. Joined(Joined(u, v), rest) = Joined(u, Joined(v, rest))
      BY <3>1, JoinedAssociative
    <3>3. f[n] = Joined(u, Joined(v, rest))
      BY <3>1, <3>2
    <3> QED  BY <3>3 DEF u, v
  <2> QED  BY <2>1, <2>4, <2>5
<1> HIDE DEF T
<1>6. Nat \subseteq T
  BY <1>4, <1>5, AllNumbers
<1>7. n - j \in T /\ n - j \in 0..n /\ n - (n - j) = j
  BY <1>1, <1>6
<1> QED  BY <1>7 DEF T

\* Two that are joined alike: behind every position either there is nothing
\* but empty ones, or the next that is none follows
Alike(n, ss, f, rs, g, Full) ==
    /\ Len(ss) = n /\ Len(rs) = n /\ Flat(ss, n, f) /\ Flat(rs, n, g)
    /\ \A i \in 1..n : i \notin Full => ss[i] = <<>> /\ rs[i] = <<>>
LEMMA FlatSkips ==
    ASSUME NEW S, NEW ss \in Seq(Seq(S)), NEW R, NEW rs \in Seq(Seq(R)),
           NEW n, NEW f, NEW g, NEW Full, Alike(n, ss, f, rs, g, Full), NEW j \in 0..n
    PROVE  \/ f[j] = f[n] /\ g[j] = g[n]
           \/ \E m \in 1..n : m \in Full /\ f[m - 1] = f[j] /\ g[m - 1] = g[j]
<1> DEFINE Claim(i) == \/ f[i] = f[n] /\ g[i] = g[n]
                       \/ \E m \in 1..n : m \in Full /\ f[m - 1] = f[i] /\ g[m - 1] = g[i]
           T == {d \in Nat : d \in 0..n => Claim(n - d)}
<1>1. n \in Nat /\ Len(ss) = n /\ Len(rs) = n
  BY LenProperties DEF Alike
<1>2. \A i \in 0..n : f[i] \in Seq(S) /\ g[i] \in Seq(R)
  <2>2. Flat(ss, Len(ss), f) /\ Flat(rs, Len(rs), g)
    BY <1>1 DEF Alike
  <2>1. \A i \in 0..Len(ss) : f[i] \in Seq(S)
    BY <2>2, FlatSeqs
  <2>3. \A i \in 0..Len(rs) : g[i] \in Seq(R)
    BY <2>2, FlatSeqs
  <2> QED  BY <1>1, <2>1, <2>3
<1>3. \A i \in 1..n : f[i] = Joined(f[i - 1], ss[i]) /\ g[i] = Joined(g[i - 1], rs[i])
  BY DEF Flat, Alike
<1>4. 0 \in T
  <2>1. n - 0 = n
    BY <1>1
  <2> QED  BY <2>1
<1>5. ASSUME NEW d \in Nat, d \in T
      PROVE  d + 1 \in T
  <2> SUFFICES ASSUME d + 1 \in 0..n
               PROVE  Claim(n - (d + 1))
    OBVIOUS
  <2> DEFINE i == n - d
  <2>4. d \in 0..n /\ i \in 1..n /\ i - 1 \in 0..n /\ n - (d + 1) = i - 1
    BY <1>1
  <2>5. Claim(n - d)
    <3> HIDE DEF Claim
    <3> QED  BY <1>5, <2>4
  <2>1. i \in 1..n /\ i - 1 \in 0..n /\ n - (d + 1) = i - 1 /\ Claim(i)
    <3> HIDE DEF Claim
    <3> QED  BY <2>4, <2>5
  <2> HIDE DEF i
  <2>2. CASE i \in Full
    BY <2>1, <2>2
  <2>3. CASE i \notin Full
    <3>1. f[i] = Joined(f[i - 1], <<>>) /\ g[i] = Joined(g[i - 1], <<>>)
      BY <1>3, <2>1, <2>3 DEF Alike
    <3>2. f[i - 1] \in Seq(S) /\ g[i - 1] \in Seq(R)
      BY <1>2, <2>1
    <3>3. f[i] = f[i - 1] /\ g[i] = g[i - 1]
      BY <3>1, <3>2, ConcatEmptySeq DEF Joined
    <3> QED  BY <2>1, <3>3
  <2> QED  BY <2>2, <2>3
<1> HIDE DEF T
<1>6. Nat \subseteq T
  BY <1>4, <1>5, AllNumbers
<1>7. n - j \in T /\ n - j \in 0..n /\ n - (n - j) = j
  BY <1>1, <1>6
<1>8. Claim(j)
  <2> HIDE DEF Claim
  <2> QED  BY <1>7 DEF T
<1> QED  BY <1>8

\* What is left of a buffer when the first c bytes are taken off
Left(b, c) == SubSeq(b, c + 1, Len(b))
LEMMA LeftIs ==
    ASSUME NEW S, NEW b \in Seq(S), NEW c \in Nat, c <= Len(b)
    PROVE  /\ Left(b, c) \in Seq(S) /\ Len(Left(b, c)) = Len(b) - c
           /\ \A k \in 1..(Len(b) - c) : Left(b, c)[k] = b[c + k]
<1>1. Len(b) \in Nat
  BY LenProperties
<1>2. \A k \in (c + 1)..Len(b) : b[k] \in S
  BY <1>1, ElementOfSeq
<1>3. c + 1 \in Int /\ Len(b) \in Int
  BY <1>1
<1>4. /\ Left(b, c) \in Seq(S)
      /\ Len(Left(b, c)) = IF c + 1 <= Len(b) THEN Len(b) - (c + 1) + 1 ELSE 0
  BY <1>2, <1>3, SubSeqProperties DEF Left
<1>5. \A k \in 1..(Len(b) - (c + 1) + 1) : Left(b, c)[k] = b[(c + 1) + k - 1]
  BY <1>2, <1>3, SubSeqProperties DEF Left
<1>6. Len(Left(b, c)) = Len(b) - c /\ Len(b) - (c + 1) + 1 = Len(b) - c
  BY <1>1, <1>4
<1>7. \A k \in 1..(Len(b) - c) : Left(b, c)[k] = b[c + k]
  <2> TAKE k \in 1..(Len(b) - c)
  <2>1. (c + 1) + k - 1 = c + k
    BY <1>1
  <2> QED  BY <1>5, <1>6, <2>1
<1> QED  BY <1>4, <1>6, <1>7

LEMMA LeftHolds ==
    ASSUME NEW b, NEW c \in Nat, NEW s, Holds(b, 1 + c, s)
    PROVE  /\ Holds(Left(b, c), 1, s)
           /\ Left(Left(b, c), Len(s)) = Left(b, c + Len(s))
           /\ Len(s) \in Nat /\ c + Len(s) <= Len(b)
<1> DEFINE w == Left(b, c)
           n == Len(b)
           m == Len(s)
<1>1. /\ b \in Seq(Byte) /\ s \in Seq(Byte) /\ (1 + c) + m <= n + 1
      /\ \A k \in 1..m : b[(1 + c) + k - 1] = s[k]
  BY DEF Holds, End
<1>2. n \in Nat /\ m \in Nat /\ c <= n /\ c + m <= n /\ m <= n - c /\ c + m \in Nat
      /\ n - c \in Nat
  <2>1. n \in Nat /\ m \in Nat
    BY <1>1, LenProperties
  <2> HIDE DEF n, m
  <2> QED  BY <1>1, <2>1
<1>3. w \in Seq(Byte) /\ Len(w) = n - c /\ \A k \in 1..(n - c) : w[k] = b[c + k]
  BY <1>1, <1>2, LeftIs
<1> HIDE DEF w
<1>4. Holds(w, 1, s)
  <2>1. \A k \in 1..m : w[1 + k - 1] = s[k]
    <3> TAKE k \in 1..m
    <3>1. k \in 1..(n - c) /\ (1 + c) + k - 1 = c + k /\ 1 + k - 1 = k
      <4> HIDE DEF n, m
      <4> QED  BY <1>2
    <3> QED  BY <1>1, <1>3, <3>1
  <2>2. 1 + m <= Len(w) + 1
    <3> HIDE DEF n, m
    <3> QED  BY <1>2, <1>3
  <2> QED  BY <1>1, <1>3, <2>1, <2>2 DEF Holds, End
<1>5. Left(w, m) = Left(b, c + m)
  <2> DEFINE u == Left(w, m)
             v == Left(b, c + m)
  <2>1. u \in Seq(Byte) /\ Len(u) = Len(w) - m /\ \A k \in 1..(Len(w) - m) : u[k] = w[m + k]
    <3>1. m <= Len(w)
      BY <1>2, <1>3
    <3> QED  BY <1>2, <1>3, <3>1, LeftIs
  <2>2. v \in Seq(Byte) /\ Len(v) = n - (c + m)
        /\ \A k \in 1..(n - (c + m)) : v[k] = b[(c + m) + k]
    BY <1>1, <1>2, LeftIs
  <2> HIDE DEF u, v
  <2>3. Len(w) - m = n - (c + m)
    <3> HIDE DEF n, m
    <3> QED  BY <1>2, <1>3
  <2>4. \A k \in 1..Len(u) : u[k] = v[k]
    <3> TAKE k \in 1..Len(u)
    <3>1. k \in 1..(Len(w) - m) /\ k \in 1..(n - (c + m)) /\ m + k \in 1..(n - c)
          /\ c + (m + k) = (c + m) + k
      <4>1. Len(u) = n - (c + m) /\ k \in 1..Len(u)
        BY <2>1, <2>3
      <4> HIDE DEF n, m
      <4> QED  BY <1>2, <2>3, <4>1
    <3>2. u[k] = w[m + k] /\ w[m + k] = b[c + (m + k)] /\ v[k] = b[(c + m) + k]
      BY <1>3, <2>1, <2>2, <3>1
    <3> QED  BY <3>1, <3>2
  <2>5. Len(u) = Len(v)
    BY <2>1, <2>2, <2>3
  <2>6. u = v
    BY <2>1, <2>2, <2>4, <2>5, SeqEqual
  <2> QED  BY <2>6 DEF u, v
<1> QED  BY <1>2, <1>4, <1>5 DEF w
-----------------------------------------------------------------------------
(* Commands on the wire.                                                   *)

LEMMA SymbolsAreBytes == Seq(STRING) \subseteq Seq(Byte)
<1>1. STRING \subseteq Byte
  BY DEF Byte
<1> HIDE DEF Byte
<1> QED  BY <1>1, SeqMonotonic

LEMMA FitsBytes ==
    ASSUME NEW list, Fits(list)
    PROVE  /\ list \in Seq(Seq(Byte)) /\ Len(list) \in Nat /\ DOMAIN list = 1..Len(list)
           /\ Len(list) <= MaxLong
           /\ \A i \in 1..Len(list) : list[i] \in Seq(Byte) /\ Len(list[i]) <= MaxLong
<1>1. list \in Seq(Seq(Byte))
  <2>1. list \in Seq(Seq(STRING))
    BY DEF Fits
  <2> QED  BY <2>1, SymbolsAreBytes, SeqMonotonic
<1>2. Len(list) \in Nat /\ DOMAIN list = 1..Len(list)
  BY <1>1, LenProperties
<1>3. \A i \in 1..Len(list) : list[i] \in Seq(Byte)
  BY <1>1, ElementOfSeq
<1> QED  BY <1>1, <1>2, <1>3 DEF Fits

\* The bulk strings of a command
Bulks(list) == [i \in DOMAIN list |-> BulkBytes(list[i])]
LEMMA BulksAre ==
    ASSUME NEW list, Fits(list)
    PROVE  /\ Bulks(list) \in Seq(Seq(Byte))
           /\ \A i \in 1..Len(list) : Bulks(list)[i] = BulkBytes(list[i])
<1>1. DOMAIN list = 1..Len(list) /\ \A i \in 1..Len(list) : list[i] \in Seq(Byte)
  BY FitsBytes
<1>2. \A i \in DOMAIN list : Bulks(list)[i] \in Seq(Byte)
  BY <1>1, BulkTyped DEF Bulks
<1>3. Bulks(list) = [i \in DOMAIN list |-> Bulks(list)[i]]
  BY DEF Bulks
<1>4. \A i \in 1..Len(list) : Bulks(list)[i] = BulkBytes(list[i])
  BY <1>1 DEF Bulks
<1> HIDE DEF Bulks
<1>5. Bulks(list) \in Seq(Seq(Byte))
  <2>1. list \in Seq(Seq(Byte))
    BY FitsBytes
  <2> QED  BY <1>2, <1>3, <2>1, MappedIs
<1> QED  BY <1>4, <1>5

LEMMA BulksMany ==
    ASSUME NEW list, Fits(list)
    PROVE  Len(Bulks(list)) = Len(list)
<1>1. Bulks(list) = [i \in DOMAIN list |-> Bulks(list)[i]]
  BY DEF Bulks
<1>2. list \in Seq(Seq(Byte))
  BY FitsBytes
<1> HIDE DEF Bulks
<1> QED  BY <1>1, <1>2, MappedMany

LEMMA Sizes == \A n \in Nat : (n > 1 <=> n # 0 /\ n # 1) /\ (n = 0 \/ n = 1 \/ n > 1)
OBVIOUS

\* command::serialized_command by the number of words
LEMMA SerializedBy ==
    ASSUME NEW list, Fits(list)
    PROVE  /\ Len(list) = 0 => SerializedCommand(list) = <<>>
           /\ Len(list) = 1 => SerializedCommand(list) = Joined(list[1], CRLF)
           /\ Len(list) > 1 => SerializedCommand(list) = ArrayBytes(Bulks(list))
<1>1. Len(list) \in Nat
  BY FitsBytes
<1>2. Len(list) = 0 => SerializedCommand(list) = <<>>
  BY DEF SerializedCommand
<1>3. Len(list) = 1 => SerializedCommand(list) = Joined(list[1], CRLF)
  BY DEF SerializedCommand, Joined
<1>4. ASSUME Len(list) > 1
      PROVE  SerializedCommand(list) = ArrayBytes(Bulks(list))
  <2>1. Len(list) # 0 /\ Len(list) # 1
    BY <1>1, <1>4, Sizes
  <2> DEFINE strings == [i \in DOMAIN list |->
                          LineOf("$", Decimal(Len(list[i]))) \o list[i] \o CRLF]
  <2>5. strings = Bulks(list)
    BY DEF Bulks, BulkBytes
  <2>6. SerializedCommand(list) = LineOf("*", Decimal(Len(list))) \o FlattenSeq(strings)
    BY <2>1 DEF SerializedCommand
  <2> HIDE DEF strings
  <2>2. SerializedCommand(list) = LineOf("*", Decimal(Len(list))) \o FlattenSeq(Bulks(list))
    BY <2>5, <2>6
  <2>3. Len(Bulks(list)) = Len(list)
    BY BulksMany
  <2>4. ArrayBytes(Bulks(list)) =
           LineOf("*", Decimal(Len(Bulks(list)))) \o FlattenSeq(Bulks(list))
    BY DEF ArrayBytes
  <2> QED  BY <2>2, <2>3, <2>4
<1> QED  BY <1>2, <1>3, <1>4

LEMMA SerializedTyped ==
    ASSUME NEW list, Fits(list)
    PROVE  /\ SerializedCommand(list) \in Seq(Byte)
           /\ list # <<>> => Len(SerializedCommand(list)) # 0
<1>1. /\ Len(list) \in Nat /\ list \in Seq(Seq(Byte))
      /\ \A i \in 1..Len(list) : list[i] \in Seq(Byte)
  BY FitsBytes
<1>2. CASE Len(list) = 0
  <2>1. list = <<>>
    BY <1>1, <1>2, EmptySeq
  <2>2. SerializedCommand(list) = <<>>
    BY <1>2, SerializedBy
  <2> QED  BY <2>1, <2>2, EmptySeq
<1>3. CASE Len(list) = 1
  <2>1. list[1] \in Seq(Byte)
    BY <1>1, <1>3
  <2>2. CRLF \in Seq(Byte) /\ Len(CRLF) = 2
    <3>1. "CR" \in Byte /\ "LF" \in Byte
      BY DEF Byte
    <3> QED  BY <3>1 DEF CRLF
  <2>3. Len(Joined(list[1], CRLF)) = Len(list[1]) + Len(CRLF)
        /\ Joined(list[1], CRLF) \in Seq(Byte)
    BY <2>1, <2>2, JoinedLength
  <2>4. Len(list[1]) \in Nat
    BY <2>1, LenProperties
  <2>5. SerializedCommand(list) = Joined(list[1], CRLF)
    BY <1>3, SerializedBy
  <2> QED  BY <2>2, <2>3, <2>4, <2>5
<1>4. CASE Len(list) > 1
  <2>1. Bulks(list) \in Seq(Seq(Byte))
    BY BulksAre
  <2>2. SerializedCommand(list) = ArrayBytes(Bulks(list))
    BY <1>4, SerializedBy
  <2> QED  BY <2>1, <2>2, ArrayTyped
<1> QED  BY <1>1, <1>2, <1>3, <1>4, Sizes

\* The server reads the words of a command from its bytes, and no others
LEMMA RequestRead ==
    ASSUME NEW list, Fits(list), list # <<>>, Len(list) = 1 => Plain(list[1]),
           Holds(wire, 1, SerializedCommand(list))
    PROVE  Request.words = list /\ Request.next = 1 + Len(SerializedCommand(list))
<1>1. /\ Len(list) \in Nat /\ list \in Seq(Seq(Byte)) /\ DOMAIN list = 1..Len(list)
      /\ Len(list) <= MaxLong
      /\ \A i \in 1..Len(list) : list[i] \in Seq(Byte) /\ Len(list[i]) <= MaxLong
  BY FitsBytes
<1>2. Len(list) # 0
  BY <1>1, EmptySeq
<1>3. CASE Len(list) = 1
  <2> DEFINE word == list[1]
  <2>1. word \in Seq(Byte) /\ Plain(word)
    BY <1>1, <1>3
  <2>2. Holds(wire, 1, Joined(word, CRLF))
    BY <1>3, SerializedBy
  <2>3. list = <<word>>
    BY <1>1, <1>3
  <2> HIDE DEF word
  <2>4. Len(word) \in Nat /\ DOMAIN word = 1..Len(word) /\ word # <<>>
    BY <2>1, LenProperties DEF Plain
  <2>5. \A k \in 1..Len(word) : word[k] # "CR"
    BY <2>1, <2>4 DEF Plain, Range
  <2>6. Line(wire, 1) = word /\ AfterLine(wire, 1) = 1 + Len(Joined(word, CRLF))
    BY <2>1, <2>2, <2>5, HoldsText
  <2>7. wire[1] = word[1]
    <3>1. CRLF \in Seq(Byte)
      <4>1. "CR" \in Byte /\ "LF" \in Byte
        BY DEF Byte
      <4> QED  BY <4>1 DEF CRLF
    <3>2. Holds(wire, 1, word)
      BY <2>1, <2>2, <3>1, HoldsParts
    <3>3. 1 \in 1..Len(word)
      BY <2>1, <2>4, EmptySeq
    <3>4. wire[1 + 1 - 1] = word[1]
      BY <3>2, <3>3 DEF Holds
    <3> QED  BY <3>4
  <2>8. word[1] # "*"
    BY <2>1 DEF Plain
  <2>9. Request = [words |-> <<Line(wire, 1)>>, next |-> AfterLine(wire, 1)]
    BY <2>7, <2>8 DEF Request
  <2>10. SerializedCommand(list) = Joined(word, CRLF)
    BY <1>3, SerializedBy DEF word
  <2> QED  BY <2>3, <2>6, <2>9, <2>10
<1>4. CASE Len(list) > 1
  <2> DEFINE ss == Bulks(list)
             vs == [i \in DOMAIN list |-> BulkStringValue(list[i])]
             V == {BulkStringValue(word) : word \in Seq(Byte)}
             bytes == SerializedCommand(list)
  <2>1. ss \in Seq(Seq(Byte)) /\ \A i \in 1..Len(list) : ss[i] = BulkBytes(list[i])
    BY BulksAre
  <2>2. Len(ss) = Len(list)
    BY BulksMany
  <2>3. vs \in Seq(V) /\ Len(vs) = Len(list)
    <3>1. vs = [i \in DOMAIN list |-> vs[i]] /\ \A i \in DOMAIN list : vs[i] \in V
      BY <1>1
    <3> HIDE DEF vs, V
    <3>2. vs \in Seq(V)
      BY <1>1, <3>1, MappedIs
    <3>3. Len(vs) = Len(list)
      BY <1>1, <3>1, MappedMany
    <3> QED  BY <3>2, <3>3
  <2>4. \A i \in 1..Len(list) : vs[i] = BulkStringValue(list[i])
    BY <1>1
  <2>5. \A j \in 1..Len(ss) : Len(ss[j]) # 0 /\ ReadAs(ss[j], vs[j])
    <3> HIDE DEF ss, vs
    <3> SUFFICES ASSUME NEW j \in 1..Len(ss)
                 PROVE  Len(ss[j]) # 0 /\ ReadAs(ss[j], vs[j])
      OBVIOUS
    <3>1. list[j] \in Seq(Byte) /\ Len(list[j]) <= MaxLong /\ ss[j] = BulkBytes(list[j])
          /\ vs[j] = BulkStringValue(list[j])
      BY <1>1, <2>1, <2>2, <2>4
    <3>2. Len(BulkBytes(list[j])) # 0
      BY <3>1, BulkTyped
    <3>3. ReadAs(BulkBytes(list[j]), BulkStringValue(list[j]))
      BY <3>1, BulkStringRead
    <3> QED  BY <3>1, <3>2, <3>3
  <2>6. bytes = ArrayBytes(ss)
    BY <1>4, SerializedBy
  <2>7. ReadAs(ArrayBytes(ss), ArrayValue(vs))
    <3> HIDE DEF ss, vs, V
    <3>1. Len(ss) = Len(vs) /\ Len(ss) <= MaxLong
      BY <1>1, <2>2, <2>3
    <3> QED  BY <2>1, <2>3, <2>5, <3>1, ArrayRead
  <2>8. Holds(wire, 1, bytes)
    OBVIOUS
  <2> DEFINE request == ParseReply(wire, 1)
  <2>9. request = Success(ArrayValue(vs), 1 + Len(bytes))
    <3> HIDE DEF ss, vs, bytes
    <3> QED  BY <2>6, <2>7, <2>8 DEF ReadAs
  <2>10. wire[1] = "*"
    <3> DEFINE size == Decimal(Len(ss))
               head == LineOf("*", size)
    <3>1. "*" \in Byte
      BY DEF Byte
    <3>2. Len(ss) \in Int
      <4> HIDE DEF ss
      <4> QED  BY <1>1, <2>2
    <3>3. size \in Seq(Byte) /\ \A k \in 1..Len(size) : size[k] # "CR"
      <4> HIDE DEF ss
      <4> QED  BY <3>2, DecimalBytes
    <3>4. bytes = Joined(head, FlattenSeq(ss))
      BY <2>6 DEF ArrayBytes, Joined
    <3> HIDE DEF size, ss, bytes
    <3>5. head \in Seq(Byte)
      BY <3>1, <3>3, LineBytes
    <3>6. FlattenSeq(ss) \in Seq(Byte)
      <4>1. PICK f : Flat(ss, Len(ss), f)
        BY <1>1, <2>2, FlatExists
      <4> QED  BY <2>1, <4>1, FlatLast
    <3> HIDE DEF head
    <3>7. Holds(wire, 1, head)
      BY <2>8, <3>4, <3>5, <3>6, HoldsParts
    <3> QED  BY <3>1, <3>3, <3>7, HoldsLine DEF head
  <2>11. request.value = ArrayValue(vs) /\ request.next = 1 + Len(bytes)
    BY <2>9 DEF Success, Response
  <2>12. Request.next = 1 + Len(bytes)
    <3> HIDE DEF request, bytes
    <3> QED  BY <2>10, <2>11 DEF Request, request
  <2>13. Request.words = [i \in DOMAIN vs |-> vs[i].text]
    <3>1. ArrayValue(vs).items = vs
      BY DEF ArrayValue
    <3> HIDE DEF request, bytes, vs
    <3> QED  BY <2>10, <2>11, <3>1 DEF Request, request
  <2>14. [i \in DOMAIN vs |-> vs[i].text] = list
    <3>1. DOMAIN vs = DOMAIN list /\ \A i \in DOMAIN list : vs[i].text = list[i]
      BY DEF BulkStringValue
    <3>2. list = [i \in DOMAIN list |-> list[i]]
      BY <1>1, SeqDef
    <3> HIDE DEF vs
    <3> QED  BY <3>1, <3>2
  <2> QED  BY <2>12, <2>13, <2>14
<1> QED  BY <1>1, <1>2, <1>3, <1>4

-----------------------------------------------------------------------------
(* A text is read.                                                         *)

\* While a text is read, the words and the member hold no more than the bytes
\* that were read
ReadingIn(S) ==
    /\ text \in Seq(S) /\ Len(text) <= MaxLong /\ it \in 1..End(text)
    /\ member \in Seq(S) /\ words \in Seq(Seq(S))
    /\ Len(words) + Len(member) <= it - 1
    /\ \A i \in 1..Len(words) : Len(words[i]) <= it - 1

WordsWithin(S, list, m) ==
    /\ list \in Seq(Seq(S)) /\ Len(list) <= m
    /\ \A i \in 1..Len(list) : Len(list[i]) <= m

LEMMA ReadingSizes ==
    ASSUME NEW S, ReadingIn(S)
    PROVE  /\ Len(text) \in Nat /\ Len(member) \in Nat /\ Len(words) \in Nat /\ it \in Nat
           /\ it - 1 \in Nat /\ it - 1 <= Len(text) /\ MaxLong \in Nat
           /\ Len(member) <= it - 1
<1>1. Len(text) \in Nat /\ Len(member) \in Nat /\ Len(words) \in Nat
  BY LenProperties DEF ReadingIn
<1>2. it \in 1..(Len(text) + 1) /\ Len(words) + Len(member) <= it - 1
  BY DEF ReadingIn, End
<1> QED  BY <1>1, <1>2, WidthsAssumption

LEMMA WithMemberWithin ==
    ASSUME NEW S, ReadingIn(S)
    PROVE  WordsWithin(S, WithMember, it - 1)
<1>1. /\ Len(text) \in Nat /\ Len(member) \in Nat /\ Len(words) \in Nat /\ it \in Nat
      /\ it - 1 \in Nat /\ Len(member) <= it - 1
  BY ReadingSizes
<1>2. /\ member \in Seq(S) /\ words \in Seq(Seq(S))
      /\ Len(words) + Len(member) <= it - 1
      /\ \A i \in 1..Len(words) : Len(words[i]) <= it - 1
  BY DEF ReadingIn
<1>3. CASE member = <<>>
  <2>1. Len(words) <= it - 1
    BY <1>1, <1>2
  <2>2. WithMember = words
    BY <1>3 DEF WithMember
  <2> QED  BY <1>2, <2>1, <2>2 DEF WordsWithin
<1>4. CASE member # <<>>
  <2> DEFINE list == Append(words, member)
  <2>1. Len(member) # 0
    BY <1>2, <1>4, EmptySeq
  <2>2. /\ list \in Seq(Seq(S)) /\ Len(list) = Len(words) + 1
        /\ \A i \in 1..Len(words) : list[i] = words[i]
        /\ list[Len(words) + 1] = member
    BY <1>2, AppendProperties
  <2> HIDE DEF list
  <2>3. Len(list) <= it - 1
    BY <1>1, <1>2, <2>1, <2>2
  <2>4. \A i \in 1..Len(list) : Len(list[i]) <= it - 1
    <3> TAKE i \in 1..Len(list)
    <3>1. i \in 1..Len(words) \/ i = Len(words) + 1
      BY <1>1, <2>2
    <3> QED  BY <1>1, <1>2, <2>2, <3>1
  <2>5. WithMember = list
    BY <1>4 DEF WithMember, list
  <2> QED  BY <2>2, <2>3, <2>4, <2>5 DEF WordsWithin
<1> QED  BY <1>3, <1>4

\* A turn of the loop moves on in the text
Position(S, t, i) == t \in Seq(S) /\ Len(t) <= MaxLong /\ i \in 1..End(t)
LEMMA ReadingFrom ==
    ASSUME NEW S, NEW t, NEW i, Position(S, t, i), NEW w \in Seq(S), NEW list,
           NEW m \in Nat, list \in Seq(Seq(S)), \A k \in 1..Len(list) : Len(list[k]) <= m,
           m <= i - 1, Len(list) + Len(w) <= i - 1,
           text' = t, it' = i, member' = w, words' = list
    PROVE  ReadingIn(S)'
<1>1. \A k \in 1..Len(list) : Len(list[k]) \in Nat
  <2> TAKE k \in 1..Len(list)
  <2>1. list[k] \in Seq(S)
    BY ElementOfSeq
  <2> QED  BY <2>1, LenProperties
<1>2. t \in Seq(S) /\ Len(t) <= MaxLong /\ i \in 1..End(t) /\ i \in Nat
  <2>1. Len(t) \in Nat
    BY LenProperties DEF Position
  <2> QED  BY <2>1 DEF Position, End
<1>3. \A k \in 1..Len(list) : Len(list[k]) <= i - 1
  <2> TAKE k \in 1..Len(list)
  <2>1. Len(list[k]) \in Nat /\ Len(list[k]) <= m
    BY <1>1
  <2> QED  BY <1>2, <2>1
<1> QED  BY <1>2, <1>3 DEF ReadingIn, End

LEMMA DelimiterReads ==
    ASSUME NEW S, ReadingIn(S), Delimiter
    PROVE  ReadingIn(S)'
<1> DEFINE list == WithMember
<1>1. /\ list \in Seq(Seq(S)) /\ Len(list) <= it - 1
      /\ \A k \in 1..Len(list) : Len(list[k]) <= it - 1
  BY WithMemberWithin DEF WordsWithin
<1>2. it - 1 \in Nat /\ it \in Nat /\ Len(text) \in Nat
  BY ReadingSizes
<1>3. Position(S, text, it + 1)
  BY <1>2 DEF ReadingIn, Position, Delimiter, AtByte, End
<1>4. <<>> \in Seq(S) /\ Len(<<>>) = 0 /\ Len(list) \in Nat
  BY <1>1, EmptySeq, LenProperties
<1>5. text' = text /\ it' = it + 1 /\ member' = <<>> /\ words' = list
  BY DEF Delimiter
<1> HIDE DEF list
<1>6. it - 1 <= (it + 1) - 1 /\ Len(list) + Len(<<>>) <= (it + 1) - 1
  BY <1>1, <1>2, <1>4
<1> QED  BY <1>1, <1>2, <1>3, <1>4, <1>5, <1>6, ReadingFrom

LEMMA OtherReads ==
    ASSUME NEW S, ReadingIn(S), Other
    PROVE  ReadingIn(S)'
<1> DEFINE w == Append(member, text[it])
<1>1. /\ Len(text) \in Nat /\ Len(member) \in Nat /\ Len(words) \in Nat /\ it \in Nat
      /\ it - 1 \in Nat
  BY ReadingSizes
<1>2. it \in 1..Len(text)
  BY <1>1 DEF ReadingIn, Other, End
<1>3. Position(S, text, it + 1)
  BY <1>1, <1>2 DEF ReadingIn, Position, End
<1>4. text[it] \in S
  BY <1>2, ElementOfSeq DEF ReadingIn
<1>5. w \in Seq(S) /\ Len(w) = Len(member) + 1
  BY <1>4, AppendProperties DEF ReadingIn
<1>6. text' = text /\ it' = it + 1 /\ member' = w /\ words' = words
  BY DEF Other
<1> HIDE DEF w
<1>7. /\ words \in Seq(Seq(S)) /\ Len(words) + Len(member) <= it - 1
      /\ \A k \in 1..Len(words) : Len(words[k]) <= it - 1
  BY DEF ReadingIn
<1>8. it - 1 <= (it + 1) - 1 /\ Len(words) + Len(w) <= (it + 1) - 1
  BY <1>1, <1>5, <1>7
<1> QED  BY <1>1, <1>3, <1>5, <1>6, <1>7, <1>8, ReadingFrom

LEMMA QuotedReads ==
    ASSUME NEW S, ReadingIn(S), Quoted
    PROVE  ReadingIn(S)'
<1> DEFINE closing == {i \in (it + 1)..Len(text) : text[i] = "QUOTE"}
           close   == IF closing = {} THEN End(text) ELSE Min(closing)
           part    == SubSeq(text, it + 1, close - 1)
           w       == member \o part
           i       == Min({close + 1, End(text)})
<1>1. /\ Len(text) \in Nat /\ Len(member) \in Nat /\ Len(words) \in Nat /\ it \in Nat
      /\ it - 1 \in Nat
  BY ReadingSizes
<1>2. /\ text' = text /\ it' = i /\ member' = w /\ words' = words
      /\ it # End(text)
  BY DEF Quoted, AtByte
<1>3. /\ words \in Seq(Seq(S)) /\ Len(words) + Len(member) <= it - 1
      /\ \A k \in 1..Len(words) : Len(words[k]) <= it - 1
      /\ text \in Seq(S) /\ Len(text) <= MaxLong /\ member \in Seq(S)
      /\ it \in 1..End(text)
  BY DEF ReadingIn
<1>4. close \in (it + 1)..(Len(text) + 1) /\ it \in 1..Len(text) /\ close \in Nat
  <2>1. it \in 1..Len(text)
    <3> HIDE DEF w, i
    <3>1. it # Len(text) + 1
      BY <1>2 DEF End
    <3>2. it \in 1..(Len(text) + 1)
      BY <1>3 DEF End
    <3> QED  BY <1>1, <3>1, <3>2
  <2>2. CASE closing = {}
    <3>1. close = End(text)
      BY <2>2
    <3> HIDE DEF close
    <3> QED  BY <1>1, <2>1, <3>1 DEF End
  <2>3. CASE closing # {}
    <3>1. closing \in SUBSET Nat
      BY <1>1
    <3>2. Min(closing) \in closing
      BY <2>3, <3>1, MinIs
    <3>3. close = Min(closing) /\ Min(closing) \in (it + 1)..Len(text)
      BY <2>3, <3>2
    <3> HIDE DEF close, closing
    <3> QED  BY <1>1, <2>1, <3>3
  <2> QED  BY <2>2, <2>3, <2>1
<1> HIDE DEF close
<1>5. i \in close..(Len(text) + 1) /\ i \in Nat
  <2>1. {close + 1, End(text)} \in SUBSET Nat /\ {close + 1, End(text)} # {}
    BY <1>1, <1>4 DEF End
  <2>2. i \in {close + 1, End(text)} /\ \A k \in {close + 1, End(text)} : i <= k
    BY <2>1, MinIs
  <2> HIDE DEF i
  <2> QED  BY <1>1, <1>4, <2>2 DEF End
<1> HIDE DEF i
<1>6. part \in Seq(S) /\ Len(part) = close - 1 - it
  <2>1. \A k \in (it + 1)..(close - 1) : text[k] \in S
    <3> TAKE k \in (it + 1)..(close - 1)
    <3>1. k \in 1..Len(text)
      BY <1>1, <1>4
    <3> QED  BY <1>3, <3>1, ElementOfSeq
  <2>2. it + 1 \in Int /\ close - 1 \in Int
    BY <1>1, <1>4
  <2>3. part \in Seq(S)
    BY <2>1, <2>2, SubSeqProperties
  <2>4. Len(part) = IF it + 1 <= close - 1 THEN (close - 1) - (it + 1) + 1 ELSE 0
    BY <2>1, <2>2, SubSeqProperties
  <2> HIDE DEF part
  <2> QED  BY <1>1, <1>4, <2>3, <2>4
<1> HIDE DEF part
<1>7. w \in Seq(S) /\ Len(w) = Len(member) + Len(part)
  BY <1>3, <1>6, ConcatProperties
<1> HIDE DEF w
<1>8. it - 1 <= i - 1 /\ Len(words) + Len(w) <= i - 1
  BY <1>1, <1>3, <1>4, <1>5, <1>6, <1>7
<1>9. Position(S, text, i)
  BY <1>1, <1>3, <1>4, <1>5 DEF Position, End
<1> QED  BY <1>1, <1>2, <1>3, <1>7, <1>8, <1>9, ReadingFrom

LEMMA LastMemberReads ==
    ASSUME ReadingIn(STRING), LastMember
    PROVE  Fits(words')
<1> DEFINE list == WithMember
<1>1. /\ list \in Seq(Seq(STRING)) /\ Len(list) <= it - 1
      /\ \A k \in 1..Len(list) : Len(list[k]) <= it - 1
  BY WithMemberWithin DEF WordsWithin
<1>2. it - 1 \in Nat /\ it - 1 <= Len(text) /\ Len(text) \in Nat /\ MaxLong \in Nat
  BY ReadingSizes
<1>3. Len(text) <= MaxLong
  BY DEF ReadingIn
<1>4. words' = list
  BY DEF LastMember
<1> HIDE DEF list
<1>5. Len(list) \in Nat /\ DOMAIN list = 1..Len(list)
  BY <1>1, LenProperties
<1>6. Len(list) <= MaxLong
  BY <1>1, <1>2, <1>3, <1>5
<1>7. \A k \in 1..Len(list) : Len(list[k]) <= MaxLong
  <2> TAKE k \in 1..Len(list)
  <2>1. list[k] \in Seq(STRING)
    BY <1>1, ElementOfSeq
  <2>2. Len(list[k]) \in Nat /\ Len(list[k]) <= it - 1
    BY <1>1, <2>1, LenProperties
  <2> QED  BY <1>2, <1>3, <2>2
<1> QED  BY <1>1, <1>4, <1>5, <1>6, <1>7 DEF Fits

-----------------------------------------------------------------------------
(* The commands of a pipeline are constructed.                             *)

Constructing ==
    /\ pipeline \in Pipelines
    /\ stage = "reading" => ReadingIn(STRING)
    /\ stage = "built" => Fits(words)
    /\ batch \in Seq(Seq(Seq(STRING)))
    /\ \A i \in 1..Len(batch) : Fits(batch[i])

LEMMA TurnConstructs ==
    ASSUME Constructing, Turn
    PROVE  (stage' = "reading" => ReadingIn(STRING)') /\ (stage' = "built" => Fits(words'))
<1>1. stage = "reading"
  BY DEF Turn, Delimiter, Quoted, LastQuote, Other, LastMember, AtByte
<1>2. ReadingIn(STRING)
  BY <1>1 DEF Constructing
<1>3. CASE Delimiter
  <2>1. stage' = "reading"
    BY <1>1, <1>3 DEF Delimiter
  <2> QED  BY <1>2, <1>3, <2>1, DelimiterReads
<1>4. CASE Quoted
  <2>1. stage' = "reading"
    BY <1>1, <1>4 DEF Quoted
  <2> QED  BY <1>2, <1>4, <2>1, QuotedReads
<1>5. CASE LastQuote
  BY <1>5 DEF LastQuote
<1>6. CASE Other
  <2>1. stage' = "reading"
    BY <1>1, <1>6 DEF Other
  <2> QED  BY <1>2, <1>6, <2>1, OtherReads
<1>7. CASE LastMember
  <2>1. stage' = "built"
    BY <1>7 DEF LastMember
  <2> QED  BY <1>2, <1>7, <2>1, LastMemberReads
<1> QED  BY <1>3, <1>4, <1>5, <1>6, <1>7 DEF Turn

LEMMA ConstructConstructs ==
    ASSUME Constructing, Construct
    PROVE  (stage' = "reading" => ReadingIn(STRING)') /\ (stage' = "built" => Fits(words'))
<1> DEFINE item == pipeline[Len(batch) + 1]
<1>1. Len(batch) + 1 \in 1..Len(pipeline) /\ pipeline \in Pipelines
  <2>1. Len(batch) \in Nat
    BY LenProperties DEF Constructing
  <2>2. Len(pipeline) \in Nat /\ Len(batch) < Len(pipeline) /\ pipeline \in Pipelines
    BY PipelinesAssumption DEF Constructing, Construct
  <2> QED  BY <2>1, <2>2
<1>2. /\ item.from = "text" => item.text \in Seq(STRING) /\ Len(item.text) <= MaxLong
      /\ item.from = "words" => Fits(item.words)
      /\ item.from = "builder" => \A list \in Build(item.call) : Fits(list)
  BY <1>1, PipelinesAssumption
<1>3. \/ item.from = "text" /\ FromText(item.text)
      \/ item.from = "words" /\ FromWords(item.words)
      \/ item.from = "builder" /\ \E list \in Build(item.call) : FromWords(list)
  BY DEF Construct
<1> HIDE DEF item
<1>4. ASSUME NEW list, Fits(list), FromWords(list)
      PROVE  stage' = "built" /\ Fits(words')
  BY <1>4 DEF FromWords
<1>5. CASE item.from = "text" /\ FromText(item.text)
  <2> DEFINE t == item.text
  <2>1. t \in Seq(STRING) /\ Len(t) <= MaxLong
    BY <1>2, <1>5
  <2>2. stage' = "reading" /\ text' = t /\ it' = 1 /\ member' = <<>> /\ words' = <<>>
    BY <1>5 DEF FromText
  <2> HIDE DEF t
  <2>3. Len(t) \in Nat
    BY <2>1, LenProperties
  <2>4. Position(STRING, t, 1)
    BY <2>1, <2>3 DEF Position, End
  <2>5. /\ <<>> \in Seq(STRING) /\ Len(<<>>) = 0
        /\ <<>> \in Seq(Seq(STRING)) /\ \A k \in 1..Len(<<>>) : Len((<<>>)[k]) <= 0
    BY EmptySeq
  <2>6. 0 <= 1 - 1 /\ Len(<<>>) + Len(<<>>) <= 1 - 1 /\ 0 \in Nat
    BY <2>5
  <2>7. ReadingIn(STRING)'
    BY <2>2, <2>4, <2>5, <2>6, ReadingFrom
  <2> QED  BY <2>2, <2>7
<1>6. CASE item.from = "words" /\ FromWords(item.words)
  BY <1>2, <1>4, <1>6
<1>7. CASE item.from = "builder" /\ \E list \in Build(item.call) : FromWords(list)
  BY <1>2, <1>4, <1>7
<1> QED  BY <1>3, <1>5, <1>6, <1>7

LEMMA CollectConstructs ==
    ASSUME Constructing, Collect
    PROVE  /\ batch' \in Seq(Seq(Seq(STRING)))
           /\ \A i \in 1..Len(batch') : Fits(batch'[i])
<1>1. Fits(words) /\ batch' = Append(batch, words)
  BY DEF Constructing, Collect
<1>2. words \in Seq(Seq(STRING)) /\ batch \in Seq(Seq(Seq(STRING)))
      /\ \A i \in 1..Len(batch) : Fits(batch[i])
  BY <1>1 DEF Fits, Constructing
<1> DEFINE more == Append(batch, words)
<1>3. /\ more \in Seq(Seq(Seq(STRING))) /\ Len(more) = Len(batch) + 1
      /\ \A i \in 1..Len(batch) : more[i] = batch[i]
      /\ more[Len(batch) + 1] = words
  BY <1>2, AppendProperties
<1>4. Len(batch) \in Nat
  BY <1>2, LenProperties
<1>5. batch' = more
  BY <1>1
<1> HIDE DEF more
<1>6. \A i \in 1..Len(more) : Fits(more[i])
  <2> TAKE i \in 1..Len(more)
  <2>1. i \in 1..Len(batch) \/ i = Len(batch) + 1
    BY <1>3, <1>4
  <2> QED  BY <1>1, <1>2, <1>3, <2>1
<1> QED  BY <1>3, <1>5, <1>6

LEMMA Constructed == Spec => []Constructing
<1>1. Init => Constructing
  <2> SUFFICES ASSUME Init
               PROVE  Constructing
    OBVIOUS
  <2>1. pipeline \in Pipelines /\ batch = <<>> /\ stage = "idle"
    BY DEF Init, NoCommand
  <2>2. <<>> \in Seq(Seq(Seq(STRING))) /\ Len(<<>>) = 0
    BY EmptySeq
  <2>3. \A i \in 1..0 : Fits(batch[i])
    OBVIOUS
  <2> QED  BY <2>1, <2>2, <2>3 DEF Constructing
<1>2. Constructing /\ [Next]_vars => Constructing'
  <2> SUFFICES ASSUME Constructing, [Next]_vars
               PROVE  Constructing'
    OBVIOUS
  <2>1. ASSUME UNCHANGED <<pipeline, batch>>,
               (stage' = "reading" => ReadingIn(STRING)') /\ (stage' = "built" => Fits(words'))
        PROVE  Constructing'
    BY <2>1 DEF Constructing
  <2>2. ASSUME UNCHANGED <<pipeline, batch, text, it, member, words>>,
               stage' = stage \/ stage' \notin {"reading", "built"}
        PROVE  Constructing'
    <3>1. ReadingIn(STRING)' <=> ReadingIn(STRING)
      BY <2>2 DEF ReadingIn
    <3>2. Fits(words') <=> Fits(words)
      BY <2>2
    <3> QED  BY <2>2, <3>1, <3>2 DEF Constructing
  <2>3. CASE Construct
    <3>1. UNCHANGED <<pipeline, batch>>
      BY <2>3 DEF Construct, outside
    <3> QED  BY <2>1, <2>3, <3>1, ConstructConstructs
  <2>4. CASE Throw
    <3>1. UNCHANGED <<pipeline, batch, text, it, member, words>> /\ stage' = "threw"
      BY <2>4 DEF Throw, outside
    <3> QED  BY <2>2, <3>1
  <2>5. CASE ReadText
    <3>1. UNCHANGED <<pipeline, batch>> /\ Turn
      BY <2>5 DEF ReadText, outside
    <3> QED  BY <2>1, <3>1, TurnConstructs
  <2>6. CASE Collect
    <3>1. UNCHANGED pipeline /\ stage' = "idle"
      BY <2>6 DEF Collect, outside
    <3> QED  BY <2>6, <3>1, CollectConstructs DEF Constructing
  <2>7. CASE SendAll
    <3>1. UNCHANGED <<pipeline, batch, text, it, member, words>> /\ stage' = "sent"
      BY <2>7 DEF SendAll
    <3> QED  BY <2>2, <3>1
  <2>8. CASE Serve
    <3>1. UNCHANGED <<pipeline, batch, text, it, member, words>> /\ stage' = stage
      BY <2>8 DEF Serve, commandVars
    <3> QED  BY <2>2, <3>1
  <2>9. CASE Answer
    <3>1. UNCHANGED <<pipeline, batch, text, it, member, words>> /\ stage' = "answered"
      BY <2>9 DEF Answer
    <3> QED  BY <2>2, <3>1
  <2>10. CASE UNCHANGED vars
    <3>1. UNCHANGED <<pipeline, batch, text, it, member, words>> /\ stage' = stage
      BY <2>10 DEF vars, commandVars
    <3> QED  BY <2>2, <3>1
  <2> QED  BY <2>3, <2>4, <2>5, <2>6, <2>7, <2>8, <2>9, <2>10 DEF Next
<1> QED  BY <1>1, <1>2, PTL DEF Spec

-----------------------------------------------------------------------------
(* They are sent and read.                                                 *)

Pieces == [i \in DOMAIN batch |-> SerializedCommand(batch[i])]
Singles == [i \in DOMAIN batch |-> IF batch[i] = <<>> THEN <<>> ELSE <<batch[i]>>]

\* The commands up to one of them have been read, and their bytes, and no others
ReadUpTo(j, f, g) ==
    /\ j \in 0..Len(batch)
    /\ Flat(Pieces, Len(batch), f) /\ Flat(Singles, Len(batch), g)
    /\ wire = Left(FlattenSeq(Pieces), Len(f[j]))
    /\ received = g[j]

Sending ==
    IF stage \in {"sent", "answered"} THEN \E j, f, g : ReadUpTo(j, f, g)
    ELSE received = <<>>

LEMMA PiecesAre ==
    ASSUME Constructing
    PROVE  /\ Pieces \in Seq(Seq(Byte))
           /\ \A i \in 1..Len(batch) : Pieces[i] = SerializedCommand(batch[i])
<1>1. DOMAIN batch = 1..Len(batch)
  BY LenProperties DEF Constructing
<1>2. Pieces = [i \in DOMAIN batch |-> Pieces[i]]
  BY DEF Pieces
<1>3. \A i \in 1..Len(batch) : Pieces[i] = SerializedCommand(batch[i])
  BY <1>1 DEF Pieces
<1> HIDE DEF Pieces
<1>4. \A i \in 1..Len(batch) : Pieces[i] \in Seq(Byte)
  <2> TAKE i \in 1..Len(batch)
  <2>1. Fits(batch[i])
    BY DEF Constructing
  <2> QED  BY <1>3, <2>1, SerializedTyped
<1>5. Pieces \in Seq(Seq(Byte))
  <2>1. batch \in Seq(Seq(Seq(STRING)))
    BY DEF Constructing
  <2> QED  BY <1>1, <1>2, <1>4, <2>1, MappedIs
<1> QED  BY <1>3, <1>5

LEMMA SinglesAre ==
    ASSUME Constructing
    PROVE  /\ Singles \in Seq(Seq(Seq(Seq(STRING))))
           /\ \A i \in 1..Len(batch) :
                 Singles[i] = IF batch[i] = <<>> THEN <<>> ELSE <<batch[i]>>
<1>0. batch \in Seq(Seq(Seq(STRING)))
  BY DEF Constructing
<1>1. DOMAIN batch = 1..Len(batch)
  BY <1>0, LenProperties
<1>2. Singles = [i \in DOMAIN batch |-> Singles[i]]
  BY DEF Singles
<1>3. \A i \in 1..Len(batch) :
         Singles[i] = IF batch[i] = <<>> THEN <<>> ELSE <<batch[i]>>
  BY <1>1 DEF Singles
<1> HIDE DEF Singles
<1>4. \A i \in 1..Len(batch) : Singles[i] \in Seq(Seq(Seq(STRING)))
  <2> TAKE i \in 1..Len(batch)
  <2> DEFINE w == batch[i]
             L == Seq(Seq(STRING))
  <2>1. w \in L
    BY <1>0, ElementOfSeq
  <2>2. Singles[i] = IF w = <<>> THEN <<>> ELSE <<w>>
    BY <1>3
  <2> HIDE DEF w, L
  <2>3. <<>> \in Seq(L) /\ <<w>> \in Seq(L)
    BY <2>1
  <2>4. Singles[i] \in Seq(L)
    BY <2>2, <2>3
  <2> QED  BY <2>4 DEF L
<1>5. Singles \in Seq(Seq(Seq(Seq(STRING))))
  BY <1>0, <1>1, <1>2, <1>4, MappedIs
<1> QED  BY <1>3, <1>5

LEMMA AsMany ==
    ASSUME Constructing
    PROVE  Len(Pieces) = Len(batch) /\ Len(Singles) = Len(batch)
<1>1. batch \in Seq(Seq(Seq(STRING)))
  BY DEF Constructing
<1>2. Pieces = [i \in DOMAIN batch |-> Pieces[i]]
  BY DEF Pieces
<1>3. Singles = [i \in DOMAIN batch |-> Singles[i]]
  BY DEF Singles
<1> HIDE DEF Pieces, Singles
<1> QED  BY <1>1, <1>2, <1>3, MappedMany

\* Behind what has been read there is either nothing, or the next command that
\* has words
LEMMA NextCommand ==
    ASSUME Constructing, NEW j, NEW f, NEW g, ReadUpTo(j, f, g)
    PROVE  \/ wire = <<>> /\ received = FlattenSeq(Singles)
           \/ \E m \in 1..Len(batch) :
                 /\ batch[m] # <<>> /\ wire # <<>>
                 /\ received = g[m - 1] /\ Holds(wire, 1, Pieces[m])
                 /\ Left(wire, Len(Pieces[m])) = Left(FlattenSeq(Pieces), Len(f[m]))
<1> DEFINE n == Len(batch)
           all == FlattenSeq(Pieces)
           Full == {i \in 1..n : batch[i] # <<>>}
           L == Seq(Seq(STRING))
<1>1. /\ Pieces \in Seq(Seq(Byte))
      /\ \A i \in 1..n : Pieces[i] = SerializedCommand(batch[i])
  BY PiecesAre
<1>2. /\ Singles \in Seq(Seq(L))
      /\ \A i \in 1..n : Singles[i] = IF batch[i] = <<>> THEN <<>> ELSE <<batch[i]>>
  BY SinglesAre
<1>3. Len(Pieces) = n /\ Len(Singles) = n
  BY AsMany
<1>4. /\ j \in 0..n /\ Flat(Pieces, n, f) /\ Flat(Singles, n, g)
      /\ wire = Left(all, Len(f[j])) /\ received = g[j]
  BY DEF ReadUpTo
<1>5. \A i \in 1..n : i \notin Full => Pieces[i] = <<>> /\ Singles[i] = <<>>
  <2> SUFFICES ASSUME NEW i \in 1..n, batch[i] = <<>>
               PROVE  Pieces[i] = <<>> /\ Singles[i] = <<>>
    OBVIOUS
  <2>1. Fits(batch[i]) /\ Len(batch[i]) = 0
    BY EmptySeq DEF Constructing
  <2>2. SerializedCommand(batch[i]) = <<>>
    BY <2>1, SerializedBy
  <2> QED  BY <1>1, <1>2, <2>2
<1>6. \/ f[j] = f[n] /\ g[j] = g[n]
      \/ \E m \in 1..n : m \in Full /\ f[m - 1] = f[j] /\ g[m - 1] = g[j]
  <2>1. Alike(n, Pieces, f, Singles, g, Full)
    BY <1>3, <1>4, <1>5 DEF Alike
  <2> HIDE DEF n, Full, L
  <2>2. j \in 0..n /\ Pieces \in Seq(Seq(Byte)) /\ Singles \in Seq(Seq(L))
    BY <1>1, <1>2, <1>4
  <2> QED  BY <2>1, <2>2, FlatSkips
<1>7. all = f[n] /\ all \in Seq(Byte)
  <2> HIDE DEF n
  <2>1. Flat(Pieces, Len(Pieces), f)
    BY <1>3, <1>4
  <2>2. FlattenSeq(Pieces) = f[Len(Pieces)] /\ FlattenSeq(Pieces) \in Seq(Byte)
    BY <1>1, <2>1, FlatLast
  <2> QED  BY <1>3, <2>2
<1>8. FlattenSeq(Singles) = g[n]
  <2> HIDE DEF L, n
  <2>1. Flat(Singles, Len(Singles), g)
    BY <1>3, <1>4
  <2>2. FlattenSeq(Singles) = g[Len(Singles)]
    BY <1>2, <2>1, FlatLast
  <2> QED  BY <1>3, <2>2
<1>9. CASE f[j] = f[n] /\ g[j] = g[n]
  <2>1. Len(all) \in Nat
    BY <1>7, LenProperties
  <2>2. wire = SubSeq(all, Len(all) + 1, Len(all))
    BY <1>4, <1>7, <1>9 DEF Left
  <2> HIDE DEF all
  <2>3. wire = <<>>
    BY <2>1, <2>2, SubSeqEmpty
  <2> QED  BY <1>4, <1>8, <1>9, <2>3
<1>10. ASSUME NEW m \in 1..n, batch[m] # <<>>, f[m - 1] = f[j], g[m - 1] = g[j]
       PROVE  /\ wire # <<>> /\ received = g[m - 1] /\ Holds(wire, 1, Pieces[m])
              /\ Left(wire, Len(Pieces[m])) = Left(all, Len(f[m]))
  <2> DEFINE s == Pieces[m]
             c == Len(f[m - 1])
  <2>1. Holds(all, 1, all)
    <3>1. \A k \in 1..Len(all) : all[1 + k - 1] = all[k]
      OBVIOUS
    <3>2. Len(all) \in Nat
      BY <1>7, LenProperties
    <3> HIDE DEF all
    <3>3. 1 + Len(all) <= Len(all) + 1
      BY <3>2
    <3> QED  BY <1>7, <3>1, <3>3 DEF Holds, End
  <2>2. \A i \in 1..Len(Pieces) :
           /\ Holds(all, 1 + Len(f[i - 1]), Pieces[i])
           /\ Len(f[i]) = Len(f[i - 1]) + Len(Pieces[i])
           /\ Len(f[i - 1]) \in Nat /\ Len(Pieces[i]) \in Nat
    <3>1. Flat(Pieces, Len(Pieces), f)
      BY <1>3, <1>4
    <3> QED  BY <1>1, <2>1, <3>1, HoldsEach
  <2>3. m \in 1..Len(Pieces)
    BY <1>3
  <2>4. Holds(all, 1 + c, s) /\ Len(f[m]) = c + Len(s) /\ c \in Nat
    BY <2>2, <2>3
  <2>5. Len(s) # 0
    <3>1. Fits(batch[m]) /\ batch[m] # <<>>
      BY <1>10 DEF Constructing
    <3>2. s = SerializedCommand(batch[m])
      BY <1>1
    <3> HIDE DEF s
    <3> QED  BY <3>1, <3>2, SerializedTyped
  <2>6. wire = Left(all, c)
    BY <1>4, <1>10
  <2> HIDE DEF s, c, all
  <2>7. /\ Holds(Left(all, c), 1, s) /\ Left(Left(all, c), Len(s)) = Left(all, c + Len(s))
        /\ Len(s) \in Nat /\ c + Len(s) <= Len(all)
    BY <2>4, LeftHolds
  <2>8. wire # <<>>
    <3>1. Len(all) \in Nat
      BY <1>7, LenProperties
    <3>2. c <= Len(all) /\ Len(all) - c # 0
      BY <2>4, <2>5, <2>7, <3>1
    <3>3. Len(Left(all, c)) = Len(all) - c
      BY <1>7, <2>4, <3>2, LeftIs
    <3>4. Len(<<>>) = 0
      BY EmptySeq
    <3>5. Len(wire) = Len(all) - c
      BY <2>6, <3>3
    <3> QED  BY <3>2, <3>4, <3>5
  <2>9. received = g[m - 1]
    BY <1>4, <1>10
  <2> QED  BY <2>4, <2>6, <2>7, <2>8, <2>9 DEF s
<1> HIDE DEF all
<1>11. CASE \E m \in 1..n : m \in Full /\ f[m - 1] = f[j] /\ g[m - 1] = g[j]
  <2>1. PICK m \in 1..n : batch[m] # <<>> /\ f[m - 1] = f[j] /\ g[m - 1] = g[j]
    BY <1>11
  <2>2. /\ wire # <<>> /\ received = g[m - 1] /\ Holds(wire, 1, Pieces[m])
        /\ Left(wire, Len(Pieces[m])) = Left(all, Len(f[m]))
    BY <1>10, <2>1
  <2> QED  BY <2>1, <2>2 DEF all
<1> QED  BY <1>6, <1>9, <1>11 DEF all

LEMMA ServeReads ==
    ASSUME Constructing, NEW j, NEW f, NEW g, ReadUpTo(j, f, g), Serve
    PROVE  \E m : ReadUpTo(m, f, g)'
<1> DEFINE n == Len(batch)
           L == Seq(Seq(STRING))
<1>1. /\ wire # <<>> /\ batch' = batch
      /\ LinesArePlain
      /\ received' = Append(received, Request.words)
      /\ wire' = SubSeq(wire, Request.next, Len(wire))
  BY DEF Serve
<1>2. PICK m \in 1..n :
         /\ batch[m] # <<>> /\ received = g[m - 1] /\ Holds(wire, 1, Pieces[m])
         /\ Left(wire, Len(Pieces[m])) = Left(FlattenSeq(Pieces), Len(f[m]))
  BY <1>1, NextCommand
<1>3. /\ Pieces[m] = SerializedCommand(batch[m]) /\ Pieces[m] \in Seq(Byte)
      /\ Singles[m] = <<batch[m]>> /\ Singles \in Seq(Seq(L))
  <2>1. Pieces[m] = SerializedCommand(batch[m])
    BY PiecesAre
  <2>2. Fits(batch[m])
    BY DEF Constructing
  <2>3. Singles[m] = IF batch[m] = <<>> THEN <<>> ELSE <<batch[m]>>
    BY SinglesAre
  <2>4. Singles \in Seq(Seq(L))
    BY SinglesAre
  <2>5. Pieces[m] \in Seq(Byte)
    BY <2>1, <2>2, SerializedTyped
  <2> QED  BY <1>2, <2>1, <2>3, <2>4, <2>5
<1>4. Request.words = batch[m] /\ Request.next = 1 + Len(Pieces[m])
  <2>1. Fits(batch[m])
    BY DEF Constructing
  <2>2. DOMAIN batch = 1..Len(batch)
    BY LenProperties DEF Constructing
  <2>3. Len(batch[m]) = 1 => Plain(batch[m][1])
    BY <1>1, <2>2 DEF LinesArePlain
  <2>4. Holds(wire, 1, SerializedCommand(batch[m]))
    BY <1>2, <1>3
  <2>5. Request.words = batch[m] /\ Request.next = 1 + Len(SerializedCommand(batch[m]))
    BY <1>2, <2>1, <2>3, <2>4, RequestRead
  <2> QED  BY <1>3, <2>5
<1>5. wire' = Left(FlattenSeq(Pieces), Len(f[m]))
  <2>1. Len(Pieces[m]) \in Nat
    BY <1>3, LenProperties
  <2>2. Request.next = Len(Pieces[m]) + 1
    BY <1>4, <2>1
  <2>3. wire' = Left(wire, Len(Pieces[m]))
    BY <1>1, <2>2 DEF Left
  <2> QED  BY <1>2, <2>3
<1>6. received' = g[m]
  <2>1. Flat(Singles, n, g)
    BY DEF ReadUpTo
  <2>2. g[m] = Joined(g[m - 1], <<batch[m]>>)
    BY <1>3, <2>1 DEF Flat
  <2>3. g[m - 1] \in Seq(L) /\ batch[m] \in L
    <3>1. Len(Singles) = n
      BY AsMany
    <3>2. Flat(Singles, Len(Singles), g)
      BY <2>1, <3>1
    <3>3. \A i \in 0..Len(Singles) : g[i] \in Seq(L)
      <4> HIDE DEF L
      <4> QED  BY <1>3, <3>2, FlatSeqs
    <3>4. m - 1 \in 0..n
      <4>1. n \in Nat
        BY LenProperties DEF Constructing
      <4> QED  BY <4>1
    <3>5. batch[m] \in L
      BY ElementOfSeq DEF Constructing
    <3> QED  BY <3>1, <3>3, <3>4, <3>5
  <2>4. Append(g[m - 1], batch[m]) = Joined(g[m - 1], <<batch[m]>>)
    <3> HIDE DEF L
    <3> QED  BY <2>3, AppendIsConcat DEF Joined
  <2> QED  BY <1>1, <1>2, <1>4, <2>2, <2>4
<1>7. Pieces' = Pieces /\ Singles' = Singles
  BY <1>1 DEF Pieces, Singles
<1>8. m \in 0..n
  <2>1. n \in Nat
    BY LenProperties DEF Constructing
  <2> QED  BY <2>1
<1>9. Flat(Pieces, n, f) /\ Flat(Singles, n, g)
  BY DEF ReadUpTo
<1>10. ReadUpTo(m, f, g)'
  BY <1>1, <1>5, <1>6, <1>7, <1>8, <1>9 DEF ReadUpTo
<1> QED  BY <1>10

LEMMA SendAllSends ==
    ASSUME Constructing, received = <<>>, SendAll
    PROVE  Sending'
<1>1. /\ wire' = FlattenSeq(Pieces) /\ batch' = batch /\ received' = <<>> /\ stage' = "sent"
  BY DEF SendAll, Pieces
<1>2. Len(batch) \in Nat
  BY LenProperties DEF Constructing
<1>3. PICK f : Flat(Pieces, Len(batch), f)
  BY <1>2, FlatExists
<1>4. PICK g : Flat(Singles, Len(batch), g)
  BY <1>2, FlatExists
<1>5. f[0] = <<>> /\ g[0] = <<>> /\ Len(<<>>) = 0 /\ 0 \in 0..Len(batch)
  BY <1>2, <1>3, <1>4, EmptySeq DEF Flat
<1>6. Left(FlattenSeq(Pieces), 0) = FlattenSeq(Pieces)
  <2>1. Pieces \in Seq(Seq(Byte)) /\ Len(Pieces) = Len(batch)
    BY PiecesAre, AsMany
  <2>2. Flat(Pieces, Len(Pieces), f)
    BY <1>3, <2>1
  <2>3. FlattenSeq(Pieces) \in Seq(Byte)
    BY <2>1, <2>2, FlatLast
  <2>4. 0 + 1 = 1
    OBVIOUS
  <2> QED  BY <2>3, <2>4, SubSeqFull DEF Left
<1>7. Pieces' = Pieces /\ Singles' = Singles
  BY <1>1 DEF Pieces, Singles
<1>8. ReadUpTo(0, f, g)'
  BY <1>1, <1>3, <1>4, <1>5, <1>6, <1>7 DEF ReadUpTo
<1> QED  BY <1>1, <1>8 DEF Sending

\* Commands are sent one behind the other, and the server has read those whose
\* bytes are no longer there (client.cpp:116-119).
THEOREM SentIsLeft == Spec => []Sending
<1>1. Init => Sending
  BY DEF Init, NoCommand, Sending
<1>2. Constructing /\ Sending /\ [Next]_vars => Sending'
  <2> SUFFICES ASSUME Constructing, Sending, [Next]_vars
               PROVE  Sending'
    OBVIOUS
  <2>1. ASSUME UNCHANGED received, stage \notin {"sent", "answered"},
               stage' \notin {"sent", "answered"}
        PROVE  Sending'
    BY <2>1 DEF Sending
  <2>2. ASSUME UNCHANGED <<batch, wire, received>>,
               stage \in {"sent", "answered"}, stage' \in {"sent", "answered"}
        PROVE  Sending'
    <3>1. PICK j, f, g : ReadUpTo(j, f, g)
      BY <2>2 DEF Sending
    <3>2. Pieces' = Pieces /\ Singles' = Singles
      BY <2>2 DEF Pieces, Singles
    <3>3. ReadUpTo(j, f, g)'
      BY <2>2, <3>1, <3>2 DEF ReadUpTo
    <3> QED  BY <2>2, <3>3 DEF Sending
  <2>3. CASE Construct
    BY <2>1, <2>3 DEF Construct, FromText, FromWords, outside
  <2>4. CASE Throw
    BY <2>1, <2>4 DEF Throw, outside
  <2>5. CASE ReadText
    <3>1. stage = "reading" /\ UNCHANGED received /\ stage' \in {"reading", "built", "undefined"}
      BY <2>5 DEF ReadText, outside, Turn, Delimiter, Quoted, LastQuote, Other,
                  LastMember, AtByte
    <3> QED  BY <2>1, <3>1
  <2>6. CASE Collect
    BY <2>1, <2>6 DEF Collect, outside
  <2>7. CASE SendAll
    <3>1. received = <<>>
      BY <2>7 DEF SendAll, Sending
    <3> QED  BY <2>7, <3>1, SendAllSends
  <2>8. CASE Serve
    <3>1. stage = "sent" /\ stage' = "sent"
      BY <2>8 DEF Serve, commandVars
    <3>2. PICK j, f, g : ReadUpTo(j, f, g)
      BY <3>1 DEF Sending
    <3>3. \E m : ReadUpTo(m, f, g)'
      BY <2>8, <3>2, ServeReads
    <3> QED  BY <3>1, <3>3 DEF Sending
  <2>9. CASE Answer
    <3>1. stage = "sent" /\ stage' = "answered" /\ UNCHANGED <<batch, wire, received>>
      BY <2>9 DEF Answer
    <3> QED  BY <2>2, <3>1
  <2>10. CASE UNCHANGED vars
    <3>1. UNCHANGED <<batch, wire, received, stage>>
      BY <2>10 DEF vars, commandVars
    <3> QED  BY <2>1, <2>2, <3>1
  <2> QED  BY <2>3, <2>4, <2>5, <2>6, <2>7, <2>8, <2>9, <2>10 DEF Next
<1> QED  BY <1>1, <1>2, Constructed, PTL DEF Spec

\* A part that is joined first is a prefix
LEMMA JoinedPrefix ==
    ASSUME NEW S, NEW s \in Seq(S), NEW t \in Seq(S)
    PROVE  IsPrefix(s, Joined(s, t))
<1> DEFINE whole == Joined(s, t)
           n == Len(s)
<1>1. Len(s) \in Nat /\ Len(t) \in Nat
  BY LenProperties
<1>2. whole \in Seq(S) /\ Len(whole) = Len(s) + Len(t)
  BY JoinedLength
<1>3. \A k \in 1..Len(s) : whole[k] = s[k]
  <2> TAKE k \in 1..Len(s)
  <2>1. k \in 1..(Len(s) + Len(t)) /\ k <= Len(s)
    BY <1>1
  <2> QED  BY <2>1, ConcatProperties DEF Joined
<1> HIDE DEF whole
<1>4. Len(s) <= Len(whole)
  BY <1>1, <1>2
<1>5. SubSeq(whole, 1, n) \in Seq(S) /\ Len(SubSeq(whole, 1, n)) = n
      /\ \A k \in 1..n : SubSeq(whole, 1, n)[k] = whole[k]
  <2> DEFINE part == SubSeq(whole, 1, n)
  <2>1. \A k \in 1..n : whole[k] \in S
    BY <1>3, ElementOfSeq
  <2>2. 1 \in Int /\ n \in Int
    BY <1>1
  <2>3. part \in Seq(S)
    BY <2>1, <2>2, SubSeqProperties
  <2>4. Len(part) = IF 1 <= n THEN n - 1 + 1 ELSE 0
    BY <2>1, <2>2, SubSeqProperties
  <2>5. \A k \in 1..(n - 1 + 1) : part[k] = whole[1 + k - 1]
    BY <2>1, <2>2, SubSeqProperties
  <2> HIDE DEF part
  <2>6. Len(part) = n /\ n - 1 + 1 = n
    BY <1>1, <2>4
  <2>7. \A k \in 1..n : part[k] = whole[k]
    <3> TAKE k \in 1..n
    <3>1. 1 + k - 1 = k /\ k \in 1..(n - 1 + 1)
      BY <1>1, <2>6
    <3> QED  BY <2>5, <3>1
  <2> QED  BY <2>3, <2>6, <2>7 DEF part
<1>6. SubSeq(whole, 1, n) = s
  <2> DEFINE part == SubSeq(whole, 1, n)
  <2>1. part \in Seq(S) /\ Len(part) = Len(s) /\ \A k \in 1..Len(part) : part[k] = s[k]
    BY <1>3, <1>5
  <2> HIDE DEF part
  <2>2. part = s
    BY <2>1, SeqEqual
  <2> QED  BY <2>2 DEF part
<1>7. SubSeq(s, 1, Len(s)) = s
  BY SubSeqFull
<1> QED  BY <1>4, <1>6, <1>7 DEF IsPrefix, whole

\* The server gets the words of the commands, in order, and no byte is left for
\* another one, whatever bytes they hold where a command has two words or more
\* (command.cpp:51-73, client.cpp:116-119). It takes in only pipelines whose
\* commands of one word are plain ones: command.cpp:57 sends that word as a raw
\* line, and where it has a space or a line end the framing breaks.
THEOREM WordsAreRead == Spec => []WordsReachServer
<1>1. Constructing /\ Sending => WordsReachServer
  <2> SUFFICES ASSUME Constructing, Sending, received # <<>>
               PROVE  IsPrefix(received, Commands) /\ (wire = <<>> => received = Commands)
    BY DEF WordsReachServer
  <2> DEFINE L == Seq(Seq(STRING))
  <2>1. PICK j, f, g : ReadUpTo(j, f, g)
    BY DEF Sending
  <2>2. Commands = FlattenSeq(Singles)
    BY DEF Commands, Singles
  <2>3. wire = <<>> => received = Commands
    BY <2>1, <2>2, NextCommand
  <2>4. Singles \in Seq(Seq(L))
    BY SinglesAre
  <2>5. Len(Singles) = Len(batch)
    BY AsMany
  <2> HIDE DEF L
  <2>6. Flat(Singles, Len(Singles), g) /\ j \in 0..Len(Singles) /\ received = g[j]
    BY <2>1, <2>5 DEF ReadUpTo
  <2>7. PICK rest \in Seq(L) : g[Len(Singles)] = Joined(g[j], rest)
    BY <2>4, <2>6, FlatRest
  <2>8. g[j] \in Seq(L)
    BY <2>4, <2>6, FlatSeqs
  <2>9. FlattenSeq(Singles) = g[Len(Singles)]
    BY <2>4, <2>6, FlatLast
  <2>10. IsPrefix(received, Commands)
    BY <2>2, <2>6, <2>7, <2>8, <2>9, JoinedPrefix
  <2> QED  BY <2>3, <2>10
<1> QED  BY <1>1, Constructed, SentIsLeft, PTL

-----------------------------------------------------------------------------
(* The words are those of the text.                                        *)

LEMMA ListIs ==
    ASSUME NEW S, NEW n \in Nat, NEW s \in [1..n -> S]
    PROVE  s \in Seq(S) /\ Len(s) = n
OBVIOUS

\* One more sequence is joined to those before it
LEMMA FlatNext ==
    ASSUME NEW S, NEW ss \in Seq(Seq(S)), NEW tt \in Seq(Seq(S)), Len(tt) = Len(ss) + 1,
           \A j \in 1..Len(ss) : tt[j] = ss[j]
    PROVE  /\ FlattenSeq(tt) = Joined(FlattenSeq(ss), tt[Len(ss) + 1])
           /\ FlattenSeq(ss) \in Seq(S) /\ tt[Len(ss) + 1] \in Seq(S)
<1> DEFINE n == Len(ss)
<1>1. n \in Nat /\ Len(tt) = n + 1
  BY LenProperties
<1>2. \A j \in 1..n : tt[j] = ss[j]
  OBVIOUS
<1> HIDE DEF n
<1>3. PICK f : Flat(tt, n + 1, f)
  <2>1. n + 1 \in Nat
    BY <1>1
  <2> QED  BY <2>1, FlatExists
<1>4. /\ f[0] = <<>> /\ \A j \in 1..(n + 1) : f[j] = Joined(f[j - 1], tt[j])
  BY <1>3 DEF Flat
<1>5. Flat(ss, n, f)
  BY <1>1, <1>2, <1>4 DEF Flat
<1>6. FlattenSeq(tt) = f[n + 1]
  BY <1>1, <1>3, FlatLast
<1>7. FlattenSeq(ss) = f[n] /\ FlattenSeq(ss) \in Seq(S)
  BY <1>5, FlatLast DEF n
<1>8. f[n + 1] = Joined(f[n], tt[n + 1])
  BY <1>1, <1>4
<1>9. tt[n + 1] \in Seq(S)
  BY <1>1, ElementOfSeq
<1> QED  BY <1>6, <1>7, <1>8, <1>9 DEF n

\* Nothing comes of empty ones
LEMMA FlatNothing ==
    ASSUME NEW S, NEW ss \in Seq(Seq(S)), \A j \in 1..Len(ss) : ss[j] = <<>>
    PROVE  FlattenSeq(ss) = <<>>
<1> DEFINE n == Len(ss)
<1>1. n \in Nat
  BY LenProperties
<1>2. PICK f : Flat(ss, n, f)
  BY <1>1, FlatExists
<1> DEFINE T == {j \in Nat : j \in 0..n => f[j] = <<>>}
<1>3. 0 \in T
  BY <1>2 DEF Flat
<1>4. ASSUME NEW j \in Nat, j \in T
      PROVE  j + 1 \in T
  <2> SUFFICES ASSUME j + 1 \in 0..n
               PROVE  f[j + 1] = <<>>
    OBVIOUS
  <2>1. f[j] = <<>> /\ j + 1 \in 1..n /\ (j + 1) - 1 = j
    BY <1>1, <1>4
  <2>2. f[j + 1] = Joined(<<>>, <<>>)
    BY <1>2, <2>1 DEF Flat
  <2>3. <<>> \in Seq(S)
    BY EmptySeq
  <2> QED  BY <2>2, <2>3, ConcatEmptySeq DEF Joined
<1> HIDE DEF T
<1>5. n \in T
  BY <1>1, <1>3, <1>4, AllNumbers
<1>6. f[n] = <<>>
  BY <1>1, <1>5 DEF T
<1> QED  BY <1>2, <1>6, FlatLast

\* A quote is the one thing that changes whether what is behind it is in quotes
LEMMA QuotesChange ==
    ASSUME NEW t, NEW i \in Nat \ {0}
    PROVE  InQuotes(t, i + 1) <=> (IF t[i] = "QUOTE" THEN ~ InQuotes(t, i) ELSE InQuotes(t, i))
<1> DEFINE Q == {j \in 1..(i - 1) : t[j] = "QUOTE"}
           R == {j \in 1..((i + 1) - 1) : t[j] = "QUOTE"}
           q == Cardinality(Q)
<1>1. R = IF t[i] = "QUOTE" THEN Q \cup {i} ELSE Q
  <2>1. 1..((i + 1) - 1) = 1..(i - 1) \cup {i}
    OBVIOUS
  <2> QED  BY <2>1
<1>2. i \notin Q
  OBVIOUS
<1>3. IsFiniteSet(Q)
  <2>1. IsFiniteSet(1..(i - 1))
    BY FS_Interval
  <2> QED  BY <2>1, FS_Subset
<1>4. q \in Nat
  BY <1>3, FS_CardinalityType
<1>5. Cardinality(Q \cup {i}) = q + 1
  BY <1>2, <1>3, FS_AddElement
<1>6. (InQuotes(t, i) <=> q % 2 = 1) /\ (InQuotes(t, i + 1) <=> Cardinality(R) % 2 = 1)
  BY DEF InQuotes
<1> HIDE DEF Q, R
<1>7. (q + 1) % 2 = 1 <=> ~ (q % 2 = 1)
  <2> HIDE DEF q
  <2> QED  BY <1>4
<1>8. CASE t[i] = "QUOTE"
  <2>1. Cardinality(R) = q + 1
    BY <1>1, <1>5, <1>8
  <2> QED  BY <1>6, <1>7, <1>8, <2>1
<1>9. CASE t[i] # "QUOTE"
  <2>1. Cardinality(R) = q
    BY <1>1, <1>9
  <2> QED  BY <1>6, <1>9, <2>1
<1> QED  BY <1>8, <1>9

\* The letters of the word that is before a position
LettersOf(t, i) == [j \in 1..(i - 1) |-> IF InWord(t, j, i) THEN <<t[j]>> ELSE <<>>]
LEMMA LettersTyped ==
    ASSUME NEW S, NEW t \in Seq(S), NEW i \in 1..End(t)
    PROVE  /\ LettersOf(t, i) \in Seq(Seq(S)) /\ Len(LettersOf(t, i)) = i - 1
           /\ i \in Nat /\ i - 1 \in Nat
<1> DEFINE s == LettersOf(t, i)
           n == i - 1
<1>1. Len(t) \in Nat
  BY LenProperties
<1>2. n \in Nat /\ i \in Nat /\ n <= Len(t)
  BY <1>1 DEF End
<1>4. \A j \in 1..n : s[j] \in Seq(S)
  <2> TAKE j \in 1..n
  <2>1. t[j] \in S
    BY <1>1, <1>2, ElementOfSeq
  <2>2. <<t[j]>> \in Seq(S) /\ <<>> \in Seq(S)
    BY <2>1, EmptySeq
  <2>3. s[j] = IF InWord(t, j, i) THEN <<t[j]>> ELSE <<>>
    BY DEF LettersOf
  <2> QED  BY <2>2, <2>3
<1>3. s \in [1..n -> Seq(S)]
  <2>1. s = [j \in 1..n |-> s[j]]
    BY DEF LettersOf
  <2> HIDE DEF n, s
  <2> QED  BY <1>4, <2>1
<1> HIDE DEF n, s
<1>5. s \in Seq(Seq(S)) /\ Len(s) = n
  BY <1>2, <1>3, ListIs
<1> QED  BY <1>2, <1>5 DEF n, s

LEMMA WordGrows ==
    ASSUME NEW S, NEW t \in Seq(S), NEW i \in 1..Len(t)
    PROVE  /\ WordBefore(t, i) \in Seq(S)
           /\ WordBefore(t, i + 1) =
                IF EndsWord(t, i) THEN <<>>
                ELSE IF t[i] = "QUOTE" THEN WordBefore(t, i)
                ELSE Append(WordBefore(t, i), t[i])
<1> DEFINE s == LettersOf(t, i)
           u == LettersOf(t, i + 1)
           n == i - 1
<1>1. Len(t) \in Nat /\ i \in Nat /\ i \in 1..End(t) /\ i + 1 \in 1..End(t) /\ t[i] \in S
  BY LenProperties, ElementOfSeq DEF End
<1>2. s \in Seq(Seq(S)) /\ Len(s) = n /\ u \in Seq(Seq(S)) /\ Len(u) = n + 1 /\ n \in Nat
  BY <1>1, LettersTyped
<1>3. FlattenSeq(s) = WordBefore(t, i) /\ FlattenSeq(u) = WordBefore(t, i + 1)
  BY DEF LettersOf, WordBefore
<1>4. /\ \A j \in 1..n : s[j] = IF InWord(t, j, i) THEN <<t[j]>> ELSE <<>>
      /\ \A j \in 1..(n + 1) : u[j] = IF InWord(t, j, i + 1) THEN <<t[j]>> ELSE <<>>
  BY <1>1 DEF LettersOf
<1>5. i = n + 1 /\ i \in Nat /\ n \in Nat
  BY <1>1, <1>2
<1> HIDE DEF s, u, n
<1>6. FlattenSeq(s) \in Seq(S)
  <2>1. PICK f : Flat(s, Len(s), f)
    BY <1>2, FlatExists
  <2> QED  BY <1>2, <2>1, FlatLast
<1>7. CASE EndsWord(t, i)
  <2>1. \A j \in 1..(n + 1) : ~ InWord(t, j, i + 1)
    <3> TAKE j \in 1..(n + 1)
    <3>1. i \in j..((i + 1) - 1)
      BY <1>5
    <3> QED  BY <1>7, <3>1 DEF InWord
  <2>4. \A j \in 1..(n + 1) : u[j] = <<>>
    BY <1>4, <2>1
  <2>2. \A j \in 1..Len(u) : u[j] = <<>>
    BY <1>2, <2>4
  <2>3. FlattenSeq(u) = <<>>
    BY <1>2, <2>2, FlatNothing
  <2> QED  BY <1>3, <1>6, <1>7, <2>3
<1>8. CASE ~ EndsWord(t, i)
  <2>1. \A j \in 1..n : InWord(t, j, i + 1) <=> InWord(t, j, i)
    <3> TAKE j \in 1..n
    <3>1. j..((i + 1) - 1) = j..(i - 1) \cup {i}
      BY <1>5
    <3> QED  BY <1>8, <3>1 DEF InWord
  <2>2. \A j \in 1..n : u[j] = s[j]
    <3> TAKE j \in 1..n
    <3>1. j \in 1..(n + 1)
      BY <1>5
    <3>2. s[j] = IF InWord(t, j, i) THEN <<t[j]>> ELSE <<>>
      BY <1>4
    <3>3. u[j] = IF InWord(t, j, i + 1) THEN <<t[j]>> ELSE <<>>
      BY <1>4, <3>1
    <3> QED  BY <2>1, <3>2, <3>3
  <2>3. FlattenSeq(u) = Joined(FlattenSeq(s), u[n + 1])
    BY <1>2, <2>2, FlatNext
  <2>4. InWord(t, i, i + 1) <=> t[i] # "QUOTE"
    <3>1. i..((i + 1) - 1) = {i}
      BY <1>1
    <3> QED  BY <1>8, <3>1 DEF InWord
  <2>5. u[n + 1] = IF t[i] # "QUOTE" THEN <<t[i]>> ELSE <<>>
    BY <1>2, <1>4, <1>5, <2>4
  <2>6. CASE t[i] = "QUOTE"
    <3>1. FlattenSeq(u) = Joined(FlattenSeq(s), <<>>)
      BY <2>3, <2>5, <2>6
    <3>2. FlattenSeq(u) = FlattenSeq(s)
      BY <1>6, <3>1, ConcatEmptySeq DEF Joined
    <3> QED  BY <1>3, <1>6, <1>8, <2>6, <3>2
  <2>7. CASE t[i] # "QUOTE"
    <3>1. FlattenSeq(u) = Joined(FlattenSeq(s), <<t[i]>>)
      BY <2>3, <2>5, <2>7
    <3>2. FlattenSeq(u) = Append(FlattenSeq(s), t[i])
      BY <1>1, <1>6, <3>1, AppendIsConcat DEF Joined
    <3> QED  BY <1>3, <1>6, <1>8, <2>7, <3>2
  <2> QED  BY <2>6, <2>7
<1> QED  BY <1>7, <1>8

\* The words that have ended before a position
SpaceWord(t, i) ==
    IF EndsWord(t, i) /\ WordBefore(t, i) # <<>> THEN <<WordBefore(t, i)>> ELSE <<>>
EndedWords(t, i) == [j \in 1..(i - 1) |-> SpaceWord(t, j)]
WordsBefore(t, i) == FlattenSeq(EndedWords(t, i))

LEMMA WordTyped ==
    ASSUME NEW S, NEW t \in Seq(S), NEW i \in 1..End(t)
    PROVE  WordBefore(t, i) \in Seq(S)
<1>1. LettersOf(t, i) \in Seq(Seq(S)) /\ i - 1 \in Nat /\ Len(LettersOf(t, i)) = i - 1
  BY LettersTyped
<1>2. PICK f : Flat(LettersOf(t, i), Len(LettersOf(t, i)), f)
  BY <1>1, FlatExists
<1>3. FlattenSeq(LettersOf(t, i)) \in Seq(S)
  BY <1>1, <1>2, FlatLast
<1> QED  BY <1>3 DEF LettersOf, WordBefore

LEMMA EndedTyped ==
    ASSUME NEW S, NEW t \in Seq(S), NEW i \in 1..(End(t) + 1)
    PROVE  /\ EndedWords(t, i) \in Seq(Seq(Seq(S))) /\ Len(EndedWords(t, i)) = i - 1
           /\ WordsBefore(t, i) \in Seq(Seq(S)) /\ i - 1 \in Nat
<1> DEFINE s == EndedWords(t, i)
           n == i - 1
<1>1. n \in Nat /\ n <= End(t) /\ End(t) \in Nat
  <2>1. Len(t) \in Nat
    BY LenProperties
  <2> QED  BY <2>1 DEF End
<1>2. \A j \in 1..n : s[j] \in Seq(Seq(S))
  <2> TAKE j \in 1..n
  <2> DEFINE w == WordBefore(t, j)
  <2>1. j \in 1..End(t)
    <3> HIDE DEF n
    <3> QED  BY <1>1
  <2>2. w \in Seq(S)
    BY <2>1, WordTyped
  <2>3. s[j] = SpaceWord(t, j)
    BY DEF EndedWords
  <2>4. s[j] = <<w>> \/ s[j] = <<>>
    BY <2>3 DEF SpaceWord
  <2> HIDE DEF w, s
  <2>5. <<w>> \in Seq(Seq(S)) /\ <<>> \in Seq(Seq(S))
    BY <2>2, EmptySeq
  <2> QED  BY <2>4, <2>5
<1>3. s \in [1..n -> Seq(Seq(S))]
  <2>1. s = [j \in 1..n |-> s[j]]
    BY DEF EndedWords
  <2> HIDE DEF n, s
  <2> QED  BY <1>2, <2>1
<1> HIDE DEF n, s
<1>4. s \in Seq(Seq(Seq(S))) /\ Len(s) = n
  BY <1>1, <1>3, ListIs
<1>5. PICK f : Flat(s, Len(s), f)
  BY <1>1, <1>4, FlatExists
<1>6. FlattenSeq(s) \in Seq(Seq(S))
  BY <1>4, <1>5, FlatLast
<1> QED  BY <1>1, <1>4, <1>6 DEF n, s, WordsBefore

LEMMA WordsGrow ==
    ASSUME NEW S, NEW t \in Seq(S), NEW i \in 1..End(t)
    PROVE  /\ WordsBefore(t, i + 1) = Joined(WordsBefore(t, i), SpaceWord(t, i))
           /\ WordsBefore(t, i) \in Seq(Seq(S)) /\ WordBefore(t, i) \in Seq(S)
<1> DEFINE s == EndedWords(t, i)
           u == EndedWords(t, i + 1)
           n == i - 1
<1>1. Len(t) \in Nat /\ i \in Nat /\ i \in 1..(End(t) + 1) /\ i + 1 \in 1..(End(t) + 1)
  BY LenProperties DEF End
<1>2. s \in Seq(Seq(Seq(S))) /\ Len(s) = n /\ WordsBefore(t, i) \in Seq(Seq(S))
  BY <1>1, EndedTyped
<1>3. u \in Seq(Seq(Seq(S))) /\ Len(u) = (i + 1) - 1
  BY <1>1, EndedTyped
<1>4. i = n + 1 /\ n \in Nat /\ (i + 1) - 1 = n + 1
  BY <1>1
<1>5. /\ \A j \in 1..n : s[j] = SpaceWord(t, j)
      /\ \A j \in 1..(n + 1) : u[j] = SpaceWord(t, j)
  BY <1>4 DEF EndedWords
<1>6. FlattenSeq(s) = WordsBefore(t, i) /\ FlattenSeq(u) = WordsBefore(t, i + 1)
  BY DEF WordsBefore
<1> HIDE DEF s, u, n
<1>7. \A j \in 1..n : u[j] = s[j]
  BY <1>4, <1>5
<1>8. FlattenSeq(u) = Joined(FlattenSeq(s), u[n + 1])
  BY <1>2, <1>3, <1>4, <1>7, FlatNext
<1>9. u[n + 1] = SpaceWord(t, i)
  BY <1>4, <1>5
<1> QED  BY <1>2, <1>6, <1>8, <1>9, WordTyped

\* The words of what is before a position
LEMMA WordsOfFirst ==
    ASSUME NEW S, NEW t \in Seq(S), NEW i \in 1..End(t)
    PROVE  WordsOf(SubSeq(t, 1, i - 1)) =
             IF WordBefore(t, i) = <<>> THEN WordsBefore(t, i)
             ELSE Append(WordsBefore(t, i), WordBefore(t, i))
<1> DEFINE s == SubSeq(t, 1, i - 1)
           u == [j \in 1..i |-> IF EndsWord(s, j) /\ WordBefore(s, j) # <<>>
                                THEN <<WordBefore(s, j)>> ELSE <<>>]
<1>1. Len(t) \in Nat /\ i \in Nat /\ i - 1 \in Nat /\ i - 1 <= Len(t)
  BY LenProperties DEF End
<1>2. Len(s) = i - 1 /\ \A j \in 1..(i - 1) : s[j] = t[j]
  <2>1. \A j \in 1..(i - 1) : t[j] \in S
    BY <1>1, ElementOfSeq
  <2>2. i - 1 \in Int /\ 1 \in Int
    BY <1>1
  <2>3. /\ Len(s) = IF 1 <= i - 1 THEN (i - 1) - 1 + 1 ELSE 0
        /\ \A j \in 1..((i - 1) - 1 + 1) : s[j] = t[1 + j - 1]
    BY <2>1, <2>2, SubSeqProperties
  <2> HIDE DEF s
  <2> QED  BY <1>1, <2>3
<1>3. End(s) = i /\ WordsOf(s) = FlattenSeq(u)
  <2>1. End(s) = i
    <3> HIDE DEF s
    <3> QED  BY <1>1, <1>2 DEF End
  <2> QED  BY <2>1 DEF WordsOf
<1> HIDE DEF s
<1>4. \A j \in 1..i : InQuotes(s, j) <=> InQuotes(t, j)
  <2> TAKE j \in 1..i
  <2>1. \A k \in 1..(j - 1) : s[k] = t[k]
    BY <1>1, <1>2
  <2>2. {k \in 1..(j - 1) : s[k] = "QUOTE"} = {k \in 1..(j - 1) : t[k] = "QUOTE"}
    BY <2>1
  <2> QED  BY <2>2 DEF InQuotes
<1>5. \A j \in 1..(i - 1) : EndsWord(s, j) <=> EndsWord(t, j)
  <2> TAKE j \in 1..(i - 1)
  <2>1. j # End(s) /\ j # End(t) /\ j \in 1..i
    BY <1>1, <1>3 DEF End
  <2> QED  BY <1>2, <1>4, <2>1 DEF EndsWord
<1>6. \A j \in 1..i : WordBefore(s, j) = WordBefore(t, j)
  <2> TAKE j \in 1..i
  <2>1. \A k \in 1..(j - 1) : s[k] = t[k] /\ (InWord(s, k, j) <=> InWord(t, k, j))
    <3> TAKE k \in 1..(j - 1)
    <3>1. k \in 1..(i - 1) /\ \A l \in k..(j - 1) : l \in 1..(i - 1)
      BY <1>1
    <3>2. s[k] = t[k] /\ \A l \in k..(j - 1) : EndsWord(s, l) <=> EndsWord(t, l)
      BY <1>2, <1>5, <3>1
    <3> QED  BY <3>2 DEF InWord
  <2>2. [k \in 1..(j - 1) |-> IF InWord(s, k, j) THEN <<s[k]>> ELSE <<>>]
        = [k \in 1..(j - 1) |-> IF InWord(t, k, j) THEN <<t[k]>> ELSE <<>>]
    BY <2>1
  <2> QED  BY <2>2 DEF WordBefore
<1> DEFINE w == WordBefore(t, i)
           list == WordsBefore(t, i)
           last == IF w = <<>> THEN <<>> ELSE <<w>>
           before == EndedWords(t, i)
<1>7. list \in Seq(Seq(S)) /\ w \in Seq(S)
  BY WordsGrow
<1>8. before \in Seq(Seq(Seq(S))) /\ Len(before) = i - 1 /\ list = FlattenSeq(before)
  <2>1. i \in 1..(End(t) + 1)
    BY <1>1 DEF End
  <2> QED  BY <2>1, EndedTyped DEF WordsBefore
<1>9. /\ \A j \in 1..(i - 1) : u[j] = before[j]
      /\ u[i] = last
  <2>1. \A j \in 1..(i - 1) : u[j] = before[j]
    <3> TAKE j \in 1..(i - 1)
    <3>1. j \in 1..i
      BY <1>1
    <3>2. u[j] = SpaceWord(t, j)
      BY <1>5, <1>6, <3>1 DEF SpaceWord
    <3>3. before[j] = SpaceWord(t, j)
      BY DEF EndedWords
    <3> QED  BY <3>2, <3>3
  <2>2. EndsWord(s, i) /\ i \in 1..i /\ WordBefore(s, i) = w
    BY <1>1, <1>3, <1>6 DEF EndsWord
  <2> QED  BY <2>1, <2>2
<1>10. u = [j \in 1..i |-> u[j]]
  OBVIOUS
<1> HIDE DEF u, w, list, before
<1>11. last \in Seq(Seq(S))
  BY <1>7, EmptySeq
<1> HIDE DEF last
<1>12. u \in Seq(Seq(Seq(S))) /\ Len(u) = i
  <2>1. \A j \in 1..i : u[j] \in Seq(Seq(S))
    <3> TAKE j \in 1..i
    <3>1. j \in 1..(i - 1) \/ j = i
      BY <1>1
    <3>2. CASE j = i
      BY <1>9, <1>11, <3>2
    <3>3. CASE j \in 1..(i - 1)
      <4>1. before[j] \in Seq(Seq(S))
        BY <1>8, <3>3, ElementOfSeq
      <4> QED  BY <1>9, <3>3, <4>1
    <3> QED  BY <3>1, <3>2, <3>3
  <2>2. u \in [1..i -> Seq(Seq(S))]
    BY <1>10, <2>1
  <2> QED  BY <1>1, <2>2, ListIs
<1>13. FlattenSeq(u) = Joined(list, last)
  <2> DEFINE n == i - 1
  <2>1. i = n + 1 /\ n \in Nat /\ Len(before) = n /\ \A j \in 1..n : u[j] = before[j]
    BY <1>1, <1>8, <1>9
  <2> HIDE DEF n
  <2>2. Len(u) = Len(before) + 1 /\ u[Len(before) + 1] = last
    BY <1>9, <1>12, <2>1
  <2>3. \A j \in 1..Len(before) : u[j] = before[j]
    BY <2>1
  <2>4. FlattenSeq(u) = Joined(FlattenSeq(before), u[Len(before) + 1])
    BY <1>8, <1>12, <2>2, <2>3, FlatNext
  <2> QED  BY <1>8, <2>2, <2>4
<1>14. CASE w = <<>>
  <2>1. WordsOf(s) = list
    BY <1>3, <1>7, <1>13, <1>14, ConcatEmptySeq DEF Joined, last
  <2> QED  BY <1>14, <2>1 DEF w, list, s
<1>15. CASE w # <<>>
  <2>1. FlattenSeq(u) = Joined(list, <<w>>)
    BY <1>13, <1>15 DEF last
  <2>2. Append(list, w) = Joined(list, <<w>>)
    BY <1>7, AppendIsConcat DEF Joined
  <2>3. WordsOf(s) = Append(list, w)
    BY <1>3, <2>1, <2>2
  <2> QED  BY <1>15, <2>3 DEF w, list, s
<1> QED  BY <1>14, <1>15

-----------------------------------------------------------------------------
(* Turn by turn.                                                           *)

\* What has been read: the words that have ended, and the one that has not
ReadWell(S) ==
    /\ text \in Seq(S) /\ it \in 1..End(text)
    /\ words = WordsBefore(text, it) /\ member = WordBefore(text, it)
    /\ it = End(text) \/ ~ InQuotes(text, it)

LEMMA ReadWellTyped ==
    ASSUME NEW S, ReadWell(S)
    PROVE  /\ Len(text) \in Nat /\ it \in Nat /\ End(text) = Len(text) + 1
           /\ (it # End(text) => it \in 1..Len(text) /\ it + 1 \in 1..End(text))
           /\ words \in Seq(Seq(S)) /\ member \in Seq(S)
           /\ WithMember = Joined(words, IF member = <<>> THEN <<>> ELSE <<member>>)
<1>1. Len(text) \in Nat /\ it \in 1..End(text) /\ End(text) = Len(text) + 1
  BY LenProperties DEF ReadWell, End
<1>2. words \in Seq(Seq(S)) /\ member \in Seq(S)
  BY WordsGrow DEF ReadWell
<1>3. WithMember = Joined(words, IF member = <<>> THEN <<>> ELSE <<member>>)
  <2>1. CASE member = <<>>
    BY <1>2, <2>1, ConcatEmptySeq DEF WithMember, Joined
  <2>2. CASE member # <<>>
    <3>1. Append(words, member) = words \o <<member>>
      BY <1>2, AppendIsConcat
    <3> QED  BY <2>2, <3>1 DEF WithMember, Joined
  <2> QED  BY <2>1, <2>2
<1> QED  BY <1>1, <1>2, <1>3

\* The words and the member are those of the text so far
LEMMA ReadIs ==
    ASSUME NEW S, ReadWell(S)
    PROVE  WithMember = WordsOf(SubSeq(text, 1, it - 1))
BY WordsOfFirst DEF ReadWell, WithMember

LEMMA DelimiterReadsWell ==
    ASSUME NEW S, ReadWell(S), Delimiter
    PROVE  ReadWell(S)'
<1>1. /\ it \in Nat /\ it \in 1..Len(text) /\ it + 1 \in 1..End(text) /\ it \in 1..End(text)
      /\ text \in Seq(S) /\ text[it] = "SP" /\ ~ InQuotes(text, it) /\ it \in Nat \ {0}
  BY ReadWellTyped DEF ReadWell, Delimiter, AtByte
<1>2. /\ text' = text /\ it' = it + 1 /\ member' = <<>>
      /\ words' = Joined(words, IF member = <<>> THEN <<>> ELSE <<member>>)
  BY ReadWellTyped DEF Delimiter
<1>3. EndsWord(text, it)
  BY <1>1 DEF EndsWord
<1>4. words = WordsBefore(text, it) /\ member = WordBefore(text, it)
  BY DEF ReadWell
<1>5. WordBefore(text, it + 1) = <<>>
  BY <1>1, <1>3, WordGrows
<1>6. WordsBefore(text, it + 1) = Joined(WordsBefore(text, it), SpaceWord(text, it))
  BY <1>1, WordsGrow
<1>7. SpaceWord(text, it) = IF member = <<>> THEN <<>> ELSE <<member>>
  BY <1>3, <1>4 DEF SpaceWord
<1>8. ~ InQuotes(text, it + 1)
  BY <1>1, QuotesChange
<1> QED  BY <1>1, <1>2, <1>4, <1>5, <1>6, <1>7, <1>8 DEF ReadWell

\* A byte that ends no word
LEMMA InTheWord ==
    ASSUME NEW S, NEW t \in Seq(S), NEW i \in 1..Len(t), ~ EndsWord(t, i)
    PROVE  /\ WordsBefore(t, i + 1) = WordsBefore(t, i)
           /\ WordBefore(t, i + 1) = IF t[i] = "QUOTE" THEN WordBefore(t, i)
                                     ELSE Append(WordBefore(t, i), t[i])
<1>1. i \in 1..End(t)
  BY LenProperties DEF End
<1>2. /\ WordsBefore(t, i + 1) = Joined(WordsBefore(t, i), SpaceWord(t, i))
      /\ WordsBefore(t, i) \in Seq(Seq(S))
  BY <1>1, WordsGrow
<1>3. SpaceWord(t, i) = <<>>
  BY DEF SpaceWord
<1>4. WordsBefore(t, i + 1) = WordsBefore(t, i)
  BY <1>2, <1>3, ConcatEmptySeq DEF Joined
<1> QED  BY <1>4, WordGrows

LEMMA OtherReadsWell ==
    ASSUME NEW S, ReadWell(S), Other
    PROVE  ReadWell(S)'
<1>1. /\ it \in Nat /\ it \in 1..Len(text) /\ it + 1 \in 1..End(text) /\ it # End(text)
      /\ text \in Seq(S) /\ text[it] # "SP" /\ text[it] # "QUOTE" /\ ~ InQuotes(text, it)
      /\ it \in Nat \ {0}
  BY ReadWellTyped DEF ReadWell, Other
<1>2. text' = text /\ it' = it + 1 /\ words' = words /\ member' = Append(member, text[it])
  BY DEF Other
<1>3. ~ EndsWord(text, it)
  BY <1>1 DEF EndsWord
<1>4. words = WordsBefore(text, it) /\ member = WordBefore(text, it)
  BY DEF ReadWell
<1>5. /\ WordsBefore(text, it + 1) = WordsBefore(text, it)
      /\ WordBefore(text, it + 1) = Append(WordBefore(text, it), text[it])
  BY <1>1, <1>3, InTheWord
<1>6. ~ InQuotes(text, it + 1)
  BY <1>1, QuotesChange
<1> QED  BY <1>1, <1>2, <1>4, <1>5, <1>6 DEF ReadWell

\* From an opening quote on, bytes that are no quotes belong to the word
QuotedUpTo(t, i, m) ==
    /\ InQuotes(t, m)
    /\ WordsBefore(t, m) = WordsBefore(t, i)
    /\ WordBefore(t, m) = Joined(WordBefore(t, i), SubSeq(t, i + 1, m - 1))
LEMMA InTheQuotes ==
    ASSUME NEW S, NEW t \in Seq(S), NEW i \in 1..Len(t), t[i] = "QUOTE", ~ InQuotes(t, i),
           NEW close \in (i + 1)..End(t), \A j \in (i + 1)..(close - 1) : t[j] # "QUOTE"
    PROVE  QuotedUpTo(t, i, close)
<1>1. Len(t) \in Nat /\ i \in Nat \ {0} /\ close \in Nat /\ End(t) = Len(t) + 1
      /\ i <= Len(t) /\ close <= Len(t) + 1 /\ i + 1 <= close
  BY LenProperties DEF End
<1> DEFINE T == {d \in Nat : i + 1 + d <= close => QuotedUpTo(t, i, i + 1 + d)}
<1>2. 0 \in T
  <2>1. InQuotes(t, i + 1)
    BY <1>1, QuotesChange
  <2>2. ~ EndsWord(t, i)
    BY <1>1 DEF EndsWord
  <2>3. /\ WordsBefore(t, i + 1) = WordsBefore(t, i)
        /\ WordBefore(t, i + 1) = WordBefore(t, i)
    BY <2>2, InTheWord
  <2>4. SubSeq(t, i + 1, i) = <<>>
    BY <1>1, SubSeqEmpty
  <2>5. WordBefore(t, i) \in Seq(S)
    BY WordGrows
  <2>6. WordBefore(t, i) = Joined(WordBefore(t, i), SubSeq(t, i + 1, i))
    BY <2>4, <2>5, ConcatEmptySeq DEF Joined
  <2>7. i + 1 + 0 = i + 1 /\ (i + 1) - 1 = i
    BY <1>1
  <2> QED  BY <2>1, <2>3, <2>6, <2>7 DEF QuotedUpTo
<1>3. ASSUME NEW d \in Nat, d \in T
      PROVE  d + 1 \in T
  <2> SUFFICES ASSUME i + 1 + (d + 1) <= close
               PROVE  QuotedUpTo(t, i, i + 1 + (d + 1))
    OBVIOUS
  <2> DEFINE m == i + 1 + d
  <2>1. /\ m \in Nat \ {0} /\ m + 1 = i + 1 + (d + 1) /\ m <= close /\ m \in 1..Len(t)
        /\ m \in (i + 1)..(close - 1) /\ m # End(t) /\ i + 1 <= m
    BY <1>1
  <2>2. QuotedUpTo(t, i, m)
    BY <1>3, <2>1
  <2> HIDE DEF m
  <2>3. t[m] # "QUOTE" /\ t[m] \in S
    BY <2>1, ElementOfSeq
  <2>4. ~ EndsWord(t, m)
    BY <2>1, <2>2 DEF EndsWord, QuotedUpTo
  <2>5. /\ WordsBefore(t, m + 1) = WordsBefore(t, m)
        /\ WordBefore(t, m + 1) = Append(WordBefore(t, m), t[m])
    BY <2>1, <2>3, <2>4, InTheWord
  <2>6. InQuotes(t, m + 1)
    BY <2>1, <2>2, <2>3, QuotesChange DEF QuotedUpTo
  <2> DEFINE w == WordBefore(t, i)
             part == SubSeq(t, i + 1, m - 1)
             more == SubSeq(t, i + 1, m)
  <2>7. w \in Seq(S)
    BY WordGrows
  <2>15. SubSeq(t, i + 1, (m + 1) - 1) = more
    <3>1. (m + 1) - 1 = m
      BY <2>1
    <3> QED  BY <3>1
  <2>8. part \in Seq(S) /\ more = Append(part, t[m])
    <3>1. \A k \in (i + 1)..(m - 1) : t[k] \in S
      <4> TAKE k \in (i + 1)..(m - 1)
      <4>1. k \in 1..Len(t)
        BY <1>1, <2>1
      <4> QED  BY <4>1, ElementOfSeq
    <3>2. i + 1 \in Int /\ m - 1 \in Int /\ m \in Int
      BY <1>1, <2>1
    <3>3. \A k \in (i + 1)..m : t[k] \in S
      <4> TAKE k \in (i + 1)..m
      <4>1. k \in 1..Len(t)
        BY <1>1, <2>1
      <4> QED  BY <4>1, ElementOfSeq
    <3>4. /\ part \in Seq(S)
          /\ Len(part) = IF i + 1 <= m - 1 THEN (m - 1) - (i + 1) + 1 ELSE 0
          /\ \A k \in 1..((m - 1) - (i + 1) + 1) : part[k] = t[(i + 1) + k - 1]
      BY <3>1, <3>2, SubSeqProperties
    <3>5. /\ more \in Seq(S)
          /\ Len(more) = IF i + 1 <= m THEN m - (i + 1) + 1 ELSE 0
          /\ \A k \in 1..(m - (i + 1) + 1) : more[k] = t[(i + 1) + k - 1]
      BY <3>2, <3>3, SubSeqProperties
    <3> DEFINE longer == Append(part, t[m])
    <3>6. /\ longer \in Seq(S) /\ Len(longer) = Len(part) + 1
          /\ \A k \in 1..Len(part) : longer[k] = part[k]
          /\ longer[Len(part) + 1] = t[m]
      BY <2>3, <3>4, AppendProperties
    <3> HIDE DEF part, more, longer
    <3>7. Len(part) = m - (i + 1) /\ Len(more) = m - i /\ Len(longer) = m - i
      BY <1>1, <2>1, <3>4, <3>5, <3>6
    <3>8. \A k \in 1..Len(longer) : longer[k] = more[k]
      <4> TAKE k \in 1..Len(longer)
      <4>1. CASE k = m - i
        <5>1. longer[k] = t[m] /\ more[k] = t[(i + 1) + k - 1]
          BY <1>1, <2>1, <3>5, <3>6, <3>7, <4>1
        <5>2. (i + 1) + k - 1 = m
          BY <1>1, <2>1, <4>1
        <5> QED  BY <5>1, <5>2
      <4>2. CASE k # m - i
        <5>1. k \in 1..Len(part) /\ k \in 1..((m - 1) - (i + 1) + 1)
              /\ k \in 1..(m - (i + 1) + 1)
          BY <1>1, <2>1, <3>7, <4>2
        <5> QED  BY <3>4, <3>5, <3>6, <5>1
      <4> QED  BY <4>1, <4>2
    <3>9. longer = more
      BY <3>5, <3>6, <3>7, <3>8, SeqEqual
    <3> QED  BY <3>4, <3>9 DEF longer
  <2> HIDE DEF w, part, more
  <2>9. Append(Joined(w, part), t[m]) = Joined(w, Append(part, t[m]))
    <3>1. /\ Append(Joined(w, part), t[m]) = Joined(Joined(w, part), <<t[m]>>)
          /\ Append(part, t[m]) = Joined(part, <<t[m]>>)
      <4>1. Joined(w, part) \in Seq(S)
        BY <2>7, <2>8, ConcatProperties DEF Joined
      <4>2. Append(Joined(w, part), t[m]) = Joined(w, part) \o <<t[m]>>
        BY <2>3, <4>1, AppendIsConcat
      <4>3. Append(part, t[m]) = part \o <<t[m]>>
        BY <2>3, <2>8, AppendIsConcat
      <4> QED  BY <4>2, <4>3 DEF Joined
    <3> DEFINE one == <<t[m]>>
    <3>2. one \in Seq(S) /\ part \in Seq(S) /\ w \in Seq(S)
      BY <2>3, <2>7, <2>8
    <3>3. /\ Append(Joined(w, part), t[m]) = Joined(Joined(w, part), one)
          /\ Append(part, t[m]) = Joined(part, one)
      BY <3>1
    <3> HIDE DEF one
    <3>4. Joined(Joined(w, part), one) = Joined(w, Joined(part, one))
      BY <3>2, JoinedAssociative
    <3> QED  BY <3>3, <3>4
  <2>10. WordBefore(t, m) = Joined(w, part) /\ WordsBefore(t, m) = WordsBefore(t, i)
    BY <2>2 DEF QuotedUpTo, w, part
  <2>11. WordBefore(t, m + 1) = Joined(w, more)
    BY <2>5, <2>8, <2>9, <2>10
  <2>12. WordBefore(t, m + 1) = Joined(w, SubSeq(t, i + 1, (m + 1) - 1))
    BY <2>11, <2>15
  <2>13. QuotedUpTo(t, i, m + 1)
    BY <2>5, <2>6, <2>10, <2>12 DEF QuotedUpTo, w
  <2> QED  BY <2>1, <2>13
<1> HIDE DEF T
<1>4. close - (i + 1) \in T /\ i + 1 + (close - (i + 1)) = close
  <2>1. Nat \subseteq T
    BY <1>2, <1>3, AllNumbers
  <2> QED  BY <1>1, <2>1
<1>5. close <= close
  BY <1>1
<1> QED  BY <1>4, <1>5 DEF T

LEMMA QuotedReadsWell ==
    ASSUME NEW S, ReadWell(S), Quoted
    PROVE  ReadWell(S)'
<1> DEFINE closing == {i \in (it + 1)..Len(text) : text[i] = "QUOTE"}
           close   == IF closing = {} THEN End(text) ELSE Min(closing)
           part    == SubSeq(text, it + 1, close - 1)
           i       == Min({close + 1, End(text)})
<1>1. /\ Len(text) \in Nat /\ it \in Nat /\ it \in 1..Len(text) /\ End(text) = Len(text) + 1
      /\ text \in Seq(S) /\ text[it] = "QUOTE" /\ ~ InQuotes(text, it) /\ it # End(text)
  BY ReadWellTyped DEF ReadWell, Quoted, AtByte
<1>2. text' = text /\ it' = i /\ member' = Joined(member, part) /\ words' = words
  BY DEF Quoted, Joined
<1>3. words = WordsBefore(text, it) /\ member = WordBefore(text, it)
  BY DEF ReadWell
<1>4. /\ close \in (it + 1)..(Len(text) + 1)
      /\ \A j \in (it + 1)..(close - 1) : text[j] # "QUOTE"
      /\ close # End(text) => close \in 1..Len(text) /\ text[close] = "QUOTE"
  <2>1. CASE closing = {}
    <3>1. close = Len(text) + 1
      BY <1>1, <2>1
    <3>2. \A j \in (it + 1)..Len(text) : text[j] # "QUOTE"
      BY <2>1
    <3> HIDE DEF close, closing
    <3>3. (it + 1)..(close - 1) = (it + 1)..Len(text)
      BY <1>1, <3>1
    <3> QED  BY <1>1, <3>1, <3>2, <3>3
  <2>2. CASE closing # {}
    <3>1. closing \in SUBSET Nat
      BY <1>1
    <3>2. Min(closing) \in closing /\ \A j \in closing : Min(closing) <= j
      BY <2>2, <3>1, MinIs
    <3>3. /\ close \in closing /\ \A j \in closing : close <= j
      BY <2>2, <3>2
    <3>4. \A j : j \in closing <=> j \in (it + 1)..Len(text) /\ text[j] = "QUOTE"
      OBVIOUS
    <3> HIDE DEF close, closing
    <3>5. close \in (it + 1)..Len(text) /\ text[close] = "QUOTE"
      BY <3>3, <3>4
    <3>6. \A j \in (it + 1)..(close - 1) : text[j] # "QUOTE"
      <4> TAKE j \in (it + 1)..(close - 1)
      <4>1. j \in (it + 1)..Len(text) /\ ~ (close <= j)
        BY <1>1, <3>5
      <4> QED  BY <3>3, <3>4, <4>1
    <3> QED  BY <1>1, <3>5, <3>6
  <2> QED  BY <2>1, <2>2
<1> HIDE DEF close
<1>5. QuotedUpTo(text, it, close)
  BY <1>1, <1>4, InTheQuotes
<1>6. close \in Nat /\ i = IF close = End(text) THEN close ELSE close + 1
  <2>1. close \in Nat /\ close <= End(text)
    BY <1>1, <1>4
  <2>2. {close + 1, End(text)} \in SUBSET Nat /\ {close + 1, End(text)} # {}
    BY <1>1, <2>1
  <2>3. i \in {close + 1, End(text)} /\ \A k \in {close + 1, End(text)} : i <= k
    BY <2>2, MinIs
  <2> HIDE DEF i
  <2> QED  BY <1>1, <2>1, <2>3
<1> HIDE DEF i
<1>7. WordsBefore(text, close) = words /\ WordBefore(text, close) = Joined(member, part)
  BY <1>3, <1>5 DEF QuotedUpTo
<1> HIDE DEF part
<1>8. CASE close = End(text)
  <2>1. i = close /\ close \in 1..End(text)
    BY <1>1, <1>4, <1>6, <1>8
  <2> QED  BY <1>1, <1>2, <1>7, <1>8, <2>1 DEF ReadWell
<1>9. CASE close # End(text)
  <2>1. /\ i = close + 1 /\ close \in 1..Len(text) /\ text[close] = "QUOTE"
        /\ close \in Nat \ {0} /\ i \in 1..End(text)
    BY <1>1, <1>4, <1>6, <1>9
  <2>2. InQuotes(text, close)
    BY <1>5 DEF QuotedUpTo
  <2>3. ~ EndsWord(text, close)
    BY <1>9, <2>2 DEF EndsWord
  <2>4. /\ WordsBefore(text, i) = WordsBefore(text, close)
        /\ WordBefore(text, i) = WordBefore(text, close)
    BY <1>1, <2>1, <2>3, InTheWord
  <2>5. ~ InQuotes(text, i)
    BY <2>1, <2>2, QuotesChange
  <2> QED  BY <1>1, <1>2, <1>7, <2>1, <2>4, <2>5 DEF ReadWell
<1> QED  BY <1>8, <1>9

\* Once a command is built, its words are those of the text
Reading ==
    /\ stage = "reading" => ReadWell(STRING)
    /\ stage = "built" =>
          member = <<>> /\ (text # <<>> => words = WordsOf(SubSeq(text, 1, it - 1)))

LEMMA TurnReadsWell ==
    ASSUME Reading, Turn
    PROVE  Reading'
<1>1. stage = "reading"
  BY DEF Turn, Delimiter, Quoted, LastQuote, Other, LastMember, AtByte
<1>2. ReadWell(STRING)
  BY <1>1 DEF Reading
<1>3. ASSUME stage' = "reading", ReadWell(STRING)'
      PROVE  Reading'
  BY <1>3 DEF Reading
<1>4. CASE Delimiter
  BY <1>1, <1>2, <1>3, <1>4, DelimiterReadsWell DEF Delimiter
<1>5. CASE Quoted
  BY <1>1, <1>2, <1>3, <1>5, QuotedReadsWell DEF Quoted
<1>6. CASE LastQuote
  BY <1>6 DEF LastQuote, Reading
<1>7. CASE Other
  BY <1>1, <1>2, <1>3, <1>7, OtherReadsWell DEF Other
<1>8. CASE LastMember
  <2>1. words' = WithMember /\ member' = <<>> /\ stage' = "built" /\ UNCHANGED <<text, it>>
    BY <1>8 DEF LastMember
  <2>2. WithMember = WordsOf(SubSeq(text, 1, it - 1))
    BY <1>2, ReadIs
  <2> QED  BY <2>1, <2>2 DEF Reading
<1> QED  BY <1>4, <1>5, <1>6, <1>7, <1>8 DEF Turn

LEMMA ConstructReadsWell ==
    ASSUME Constructing, Construct
    PROVE  Reading'
<1>1. CASE stage' = "reading"
  <2>1. ReadingIn(STRING)'
    BY <1>1, ConstructConstructs
  <2>2. PICK t : text' = t /\ it' = 1 /\ member' = <<>> /\ words' = <<>>
    BY <1>1 DEF Construct, FromText, FromWords
  <2>3. t \in Seq(STRING) /\ 1 \in 1..End(t)
    BY <2>1, <2>2 DEF ReadingIn, End
  <2>4. WordBefore(t, 1) = <<>>
    <3>1. LettersOf(t, 1) \in Seq(Seq(STRING)) /\ Len(LettersOf(t, 1)) = 0
      BY <2>3, LettersTyped
    <3>2. FlattenSeq(LettersOf(t, 1)) = <<>>
      BY <3>1, FlatNothing
    <3>3. \A k : WordBefore(t, k) = FlattenSeq(LettersOf(t, k))
      BY DEF LettersOf, WordBefore
    <3> QED  BY <3>2, <3>3
  <2>5. WordsBefore(t, 1) = <<>>
    <3>1. 1 \in 1..(End(t) + 1)
      <4>1. Len(t) \in Nat
        BY <2>3, LenProperties
      <4> QED  BY <4>1 DEF End
    <3>2. EndedWords(t, 1) \in Seq(Seq(Seq(STRING))) /\ Len(EndedWords(t, 1)) = 0
      BY <2>3, <3>1, EndedTyped
    <3>3. FlattenSeq(EndedWords(t, 1)) = <<>>
      <4>1. \A j \in 1..Len(EndedWords(t, 1)) : EndedWords(t, 1)[j] = <<>>
        BY <3>2
      <4> QED  BY <3>2, <4>1, FlatNothing
    <3> QED  BY <3>3 DEF WordsBefore
  <2>6. ~ InQuotes(t, 1)
    <3>1. {j \in 1..(1 - 1) : t[j] = "QUOTE"} = {}
      OBVIOUS
    <3> QED  BY <3>1, FS_EmptySet DEF InQuotes
  <2> QED  BY <1>1, <2>2, <2>3, <2>4, <2>5, <2>6 DEF Reading, ReadWell
<1>2. CASE stage' # "reading"
  <2>1. text' = <<>> /\ member' = <<>>
    BY <1>2 DEF Construct, FromText, FromWords
  <2> QED  BY <1>2, <2>1 DEF Reading
<1> QED  BY <1>1, <1>2

\* After every turn of the loop over a text, whatever the text, the words and
\* the member are those of the bytes read so far, quotes in the middle of a
\* word and unclosed ones included (command.cpp:13-41).
THEOREM TextIsRead == Spec => []ReadSoFar
<1>1. Init => Reading
  BY DEF Init, NoCommand, Reading
<1>2. Reading /\ Constructing /\ [Next]_vars => Reading'
  <2> SUFFICES ASSUME Reading, Constructing, [Next]_vars
               PROVE  Reading'
    OBVIOUS
  <2>1. ASSUME UNCHANGED <<text, it, member, words, stage>>
        PROVE  Reading'
    <3>1. ReadWell(STRING)' <=> ReadWell(STRING)
      BY <2>1 DEF ReadWell
    <3> QED  BY <2>1, <3>1 DEF Reading
  <2>2. ASSUME stage' \notin {"reading", "built"}
        PROVE  Reading'
    BY <2>2 DEF Reading
  <2>3. CASE Construct
    BY <2>3, ConstructReadsWell
  <2>4. CASE Throw
    BY <2>2, <2>4 DEF Throw
  <2>5. CASE ReadText
    BY <2>5, TurnReadsWell DEF ReadText
  <2>6. CASE Collect
    BY <2>2, <2>6 DEF Collect
  <2>7. CASE SendAll
    BY <2>2, <2>7 DEF SendAll
  <2>8. CASE Serve
    BY <2>1, <2>8 DEF Serve, commandVars
  <2>9. CASE Answer
    BY <2>2, <2>9 DEF Answer
  <2>10. CASE UNCHANGED vars
    BY <2>1, <2>10 DEF vars, commandVars
  <2> QED  BY <2>3, <2>4, <2>5, <2>6, <2>7, <2>8, <2>9, <2>10 DEF Next
<1>3. Reading => ReadSoFar
  <2> SUFFICES ASSUME Reading, stage \in {"reading", "built"}, text # <<>>
               PROVE  WithMember = WordsOf(SubSeq(text, 1, it - 1))
    BY DEF ReadSoFar
  <2>1. CASE stage = "reading"
    BY <2>1, ReadIs DEF Reading
  <2>2. CASE stage = "built"
    BY <2>2 DEF Reading, WithMember
  <2> QED  BY <2>1, <2>2
<1> QED  BY <1>1, <1>2, <1>3, Constructed, PTL DEF Spec

-----------------------------------------------------------------------------
(* What the server answers and keeps.                                      *)

LEMMA MaxIs ==
    ASSUME NEW n \in Nat, NEW T \in SUBSET (0..n), T # {}
    PROVE  Max(T) \in T
<1> DEFINE U == {n - x : x \in T}
<1>1. U \in SUBSET Nat /\ U # {}
  <2>1. \A x \in T : n - x \in Nat
    <3> TAKE x \in T
    <3>1. x \in 0..n
      OBVIOUS
    <3> QED  BY <3>1
  <2> QED  BY <2>1
<1>2. PICK u \in U : \A v \in U : u <= v
  BY <1>1, LeastNumber
<1>3. PICK x \in T : u = n - x
  BY <1>2
<1>4. \A y \in T : x >= y
  <2> TAKE y \in T
  <2>1. n - x <= n - y /\ x \in 0..n /\ y \in 0..n
    BY <1>2, <1>3
  <2> QED  BY <2>1
<1> QED  BY <1>3, <1>4 DEF Max

\* What may be given as an answer
IsReply(v) ==
    \/ v = NilValue
    \/ \E t \in {<<"OK">>, <<"x">>} : v = SimpleStringValue(t)
    \/ v = ErrorValue(<<"x">>)
    \/ \E n \in Int : v = IntegerValue(n)
    \/ \E t \in Seq(STRING) : v = BulkStringValue(t)
    \/ \E ts \in Seq(Seq(STRING)) : v = Bulk(ts)

\* and what is kept under a key
TextMap(hash) ==
    /\ IsFiniteSet(DOMAIN hash) /\ DOMAIN hash \subseteq Seq(STRING)
    /\ \A field \in DOMAIN hash : hash[field] \in Seq(STRING)
Holding(kind, content) ==
    /\ kind \in {"string", "hash", "list", "set"}
    /\ kind = "string" => content \in Seq(STRING)
    /\ kind = "hash" => TextMap(content)
    /\ kind = "list" => content \in Seq(Seq(STRING))
    /\ kind = "set" => IsFiniteSet(content) /\ content \subseteq Seq(STRING)
Stored(kept) == \A key \in DOMAIN kept : Holding(kept[key].kind, kept[key].content)

\* The store with something else under a key
With(kept, key, kind, content) ==
    [k \in DOMAIN kept \cup {key} |->
        IF k = key THEN [kind |-> kind, content |-> content] ELSE kept[k]]
LEMMA StoredMore ==
    ASSUME NEW kept, Stored(kept), NEW key, NEW kind, NEW content, Holding(kind, content)
    PROVE  Stored(With(kept, key, kind, content))
<1> DEFINE more == With(kept, key, kind, content)
<1>1. DOMAIN more = DOMAIN kept \cup {key}
  BY DEF With
<1>2. \A k \in DOMAIN more :
         more[k] = IF k = key THEN [kind |-> kind, content |-> content] ELSE kept[k]
  BY DEF With
<1> HIDE DEF more
<1>3. \A k \in DOMAIN more : Holding(more[k].kind, more[k].content)
  <2> TAKE k \in DOMAIN more
  <2>1. CASE k = key
    BY <1>2, <2>1
  <2>2. CASE k # key
    BY <1>1, <1>2, <2>2 DEF Stored
  <2> QED  BY <2>1, <2>2
<1> QED  BY <1>3 DEF Stored, more

\* The answers by the names of commands
Refused(list) ==
    \/ ~ Accepts(list)
    \/ /\ Named(list) \in DOMAIN Kind /\ list[2] \in DOMAIN store
       /\ store[list[2]].kind # Kind[Named(list)]
Kept(list) ==
    IF list[2] \in DOMAIN store THEN store[list[2]].content ELSE Empty[Kind[Named(list)]]
Args(list) == SubSeq(list, 3, Len(list))
Answered(reply) == [reply |-> reply, store |-> store, pushed |-> <<>>]
Keeps(list, kind, content, reply) ==
    [reply |-> reply, pushed |-> <<>>,
     store |-> With(store, list[2], kind, content)]
Latest(args, field) ==
    Max({k \in 1..(Len(args) \div 2) : args[2 * k - 1] = field})
FieldsIn(args) == {args[2 * k - 1] : k \in 1..(Len(args) \div 2)}
SetFields(kept, args) ==
    [field \in DOMAIN kept \cup FieldsIn(args) |->
        IF field \in FieldsIn(args) THEN args[2 * Latest(args, field)] ELSE kept[field]]
PairsOf(kept, fields) ==
    FlattenSeq([i \in DOMAIN fields |-> <<fields[i], kept[fields[i]]>>])

LEMMA RunRefuses ==
    ASSUME NEW list, Refused(list)
    PROVE  Run(list) = {Answered(ErrorValue(<<"x">>))}
BY DEF Refused, Run, Answered

LEMMA RunAnswers ==
    ASSUME NEW list, ~ Refused(list)
    PROVE  LET name == Named(list)
               kept == Kept(list)
               args == Args(list)
           IN
           /\ name = "SET" => Run(list) =
                {Keeps(list, "string", args[1], SimpleStringValue(<<"OK">>))}
           /\ name = "GET" => Run(list) =
                {Answered(IF list[2] \in DOMAIN store THEN BulkStringValue(kept) ELSE NilValue)}
           /\ name = "HSET" => Run(list) =
                {Keeps(list, "hash", SetFields(kept, args),
                       IntegerValue(Cardinality(DOMAIN SetFields(kept, args))
                                        - Cardinality(DOMAIN kept)))}
           /\ name = "HGETALL" => Run(list) =
                {Answered(Bulk(PairsOf(kept, fields))) : fields \in SetToSeqs(DOMAIN kept)}
           /\ name = "RPUSH" => Run(list) =
                {Keeps(list, "list", Joined(kept, args), IntegerValue(Len(Joined(kept, args))))}
           /\ name = "LRANGE" =>
                \/ Run(list) = {Answered(Bulk(kept))}
                \/ Run(list) = {Answered(SimpleStringValue(<<"x">>))}
           /\ name = "SADD" => Run(list) =
                {Keeps(list, "set", kept \cup Range(args),
                       IntegerValue(Cardinality(kept \cup Range(args)) - Cardinality(kept)))}
           /\ name = "SMEMBERS" => Run(list) =
                {Answered(Bulk(members)) : members \in SetToSeqs(kept)}
           /\ name = "PUBLISH" => \A outcome \in Run(list) :
                outcome.reply = IntegerValue(2) /\ outcome.store = store
           /\ name \notin {"SET", "GET", "HSET", "HGETALL", "RPUSH", "LRANGE", "SADD",
                           "SMEMBERS", "PUBLISH"} => Run(list) =
                {Answered(SimpleStringValue(<<"x">>))}
<1> USE DEF Run, Kept, Args
<1>0. ~ (\/ ~ Accepts(list)
         \/ /\ Named(list) \in DOMAIN Kind /\ list[2] \in DOMAIN store
            /\ store[list[2]].kind # Kind[Named(list)])
  BY DEF Refused
<1>1. CASE Named(list) = "SET"
  BY <1>0, <1>1 DEF Keeps, With
<1>2. CASE Named(list) = "GET"
  BY <1>0, <1>2 DEF Answered
<1>3. CASE Named(list) = "HSET"
  BY <1>0, <1>3 DEF Keeps, With, SetFields, FieldsIn, Latest
<1>4. CASE Named(list) = "HGETALL"
  BY <1>0, <1>4 DEF Answered, PairsOf
<1>5. CASE Named(list) = "RPUSH"
  BY <1>0, <1>5 DEF Keeps, With, Joined
<1>6. CASE Named(list) = "LRANGE"
  BY <1>0, <1>6 DEF Answered
<1>7. CASE Named(list) = "SADD"
  BY <1>0, <1>7 DEF Keeps, With
<1>8. CASE Named(list) = "SMEMBERS"
  BY <1>0, <1>8 DEF Answered
<1>9. CASE Named(list) = "PUBLISH"
  BY <1>0, <1>9
<1>10. CASE Named(list) \notin {"SET", "GET", "HSET", "HGETALL", "RPUSH", "LRANGE", "SADD",
                           "SMEMBERS", "PUBLISH"}
  BY <1>0, <1>10 DEF Answered
<1> QED  BY <1>1, <1>2, <1>3, <1>4, <1>5, <1>6, <1>7, <1>8, <1>9, <1>10

LEMMA SetArguments == Arguments("SET") = Nat \ {0, 1}
BY DEF Arguments

\* The arguments of a command are texts
LEMMA ArgsTyped ==
    ASSUME NEW list, Fits(list)
    PROVE  /\ Args(list) \in Seq(Seq(STRING)) /\ Len(Args(list)) \in Nat
           /\ Len(list) > 2 => Args(list)[1] \in Seq(STRING)
           /\ \A k \in 1..(Len(Args(list)) \div 2) :
                 Args(list)[2 * k - 1] \in Seq(STRING) /\ Args(list)[2 * k] \in Seq(STRING)
<1> DEFINE args == Args(list)
<1>1. list \in Seq(Seq(STRING)) /\ Len(list) \in Nat
  BY LenProperties DEF Fits
<1>2. \A i \in 3..Len(list) : list[i] \in Seq(STRING)
  <2> TAKE i \in 3..Len(list)
  <2>1. i \in 1..Len(list)
    BY <1>1
  <2> QED  BY <1>1, <2>1, ElementOfSeq
<1>3. args \in Seq(Seq(STRING)) /\ Len(args) = IF 3 <= Len(list) THEN Len(list) - 3 + 1 ELSE 0
  BY <1>1, <1>2, SubSeqProperties DEF Args
<1> HIDE DEF args
<1>4. Len(args) \in Nat
  BY <1>3, LenProperties
<1>5. Len(list) > 2 => 1 \in 1..Len(args)
  BY <1>1, <1>3
<1>6. \A k \in 1..(Len(args) \div 2) : 2 * k - 1 \in 1..Len(args) /\ 2 * k \in 1..Len(args)
  <2> DEFINE n == Len(args)
  <2>1. n \in Nat
    BY <1>4
  <2> HIDE DEF n
  <2>2. \A k \in 1..(n \div 2) : 2 * k - 1 \in 1..n /\ 2 * k \in 1..n
    BY <2>1
  <2> QED  BY <2>2 DEF n
<1>7. \A i \in 1..Len(args) : args[i] \in Seq(STRING)
  BY <1>3, ElementOfSeq
<1> QED  BY <1>3, <1>4, <1>5, <1>6, <1>7 DEF args

\* What a command finds under its key is of its kind
LEMMA KeptTyped ==
    ASSUME NEW list, Stored(store), ~ Refused(list), Named(list) \in DOMAIN Kind
    PROVE  Holding(Kind[Named(list)], Kept(list))
<1> DEFINE kind == Kind[Named(list)]
<1>1. kind = "string" \/ kind = "hash" \/ kind = "list" \/ kind = "set"
  BY DEF Kind
<1>2. CASE list[2] \in DOMAIN store
  <2>1. store[list[2]].kind = kind
    BY <1>2 DEF Refused
  <2>2. Kept(list) = store[list[2]].content
    BY <1>2 DEF Kept
  <2> QED  BY <1>2, <2>1, <2>2 DEF Stored
<1>3. CASE list[2] \notin DOMAIN store
  <2>1. Kept(list) = Empty[kind]
    BY <1>3 DEF Kept
  <2> HIDE DEF kind
  <2>2. /\ Empty["string"] = <<>> /\ Empty["hash"] = << >> /\ Empty["list"] = <<>>
        /\ Empty["set"] = {}
    BY DEF Empty
  <2>3. <<>> \in Seq(STRING) /\ <<>> \in Seq(Seq(STRING)) /\ IsFiniteSet({})
    BY EmptySeq, FS_EmptySet
  <2>4. TextMap(<<>>)
    <3>1. DOMAIN <<>> = {}
      BY <2>3, LenProperties, EmptySeq
    <3> QED  BY <2>3, <3>1 DEF TextMap
  <2>5. Holding(kind, Empty[kind])
    <3>1. CASE kind = "string"
      BY <2>2, <2>3, <3>1 DEF Holding
    <3>2. CASE kind = "hash"
      BY <2>2, <2>4, <3>2 DEF Holding
    <3>3. CASE kind = "list"
      BY <2>2, <2>3, <3>3 DEF Holding
    <3>4. CASE kind = "set"
      BY <2>2, <2>3, <3>4 DEF Holding
    <3> QED  BY <1>1, <3>1, <3>2, <3>3, <3>4
  <2> QED  BY <2>1, <2>5 DEF kind
<1> QED  BY <1>2, <1>3

LEMMA RangeFinite ==
    ASSUME NEW f, f = [x \in DOMAIN f |-> f[x]], IsFiniteSet(DOMAIN f)
    PROVE  IsFiniteSet({f[x] : x \in DOMAIN f})
<1> DEFINE T == {f[x] : x \in DOMAIN f}
<1>1. f \in [DOMAIN f -> T]
  OBVIOUS
<1>2. f \in Surjection(DOMAIN f, T)
  BY <1>1 DEF Surjection
<1> HIDE DEF T
<1>3. IsFiniteSet(T)
  BY <1>2, FS_Surjection
<1> QED  BY <1>3 DEF T

LEMMA FieldsTyped ==
    ASSUME NEW kept, TextMap(kept), NEW args, Len(args) \in Nat,
           \A k \in 1..(Len(args) \div 2) :
              args[2 * k - 1] \in Seq(STRING) /\ args[2 * k] \in Seq(STRING)
    PROVE  TextMap(SetFields(kept, args))
<1> DEFINE n == Len(args) \div 2
           fields == FieldsIn(args)
           new == SetFields(kept, args)
<1>1. n \in Nat
  BY SMT
<1>2. IsFiniteSet(fields)
  <2> DEFINE f == [k \in 1..n |-> args[2 * k - 1]]
  <2>1. IsFiniteSet(1..n)
    BY <1>1, FS_Interval
  <2>2. fields = {f[k] : k \in 1..n} /\ DOMAIN f = 1..n /\ f = [k \in DOMAIN f |-> f[k]]
    BY DEF FieldsIn
  <2> HIDE DEF n, f, fields
  <2> QED  BY <2>1, <2>2, RangeFinite
<1>3. \A field \in fields : args[2 * Latest(args, field)] \in Seq(STRING)
  <2> TAKE field \in fields
  <2> DEFINE T == {k \in 1..n : args[2 * k - 1] = field}
  <2>0. PICK k \in 1..n : field = args[2 * k - 1]
    BY DEF FieldsIn
  <2>4. k \in T /\ 1..n \subseteq 0..n
    BY <1>1, <2>0
  <2>1. T \in SUBSET (0..n) /\ T # {}
    BY <2>4
  <2>2. Max(T) \in T
    BY <1>1, <2>1, MaxIs
  <2>3. Latest(args, field) = Max(T)
    BY DEF Latest
  <2> QED  BY <2>2, <2>3
<1>4. fields \subseteq Seq(STRING)
  BY DEF FieldsIn
<1>5. /\ DOMAIN new = DOMAIN kept \cup fields
      /\ \A field \in DOMAIN new :
            new[field] = IF field \in fields THEN args[2 * Latest(args, field)] ELSE kept[field]
  BY DEF SetFields
<1> HIDE DEF new, fields, n
<1>6. IsFiniteSet(DOMAIN new)
  BY <1>2, <1>5, FS_Union DEF TextMap
<1>7. \A field \in DOMAIN new : new[field] \in Seq(STRING)
  BY <1>3, <1>5 DEF TextMap
<1>8. DOMAIN new \subseteq Seq(STRING)
  BY <1>4, <1>5 DEF TextMap
<1> QED  BY <1>6, <1>7, <1>8 DEF TextMap, new

LEMMA OrderTyped ==
    ASSUME NEW S, NEW T, T \subseteq S, IsFiniteSet(T), NEW s \in SetToSeqs(T)
    PROVE  s \in Seq(S) /\ Len(s) \in Nat /\ DOMAIN s = 1..Len(s)
              /\ \A i \in 1..Len(s) : s[i] \in T
<1> DEFINE n == Cardinality(T)
<1>1. n \in Nat
  BY FS_CardinalityType
<1>2. s \in [1..n -> T]
  BY DEF SetToSeqs
<1> HIDE DEF n
<1>3. s \in [1..n -> S]
  BY <1>2
<1>4. s \in Seq(S) /\ Len(s) = n
  BY <1>1, <1>3, ListIs
<1> QED  BY <1>1, <1>2, <1>4

LEMMA PairsTyped ==
    ASSUME NEW kept, TextMap(kept), NEW fields \in SetToSeqs(DOMAIN kept)
    PROVE  PairsOf(kept, fields) \in Seq(Seq(STRING))
<1> DEFINE ss == [i \in DOMAIN fields |-> <<fields[i], kept[fields[i]]>>]
           X == Seq(STRING)
           n == Len(fields)
<1>1. /\ n \in Nat /\ DOMAIN fields = 1..n /\ \A i \in 1..n : fields[i] \in DOMAIN kept
  BY OrderTyped DEF TextMap
<1>2. \A i \in 1..n : ss[i] \in Seq(X)
  <2> TAKE i \in 1..n
  <2> DEFINE a == fields[i]
             b == kept[fields[i]]
  <2>1. a \in X /\ b \in X
    BY <1>1 DEF TextMap
  <2>2. ss[i] = <<a, b>>
    BY <1>1
  <2> HIDE DEF a, b, ss, X
  <2>3. <<a, b>> \in Seq(X)
    BY <2>1
  <2> QED  BY <2>2, <2>3
<1>3. ss \in [1..n -> Seq(X)]
  BY <1>1, <1>2
<1>4. FlattenSeq(ss) = PairsOf(kept, fields)
  BY DEF PairsOf
<1> HIDE DEF ss, X, n
<1>5. ss \in Seq(Seq(X)) /\ Len(ss) = n
  BY <1>1, <1>3, ListIs
<1>6. PICK f : Flat(ss, Len(ss), f)
  BY <1>1, <1>5, FlatExists
<1>7. FlattenSeq(ss) \in Seq(X)
  BY <1>5, <1>6, FlatLast
<1> QED  BY <1>4, <1>7 DEF X

\* What is answered and kept has its type
LEMMA RunTyped ==
    ASSUME NEW list, Fits(list), Stored(store), NEW outcome \in Run(list)
    PROVE  IsReply(outcome.reply) /\ Stored(outcome.store)
<1> DEFINE name == Named(list)
           kept == Kept(list)
           args == Args(list)
<1>1. ASSUME NEW reply, outcome = Answered(reply), IsReply(reply)
      PROVE  IsReply(outcome.reply) /\ Stored(outcome.store)
  BY <1>1 DEF Answered
<1>2. ASSUME NEW reply, NEW kind, NEW content, outcome = Keeps(list, kind, content, reply),
             IsReply(reply), Holding(kind, content)
      PROVE  IsReply(outcome.reply) /\ Stored(outcome.store)
  <2>1. outcome.reply = reply /\ outcome.store = With(store, list[2], kind, content)
    BY <1>2 DEF Keeps
  <2> QED  BY <1>2, <2>1, StoredMore
<1>3. \A n \in Int : IsReply(IntegerValue(n))
  BY DEF IsReply
<1>4. /\ IsReply(SimpleStringValue(<<"OK">>)) /\ IsReply(SimpleStringValue(<<"x">>))
      /\ IsReply(ErrorValue(<<"x">>)) /\ IsReply(NilValue)
      /\ \A t \in Seq(STRING) : IsReply(BulkStringValue(t))
      /\ \A ts \in Seq(Seq(STRING)) : IsReply(Bulk(ts))
  BY DEF IsReply
<1>5. CASE Refused(list)
  <2>1. outcome = Answered(ErrorValue(<<"x">>))
    BY <1>5, RunRefuses
  <2> QED  BY <1>1, <1>4, <2>1
<1>6. CASE ~ Refused(list)
  <2>0. /\ args \in Seq(Seq(STRING)) /\ Len(args) \in Nat
        /\ Len(list) > 2 => args[1] \in Seq(STRING)
        /\ \A k \in 1..(Len(args) \div 2) :
              args[2 * k - 1] \in Seq(STRING) /\ args[2 * k] \in Seq(STRING)
    BY ArgsTyped
  <2>1. ASSUME name \in DOMAIN Kind
        PROVE  Holding(Kind[name], kept)
    BY <1>6, <2>1, KeptTyped
  <2>2. DOMAIN Kind = {"GET", "HSET", "HGETALL", "RPUSH", "LRANGE", "SADD", "SMEMBERS"}
        /\ Kind["GET"] = "string" /\ Kind["HSET"] = "hash" /\ Kind["HGETALL"] = "hash"
        /\ Kind["RPUSH"] = "list" /\ Kind["LRANGE"] = "list"
        /\ Kind["SADD"] = "set" /\ Kind["SMEMBERS"] = "set"
    BY DEF Kind
  <2>3. CASE name = "SET"
    <3>1. outcome = Keeps(list, "string", args[1], SimpleStringValue(<<"OK">>))
      BY <1>6, <2>3, RunAnswers
    <3>2. Len(list) > 2
      <4>1. Len(list) - 1 \in Nat \ {0, 1}
        BY <1>6, <2>3, SetArguments DEF Refused, Accepts
      <4>2. Len(list) \in Nat
        BY LenProperties DEF Fits
      <4> QED  BY <4>1, <4>2
    <3> HIDE DEF args
    <3>3. Holding("string", args[1])
      BY <2>0, <3>2 DEF Holding
    <3> QED  BY <1>2, <1>4, <3>1, <3>3
  <2>4. CASE name = "GET"
    <3>1. outcome = Answered(IF list[2] \in DOMAIN store THEN BulkStringValue(kept) ELSE NilValue)
      BY <1>6, <2>4, RunAnswers
    <3>2. kept \in Seq(STRING)
      BY <2>1, <2>2, <2>4 DEF Holding
    <3> QED  BY <1>1, <1>4, <3>1, <3>2
  <2>5. CASE name = "HSET"
    <3> DEFINE new == SetFields(kept, args)
               count == Cardinality(DOMAIN new) - Cardinality(DOMAIN kept)
    <3>1. outcome = Keeps(list, "hash", new, IntegerValue(count))
      BY <1>6, <2>5, RunAnswers
    <3>2. TextMap(kept)
      BY <2>1, <2>2, <2>5 DEF Holding
    <3> HIDE DEF kept, args
    <3>3. TextMap(new)
      BY <2>0, <3>2, FieldsTyped
    <3> HIDE DEF new
    <3>4. Cardinality(DOMAIN new) \in Nat /\ Cardinality(DOMAIN kept) \in Nat
      BY <3>2, <3>3, FS_CardinalityType DEF TextMap
    <3>5. count \in Int
      BY <3>4
    <3>6. Holding("hash", new)
      BY <3>3 DEF Holding
    <3> HIDE DEF count
    <3> QED  BY <1>2, <1>3, <3>1, <3>5, <3>6
  <2>6. CASE name = "HGETALL"
    <3>0. Run(list) = {Answered(Bulk(PairsOf(kept, fields))) : fields \in SetToSeqs(DOMAIN kept)}
      BY <1>6, <2>6, RunAnswers
    <3>1. PICK fields \in SetToSeqs(DOMAIN kept) : outcome = Answered(Bulk(PairsOf(kept, fields)))
      BY <3>0
    <3>2. TextMap(kept)
      BY <2>1, <2>2, <2>6 DEF Holding
    <3>3. PairsOf(kept, fields) \in Seq(Seq(STRING))
      BY <3>2, PairsTyped
    <3> QED  BY <1>1, <1>4, <3>1, <3>3
  <2>7. CASE name = "RPUSH"
    <3> DEFINE new == Joined(kept, args)
    <3>1. outcome = Keeps(list, "list", new, IntegerValue(Len(new)))
      BY <1>6, <2>7, RunAnswers
    <3>2. kept \in Seq(Seq(STRING))
      BY <2>1, <2>2, <2>7 DEF Holding
    <3> HIDE DEF kept, args
    <3>3. new \in Seq(Seq(STRING)) /\ Len(new) \in Nat
      <4>1. new \in Seq(Seq(STRING))
        BY <2>0, <3>2, JoinedLength
      <4> QED  BY <4>1, LenProperties
    <3> HIDE DEF new
    <3>4. Holding("list", new)
      BY <3>3 DEF Holding
    <3>5. IsReply(IntegerValue(Len(new)))
      BY <1>3, <3>3
    <3> QED  BY <1>2, <3>1, <3>4, <3>5
  <2>8. CASE name = "LRANGE"
    <3>1. outcome = Answered(Bulk(kept)) \/ outcome = Answered(SimpleStringValue(<<"x">>))
      BY <1>6, <2>8, RunAnswers
    <3>2. kept \in Seq(Seq(STRING))
      BY <2>1, <2>2, <2>8 DEF Holding
    <3> QED  BY <1>1, <1>4, <3>1, <3>2
  <2>9. CASE name = "SADD"
    <3> DEFINE new == kept \cup Range(args)
               count == Cardinality(new) - Cardinality(kept)
    <3>1. outcome = Keeps(list, "set", new, IntegerValue(count))
      BY <1>6, <2>9, RunAnswers
    <3>2. IsFiniteSet(kept) /\ kept \subseteq Seq(STRING)
      BY <2>1, <2>2, <2>9 DEF Holding
    <3>3. IsFiniteSet(Range(args)) /\ Range(args) \subseteq Seq(STRING)
      <4> HIDE DEF args
      <4>1. Range(args) = {args[k] : k \in DOMAIN args} /\ DOMAIN args = 1..Len(args)
            /\ args = [k \in DOMAIN args |-> args[k]]
        BY <2>0, LenProperties DEF Range
      <4>2. IsFiniteSet(1..Len(args))
        BY <2>0, FS_Interval
      <4>3. \A k \in 1..Len(args) : args[k] \in Seq(STRING)
        BY <2>0, ElementOfSeq
      <4>4. Range(args) \subseteq Seq(STRING)
        BY <4>1, <4>3
      <4>5. IsFiniteSet({args[k] : k \in DOMAIN args})
        BY <4>1, <4>2, RangeFinite
      <4> QED  BY <4>1, <4>4, <4>5
    <3> HIDE DEF kept, args
    <3>4. IsFiniteSet(new) /\ new \subseteq Seq(STRING)
      BY <3>2, <3>3, FS_Union
    <3> HIDE DEF new
    <3>5. Cardinality(new) \in Nat /\ Cardinality(kept) \in Nat
      BY <3>2, <3>4, FS_CardinalityType
    <3>6. count \in Int
      BY <3>5
    <3>7. Holding("set", new)
      BY <3>4 DEF Holding
    <3> HIDE DEF count
    <3> QED  BY <1>2, <1>3, <3>1, <3>6, <3>7
  <2>10. CASE name = "SMEMBERS"
    <3>0. Run(list) = {Answered(Bulk(members)) : members \in SetToSeqs(kept)}
      BY <1>6, <2>10, RunAnswers
    <3>1. PICK members \in SetToSeqs(kept) : outcome = Answered(Bulk(members))
      BY <3>0
    <3>2. IsFiniteSet(kept) /\ kept \subseteq Seq(STRING)
      BY <2>1, <2>2, <2>10 DEF Holding
    <3>3. members \in Seq(Seq(STRING))
      BY <3>2, OrderTyped
    <3> QED  BY <1>1, <1>4, <3>1, <3>3
  <2>11. CASE name = "PUBLISH"
    <3>1. outcome.reply = IntegerValue(2) /\ outcome.store = store
      BY <1>6, <2>11, RunAnswers
    <3> QED  BY <1>3, <3>1
  <2>12. CASE name \notin {"SET", "GET", "HSET", "HGETALL", "RPUSH", "LRANGE", "SADD",
                           "SMEMBERS", "PUBLISH"}
    <3>1. outcome = Answered(SimpleStringValue(<<"x">>))
      BY <1>6, <2>12, RunAnswers
    <3> QED  BY <1>1, <1>4, <3>1
  <2> HIDE DEF name
  <2> QED  BY <2>3, <2>4, <2>5, <2>6, <2>7, <2>8, <2>9, <2>10, <2>11, <2>12
<1> QED  BY <1>5, <1>6

\* A command that is served is one of those that were sent
LEMMA RequestFits ==
    ASSUME Constructing, Sending, Serve
    PROVE  Fits(Request.words) /\ Request.words # <<>>
<1>1. wire # <<>> /\ stage = "sent" /\ LinesArePlain
  BY DEF Serve
<1>2. PICK j, f, g : ReadUpTo(j, f, g)
  BY <1>1 DEF Sending
<1>3. PICK m \in 1..Len(batch) : batch[m] # <<>> /\ Holds(wire, 1, Pieces[m])
  BY <1>1, <1>2, NextCommand
<1>4. Fits(batch[m]) /\ Pieces[m] = SerializedCommand(batch[m])
  BY PiecesAre DEF Constructing
<1>5. Len(batch[m]) = 1 => Plain(batch[m][1])
  <2>1. DOMAIN batch = 1..Len(batch)
    BY LenProperties DEF Constructing
  <2> QED  BY <1>1, <2>1 DEF LinesArePlain
<1>6. Request.words = batch[m]
  BY <1>3, <1>4, <1>5, RequestRead
<1> QED  BY <1>3, <1>4, <1>6

\* Every reply of the server is a value
ServerValues == \A v : IsReply(v) => v \in Values

\* What has been given for what was received, and what is kept
Serving ==
    /\ Stored(store)
    /\ received \in Seq(Seq(Seq(STRING)))
    /\ given \in Seq(Values) /\ \A i \in 1..Len(given) : IsReply(given[i])
    /\ Len(received) = Len(given)

LEMMA ServeServes ==
    ASSUME ServerValues, Constructing, Sending, Serving, Serve
    PROVE  Serving'
<1>1. Fits(Request.words)
  BY RequestFits
<1>2. PICK outcome \in Run(Request.words) :
         /\ received' = Append(received, Request.words)
         /\ given' = Append(given, outcome.reply)
         /\ store' = outcome.store
  BY DEF Serve
<1>3. IsReply(outcome.reply) /\ Stored(outcome.store)
  BY <1>1, <1>2, RunTyped DEF Serving
<1> DEFINE words1 == Request.words
           reply == outcome.reply
           X == Seq(Seq(STRING))
<1>4. words1 \in X /\ reply \in Values /\ IsReply(reply)
  BY <1>1, <1>3 DEF Fits, ServerValues
<1>5. received' = Append(received, words1) /\ given' = Append(given, reply)
  BY <1>2
<1>6. Stored(store')
  BY <1>2, <1>3
<1>7. /\ received \in Seq(X) /\ given \in Seq(Values)
      /\ \A i \in 1..Len(given) : IsReply(given[i])
      /\ Len(received) = Len(given) /\ Len(given) \in Nat
  BY LenProperties DEF Serving
<1> HIDE DEF words1, reply, X
<1>8. received' \in Seq(X) /\ Len(received') = Len(received) + 1
  BY <1>4, <1>5, <1>7, AppendProperties
<1>9. /\ given' \in Seq(Values) /\ Len(given') = Len(given) + 1
      /\ \A i \in 1..Len(given) : given'[i] = given[i]
      /\ given'[Len(given) + 1] = reply
  BY <1>4, <1>5, <1>7, AppendProperties
<1>10. \A i \in 1..Len(given') : IsReply(given'[i])
  <2> TAKE i \in 1..Len(given')
  <2>1. i \in 1..Len(given) \/ i = Len(given) + 1
    BY <1>7, <1>9
  <2> QED  BY <1>4, <1>7, <1>9, <2>1
<1> QED  BY <1>6, <1>7, <1>8, <1>9, <1>10 DEF Serving, X

LEMMA Served == ServerValues => (Spec => []Serving)
<1> SUFFICES ASSUME ServerValues
             PROVE  Spec => []Serving
  OBVIOUS
<1>1. Init => Serving
  <2> SUFFICES ASSUME Init
               PROVE  Serving
    OBVIOUS
  <2>1. store = << >> /\ received = <<>> /\ given = <<>>
    BY DEF Init
  <2>2. <<>> \in Seq(Seq(Seq(STRING))) /\ <<>> \in Seq(Values) /\ Len(<<>>) = 0
        /\ DOMAIN <<>> = {}
    BY EmptySeq, LenProperties
  <2>3. Stored(store)
    BY <2>1, <2>2 DEF Stored
  <2>4. \A i \in 1..Len(given) : IsReply(given[i])
    BY <2>1, <2>2
  <2> QED  BY <2>1, <2>2, <2>3, <2>4 DEF Serving
<1>2. Serving /\ Constructing /\ Sending /\ [Next]_vars => Serving'
  <2> SUFFICES ASSUME Serving, Constructing, Sending, [Next]_vars
               PROVE  Serving'
    OBVIOUS
  <2>1. CASE Serve
    BY <2>1, ServeServes
  <2>2. ASSUME UNCHANGED <<store, received, given>>
        PROVE  Serving'
    BY <2>2 DEF Serving, Stored
  <2>3. CASE Construct
    BY <2>2, <2>3 DEF Construct, outside
  <2>4. CASE Throw
    BY <2>2, <2>4 DEF Throw, outside
  <2>5. CASE ReadText
    BY <2>2, <2>5 DEF ReadText, outside
  <2>6. CASE Collect
    BY <2>2, <2>6 DEF Collect, outside
  <2>7. CASE SendAll
    BY <2>2, <2>7 DEF SendAll
  <2>8. CASE Answer
    BY <2>2, <2>8 DEF Answer
  <2>9. CASE UNCHANGED vars
    BY <2>2, <2>9 DEF vars
  <2> QED  BY <2>1, <2>3, <2>4, <2>5, <2>6, <2>7, <2>8, <2>9 DEF Next
<1> QED  BY <1>1, <1>2, Constructed, SentIsLeft, PTL DEF Spec

\* Words read from a text are not empty
NoneEmpty(list) == \A i \in DOMAIN list : list[i] # <<>>
Commanding ==
    /\ it \in 1..End(text)
    /\ stage \in {"idle", "reading", "built", "undefined", "threw", "sent", "answered"}
    /\ Len(batch) <= Len(pipeline)
    /\ stage \in {"reading", "built"} =>
          /\ Len(batch) < Len(pipeline)
          /\ pipeline[Len(batch) + 1].from = "text" => NoneEmpty(words)
    /\ \A k \in DOMAIN batch : pipeline[k].from = "text" => NoneEmpty(batch[k])

LEMMA WithMemberFull ==
    ASSUME words \in Seq(Seq(STRING)), member \in Seq(STRING), NoneEmpty(words)
    PROVE  NoneEmpty(WithMember)
<1>1. CASE member = <<>>
  BY <1>1 DEF WithMember
<1>2. CASE member # <<>>
  <2> DEFINE list == Append(words, member)
  <2>1. /\ list \in Seq(Seq(STRING)) /\ Len(list) = Len(words) + 1 /\ Len(words) \in Nat
        /\ \A i \in 1..Len(words) : list[i] = words[i]
        /\ list[Len(words) + 1] = member /\ DOMAIN words = 1..Len(words)
    BY AppendProperties, LenProperties
  <2>2. WithMember = list
    BY <1>2 DEF WithMember
  <2> HIDE DEF list
  <2>3. DOMAIN list = 1..Len(list)
    BY <2>1, LenProperties
  <2>4. \A i \in DOMAIN list : list[i] # <<>>
    <3> TAKE i \in DOMAIN list
    <3>1. i \in 1..Len(words) \/ i = Len(words) + 1
      BY <2>1, <2>3
    <3> QED  BY <1>2, <2>1, <3>1 DEF NoneEmpty
  <2> QED  BY <2>2, <2>4 DEF NoneEmpty
<1> QED  BY <1>1, <1>2

LEMMA ConstructCommands ==
    ASSUME Commanding, Constructing, Construct
    PROVE  Commanding'
<1> DEFINE item == pipeline[Len(batch) + 1]
<1>1. /\ Len(batch) < Len(pipeline) /\ UNCHANGED <<batch, pipeline>>
      /\ \/ item.from = "text" /\ FromText(item.text)
         \/ item.from = "words" /\ FromWords(item.words)
         \/ item.from = "builder" /\ \E list \in Build(item.call) : FromWords(list)
  BY DEF Construct, outside
<1>2. Len(batch) \in Nat /\ Len(pipeline) \in Nat /\ Len(batch) + 1 \in 1..Len(pipeline)
  <2>1. Len(batch) \in Nat /\ Len(pipeline) \in Nat
    BY LenProperties, PipelinesAssumption DEF Constructing
  <2> QED  BY <1>1, <2>1
<1>3. item.from = "text" => item.text \in Seq(STRING)
  BY <1>2, PipelinesAssumption DEF Constructing
<1>4. item' = item
  BY <1>1
<1> HIDE DEF item
<1>5. CASE item.from = "text" /\ FromText(item.text)
  <2>1. /\ text' = item.text /\ it' = 1 /\ words' = <<>> /\ stage' = "reading"
    BY <1>5 DEF FromText
  <2>2. it' \in 1..End(text')
    <3>1. Len(text') \in Nat
      BY <1>3, <1>5, <2>1, LenProperties
    <3> QED  BY <2>1, <3>1 DEF End
  <2>3. NoneEmpty(words')
    <3>1. DOMAIN <<>> = {}
      BY EmptySeq, LenProperties
    <3> QED  BY <2>1, <3>1 DEF NoneEmpty
  <2> QED  BY <1>1, <2>1, <2>2, <2>3 DEF Commanding
<1>6. CASE item.from # "text"
  <2>1. text' = <<>> /\ it' = 1 /\ stage' = "built"
    BY <1>1, <1>6 DEF FromWords
  <2>2. it' \in 1..End(text')
    <3>1. Len(<<>>) = 0
      BY EmptySeq
    <3> QED  BY <2>1, <3>1 DEF End
  <2>3. pipeline'[Len(batch') + 1].from # "text"
    BY <1>4, <1>6 DEF item
  <2> QED  BY <1>1, <2>1, <2>2, <2>3 DEF Commanding
<1> QED  BY <1>1, <1>5, <1>6

LEMMA ReadTextCommands ==
    ASSUME Commanding, Constructing, ReadText
    PROVE  Commanding'
<1>1. Turn /\ UNCHANGED <<batch, pipeline>>
  BY DEF ReadText, outside
<1>2. stage = "reading" /\ ReadingIn(STRING)
  BY <1>1 DEF Constructing, Turn, Delimiter, Quoted, LastQuote, Other, LastMember, AtByte
<1>3. stage' \in {"reading", "built", "undefined"} /\ text' = text
  BY <1>1, <1>2 DEF Turn, Delimiter, Quoted, LastQuote, Other, LastMember
<1>4. it' \in 1..End(text')
  <2>1. CASE stage' = "reading"
    BY <1>1, <2>1, TurnConstructs DEF ReadingIn
  <2>2. CASE stage' # "reading"
    <3>1. it' = it
      BY <1>1, <1>2, <2>2 DEF Turn, Delimiter, Quoted, LastQuote, Other, LastMember
    <3> QED  BY <1>3, <3>1 DEF Commanding
  <2> QED  BY <2>1, <2>2
<1>5. pipeline[Len(batch) + 1].from = "text" => NoneEmpty(words')
  <2> SUFFICES ASSUME NoneEmpty(words)
               PROVE  NoneEmpty(words')
    BY <1>2 DEF Commanding
  <2>1. NoneEmpty(WithMember)
    BY <1>2, WithMemberFull DEF ReadingIn
  <2>2. words' = words \/ words' = WithMember
    BY <1>1 DEF Turn, Delimiter, Quoted, LastQuote, Other, LastMember
  <2> QED  BY <2>1, <2>2
<1> QED  BY <1>1, <1>2, <1>3, <1>4, <1>5 DEF Commanding

LEMMA CollectCommands ==
    ASSUME Commanding, Constructing, Collect
    PROVE  Commanding'
<1>1. /\ stage = "built" /\ batch' = Append(batch, words) /\ text' = <<>> /\ it' = 1
      /\ stage' = "idle" /\ pipeline' = pipeline
  BY DEF Collect, outside
<1>2. words \in Seq(Seq(STRING)) /\ batch \in Seq(Seq(Seq(STRING)))
  BY <1>1 DEF Constructing, Fits
<1> DEFINE more == Append(batch, words)
           X == Seq(Seq(STRING))
<1>3. /\ Len(batch) < Len(pipeline) /\ Len(batch) \in Nat /\ Len(pipeline) \in Nat
      /\ pipeline[Len(batch) + 1].from = "text" => NoneEmpty(words)
      /\ \A k \in 1..Len(batch) : pipeline[k].from = "text" => NoneEmpty(batch[k])
  BY <1>1, <1>2, LenProperties, PipelinesAssumption DEF Commanding, Constructing
<1>4. words \in X /\ batch \in Seq(X)
  BY <1>2
<1> HIDE DEF X
<1>5. /\ more \in Seq(X) /\ Len(more) = Len(batch) + 1
      /\ \A k \in 1..Len(batch) : more[k] = batch[k]
      /\ more[Len(batch) + 1] = words
  BY <1>4, AppendProperties
<1> HIDE DEF more
<1>6. DOMAIN more = 1..Len(more)
  BY <1>5, LenProperties
<1>7. \A k \in DOMAIN more : pipeline[k].from = "text" => NoneEmpty(more[k])
  <2> TAKE k \in DOMAIN more
  <2>1. k \in 1..Len(batch) \/ k = Len(batch) + 1
    BY <1>3, <1>5, <1>6
  <2>2. CASE k \in 1..Len(batch)
    BY <1>3, <1>5, <2>2
  <2>3. CASE k = Len(batch) + 1
    BY <1>3, <1>5, <2>3
  <2> QED  BY <2>1, <2>2, <2>3
<1>8. Len(more) <= Len(pipeline)
  BY <1>3, <1>5
<1>9. batch' = more
  BY <1>1 DEF more
<1>10. 1 \in 1..End(<<>>)
  <2>1. Len(<<>>) = 0
    BY EmptySeq
  <2> QED  BY <2>1 DEF End
<1> QED  BY <1>1, <1>7, <1>8, <1>9, <1>10 DEF Commanding

LEMMA Commanded == Spec => []Commanding
<1>1. Init => Commanding
  <2> SUFFICES ASSUME Init
               PROVE  Commanding
    OBVIOUS
  <2>1. text = <<>> /\ it = 1 /\ batch = <<>> /\ stage = "idle" /\ pipeline \in Pipelines
    BY DEF Init, NoCommand
  <2>2. Len(<<>>) = 0 /\ DOMAIN <<>> = {}
    BY EmptySeq, LenProperties
  <2>3. Len(pipeline) \in Nat
    BY <2>1, PipelinesAssumption
  <2> QED  BY <2>1, <2>2, <2>3 DEF Commanding, End
<1>2. Commanding /\ Constructing /\ [Next]_vars => Commanding'
  <2> SUFFICES ASSUME Commanding, Constructing, [Next]_vars
               PROVE  Commanding'
    OBVIOUS
  <2>1. ASSUME UNCHANGED <<pipeline, batch, text, it, words>>,
               stage' = stage \/ stage' \in {"threw", "sent", "answered"}
        PROVE  Commanding'
    BY <2>1 DEF Commanding
  <2>2. CASE Construct
    BY <2>2, ConstructCommands
  <2>3. CASE Throw
    BY <2>1, <2>3 DEF Throw, outside
  <2>4. CASE ReadText
    BY <2>4, ReadTextCommands
  <2>5. CASE Collect
    BY <2>5, CollectCommands
  <2>6. CASE SendAll
    BY <2>1, <2>6 DEF SendAll
  <2>7. CASE Serve
    BY <2>1, <2>7 DEF Serve, commandVars
  <2>8. CASE Answer
    BY <2>1, <2>8 DEF Answer
  <2>9. CASE UNCHANGED vars
    BY <2>1, <2>9 DEF vars, commandVars
  <2> QED  BY <2>2, <2>3, <2>4, <2>5, <2>6, <2>7, <2>8, <2>9 DEF Next
<1> QED  BY <1>1, <1>2, Constructed, PTL DEF Spec

\* Words read from a text are never empty, and every command that was read has
\* one reply, which is a value, whatever is stored (command.cpp:7-42).
THEOREM ExchangeTypeCorrect == ServerValues => (Spec => []TypeOK)
<1> SUFFICES ASSUME ServerValues
             PROVE  Spec => []TypeOK
  OBVIOUS
<1>1. Serving /\ Commanding => TypeOK
  <2> SUFFICES ASSUME Serving, Commanding
               PROVE  TypeOK
    OBVIOUS
  <2>1. \A k \in DOMAIN batch :
           pipeline[k].from = "text" => \A i \in DOMAIN batch[k] : batch[k][i] # <<>>
    BY DEF Commanding, NoneEmpty
  <2>2. \A key \in DOMAIN store : store[key].kind \in DOMAIN Empty
    BY DEF Serving, Stored, Holding, Empty
  <2>3. \A i \in DOMAIN given : given[i] \in Values
    <3>1. given \in Seq(Values) /\ DOMAIN given = 1..Len(given)
      BY LenProperties DEF Serving
    <3> QED  BY <3>1, ElementOfSeq
  <2> QED  BY <2>1, <2>2, <2>3 DEF TypeOK, Serving, Commanding
<1> QED  BY <1>1, Served, Commanded, PTL

-----------------------------------------------------------------------------
(* What the client makes of the answers.                                   *)

\* In an array there are no arrays: none of the commands answers with one
FlatArrays ==
    \A v \in Values : v.type = "array" =>
        \A i \in DOMAIN v.items : v.items[i] \in Values /\ v.items[i].type # "array"

LEMMA BytesAre ==
    ASSUME FlatArrays
    PROVE  \A v \in Values : Bytes[v] = BytesOne(v, Bytes)
<1> DEFINE scalars == [v \in Values |-> BytesOne(v, <<>>)]
           g == [v \in Values |-> BytesOne(v, scalars)]
<1>1. ASSUME NEW v \in Values, v.type # "array"
      PROVE  g[v] = scalars[v]
  <2>1. BytesOne(v, scalars) = BytesOne(v, <<>>)
    BY <1>1, BytesSame
  <2> QED  BY <2>1
<1>2. ASSUME NEW v \in Values
      PROVE  g[v] = BytesOne(v, g)
  <2>1. v.type = "array" => \A i \in DOMAIN v.items : scalars[v.items[i]] = g[v.items[i]]
    BY <1>1 DEF FlatArrays
  <2>2. g[v] = BytesOne(v, scalars)
    OBVIOUS
  <2> HIDE DEF g, scalars
  <2> QED  BY <2>1, <2>2, BytesSame
<1>3. g = [v \in Values |-> BytesOne(v, g)]
  <2>1. g = [v \in Values |-> g[v]]
    OBVIOUS
  <2> HIDE DEF g
  <2> QED  BY <1>2, <2>1
<1> HIDE DEF g, scalars
<1> DEFINE bytes[v \in Values] ==
             CASE v.type = "nil"           -> LineOf("$", <<"-", "1">>)
               [] v.type = "simple_string" -> LineOf("+", v.text)
               [] v.type = "error"         -> LineOf("-", v.text)
               [] v.type = "integer"       -> LineOf(":", Decimal(v.number))
               [] v.type = "bulk_string"   ->
                     LineOf("$", Decimal(Len(v.text))) \o v.text \o CRLF
               [] v.type = "array"         ->
                     LineOf("*", Decimal(Len(v.items))) \o
                       FlattenSeq([i \in DOMAIN v.items |-> bytes[v.items[i]]])
<1>4. bytes = [v \in Values |-> BytesOne(v, bytes)]
  BY <1>3 DEF BytesOne, Elements
<1>5. Bytes = bytes
  BY DEF Bytes
<1> HIDE DEF bytes
<1> QED  BY <1>4, <1>5

\* Numbers and sizes that RESP can say
FitsReply(v) ==
    /\ v.type = "integer" => v.number \in Long
    /\ v.type = "bulk_string" => Len(v.text) <= MaxLong
    /\ v.type = "array" =>
          /\ Len(v.items) <= MaxLong
          /\ \A i \in DOMAIN v.items : Len(v.items[i].text) <= MaxLong

ErrorOf(v) == IF v.type = "error" THEN "error" ELSE "none"
ReadBack(s, v) ==
    /\ s \in Seq(Byte) /\ Len(s) # 0
    /\ \A b, i : Holds(b, i, s) => ParseReply(b, i) = Response(v, ErrorOf(v), i + Len(s))

LEMMA ReadAsBack ==
    ASSUME NEW s \in Seq(Byte), NEW v, Len(s) # 0, ReadAs(s, v), v.type # "error"
    PROVE  ReadBack(s, v)
BY DEF ReadBack, ReadAs, Success, ErrorOf

\* An array of strings is read back
LEMMA StringsRead ==
    ASSUME ServerValues, FlatArrays, NEW ts \in Seq(Seq(STRING)), FitsReply(Bulk(ts))
    PROVE  Bytes[Bulk(ts)] \in Seq(Byte) /\ Len(Bytes[Bulk(ts)]) # 0
           /\ ReadAs(Bytes[Bulk(ts)], Bulk(ts))
<1> DEFINE n == Len(ts)
           items == [i \in DOMAIN ts |-> BulkStringValue(ts[i])]
           ss == [i \in DOMAIN ts |-> BulkBytes(ts[i])]
<1>1. n \in Nat /\ DOMAIN ts = 1..n /\ \A i \in 1..n : ts[i] \in Seq(STRING)
  BY LenProperties, ElementOfSeq
<1>2. Bulk(ts) = ArrayValue(items) /\ Bulk(ts) \in Values
  BY DEF Bulk, ServerValues, IsReply
<1>3. /\ Bulk(ts).type = "array" /\ Bulk(ts).items = items
      /\ DOMAIN items = 1..n /\ DOMAIN ss = 1..n
  BY <1>1, <1>2 DEF ArrayValue
<1>4. ASSUME NEW i \in 1..n
      PROVE  /\ items[i] = BulkStringValue(ts[i]) /\ items[i] \in Values
             /\ ts[i] \in Seq(Byte) /\ ss[i] = BulkBytes(ts[i])
             /\ Bytes[items[i]] = BulkBytes(ts[i])
             /\ ss[i] \in Seq(Byte) /\ Len(ss[i]) # 0
  <2>1. items[i] = BulkStringValue(ts[i]) /\ ss[i] = BulkBytes(ts[i])
    BY <1>1
  <2>2. ts[i] \in Seq(Byte) /\ ts[i] \in Seq(STRING)
    BY <1>1, SymbolsAreBytes
  <2>3. items[i] \in Values
    BY <2>1, <2>2 DEF ServerValues, IsReply
  <2>4. items[i].type = "bulk_string" /\ items[i].text = ts[i]
    BY <2>1 DEF BulkStringValue
  <2> HIDE DEF items, ss
  <2>5. Bytes[items[i]] = BytesOne(items[i], Bytes)
    BY <2>3, BytesAre
  <2>6. BytesOne(items[i], Bytes) = BulkBytes(ts[i])
    BY <2>4 DEF BytesOne, BulkBytes
  <2> QED  BY <2>1, <2>2, <2>3, <2>5, <2>6, BulkTyped
<1>5. items \in Seq(Values) /\ Len(items) = n
  <2>1. \A i \in 1..n : BulkStringValue(ts[i]) \in Values
    BY <1>4
  <2>2. items = [i \in DOMAIN ts |-> items[i]]
    OBVIOUS
  <2> HIDE DEF items
  <2>3. \A i \in DOMAIN ts : items[i] \in Values
    BY <1>1, <1>4
  <2> QED  BY <2>2, <2>3, MappedIs, MappedMany
<1>6. ss \in Seq(Seq(Byte)) /\ Len(ss) = n
  <2>2. ss = [i \in DOMAIN ts |-> ss[i]]
    OBVIOUS
  <2> HIDE DEF ss
  <2>3. \A i \in DOMAIN ts : ss[i] \in Seq(Byte)
    BY <1>1, <1>4
  <2> QED  BY <2>2, <2>3, MappedIs, MappedMany
<1>7. Elements(Bulk(ts), Bytes) = ss
  <2>1. Elements(Bulk(ts), Bytes) = [i \in 1..n |-> Bytes[items[i]]]
    BY <1>3 DEF Elements
  <2>2. ss = [i \in 1..n |-> ss[i]]
    BY <1>3
  <2> HIDE DEF ss, items, n
  <2> QED  BY <1>4, <2>1, <2>2
<1> HIDE DEF items, ss
<1>8. Bytes[Bulk(ts)] = ArrayBytes(ss)
  <2>1. Bytes[Bulk(ts)] = BytesOne(Bulk(ts), Bytes)
    BY <1>2, BytesAre
  <2>2. BytesOne(Bulk(ts), Bytes) = LineOf("*", Decimal(n)) \o FlattenSeq(ss)
    BY <1>3, <1>5, <1>7 DEF BytesOne
  <2> QED  BY <1>6, <2>1, <2>2 DEF ArrayBytes
<1>9. \A j \in 1..Len(ss) : Len(ss[j]) # 0 /\ ReadAs(ss[j], items[j])
  <2> TAKE j \in 1..Len(ss)
  <2>1. Len(ts[j]) <= MaxLong
    <3>1. j \in DOMAIN Bulk(ts).items /\ Bulk(ts).items[j].text = ts[j]
      BY <1>3, <1>4, <1>6 DEF BulkStringValue
    <3> QED  BY <1>3, <3>1 DEF FitsReply
  <2> QED  BY <1>4, <1>6, <2>1, BulkStringRead
<1>10. Len(ss) <= MaxLong
  BY <1>3, <1>5, <1>6 DEF FitsReply
<1>11. ReadAs(ArrayBytes(ss), ArrayValue(items))
  BY <1>5, <1>6, <1>9, <1>10, ArrayRead
<1> QED  BY <1>2, <1>6, <1>8, <1>11, ArrayTyped

\* and so is every reply
LEMMA ReplyRead ==
    ASSUME ServerValues, FlatArrays, NEW v, IsReply(v), FitsReply(v)
    PROVE  ReadBack(Bytes[v], v)
<1>1. v \in Values /\ Bytes[v] = BytesOne(v, Bytes)
  BY BytesAre DEF ServerValues
<1>2. /\ "+" \in Byte /\ "-" \in Byte /\ ":" \in Byte /\ "$" \in Byte
      /\ <<"-", "1">> \in Seq(Byte)
  <2>1. "1" \in DigitSet
    BY DEF DigitSet, Digits
  <2>2. "+" \in Byte /\ "-" \in Byte /\ ":" \in Byte /\ "$" \in Byte /\ "1" \in Byte
    BY <2>1 DEF Byte
  <2> QED  BY <2>2
<1>3. \A t \in {<<"OK">>, <<"x">>} :
         t \in Seq(Byte) /\ \A k \in 1..Len(t) : t[k] # "CR"
  <2>1. "OK" \in Byte /\ "x" \in Byte /\ "OK" # "CR" /\ "x" # "CR"
    BY DEF Byte
  <2>2. <<"OK">> \in Seq(Byte) /\ \A k \in 1..Len(<<"OK">>) : <<"OK">>[k] # "CR"
    <3> HIDE DEF Byte
    <3> QED  BY <2>1
  <2>3. <<"x">> \in Seq(Byte) /\ \A k \in 1..Len(<<"x">>) : <<"x">>[k] # "CR"
    <3> HIDE DEF Byte
    <3> QED  BY <2>1
  <2> QED  BY <2>2, <2>3
<1>4. CASE v = NilValue
  <2>1. v.type = "nil"
    BY <1>4 DEF NilValue
  <2>2. Bytes[v] = LineOf("$", <<"-", "1">>)
    BY <1>1, <2>1 DEF BytesOne
  <2> QED  BY <1>2, <1>4, <2>1, <2>2, LineBytes, NilRead, ReadAsBack
<1>5. ASSUME NEW t \in {<<"OK">>, <<"x">>}, v = SimpleStringValue(t)
      PROVE  ReadBack(Bytes[v], v)
  <2>1. v.type = "simple_string" /\ v.text = t
    BY <1>5 DEF SimpleStringValue
  <2>2. Bytes[v] = LineOf("+", t)
    BY <1>1, <2>1 DEF BytesOne
  <2>3. t \in Seq(Byte) /\ \A k \in 1..Len(t) : t[k] # "CR"
    BY <1>3
  <2>4. ReadAs(LineOf("+", t), SimpleStringValue(t))
    BY <2>3, SimpleStringRead
  <2>5. LineOf("+", t) \in Seq(Byte) /\ Len(LineOf("+", t)) # 0
    BY <1>2, <2>3, LineBytes
  <2> QED  BY <1>5, <2>1, <2>2, <2>4, <2>5, ReadAsBack
<1>6. CASE v = ErrorValue(<<"x">>)
  <2>1. v.type = "error" /\ v.text = <<"x">>
    BY <1>6 DEF ErrorValue
  <2> DEFINE t == <<"x">>
             s == LineOf("-", t)
  <2>2. Bytes[v] = s
    BY <1>1, <2>1 DEF BytesOne
  <2>3. t \in Seq(Byte) /\ \A k \in 1..Len(t) : t[k] # "CR"
    BY <1>3
  <2> HIDE DEF t
  <2>4. \A b, i : Holds(b, i, s) => ParseReply(b, i) = Response(v, "error", i + Len(s))
    BY <1>6, <2>3, ErrorRead DEF t
  <2>5. s \in Seq(Byte) /\ Len(s) # 0
    BY <1>2, <2>3, LineBytes
  <2> HIDE DEF s
  <2> QED  BY <2>1, <2>2, <2>4, <2>5 DEF ReadBack, ErrorOf
<1>7. ASSUME NEW n \in Int, v = IntegerValue(n)
      PROVE  ReadBack(Bytes[v], v)
  <2>1. v.type = "integer" /\ v.number = n
    BY <1>7 DEF IntegerValue
  <2>2. Bytes[v] = LineOf(":", Decimal(n))
    BY <1>1, <2>1 DEF BytesOne
  <2>3. n \in Long
    BY <2>1 DEF FitsReply
  <2>4. LineOf(":", Decimal(n)) \in Seq(Byte) /\ Len(LineOf(":", Decimal(n))) # 0
    BY <1>2, DecimalBytes, LineBytes
  <2>5. ReadAs(LineOf(":", Decimal(n)), IntegerValue(n))
    BY <2>3, IntegerRead
  <2> QED  BY <1>7, <2>1, <2>2, <2>4, <2>5, ReadAsBack
<1>8. ASSUME NEW t \in Seq(STRING), v = BulkStringValue(t)
      PROVE  ReadBack(Bytes[v], v)
  <2>1. v.type = "bulk_string" /\ v.text = t
    BY <1>8 DEF BulkStringValue
  <2>2. Bytes[v] = BulkBytes(t)
    BY <1>1, <2>1 DEF BytesOne, BulkBytes
  <2>3. t \in Seq(Byte) /\ Len(t) <= MaxLong
    BY <2>1, SymbolsAreBytes DEF FitsReply
  <2>4. BulkBytes(t) \in Seq(Byte) /\ Len(BulkBytes(t)) # 0
    BY <2>3, BulkTyped
  <2>5. ReadAs(BulkBytes(t), BulkStringValue(t))
    BY <2>3, BulkStringRead
  <2> QED  BY <1>8, <2>1, <2>2, <2>4, <2>5, ReadAsBack
<1>9. ASSUME NEW ts \in Seq(Seq(STRING)), v = Bulk(ts)
      PROVE  ReadBack(Bytes[v], v)
  <2>1. v.type = "array"
    BY <1>9 DEF Bulk, ArrayValue
  <2> QED  BY <1>9, <2>1, StringsRead, ReadAsBack
<1> QED  BY <1>4, <1>5, <1>6, <1>7, <1>8, <1>9 DEF IsReply

\* One turn of the loop that reads them, and the loop
Entry(b, i) == [value |-> ParseReply(b, i).value, error |-> ParseReply(b, i).error]
Entries(b) == {Entry(b, i) : i \in Nat}
LoadTurn(b, g, i) ==
    IF i = End(b) THEN <<>> ELSE Joined(<<Entry(b, i)>>, g[ParseReply(b, i).next])

LEMMA LoadedIs ==
    ASSUME NEW b, Len(b) \in Nat
    PROVE  \E from : /\ from \in [Nat -> Seq(Entries(b))] /\ Loaded(b) = from[1]
                     /\ \A i \in Nat : from[i] = LoadTurn(b, from, i)
<1> DEFINE R == Seq(Entries(b))
           depth == [i \in Nat |-> IF i = End(b) THEN 0
                                   ELSE IF i > Reach(b) THEN 1 ELSE Reach(b) + 2 - i]
           Unfold == [g \in [Nat -> R] |-> [i \in Nat |-> LoadTurn(b, g, i)]]
           first == [i \in Nat |-> <<>>]
<1>1. depth \in [Nat -> Nat]
  BY ReachIs
<1>2. ASSUME NEW i \in Nat, i # End(b)
      PROVE  /\ ParseReply(b, i).next \in Nat
             /\ depth[ParseReply(b, i).next] < depth[i]
  <2> DEFINE next == ParseReply(b, i).next
  <2>1. next \in Nat /\ (next = End(b) \/ (i <= Reach(b) /\ next > i + 1))
    BY ParseReplyForward DEF Forward, Fair
  <2> HIDE DEF next
  <2>2. depth[next] < depth[i]
    BY <1>2, <2>1, ReachIs
  <2> QED  BY <2>1, <2>2 DEF next
<1>3. ASSUME NEW g \in [Nat -> R], NEW i \in Nat
      PROVE  LoadTurn(b, g, i) \in R
  <2>1. CASE i = End(b)
    BY <2>1 DEF LoadTurn
  <2>2. CASE i # End(b)
    <3> DEFINE e == Entry(b, i)
               t == g[ParseReply(b, i).next]
    <3>1. e \in Entries(b)
      BY DEF Entries
    <3>2. t \in R
      BY <1>2, <2>2
    <3>3. LoadTurn(b, g, i) = Joined(<<e>>, t)
      BY <2>2 DEF LoadTurn
    <3> HIDE DEF e, t
    <3>4. <<e>> \in R
      BY <3>1
    <3> QED  BY <3>2, <3>3, <3>4, JoinedLength
  <2> QED  BY <2>1, <2>2
<1>4. ASSUME NEW f \in [Nat -> R], NEW g \in [Nat -> R], NEW i \in Nat,
             \A j \in Nat : depth[j] < depth[i] => f[j] = g[j]
      PROVE  LoadTurn(b, f, i) = LoadTurn(b, g, i)
  <2>1. CASE i = End(b)
    BY <2>1 DEF LoadTurn
  <2>2. CASE i # End(b)
    <3>1. f[ParseReply(b, i).next] = g[ParseReply(b, i).next]
      BY <1>2, <1>4, <2>2
    <3> QED  BY <2>2, <3>1 DEF LoadTurn
  <2> QED  BY <2>1, <2>2
<1>5. first \in [Nat -> R]
  BY EmptySeq
<1> HIDE DEF depth, R, first
<1>6. Unfold \in [[Nat -> R] -> [Nat -> R]]
  BY <1>3
<1>7. \A f, g \in [Nat -> R] : \A i \in Nat :
         (\A j \in Nat : depth[j] < depth[i] => f[j] = g[j]) => Unfold[f][i] = Unfold[g][i]
  BY <1>4
<1> HIDE DEF Unfold
<1>8. Descends(Nat, R, depth, Unfold)
  BY <1>1, <1>5, <1>6, <1>7 DEF Descends
<1>9. PICK g : Solution(Nat, R, Unfold, g)
  BY <1>8, RecursionSolved
<1>10. g \in [Nat -> R] /\ g = [i \in Nat |-> LoadTurn(b, g, i)]
  BY <1>9 DEF Solution, Unfold
<1> DEFINE from[i \in Nat] ==
             LET Behind(response) ==
                   <<[value |-> response.value, error |-> response.error]>>
                       \o from[response.next]
             IN  IF i = End(b) THEN <<>> ELSE Behind(ParseReply(b, i))
<1>11. from = [i \in Nat |-> LoadTurn(b, from, i)]
  BY <1>10 DEF LoadTurn, Entry, Joined
<1>12. Loaded(b) = from[1]
  BY DEF Loaded
<1> HIDE DEF from
<1> DEFINE T == {k \in Nat : \A i \in Nat : depth[i] < k => from[i] = g[i]}
<1>13. 0 \in T
  BY <1>1
<1>14. ASSUME NEW k \in Nat, k \in T
       PROVE  k + 1 \in T
  <2> SUFFICES ASSUME NEW i \in Nat, depth[i] < k + 1
               PROVE  from[i] = g[i]
    OBVIOUS
  <2>1. CASE i = End(b)
    BY <1>10, <1>11, <2>1 DEF LoadTurn
  <2>2. CASE i # End(b)
    <3> DEFINE next == ParseReply(b, i).next
    <3>1. next \in Nat /\ depth[next] < depth[i]
      BY <1>2, <2>2
    <3> HIDE DEF next
    <3>2. from[next] = g[next]
      BY <1>1, <1>14, <3>1
    <3> QED  BY <1>10, <1>11, <3>2 DEF LoadTurn, next
  <2> QED  BY <2>1, <2>2
<1> HIDE DEF T
<1>15. Nat \subseteq T
  BY <1>13, <1>14, AllNumbers
<1>16. \A i \in Nat : from[i] = g[i]
  <2> SUFFICES ASSUME NEW i \in Nat
               PROVE  from[i] = g[i]
    OBVIOUS
  <2>1. depth[i] + 1 \in T /\ depth[i] \in Nat /\ depth[i] < depth[i] + 1
    BY <1>1, <1>15
  <2> QED  BY <2>1 DEF T
<1>17. from = g
  BY <1>10, <1>11, <1>16
<1> QED  BY <1>10, <1>12, <1>17 DEF R

Want(v) == [value |-> v, error |-> ErrorOf(v)]

\* The replies from the one behind the first j on
Rest(s, j) ==
    \E E : /\ s \in Seq(E) /\ Len(s) = Len(given) - j
           /\ \A k \in 1..Len(s) : s[k] = Want(given[j + k])

LEMMA RestMore ==
    ASSUME NEW b, given \in Seq(Values), NEW m \in 1..Len(given),
           NEW e \in Entries(b), e = Want(given[m]),
           NEW s \in Seq(Entries(b)), Rest(s, m)
    PROVE  Rest(Joined(<<e>>, s), m - 1)
<1> DEFINE t == Joined(<<e>>, s)
           E == Entries(b)
<1>1. Len(given) \in Nat /\ Len(s) \in Nat /\ Len(s) = Len(given) - m
      /\ \A k \in 1..Len(s) : s[k] = Want(given[m + k])
  BY LenProperties DEF Rest
<1>2. <<e>> \in Seq(E) /\ Len(<<e>>) = 1 /\ <<e>>[1] = e
  OBVIOUS
<1> HIDE DEF E
<1>3. /\ t \in Seq(E) /\ Len(t) = 1 + Len(s)
      /\ \A k \in 1..(1 + Len(s)) : t[k] = IF k <= 1 THEN <<e>>[k] ELSE s[k - 1]
  <2>1. s \in Seq(E)
    BY DEF E
  <2> QED  BY <1>2, <2>1, ConcatProperties DEF Joined
<1> HIDE DEF t
<1>4. Len(t) = Len(given) - (m - 1)
  BY <1>1, <1>3
<1>5. ASSUME NEW k \in 1..Len(t)
      PROVE  t[k] = Want(given[(m - 1) + k])
  <2>1. CASE k = 1
    <3>1. (m - 1) + 1 = m /\ t[1] = e
      BY <1>1, <1>2, <1>3
    <3> QED  BY <2>1, <3>1
  <2>2. CASE k # 1
    <3> DEFINE l == k - 1
    <3>1. l \in 1..Len(s) /\ t[k] = s[l] /\ m + l = (m - 1) + k
      BY <1>1, <1>3, <2>2
    <3> HIDE DEF l
    <3> QED  BY <1>1, <3>1
  <2> QED  BY <2>1, <2>2
<1> QED  BY <1>3, <1>4, <1>5 DEF Rest, t

RepliesFit == \A i \in 1..Len(given) : FitsReply(given[i])

\* The client returns the replies that were given, in their order
LEMMA AnswersRead ==
    ASSUME ServerValues, FlatArrays, Serving, RepliesFit
    PROVE  /\ Len(Loaded(BytesOf(given))) = Len(given)
           /\ DOMAIN Loaded(BytesOf(given)) = 1..Len(given)
           /\ \A k \in 1..Len(given) : Loaded(BytesOf(given))[k] = Want(given[k])
<1> DEFINE n == Len(given)
           ss == [i \in DOMAIN given |-> Bytes[given[i]]]
           b == BytesOf(given)
<1>1. given \in Seq(Values) /\ n \in Nat /\ DOMAIN given = 1..n
  BY LenProperties DEF Serving
<1>2. ASSUME NEW j \in 1..n
      PROVE  ReadBack(ss[j], given[j])
  BY <1>1, ReplyRead DEF Serving, RepliesFit
<1>3. ss \in Seq(Seq(Byte)) /\ Len(ss) = n
  <2>1. ss = [i \in DOMAIN given |-> ss[i]]
    OBVIOUS
  <2> HIDE DEF ss
  <2>2. \A i \in DOMAIN given : ss[i] \in Seq(Byte)
    BY <1>1, <1>2 DEF ReadBack
  <2> QED  BY <1>1, <2>1, <2>2, MappedIs, MappedMany
<1>4. b = FlattenSeq(ss)
  BY DEF BytesOf
<1> HIDE DEF ss, b
<1>5. PICK f : Flat(ss, Len(ss), f)
  BY <1>1, <1>3, FlatExists
<1>6. b = f[n] /\ b \in Seq(Byte) /\ Len(b) \in Nat
  BY <1>3, <1>4, <1>5, FlatLast, LenProperties
<1>7. Holds(b, 1, FlattenSeq(ss))
  <2>1. Len(b) \in Nat /\ b \in Seq(Byte) /\ \A k \in 1..Len(b) : 1 + k - 1 = k
    BY <1>6
  <2>2. \A k \in 1..Len(b) : b[1 + k - 1] = b[k]
    BY <2>1
  <2>3. Holds(b, 1, b)
    BY <2>1, <2>2 DEF Holds, End
  <2> QED  BY <1>4, <2>3
<1>8. \A j \in 1..n : /\ Holds(b, 1 + Len(f[j - 1]), ss[j])
                      /\ Len(f[j]) = Len(f[j - 1]) + Len(ss[j])
                      /\ Len(f[j - 1]) \in Nat /\ Len(ss[j]) \in Nat
  BY <1>3, <1>5, <1>7, HoldsEach
<1>9. PICK from : /\ from \in [Nat -> Seq(Entries(b))] /\ Loaded(b) = from[1]
                  /\ \A i \in Nat : from[i] = LoadTurn(b, from, i)
  BY <1>6, LoadedIs
<1> HIDE DEF n
<1> DEFINE T == {m \in Nat : m <= n => Rest(from[1 + Len(f[n - m])], n - m)}
<1>10. 0 \in T
  <2>1. n - 0 = n /\ 1 + Len(f[n]) = End(b) /\ End(b) \in Nat
    BY <1>1, <1>6 DEF End
  <2>2. from[End(b)] = <<>>
    BY <1>9, <2>1 DEF LoadTurn
  <2>3. Rest(<<>>, n)
    <3>1. <<>> \in Seq({}) /\ Len(<<>>) = 0 /\ 0 = n - n /\ 1..0 = {}
      BY <1>1
    <3> QED  BY <3>1 DEF Rest, n
  <2> QED  BY <2>1, <2>2, <2>3
<1>11. ASSUME NEW k \in Nat, k \in T
       PROVE  k + 1 \in T
  <2> SUFFICES ASSUME k + 1 <= n
               PROVE  Rest(from[1 + Len(f[n - (k + 1)])], n - (k + 1))
    OBVIOUS
  <2> DEFINE m == n - k
             p == 1 + Len(f[m - 1])
             response == ParseReply(b, p)
  <2>1. m \in 1..n /\ m - 1 = n - (k + 1) /\ k <= n
    BY <1>1
  <2>2. Rest(from[1 + Len(f[m])], m)
    BY <1>11, <2>1
  <2> HIDE DEF m, T
  <2>3. /\ Holds(b, p, ss[m]) /\ Len(f[m]) = Len(f[m - 1]) + Len(ss[m])
        /\ Len(f[m - 1]) \in Nat /\ Len(ss[m]) \in Nat
    BY <1>8, <2>1
  <2>4. p \in Nat /\ 1 + Len(f[m]) = p + Len(ss[m])
    <3> DEFINE x == Len(f[m - 1])
               y == Len(ss[m])
               z == Len(f[m])
    <3>1. p = 1 + x /\ z = x + y /\ x \in Nat /\ y \in Nat
      BY <2>3
    <3> HIDE DEF x, y, z, p
    <3>2. p \in Nat /\ 1 + z = p + y
      BY <3>1
    <3> QED  BY <3>2 DEF z, y
  <2>5. ReadBack(ss[m], given[m])
    BY <1>2, <2>1
  <2> HIDE DEF p, n
  <2>6. response = Response(given[m], ErrorOf(given[m]), p + Len(ss[m]))
    BY <2>3, <2>5 DEF ReadBack
  <2>7. p # End(b)
    BY <2>3, <2>4, <2>5 DEF ReadBack, Holds
  <2>8. response.next = 1 + Len(f[m]) /\ Entry(b, p) = Want(given[m])
    BY <2>4, <2>6 DEF Response, Entry, Want
  <2>9. from[p] = Joined(<<Entry(b, p)>>, from[1 + Len(f[m])])
    BY <1>9, <2>4, <2>7, <2>8 DEF LoadTurn
  <2>10. Entry(b, p) \in Entries(b) /\ from[1 + Len(f[m])] \in Seq(Entries(b))
    <3>1. p + Len(ss[m]) \in Nat
      BY <2>3, <2>4
    <3>2. 1 + Len(f[m]) \in Nat
      BY <2>4, <3>1
    <3> QED  BY <1>9, <2>4, <3>2 DEF Entries
  <2> HIDE DEF response
  <2>11. Rest(Joined(<<Entry(b, p)>>, from[1 + Len(f[m])]), m - 1)
    BY <1>1, <2>1, <2>2, <2>8, <2>10, RestMore DEF n
  <2> QED  BY <2>1, <2>9, <2>11 DEF p
<1>12. n \in T
  BY <1>1, <1>10, <1>11, AllNumbers
<1>13. Rest(from[1], 0)
  <2>1. f[0] = <<>> /\ Len(<<>>) = 0
    BY <1>5 DEF Flat
  <2>2. n - n = 0 /\ 1 + 0 = 1
    BY <1>1
  <2> QED  BY <1>1, <1>12, <2>1, <2>2
<1>14. Len(from[1]) = n - 0 /\ \A k \in 1..Len(from[1]) : from[1][k] = Want(given[0 + k])
  BY <1>13 DEF Rest, n
<1>15. Len(from[1]) = n /\ \A k \in 1..n : from[1][k] = Want(given[k])
  <2>1. n - 0 = n /\ \A k \in 1..n : 0 + k = k
    BY <1>1
  <2> QED  BY <1>14, <2>1
<1>16. DOMAIN from[1] = 1..n
  <2>1. from[1] \in Seq(Entries(b))
    BY <1>9
  <2> QED  BY <1>15, <2>1, LenProperties
<1> QED  BY <1>9, <1>15, <1>16 DEF n, b

\* Each answer is that of its command
Told(list, reply) ==
    /\ ~ Accepts(list) => reply = ErrorValue(<<"x">>)
    /\ Accepts(list) /\ Named(list) = "SET" => reply = SimpleStringValue(<<"OK">>)
Telling ==
    /\ \A i \in 1..Len(given) : Told(received[i], given[i])
    /\ stage = "answered" => wire = <<>> /\ answers = Loaded(BytesOf(given))

LEMMA RunTells ==
    ASSUME NEW list, NEW outcome \in Run(list)
    PROVE  Told(list, outcome.reply)
<1>1. ASSUME ~ Accepts(list)
      PROVE  outcome.reply = ErrorValue(<<"x">>)
  <2>1. Refused(list)
    BY <1>1 DEF Refused
  <2>2. outcome = Answered(ErrorValue(<<"x">>))
    BY <2>1, RunRefuses
  <2> QED  BY <2>2 DEF Answered
<1>2. ASSUME Accepts(list), Named(list) = "SET"
      PROVE  outcome.reply = SimpleStringValue(<<"OK">>)
  <2>1. "SET" \notin DOMAIN Kind
    BY DEF Kind
  <2>2. ~ Refused(list)
    BY <1>2, <2>1 DEF Refused
  <2>3. outcome = Keeps(list, "string", Args(list)[1], SimpleStringValue(<<"OK">>))
    BY <1>2, <2>2, RunAnswers
  <2> QED  BY <2>3 DEF Keeps
<1> QED  BY <1>1, <1>2 DEF Told

LEMMA ServeTells ==
    ASSUME Serving, Telling, Serve
    PROVE  Telling'
<1>1. PICK outcome \in Run(Request.words) :
         received' = Append(received, Request.words) /\ given' = Append(given, outcome.reply)
  BY DEF Serve
<1>2. stage' # "answered"
  BY DEF Serve, commandVars
<1> DEFINE list == Request.words
           reply == outcome.reply
           n == Len(given)
           X == Seq(Seq(STRING)) \cup {list}
           Y == Values \cup {reply}
<1>3. Told(list, reply)
  BY <1>1, RunTells
<1>4. received' = Append(received, list) /\ given' = Append(given, reply)
  BY <1>1
<1>5. received \in Seq(X) /\ given \in Seq(Y) /\ Len(received) = n /\ n \in Nat
  <2>1. Seq(Seq(STRING)) \subseteq X /\ Values \subseteq Y
    OBVIOUS
  <2> HIDE DEF X, Y
  <2>2. received \in Seq(X) /\ given \in Seq(Y)
    BY <2>1, SeqMonotonic DEF Serving
  <2> QED  BY <2>2, LenProperties DEF Serving
<1>6. list \in X /\ reply \in Y
  OBVIOUS
<1> HIDE DEF list, reply, X, Y
<1>7. /\ \A i \in 1..n : received'[i] = received[i]
      /\ received'[n + 1] = list
  BY <1>4, <1>5, <1>6, AppendProperties
<1>8. /\ Len(given') = n + 1
      /\ \A i \in 1..n : given'[i] = given[i]
      /\ given'[n + 1] = reply
  BY <1>4, <1>5, <1>6, AppendProperties
<1>9. \A i \in 1..n : Told(received[i], given[i])
  BY DEF Telling
<1> HIDE DEF n
<1>10. \A i \in 1..Len(given') : Told(received'[i], given'[i])
  <2> TAKE i \in 1..Len(given')
  <2>1. i \in 1..n \/ i = n + 1
    BY <1>5, <1>8
  <2> QED  BY <1>3, <1>7, <1>8, <1>9, <2>1
<1>11. (\A i \in 1..Len(given) : Told(received[i], given[i]))'
  BY <1>10 DEF Told, Accepts, Named, Arguments
<1> QED  BY <1>2, <1>11 DEF Telling

LEMMA AnswersTold == ServerValues => (Spec => []Telling)
<1> SUFFICES ASSUME ServerValues
             PROVE  Spec => []Telling
  OBVIOUS
<1>1. Init => Telling
  <2> SUFFICES ASSUME Init
               PROVE  Telling
    OBVIOUS
  <2>1. given = <<>> /\ stage # "answered"
    BY DEF Init, NoCommand
  <2> QED  BY <2>1 DEF Telling
<1>2. Serving /\ Telling /\ [Next]_vars => Telling'
  <2> SUFFICES ASSUME Serving, Telling, [Next]_vars
               PROVE  Telling'
    OBVIOUS
  <2>1. CASE Serve
    BY <2>1, ServeTells
  <2>2. ASSUME UNCHANGED <<received, given>>, stage' # "answered"
        PROVE  Telling'
    BY <2>2 DEF Telling, Told
  <2>3. CASE Construct
    BY <2>2, <2>3 DEF Construct, outside, FromText, FromWords
  <2>4. CASE Throw
    BY <2>2, <2>4 DEF Throw, outside
  <2>5. CASE ReadText
    <3>1. UNCHANGED <<received, given>>
      BY <2>5 DEF ReadText, outside
    <3>2. Turn
      BY <2>5 DEF ReadText
    <3>3. stage = "reading" /\ (stage' = stage \/ stage' \in {"built", "undefined"})
      BY <3>2 DEF Turn, Delimiter, Quoted, LastQuote, Other, LastMember, AtByte
    <3> QED  BY <2>2, <3>1, <3>3
  <2>6. CASE Collect
    BY <2>2, <2>6 DEF Collect, outside
  <2>7. CASE SendAll
    BY <2>2, <2>7 DEF SendAll
  <2>8. CASE Answer
    <3>1. /\ UNCHANGED <<received, given, wire>> /\ wire = <<>>
          /\ answers' = Loaded(BytesOf(given))
      BY <2>8 DEF Answer
    <3>2. (\A i \in 1..Len(given) : Told(received[i], given[i]))'
      BY <3>1 DEF Telling, Told
    <3>3. Loaded(BytesOf(given))' = Loaded(BytesOf(given))
      BY <3>1 DEF Loaded, BytesOf
    <3> QED  BY <3>1, <3>2, <3>3 DEF Telling
  <2>9. CASE UNCHANGED vars
    BY <2>9 DEF vars, commandVars, Telling, Told
  <2> QED  BY <2>1, <2>3, <2>4, <2>5, <2>6, <2>7, <2>8, <2>9 DEF Next
<1> QED  BY <1>1, <1>2, Served, PTL DEF Spec

\* How the replies of the last two read (value.hpp:414-430)
LEMMA ReplyReads ==
    /\ AsBool(ErrorValue(<<"x">>)) = {FALSE}
    /\ AsBool(SimpleStringValue(<<"OK">>)) = {TRUE}
<1>1. \A v : v.type = "error" => AsBool(v) = {FALSE}
  BY DEF AsBool
<1>2. ASSUME NEW v, v.type = "simple_string", v.text = <<"OK">>
      PROVE  AsBool(v) = {TRUE}
  <2> DEFINE same == v.text = <<"OK">>
  <2>1. AsBool(v) = {same}
    BY <1>2 DEF AsBool
  <2>2. same = TRUE
    BY <1>2
  <2> HIDE DEF same
  <2> QED  BY <2>1, <2>2
<1>3. ErrorValue(<<"x">>).type = "error"
  BY DEF ErrorValue
<1>4. /\ SimpleStringValue(<<"OK">>).type = "simple_string"
      /\ SimpleStringValue(<<"OK">>).text = <<"OK">>
  BY DEF SimpleStringValue
<1>5. AsBool(ErrorValue(<<"x">>)) = {FALSE}
  BY <1>1, <1>3
<1>6. AsBool(SimpleStringValue(<<"OK">>)) = {TRUE}
  BY <1>2, <1>4
<1> QED  BY <1>5, <1>6

\* A pipeline has one answer for each of its commands, in their order; the
\* refused ones are those with the error, and only they read as FALSE where SET
\* reads as TRUE, whatever is stored and however long the answers between are
\* (client.cpp:138-147, value.hpp:414-430).
THEOREM OutcomesAreTold ==
    ServerValues /\ FlatArrays => (Spec /\ []RepliesFit => []OutcomesTold)
<1> SUFFICES ASSUME ServerValues, FlatArrays
             PROVE  Spec /\ []RepliesFit => []OutcomesTold
  OBVIOUS
<1>1. Constructing /\ Sending /\ Serving /\ Telling /\ RepliesFit => OutcomesTold
  <2> SUFFICES ASSUME Constructing, Sending, Serving, Telling, RepliesFit, stage = "answered"
               PROVE  /\ Len(answers) = Len(Commands)
                      /\ \A i \in DOMAIN answers :
                            LET refused == ~ Accepts(received[i]) IN
                            /\ refused => answers[i].error = "error"
                                          /\ AsBool(answers[i].value) = {FALSE}
                            /\ Named(received[i]) = "SET" /\ ~ refused =>
                                  AsBool(answers[i].value) = {TRUE}
    BY DEF OutcomesTold
  <2>1. wire = <<>> /\ answers = Loaded(BytesOf(given))
    BY DEF Telling
  <2>2. PICK j, f, g : ReadUpTo(j, f, g)
    BY DEF Sending
  <2>3. Commands = FlattenSeq(Singles)
    BY DEF Commands, Singles
  <2>4. received = Commands
    BY <2>1, <2>2, <2>3, NextCommand
  <2>5. /\ Len(answers) = Len(given)
        /\ \A k \in 1..Len(given) : answers[k] = Want(given[k])
    BY <2>1, AnswersRead
  <2>6. Len(answers) = Len(Commands)
    BY <2>4, <2>5 DEF Serving
  <2>7. DOMAIN answers = 1..Len(given)
    BY <2>1, AnswersRead
  <2>8. ASSUME NEW i \in DOMAIN answers, ~ Accepts(received[i])
        PROVE  answers[i].error = "error" /\ AsBool(answers[i].value) = {FALSE}
    <3>1. answers[i] = Want(ErrorValue(<<"x">>))
      BY <2>5, <2>7, <2>8 DEF Telling, Told
    <3>2. ErrorValue(<<"x">>).type = "error"
      BY DEF ErrorValue
    <3>3. answers[i].error = "error" /\ answers[i].value = ErrorValue(<<"x">>)
      BY <3>1, <3>2 DEF Want, ErrorOf
    <3> QED  BY <3>3, ReplyReads
  <2>9. ASSUME NEW i \in DOMAIN answers, Accepts(received[i]), Named(received[i]) = "SET"
        PROVE  AsBool(answers[i].value) = {TRUE}
    <3>1. answers[i] = Want(SimpleStringValue(<<"OK">>))
      BY <2>5, <2>7, <2>9 DEF Telling, Told
    <3>2. answers[i].value = SimpleStringValue(<<"OK">>)
      BY <3>1 DEF Want
    <3> QED  BY <3>2, ReplyReads
  <2> QED  BY <2>6, <2>8, <2>9
<1> QED  BY <1>1, Constructed, SentIsLeft, Served, AnswersTold, PTL

=============================================================================
