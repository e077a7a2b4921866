--------------------------- MODULE TftpBufProofs ---------------------------
(***************************************************************************)
(* That the double buffer and the netascii conversion of tftpsubs.c give   *)
(* back the sender's file, for every file and every size of block.         *)
(*                                                                         *)
(* First what the loops compute: a loop is a recursive function, and what  *)
(* holds of it is proved by induction over its length.  Then what each     *)
(* call of tftpsubs.c does to the buffers, and from that the invariant.    *)
(***************************************************************************)
EXTENDS TftpBuf, Induction, SequenceTheorems, FiniteSetTheorems, TLAPS

-----------------------------------------------------------------------------
(* write_behind()'s loop.                                                  *)

\* The loop is defined for every length of the data.
LEMMA DecodedExists ==
  ASSUME NEW f, NEW data, NEW n \in Nat
  PROVE  \E g : g = [i \in 0 .. n |-> IF i = 0 THEN f ELSE Put(g[i - 1], data[i])]
  <1> DEFINE S == {k \in Nat : \E g : g = [i \in 0 .. k |->
                      IF i = 0 THEN f ELSE Put(g[i - 1], data[i])]}
  <1>1. 0 \in S
    <2> DEFINE g == [i \in 0 .. 0 |-> f]
    <2>1. g = [i \in 0 .. 0 |-> IF i = 0 THEN f ELSE Put(g[i - 1], data[i])]
      OBVIOUS
    <2> QED
      BY <2>1
  <1>2. ASSUME NEW k \in Nat, k \in S PROVE k + 1 \in S
    <2>1. PICK g : g = [i \in 0 .. k |-> IF i = 0 THEN f ELSE Put(g[i - 1], data[i])]
      BY <1>2
    <2> DEFINE h == [i \in 0 .. k + 1 |-> IF i = k + 1 THEN Put(g[k], data[i]) ELSE g[i]]
    <2>2. ASSUME NEW i \in 0 .. k + 1
          PROVE  h[i] = IF i = 0 THEN f ELSE Put(h[i - 1], data[i])
      BY <2>1
    <2>3. h = [i \in 0 .. k + 1 |-> IF i = 0 THEN f ELSE Put(h[i - 1], data[i])]
      BY <2>2
    <2> HIDE DEF h
    <2> QED
      BY <2>3
  <1> HIDE DEF S
  <1>3. n \in S
    BY <1>1, <1>2, NatInd
  <1> QED
    BY <1>3 DEF S

LEMMA DecodedRuns ==
  ASSUME NEW f, NEW s, Len(s) \in Nat
  PROVE  \E g : /\ g = [i \in 0 .. Len(s) |-> IF i = 0 THEN f ELSE Put(g[i - 1], s[i])]
                /\ Decoded(f, s) = g[Len(s)]
  <1> DEFINE g == CHOOSE g : g = [i \in 0 .. Len(s) |->
                                  IF i = 0 THEN f ELSE Put(g[i - 1], s[i])]
  <1>1. g = [i \in 0 .. Len(s) |-> IF i = 0 THEN f ELSE Put(g[i - 1], s[i])]
    BY DecodedExists
  <1>2. Decoded(f, s) = g[Len(s)]
    BY DEF Decoded
  <1> HIDE DEF g
  <1> QED
    BY <1>1, <1>2

\* g[i] is what the loop has made of f after i characters of s.
Puts(g, f, s, k) ==
    \A i \in 0 .. k : g[i] = IF i = 0 THEN f ELSE Put(g[i - 1], s[i])

\* Two runs of the loop agree as far as their data do.
LEMMA DecodedAgree ==
  ASSUME NEW f, NEW s, NEW t, NEW g, NEW h, NEW k \in Nat,
         \A i \in 1 .. k : s[i] = t[i], Puts(g, f, s, k), Puts(h, f, t, k)
  PROVE  g[k] = h[k]
  <1> DEFINE S == {j \in Nat : j <= k => g[j] = h[j]}
  <1>1. 0 \in S
    BY DEF Puts
  <1>2. ASSUME NEW j \in Nat, j \in S PROVE j + 1 \in S
    <2> SUFFICES ASSUME j + 1 <= k PROVE g[j + 1] = h[j + 1]
      OBVIOUS
    <2>1. j + 1 \in 1 .. k /\ j + 1 \in 0 .. k /\ (j + 1) - 1 = j /\ j + 1 # 0
      OBVIOUS
    <2>2. g[j + 1] = Put(g[j], s[j + 1]) /\ h[j + 1] = Put(h[j], t[j + 1])
      BY <2>1 DEF Puts
    <2> QED
      BY <1>2, <2>1, <2>2
  <1> HIDE DEF S
  <1>3. k \in S
    BY <1>1, <1>2, NatInd
  <1> QED
    BY <1>3 DEF S

LEMMA DecodedEmpty ==
  ASSUME NEW f PROVE Decoded(f, << >>) = f
  <1>1. Len(<< >>) = 0
    BY EmptySeq
  <1> QED
    BY <1>1, DecodedRuns

LEMMA DecodedAppend ==
  ASSUME NEW C, NEW f, NEW s \in Seq(C), NEW c \in C
  PROVE  Decoded(f, Append(s, c)) = Put(Decoded(f, s), c)
  <1> DEFINE t == Append(s, c)
             n == Len(s)
  <1>1. /\ t \in Seq(C) /\ Len(t) = n + 1 /\ n \in Nat
        /\ \A i \in 1 .. n : t[i] = s[i]
        /\ t[n + 1] = c
    BY AppendProperties, LenProperties
  <1> HIDE DEF t, n
  <1>2. PICK g : /\ g = [i \in 0 .. Len(s) |-> IF i = 0 THEN f ELSE Put(g[i - 1], s[i])]
                 /\ Decoded(f, s) = g[Len(s)]
    BY <1>1, DecodedRuns DEF n
  <1>3. PICK h : /\ h = [i \in 0 .. Len(t) |-> IF i = 0 THEN f ELSE Put(h[i - 1], t[i])]
                 /\ Decoded(f, t) = h[Len(t)]
    <2>1. Len(t) \in Nat
      BY <1>1
    <2> QED
      BY <2>1, DecodedRuns
  <1>4. Puts(g, f, s, n)
    BY <1>2 DEF Puts, n
  <1>5. Puts(h, f, t, n)
    <2>1. \A i \in 0 .. n : i \in 0 .. n + 1
      BY <1>1
    <2> QED
      BY <1>1, <1>3, <2>1 DEF Puts
  <1>6. g[n] = h[n]
    BY <1>1, <1>4, <1>5, DecodedAgree
  <1>7. n + 1 \in 0 .. n + 1 /\ n + 1 # 0 /\ (n + 1) - 1 = n
    BY <1>1
  <1>8. h[n + 1] = Put(h[n], t[n + 1])
    BY <1>1, <1>3, <1>7
  <1> QED
    BY <1>1, <1>2, <1>3, <1>6, <1>8 DEF t, n

\* The blocks may be decoded one after the other.
LEMMA DecodedConcat ==
  ASSUME NEW C, NEW f, NEW s \in Seq(C), NEW t \in Seq(C)
  PROVE  Decoded(f, s \o t) = Decoded(Decoded(f, s), t)
  <1> DEFINE S == {x \in Seq(C) : Decoded(f, s \o x) = Decoded(Decoded(f, s), x)}
  <1>1. << >> \in S
    BY DecodedEmpty, ConcatEmptySeq, EmptySeq
  <1>2. ASSUME NEW x \in Seq(C), NEW c \in C, x \in S PROVE Append(x, c) \in S
    <2>1. s \o Append(x, c) = Append(s \o x, c)
      <3>1. Append(x, c) = x \o <<c>> /\ <<c>> \in Seq(C)
        BY AppendIsConcat
      <3>2. s \o x \in Seq(C)
        BY ConcatProperties
      <3>3. Append(s \o x, c) = (s \o x) \o <<c>>
        BY <3>2, AppendIsConcat
      <3> QED
        BY <3>1, <3>3, ConcatAssociative
    <2>2. Decoded(f, Append(s \o x, c)) = Put(Decoded(f, s \o x), c)
      <3> DEFINE u == s \o x
      <3>1. u \in Seq(C)
        BY ConcatProperties
      <3> HIDE DEF u
      <3>2. Decoded(f, Append(u, c)) = Put(Decoded(f, u), c)
        BY <3>1, DecodedAppend
      <3> QED
        BY <3>2 DEF u
    <2>3. Decoded(Decoded(f, s), Append(x, c)) = Put(Decoded(Decoded(f, s), x), c)
      BY DecodedAppend
    <2>4. Append(x, c) \in Seq(C)
      BY AppendProperties
    <2> QED
      BY <1>2, <2>1, <2>2, <2>3, <2>4
  <1> HIDE DEF S
  <1>3. Seq(C) \subseteq S
    BY <1>1, <1>2, SeqInd
  <1> QED
    BY <1>3 DEF S

LEMMA DecodedOne ==
  ASSUME NEW f, NEW a PROVE Decoded(f, <<a>>) = Put(f, a)
  <1> DEFINE e == << >>
  <1>1. e \in Seq({a}) /\ a \in {a}
    BY EmptySeq
  <1>2. Append(e, a) = <<a>> /\ Decoded(f, e) = f
    BY DecodedEmpty
  <1> HIDE DEF e
  <1>3. Decoded(f, Append(e, a)) = Put(Decoded(f, e), a)
    BY <1>1, DecodedAppend
  <1> QED
    BY <1>2, <1>3

LEMMA DecodedTwo ==
  ASSUME NEW f, NEW a, NEW b PROVE Decoded(f, <<a, b>>) = Put(Put(f, a), b)
  <1> DEFINE e == <<a>>
  <1>1. e \in Seq({a, b}) /\ b \in {a, b}
    OBVIOUS
  <1>2. Append(e, b) = <<a, b>>
    BY AppendPair
  <1>3. Decoded(f, e) = Put(f, a)
    BY DecodedOne, Zenon
  <1> HIDE DEF e
  <1>4. Decoded(f, Append(e, b)) = Put(Decoded(f, e), b)
    BY <1>1, DecodedAppend
  <1> QED
    BY <1>2, <1>3, <1>4

\* The file while it is written.
Files == [file : Seq(Chars), prev : Chars \cup {NoChar}]

LEMMA FrontOfAppend ==
  ASSUME NEW C, NEW s \in Seq(C), NEW c \in C PROVE Front(Append(s, c)) = s
  <1> DEFINE t == Append(s, c)
  <1>1. /\ Len(t) = Len(s) + 1 /\ Len(s) \in Nat
        /\ \A i \in 1 .. Len(s) : t[i] = s[i] /\ s[i] \in C
    BY AppendProperties, LenProperties
  <1> HIDE DEF t
  <1>2. Front(t) = SubSeq(t, 1, Len(s))
    BY <1>1 DEF Front
  <1>3. /\ SubSeq(t, 1, Len(s)) \in Seq(C) /\ Len(SubSeq(t, 1, Len(s))) = Len(s)
        /\ \A i \in 1 .. Len(s) : SubSeq(t, 1, Len(s))[i] = t[i]
    BY <1>1, SubSeqProperties
  <1> QED
    BY <1>1, <1>2, <1>3, SeqEqual DEF t

LEMMA PutType ==
  ASSUME NEW f \in Files, NEW c \in Chars PROVE Put(f, c) \in Files
  <1>1. Append(f.file, c) \in Seq(Chars)
    BY AppendProperties DEF Files
  <1>2. Front(f.file) \in Seq(Chars)
    <2>1. \A i \in 1 .. Len(f.file) - 1 : i \in 1 .. Len(f.file) /\ f.file[i] \in Chars
      BY LenProperties DEF Files
    <2>2. Len(f.file) \in Nat
      BY LenProperties DEF Files
    <2> QED
      BY <2>1, <2>2, SubSeqProperties DEF Front
  <1>3. Append(Front(f.file), c) \in Seq(Chars)
    BY <1>2, AppendProperties
  <1> QED
    BY <1>1, <1>3 DEF Put, Files

LEMMA DecodedType ==
  ASSUME NEW f \in Files, NEW s \in Seq(Chars) PROVE Decoded(f, s) \in Files
  <1> DEFINE S == {x \in Seq(Chars) : Decoded(f, x) \in Files}
  <1>1. << >> \in S
    BY DecodedEmpty, EmptySeq
  <1>2. ASSUME NEW x \in Seq(Chars), NEW c \in Chars, x \in S PROVE Append(x, c) \in S
    BY <1>2, DecodedAppend, PutType, AppendProperties
  <1> HIDE DEF S
  <1>3. Seq(Chars) \subseteq S
    BY <1>1, <1>2, SeqInd
  <1> QED
    BY <1>3 DEF S

-----------------------------------------------------------------------------
(* The encoding.                                                           *)

LEMMA CodeType == ASSUME NEW c \in Chars PROVE Code(c) \in Seq(Chars)
  <1>1. CR \in Chars /\ LF \in Chars /\ NUL \in Chars
    BY BufAssumption
  <1>2. <<CR, LF>> \in Seq(Chars) /\ <<CR, NUL>> \in Seq(Chars) /\ <<c>> \in Seq(Chars)
    BY <1>1
  <1> QED
    BY <1>2 DEF Code

\* The characters' codes, one by one.
Codes(s) == [i \in DOMAIN s |-> Code(s[i])]

LEMMA CodesType ==
  ASSUME NEW s \in Seq(Chars)
  PROVE  Codes(s) \in Seq(Seq(Chars)) /\ Len(Codes(s)) = Len(s)
  <1>1. Len(s) \in Nat /\ DOMAIN s = 1 .. Len(s) /\ \A i \in 1 .. Len(s) : s[i] \in Chars
    BY LenProperties
  <1>2. Codes(s) \in [1 .. Len(s) -> Seq(Chars)]
    BY <1>1, CodeType DEF Codes
  <1>3. Codes(s) \in Seq(Seq(Chars))
    BY <1>1, <1>2, SeqDef
  <1> QED
    BY <1>1, <1>2, <1>3, LenProperties

LEMMA EncodingType ==
  ASSUME NEW s \in Seq(Chars) PROVE Encoding(s) \in Seq(Chars)
  BY CodesType, FlattenType DEF Encoding, Codes

LEMMA EncodingEmpty == Encoding(<< >>) = << >>
  <1>1. << >> \in Seq(Chars) /\ Len(<< >>) = 0
    BY EmptySeq
  <1>2. Codes(<< >>) = << >>
    BY <1>1, CodesType, EmptySeq
  <1> QED
    BY <1>2, FlattenEmpty DEF Encoding, Codes

LEMMA EncodingAppend ==
  ASSUME NEW s \in Seq(Chars), NEW c \in Chars
  PROVE  Encoding(Append(s, c)) = Encoding(s) \o Code(c)
  <1> DEFINE t == Append(s, c)
  <1>1. /\ t \in Seq(Chars) /\ Len(t) = Len(s) + 1 /\ Len(s) \in Nat
        /\ \A i \in 1 .. Len(s) : t[i] = s[i]
        /\ t[Len(s) + 1] = c
    BY AppendProperties, LenProperties
  <1>2. /\ DOMAIN t = 1 .. Len(s) + 1 /\ DOMAIN s = 1 .. Len(s)
    BY <1>1, LenProperties
  <1> HIDE DEF t
  <1>3. Codes(t) = Append(Codes(s), Code(c))
    <2> DEFINE u == Append(Codes(s), Code(c))
    <2>1. /\ Codes(s) \in Seq(Seq(Chars)) /\ Len(Codes(s)) = Len(s)
          /\ Codes(t) \in Seq(Seq(Chars)) /\ Len(Codes(t)) = Len(s) + 1
          /\ Code(c) \in Seq(Chars)
      BY <1>1, CodesType, CodeType
    <2>2. /\ u \in Seq(Seq(Chars)) /\ Len(u) = Len(s) + 1
          /\ \A i \in 1 .. Len(s) : u[i] = Codes(s)[i]
          /\ u[Len(s) + 1] = Code(c)
      BY <2>1, AppendProperties
    <2> HIDE DEF u
    <2>3. ASSUME NEW i \in 1 .. Len(s) + 1 PROVE Codes(t)[i] = u[i]
      <3>1. CASE i \in 1 .. Len(s)
        BY <1>1, <1>2, <2>2, <3>1 DEF Codes
      <3>2. CASE i = Len(s) + 1
        BY <1>1, <1>2, <2>2, <3>2 DEF Codes
      <3> QED
        BY <1>1, <3>1, <3>2
    <2>4. Codes(t) = u
      BY <2>1, <2>2, <2>3, SeqEqual
    <2> QED
      BY <2>4 DEF u
  <1>4. Codes(s) \in Seq(Seq(Chars)) /\ Code(c) \in Seq(Chars)
    BY CodesType, CodeType
  <1>5. FlattenSeq(Append(Codes(s), Code(c))) = FlattenSeq(Codes(s)) \o Code(c)
    BY <1>4, FlattenAppend
  <1> QED
    BY <1>3, <1>5 DEF t, Encoding, Codes

LEMMA EncodingConcat ==
  ASSUME NEW s \in Seq(Chars), NEW t \in Seq(Chars)
  PROVE  Encoding(s \o t) = Encoding(s) \o Encoding(t)
  <1> DEFINE S == {x \in Seq(Chars) : Encoding(s \o x) = Encoding(s) \o Encoding(x)}
  <1>0. Encoding(s) \in Seq(Chars)
    BY EncodingType
  <1>1. << >> \in S
    BY <1>0, EncodingEmpty, ConcatEmptySeq, EmptySeq
  <1>2. ASSUME NEW x \in Seq(Chars), NEW c \in Chars, x \in S
        PROVE  Append(x, c) \in S
    <2> DEFINE u == s \o x
    <2>1. u \in Seq(Chars) /\ Append(x, c) \in Seq(Chars) /\ <<c>> \in Seq(Chars)
      BY ConcatProperties, AppendProperties
    <2>2. s \o Append(x, c) = Append(u, c)
      <3>1. Append(x, c) = x \o <<c>> /\ Append(u, c) = u \o <<c>>
        BY <2>1, AppendIsConcat
      <3> QED
        BY <2>1, <3>1, ConcatAssociative
    <2>3. Encoding(u) = Encoding(s) \o Encoding(x)
      BY <1>2
    <2> HIDE DEF u
    <2>4. Encoding(Append(u, c)) = Encoding(u) \o Code(c)
      BY <2>1, EncodingAppend
    <2>5. Encoding(Append(x, c)) = Encoding(x) \o Code(c)
      BY EncodingAppend
    <2>6. Encoding(x) \in Seq(Chars) /\ Code(c) \in Seq(Chars)
      BY EncodingType, CodeType
    <2>7. (Encoding(s) \o Encoding(x)) \o Code(c) = Encoding(s) \o (Encoding(x) \o Code(c))
      <3> DEFINE e == Encoding(s)
                 f == Encoding(x)
                 k == Code(c)
      <3>1. e \in Seq(Chars) /\ f \in Seq(Chars) /\ k \in Seq(Chars)
        BY <1>0, <2>6
      <3> HIDE DEF e, f, k, S
      <3>2. (e \o f) \o k = e \o (f \o k)
        BY <3>1, ConcatAssociative, SMTT(30)
      <3> QED
        BY <3>2 DEF e, f, k
    <2> QED
      BY <2>1, <2>2, <2>3, <2>4, <2>5, <2>7
  <1> HIDE DEF S
  <1>3. Seq(Chars) \subseteq S
    BY <1>1, <1>2, SeqInd
  <1> QED
    BY <1>3 DEF S

\* The encoding of a file begins with the code of its first character.
LEMMA EncodingFirst ==
  ASSUME NEW s \in Seq(Chars), s # << >>
  PROVE  Encoding(s) = Code(Head(s)) \o Encoding(Tail(s))
  <1>1. Head(s) \in Chars /\ Tail(s) \in Seq(Chars) /\ << >> \in Seq(Chars)
    BY HeadTailProperties, EmptySeq
  <1>2. <<Head(s)>> \in Seq(Chars) /\ s = <<Head(s)>> \o Tail(s)
    BY <1>1
  <1>3. Encoding(<<Head(s)>>) = Code(Head(s))
    <2>1. <<Head(s)>> = Append(<< >>, Head(s))
      BY <1>1
    <2>2. Encoding(Append(<< >>, Head(s))) = Encoding(<< >>) \o Code(Head(s))
      BY <1>1, EncodingAppend
    <2>3. << >> \o Code(Head(s)) = Code(Head(s))
      BY <1>1, CodeType, ConcatEmptySeq
    <2> QED
      BY <2>1, <2>2, <2>3, EncodingEmpty
  <1> QED
    BY <1>1, <1>2, <1>3, EncodingConcat

\* The receiver's conversion takes the sender's back: decoding the encoding of
\* s appends s.
LEMMA DecodesEncoding ==
  ASSUME NEW s \in Seq(Chars)
  PROVE  LET d == Decoded([file |-> << >>, prev |-> NoChar], Encoding(s))
         IN  d.file = s /\ d.prev # CR
  <1> DEFINE Empty == [file |-> << >>, prev |-> NoChar]
             S == {x \in Seq(Chars) : /\ Decoded(Empty, Encoding(x)).file = x
                                      /\ Decoded(Empty, Encoding(x)).prev # CR}
  <1>0. Empty \in Files /\ Empty.file = << >> /\ Empty.prev = NoChar /\ NoChar # CR
    BY EmptySeq, BufAssumption DEF Files
  <1> HIDE DEF Empty
  <1>1. << >> \in S
    BY <1>0, EncodingEmpty, DecodedEmpty, EmptySeq
  <1>2. ASSUME NEW x \in Seq(Chars), NEW c \in Chars, x \in S
        PROVE  Append(x, c) \in S
    <2> DEFINE d == Decoded(Empty, Encoding(x))
    <2>1. Encoding(x) \in Seq(Chars) /\ Code(c) \in Seq(Chars)
      BY EncodingType, CodeType
    <2>2. d \in Files /\ d.file = x /\ d.prev # CR
      BY <1>0, <1>2, <2>1, DecodedType
    <2>3. Decoded(Empty, Encoding(Append(x, c))) = Decoded(d, Code(c))
      <3>1. Encoding(Append(x, c)) = Encoding(x) \o Code(c)
        BY EncodingAppend
      <3>2. Decoded(Empty, Encoding(x) \o Code(c)) = Decoded(d, Code(c))
        <4> DEFINE e == Encoding(x)
                   k == Code(c)
        <4>1. e \in Seq(Chars) /\ k \in Seq(Chars)
          BY <2>1
        <4> HIDE DEF e, k
        <4>2. Decoded(Empty, e \o k) = Decoded(Decoded(Empty, e), k)
          BY <4>1, DecodedConcat
        <4> QED
          BY <4>2 DEF e, k
      <3> QED
        BY <3>1, <3>2
    <2> HIDE DEF d
    <2>4. Append(x, c) \in Seq(Chars)
      BY AppendProperties
    <2>5. Decoded(d, Code(c)).file = Append(x, c) /\ Decoded(d, Code(c)).prev # CR
      <3>0. << >> \in Seq(Chars) /\ CR \in Chars /\ LF \in Chars /\ NUL \in Chars
        BY EmptySeq, BufAssumption
      <3>1. \A a \in Chars : Decoded(d, <<a>>) = Put(d, a)
        BY DecodedOne
      <3>2. \A a, b \in Chars : Decoded(d, <<a, b>>) = Put(Put(d, a), b)
        <4> TAKE a, b \in Chars
        <4> QED
          BY DecodedTwo
      <3>3. /\ Put(d, CR) = [file |-> Append(x, CR), prev |-> CR]
            /\ c # CR => Put(d, c) = [file |-> Append(x, c), prev |-> c]
        BY <2>2, BufAssumption DEF Put
      <3>4. Front(Append(x, CR)) = x
        BY <3>0, FrontOfAppend
      <3>5. CASE c = LF
        <4>1. Put(Put(d, CR), LF) = [file |-> Append(x, LF), prev |-> LF]
          BY <3>3, <3>4, BufAssumption DEF Put
        <4> QED
          BY <3>0, <3>2, <3>5, <4>1, BufAssumption DEF Code
      <3>6. CASE c = CR
        <4>1. Put(Put(d, CR), NUL) = [file |-> Append(x, CR), prev |-> NUL]
          BY <3>3, BufAssumption DEF Put
        <4> QED
          BY <3>0, <3>2, <3>6, <4>1, BufAssumption DEF Code
      <3>7. CASE c # LF /\ c # CR
        BY <3>1, <3>3, <3>7 DEF Code
      <3> QED
        BY <3>5, <3>6, <3>7
    <2> QED
      BY <2>3, <2>4, <2>5
  <1> HIDE DEF S
  <1>3. Seq(Chars) \subseteq S
    BY <1>1, <1>2, SeqInd
  <1> QED
    BY <1>3 DEF S, Empty

-----------------------------------------------------------------------------
(* read_ahead().                                                           *)

\* The second half of an expansion that did not fit into the block before.
Owed(l) == IF l.newline THEN <<IF l.prev = LF THEN LF ELSE NUL>> ELSE << >>

\* What is still to go over the wire, from the sender's file.
Left(l) == IF convert THEN Owed(l) \o Encoding(l.rest) ELSE l.rest

Drained(l) == l.rest = << >> /\ ~l.newline

\* What is known of the conversion's variables.
Lines == [out : Seq(Chars), rest : Seq(Chars), newline : BOOLEAN,
          prev : {NoChar, CR, LF}]

\* The block so far and what is to follow it.
Whole(l) == l.out \o (Owed(l) \o Encoding(l.rest))

LEMMA OwedType ==
  ASSUME NEW l \in Lines PROVE Owed(l) \in Seq(Chars)
  BY EmptySeq, BufAssumption DEF Owed, Lines

\* One character later block and rest are the same when put together.
LEMMA TurnKeeps ==
  ASSUME NEW l \in Lines
  PROVE  /\ Turn(l) \in Lines
         /\ Whole(Turn(l)) = Whole(l)
         /\ \/ Len(Turn(l).out) = Len(l.out) + 1
            \/ Drained(l) /\ Turn(l) = l
  <1> DEFINE x == IF l.prev = LF THEN LF ELSE NUL
             h == Head(l.rest)
             t == Tail(l.rest)
             E == Encoding(l.rest)
             T == Encoding(t)
  <1>0. /\ CR \in Chars /\ LF \in Chars /\ NUL \in Chars
        /\ l.out \in Seq(Chars) /\ l.rest \in Seq(Chars) /\ l.newline \in BOOLEAN
        /\ l.prev \in {NoChar, CR, LF}
        /\ << >> \in Seq(Chars)
    BY BufAssumption, EmptySeq DEF Lines
  <1>1. E \in Seq(Chars)
    BY <1>0, EncodingType
  <1>2. CASE l.newline
    <2>1. Turn(l) = [l EXCEPT !.out = Append(@, x), !.newline = FALSE]
      BY <1>2 DEF Turn
    <2>2. /\ x \in Chars
          /\ Append(l.out, x) \in Seq(Chars)
          /\ Len(Append(l.out, x)) = Len(l.out) + 1
          /\ Append(l.out, x) = l.out \o <<x>>
          /\ <<x>> \in Seq(Chars)
      BY <1>0, AppendProperties, AppendIsConcat
    <2>3. /\ Turn(l) \in Lines /\ Turn(l).out = Append(l.out, x)
          /\ Turn(l).rest = l.rest /\ Owed(Turn(l)) = << >> /\ Owed(l) = <<x>>
      BY <1>0, <1>2, <2>1, <2>2 DEF Lines, Owed
    <2>4. Whole(l) = l.out \o (<<x>> \o E)
      BY <2>3 DEF Whole
    <2>5. Whole(Turn(l)) = (l.out \o <<x>>) \o (<< >> \o E)
      BY <2>2, <2>3 DEF Whole
    <2> HIDE DEF x, E
    <2>6. << >> \o E = E
      BY <1>1, ConcatEmptySeq
    <2>7. (l.out \o <<x>>) \o E = l.out \o (<<x>> \o E)
      <3> DEFINE o == l.out
                 c == <<x>>
      <3>1. o \in Seq(Chars) /\ c \in Seq(Chars)
        BY <1>0, <2>2
      <3> HIDE DEF o, c
      <3>2. (o \o c) \o E = o \o (c \o E)
        BY <1>1, <3>1, ConcatAssociative
      <3> QED
        BY <3>2 DEF o, c
    <2> QED
      BY <2>2, <2>3, <2>4, <2>5, <2>6, <2>7
  <1>3. CASE ~l.newline /\ l.rest = << >>
    BY <1>3 DEF Turn, Drained
  <1>4. CASE ~l.newline /\ l.rest # << >>
    <2>1. /\ h \in Chars /\ t \in Seq(Chars) /\ Owed(l) = << >>
          /\ E = Code(h) \o T
      BY <1>0, <1>4, HeadTailProperties, EncodingFirst DEF Owed
    <2>2. T \in Seq(Chars) /\ Code(h) \in Seq(Chars)
      BY <2>1, EncodingType, CodeType
    <2>3. Whole(l) = l.out \o (<< >> \o E)
      BY <2>1 DEF Whole
    <2> HIDE DEF E
    <2>4. Whole(l) = l.out \o (Code(h) \o T)
      BY <1>1, <2>1, <2>3, ConcatEmptySeq
    <2> HIDE DEF T
    <2>5. CASE h \in {LF, CR}
      <3> DEFINE y == IF h = LF THEN LF ELSE NUL
      <3>1. Turn(l) = [l EXCEPT !.out = Append(@, CR), !.newline = TRUE,
                                !.prev = h, !.rest = t]
        BY <1>4, <2>5 DEF Turn
      <3>2. /\ Append(l.out, CR) \in Seq(Chars)
            /\ Len(Append(l.out, CR)) = Len(l.out) + 1
            /\ Append(l.out, CR) = l.out \o <<CR>>
            /\ <<CR>> \in Seq(Chars) /\ y \in Chars /\ <<y>> \in Seq(Chars)
        BY <1>0, AppendProperties, AppendIsConcat
      <3>3. /\ Turn(l) \in Lines /\ Turn(l).out = Append(l.out, CR)
            /\ Turn(l).rest = t /\ Owed(Turn(l)) = <<y>>
        BY <1>0, <2>1, <2>5, <3>1, <3>2 DEF Lines, Owed
      <3>4. Code(h) = <<CR>> \o <<y>>
        <4>1. Code(h) = <<CR, y>>
          BY <2>5, BufAssumption DEF Code
        <4>2. Append(<<CR>>, y) = <<CR, y>>
          BY AppendPair
        <4> HIDE DEF y
        <4>3. Append(<<CR>>, y) = <<CR>> \o <<y>>
          BY <3>2, AppendIsConcat
        <4> QED
          BY <4>1, <4>2, <4>3
      <3>5. Whole(Turn(l)) = (l.out \o <<CR>>) \o (<<y>> \o T)
        BY <3>2, <3>3 DEF Whole, T
      <3> DEFINE c == <<CR>>
                 z == <<y>>
      <3>6. c \in Seq(Chars) /\ z \in Seq(Chars)
        BY <3>2
      <3>7. Whole(l) = l.out \o ((c \o z) \o T) /\ Whole(Turn(l)) = (l.out \o c) \o (z \o T)
        BY <2>4, <3>4, <3>5
      <3> HIDE DEF c, z
      <3>8. z \o T \in Seq(Chars)
        BY <2>2, <3>6, ConcatProperties
      <3>9. (l.out \o c) \o (z \o T) = l.out \o (c \o (z \o T))
        <4> DEFINE o == l.out
                   u == z \o T
        <4>1. o \in Seq(Chars) /\ u \in Seq(Chars)
          BY <1>0, <3>8
        <4> HIDE DEF o, u
        <4>2. (o \o c) \o u = o \o (c \o u)
          BY <3>6, <4>1, ConcatAssociative
        <4> QED
          BY <4>2 DEF o, u
      <3>10. (c \o z) \o T = c \o (z \o T)
        BY <2>2, <3>6, ConcatAssociative
      <3> QED
        BY <3>2, <3>3, <3>7, <3>9, <3>10
    <2>6. CASE h \notin {LF, CR}
      <3>1. Turn(l) = [l EXCEPT !.out = Append(@, h), !.rest = t]
        BY <1>4, <2>6 DEF Turn
      <3> HIDE DEF h
      <3>2. /\ Append(l.out, h) \in Seq(Chars)
            /\ Len(Append(l.out, h)) = Len(l.out) + 1
            /\ Append(l.out, h) = l.out \o <<h>>
            /\ <<h>> \in Seq(Chars)
        BY <1>0, <2>1, AppendProperties, AppendIsConcat
      <3>3. /\ Turn(l) \in Lines /\ Turn(l).out = Append(l.out, h)
            /\ Turn(l).rest = t /\ Owed(Turn(l)) = << >>
        BY <1>0, <1>4, <2>1, <3>1, <3>2 DEF Lines, Owed
      <3>4. Code(h) = <<h>>
        BY <2>6 DEF Code
      <3>5. Whole(Turn(l)) = (l.out \o <<h>>) \o (<< >> \o T)
        BY <3>2, <3>3 DEF Whole, T
      <3>6. << >> \o T = T
        BY <2>2, ConcatEmptySeq
      <3>7. (l.out \o <<h>>) \o T = l.out \o (<<h>> \o T)
        <4> DEFINE o == l.out
                   c == <<h>>
        <4>1. o \in Seq(Chars) /\ c \in Seq(Chars)
          BY <1>0, <3>2
        <4> HIDE DEF o, c
        <4>2. (o \o c) \o T = o \o (c \o T)
          BY <2>2, <4>1, ConcatAssociative
        <4> QED
          BY <4>2 DEF o, c
      <3> QED
        BY <2>4, <3>2, <3>3, <3>4, <3>5, <3>6, <3>7
    <2> QED
      BY <2>5, <2>6
  <1> QED
    BY <1>0, <1>2, <1>3, <1>4

\* The loop is defined for every number of turns.
LEMMA TurnsExist ==
  ASSUME NEW l, NEW n \in Nat
  PROVE  \E g : g = [i \in 0 .. n |-> IF i = 0 THEN l ELSE Turn(g[i - 1])]
  <1> DEFINE S == {k \in Nat : \E g : g = [i \in 0 .. k |->
                      IF i = 0 THEN l ELSE Turn(g[i - 1])]}
  <1>1. 0 \in S
    <2> DEFINE g == [i \in 0 .. 0 |-> l]
    <2>1. g = [i \in 0 .. 0 |-> IF i = 0 THEN l ELSE Turn(g[i - 1])]
      OBVIOUS
    <2> QED
      BY <2>1
  <1>2. ASSUME NEW k \in Nat, k \in S PROVE k + 1 \in S
    <2>1. PICK g : g = [i \in 0 .. k |-> IF i = 0 THEN l ELSE Turn(g[i - 1])]
      BY <1>2
    <2> DEFINE h == [i \in 0 .. k + 1 |-> IF i = k + 1 THEN Turn(g[k]) ELSE g[i]]
    <2>2. ASSUME NEW i \in 0 .. k + 1
          PROVE  h[i] = IF i = 0 THEN l ELSE Turn(h[i - 1])
      BY <2>1
    <2>3. h = [i \in 0 .. k + 1 |-> IF i = 0 THEN l ELSE Turn(h[i - 1])]
      BY <2>2
    <2> HIDE DEF h
    <2> QED
      BY <2>3
  <1> HIDE DEF S
  <1>3. n \in S
    BY <1>1, <1>2, NatInd
  <1> QED
    BY <1>3 DEF S

\* The block is filled, or the file is at its end; nothing is lost or added.
LEMMA ConvertedKeeps ==
  ASSUME NEW l \in Lines, l.out = << >>
  PROVE  /\ Converted(l) \in Lines
         /\ Whole(Converted(l)) = Whole(l)
         /\ Len(Converted(l).out) \in 0 .. SegSize
         /\ Len(Converted(l).out) < SegSize => Drained(Converted(l))
  <1>0. SegSize \in Nat /\ Len(l.out) = 0
    BY BufAssumption, EmptySeq
  <1> DEFINE g == CHOOSE g : g = [i \in 0 .. SegSize |->
                                  IF i = 0 THEN l ELSE Turn(g[i - 1])]
  <1>1. g = [i \in 0 .. SegSize |-> IF i = 0 THEN l ELSE Turn(g[i - 1])]
    BY <1>0, TurnsExist
  <1>2. Converted(l) = g[SegSize]
    BY DEF Converted
  <1> HIDE DEF g
  <1>3. /\ g[0] = l
        /\ \A i \in 1 .. SegSize : g[i] = Turn(g[i - 1])
    BY <1>0, <1>1
  <1> DEFINE Good(k) == /\ g[k] \in Lines
                        /\ Whole(g[k]) = Whole(l)
                        /\ Len(g[k].out) \in 0 .. k
                        /\ Len(g[k].out) = k \/ Drained(g[k])
             S == {k \in Nat : k <= SegSize => Good(k)}
  <1>4. 0 \in S
    BY <1>0, <1>3
  <1>5. ASSUME NEW k \in Nat, k \in S PROVE k + 1 \in S
    <2> SUFFICES ASSUME k + 1 <= SegSize PROVE Good(k + 1)
      OBVIOUS
    <2>1. Good(k)
      BY <1>0, <1>5
    <2>2. g[k + 1] = Turn(g[k])
      <3>1. k + 1 \in 1 .. SegSize /\ (k + 1) - 1 = k
        BY <1>0
      <3> QED
        BY <1>3, <3>1
    <2> DEFINE m == g[k]
               t == g[k + 1]
    <2>3. /\ m \in Lines /\ Whole(m) = Whole(l) /\ Len(m.out) \in 0 .. k
          /\ Len(m.out) = k \/ Drained(m)
          /\ t = Turn(m)
      BY <2>1, <2>2
    <2> SUFFICES /\ t \in Lines /\ Whole(t) = Whole(l) /\ Len(t.out) \in 0 .. k + 1
                 /\ Len(t.out) = k + 1 \/ Drained(t)
      OBVIOUS
    <2> HIDE DEF m, t
    <2>4. /\ t \in Lines /\ Whole(t) = Whole(m)
          /\ Len(t.out) = Len(m.out) + 1 \/ (Drained(m) /\ t = m)
      BY <2>3, TurnKeeps
    <2>5. CASE Drained(m)
      <3>1. Turn(m) = m
        BY <2>5 DEF Turn, Drained
      <3> QED
        BY <2>3, <2>5, <3>1
    <2>6. CASE ~Drained(m)
      BY <2>3, <2>4, <2>6
    <2> QED
      BY <2>5, <2>6
  <1> HIDE DEF S
  <1>6. SegSize \in S
    BY <1>0, <1>4, <1>5, NatInd
  <1>7. Good(SegSize)
    BY <1>0, <1>6 DEF S
  <1> QED
    BY <1>0, <1>2, <1>7

\* read() of up to SEGSIZE characters cuts the rest of the file in two.
LEMMA RawKeeps ==
  ASSUME NEW l \in Lines
  PROVE  /\ Raw(l) \in Lines /\ Raw(l).newline = l.newline
         /\ Raw(l).out \o Raw(l).rest = l.rest
         /\ Len(Raw(l).out) \in 0 .. SegSize
         /\ Len(Raw(l).out) < SegSize => Raw(l).rest = << >>
  <1> DEFINE q == l.rest
             n == IF Len(q) < SegSize THEN Len(q) ELSE SegSize
  <1>1. /\ q \in Seq(Chars) /\ Len(q) \in Nat /\ SegSize \in Nat
        /\ \A i \in 1 .. Len(q) : q[i] \in Chars
    BY BufAssumption, LenProperties DEF Lines
  <1>2. Raw(l) = [l EXCEPT !.out = SubSeq(q, 1, n), !.rest = SubSeq(q, n + 1, Len(q))]
    BY DEF Raw
  <1>3. n \in 0 .. Len(q) /\ n \in 0 .. SegSize /\ (n < SegSize => n = Len(q))
    BY <1>1
  <1>10. /\ Raw(l).out = SubSeq(q, 1, n) /\ Raw(l).rest = SubSeq(q, n + 1, Len(q))
         /\ Raw(l).newline = l.newline /\ Raw(l).prev = l.prev
    BY <1>2 DEF Lines
  <1> HIDE DEF q, n
  <1>4. \A i \in 1 .. n : i \in 1 .. Len(q)
    BY <1>1, <1>3
  <1>5. \A i \in n + 1 .. Len(q) : i \in 1 .. Len(q)
    BY <1>1, <1>3
  <1>6. SubSeq(q, 1, n) \in Seq(Chars) /\ Len(SubSeq(q, 1, n)) = n
    <2>1. 1 \in Int /\ n \in Int /\ \A i \in 1 .. n : q[i] \in Chars
      BY <1>1, <1>3, <1>4
    <2>2. SubSeq(q, 1, n) \in Seq(Chars)
      BY <2>1, SubSeqProperties
    <2>3. Len(SubSeq(q, 1, n)) = IF 1 <= n THEN n - 1 + 1 ELSE 0
      BY <2>1, SubSeqProperties
    <2> QED
      BY <1>3, <2>2, <2>3
  <1>7. SubSeq(q, n + 1, Len(q)) \in Seq(Chars)
    <2>1. n + 1 \in Int /\ Len(q) \in Int /\ \A i \in n + 1 .. Len(q) : q[i] \in Chars
      BY <1>1, <1>3, <1>5
    <2> QED
      BY <2>1, SubSeqProperties
  <1>8. SubSeq(q, 1, n) \o SubSeq(q, n + 1, Len(q)) = q
    <2>1. /\ 1 \in 1 .. Len(q) + 1 /\ n \in 1 - 1 .. Len(q) /\ Len(q) \in n .. Len(q)
      BY <1>1, <1>3
    <2>2. SubSeq(q, 1, n) \o SubSeq(q, n + 1, Len(q)) = SubSeq(q, 1, Len(q))
      BY <1>1, <2>1, ConcatAdjacentSubSeq
    <2>3. SubSeq(q, 1, Len(q)) = q
      BY <1>1, SubSeqFull
    <2> QED
      BY <2>2, <2>3
  <1>9. n = Len(q) => SubSeq(q, n + 1, Len(q)) = << >>
    BY <1>1, SubSeqEmpty
  <1>11. Raw(l) \in Lines
    <2> DEFINE a == SubSeq(q, 1, n)
               b == SubSeq(q, n + 1, Len(q))
    <2>1. Raw(l) = [l EXCEPT !.out = a, !.rest = b]
      BY <1>2 DEF q, n
    <2> HIDE DEF a, b
    <2>2. a \in Seq(Chars) /\ b \in Seq(Chars)
      BY <1>6, <1>7 DEF a, b
    <2> QED
      BY <2>1, <2>2 DEF Lines
  <1> QED
    BY <1>3, <1>6, <1>8, <1>9, <1>10, <1>11 DEF q

\* The sender's variables, as the type invariant has them.
Senders == [bfs : [Buffers -> BufferType], next : Buffers, cur : Buffers,
            newline : BOOLEAN, prev : {NoChar, CR, LF}, rest : Seq(Chars)]

\* The block that read_ahead() makes.
Block(x) == IF convert THEN Converted(Resumed(x)) ELSE Raw(Resumed(x))

LEMMA BlockKeeps ==
  ASSUME convert \in BOOLEAN, NEW x \in Senders, ~convert => ~x.newline
  PROVE  /\ Block(x) \in Lines
         /\ ~convert => ~Block(x).newline
         /\ Block(x).out \o Left(Block(x)) = Left(x)
         /\ Len(Block(x).out) \in 0 .. SegSize
         /\ Len(Block(x).out) < SegSize => Drained(Block(x))
  <1> DEFINE l == Resumed(x)
  <1>1. /\ l \in Lines /\ l.out = << >> /\ l.rest = x.rest /\ l.newline = x.newline
        /\ l.prev = x.prev
    BY EmptySeq DEF Resumed, Lines, Senders
  <1>2. Owed(l) = Owed(x)
    BY <1>1 DEF Owed
  <1> HIDE DEF l
  <1>3. CASE convert
    <2>1. Block(x) = Converted(l)
      BY <1>3 DEF Block, l
    <2>2. Owed(l) \o Encoding(l.rest) \in Seq(Chars)
      <3>1. Owed(l) \in Seq(Chars) /\ Encoding(l.rest) \in Seq(Chars)
        BY <1>1, OwedType, EncodingType DEF Lines
      <3> QED
        BY <3>1, ConcatProperties
    <2>3. Whole(l) = Left(x)
      <3>1. Left(x) = Owed(l) \o Encoding(l.rest)
        BY <1>1, <1>2, <1>3 DEF Left
      <3> DEFINE u == Owed(l) \o Encoding(l.rest)
      <3> HIDE DEF u
      <3>2. << >> \o u = u
        BY <2>2, ConcatEmptySeq DEF u
      <3> QED
        BY <1>1, <3>1, <3>2 DEF Whole, u
    <2>4. Whole(Converted(l)) = Converted(l).out \o Left(Converted(l))
      BY <1>3 DEF Whole, Left
    <2> QED
      BY <1>1, <1>3, <2>1, <2>3, <2>4, ConvertedKeeps
  <1>4. CASE ~convert
    <2>1. Block(x) = Raw(l) /\ Left(Raw(l)) = Raw(l).rest /\ Left(x) = l.rest
      BY <1>1, <1>4 DEF Block, Left, l
    <2> QED
      BY <1>1, <1>4, <2>1, RawKeeps DEF Drained
  <1> QED
    BY <1>3, <1>4

\* read_ahead() fills the next buffer with the next block, if that is free.
LEMMA ReadAheadEffect ==
  ASSUME NEW x \in Senders
  PROVE  /\ x.bfs[x.next].counter # BF_FREE => ReadAhead(x) = x
         /\ x.bfs[x.next].counter = BF_FREE =>
              ReadAhead(x) = [bfs |-> [x.bfs EXCEPT ![x.next] =
                                         [counter |-> Len(Block(x).out),
                                          data |-> Block(x).out]],
                              next |-> Other(x.next), cur |-> x.cur,
                              newline |-> Block(x).newline, prev |-> Block(x).prev,
                              rest |-> Block(x).rest]
  <1>1. x.bfs[x.next].counter # BF_FREE => ReadAhead(x) = x
    BY DEF ReadAhead, ToFill
  <1>2. ASSUME x.bfs[x.next].counter = BF_FREE, NEW l, l = Block(x)
        PROVE  ReadAhead(x) = [bfs |-> [x.bfs EXCEPT ![x.next] =
                                          [counter |-> Len(l.out), data |-> l.out]],
                               next |-> Other(x.next), cur |-> x.cur,
                               newline |-> l.newline, prev |-> l.prev,
                               rest |-> l.rest]
    <2>1. ReadAhead(x) = [x EXCEPT !.bfs[x.next] = [counter |-> Len(l.out), data |-> l.out],
                                   !.next = Other(@), !.rest = l.rest,
                                   !.newline = l.newline, !.prev = l.prev]
      BY <1>2 DEF ReadAhead, ToFill, Block
    <2> QED
      BY <2>1 DEF Senders
  <1> QED
    BY <1>1, <1>2

LEMMA OtherFacts ==
  ASSUME NEW i \in Buffers
  PROVE  /\ Other(i) \in Buffers /\ Other(i) # i /\ Other(Other(i)) = i
         /\ \A j \in Buffers : j # i => j = Other(i)
  BY DEF Buffers, Other

\* The block that read_ahead() has read, if it has read one.
Ahead(x) == IF x.next = x.cur THEN x.bfs[Other(x.cur)].data ELSE << >>

Holds(b, data) == b = [counter |-> Len(data), data |-> data]

\* Between the calls of readit() and read_ahead(): the buffer that is not
\* current has the block read ahead, or it is free and the next to be filled;
\* a short block is the last one.
AheadKnown(x) ==
    /\ IF x.next = x.cur THEN Holds(x.bfs[Other(x.cur)], Ahead(x))
                         ELSE x.bfs[x.next].counter = BF_FREE
    /\ x.next = x.cur /\ Len(Ahead(x)) < SegSize => Drained(x)

LEMMA LeftType ==
  ASSUME convert \in BOOLEAN, NEW x, x.newline \in BOOLEAN,
         x.prev \in {NoChar, CR, LF}, x.rest \in Seq(Chars)
  PROVE  Left(x) \in Seq(Chars)
  <1>1. Owed(x) \in Seq(Chars) /\ Encoding(x.rest) \in Seq(Chars)
    BY EmptySeq, EncodingType, BufAssumption DEF Owed
  <1>2. Owed(x) \o Encoding(x.rest) \in Seq(Chars)
    BY <1>1, ConcatProperties
  <1> QED
    BY <1>2 DEF Left

LEMMA LeftOfSenders ==
  ASSUME convert \in BOOLEAN, NEW x \in Senders PROVE Left(x) \in Seq(Chars)
  BY LeftType DEF Senders

LEMMA DrainedHasNothingLeft ==
  ASSUME NEW x, Drained(x) PROVE Left(x) = << >>
  <1>1. Owed(x) = << >> /\ Encoding(x.rest) = << >>
    BY EncodingEmpty DEF Drained, Owed
  <1>2. << >> \o << >> = << >>
    BY EmptySeq, ConcatEmptySeq
  <1> QED
    BY <1>1, <1>2 DEF Left, Drained

\* What read_ahead() does to a buffer that is free.
LEMMA FillKeeps ==
  ASSUME convert \in BOOLEAN, NEW x \in Senders, ~convert => ~x.newline,
         x.bfs[x.next].counter = BF_FREE
  PROVE  LET y == ReadAhead(x)
         IN  /\ y \in Senders /\ (~convert => ~y.newline)
             /\ y.cur = x.cur /\ y.next = Other(x.next)
             /\ y.bfs[Other(x.next)] = x.bfs[Other(x.next)]
             /\ Holds(y.bfs[x.next], y.bfs[x.next].data)
             /\ y.bfs[x.next].data \o Left(y) = Left(x)
             /\ Len(y.bfs[x.next].data) < SegSize => Drained(y)
  <1> DEFINE y == ReadAhead(x)
             l == Block(x)
  <1>1. y = [bfs |-> [x.bfs EXCEPT ![x.next] = [counter |-> Len(l.out), data |-> l.out]],
             next |-> Other(x.next), cur |-> x.cur,
             newline |-> l.newline, prev |-> l.prev, rest |-> l.rest]
    BY ReadAheadEffect
  <1>2. /\ l \in Lines /\ (~convert => ~l.newline)
        /\ l.out \o Left(l) = Left(x)
        /\ Len(l.out) \in 0 .. SegSize
        /\ Len(l.out) < SegSize => Drained(l)
    BY BlockKeeps
  <1>3. /\ x.next \in Buffers /\ x.cur \in Buffers
        /\ Other(x.next) \in Buffers /\ Other(x.next) # x.next
        /\ x.bfs \in [Buffers -> BufferType]
    BY OtherFacts DEF Senders
  <1> HIDE DEF y, l
  <1>4. /\ y.newline = l.newline /\ y.prev = l.prev /\ y.rest = l.rest
        /\ y.cur = x.cur /\ y.next = Other(x.next)
        /\ y.bfs = [x.bfs EXCEPT ![x.next] = [counter |-> Len(l.out), data |-> l.out]]
    BY <1>1
  <1>5. Left(y) = Left(l) /\ (Drained(l) => Drained(y))
    BY <1>4 DEF Left, Owed, Drained
  <1>6. /\ y.bfs[x.next] = [counter |-> Len(l.out), data |-> l.out]
        /\ y.bfs[Other(x.next)] = x.bfs[Other(x.next)]
    BY <1>3, <1>4
  <1>7. y \in Senders
    <2>1. [counter |-> Len(l.out), data |-> l.out] \in BufferType
      BY <1>2 DEF BufferType, Lines
    <2>2. y.bfs \in [Buffers -> BufferType]
      BY <1>3, <1>4, <2>1
    <2> QED
      BY <1>1, <1>2, <1>3, <1>4, <2>2 DEF Senders, Lines
  <1>8. y.bfs[x.next].data = l.out
    BY <1>6
  <1> QED
    BY <1>2, <1>4, <1>5, <1>6, <1>7, <1>8 DEF Holds, y

\* After read_ahead() the block that follows is in the buffer that is not
\* current, and the current one is as it was.
LEMMA ReadAheadKeeps ==
  ASSUME convert \in BOOLEAN, NEW x \in Senders, ~convert => ~x.newline,
         AheadKnown(x), x.bfs[x.cur].counter # BF_FREE
  PROVE  LET y == ReadAhead(x)
         IN  /\ y \in Senders /\ (~convert => ~y.newline)
             /\ y.cur = x.cur /\ y.next = y.cur /\ y.bfs[y.cur] = x.bfs[x.cur]
             /\ AheadKnown(y)
             /\ Ahead(y) \o Left(y) = Ahead(x) \o Left(x)
  <1> DEFINE y == ReadAhead(x)
  <1>0. x.cur \in Buffers /\ x.next \in Buffers
    BY DEF Senders
  <1>1. CASE x.next = x.cur
    BY <1>1, ReadAheadEffect
  <1>2. CASE x.next # x.cur
    <2>1. x.next = Other(x.cur) /\ Other(x.next) = x.cur /\ x.bfs[x.next].counter = BF_FREE
      BY <1>0, <1>2, OtherFacts DEF AheadKnown
    <2>2. /\ y \in Senders /\ (~convert => ~y.newline)
          /\ y.cur = x.cur /\ y.next = x.cur /\ y.bfs[x.cur] = x.bfs[x.cur]
          /\ Holds(y.bfs[x.next], y.bfs[x.next].data)
          /\ y.bfs[x.next].data \o Left(y) = Left(x)
          /\ Len(y.bfs[x.next].data) < SegSize => Drained(y)
      BY <2>1, FillKeeps
    <2>3. Ahead(x) = << >>
      BY <1>2 DEF Ahead
    <2>4. << >> \o Left(x) = Left(x)
      <3> DEFINE u == Left(x)
      <3>1. u \in Seq(Chars)
        BY LeftType DEF Senders
      <3> HIDE DEF u
      <3>2. << >> \o u = u
        BY <3>1, ConcatEmptySeq
      <3> QED
        BY <3>2 DEF u
    <2> HIDE DEF y
    <2>5. Ahead(y) = y.bfs[x.next].data
      BY <2>1, <2>2 DEF Ahead
    <2>6. AheadKnown(y)
      BY <2>1, <2>2, <2>5 DEF AheadKnown
    <2> QED
      BY <2>2, <2>3, <2>4, <2>5, <2>6 DEF y
  <1> QED
    BY <1>1, <1>2

\* readit() hands out the block that follows and leaves the other buffer free.
LEMMA ReaditKeeps ==
  ASSUME convert \in BOOLEAN, NEW x \in Senders, ~convert => ~x.newline,
         AheadKnown(x)
  PROVE  LET z == Readit(x)
             b == z.bfs[z.cur].data
         IN  /\ z \in Senders /\ (~convert => ~z.newline)
             /\ z.next # z.cur /\ z.bfs[z.next].counter = BF_FREE
             /\ Holds(z.bfs[z.cur], b)
             /\ b \o Left(z) = Ahead(x) \o Left(x)
             /\ Len(b) < SegSize => Drained(z)
  <1> DEFINE y == [x EXCEPT !.bfs[x.cur].counter = BF_FREE, !.cur = Other(@)]
             z == Readit(x)
  <1>0. /\ x.cur \in Buffers /\ x.next \in Buffers
        /\ Other(x.cur) \in Buffers /\ Other(x.cur) # x.cur /\ Other(Other(x.cur)) = x.cur
        /\ x.next # x.cur => x.next = Other(x.cur)
        /\ x.bfs \in [Buffers -> BufferType]
    BY OtherFacts DEF Senders
  <1>1. z = IF y.bfs[y.cur].counter = BF_FREE THEN ReadAhead(y) ELSE y
    BY DEF Readit
  <1>2. /\ y.cur = Other(x.cur) /\ y.next = x.next /\ y.rest = x.rest
        /\ y.newline = x.newline /\ y.prev = x.prev
        /\ y.bfs = [x.bfs EXCEPT ![x.cur] = [x.bfs[x.cur] EXCEPT !.counter = BF_FREE]]
    BY DEF Senders
  <1>3. y \in Senders
    <2>1. [x.bfs[x.cur] EXCEPT !.counter = BF_FREE] \in BufferType
      BY <1>0 DEF BufferType
    <2>2. [x.bfs EXCEPT ![x.cur] = [x.bfs[x.cur] EXCEPT !.counter = BF_FREE]]
            \in [Buffers -> BufferType]
      BY <1>0, <2>1
    <2> QED
      BY <1>0, <1>2, <2>2 DEF Senders
  <1> HIDE DEF y, z
  <1>4. /\ y.bfs[x.cur].counter = BF_FREE
        /\ y.bfs[Other(x.cur)] = x.bfs[Other(x.cur)]
    <2>1. x.bfs[x.cur] \in BufferType
      BY <1>0
    <2> QED
      BY <1>0, <1>2, <2>1 DEF BufferType
  <1>5. Left(y) = Left(x) /\ (Drained(x) => Drained(y))
    BY <1>2 DEF Left, Owed, Drained
  <1>6. CASE x.next = x.cur
    <2>1. /\ Holds(y.bfs[y.cur], Ahead(x)) /\ y.bfs[y.cur].data = Ahead(x)
          /\ y.bfs[y.cur].counter = Len(Ahead(x))
      BY <1>2, <1>4, <1>6 DEF AheadKnown, Holds
    <2>2. Len(Ahead(x)) # BF_FREE
      <3>1. x.bfs[Other(x.cur)] \in BufferType
        BY <1>0
      <3>2. Ahead(x) \in Seq(Chars)
        BY <1>6, <3>1 DEF Ahead, BufferType
      <3> QED
        BY <3>2, LenProperties DEF BF_FREE
    <2>3. z = y
      BY <1>1, <2>1, <2>2
    <2> QED
      BY <1>0, <1>2, <1>3, <1>4, <1>5, <1>6, <2>1, <2>3 DEF AheadKnown, z
  <1>7. CASE x.next # x.cur
    <2>1. x.next = Other(x.cur) /\ x.bfs[x.next].counter = BF_FREE
      BY <1>0, <1>7 DEF AheadKnown
    <2>2. y.next = y.cur /\ y.bfs[y.next].counter = BF_FREE /\ z = ReadAhead(y)
      BY <1>1, <1>2, <1>4, <2>1
    <2>3. /\ z \in Senders /\ (~convert => ~z.newline)
          /\ z.cur = y.cur /\ z.next = Other(y.next)
          /\ z.bfs[Other(y.next)] = y.bfs[Other(y.next)]
          /\ Holds(z.bfs[y.next], z.bfs[y.next].data)
          /\ z.bfs[y.next].data \o Left(z) = Left(y)
          /\ Len(z.bfs[y.next].data) < SegSize => Drained(z)
      BY <1>2, <1>3, <2>2, FillKeeps
    <2>4. z.next = x.cur /\ z.cur = Other(x.cur) /\ z.bfs[z.next].counter = BF_FREE
      BY <1>0, <1>2, <1>4, <2>1, <2>3
    <2>5. Ahead(x) \o Left(x) = Left(x)
      <3> DEFINE u == Left(x)
      <3>1. u \in Seq(Chars)
        BY LeftType DEF Senders
      <3> HIDE DEF u
      <3>2. << >> \o u = u
        BY <3>1, ConcatEmptySeq
      <3> QED
        BY <1>7, <3>2 DEF u, Ahead
    <2> QED
      BY <1>0, <1>5, <2>2, <2>3, <2>4, <2>5 DEF z
  <1> QED
    BY <1>6, <1>7

-----------------------------------------------------------------------------
(* writeit() and write_behind().                                           *)

\* The receiver's variables, as the type invariant has them.
Receivers == [bfs : [Buffers -> BufferType], next : Buffers, cur : Buffers,
              prev : Chars \cup {NoChar}, file : Seq(Chars)]

\* The block that write_behind() has not written, if there is one.
Pending(x) == IF x.next = x.cur THEN << >> ELSE x.bfs[x.next].data

\* Packets go into the current buffer, which has nothing that counts; the other
\* one has the block that is to be written, or it is free.
PendingKnown(x) ==
    /\ x.bfs[x.cur].counter = BF_ALLOC
    /\ IF x.next = x.cur THEN x.bfs[Other(x.cur)].counter = BF_FREE
                         ELSE Holds(x.bfs[x.next], Pending(x))

\* The receiver's file once the block that waits is written.
Settled(x) ==
    IF convert THEN Decoded([file |-> x.file, prev |-> x.prev], Pending(x))
               ELSE [file |-> x.file \o Pending(x), prev |-> x.prev]

\* write_behind() changes nothing but that the block no longer waits.
LEMMA WriteBehindKeeps ==
  ASSUME NEW x \in Receivers, PendingKnown(x)
  PROVE  LET y == WriteBehind(x)
         IN  /\ y \in Receivers /\ y.next = y.cur
             /\ PendingKnown(y) /\ Settled(y) = Settled(x)
  <1> DEFINE y == WriteBehind(x)
  <1>0. /\ x.cur \in Buffers /\ x.next \in Buffers
        /\ Other(x.cur) \in Buffers /\ Other(x.cur) # x.cur /\ Other(Other(x.cur)) = x.cur
        /\ x.next # x.cur => x.next = Other(x.cur)
        /\ x.bfs \in [Buffers -> BufferType]
        /\ x.file \in Seq(Chars) /\ x.prev \in Chars \cup {NoChar}
    BY OtherFacts DEF Receivers
  <1>1. CASE x.next = x.cur
    <2>1. x.bfs[x.next].counter < -1
      BY <1>1 DEF PendingKnown, BF_ALLOC
    <2>2. y = x
      BY <2>1 DEF WriteBehind
    <2> QED
      BY <1>1, <2>2
  <1>2. CASE x.next # x.cur
    <2> DEFINE p == Pending(x)
               d == [file |-> x.file, prev |-> x.prev]
               f == IF convert THEN Decoded(d, p)
                               ELSE [file |-> x.file \o p, prev |-> x.prev]
               b == x.bfs[x.next]
    <2>1. b \in BufferType /\ b = [counter |-> Len(p), data |-> p] /\ p = b.data
      BY <1>0, <1>2 DEF PendingKnown, Pending, Holds
    <2>2. p \in Seq(Chars) /\ Len(p) \in Nat
      BY <2>1, LenProperties DEF BufferType
    <2>3. b.counter = Len(p) /\ ~(Len(p) < -1)
      BY <2>1, <2>2
    <2>4. SubSeq(b.data, 1, b.counter) = p
      <3> HIDE DEF p, b
      <3>1. SubSeq(p, 1, Len(p)) = p
        BY <2>2, SubSeqFull
      <3> QED
        BY <2>1, <2>3, <3>1
    <2>5. f = IF convert THEN Decoded(d, SubSeq(b.data, 1, b.counter))
                         ELSE [file |-> x.file \o SubSeq(b.data, 1, b.counter),
                               prev |-> x.prev]
      BY <2>4
    <2>6. f \in Files
      <3>1. d \in Files /\ d.file = x.file /\ d.prev = x.prev
        BY <1>0 DEF Files
      <3> HIDE DEF d, p
      <3>2. Decoded(d, p) \in Files
        BY <2>2, <3>1, DecodedType
      <3> DEFINE q == x.file
      <3>3. q \in Seq(Chars)
        BY <1>0
      <3> HIDE DEF q
      <3>4. q \o p \in Seq(Chars)
        BY <2>2, <3>3, ConcatProperties
      <3> QED
        BY <1>0, <3>2, <3>4 DEF Files, q
    <2>7. y = [x EXCEPT !.bfs[x.next].counter = BF_FREE, !.next = Other(@),
                        !.file = f.file, !.prev = f.prev]
      BY <2>3, <2>5 DEF WriteBehind
    <2>8. Settled(x) = f
      BY DEF Settled
    <2> HIDE DEF y, f, d, p
    <2>9. /\ y.file = f.file /\ y.prev = f.prev /\ y.cur = x.cur /\ y.next = x.cur
          /\ y.bfs = [x.bfs EXCEPT ![x.next] = [b EXCEPT !.counter = BF_FREE]]
      BY <1>0, <1>2, <2>7 DEF Receivers
    <2>10. y.bfs[x.cur] = x.bfs[x.cur] /\ y.bfs[Other(x.cur)].counter = BF_FREE
      BY <1>0, <1>2, <2>1, <2>9 DEF BufferType
    <2>11. y \in Receivers
      <3>1. [b EXCEPT !.counter = BF_FREE] \in BufferType
        BY <2>1 DEF BufferType
      <3>2. y.bfs \in [Buffers -> BufferType]
        BY <1>0, <2>9, <3>1
      <3> QED
        BY <1>0, <2>6, <2>7, <2>9, <3>2 DEF Receivers, Files
    <2>12. PendingKnown(y) /\ Pending(y) = << >>
      BY <2>9, <2>10 DEF PendingKnown, Pending
    <2>13. Settled(y) = f
      <3>1. [file |-> f.file, prev |-> f.prev] = f
        BY <2>6 DEF Files
      <3>2. f.file \o << >> = f.file
        <4> DEFINE q == f.file
        <4>1. q \in Seq(Chars)
          BY <2>6 DEF Files
        <4> HIDE DEF q
        <4>2. q \o << >> = q
          BY <4>1, ConcatEmptySeq
        <4> QED
          BY <4>2 DEF q
      <3>3. Decoded(f, << >>) = f
        BY DecodedEmpty
      <3> QED
        BY <2>9, <2>12, <3>1, <3>2, <3>3 DEF Settled
    <2> QED
      BY <2>8, <2>9, <2>11, <2>12, <2>13 DEF y
  <1> QED
    BY <1>1, <1>2

\* A packet that is received, wanted or not, is put where nothing counts.
LEMMA RecvKeeps ==
  ASSUME NEW x \in Receivers, PendingKnown(x), NEW h \in Seq(Chars)
  PROVE  LET y == Recv(x, h)
         IN  /\ y \in Receivers /\ PendingKnown(y) /\ Settled(y) = Settled(x)
             /\ y.next = x.next /\ y.cur = x.cur
             /\ y.bfs[y.cur].data = h
  <1> DEFINE y == Recv(x, h)
  <1>0. /\ x.cur \in Buffers /\ x.next \in Buffers
        /\ Other(x.cur) \in Buffers /\ Other(x.cur) # x.cur
        /\ x.next # x.cur => x.next = Other(x.cur)
        /\ x.bfs \in [Buffers -> BufferType] /\ x.bfs[x.cur] \in BufferType
    BY OtherFacts DEF Receivers
  <1>1. y = [x EXCEPT !.bfs[x.cur].data = h]
    BY DEF Recv
  <1> HIDE DEF y
  <1>2. /\ y.file = x.file /\ y.prev = x.prev /\ y.cur = x.cur /\ y.next = x.next
        /\ y.bfs = [x.bfs EXCEPT ![x.cur] = [x.bfs[x.cur] EXCEPT !.data = h]]
    BY <1>1 DEF Receivers
  <1>3. /\ y.bfs[x.cur].counter = x.bfs[x.cur].counter /\ y.bfs[x.cur].data = h
        /\ y.bfs[Other(x.cur)] = x.bfs[Other(x.cur)]
    BY <1>0, <1>2 DEF BufferType
  <1>4. y \in Receivers
    <2>1. [x.bfs[x.cur] EXCEPT !.data = h] \in BufferType
      BY <1>0 DEF BufferType
    <2>2. y.bfs \in [Buffers -> BufferType]
      BY <1>0, <1>2, <2>1
    <2> QED
      BY <1>0, <1>1, <1>2, <2>2 DEF Receivers
  <1>5. Pending(y) = Pending(x)
    BY <1>0, <1>2, <1>3 DEF Pending
  <1>6. PendingKnown(y)
    BY <1>0, <1>2, <1>3, <1>5 DEF PendingKnown
  <1>7. Settled(y) = Settled(x)
    BY <1>2, <1>5 DEF Settled
  <1> QED
    BY <1>2, <1>3, <1>4, <1>6, <1>7 DEF y

\* writeit() leaves the block that was received to write_behind().
LEMMA WriteitKeeps ==
  ASSUME NEW x \in Receivers, PendingKnown(x), x.next = x.cur,
         NEW h \in Seq(Chars), Len(h) \in 0 .. SegSize, x.bfs[x.cur].data = h
  PROVE  LET y == Writeit(x, Len(h))
         IN  /\ y \in Receivers /\ PendingKnown(y) /\ y.next # y.cur
             /\ Pending(y) = h /\ y.file = x.file /\ y.prev = x.prev
  <1> DEFINE u == [x EXCEPT !.bfs[x.cur].counter = Len(h), !.cur = Other(@)]
             y == Writeit(x, Len(h))
  <1>0. /\ x.cur \in Buffers /\ x.next \in Buffers
        /\ Other(x.cur) \in Buffers /\ Other(x.cur) # x.cur
        /\ x.bfs \in [Buffers -> BufferType] /\ x.bfs[x.cur] \in BufferType
        /\ x.bfs[Other(x.cur)] \in BufferType
        /\ x.bfs[Other(x.cur)].counter = BF_FREE
    BY OtherFacts DEF Receivers, PendingKnown
  <1>1. /\ u.cur = Other(x.cur) /\ u.next = x.cur /\ u.file = x.file /\ u.prev = x.prev
        /\ u.bfs = [x.bfs EXCEPT ![x.cur] = [x.bfs[x.cur] EXCEPT !.counter = Len(h)]]
    BY DEF Receivers
  <1>2. u \in [bfs : [Buffers -> BufferType], next : Buffers, cur : Buffers,
               prev : Chars \cup {NoChar}, file : Seq(Chars)]
    <2>1. [x.bfs[x.cur] EXCEPT !.counter = Len(h)] \in BufferType
      BY <1>0 DEF BufferType
    <2>2. [x.bfs EXCEPT ![x.cur] = [x.bfs[x.cur] EXCEPT !.counter = Len(h)]]
            \in [Buffers -> BufferType]
      BY <1>0, <2>1
    <2> QED
      BY <1>0, <1>1, <2>2 DEF Receivers
  <1>3. /\ u.bfs[x.cur] = [counter |-> Len(h), data |-> h]
        /\ u.bfs[Other(x.cur)] = x.bfs[Other(x.cur)]
    BY <1>0, <1>1 DEF BufferType
  <1>4. y = [u EXCEPT !.bfs[u.cur].counter = BF_ALLOC]
    <2>1. u.bfs[u.cur].counter = BF_FREE
      BY <1>0, <1>1, <1>3
    <2> QED
      BY <2>1 DEF Writeit
  <1> HIDE DEF u, y
  <1>5. /\ y.cur = u.cur /\ y.next = u.next /\ y.file = u.file /\ y.prev = u.prev
        /\ y.bfs = [u.bfs EXCEPT ![u.cur] = [u.bfs[u.cur] EXCEPT !.counter = BF_ALLOC]]
    BY <1>2, <1>4
  <1>6. /\ y.bfs[x.cur] = [counter |-> Len(h), data |-> h]
        /\ y.bfs[Other(x.cur)].counter = BF_ALLOC
    <2>1. u.bfs[u.cur] \in BufferType
      BY <1>0, <1>1, <1>3
    <2>2. y.bfs[u.cur] = [u.bfs[u.cur] EXCEPT !.counter = BF_ALLOC]
      BY <1>0, <1>1, <1>2, <1>5
    <2>3. y.bfs[x.cur] = u.bfs[x.cur]
      BY <1>0, <1>1, <1>2, <1>5
    <2>4. y.bfs[u.cur].counter = BF_ALLOC
      BY <2>1, <2>2 DEF BufferType
    <2> QED
      BY <1>1, <1>3, <2>3, <2>4
  <1>7. y \in Receivers
    <2>1. [u.bfs[u.cur] EXCEPT !.counter = BF_ALLOC] \in BufferType
      BY <1>0, <1>1, <1>3 DEF BufferType
    <2>2. y.bfs \in [Buffers -> BufferType]
      BY <1>0, <1>1, <1>2, <1>5, <2>1
    <2> QED
      BY <1>2, <1>4, <1>5, <2>2 DEF Receivers
  <1>8. /\ y.cur = Other(x.cur) /\ y.next = x.cur /\ y.next # y.cur
        /\ Pending(y) = h
    BY <1>0, <1>1, <1>5, <1>6 DEF Pending
  <1>9. PendingKnown(y)
    BY <1>6, <1>8 DEF PendingKnown, Holds
  <1> QED
    BY <1>1, <1>5, <1>7, <1>8, <1>9 DEF y

-----------------------------------------------------------------------------
(* The invariant.                                                          *)

\* The block that readit() has handed out and nobody has accepted yet.
Unseen == IF accepted THEN << >> ELSE hand

\* The current buffer of the sender has the block that was handed out, after
\* the first call of readit().
SenderKnown ==
    /\ AheadKnown(r) /\ (~convert => ~r.newline)
    /\ \/ Holds(r.bfs[r.cur], hand)
       \/ /\ r.bfs[r.cur].counter = BF_ALLOC
          /\ hand = << >> /\ ~accepted /\ rphase \in {"request", "read"}

ReceiverKnown ==
    /\ PendingKnown(w)
    /\ wphase \in {"recv", "closed"} => w.next = w.cur

\* The ends agree on which block is the last one: the one that is short.
EndKnown ==
    /\ rphase \in {"send", "wait", "end"} /\ Len(hand) < SegSize =>
          Drained(r) /\ Ahead(r) = << >>
    /\ rphase \in {"request", "read"} => Unseen = << >> /\ wphase \in {"recv", "ack"}
    /\ wphase \in {"last", "closed"} => accepted /\ Len(hand) < SegSize

PassedFull ==
    /\ \A i \in DOMAIN passed : i < Len(passed) => Len(passed[i]) = SegSize
    /\ wphase \in {"recv", "ack"} =>
          \A i \in DOMAIN passed : Len(passed[i]) = SegSize

\* What has been accepted, what is under way, what has been read ahead and
\* what is left to read make up the file as it goes over the wire.
WireWhole == FlattenSeq(passed) \o (Unseen \o (Ahead(r) \o Left(r))) = OnTheWire

\* The receiver's file, once the block that waits is written, is what the
\* blocks accepted so far decode to.
FileKnown ==
    IF convert
    THEN Settled(w) = Decoded([file |-> << >>, prev |-> NoChar], FlattenSeq(passed))
    ELSE Settled(w).file = FlattenSeq(passed)

IInv ==
    /\ TypeOK /\ SenderKnown /\ ReceiverKnown /\ EndKnown /\ PassedFull
    /\ WireWhole /\ FileKnown

\* What IInv says of types, with what follows of the lengths.
LEMMA Types ==
  ASSUME IInv
  PROVE  /\ r \in Senders /\ w \in Receivers /\ convert \in BOOLEAN
         /\ hand \in Seq(Chars) /\ Len(hand) \in 0 .. SegSize
         /\ accepted \in BOOLEAN
         /\ passed \in Seq(Seq(Chars)) /\ FlattenSeq(passed) \in Seq(Chars)
         /\ Unseen \in Seq(Chars) /\ Ahead(r) \in Seq(Chars) /\ Left(r) \in Seq(Chars)
  <1>1. /\ r \in Senders /\ w \in Receivers /\ convert \in BOOLEAN
        /\ hand \in Seq(Chars) /\ passed \in Seq(Seq(Chars)) /\ accepted \in BOOLEAN
    BY DEF IInv, TypeOK, Senders, Receivers
  <1>2. FlattenSeq(passed) \in Seq(Chars)
    BY <1>1, FlattenType
  <1>3. Unseen \in Seq(Chars)
    BY <1>1, EmptySeq DEF Unseen
  <1>4. r.cur \in Buffers /\ Other(r.cur) \in Buffers /\ r.bfs \in [Buffers -> BufferType]
    BY <1>1, OtherFacts DEF Senders
  <1>5. Ahead(r) \in Seq(Chars)
    BY <1>4, EmptySeq DEF Ahead, BufferType
  <1>6. Len(hand) \in 0 .. SegSize
    <2>1. CASE Holds(r.bfs[r.cur], hand)
      <3>1. r.bfs[r.cur].counter = Len(hand) /\ Len(hand) \in Nat
        BY <1>1, <2>1, LenProperties DEF Holds
      <3>2. r.bfs[r.cur].counter \in {BF_ALLOC, BF_FREE} \cup 0 .. SegSize
        BY <1>4 DEF BufferType
      <3> QED
        BY <3>1, <3>2 DEF BF_ALLOC, BF_FREE
    <2>2. CASE hand = << >>
      BY <2>2, EmptySeq, BufAssumption
    <2> QED
      BY <2>1, <2>2 DEF IInv, SenderKnown
  <1>7. Left(r) \in Seq(Chars)
    BY <1>1, LeftType DEF Senders
  <1> QED
    BY <1>1, <1>2, <1>3, <1>5, <1>6, <1>7

LEMMA InitInv == ASSUME Init PROVE IInv
  <1>1. source \in Seq(Chars)
    <2>1. source \in UNION {[1 .. m -> Chars] : m \in 0 .. MaxLen}
      BY DEF Init, BoundedSeq, SeqOf
    <2>2. \A m \in 0 .. MaxLen : m \in Nat
      BY BufAssumption
    <2> QED
      BY <2>1, <2>2, SeqDef
  <1>2. << >> \in Seq(Chars) /\ << >> \in Seq(Seq(Chars)) /\ Len(<< >>) = 0
    BY EmptySeq
  <1>3. Fresh \in [Buffers -> BufferType]
    BY <1>2 DEF Fresh, BufferType
  <1>4. /\ Fresh[0].counter = BF_ALLOC /\ Fresh[1].counter = BF_FREE
        /\ 0 \in Buffers /\ 1 \in Buffers /\ Other(0) = 1
    BY DEF Fresh, Buffers, Other
  <1>5. /\ r \in [bfs : [Buffers -> BufferType], next : Buffers, cur : Buffers,
                  newline : BOOLEAN, prev : {NoChar, CR, LF}, rest : Seq(Chars)]
        /\ r.next = 1 /\ r.cur = 0 /\ r.bfs = Fresh /\ ~r.newline /\ r.rest = source
    BY <1>1, <1>3, <1>4 DEF Init
  <1>6. /\ w \in [bfs : [Buffers -> BufferType], next : Buffers, cur : Buffers,
                  prev : Chars \cup {NoChar}, file : Seq(Chars)]
        /\ w.next = 0 /\ w.cur = 0 /\ w.bfs = Fresh
        /\ w.file = << >> /\ w.prev = NoChar
    BY <1>2, <1>3, <1>4 DEF Init
  <1>7. TypeOK
    BY <1>1, <1>2, <1>5, <1>6 DEF Init, TypeOK
  <1>8. Ahead(r) = << >> /\ AheadKnown(r)
    BY <1>4, <1>5 DEF Ahead, AheadKnown
  <1>9. SenderKnown
    BY <1>4, <1>5, <1>8 DEF Init, SenderKnown
  <1>10. ReceiverKnown /\ Pending(w) = << >>
    BY <1>4, <1>6 DEF Init, ReceiverKnown, PendingKnown, Pending
  <1>11. EndKnown /\ Unseen = << >>
    BY DEF Init, EndKnown, Unseen
  <1>12. PassedFull
    <2>1. passed = << >> /\ DOMAIN passed = 1 .. 0
      BY <1>2, LenProperties DEF Init
    <2> QED
      BY <2>1 DEF PassedFull
  <1>13. WireWhole
    <2>1. FlattenSeq(passed) = << >>
      BY FlattenEmpty DEF Init
    <2>2. Left(r) = OnTheWire
      <3>1. << >> \o Encoding(source) = Encoding(source)
        <4> DEFINE e == Encoding(source)
        <4>1. e \in Seq(Chars)
          BY <1>1, EncodingType
        <4> HIDE DEF e
        <4>2. << >> \o e = e
          BY <4>1, ConcatEmptySeq
        <4> QED
          BY <4>2 DEF e
      <3> QED
        BY <1>5, <3>1 DEF Left, Owed, OnTheWire
    <2> DEFINE o == OnTheWire
    <2>3. o \in Seq(Chars)
      BY <1>1, EncodingType DEF OnTheWire
    <2> HIDE DEF o
    <2>4. << >> \o o = o
      BY <2>3, ConcatEmptySeq
    <2>5. << >> \o (<< >> \o (<< >> \o o)) = o
      BY <2>4
    <2> QED
      BY <1>8, <1>11, <2>1, <2>2, <2>5 DEF WireWhole, o
  <1>14. FileKnown
    <2>1. FlattenSeq(passed) = << >>
      BY FlattenEmpty DEF Init
    <2>2. << >> \o << >> = << >>
      BY <1>2, ConcatEmptySeq
    <2>3. Settled(w) = [file |-> << >>, prev |-> NoChar]
      BY <1>6, <1>10, <2>2, DecodedEmpty DEF Settled
    <2> QED
      BY <2>1, <2>3, DecodedEmpty DEF FileKnown
  <1> QED
    BY <1>7, <1>9, <1>10, <1>11, <1>12, <1>13, <1>14 DEF IInv

-----------------------------------------------------------------------------
(* The sender's steps.                                                     *)

\* Nothing that the receiver or the network has is the sender's to change.
LEMMA SenderFrame ==
  ASSUME IInv, UNCHANGED <<source, convert, passed, w>>
  PROVE  /\ PendingKnown(w)' /\ FileKnown'
         /\ OnTheWire' = OnTheWire
         /\ \A x : (Left(x) = IF convert' THEN Owed(x) \o Encoding(x.rest) ELSE x.rest)
  <1>1. PendingKnown(w)'
    BY DEF IInv, ReceiverKnown, PendingKnown, Pending
  <1>2. FileKnown'
    BY DEF IInv, FileKnown, Settled, Pending
  <1> QED
    BY <1>1, <1>2 DEF OnTheWire, Left

\* A transmission, or the request's, with the call of read_ahead() behind it.
LEMMA SendInv ==
  ASSUME IInv, Send \/ SendRequest PROVE IInv'
  <1>1. /\ r' = ReadAhead(r)
        /\ UNCHANGED <<source, convert, hand, accepted, passed, w, wphase>>
        /\ \/ rphase \in {"send", "wait"} /\ rphase' = "wait"
           \/ rphase = "request" /\ rphase' \in {"request", "read"}
    BY DEF Send, SendRequest
  <1>2. /\ r \in Senders /\ convert \in BOOLEAN /\ hand \in Seq(Chars)
        /\ (~convert => ~r.newline) /\ AheadKnown(r)
    BY Types DEF IInv, SenderKnown
  <1>3. r.bfs[r.cur].counter # BF_FREE
    <2>1. Len(hand) \in Nat
      BY <1>2, LenProperties
    <2> QED
      BY <2>1 DEF IInv, SenderKnown, Holds, BF_FREE, BF_ALLOC
  <1>4. /\ r' \in Senders /\ (~convert => ~r'.newline)
        /\ r'.cur = r.cur /\ r'.next = r'.cur /\ r'.bfs[r'.cur] = r.bfs[r.cur]
        /\ AheadKnown(r')
        /\ Ahead(r') \o Left(r') = Ahead(r) \o Left(r)
    BY <1>1, <1>2, <1>3, ReadAheadKeeps
  <1>5. Left(r') = Left(r)'
    BY <1>1 DEF Left
  <1>6. TypeOK'
    BY <1>1, <1>4 DEF IInv, TypeOK, Senders
  <1>7. SenderKnown'
    BY <1>1, <1>4 DEF IInv, SenderKnown, AheadKnown, Holds
  <1>8. ReceiverKnown'
    BY <1>1, SenderFrame DEF IInv, ReceiverKnown
  <1>9. EndKnown'
    <2>1. Unseen' = Unseen
      BY <1>1 DEF Unseen
    <2>2. ASSUME rphase \in {"send", "wait"}, Len(hand) < SegSize
          PROVE  Drained(r') /\ Ahead(r') = << >>
      <3>1. Drained(r) /\ Ahead(r) = << >>
        BY <2>2 DEF IInv, EndKnown
      <3>2. Left(r) = << >> /\ Ahead(r) \o Left(r) = << >>
        <4>1. << >> \o << >> = << >>
          BY EmptySeq, ConcatEmptySeq
        <4> QED
          BY <3>1, <4>1, DrainedHasNothingLeft
      <3> DEFINE a == Ahead(r')
                 l == Left(r')
      <3>3. a \in Seq(Chars) /\ l \in Seq(Chars)
        <4>1. Other(r'.cur) \in Buffers
          BY <1>4, OtherFacts DEF Senders
        <4>2. a \in Seq(Chars)
          BY <1>4, <4>1, EmptySeq DEF Ahead, Senders, BufferType
        <4>3. l \in Seq(Chars)
          BY <1>2, <1>4, LeftOfSenders
        <4> QED
          BY <4>2, <4>3
      <3>4. a \o l = << >>
        BY <1>4, <3>2
      <3> HIDE DEF a, l
      <3>5. a = << >>
        BY <3>3, <3>4, ConcatEqualIffEmpty
      <3>6. Len(a) = 0 /\ 0 < SegSize
        BY <3>5, EmptySeq, BufAssumption
      <3> QED
        BY <1>4, <3>5, <3>6 DEF AheadKnown, a
    <2>3. (rphase \in {"send", "wait"} /\ Len(hand) < SegSize) =>
             (Drained(r)' /\ Ahead(r)' = << >>)
      BY <2>2 DEF Drained, Ahead
    <2> QED
      BY <1>1, <2>1, <2>3 DEF IInv, EndKnown
  <1>10. PassedFull'
    BY <1>1 DEF IInv, PassedFull
  <1>11. WireWhole'
    <2>1. Unseen' = Unseen /\ Ahead(r') = Ahead(r)'
      BY <1>1 DEF Unseen, Ahead
    <2> QED
      BY <1>1, <1>4, <1>5, <2>1, SenderFrame DEF IInv, WireWhole
  <1>12. FileKnown'
    BY <1>1, SenderFrame
  <1> QED
    BY <1>6, <1>7, <1>8, <1>9, <1>10, <1>11, <1>12 DEF IInv

\* The next block is handed out once the one before has been acknowledged.
LEMMA GetBlockInv ==
  ASSUME IInv, GetBlock PROVE IInv'
  <1>1. /\ rphase = "read" /\ r' = Readit(r) /\ hand' = r'.bfs[r'.cur].data
        /\ accepted' = FALSE /\ rphase' = "send"
        /\ UNCHANGED <<source, convert, passed, w, wphase>>
    BY DEF GetBlock
  <1>2. /\ r \in Senders /\ convert \in BOOLEAN /\ (~convert => ~r.newline)
        /\ AheadKnown(r)
    BY Types DEF IInv, SenderKnown
  <1>3. /\ r' \in Senders /\ (~convert => ~r'.newline)
        /\ r'.next # r'.cur /\ r'.bfs[r'.next].counter = BF_FREE
        /\ Holds(r'.bfs[r'.cur], hand')
        /\ hand' \o Left(r') = Ahead(r) \o Left(r)
        /\ Len(hand') < SegSize => Drained(r')
    BY <1>1, <1>2, ReaditKeeps
  <1>4. hand' \in Seq(Chars)
    BY <1>1, <1>3 DEF Senders, BufferType
  <1>5. Left(r') = Left(r)' /\ Ahead(r)' = << >> /\ Drained(r') = Drained(r)'
    BY <1>1, <1>3 DEF Left, Ahead, Drained
  <1>6. TypeOK'
    BY <1>1, <1>3, <1>4 DEF IInv, TypeOK, Senders
  <1>7. SenderKnown'
    <2>1. AheadKnown(r)'
      BY <1>3 DEF AheadKnown
    <2>2. Holds(r.bfs[r.cur], hand)'
      BY <1>3 DEF Holds
    <2> QED
      BY <1>1, <1>3, <2>1, <2>2 DEF SenderKnown
  <1>8. ReceiverKnown'
    BY <1>1, SenderFrame DEF IInv, ReceiverKnown
  <1>9. Unseen = << >> /\ wphase \in {"recv", "ack"}
    BY <1>1 DEF IInv, EndKnown
  <1>10. EndKnown'
    BY <1>1, <1>3, <1>5, <1>9 DEF EndKnown
  <1>11. PassedFull'
    BY <1>1 DEF IInv, PassedFull
  <1>12. WireWhole'
    <2> DEFINE f == FlattenSeq(passed)
               h == hand'
               l == Left(r')
               s == Ahead(r) \o Left(r)
    <2>1. /\ l \in Seq(Chars) /\ s \in Seq(Chars)
      <3>1. l \in Seq(Chars)
        BY <1>2, <1>3, LeftOfSenders
      <3>2. h \o l \in Seq(Chars)
        <4>1. h \in Seq(Chars)
          BY <1>4
        <4> HIDE DEF h, l
        <4> QED
          BY <3>1, <4>1, ConcatProperties
      <3> QED
        BY <1>3, <3>1, <3>2
    <2>2. f \o (<< >> \o s) = OnTheWire
      BY <1>9 DEF IInv, WireWhole
    <2>3. Unseen' = h /\ Ahead(r)' = << >> /\ Left(r)' = l /\ FlattenSeq(passed)' = f
      BY <1>1, <1>5 DEF Unseen
    <2>4. h \o l = s
      BY <1>3
    <2> HIDE DEF h, l, s
    <2>5. << >> \o s = s /\ << >> \o l = l
      BY <2>1, ConcatEmptySeq
    <2>6. f \o (h \o (<< >> \o l)) = OnTheWire
      BY <2>2, <2>4, <2>5
    <2> QED
      BY <1>1, <2>3, <2>6, SenderFrame DEF WireWhole
  <1>13. FileKnown'
    BY <1>1, SenderFrame
  <1> QED
    BY <1>6, <1>7, <1>8, <1>10, <1>11, <1>12, <1>13 DEF IInv

LEMMA AcknowledgedInv ==
  ASSUME IInv, Acknowledged PROVE IInv'
  <1>1. /\ rphase = "wait" /\ accepted
        /\ rphase' = IF Len(hand) = SegSize THEN "read" ELSE "end"
        /\ UNCHANGED <<source, convert, r, hand, accepted, passed, w, wphase>>
    BY DEF Acknowledged
  <1>2. Len(hand) \in 0 .. SegSize /\ SegSize \in Nat
    BY Types, BufAssumption
  <1>3. TypeOK'
    BY <1>1 DEF IInv, TypeOK
  <1>4. SenderKnown'
    BY <1>1 DEF IInv, SenderKnown, AheadKnown, Holds, Ahead, Drained
  <1>5. ReceiverKnown'
    BY <1>1, SenderFrame DEF IInv, ReceiverKnown
  <1>6. EndKnown'
    <2>1. Unseen' = << >> /\ Ahead(r)' = Ahead(r) /\ Drained(r)' = Drained(r)
      BY <1>1 DEF Unseen, Ahead, Drained
    <2>2. wphase \in {"recv", "ack", "last", "closed"}
      BY DEF IInv, TypeOK
    <2>3. Len(hand) = SegSize => wphase \in {"recv", "ack"}
      BY <1>2, <2>2 DEF IInv, EndKnown
    <2> QED
      BY <1>1, <1>2, <2>1, <2>3 DEF IInv, EndKnown
  <1>7. PassedFull'
    BY <1>1 DEF IInv, PassedFull
  <1>8. WireWhole'
    <2>1. Unseen' = Unseen /\ Ahead(r)' = Ahead(r) /\ Left(r)' = Left(r)
      BY <1>1 DEF Unseen, Ahead, Left
    <2> QED
      BY <1>1, <2>1, SenderFrame DEF IInv, WireWhole
  <1>9. FileKnown'
    BY <1>1, SenderFrame
  <1> QED
    BY <1>3, <1>4, <1>5, <1>6, <1>7, <1>8, <1>9 DEF IInv

-----------------------------------------------------------------------------
(* The receiver's steps.                                                   *)

\* What the sender has is not the receiver's to change.
LEMMA ReceiverFrame ==
  ASSUME IInv, UNCHANGED <<source, convert, r, rphase, hand>>
  PROVE  /\ AheadKnown(r)' /\ OnTheWire' = OnTheWire
         /\ Ahead(r)' = Ahead(r) /\ Left(r)' = Left(r) /\ Drained(r)' = Drained(r)
  BY DEF IInv, SenderKnown, AheadKnown, Holds, Ahead, Left, Drained, OnTheWire

\* The block that was waited for joins the blocks accepted and waits for
\* write_behind().
LEMMA AcceptInv ==
  ASSUME IInv, Accept PROVE IInv'
  <1>1. /\ wphase = "recv" /\ rphase = "wait" /\ ~accepted
        /\ w' = Writeit(Recv(w, hand), Len(hand))
        /\ accepted' = TRUE
        /\ passed' = Append(passed, hand)
        /\ wphase' = IF Len(hand) = SegSize THEN "ack" ELSE "last"
        /\ UNCHANGED <<source, convert, r, rphase, hand>>
    BY DEF Accept
  <1>2. /\ w \in Receivers /\ PendingKnown(w) /\ w.next = w.cur
        /\ hand \in Seq(Chars) /\ Len(hand) \in 0 .. SegSize /\ SegSize \in Nat
        /\ passed \in Seq(Seq(Chars)) /\ FlattenSeq(passed) \in Seq(Chars)
    BY <1>1, Types, BufAssumption DEF IInv, ReceiverKnown
  <1> DEFINE v == Recv(w, hand)
  <1>3. /\ v \in Receivers /\ PendingKnown(v) /\ Settled(v) = Settled(w)
        /\ v.next = v.cur /\ v.bfs[v.cur].data = hand
    BY <1>2, RecvKeeps
  <1>4. v.file = w.file /\ v.prev = w.prev
    BY <1>2 DEF Recv, Receivers
  <1>5. /\ w' \in Receivers /\ PendingKnown(w') /\ w'.next # w'.cur
        /\ Pending(w') = hand /\ w'.file = w.file /\ w'.prev = w.prev
    <2> HIDE DEF v
    <2>1. LET y == Writeit(v, Len(hand))
          IN  /\ y \in Receivers /\ PendingKnown(y) /\ y.next # y.cur
              /\ Pending(y) = hand /\ y.file = v.file /\ y.prev = v.prev
      BY <1>2, <1>3, WriteitKeeps
    <2> QED
      BY <1>1, <1>4, <2>1 DEF v
  <1>6. /\ passed' \in Seq(Seq(Chars)) /\ Len(passed') = Len(passed) + 1
        /\ Len(passed) \in Nat
        /\ \A i \in 1 .. Len(passed) : passed'[i] = passed[i]
        /\ passed'[Len(passed) + 1] = hand
    <2> DEFINE p == passed
               t == Append(p, hand)
    <2>1. p \in Seq(Seq(Chars)) /\ hand \in Seq(Chars)
      BY <1>2
    <2> HIDE DEF p
    <2>2. /\ t \in Seq(Seq(Chars)) /\ Len(t) = Len(p) + 1
          /\ Len(p) \in Nat
          /\ \A i \in 1 .. Len(p) : t[i] = p[i]
          /\ t[Len(p) + 1] = hand
      BY <2>1, AppendProperties, LenProperties
    <2> QED
      BY <1>1, <2>2 DEF p
  <1>7. TypeOK'
    BY <1>1, <1>5, <1>6 DEF IInv, TypeOK, Receivers
  <1>8. SenderKnown'
    <2>1. rphase \notin {"request", "read"}
      BY <1>1
    <2>2. Holds(r.bfs[r.cur], hand)'
      BY <1>1, <2>1 DEF IInv, SenderKnown, Holds
    <2> QED
      BY <1>1, <2>2, ReceiverFrame DEF IInv, SenderKnown
  <1>9. ReceiverKnown'
    <2>1. PendingKnown(w)'
      BY <1>5 DEF PendingKnown, Pending
    <2> QED
      BY <1>1, <2>1 DEF ReceiverKnown
  <1>10. EndKnown'
    BY <1>1, <1>2, ReceiverFrame DEF IInv, EndKnown
  <1>11. PassedFull'
    <2>1. DOMAIN passed = 1 .. Len(passed) /\ DOMAIN passed' = 1 .. Len(passed) + 1
      BY <1>2, <1>6, LenProperties
    <2>2. \A i \in 1 .. Len(passed) : Len(passed'[i]) = SegSize
      BY <1>1, <1>6, <2>1 DEF IInv, PassedFull
    <2>3. \A i \in 1 .. Len(passed) + 1 : i < Len(passed) + 1 => i \in 1 .. Len(passed)
      BY <1>6
    <2>4. \A i \in 1 .. Len(passed) + 1 : i \in 1 .. Len(passed) \/ i = Len(passed) + 1
      BY <1>6
    <2> QED
      BY <1>1, <1>6, <2>1, <2>2, <2>3, <2>4 DEF PassedFull
  <1>12. FlattenSeq(passed)' = FlattenSeq(passed) \o hand
    <2> DEFINE p == passed
    <2>1. p \in Seq(Seq(Chars)) /\ hand \in Seq(Chars)
      BY <1>2
    <2> HIDE DEF p
    <2>2. FlattenSeq(Append(p, hand)) = FlattenSeq(p) \o hand
      BY <2>1, FlattenAppend
    <2> QED
      BY <1>1, <2>2 DEF p
  <1>13. WireWhole'
    <2> DEFINE f == FlattenSeq(passed)
               h == hand
               s == Ahead(r) \o Left(r)
    <2>1. f \in Seq(Chars) /\ h \in Seq(Chars)
      BY <1>2
    <2>2. s \in Seq(Chars)
      <3> DEFINE a == Ahead(r)
                 l == Left(r)
      <3>1. a \in Seq(Chars) /\ l \in Seq(Chars)
        BY Types
      <3> HIDE DEF a, l
      <3>2. a \o l \in Seq(Chars)
        BY <3>1, ConcatProperties
      <3> QED
        BY <3>2 DEF a, l
    <2>3. f \o (h \o s) = OnTheWire
      BY <1>1 DEF IInv, WireWhole, Unseen
    <2>4. /\ Unseen' = << >> /\ (Ahead(r) \o Left(r))' = s
          /\ FlattenSeq(passed)' = f \o h
      BY <1>1, <1>12, ReceiverFrame DEF Unseen
    <2> HIDE DEF f, h, s
    <2>5. << >> \o s = s /\ (f \o h) \o s = f \o (h \o s)
      BY <2>1, <2>2, ConcatEmptySeq, ConcatAssociative
    <2>6. (f \o h) \o (<< >> \o s) = OnTheWire
      BY <2>3, <2>5
    <2> QED
      BY <1>1, <2>4, <2>6, ReceiverFrame DEF WireWhole
  <1>14. FileKnown'
    <2> DEFINE f == FlattenSeq(passed)
               h == hand
               e == [file |-> << >>, prev |-> NoChar]
               d == [file |-> w.file, prev |-> w.prev]
    <2>1. f \in Seq(Chars) /\ h \in Seq(Chars)
      BY <1>2
    <2>2. Pending(w) = << >>
      BY <1>2 DEF Pending
    <2>3. CASE convert
      <3>1. Decoded(d, << >>) = Decoded(e, f)
        BY <2>2, <2>3 DEF IInv, FileKnown, Settled
      <3>2. Settled(w)' = Decoded(d, h)
        BY <1>1, <1>5, <2>3 DEF Settled, Pending
      <3> HIDE DEF f, h, e, d
      <3>3. Decoded(e, f \o h) = Decoded(Decoded(e, f), h)
        BY <2>1, DecodedConcat
      <3>4. Settled(w)' = Decoded(e, f \o h)
        BY <3>1, <3>2, <3>3, DecodedEmpty
      <3> QED
        BY <1>1, <1>12, <2>3, <3>4 DEF FileKnown, f, h, e
    <2>4. CASE ~convert
      <3> DEFINE q == w.file
      <3>1. q \in Seq(Chars)
        BY <1>2 DEF Receivers
      <3>2. q \o << >> = f
        BY <2>2, <2>4 DEF IInv, FileKnown, Settled
      <3>3. Settled(w)'.file = q \o h
        BY <1>1, <1>5, <2>4 DEF Settled, Pending
      <3> HIDE DEF q
      <3>4. q \o << >> = q
        BY <3>1, ConcatEmptySeq
      <3> QED
        BY <1>1, <1>12, <2>4, <3>2, <3>3, <3>4 DEF FileKnown
    <2> QED
      BY <2>3, <2>4
  <1> QED
    BY <1>7, <1>8, <1>9, <1>10, <1>11, <1>13, <1>14 DEF IInv

\* The steps that leave the blocks accepted as they are: it is enough that the
\* receiver's buffers are in order and come to the same file.
LEMMA ReceiverInv ==
  ASSUME IInv, w' \in Receivers, PendingKnown(w'), Settled(w') = Settled(w),
         UNCHANGED <<source, convert, r, rphase, hand, accepted, passed>>,
         wphase' \in {"recv", "closed"} => w'.next = w'.cur,
         \/ wphase' = wphase
         \/ wphase = "ack" /\ wphase' = "recv"
         \/ wphase = "last" /\ wphase' = "closed"
  PROVE  IInv'
  <1>1. TypeOK'
    BY DEF IInv, TypeOK, Receivers
  <1>2. SenderKnown'
    <2>1. Holds(r.bfs[r.cur], hand)' = Holds(r.bfs[r.cur], hand)
      BY DEF Holds
    <2> QED
      BY <2>1, ReceiverFrame DEF IInv, SenderKnown
  <1>3. ReceiverKnown'
    <2>1. PendingKnown(w)'
      BY DEF PendingKnown, Pending
    <2> QED
      BY <2>1 DEF ReceiverKnown
  <1>4. EndKnown'
    BY ReceiverFrame DEF IInv, EndKnown, Unseen
  <1>5. PassedFull'
    BY DEF IInv, PassedFull
  <1>6. WireWhole'
    BY ReceiverFrame DEF IInv, WireWhole, Unseen
  <1>7. FileKnown'
    <2>1. Settled(w)' = Settled(w)
      BY DEF Settled, Pending
    <2> QED
      BY <2>1 DEF IInv, FileKnown
  <1> QED
    BY <1>1, <1>2, <1>3, <1>4, <1>5, <1>6, <1>7 DEF IInv

LEMMA DuplicateInv ==
  ASSUME IInv, Duplicate PROVE IInv'
  <1>1. PICK i \in DOMAIN passed : w' = Recv(w, passed[i])
    BY DEF Duplicate
  <1>2. passed[i] \in Seq(Chars)
    BY <1>1, Types, LenProperties
  <1>3. w \in Receivers /\ PendingKnown(w) /\ w.next = w.cur
    BY Types DEF IInv, ReceiverKnown, Duplicate
  <1>4. /\ w' \in Receivers /\ PendingKnown(w') /\ Settled(w') = Settled(w)
        /\ w'.next = w.next /\ w'.cur = w.cur
    BY <1>1, <1>2, <1>3, RecvKeeps
  <1> QED
    BY <1>3, <1>4, ReceiverInv DEF Duplicate

LEMMA WriteInv ==
  ASSUME IInv, SendAck \/ Close PROVE IInv'
  <1>1. w' = WriteBehind(w)
    BY DEF SendAck, Close
  <1>2. w \in Receivers /\ PendingKnown(w)
    BY Types DEF IInv, ReceiverKnown
  <1>3. /\ w' \in Receivers /\ w'.next = w'.cur
        /\ PendingKnown(w') /\ Settled(w') = Settled(w)
    BY <1>1, <1>2, WriteBehindKeeps
  <1> QED
    BY <1>3, ReceiverInv DEF SendAck, Close

LEMMA StepInv ==
  ASSUME IInv, [Next]_vars PROVE IInv'
  <1>1. CASE UNCHANGED vars
    <2>1. /\ w \in Receivers /\ PendingKnown(w)
          /\ wphase \in {"recv", "closed"} => w.next = w.cur
      BY Types DEF IInv, ReceiverKnown
    <2>2. UNCHANGED <<source, convert, r, rphase, hand, accepted, passed>>
          /\ w' = w /\ wphase' = wphase
      BY <1>1 DEF vars
    <2> QED
      BY <2>1, <2>2, ReceiverInv
  <1> QED
    BY <1>1, SendInv, GetBlockInv, AcknowledgedInv, AcceptInv, DuplicateInv, WriteInv
       DEF Next

LEMMA AlwaysIInv == Spec => []IInv
  <1>1. Init => IInv
    BY InitInv
  <1>2. IInv /\ [Next]_vars => IInv'
    BY StepInv
  <1> QED
    BY <1>1, <1>2, PTL DEF Spec

-----------------------------------------------------------------------------
(* The theorems.                                                           *)

\* The counters of both double buffers are BF_ALLOC, BF_FREE or a size up to
\* SEGSIZE, whatever the file.
THEOREM TypeCorrect == Spec => []TypeOK
  <1>1. IInv => TypeOK
    BY DEF IInv
  <1> QED
    BY <1>1, AlwaysIInv, PTL

\* read_ahead() leaves the block that may have to be sent again alone.
THEOREM BlockStays == Spec => []SentAgainUnchanged
  <1>1. IInv => SentAgainUnchanged
    BY DEF IInv, SenderKnown, SentAgainUnchanged, Holds
  <1> QED
    BY <1>1, AlwaysIInv, PTL

LEMMA PrefixOfConcat ==
  ASSUME NEW C, NEW s \in Seq(C), NEW t \in Seq(C) PROVE IsPrefix(s, s \o t)
  <1> DEFINE u == s \o t
  <1>1. /\ u \in Seq(C) /\ Len(u) = Len(s) + Len(t) /\ Len(s) \in Nat /\ Len(t) \in Nat
        /\ \A i \in 1 .. Len(s) + Len(t) : u[i] = IF i <= Len(s) THEN s[i] ELSE t[i - Len(s)]
    BY ConcatProperties, LenProperties
  <1> HIDE DEF u
  <1>2. \A i \in 1 .. Len(s) : u[i] = s[i] /\ s[i] \in C
    <2> TAKE i \in 1 .. Len(s)
    <2>1. i \in 1 .. Len(s) + Len(t) /\ i <= Len(s)
      BY <1>1
    <2> QED
      BY <1>1, <2>1, ElementOfSeq
  <1>3. 1 \in Int /\ Len(s) \in Int /\ \A i \in 1 .. Len(s) : u[i] \in C
    BY <1>1, <1>2
  <1>4. /\ SubSeq(u, 1, Len(s)) \in Seq(C)
        /\ Len(SubSeq(u, 1, Len(s))) = IF 1 <= Len(s) THEN Len(s) - 1 + 1 ELSE 0
        /\ \A i \in 1 .. Len(s) - 1 + 1 : SubSeq(u, 1, Len(s))[i] = u[1 + i - 1]
    BY <1>3, SubSeqProperties
  <1>5. Len(SubSeq(u, 1, Len(s))) = Len(s)
    BY <1>1, <1>4
  <1>6. ASSUME NEW i \in 1 .. Len(s) PROVE SubSeq(u, 1, Len(s))[i] = s[i]
    <2>1. i \in 1 .. Len(s) - 1 + 1 /\ 1 + i - 1 = i
      BY <1>1
    <2> QED
      BY <1>2, <1>4, <2>1
  <1>7. SubSeq(u, 1, Len(s)) = s
    BY <1>4, <1>5, <1>6, SeqEqual
  <1>8. SubSeq(s, 1, Len(s)) = s
    BY SubSeqFull
  <1> QED
    BY <1>1, <1>7, <1>8 DEF IsPrefix, u

\* When the receiver has the last block the blocks are all there is.
LEMMA WholeAtEnd ==
  ASSUME IInv, wphase \in {"last", "closed"} PROVE FlattenSeq(passed) = OnTheWire
  <1>1. accepted /\ Len(hand) < SegSize /\ rphase \notin {"request", "read"}
    BY DEF IInv, EndKnown
  <1>2. Drained(r) /\ Ahead(r) = << >>
    <2>1. rphase \in {"send", "wait", "end"}
      BY <1>1 DEF IInv, TypeOK
    <2> QED
      BY <1>1, <2>1 DEF IInv, EndKnown
  <1>3. Unseen = << >> /\ Left(r) = << >>
    BY <1>1, <1>2, DrainedHasNothingLeft DEF Unseen
  <1>4. << >> \o << >> = << >>
    BY EmptySeq, ConcatEmptySeq
  <1> DEFINE f == FlattenSeq(passed)
  <1>5. f \in Seq(Chars)
    BY Types
  <1>6. f \o (<< >> \o (<< >> \o << >>)) = OnTheWire
    BY <1>2, <1>3 DEF IInv, WireWhole
  <1> HIDE DEF f
  <1>7. f \o << >> = f
    BY <1>5, ConcatEmptySeq
  <1>8. f = OnTheWire
    BY <1>4, <1>6, <1>7
  <1> QED
    BY <1>8 DEF f

\* read_ahead() and its conversion cut the file, as it goes over the wire, into
\* blocks of SEGSIZE and a shorter one, for any file and size of block.
THEOREM BlocksCutFile == Spec => []CutsIntoBlocks
  <1>1. ASSUME IInv PROVE CutsIntoBlocks
    <2> DEFINE f == FlattenSeq(passed)
               x == Unseen
               a == Ahead(r)
               l == Left(r)
    <2>1. f \in Seq(Chars) /\ x \in Seq(Chars) /\ a \in Seq(Chars) /\ l \in Seq(Chars)
      BY <1>1, Types
    <2>2. f \o (x \o (a \o l)) = OnTheWire
      BY <1>1 DEF IInv, WireWhole
    <2> HIDE DEF f, x, a, l
    <2> DEFINE t == x \o (a \o l)
    <2>3. t \in Seq(Chars)
      <3>1. a \o l \in Seq(Chars)
        BY <2>1, ConcatProperties
      <3> DEFINE s == a \o l
      <3> HIDE DEF s
      <3>2. x \o s \in Seq(Chars)
        BY <2>1, <3>1, ConcatProperties DEF s
      <3> QED
        BY <3>2 DEF s
    <2> HIDE DEF t
    <2>4. IsPrefix(f, f \o t)
      BY <2>1, <2>3, PrefixOfConcat
    <2>5. IsPrefix(FlattenSeq(passed), OnTheWire)
      BY <2>2, <2>4 DEF t, f
    <2> QED
      BY <1>1, <2>5, WholeAtEnd DEF IInv, PassedFull, CutsIntoBlocks
  <1> QED
    BY <1>1, AlwaysIInv, PTL

\* Both conversions together give the file back, in either mode, wherever the
\* blocks cut it.
THEOREM FileComesBack == Spec => []RoundTrip
  <1>1. ASSUME IInv, wphase = "closed" PROVE w.file = source
    <2>1. FlattenSeq(passed) = OnTheWire
      BY <1>1, WholeAtEnd
    <2>2. Pending(w) = << >>
      BY <1>1 DEF IInv, ReceiverKnown, Pending
    <2>3. w.file \in Seq(Chars) /\ source \in Seq(Chars)
      BY <1>1 DEF IInv, TypeOK
    <2>4. CASE convert
      <3>1. Settled(w) = [file |-> w.file, prev |-> w.prev]
        BY <2>2, <2>4, DecodedEmpty DEF Settled
      <3>2. Settled(w) = Decoded([file |-> << >>, prev |-> NoChar], Encoding(source))
        BY <1>1, <2>1, <2>4 DEF IInv, FileKnown, OnTheWire
      <3>3. Settled(w).file = source
        BY <2>3, <3>2, DecodesEncoding
      <3> QED
        BY <3>1, <3>3
    <2>5. CASE ~convert
      <3> DEFINE q == w.file
      <3>1. q \o << >> = source
        BY <1>1, <2>1, <2>2, <2>5 DEF IInv, FileKnown, OnTheWire, Settled
      <3>2. q \in Seq(Chars)
        BY <2>3
      <3> HIDE DEF q
      <3>3. q \o << >> = q
        BY <3>2, ConcatEmptySeq
      <3> QED
        BY <3>1, <3>3 DEF q
    <2> QED
      BY <2>4, <2>5
  <1>2. IInv => RoundTrip
    BY <1>1 DEF RoundTrip
  <1> QED
    BY <1>2, AlwaysIInv, PTL

\* While the receiver waits for a packet, what it has accepted is in its file
\* and the buffer it receives into has nothing to lose.
THEOREM NothingOverwritten == Spec => []WrittenWhenWaiting
  <1>1. ASSUME IInv PROVE WrittenWhenWaiting
    <2>1. w \in Receivers /\ PendingKnown(w) /\ (wphase = "recv" => w.next = w.cur)
      BY <1>1, Types DEF IInv, ReceiverKnown
    <2>2. Cardinality({i \in Buffers : w.bfs[i].counter >= 0}) <= 1
      <3>1. w.cur \in Buffers /\ w.bfs[w.cur].counter = BF_ALLOC
        BY <2>1 DEF Receivers, PendingKnown
      <3>2. \A i \in Buffers : w.bfs[i].counter >= 0 => i = Other(w.cur)
        BY <3>1, OtherFacts DEF BF_ALLOC
      <3>3. CASE {i \in Buffers : w.bfs[i].counter >= 0} = {}
        BY <3>3, FS_EmptySet
      <3>4. CASE {i \in Buffers : w.bfs[i].counter >= 0} # {}
        <4>1. {i \in Buffers : w.bfs[i].counter >= 0} = {Other(w.cur)}
          BY <3>2, <3>4
        <4> QED
          BY <4>1, FS_Singleton
      <3> QED
        BY <3>3, <3>4
    <2>3. ASSUME wphase = "recv"
          PROVE  w.file = IF convert
                          THEN Decoded([file |-> << >>, prev |-> NoChar],
                                       FlattenSeq(passed)).file
                          ELSE FlattenSeq(passed)
      <3>1. Pending(w) = << >>
        BY <2>1, <2>3 DEF Pending
      <3>2. Settled(w).file = w.file
        <4> DEFINE q == w.file
        <4>1. q \in Seq(Chars)
          BY <2>1 DEF Receivers
        <4> HIDE DEF q
        <4>2. q \o << >> = q
          BY <4>1, ConcatEmptySeq
        <4> QED
          BY <3>1, <4>2, DecodedEmpty DEF Settled, q
      <3> QED
        BY <1>1, <3>2 DEF IInv, FileKnown
    <2>4. w.bfs[w.cur].counter = BF_ALLOC
      BY <2>1 DEF PendingKnown
    <2> QED
      BY <2>2, <2>3, <2>4 DEF WrittenWhenWaiting
  <1> QED
    BY <1>1, AlwaysIInv, PTL
=============================================================================
