------------------------------ MODULE CliProofs ------------------------------
(***************************************************************************)
(* Theorems about the command-line tool, for any arguments, whatever the   *)
(* tokens in them stand for, and any Spotify, throttle and thresholds.     *)
(* Facts about the encodings of any bytes and about titles come first, then *)
(* each property with the part of the inductive invariant it needs.        *)
(***************************************************************************)
EXTENDS Cli, SequenceTheorems, WellFoundedInduction, TLAPS

-----------------------------------------------------------------------------
(* The encoding of a search.  A recursive function is the one CHOOSE finds   *)
(* once there is one: take the least argument at which there would be none.  *)

\* A set of numbers that is not empty has a least element.
LEMMA Least ==
    ASSUME NEW T \in SUBSET Nat, T # {}
    PROVE  \E m \in T : \A k \in T : m <= k
<1>1. PICK m \in T : \A k \in T : ~(<<k, m>> \in OpToRel(<, Nat))
  BY NatLessThanWellFounded, WFMin
<1>2. \A k \in T : ~(k < m)
  BY <1>1 DEF OpToRel
<1> QED
  BY <1>2

\* The beginnings of a sequence of sequences, joined.
IsFlat(f, n, seqs) ==
    f = [i \in 1 .. n |-> IF i = 1 THEN seqs[i] ELSE f[i - 1] \o seqs[i]]

LEMMA FlatExists ==
    ASSUME NEW seqs, NEW n \in Nat \ {0}
    PROVE  \E f : IsFlat(f, n, seqs)
<1> DEFINE Bad == {k \in Nat \ {0} : ~\E f : IsFlat(f, k, seqs)}
<1> SUFFICES ASSUME Bad # {}
             PROVE  FALSE
  OBVIOUS
<1>1. PICK m \in Bad : \A k \in Bad : m <= k
  BY Least
<1>2. CASE m = 1
  <2>1. IsFlat([i \in 1 .. 1 |-> seqs[i]], 1, seqs)
    BY DEF IsFlat
  <2> QED
    BY <1>1, <1>2, <2>1
<1>3. CASE m # 1
  <2>1. m - 1 \in Nat \ {0} /\ ~(m <= m - 1)
    BY <1>1, <1>3
  <2>2. PICK g : IsFlat(g, m - 1, seqs)
    BY <1>1, <2>1
  <2> DEFINE f == [i \in 1 .. m |-> IF i = m THEN g[m - 1] \o seqs[m] ELSE g[i]]
  <2>3. ASSUME NEW i \in 1 .. m
        PROVE  f[i] = IF i = 1 THEN seqs[i] ELSE f[i - 1] \o seqs[i]
    <3>1. CASE i = m
      <4>1. m - 1 \in 1 .. m /\ m - 1 # m /\ m \in 1 .. m
        BY <2>1
      <4> QED
        BY <1>3, <3>1, <4>1
    <3>2. CASE i # m
      <4>1. i \in 1 .. m - 1 /\ (i # 1 => i - 1 \in 1 .. m /\ i - 1 # m)
        BY <1>1, <2>1, <3>2
      <4>2. g[i] = IF i = 1 THEN seqs[i] ELSE g[i - 1] \o seqs[i]
        BY <2>2, <4>1 DEF IsFlat
      <4> QED
        BY <3>2, <4>1, <4>2
    <3> QED
      BY <3>1, <3>2
  <2>4. IsFlat(f, m, seqs)
    BY <2>3 DEF IsFlat
  <2> QED
    BY <1>1, <2>4
<1> QED
  BY <1>2, <1>3

LEMMA FlattenIsFlat ==
    ASSUME NEW seqs, Len(seqs) \in Nat \ {0}
    PROVE  \E f : IsFlat(f, Len(seqs), seqs) /\ FlattenSeq(seqs) = f[Len(seqs)]
<1> DEFINE f == CHOOSE f : IsFlat(f, Len(seqs), seqs)
<1>1. IsFlat(f, Len(seqs), seqs)
  BY FlatExists
<1>2. FlattenSeq(seqs) = f[Len(seqs)]
  BY DEF FlattenSeq, IsFlat
<1> QED
  BY <1>1, <1>2

\* Where the i-th of them ends in the whole.
EndsAt(p, seqs, whole) ==
    /\ p \in [0 .. Len(seqs) -> Nat]
    /\ p[0] = 0 /\ Len(whole) = p[Len(seqs)]
    /\ \A i \in 1 .. Len(seqs) : p[i] = p[i - 1] + Len(seqs[i])
    /\ \A i \in 1 .. Len(seqs) : \A k \in 1 .. Len(seqs[i]) : whole[p[i - 1] + k] = seqs[i][k]

LEMMA FlattenLayout ==
    ASSUME NEW S, NEW seqs \in Seq(Seq(S)), Len(seqs) # 0
    PROVE  FlattenSeq(seqs) \in Seq(S) /\ \E p : EndsAt(p, seqs, FlattenSeq(seqs))
<1> DEFINE n == Len(seqs)
<1>1. n \in Nat \ {0} /\ \A i \in 1 .. n : seqs[i] \in Seq(S) /\ Len(seqs[i]) \in Nat
  BY LenProperties, ElementOfSeq
<1>2. PICK f : IsFlat(f, n, seqs) /\ FlattenSeq(seqs) = f[n]
  BY <1>1, FlattenIsFlat
<1> HIDE DEF n
<1>3. \A i \in 1 .. n : f[i] = IF i = 1 THEN seqs[i] ELSE f[i - 1] \o seqs[i]
  BY <1>2 DEF IsFlat
<1>4. \A i \in 1 .. n : f[i] \in Seq(S)
  <2> DEFINE Bad == {i \in 1 .. n : f[i] \notin Seq(S)}
  <2> SUFFICES ASSUME Bad # {}
               PROVE  FALSE
    OBVIOUS
  <2>1. Bad \in SUBSET Nat
    BY <1>1
  <2>2. PICK i \in Bad : \A k \in Bad : i <= k
    BY <2>1, Least
  <2>3. i # 1
    BY <1>1, <1>3, <2>2
  <2>4. i - 1 \in 1 .. n /\ ~(i <= i - 1)
    BY <1>1, <2>2, <2>3
  <2>5. f[i - 1] \in Seq(S) /\ seqs[i] \in Seq(S)
    BY <1>1, <2>2, <2>4
  <2>6. f[i - 1] \o seqs[i] \in Seq(S)
    BY <2>5, ConcatProperties
  <2>7. f[i] = f[i - 1] \o seqs[i]
    BY <1>3, <2>2, <2>3
  <2> QED
    BY <2>2, <2>6, <2>7
<1> DEFINE p == [i \in 0 .. n |-> IF i = 0 THEN 0 ELSE Len(f[i])]
<1>5. p \in [0 .. n -> Nat] /\ p[0] = 0 /\ Len(f[n]) = p[n]
  <2>1. \A i \in 0 .. n : i # 0 => i \in 1 .. n
    BY <1>1
  <2>2. \A i \in 1 .. n : Len(f[i]) \in Nat
    BY <1>4, LenProperties
  <2>3. 0 \in 0 .. n /\ n \in 0 .. n /\ n # 0
    BY <1>1
  <2> QED
    BY <2>1, <2>2, <2>3
<1>6. \A i \in 1 .. n : i \in 0 .. n /\ i # 0 /\ i - 1 \in 0 .. n /\ (i # 1 => i - 1 \in 1 .. n)
  BY <1>1
<1>7. ASSUME NEW i \in 1 .. n
      PROVE  /\ p[i] = Len(f[i]) /\ (i # 1 => p[i - 1] = Len(f[i - 1]))
             /\ (i = 1 => p[i - 1] = 0)
  BY <1>6
<1>8. ASSUME NEW i \in 1 .. n
      PROVE  p[i] = p[i - 1] + Len(seqs[i])
  <2>1. CASE i = 1
    BY <1>1, <1>3, <1>7, <2>1
  <2>2. CASE i # 1
    <3>1. Len(f[i - 1] \o seqs[i]) = Len(f[i - 1]) + Len(seqs[i])
      BY <1>1, <1>4, <1>6, <2>2, ConcatProperties
    <3> QED
      BY <1>3, <1>7, <2>2, <3>1
  <2> QED
    BY <2>1, <2>2
<1> HIDE DEF p
<1>9. ASSUME NEW i \in 1 .. n, NEW k \in 1 .. Len(seqs[i])
      PROVE  f[n][p[i - 1] + k] = seqs[i][k]
  <2> DEFINE at == p[i - 1] + k
             Bad == {j \in i .. n : ~(at \in 1 .. p[j] /\ f[j][at] = seqs[i][k])}
  <2>1. p[i - 1] \in Nat /\ k \in Nat \ {0} /\ k <= Len(seqs[i]) /\ Len(seqs[i]) \in Nat
    BY <1>1, <1>5, <1>6
  <2>2. SUFFICES ASSUME Bad # {}
                 PROVE  FALSE
    <3>1. n \in i .. n
      BY <1>1
    <3> QED
      BY <2>2, <3>1
  <2>3. Bad \in SUBSET Nat
    BY <1>1
  <2>4. PICK j \in Bad : \A l \in Bad : j <= l
    BY <2>2, <2>3, Least
  <2>5. j \in 1 .. n
    BY <1>1, <2>4
  <2> HIDE DEF Bad
  <2>6. f[j] = IF j = 1 THEN seqs[j] ELSE f[j - 1] \o seqs[j]
    BY <1>3, <2>5
  <2>7. CASE j = i
    <3>1. at \in 1 .. p[i]
      BY <1>5, <1>6, <1>8, <2>1
    <3>2. CASE i = 1
      BY <1>7, <2>1, <2>4, <2>6, <2>7, <3>1, <3>2 DEF Bad
    <3>3. CASE i # 1
      <4>1. p[i - 1] = Len(f[i - 1]) /\ f[i - 1] \in Seq(S) /\ seqs[i] \in Seq(S)
        BY <1>1, <1>4, <1>6, <1>7, <3>3
      <4>2. at \in 1 .. Len(f[i - 1]) + Len(seqs[i]) /\ ~(at <= Len(f[i - 1]))
            /\ at - Len(f[i - 1]) = k
        <5> DEFINE a == Len(f[i - 1])
                   b == Len(seqs[i])
        <5>1. at = a + k /\ a \in Nat /\ b \in Nat /\ k \in 1 .. b
          BY <2>1, <4>1
        <5> HIDE DEF a, b, at
        <5>2. at \in 1 .. a + b /\ ~(at <= a) /\ at - a = k
          BY <5>1
        <5> QED
          BY <5>2 DEF a, b
      <4>3. (f[i - 1] \o seqs[i])[at] = seqs[i][k]
        BY <4>1, <4>2, ConcatProperties
      <4> QED
        BY <2>4, <2>6, <2>7, <3>1, <3>3, <4>3 DEF Bad
    <3> QED
      BY <3>2, <3>3
  <2>8. CASE j # i
    <3>1. j - 1 \in i .. n /\ j - 1 \in 1 .. n /\ ~(j <= j - 1) /\ j # 1
      BY <1>1, <2>4, <2>8 DEF Bad
    <3>2. at \in 1 .. p[j - 1] /\ f[j - 1][at] = seqs[i][k]
      BY <2>4, <3>1 DEF Bad
    <3>3. p[j - 1] = Len(f[j - 1]) /\ f[j - 1] \in Seq(S) /\ seqs[j] \in Seq(S)
          /\ p[j] = p[j - 1] + Len(seqs[j]) /\ Len(seqs[j]) \in Nat /\ p[j - 1] \in Nat
      BY <1>1, <1>4, <1>5, <1>6, <1>7, <1>8, <2>5, <3>1
    <3>4. at \in 1 .. p[j] /\ at \in 1 .. Len(f[j - 1]) + Len(seqs[j]) /\ at <= Len(f[j - 1])
      <4> DEFINE a == p[j - 1]
                 b == Len(seqs[j])
      <4>1. a \in Nat /\ b \in Nat /\ p[j] = a + b /\ Len(f[j - 1]) = a /\ at \in 1 .. a
        BY <3>2, <3>3
      <4> HIDE DEF a, b, at
      <4>2. at \in 1 .. a + b /\ at <= a
        BY <4>1
      <4> QED
        BY <4>1, <4>2 DEF b
    <3> HIDE DEF at
    <3>5. (f[j - 1] \o seqs[j])[at] = f[j - 1][at]
      BY <3>3, <3>4, ConcatProperties
    <3> QED
      BY <2>4, <2>6, <3>1, <3>2, <3>4, <3>5 DEF Bad
  <2> QED
    BY <2>7, <2>8
<1>10. FlattenSeq(seqs) \in Seq(S) /\ Len(FlattenSeq(seqs)) = p[n]
  <2>1. n \in 1 .. n
    BY <1>1
  <2> QED
    BY <1>2, <1>4, <1>5, <2>1
<1>11. \A i \in 1 .. n : \A k \in 1 .. Len(seqs[i]) : FlattenSeq(seqs)[p[i - 1] + k] = seqs[i][k]
  BY <1>2, <1>9
<1>12. EndsAt(p, seqs, FlattenSeq(seqs))
  BY <1>5, <1>8, <1>10, <1>11 DEF n, EndsAt
<1> QED
  BY <1>10, <1>12

\* What PercentDecode has read from each place on.
Decodes(f, uri, i) ==
    f[i] = IF i > Len(uri) THEN <<>>
           ELSE IF uri[i] = Percent /\ i + 2 <= Len(uri)
                THEN <<16 * HexValue(uri[i + 1]) + HexValue(uri[i + 2])>> \o f[i + 3]
                ELSE <<uri[i]>> \o f[i + 1]
IsDecoding(f, uri) ==
    f = [i \in 1 .. Len(uri) + 1 |->
            IF i > Len(uri) THEN <<>>
            ELSE IF uri[i] = Percent /\ i + 2 <= Len(uri)
                 THEN <<16 * HexValue(uri[i + 1]) + HexValue(uri[i + 2])>> \o f[i + 3]
                 ELSE <<uri[i]>> \o f[i + 1]]

LEMMA DecodingExists ==
    ASSUME NEW uri, Len(uri) \in Nat
    PROVE  \E f : IsDecoding(f, uri)
<1> DEFINE last == Len(uri) + 1
           From(g, k) == /\ g = [i \in 1 .. last |-> g[i]]
                         /\ \A i \in k .. last : Decodes(g, uri, i)
           Bad == {d \in 0 .. last - 1 : ~\E g : From(g, last - d)}
<1>1. Bad = {}
  <2> SUFFICES ASSUME Bad # {}
               PROVE  FALSE
    OBVIOUS
  <2>1. Bad \in SUBSET Nat
    OBVIOUS
  <2>2. PICK d \in Bad : \A e \in Bad : d <= e
    BY <2>1, Least
  <2> DEFINE k == last - d
  <2>3. k \in 1 .. last /\ d \in 0 .. last - 1 /\ ~\E g : From(g, k)
    BY <2>2
  <2>4. CASE d = 0
    <3> DEFINE g == [i \in 1 .. last |-> <<>>]
    <3>1. \A i \in k .. last : i = last /\ i > Len(uri) /\ i \in 1 .. last
      BY <2>4
    <3>2. From(g, k)
      BY <3>1 DEF Decodes
    <3> QED
      BY <2>3, <3>2
  <2>5. CASE d # 0
    <3>1. d - 1 \in 0 .. last - 1 /\ ~(d <= d - 1) /\ last - (d - 1) = k + 1
      BY <2>3, <2>5
    <3>2. PICK g : From(g, k + 1)
      BY <2>2, <3>1
    <3> DEFINE x == IF uri[k] = Percent /\ k + 2 <= Len(uri)
                    THEN <<16 * HexValue(uri[k + 1]) + HexValue(uri[k + 2])>> \o g[k + 3]
                    ELSE <<uri[k]>> \o g[k + 1]
               h == [i \in 1 .. last |-> IF i = k THEN x ELSE g[i]]
    <3> HIDE DEF x
    <3>3. h = [i \in 1 .. last |-> h[i]]
      OBVIOUS
    <3>4. \A i \in 1 .. last : i # k => h[i] = g[i]
      OBVIOUS
    <3>5. Decodes(h, uri, k)
      <4>1. h[k] = x /\ ~(k > Len(uri))
        BY <2>3, <2>5
      <4>2. k + 1 \in 1 .. last /\ k + 1 # k
        BY <2>3, <4>1
      <4>3. k + 2 <= Len(uri) => k + 3 \in 1 .. last /\ k + 3 # k
        BY <2>3
      <4>4. h[k + 1] = g[k + 1] /\ (k + 2 <= Len(uri) => h[k + 3] = g[k + 3])
        BY <3>4, <4>2, <4>3
      <4> HIDE DEF h, k
      <4> QED
        BY <4>1, <4>4 DEF Decodes, x
    <3>6. ASSUME NEW i \in k + 1 .. last
          PROVE  Decodes(h, uri, i)
      <4>1. Decodes(g, uri, i)
        BY <3>2
      <4>2. i \in 1 .. last /\ i # k
        BY <2>3
      <4>3. ~(i > Len(uri)) => i + 1 \in 1 .. last /\ i + 1 # k
        BY <2>3
      <4>4. i + 2 <= Len(uri) => i + 3 \in 1 .. last /\ i + 3 # k
        BY <2>3
      <4>5. /\ h[i] = g[i] /\ (~(i > Len(uri)) => h[i + 1] = g[i + 1])
            /\ (i + 2 <= Len(uri) => h[i + 3] = g[i + 3])
        BY <3>4, <4>2, <4>3, <4>4
      <4> HIDE DEF h, k
      <4> QED
        BY <4>1, <4>5 DEF Decodes
    <3>7. \A i \in k .. last : i = k \/ i \in k + 1 .. last
      BY <2>3
    <3>8. From(h, k)
      <4> HIDE DEF h, k
      <4> QED
        BY <3>3, <3>5, <3>6, <3>7
    <3> QED
      BY <2>3, <3>8
  <2> QED
    BY <2>4, <2>5
<1>2. last - 1 \in 0 .. last - 1 /\ last - (last - 1) = 1
  OBVIOUS
<1>3. PICK g : From(g, 1)
  BY <1>1, <1>2
<1>4. IsDecoding(g, uri)
  BY <1>3 DEF IsDecoding, Decodes
<1> QED
  BY <1>4

LEMMA DecodeDecodes ==
    ASSUME NEW uri, Len(uri) \in Nat
    PROVE  \E f : /\ PercentDecode(uri) = f[1]
                  /\ \A i \in 1 .. Len(uri) + 1 : Decodes(f, uri, i)
<1> DEFINE f == CHOOSE f : IsDecoding(f, uri)
<1>1. IsDecoding(f, uri)
  BY DecodingExists
<1>2. PercentDecode(uri) = f[1]
  BY DEF PercentDecode, IsDecoding
<1>3. \A i \in 1 .. Len(uri) + 1 : Decodes(f, uri, i)
  BY <1>1 DEF IsDecoding, Decodes
<1> QED
  BY <1>2, <1>3

LEMMA HexRoundTrip ==
    ASSUME NEW c \in Bytes
    PROVE  /\ HexUpper(c \div 16) \in Bytes /\ HexUpper(c % 16) \in Bytes
           /\ 16 * HexValue(HexUpper(c \div 16)) + HexValue(HexUpper(c % 16)) = c
<1>1. c \div 16 \in 0 .. 15 /\ c % 16 \in 0 .. 15 /\ 16 * (c \div 16) + (c % 16) = c
  BY DEF Bytes
<1>2. \A n \in 0 .. 15 : HexUpper(n) \in Bytes /\ HexValue(HexUpper(n)) = n
  BY DEF HexUpper, HexValue, Between, Bytes
<1> QED
  BY <1>1, <1>2

\* Whatever the bytes of a query are, decoding its encoding gives them back.
LEMMA DecodeEncode ==
    ASSUME NEW in \in Seq(Bytes)
    PROVE  PercentDecode(PercentEncode(in)) = in
<1> DEFINE n == Len(in)
           code(c) == IF Unreserved(c) THEN <<c>>
                      ELSE <<Percent, HexUpper(c \div 16), HexUpper(c % 16)>>
           codes == [i \in DOMAIN in |-> code(in[i])]
           uri == PercentEncode(in)
<1>1. n \in Nat /\ DOMAIN in = 1 .. n /\ \A i \in 1 .. n : in[i] \in Bytes
  BY LenProperties, ElementOfSeq
<1>2. uri = FlattenSeq(codes)
  BY DEF PercentEncode
<1>3. CASE n = 0
  <2>1. in = <<>>
    BY <1>3, EmptySeq
  <2>2. codes = <<>> /\ Len(codes) = 0
    BY <1>1, <1>3
  <2>3. uri = <<>> /\ Len(uri) = 0
    BY <1>2, <2>2 DEF FlattenSeq
  <2>4. PICK f : PercentDecode(uri) = f[1] /\ \A i \in 1 .. Len(uri) + 1 : Decodes(f, uri, i)
    BY <2>3, DecodeDecodes
  <2>5. f[1] = <<>>
    <3> HIDE DEF uri
    <3>1. 1 \in 1 .. Len(uri) + 1 /\ 1 > Len(uri)
      BY <2>3
    <3> QED
      BY <2>4, <3>1 DEF Decodes
  <2> QED
    BY <2>1, <2>4, <2>5
<1>4. CASE n # 0
  <2>1. ASSUME NEW c \in Bytes
        PROVE  /\ code(c) \in Seq(Bytes) /\ (Unreserved(c) => Len(code(c)) = 1 /\ code(c)[1] = c)
               /\ ~Unreserved(c) => /\ Len(code(c)) = 3 /\ code(c)[1] = Percent
                                    /\ code(c)[2] = HexUpper(c \div 16)
                                    /\ code(c)[3] = HexUpper(c % 16)
    <3>1. CASE Unreserved(c)
      BY <3>1
    <3>2. CASE ~Unreserved(c)
      <4>1. HexUpper(c \div 16) \in Bytes /\ HexUpper(c % 16) \in Bytes
        BY HexRoundTrip
      <4>2. code(c) = <<Percent, HexUpper(c \div 16), HexUpper(c % 16)>>
        BY <3>2
      <4>3. Percent \in Bytes
        BY DEF Percent, Bytes
      <4> QED
        BY <3>2, <4>1, <4>2, <4>3
    <3> QED
      BY <3>1, <3>2
  <2> HIDE DEF code, n
  <2>2. codes \in Seq(Seq(Bytes)) /\ Len(codes) = n /\ \A i \in 1 .. n : codes[i] = code(in[i])
    BY <1>1, <2>1
  <2> HIDE DEF codes, uri
  <2>3. PICK p \in [0 .. n -> Nat] :
           /\ p[0] = 0 /\ \A i \in 1 .. n : p[i] = p[i - 1] + Len(codes[i])
           /\ uri \in Seq(Bytes) /\ Len(uri) = p[n]
           /\ \A i \in 1 .. n : \A k \in 1 .. Len(codes[i]) : uri[p[i - 1] + k] = codes[i][k]
    <3>1. Len(codes) # 0
      BY <1>4, <2>2
    <3>2. FlattenSeq(codes) \in Seq(Bytes) /\ \E p : EndsAt(p, codes, FlattenSeq(codes))
      <4>1. codes \in Seq(Seq(Bytes))
        BY <2>2
      <4> QED
        BY <3>1, <4>1, FlattenLayout, Zenon
    <3>3. Len(codes) = n /\ FlattenSeq(codes) = uri
      BY <1>2, <2>2
    <3> QED
      BY <3>2, <3>3 DEF EndsAt
  <2>4. PICK f : PercentDecode(uri) = f[1] /\ \A i \in 1 .. Len(uri) + 1 : Decodes(f, uri, i)
    BY <2>3, DecodeDecodes, LenProperties
  <2> DEFINE Read(i) == p[i] <= Len(uri) /\ f[p[i] + 1] = SubSeq(in, i + 1, n)
             Bad == {d \in 0 .. n : ~Read(n - d)}
  <2>5. Bad = {}
    <3> SUFFICES ASSUME Bad # {}
                 PROVE  FALSE
      OBVIOUS
    <3>1. Bad \in SUBSET Nat
      BY <1>1
    <3>2. PICK d \in Bad : \A e \in Bad : d <= e
      BY <3>1, Least
    <3>3. d \in 0 .. n /\ ~Read(n - d) /\ n - d \in 0 .. n
      BY <1>1, <3>2
    <3>4. CASE d = 0
      <4>1. n - d = n /\ n \in 0 .. n
        BY <1>1, <3>4
      <4>2. p[n] \in Nat /\ p[n] + 1 \in 1 .. Len(uri) + 1 /\ p[n] + 1 > Len(uri)
        BY <2>3, <4>1
      <4>3. f[p[n] + 1] = <<>>
        BY <2>4, <4>2 DEF Decodes
      <4>4. SubSeq(in, n + 1, n) = <<>>
        BY <1>1, SubSeqEmpty
      <4> QED
        <5>1. Read(n)
          <6>1. p[n] <= Len(uri)
            BY <2>3, <4>2
          <6> QED
            BY <4>3, <4>4, <6>1
        <5> HIDE DEF Read
        <5> QED
          BY <3>3, <4>1, <5>1
    <3>5. CASE d # 0
      <4> DEFINE i == (n - d) + 1
                 c == in[i]
                 at == p[i - 1] + 1
      <4>1. i \in 1 .. n /\ i - 1 = n - d /\ d - 1 \in 0 .. n /\ n - (d - 1) = i /\ ~(d <= d - 1)
        BY <1>1, <3>3, <3>5
      <4>2. Read(i)
        BY <3>2, <4>1
      <4> HIDE DEF i
      <4>3. /\ c \in Bytes /\ codes[i] = code(c) /\ p[i] = p[i - 1] + Len(code(c))
            /\ \A k \in 1 .. Len(code(c)) : uri[p[i - 1] + k] = code(c)[k]
        <5>1. in[i] \in Bytes /\ codes[i] = code(in[i])
          BY <1>1, <2>2, <4>1
        <5>2. /\ p[i] = p[i - 1] + Len(codes[i])
              /\ \A k \in 1 .. Len(codes[i]) : uri[p[i - 1] + k] = codes[i][k]
          BY <2>3, <4>1
        <5> QED
          BY <5>1, <5>2
      <4>4. p[i - 1] \in Nat /\ p[i] \in Nat /\ p[i] <= Len(uri) /\ Len(uri) \in Nat
        <5>1. i - 1 \in 0 .. n /\ i \in 0 .. n
          BY <3>3, <4>1
        <5> QED
          BY <2>3, <4>2, <5>1, LenProperties
      <4>5. SubSeq(in, i, n) = <<c>> \o SubSeq(in, i + 1, n)
        <5>1. n \in i .. Len(in) /\ i \in 1 .. Len(in)
          BY <1>1, <4>1 DEF n
        <5> QED
          BY <5>1, SubSeqRecursiveFirst
      <4>6. f[p[i] + 1] = SubSeq(in, i + 1, n)
        BY <4>2
      <4> HIDE DEF c, Read
      <4>7. CASE Unreserved(c)
        <5>1. Len(code(c)) = 1 /\ code(c)[1] = c /\ c # Percent
          BY <2>1, <4>3, <4>7 DEF Unreserved, Between, Percent
        <5>2. p[i] = p[i - 1] + 1 /\ uri[at] = c
          BY <4>3, <5>1
        <5>3. at \in 1 .. Len(uri) + 1 /\ ~(at > Len(uri)) /\ at = p[i]
          BY <4>4, <5>2
        <5> HIDE DEF at
        <5>4. f[at] = <<c>> \o f[at + 1]
          BY <2>4, <5>1, <5>2, <5>3 DEF Decodes
        <5>5. f[at] = SubSeq(in, i, n)
          BY <4>5, <4>6, <5>3, <5>4
        <5>6. p[i - 1] <= Len(uri)
          BY <4>4, <5>2
        <5> QED
          <6>1. (i - 1) + 1 = i
            BY <4>1
          <6>2. Read(i - 1)
            BY <5>5, <5>6, <6>1 DEF Read, at
          <6> QED
            BY <3>3, <4>1, <6>2
      <4>8. CASE ~Unreserved(c)
        <5>1. /\ Len(code(c)) = 3 /\ code(c)[1] = Percent
              /\ code(c)[2] = HexUpper(c \div 16) /\ code(c)[3] = HexUpper(c % 16)
          BY <2>1, <4>3, <4>8
        <5>2. p[i] = p[i - 1] + 3
          BY <4>3, <5>1
        <5>3. /\ uri[p[i - 1] + 1] = Percent
              /\ uri[p[i - 1] + 2] = HexUpper(c \div 16)
              /\ uri[p[i - 1] + 3] = HexUpper(c % 16)
          <6>1. \A k \in 1 .. 3 : uri[p[i - 1] + k] = code(c)[k]
            BY <4>3, <5>1
          <6> QED
            BY <5>1, <6>1
        <5>4. /\ at \in 1 .. Len(uri) + 1 /\ ~(at > Len(uri)) /\ at + 2 <= Len(uri)
              /\ at + 3 = p[i] + 1 /\ at + 1 = p[i - 1] + 2 /\ at + 2 = p[i - 1] + 3
          <6> DEFINE a == p[i - 1]
                     b == p[i]
                     l == Len(uri)
          <6>1. a \in Nat /\ b \in Nat /\ b <= l /\ l \in Nat /\ b = a + 3 /\ at = a + 1
            BY <4>4, <5>2
          <6> HIDE DEF a, b, l, at
          <6>2. /\ at \in 1 .. l + 1 /\ ~(at > l) /\ at + 2 <= l
                /\ at + 3 = b + 1 /\ at + 1 = a + 2 /\ at + 2 = a + 3
            BY <6>1
          <6> QED
            BY <6>2 DEF a, b, l
        <5>5. /\ uri[at] = Percent /\ uri[at + 1] = HexUpper(c \div 16)
              /\ uri[at + 2] = HexUpper(c % 16)
          BY <5>3, <5>4
        <5> HIDE DEF at
        <5>6. f[at] = <<16 * HexValue(uri[at + 1]) + HexValue(uri[at + 2])>> \o f[at + 3]
          BY <2>4, <5>4, <5>5 DEF Decodes
        <5>7. f[at] = <<c>> \o f[p[i] + 1]
          BY <4>3, <5>4, <5>5, <5>6, HexRoundTrip
        <5>8. f[at] = SubSeq(in, i, n)
          BY <4>5, <4>6, <5>7
        <5>9. p[i - 1] <= Len(uri)
          BY <4>4, <5>2
        <5> QED
          <6>1. (i - 1) + 1 = i
            BY <4>1
          <6>2. Read(i - 1)
            BY <5>8, <5>9, <6>1 DEF Read, at
          <6> QED
            BY <3>3, <4>1, <6>2
      <4> QED
        BY <4>7, <4>8
    <3> QED
      BY <3>4, <3>5
  <2>6. Read(0)
    <3>1. n \in 0 .. n /\ n - n = 0
      BY <1>1
    <3> QED
      BY <2>5, <3>1
  <2>7. f[1] = SubSeq(in, 1, n)
    BY <2>3, <2>6
  <2>8. SubSeq(in, 1, n) = in
    BY SubSeqFull DEF n
  <2> QED
    BY <2>4, <2>7, <2>8 DEF uri
<1> QED
  BY <1>3, <1>4

-----------------------------------------------------------------------------
(* The encoding of a JSON string.                                          *)

\* A reader that, at the code of each element, reads it and goes on behind its
\* code, has read them all.
LEMMA ReadsAll ==
    ASSUME NEW S, NEW in \in Seq(S), NEW p \in [0 .. Len(in) -> Nat], NEW f, NEW from \in Nat,
           f[from + p[Len(in)]] = <<>>,
           \A i \in 1 .. Len(in) : f[from + p[i - 1]] = <<in[i]>> \o f[from + p[i]]
    PROVE  f[from + p[0]] = in
<1> DEFINE n == Len(in)
           Bad == {d \in 0 .. n : f[from + p[n - d]] # SubSeq(in, n - d + 1, n)}
<1>1. n \in Nat
  BY LenProperties
<1> HIDE DEF n
<1>2. Bad = {}
  <2> SUFFICES ASSUME Bad # {}
               PROVE  FALSE
    OBVIOUS
  <2>1. Bad \in SUBSET Nat
    BY <1>1
  <2>2. PICK d \in Bad : \A e \in Bad : d <= e
    BY <2>1, Least
  <2>3. d \in 0 .. n /\ f[from + p[n - d]] # SubSeq(in, n - d + 1, n)
    BY <2>2
  <2>4. CASE d = 0
    <3>1. SubSeq(in, n + 1, n) = <<>>
      BY <1>1, SubSeqEmpty
    <3>2. n - d = n
      BY <1>1, <2>4
    <3> QED
      BY <2>3, <3>1, <3>2 DEF n
  <2>5. CASE d # 0
    <3> DEFINE i == n - d + 1
    <3>1. i \in 1 .. n /\ i - 1 = n - d /\ n - (d - 1) = i /\ d - 1 \in 0 .. n /\ ~(d <= d - 1)
      BY <1>1, <2>3, <2>5
    <3> HIDE DEF i
    <3>2. f[from + p[i]] = SubSeq(in, i + 1, n)
      <4>1. d - 1 \notin Bad
        BY <2>2, <3>1
      <4> QED
        BY <3>1, <4>1
    <3>3. f[from + p[i - 1]] = <<in[i]>> \o f[from + p[i]]
      BY <3>1 DEF n
    <3>4. SubSeq(in, i, n) = <<in[i]>> \o SubSeq(in, i + 1, n)
      <4>1. n \in i .. Len(in) /\ i \in 1 .. Len(in)
        BY <1>1, <3>1 DEF n
      <4> QED
        BY <4>1, SubSeqRecursiveFirst
    <3>5. n - d + 1 = i
      BY <3>1 DEF i
    <3> QED
      BY <2>3, <3>1, <3>2, <3>3, <3>4, <3>5
  <2> QED
    BY <2>4, <2>5
<1>3. f[from + p[0]] = SubSeq(in, 1, n)
  <2>1. n \in 0 .. n /\ n - n = 0 /\ 0 + 1 = 1
    BY <1>1
  <2>2. n \notin Bad
    BY <1>2
  <2>3. f[from + p[n - n]] = SubSeq(in, n - n + 1, n)
    BY <2>1, <2>2
  <2> QED
    BY <2>1, <2>3
<1>4. SubSeq(in, 1, n) = in
  BY SubSeqFull DEF n
<1> QED
  BY <1>3, <1>4

\* What Unescape has read from each place on.
Letters(c) == \E x \in DOMAIN Letter : c = Letter[x]
Meaning(c) == Named[CHOOSE x \in DOMAIN Letter : c = Letter[x]]
Unescapes(f, string, i) ==
    f[i] = IF i >= Len(string) THEN <<>>
           ELSE IF string[i] # Backslash THEN <<string[i]>> \o f[i + 1]
           ELSE IF string[i + 1] = 117 /\ i + 6 <= Len(string)
                THEN <<16 * HexValue(string[i + 4]) + HexValue(string[i + 5])>> \o f[i + 6]
           ELSE IF Letters(string[i + 1])
                THEN <<Meaning(string[i + 1])>> \o f[i + 2]
           ELSE <<string[i + 1]>> \o f[i + 2]
IsUnescaping(f, string) ==
    f = [i \in 2 .. Len(string) + 1 |->
            IF i >= Len(string) THEN <<>>
            ELSE IF string[i] # Backslash THEN <<string[i]>> \o f[i + 1]
            ELSE IF string[i + 1] = 117 /\ i + 6 <= Len(string)
                 THEN <<16 * HexValue(string[i + 4]) + HexValue(string[i + 5])>> \o f[i + 6]
            ELSE IF Letters(string[i + 1])
                 THEN <<Meaning(string[i + 1])>> \o f[i + 2]
            ELSE <<string[i + 1]>> \o f[i + 2]]

LEMMA UnescapingExists ==
    ASSUME NEW string, Len(string) \in Nat \ {0}
    PROVE  \E f : IsUnescaping(f, string)
<1> DEFINE last == Len(string) + 1
           From(g, k) == /\ g = [i \in 2 .. last |-> g[i]]
                         /\ \A i \in k .. last : Unescapes(g, string, i)
           Bad == {d \in 0 .. last - 2 : ~\E g : From(g, last - d)}
<1>1. Bad = {}
  <2> SUFFICES ASSUME Bad # {}
               PROVE  FALSE
    OBVIOUS
  <2>1. Bad \in SUBSET Nat
    OBVIOUS
  <2>2. PICK d \in Bad : \A e \in Bad : d <= e
    BY <2>1, Least
  <2> DEFINE k == last - d
  <2>3. k \in 2 .. last /\ d \in 0 .. last - 2 /\ ~\E g : From(g, k)
    BY <2>2
  <2>4. CASE d = 0
    <3> DEFINE g == [i \in 2 .. last |-> <<>>]
    <3>1. \A i \in k .. last : i = last /\ i >= Len(string) /\ i \in 2 .. last
      BY <2>3, <2>4
    <3>2. From(g, k)
      BY <3>1 DEF Unescapes
    <3> QED
      BY <2>3, <3>2
  <2>5. CASE d # 0
    <3>1. d - 1 \in 0 .. last - 2 /\ ~(d <= d - 1) /\ last - (d - 1) = k + 1
      BY <2>3, <2>5
    <3>2. PICK g : From(g, k + 1)
      BY <2>2, <3>1
    <3> DEFINE X(h) == IF k >= Len(string) THEN <<>>
                       ELSE IF string[k] # Backslash THEN <<string[k]>> \o h[k + 1]
                       ELSE IF string[k + 1] = 117 /\ k + 6 <= Len(string)
                       THEN <<16 * HexValue(string[k + 4]) + HexValue(string[k + 5])>> \o h[k + 6]
                       ELSE IF Letters(string[k + 1])
                       THEN <<Meaning(string[k + 1])>> \o h[k + 2]
                       ELSE <<string[k + 1]>> \o h[k + 2]
               x == X(g)
               h == [i \in 2 .. last |-> IF i = k THEN x ELSE g[i]]
    <3> HIDE DEF x
    <3>3. h = [i \in 2 .. last |-> h[i]]
      OBVIOUS
    <3>4. \A i \in 2 .. last : i # k => h[i] = g[i]
      OBVIOUS
    <3>5. Unescapes(h, string, k)
      <4>1. h[k] = x
        BY <2>3
      <4>2. ~(k >= Len(string)) => /\ k + 1 \in 2 .. last /\ k + 1 # k
                                   /\ k + 2 \in 2 .. last /\ k + 2 # k
        BY <2>3
      <4>3. k + 6 <= Len(string) => k + 6 \in 2 .. last /\ k + 6 # k
        BY <2>3
      <4>4. /\ ~(k >= Len(string)) => h[k + 1] = g[k + 1] /\ h[k + 2] = g[k + 2]
            /\ k + 6 <= Len(string) => h[k + 6] = g[k + 6]
        BY <3>4, <4>2, <4>3
      <4> HIDE DEF h, k
      <4> QED
        BY <4>1, <4>4 DEF Unescapes, x
    <3>6. ASSUME NEW i \in k + 1 .. last
          PROVE  Unescapes(h, string, i)
      <4>1. Unescapes(g, string, i)
        BY <3>2
      <4>2. i \in 2 .. last /\ i # k
        BY <2>3
      <4>3. ~(i >= Len(string)) => /\ i + 1 \in 2 .. last /\ i + 1 # k
                                   /\ i + 2 \in 2 .. last /\ i + 2 # k
        BY <2>3
      <4>4. i + 6 <= Len(string) => i + 6 \in 2 .. last /\ i + 6 # k
        BY <2>3
      <4>5. /\ h[i] = g[i]
            /\ ~(i >= Len(string)) => h[i + 1] = g[i + 1] /\ h[i + 2] = g[i + 2]
            /\ i + 6 <= Len(string) => h[i + 6] = g[i + 6]
        BY <3>4, <4>2, <4>3, <4>4
      <4> HIDE DEF h, k
      <4> QED
        BY <4>1, <4>5 DEF Unescapes
    <3>7. \A i \in k .. last : i = k \/ i \in k + 1 .. last
      BY <2>3
    <3>8. From(h, k)
      <4> HIDE DEF h, k
      <4> QED
        BY <3>3, <3>5, <3>6, <3>7
    <3> QED
      BY <2>3, <3>8
  <2> QED
    BY <2>4, <2>5
<1>2. last - 2 \in 0 .. last - 2 /\ last - (last - 2) = 2
  OBVIOUS
<1>3. PICK g : From(g, 2)
  BY <1>1, <1>2
<1>4. IsUnescaping(g, string)
  BY <1>3 DEF IsUnescaping, Unescapes
<1> QED
  BY <1>4

LEMMA UnescapeUnescapes ==
    ASSUME NEW string, Len(string) \in Nat \ {0}
    PROVE  \E f : /\ Unescape(string) = f[2]
                  /\ \A i \in 2 .. Len(string) + 1 : Unescapes(f, string, i)
<1> DEFINE f == CHOOSE f : IsUnescaping(f, string)
<1>1. IsUnescaping(f, string)
  BY UnescapingExists
<1>2. Unescape(string) = f[2]
  BY DEF Unescape, IsUnescaping, Letters, Meaning
<1>3. \A i \in 2 .. Len(string) + 1 : Unescapes(f, string, i)
  BY <1>1 DEF IsUnescaping, Unescapes
<1> QED
  BY <1>2, <1>3

\* The escapes, by what tells them apart.
LEMMA EscapeShape ==
    ASSUME NEW c \in Bytes
    PROVE  /\ Escape(c) \in Seq(Bytes)
           /\ \/ Escape(c) = <<Backslash, c>> /\ c # 117 /\ ~Letters(c)
              \/ \E l \in Bytes : /\ Escape(c) = <<Backslash, l>>
                                  /\ l # 117 /\ Letters(l) /\ Meaning(l) = c
              \/ \E a, b \in Bytes : /\ Escape(c) = <<Backslash, 117, 48, 48, a, b>>
                                     /\ 16 * HexValue(a) + HexValue(b) = c
              \/ Escape(c) = <<c>> /\ c # Backslash
<1> DEFINE names == {"b", "f", "n", "r", "t"}
<1>1. DOMAIN Named = names /\ DOMAIN Letter = names
  BY DEF Named, Letter
<1>2. /\ Named["b"] = 8 /\ Named["f"] = 12 /\ Named["n"] = 10 /\ Named["r"] = 13
      /\ Named["t"] = 9
      /\ Letter["b"] = 98 /\ Letter["f"] = 102 /\ Letter["n"] = 110 /\ Letter["r"] = 114
      /\ Letter["t"] = 116
  BY DEF Named, Letter, Tab
<1>3. ASSUME NEW x \in names
      PROVE  /\ Letter[x] \in Bytes /\ Letter[x] # 117 /\ Letters(Letter[x])
             /\ Meaning(Letter[x]) = Named[x]
  <2>1. Letter[x] \in Bytes /\ Letter[x] # 117
    BY <1>2 DEF Bytes
  <2>2. \A y \in names : Letter[x] = Letter[y] => y = x
    BY <1>2
  <2>3. (CHOOSE y \in DOMAIN Letter : Letter[x] = Letter[y]) = x
    BY <1>1, <2>2
  <2> QED
    BY <1>1, <2>1, <2>3 DEF Letters, Meaning
<1>4. CASE c \in {Quote, Backslash}
  <2> DEFINE E == Escape(c)
  <2>1. E = <<Backslash, c>>
    <3>1. /\ ~\E x \in DOMAIN Named : c = Named[x]
          /\ ~(c < 32)
      BY <1>1, <1>2, <1>4 DEF Quote, Backslash
    <3> QED
      BY <1>4, <3>1, Zenon DEF Escape
  <2>2. c # 117 /\ ~Letters(c) /\ Backslash \in Bytes
    BY <1>1, <1>2, <1>4 DEF Letters, Quote, Backslash, Bytes
  <2> QED
    BY <2>1, <2>2
<1>5. CASE \E x \in names : c = Named[x]
  <2> DEFINE x == CHOOSE x \in DOMAIN Named : c = Named[x]
  <2>1. x \in names /\ c = Named[x]
    BY <1>1, <1>5
  <2>2. c \notin {Quote, Backslash} /\ Backslash \in Bytes
    <3>1. \A y \in names : Named[y] # 34 /\ Named[y] # 92
      BY <1>2
    <3> HIDE DEF x
    <3>2. c # 34 /\ c # 92
      BY <2>1, <3>1, Zenon
    <3> QED
      BY <3>2 DEF Quote, Backslash, Bytes
  <2>3. Escape(c) = <<Backslash, Letter[x]>>
    BY <1>1, <1>5, <2>2 DEF Escape
  <2> HIDE DEF x
  <2>4. Letter[x] \in Bytes /\ Letter[x] # 117 /\ Letters(Letter[x]) /\ Meaning(Letter[x]) = c
    BY <1>3, <2>1
  <2> QED
    BY <2>2, <2>3, <2>4
<1>6. CASE c < 32 /\ ~\E x \in names : c = Named[x]
  <2> DEFINE a == HexLower(c \div 16)
             b == HexLower(c % 16)
  <2>1. c \notin {Quote, Backslash} /\ Backslash \in Bytes /\ 117 \in Bytes /\ 48 \in Bytes
    BY <1>6 DEF Quote, Backslash, Bytes
  <2>2. Escape(c) = <<Backslash, 117, 48, 48, a, b>>
    BY <1>1, <1>6, <2>1 DEF Escape
  <2>3. a \in Bytes /\ b \in Bytes /\ 16 * HexValue(a) + HexValue(b) = c
    <3>1. c \div 16 \in 0 .. 15 /\ c % 16 \in 0 .. 15 /\ 16 * (c \div 16) + (c % 16) = c
      BY DEF Bytes
    <3>2. \A n \in 0 .. 15 : HexLower(n) \in Bytes /\ HexValue(HexLower(n)) = n
      BY DEF HexLower, HexValue, Between, Bytes
    <3> QED
      BY <3>1, <3>2
  <2> HIDE DEF a, b
  <2>4. <<Backslash, 117, 48, 48, a, b>> \in Seq(Bytes)
    BY <2>1, <2>3
  <2> QED
    BY <2>2, <2>3, <2>4
<1>7. CASE c \notin {Quote, Backslash} /\ ~(c < 32) /\ ~\E x \in names : c = Named[x]
  <2>1. Escape(c) = <<c>>
    BY <1>1, <1>7 DEF Escape
  <2> QED
    BY <1>7, <2>1
<1> QED
  BY <1>4, <1>5, <1>6, <1>7

\* Whatever the bytes of a name are, reading the JSON string gives them back.
LEMMA UnescapeEscape ==
    ASSUME NEW in \in Seq(Bytes)
    PROVE  Unescape(AppendEscaped(in)) = in
<1> DEFINE n == Len(in)
           codes == [i \in DOMAIN in |-> Escape(in[i])]
           flat == JsonEscape(in)
           string == AppendEscaped(in)
<1>1. n \in Nat /\ DOMAIN in = 1 .. n /\ \A i \in 1 .. n : in[i] \in Bytes
  BY LenProperties, ElementOfSeq
<1>2. flat = FlattenSeq(codes)
  BY DEF JsonEscape
<1>3. codes \in Seq(Seq(Bytes)) /\ Len(codes) = n /\ \A i \in 1 .. n : codes[i] = Escape(in[i])
  BY <1>1, EscapeShape
<1> HIDE DEF n, codes, flat
<1>4. PICK p \in [0 .. n -> Nat] :
         /\ p[0] = 0 /\ \A i \in 1 .. n : p[i] = p[i - 1] + Len(codes[i])
         /\ flat \in Seq(Bytes) /\ Len(flat) = p[n]
         /\ \A i \in 1 .. n : \A k \in 1 .. Len(codes[i]) : flat[p[i - 1] + k] = codes[i][k]
  <2>1. CASE n # 0
    <3>1. FlattenSeq(codes) \in Seq(Bytes) /\ \E p : EndsAt(p, codes, FlattenSeq(codes))
      BY <1>3, <2>1, FlattenLayout, Zenon
    <3> QED
      BY <1>2, <1>3, <3>1 DEF EndsAt
  <2>2. CASE n = 0
    <3>1. codes = <<>>
      BY <1>3, <2>2, EmptySeq
    <3>2. flat = <<>>
      BY <1>2, <3>1 DEF FlattenSeq
    <3> DEFINE p == [i \in 0 .. n |-> 0]
    <3>3. p \in [0 .. n -> Nat] /\ p[0] = 0 /\ p[n] = 0 /\ 1 .. n = {}
      BY <2>2
    <3>4. flat \in Seq(Bytes) /\ Len(flat) = 0
      BY <3>2
    <3> HIDE DEF p
    <3> QED
      BY <3>3, <3>4
  <2> QED
    BY <2>1, <2>2
<1>5. /\ string \in Seq(Bytes) /\ Len(string) = p[n] + 2
      /\ \A k \in 1 .. p[n] : string[1 + k] = flat[k]
  <2> DEFINE q == <<Quote>>
             tail == flat \o q
             m == Len(flat)
  <2>1. q \in Seq(Bytes) /\ Len(q) = 1
    BY DEF Quote, Bytes
  <2>2. m \in Nat /\ m = p[n]
    BY <1>4, LenProperties
  <2>3. string = (q \o flat) \o q
    BY DEF AppendEscaped, flat
  <2> HIDE DEF q
  <2>4. /\ q \o flat \in Seq(Bytes) /\ Len(q \o flat) = 1 + m
        /\ \A k \in 1 .. 1 + m : (q \o flat)[k] = IF k <= 1 THEN q[k] ELSE flat[k - 1]
    <3>1. flat \in Seq(Bytes)
      BY <1>4
    <3>2. /\ q \o flat \in Seq(Bytes) /\ Len(q \o flat) = Len(q) + Len(flat)
          /\ \A k \in 1 .. Len(q) + Len(flat) :
                (q \o flat)[k] = IF k <= Len(q) THEN q[k] ELSE flat[k - Len(q)]
      BY <2>1, <3>1, ConcatProperties
    <3> QED
      BY <2>1, <3>2
  <2> DEFINE head == q \o flat
  <2> HIDE DEF head, m, string
  <2>5. /\ string \in Seq(Bytes) /\ Len(string) = Len(head) + Len(q)
        /\ \A k \in 1 .. Len(head) + Len(q) :
              string[k] = IF k <= Len(head) THEN head[k] ELSE q[k - Len(head)]
    BY <2>1, <2>3, <2>4, ConcatProperties DEF head
  <2>6. ASSUME NEW k \in 1 .. m
        PROVE  string[1 + k] = flat[k]
    <3>1. 1 + k \in 1 .. 1 + m /\ 1 + k \in 1 .. (1 + m) + 1 /\ ~(1 + k <= 1) /\ (1 + k) - 1 = k
          /\ 1 + k <= 1 + m
      BY <2>2
    <3>2. string[1 + k] = head[1 + k]
      BY <2>1, <2>4, <2>5, <3>1 DEF head
    <3>3. head[1 + k] = flat[k]
      BY <2>4, <3>1 DEF head
    <3> QED
      BY <3>2, <3>3
  <2> QED
    BY <2>1, <2>2, <2>4, <2>5, <2>6 DEF head
<1> HIDE DEF string
<1>6. p[n] \in Nat
  BY <1>1
<1>7. PICK f : /\ Unescape(string) = f[2]
               /\ \A i \in 2 .. Len(string) + 1 : Unescapes(f, string, i)
  BY <1>5, <1>6, UnescapeUnescapes
<1>8. f[2 + p[n]] = <<>>
  <2>1. 2 + p[n] \in 2 .. Len(string) + 1 /\ 2 + p[n] >= Len(string)
    BY <1>5, <1>6
  <2> QED
    BY <1>7, <2>1 DEF Unescapes
<1>9. \A i \in 0 .. n : p[i] <= p[n]
  <2> DEFINE Bad == {d \in 0 .. n : ~(p[n - d] <= p[n])}
  <2>1. Bad = {}
    <3> SUFFICES ASSUME Bad # {}
                 PROVE  FALSE
      OBVIOUS
    <3>1. Bad \in SUBSET Nat
      BY <1>1
    <3>2. PICK d \in Bad : \A e \in Bad : d <= e
      BY <3>1, Least
    <3> DEFINE i == n - d + 1
    <3>3. d # 0 /\ d \in 0 .. n
      BY <1>1, <1>6, <3>2
    <3>4. i \in 1 .. n /\ d - 1 \in 0 .. n /\ n - (d - 1) = i /\ i - 1 = n - d /\ ~(d <= d - 1)
      BY <1>1, <3>3
    <3>5. p[n - (d - 1)] <= p[n]
      BY <3>2, <3>4
    <3> HIDE DEF i
    <3>6. p[i] <= p[n] /\ p[i] = p[i - 1] + Len(codes[i]) /\ Len(codes[i]) \in Nat
      <4>1. codes[i] \in Seq(Bytes)
        BY <1>3, <3>4, ElementOfSeq
      <4> QED
        BY <1>4, <3>4, <3>5, <4>1, LenProperties
    <3>7. p[i - 1] \in Nat /\ p[i] \in Nat
      BY <1>1, <3>4
    <3>8. p[i - 1] <= p[n]
      BY <1>6, <3>6, <3>7
    <3> QED
      BY <3>2, <3>4, <3>8
  <2> HIDE DEF Bad
  <2>2. ASSUME NEW i \in 0 .. n
        PROVE  p[i] <= p[n]
    <3>1. n - i \in 0 .. n /\ n - (n - i) = i
      BY <1>1
    <3>2. n - i \notin Bad
      BY <2>1
    <3> QED
      BY <3>1, <3>2 DEF Bad
  <2> QED
    BY <2>2
<1>10. ASSUME NEW i \in 1 .. n
       PROVE  f[2 + p[i - 1]] = <<in[i]>> \o f[2 + p[i]]
  <2> DEFINE c == in[i]
             at == 2 + p[i - 1]
             len == Len(Escape(c))
  <2>1. c \in Bytes /\ codes[i] = Escape(c)
    BY <1>1, <1>3
  <2>2. i \in 0 .. n /\ i - 1 \in 0 .. n
    BY <1>1
  <2>3. p[i - 1] \in Nat /\ p[i] = p[i - 1] + len /\ p[i] <= p[n] /\ p[i] \in Nat
    BY <1>4, <1>9, <2>1, <2>2
  <2> HIDE DEF c, len
  <2>4. ASSUME NEW k \in 1 .. len
        PROVE  string[at + k - 1] = Escape(c)[k]
    <3>1. len \in Nat
      BY <2>1, EscapeShape, LenProperties DEF len
    <3>2. p[i - 1] + k \in 1 .. p[n] /\ at + k - 1 = 1 + (p[i - 1] + k)
      BY <1>6, <2>3, <3>1
    <3>3. flat[p[i - 1] + k] = Escape(c)[k]
      BY <1>4, <2>1 DEF len
    <3> QED
      BY <1>5, <3>2, <3>3
  <2>5. len \in Nat
    BY <2>1, EscapeShape, LenProperties DEF len
  <2>6. /\ at \in Nat /\ at + len = 2 + p[i] /\ at + len <= Len(string)
        /\ len # 0 => at \in 2 .. Len(string) + 1 /\ ~(at >= Len(string))
    <3> DEFINE a == p[i - 1]
               b == p[i]
               z == p[n]
               whole == Len(string)
    <3>1. a \in Nat /\ b = a + len /\ b <= z /\ b \in Nat /\ z \in Nat /\ whole = z + 2
      BY <1>5, <1>6, <2>3
    <3>2. at = 2 + a
      OBVIOUS
    <3> HIDE DEF a, b, z, whole, at
    <3>3. /\ at \in Nat /\ at + len = 2 + b /\ at + len <= whole
          /\ len # 0 => at \in 2 .. whole + 1 /\ ~(at >= whole)
      BY <2>5, <3>1, <3>2
    <3> QED
      BY <3>3 DEF b, whole
  <2> HIDE DEF at
  <2>7. len # 0 => Unescapes(f, string, at)
    BY <1>7, <2>6
  <2>8. CASE Escape(c) = <<Backslash, c>> /\ c # 117 /\ ~Letters(c)
    <3>1. len = 2 /\ Escape(c)[1] = Backslash /\ Escape(c)[2] = c
      BY <2>8 DEF len
    <3>2. at + 1 - 1 = at /\ at + 2 - 1 = at + 1 /\ 1 \in 1 .. 2 /\ 2 \in 1 .. 2
      BY <2>6
    <3>3. string[at] = Backslash /\ string[at + 1] = c
      BY <2>4, <3>1, <3>2
    <3>4. f[at] = <<c>> \o f[at + 2]
      BY <2>6, <2>7, <2>8, <3>1, <3>3 DEF Unescapes
    <3> QED
      BY <2>6, <3>1, <3>4 DEF at, c
  <2>9. CASE \E l \in Bytes : /\ Escape(c) = <<Backslash, l>>
                              /\ l # 117 /\ Letters(l) /\ Meaning(l) = c
    <3> PICK l \in Bytes : /\ Escape(c) = <<Backslash, l>>
                           /\ l # 117 /\ Letters(l) /\ Meaning(l) = c
      BY <2>9
    <3>1. len = 2 /\ Escape(c)[1] = Backslash /\ Escape(c)[2] = l
      BY DEF len
    <3>2. at + 1 - 1 = at /\ at + 2 - 1 = at + 1 /\ 1 \in 1 .. 2 /\ 2 \in 1 .. 2
      BY <2>6
    <3>3. string[at] = Backslash /\ string[at + 1] = l
      BY <2>4, <3>1, <3>2
    <3>4. f[at] = <<c>> \o f[at + 2]
      BY <2>6, <2>7, <3>1, <3>3 DEF Unescapes
    <3> QED
      BY <2>6, <3>1, <3>4 DEF at, c
  <2>10. CASE \E a, b \in Bytes : /\ Escape(c) = <<Backslash, 117, 48, 48, a, b>>
                                  /\ 16 * HexValue(a) + HexValue(b) = c
    <3> PICK a, b \in Bytes : /\ Escape(c) = <<Backslash, 117, 48, 48, a, b>>
                              /\ 16 * HexValue(a) + HexValue(b) = c
      BY <2>10
    <3>1. /\ len = 6 /\ Escape(c)[1] = Backslash /\ Escape(c)[2] = 117
          /\ Escape(c)[5] = a /\ Escape(c)[6] = b
      BY DEF len
    <3>2. /\ at + 1 - 1 = at /\ at + 2 - 1 = at + 1 /\ at + 5 - 1 = at + 4 /\ at + 6 - 1 = at + 5
          /\ 1 \in 1 .. 6 /\ 2 \in 1 .. 6 /\ 5 \in 1 .. 6 /\ 6 \in 1 .. 6
      BY <2>6
    <3>3. /\ string[at] = Backslash /\ string[at + 1] = 117
          /\ string[at + 4] = a /\ string[at + 5] = b
      BY <2>4, <3>1, <3>2
    <3>4. at + 6 <= Len(string) /\ ~(at >= Len(string))
      BY <2>6, <3>1
    <3>5. Unescapes(f, string, at)
      BY <2>7, <3>1
    <3>6. f[at] = <<c>> \o f[at + 6]
      BY <3>3, <3>4, <3>5 DEF Unescapes
    <3> QED
      BY <2>6, <3>1, <3>6 DEF at, c
  <2>11. CASE Escape(c) = <<c>> /\ c # Backslash
    <3>1. len = 1 /\ Escape(c)[1] = c
      BY <2>11 DEF len
    <3>2. at + 1 - 1 = at /\ 1 \in 1 .. 1
      BY <2>6
    <3>3. string[at] = c
      BY <2>4, <3>1, <3>2
    <3>4. f[at] = <<c>> \o f[at + 1]
      BY <2>6, <2>7, <2>11, <3>1, <3>3 DEF Unescapes
    <3> QED
      BY <2>6, <3>1, <3>4 DEF at, c
  <2> QED
    BY <2>1, <2>8, <2>9, <2>10, <2>11, EscapeShape
<1>11. f[2 + p[0]] = in
  BY <1>8, <1>10, ReadsAll DEF n
<1> QED
  BY <1>4, <1>7, <1>11 DEF string

-----------------------------------------------------------------------------
(* The parts of a title.                                                   *)

LEMMA MinAndMax ==
    ASSUME NEW n \in Nat, NEW K \in SUBSET (1 .. n), K # {}
    PROVE  /\ Min(K) \in K /\ Max(K) \in K
           /\ \A k \in K : Min(K) <= k /\ k <= Max(K)
<1>1. K \in SUBSET Nat
  OBVIOUS
<1>2. PICK least \in K : \A k \in K : least <= k
  BY <1>1, Least
<1>3. Min(K) \in K /\ \A k \in K : Min(K) <= k
  BY <1>2 DEF Min
<1> DEFINE Below == {n - k : k \in K}
<1>4. Below \in SUBSET Nat /\ Below # {}
  OBVIOUS
<1>5. PICK d \in Below : \A e \in Below : d <= e
  BY <1>4, Least
<1>6. PICK most \in K : d = n - most
  BY <1>5
<1>7. \A k \in K : most >= k
  <2> TAKE k \in K
  <2>1. n - most <= n - k /\ most \in Nat /\ k \in Nat
    BY <1>1, <1>5, <1>6
  <2> HIDE DEF Below
  <2> QED
    BY <2>1
<1>8. Max(K) \in K /\ \A k \in K : Max(K) >= k
  BY <1>7 DEF Max
<1> QED
  BY <1>1, <1>3, <1>8

\* A slice of a text, byte by byte.
LEMMA Slice ==
    ASSUME NEW s \in Seq(Bytes), NEW lo \in 1 .. Len(s), NEW hi \in lo .. Len(s)
    PROVE  /\ SubSeq(s, lo, hi) \in Seq(Bytes)
           /\ Len(SubSeq(s, lo, hi)) = hi - lo + 1
           /\ DOMAIN SubSeq(s, lo, hi) = 1 .. hi - lo + 1
           /\ \A k \in 1 .. hi - lo + 1 : SubSeq(s, lo, hi)[k] = s[lo + k - 1]
           /\ \A k \in lo .. hi : /\ k - lo + 1 \in 1 .. hi - lo + 1
                                  /\ SubSeq(s, lo, hi)[k - lo + 1] = s[k]
<1> DEFINE last == Len(s)
<1>1. last \in Nat
  BY LenProperties
<1>2. lo \in 1 .. last /\ hi \in lo .. last
  OBVIOUS
<1>3. \A k \in 1 .. last : s[k] \in Bytes
  BY ElementOfSeq
<1> HIDE DEF last
<1>4. lo \in Int /\ hi \in Int /\ lo <= hi /\ \A k \in lo .. hi : s[k] \in Bytes
  BY <1>1, <1>2, <1>3
<1> DEFINE t == SubSeq(s, lo, hi)
<1>5. /\ t \in Seq(Bytes) /\ Len(t) = IF lo <= hi THEN hi - lo + 1 ELSE 0
      /\ \A k \in 1 .. hi - lo + 1 : t[k] = s[lo + k - 1]
  BY <1>4, SubSeqProperties
<1>6. DOMAIN t = 1 .. Len(t)
  BY <1>5, LenProperties
<1> HIDE DEF t
<1>7. \A k \in lo .. hi : k - lo + 1 \in 1 .. hi - lo + 1 /\ lo + (k - lo + 1) - 1 = k
  BY <1>4
<1>8. \A k \in lo .. hi : t[k - lo + 1] = s[k]
  BY <1>5, <1>7
<1> QED
  BY <1>4, <1>5, <1>6, <1>7, <1>8 DEF t

LEMMA SaysBetween ==
    ASSUME NEW s \in Seq(Bytes), NEW lo \in 1 .. Len(s) + 1, NEW hi \in 0 .. Len(s)
    PROVE  Says(SubSeq(s, lo, hi)) <=> \E k \in lo .. hi : s[k] \notin Blanks
<1> DEFINE t == SubSeq(s, lo, hi)
<1>0. Len(s) \in Nat
  BY LenProperties
<1>1. CASE hi < lo
  <2>1. t = <<>>
    BY <1>0, <1>1, SubSeqEmpty
  <2>2. lo .. hi = {} /\ DOMAIN t = {}
    BY <1>0, <1>1, <2>1
  <2> HIDE DEF t
  <2> QED
    BY <2>2 DEF Says, t
<1>2. CASE lo <= hi
  <2>1. lo \in 1 .. Len(s) /\ hi \in lo .. Len(s)
    BY <1>0, <1>2
  <2>2. /\ DOMAIN t = 1 .. hi - lo + 1
        /\ \A k \in 1 .. hi - lo + 1 : t[k] = s[lo + k - 1]
        /\ \A k \in lo .. hi : k - lo + 1 \in 1 .. hi - lo + 1 /\ t[k - lo + 1] = s[k]
    BY <2>1, Slice
  <2>3. \A k \in 1 .. hi - lo + 1 : lo + k - 1 \in lo .. hi
    BY <1>0, <1>2
  <2> HIDE DEF t
  <2>4. ASSUME NEW k \in lo .. hi, s[k] \notin Blanks
        PROVE  Says(t)
    BY <2>2, <2>4 DEF Says
  <2>5. ASSUME Says(t)
        PROVE  \E k \in lo .. hi : s[k] \notin Blanks
    BY <2>2, <2>3, <2>5 DEF Says
  <2> QED
    BY <2>4, <2>5 DEF t
<1> QED
  BY <1>0, <1>1, <1>2

\* Trimming a slice finds its first and its last sign that is not blank.
TrimsTo(s, lo, hi, u, v) ==
    /\ u \in lo .. hi /\ v \in u .. hi
    /\ s[u] \notin Blanks /\ s[v] \notin Blanks
    /\ \A k \in lo .. hi : k < u \/ k > v => s[k] \in Blanks

LEMMA TrimSlice ==
    ASSUME NEW s \in Seq(Bytes), NEW lo \in 1 .. Len(s), NEW hi \in lo .. Len(s),
           \E k \in lo .. hi : s[k] \notin Blanks
    PROVE  \E u, v \in Nat : /\ TrimsTo(s, lo, hi, u, v)
                             /\ TrimSpaces(SubSeq(s, lo, hi)) = SubSeq(s, u, v)
<1> DEFINE t == SubSeq(s, lo, hi)
           n == hi - lo + 1
           K == {i \in DOMAIN t : t[i] \notin {Blank, Tab}}
           a == Min(K)
           b == Max(K)
           u == lo + a - 1
           v == lo + b - 1
<1>0. Len(s) \in Nat /\ lo \in Nat /\ hi \in Nat /\ lo >= 1 /\ lo <= hi /\ hi <= Len(s)
  BY LenProperties
<1>1. /\ t \in Seq(Bytes) /\ Len(t) = n /\ DOMAIN t = 1 .. n
      /\ \A k \in 1 .. n : t[k] = s[lo + k - 1]
      /\ \A k \in lo .. hi : k - lo + 1 \in 1 .. n /\ t[k - lo + 1] = s[k]
  BY Slice
<1> HIDE DEF t
<1>2. n \in Nat /\ K \in SUBSET (1 .. n) /\ K # {}
  <2>1. n \in Nat
    BY <1>0
  <2> HIDE DEF n
  <2>2. PICK k \in lo .. hi : s[k] \notin Blanks
    OBVIOUS
  <2>3. k - lo + 1 \in K
    BY <1>1, <2>2 DEF Blanks
  <2> QED
    BY <1>1, <2>1, <2>3
<1> HIDE DEF n
<1>3. a \in K /\ b \in K /\ \A k \in K : a <= k /\ k <= b
  BY <1>2, MinAndMax
<1>4. a \in 1 .. n /\ b \in 1 .. n /\ a <= b /\ t[a] \notin Blanks /\ t[b] \notin Blanks
  BY <1>1, <1>3 DEF Blanks
<1>5. \A k \in 1 .. n : k < a \/ k > b => t[k] \in Blanks
  <2> TAKE k \in 1 .. n
  <2>1. k \in K => a <= k /\ k <= b
    BY <1>3
  <2>2. k \notin K => t[k] \in Blanks
    BY <1>1 DEF Blanks
  <2> HIDE DEF K, a, b
  <2> QED
    BY <1>4, <2>1, <2>2
<1>6. TrimSpaces(t) = SubSeq(t, a, b)
  BY <1>2 DEF TrimSpaces
<1> HIDE DEF K, a, b
<1>7. u \in lo .. hi /\ v \in u .. hi /\ u \in Nat /\ v \in Nat
  BY <1>0, <1>4 DEF n
<1>8. s[u] \notin Blanks /\ s[v] \notin Blanks
  BY <1>1, <1>4
<1>9. ASSUME NEW k \in lo .. hi, k < u \/ k > v
      PROVE  s[k] \in Blanks
  <2>1. k - lo + 1 < a \/ k - lo + 1 > b
    BY <1>0, <1>4, <1>9
  <2> QED
    BY <1>1, <1>5, <2>1
<1>10. SubSeq(t, a, b) = SubSeq(s, u, v)
  <2>1. lo \in 1 .. Len(s) /\ hi \in 1 .. Len(s) /\ a \in 1 .. hi - lo + 1 /\ b \in 1 .. hi - lo + 1
    BY <1>0, <1>4 DEF n
  <2> QED
    BY <2>1, SubSeqOfSubSeq DEF t
<1> HIDE DEF u, v
<1> QED
  BY <1>6, <1>7, <1>8, <1>9, <1>10 DEF TrimsTo, t

LEMMA PadsSlice ==
    ASSUME NEW s \in Seq(Bytes), NEW lo \in 1 .. Len(s), NEW hi \in lo .. Len(s),
           NEW u \in Nat, NEW v \in Nat, TrimsTo(s, lo, hi, u, v)
    PROVE  Pads(SubSeq(s, lo, hi), SubSeq(s, u, v))
<1> DEFINE t == SubSeq(s, lo, hi)
           name == SubSeq(s, u, v)
           m == v - u + 1
           n == u - lo
<1>0. /\ Len(s) \in Nat /\ lo \in Nat /\ hi \in Nat /\ lo >= 1 /\ lo <= hi /\ hi <= Len(s)
      /\ lo <= u /\ u <= v /\ v <= hi
  BY LenProperties DEF TrimsTo
<1>1. /\ t \in Seq(Bytes) /\ Len(t) = hi - lo + 1 /\ DOMAIN t = 1 .. hi - lo + 1
      /\ \A k \in 1 .. hi - lo + 1 : t[k] = s[lo + k - 1]
  BY Slice
<1>2. u \in 1 .. Len(s) /\ v \in u .. Len(s)
  BY <1>0
<1>3. name \in Seq(Bytes) /\ Len(name) = m /\ \A k \in 1 .. m : name[k] = s[u + k - 1]
  BY <1>2, Slice
<1>4. SubSeq(t, n + 1, n + m) = name
  <2>1. /\ lo \in 1 .. Len(s) /\ hi \in 1 .. Len(s)
        /\ n + 1 \in 1 .. hi - lo + 1 /\ n + m \in 1 .. hi - lo + 1
        /\ lo + (n + 1) - 1 = u /\ lo + (n + m) - 1 = v
    BY <1>0
  <2> DEFINE first == n + 1
             last == n + m
  <2>2. /\ first \in 1 .. hi - lo + 1 /\ last \in 1 .. hi - lo + 1
        /\ lo + first - 1 = u /\ lo + last - 1 = v
    BY <2>1
  <2> HIDE DEF first, last
  <2>3. SubSeq(t, first, last) = SubSeq(s, lo + first - 1, lo + last - 1)
    BY <2>1, <2>2, SubSeqOfSubSeq DEF t
  <2> QED
    BY <2>2, <2>3 DEF first, last
<1>5. m \in Nat /\ m >= 1 /\ n \in 0 .. (hi - lo + 1) - m /\ u + 1 - 1 = u /\ u + m - 1 = v
  BY <1>0
<1>6. ASSUME NEW k \in 1 .. hi - lo + 1, k \notin n + 1 .. n + m
      PROVE  t[k] \in Blanks
  <2>1. lo + k - 1 \in lo .. hi /\ (lo + k - 1 < u \/ lo + k - 1 > v)
    BY <1>0, <1>6
  <2> QED
    BY <1>1, <2>1 DEF TrimsTo
<1> HIDE DEF t, name, m, n
<1>7. 1 \in 1 .. m /\ m \in 1 .. m
  BY <1>5
<1>8. name[1] = s[u] /\ name[m] = s[v]
  BY <1>3, <1>5, <1>7
<1>9. name # <<>> /\ name[1] \notin Blanks /\ name[Len(name)] \notin Blanks
  BY <1>3, <1>5, <1>8 DEF TrimsTo
<1> QED
  BY <1>1, <1>3, <1>4, <1>5, <1>6, <1>9 DEF Pads, t, name

LEMMA SeparatorAt ==
    ASSUME NEW s \in Seq(Bytes), NEW i \in 1 .. Len(s) - 2
    PROVE  i \in Separators(s) <=> s[i] = Blank /\ s[i + 1] = 45 /\ s[i + 2] = Blank
<1> DEFINE t == SubSeq(s, i, i + 2)
           last == Len(s)
<1>1. last \in Nat
  BY LenProperties
<1>2. i \in 1 .. last /\ i + 2 \in i .. last /\ (i + 2) - i + 1 = 3
  BY <1>1
<1>3. t \in Seq(Bytes) /\ Len(t) = 3 /\ \A k \in 1 .. 3 : t[k] = s[i + k - 1]
  BY <1>2, Slice
<1>4. /\ 1 \in 1 .. 3 /\ 2 \in 1 .. 3 /\ 3 \in 1 .. 3
      /\ i + 1 - 1 = i /\ i + 2 - 1 = i + 1 /\ i + 3 - 1 = i + 2
  OBVIOUS
<1>5. t[1] = s[i] /\ t[2] = s[i + 1] /\ t[3] = s[i + 2]
  BY <1>3, <1>4
<1> DEFINE sep == <<Blank, 45, Blank>>
<1>6. /\ sep \in Seq(Bytes) /\ Len(sep) = 3
      /\ sep[1] = Blank /\ sep[2] = 45 /\ sep[3] = Blank
  BY DEF Blank, Bytes
<1> HIDE DEF t, sep
<1>7. t = sep <=> t[1] = sep[1] /\ t[2] = sep[2] /\ t[3] = sep[3]
  <2>1. ASSUME t[1] = sep[1], t[2] = sep[2], t[3] = sep[3]
        PROVE  t = sep
    <3>1. \A k \in 1 .. 3 : k = 1 \/ k = 2 \/ k = 3
      OBVIOUS
    <3>2. \A k \in 1 .. Len(t) : t[k] = sep[k]
      BY <1>3, <2>1, <3>1
    <3> QED
      BY <1>3, <1>6, <3>2, SeqEqual
  <2> QED
    BY <2>1
<1>8. i \in Separators(s) <=> t = sep
  BY DEF Separators, kSeparator, t, sep
<1> QED
  BY <1>5, <1>6, <1>7, <1>8

\* The names Spotify's window has when nothing plays, and in an advertisement,
\* do not divide.
LEMMA NoHyphen ==
    \A s \in {Spotify, Spotify \o <<Blank>> \o Free,
              Spotify \o <<Blank>> \o Premium, Advertisement} :
        \A i \in 1 .. Len(s) : s[i] # 45
<1> DEFINE Rest == Nat \ {45}
           blank == <<Blank>>
<1>1. Spotify \in Seq(Rest) /\ blank \in Seq(Rest) /\ Free \in Seq(Rest)
  BY DEF Spotify, Free, Blank
<1>2. Premium \in Seq(Rest) /\ Advertisement \in Seq(Rest)
  BY DEF Premium, Advertisement
<1> HIDE DEF Rest, blank
<1>3. Spotify \o blank \in Seq(Rest)
  BY <1>1, ConcatProperties
<1>4. (Spotify \o blank) \o Free \in Seq(Rest) /\ (Spotify \o blank) \o Premium \in Seq(Rest)
  BY <1>1, <1>2, <1>3, ConcatProperties
<1>5. ASSUME NEW s \in Seq(Rest), NEW i \in 1 .. Len(s)
      PROVE  s[i] # 45
  BY <1>5, ElementOfSeq DEF Rest
<1>6. ASSUME NEW s \in {Spotify, Spotify \o <<Blank>> \o Free,
                        Spotify \o <<Blank>> \o Premium, Advertisement}
      PROVE  s \in Seq(Rest)
  BY <1>1, <1>2, <1>4 DEF blank
<1> QED
  BY <1>5, <1>6

\* What the parser makes of a title is what the title says.
LEMMA TitleTells ==
    ASSUME NEW raw \in Seq(Bytes), Empty = <<>>,
           NEW artist, artist = ParseWindowTitle(raw).artist,
           NEW title, title = ParseWindowTitle(raw).title
    PROVE  /\ artist \in Seq(Bytes) /\ title \in Seq(Bytes)
           /\ \/ Dividers(raw) = {} /\ artist = <<>> /\ title = <<>>
              \/ \E d \in Dividers(raw) : /\ Pads(SubSeq(raw, 1, d - 1), artist)
                                          /\ Pads(SubSeq(raw, d + 3, Len(raw)), title)
<1> DEFINE text == TrimSpaces(raw)
           found == Separators(text)
           first == TrimSpaces(SubSeq(text, 1, Min(found) - 1))
           second == TrimSpaces(SubSeq(text, Min(found) + 3, Len(text)))
           idle == text \in {Spotify, Spotify \o <<Blank>> \o Free,
                             Spotify \o <<Blank>> \o Premium}
           ad == text = Advertisement
           track == found # {} /\ first # <<>> /\ second # <<>>
           last == Len(raw)
<1>0. last \in Nat /\ SubSeq(raw, 1, last) = raw
  BY LenProperties, SubSeqFull
<1>1. ParseWindowTitle(raw) =
        CASE idle -> IdleTitle
          [] ad -> AdTitle
          [] track -> TrackTitle(first, second)
          [] OTHER -> OtherTitle
  BY DEF ParseWindowTitle
<1> HIDE DEF idle, ad, track
<1>2. ~track => /\ artist = <<>> /\ artist \in Seq(Bytes)
                /\ title = <<>> /\ title \in Seq(Bytes)
  BY <1>1 DEF IdleTitle, AdTitle, OtherTitle
<1>3. track /\ ~idle /\ ~ad => artist = first /\ title = second
  BY <1>1 DEF TrackTitle
<1>4. CASE ~Says(raw)
  <2>1. \A k \in 1 .. last : raw[k] \in Blanks
    BY <1>4, LenProperties DEF Says
  <2>2. text = <<>>
    BY <1>4 DEF Says, TrimSpaces, Blanks
  <2>3. found = {}
    <3>1. 1 .. Len(text) - 2 = {}
      BY <2>2
    <3> QED
      BY <3>1 DEF Separators
  <2>4. Dividers(raw) = {}
    <3> SUFFICES ASSUME NEW d \in Dividers(raw)
                 PROVE  FALSE
      OBVIOUS
    <3>1. d \in 1 .. last - 2 /\ Says(SubSeq(raw, 1, d - 1))
      BY DEF Dividers, Separators
    <3>2. 1 \in 1 .. last + 1 /\ d - 1 \in 0 .. last
      BY <1>0, <3>1
    <3>3. PICK k \in 1 .. d - 1 : raw[k] \notin Blanks
      BY <3>1, <3>2, SaysBetween
    <3>4. k \in 1 .. last
      BY <1>0, <3>1
    <3> QED
      BY <2>1, <3>3, <3>4
  <2> QED
    BY <1>2, <2>3, <2>4 DEF track
<1>5. CASE Says(raw)
  <2>1. PICK k \in 1 .. last : raw[k] \notin Blanks
    BY <1>5, LenProperties DEF Says
  <2>2. 1 \in 1 .. last /\ last \in 1 .. last
    BY <1>0, <2>1
  <2>3. PICK a \in Nat, b \in Nat : TrimsTo(raw, 1, last, a, b) /\ text = SubSeq(raw, a, b)
    <3>1. 1 \in 1 .. Len(raw) /\ last \in 1 .. Len(raw)
      BY <2>2
    <3>2. \E u, v \in Nat : /\ TrimsTo(raw, 1, last, u, v)
                            /\ TrimSpaces(SubSeq(raw, 1, last)) = SubSeq(raw, u, v)
      <4> HIDE DEF last
      <4> QED
        BY <2>1, <3>1, TrimSlice
    <3> QED
      BY <1>0, <3>2
  <2>4. /\ a \in 1 .. last /\ b \in a .. last
        /\ raw[a] \notin Blanks /\ raw[b] \notin Blanks
        /\ \A i \in 1 .. last : i < a \/ i > b => raw[i] \in Blanks
    BY <2>3 DEF TrimsTo
  <2> DEFINE n == b - a + 1
  <2>5. /\ text \in Seq(Bytes) /\ Len(text) = n
        /\ \A i \in 1 .. n : text[i] = raw[a + i - 1]
    BY <2>3, <2>4, Slice
  <2> HIDE DEF text
  <2>6. n \in Nat /\ n >= 1 /\ a \in Nat /\ b \in Nat /\ a >= 1 /\ a <= b /\ b <= last
    BY <1>0, <2>4
  <2>7. ASSUME NEW i \in 1 .. n - 2
        PROVE  i \in found <=> a + i - 1 \in Separators(raw)
    <3>1. /\ i \in 1 .. n /\ i + 1 \in 1 .. n /\ i + 2 \in 1 .. n
          /\ a + (i + 1) - 1 = (a + i - 1) + 1 /\ a + (i + 2) - 1 = (a + i - 1) + 2
          /\ a + i - 1 \in 1 .. last - 2 /\ i \in 1 .. Len(text) - 2
      BY <1>0, <2>5, <2>6
    <3>2. /\ text[i] = raw[a + i - 1] /\ text[i + 1] = raw[(a + i - 1) + 1]
          /\ text[i + 2] = raw[(a + i - 1) + 2]
      BY <2>5, <3>1
    <3> DEFINE d == a + i - 1
    <3>3. d \in 1 .. Len(raw) - 2
      BY <3>1
    <3> HIDE DEF d, n
    <3>4. i \in Separators(text) <=> text[i] = Blank /\ text[i + 1] = 45 /\ text[i + 2] = Blank
      BY <2>5, <3>1, SeparatorAt
    <3>5. d \in Separators(raw) <=> raw[d] = Blank /\ raw[d + 1] = 45 /\ raw[d + 2] = Blank
      BY <3>3, SeparatorAt
    <3> QED
      BY <3>2, <3>4, <3>5 DEF d
  <2>8. found \subseteq 1 .. n - 2
    BY <2>5 DEF Separators
  <2> HIDE DEF n
  \* A place that has signs on both sides lies in the trimmed text.
  <2>9. ASSUME NEW j \in 1 .. last - 2, NEW k1 \in 1 .. j - 1, raw[k1] \notin Blanks
        PROVE  a < j
    <3>1. k1 \in 1 .. last /\ ~(k1 < a) /\ k1 < j
      BY <1>0, <2>4, <2>9
    <3> QED
      BY <2>6, <3>1
  <2>10. CASE found = {}
    <3>1. Dividers(raw) = {}
      <4> SUFFICES ASSUME NEW d \in Dividers(raw)
                   PROVE  FALSE
        OBVIOUS
      <4>1. /\ d \in 1 .. last - 2 /\ d \in Separators(raw)
            /\ Says(SubSeq(raw, 1, d - 1)) /\ Says(SubSeq(raw, d + 3, last))
        BY DEF Dividers, Separators
      <4>2. 1 \in 1 .. last + 1 /\ d - 1 \in 0 .. last /\ d + 3 \in 1 .. last + 1
            /\ last \in 0 .. last
        BY <1>0, <4>1
      <4>3. PICK k1 \in 1 .. d - 1 : raw[k1] \notin Blanks
        BY <4>1, <4>2, SaysBetween
      <4>4. PICK k2 \in d + 3 .. last : raw[k2] \notin Blanks
        BY <4>1, <4>2, SaysBetween
      <4>5. a < d
        BY <2>9, <4>1, <4>3
      <4>6. k2 \in 1 .. last /\ ~(k2 > b) /\ k2 >= d + 3
        BY <1>0, <2>4, <4>1, <4>4
      <4>7. d - a + 1 \in 1 .. n - 2 /\ a + (d - a + 1) - 1 = d
        BY <1>0, <2>6, <4>1, <4>5, <4>6 DEF n
      <4> QED
        BY <2>7, <2>10, <4>1, <4>7
    <3> QED
      BY <1>2, <2>10, <3>1 DEF track
  <2>11. CASE found # {}
    <3> DEFINE f == Min(found)
               d == a + f - 1
    <3>1. n - 2 \in Nat
      BY <2>6, <2>8, <2>11
    <3>2. f \in found /\ \A j \in found : f <= j
      BY <2>8, <2>11, <3>1, MinAndMax
    <3> HIDE DEF f, found
    <3>3. f \in 1 .. n - 2 /\ f \in 1 .. Len(text) - 2
      BY <2>5, <2>8, <3>2
    <3>4. text[f] = Blank /\ text[f + 1] = 45 /\ text[f + 2] = Blank
      BY <2>5, <3>2, <3>3, SeparatorAt DEF found
    <3>5. /\ f \in 1 .. n /\ f + 1 \in 1 .. n /\ f + 2 \in 1 .. n /\ 1 \in 1 .. n
          /\ n \in 1 .. n
      BY <2>6, <3>3
    <3>6. text[1] = raw[a] /\ text[n] = raw[b]
      <4>1. a + 1 - 1 = a /\ a + n - 1 = b
        BY <2>6 DEF n
      <4> QED
        BY <2>5, <3>5, <4>1
    <3>7. text[f] \in Blanks /\ text[f + 2] \in Blanks
      BY <3>4 DEF Blanks
    <3>8. f # 1 /\ f + 2 # n
      BY <2>4, <3>6, <3>7
    <3>9. f >= 2 /\ f + 3 <= n /\ f \in Nat
      BY <2>6, <3>3, <3>8
    <3>10. /\ d \in 1 .. last - 2 /\ a <= d - 1 /\ d + 3 <= b /\ d \in Nat
           /\ a + 1 - 1 = a /\ a + (f - 1) - 1 = d - 1
           /\ a + (f + 3) - 1 = d + 3 /\ a + n - 1 = b
      BY <1>0, <2>6, <3>9 DEF n
    <3>11. d \in Separators(raw)
      BY <2>7, <3>2, <3>3
    <3> HIDE DEF d
    <3>12. SubSeq(text, 1, f - 1) = SubSeq(raw, a, d - 1)
      <4> DEFINE m == f - 1
      <4>1. /\ a \in 1 .. Len(raw) /\ b \in 1 .. Len(raw)
            /\ 1 \in 1 .. b - a + 1 /\ m \in 1 .. b - a + 1
            /\ a + 1 - 1 = a /\ a + m - 1 = d - 1
        BY <1>0, <2>6, <3>9, <3>10 DEF n
      <4> HIDE DEF m
      <4>2. SubSeq(SubSeq(raw, a, b), 1, m) = SubSeq(raw, a + 1 - 1, a + m - 1)
        BY <4>1, SubSeqOfSubSeq
      <4> QED
        BY <2>3, <4>1, <4>2 DEF m
    <3>13. SubSeq(text, f + 3, Len(text)) = SubSeq(raw, d + 3, b)
      <4> DEFINE m == f + 3
      <4>1. /\ a \in 1 .. Len(raw) /\ b \in 1 .. Len(raw)
            /\ n \in 1 .. b - a + 1 /\ m \in 1 .. b - a + 1
            /\ a + m - 1 = d + 3 /\ a + n - 1 = b
        BY <1>0, <2>6, <3>9, <3>10 DEF n
      <4> HIDE DEF m, n
      <4>2. SubSeq(SubSeq(raw, a, b), m, n) = SubSeq(raw, a + m - 1, a + n - 1)
        BY <4>1, SubSeqOfSubSeq
      <4> QED
        BY <2>3, <2>5, <4>1, <4>2 DEF m
    <3>14. /\ a \in 1 .. last /\ d - 1 \in a .. last /\ a \in a .. d - 1
           /\ d + 3 \in 1 .. last /\ b \in d + 3 .. last /\ b \in d + 3 .. b
      BY <1>0, <2>6, <3>10
    <3>15. PICK u1 \in Nat, v1 \in Nat :
             TrimsTo(raw, a, d - 1, u1, v1) /\ first = SubSeq(raw, u1, v1)
      <4> DEFINE lo == a
                 hi == d - 1
      <4>1. lo \in 1 .. Len(raw) /\ hi \in lo .. Len(raw) /\ a \in lo .. hi
        BY <3>14
      <4> HIDE DEF lo, hi
      <4>2. \E u, v \in Nat : /\ TrimsTo(raw, lo, hi, u, v)
                              /\ TrimSpaces(SubSeq(raw, lo, hi)) = SubSeq(raw, u, v)
        BY <2>4, <4>1, TrimSlice
      <4> QED
        BY <3>12, <4>2 DEF lo, hi, f
    <3>16. PICK u2 \in Nat, v2 \in Nat :
             TrimsTo(raw, d + 3, b, u2, v2) /\ second = SubSeq(raw, u2, v2)
      <4> DEFINE lo == d + 3
                 hi == b
      <4>1. lo \in 1 .. Len(raw) /\ hi \in lo .. Len(raw) /\ b \in lo .. hi
        BY <3>14
      <4> HIDE DEF lo, hi
      <4>2. \E u, v \in Nat : /\ TrimsTo(raw, lo, hi, u, v)
                              /\ TrimSpaces(SubSeq(raw, lo, hi)) = SubSeq(raw, u, v)
        BY <2>4, <4>1, TrimSlice
      <4> QED
        BY <3>13, <4>2 DEF lo, hi, f
    <3> HIDE DEF first, second
    <3>17. TrimsTo(raw, 1, d - 1, u1, v1)
      <4>1. /\ u1 \in a .. d - 1 /\ v1 \in u1 .. d - 1
            /\ raw[u1] \notin Blanks /\ raw[v1] \notin Blanks
            /\ \A i \in a .. d - 1 : i < u1 \/ i > v1 => raw[i] \in Blanks
        BY <3>15 DEF TrimsTo
      <4>2. ASSUME NEW i \in 1 .. d - 1, i < u1 \/ i > v1
            PROVE  raw[i] \in Blanks
        <5>1. i \in 1 .. last /\ (i < a \/ i \in a .. d - 1)
          BY <1>0, <2>6, <3>10
        <5> QED
          BY <2>4, <4>1, <4>2, <5>1
      <4>3. u1 \in 1 .. d - 1
        BY <2>6, <3>10, <4>1
      <4> QED
        BY <4>1, <4>2, <4>3 DEF TrimsTo
    <3>18. TrimsTo(raw, d + 3, last, u2, v2)
      <4>1. /\ u2 \in d + 3 .. b /\ v2 \in u2 .. b
            /\ raw[u2] \notin Blanks /\ raw[v2] \notin Blanks
            /\ \A i \in d + 3 .. b : i < u2 \/ i > v2 => raw[i] \in Blanks
        BY <3>16 DEF TrimsTo
      <4>2. ASSUME NEW i \in d + 3 .. last, i < u2 \/ i > v2
            PROVE  raw[i] \in Blanks
        <5>1. i \in 1 .. last /\ (i > b \/ i \in d + 3 .. b)
          BY <1>0, <2>6, <3>10
        <5> QED
          BY <2>4, <4>1, <4>2, <5>1
      <4>3. u2 \in d + 3 .. last /\ v2 \in u2 .. last
        BY <1>0, <2>6, <3>10, <4>1
      <4> QED
        BY <4>1, <4>2, <4>3 DEF TrimsTo
    <3>19. 1 \in 1 .. Len(raw) /\ d - 1 \in 1 .. Len(raw) /\ Len(raw) \in d + 3 .. Len(raw)
      BY <1>0, <2>6, <3>10, <3>14
    <3>20. Pads(SubSeq(raw, 1, d - 1), first)
      BY <3>15, <3>17, <3>19, PadsSlice
    <3>21. Pads(SubSeq(raw, d + 3, Len(raw)), second)
      BY <3>14, <3>16, <3>18, <3>19, PadsSlice
    <3>22. track /\ ~idle /\ ~ad
      <4>1. first # <<>> /\ second # <<>>
        BY <3>20, <3>21 DEF Pads
      <4>2. \E i \in 1 .. Len(text) : text[i] = 45
        BY <2>5, <3>4, <3>5
      <4>3. text \notin {Spotify, Spotify \o <<Blank>> \o Free,
                         Spotify \o <<Blank>> \o Premium, Advertisement}
        BY <4>2, NoHyphen, Zenon
      <4> QED
        BY <2>11, <4>1, <4>3 DEF track, idle, ad
    <3>23. d \in Dividers(raw)
      <4>1. Says(SubSeq(raw, 1, d - 1))
        BY <2>4, <3>14, <3>15, <3>17, <3>19, SaysBetween DEF TrimsTo
      <4>2. Says(SubSeq(raw, d + 3, last))
        BY <1>0, <2>4, <3>14, <3>18, <3>19, SaysBetween DEF TrimsTo
      <4>3. ASSUME NEW j \in Separators(raw), j < d, Says(SubSeq(raw, 1, j - 1))
            PROVE  FALSE
        <5>1. j \in 1 .. last - 2
          BY DEF Separators
        <5>2. 1 \in 1 .. last + 1 /\ j - 1 \in 0 .. last
          BY <1>0, <5>1
        <5>3. PICK k1 \in 1 .. j - 1 : raw[k1] \notin Blanks
          BY <4>3, <5>2, SaysBetween
        <5>4. a < j
          BY <2>9, <5>1, <5>3
        <5>5. j - a + 1 \in 1 .. n - 2 /\ a + (j - a + 1) - 1 = j /\ ~(f <= j - a + 1)
          BY <2>6, <3>3, <3>9, <3>10, <4>3, <5>1, <5>4 DEF d
        <5>6. j - a + 1 \in found
          BY <2>7, <5>5
        <5> QED
          BY <3>2, <5>5, <5>6
      <4> QED
        BY <3>11, <4>1, <4>2, <4>3 DEF Dividers
    <3>24. first \in Seq(Bytes)
      <4>1. u1 \in 1 .. Len(raw) /\ v1 \in u1 .. Len(raw)
        BY <1>0, <2>6, <3>10, <3>17 DEF TrimsTo
      <4> QED
        BY <3>15, <4>1, Slice
    <3>25. second \in Seq(Bytes)
      <4>1. u2 \in 1 .. Len(raw) /\ v2 \in u2 .. Len(raw)
        BY <1>0, <2>6, <3>10, <3>18 DEF TrimsTo
      <4> QED
        BY <3>16, <4>1, Slice
    <3> QED
      BY <1>3, <3>20, <3>21, <3>22, <3>23, <3>24, <3>25
  <2> QED
    BY <2>10, <2>11
<1> QED
  BY <1>4, <1>5

-----------------------------------------------------------------------------
(* The tool, with what is assumed of its constants.                          *)

AudioTheorems == INSTANCE AudioSessionProofs

USE CliAssumption

LEMMA ThreadsApart == "main" # "worker" /\ "handler" # "worker"
  OBVIOUS

-----------------------------------------------------------------------------
(* When the worker runs.                                                   *)

\* The worker runs from StartSources to Join and is in no callback when it has
\* ended; url and search never start it.
OneThreadEach == emit = [t \in Threads |-> emit[t]]
StartedBetween ==
    place \in {"parse", "seed", "sources", "teardown", "done"} => owner = "stopped" /\ pc = "ended"
OpensUnstarted ==
    cmd \in {"url", "search"} =>
        place \in {"act", "done"} /\ owner = "stopped" /\ pc = "ended"
EndedSilent == pc = "ended" => Idle("worker")
JoinsInPlace == owner \in {"notify", "join"} => place = "join"

WorkerInv == OneThreadEach /\ StartedBetween /\ OpensUnstarted /\ EndedSilent /\ JoinsInPlace

LEMMA WorkerInvInit == Init => WorkerInv
  BY DEF Init, Audio!Init, WorkerInv, OneThreadEach, StartedBetween, OpensUnstarted,
         EndedSilent, JoinsInPlace, Idle, Threads

LEMMA WorkerInvEmit ==
    ASSUME WorkerInv, NEW t \in Threads, EmitStep(t)
    PROVE  WorkerInv'
<1>1. /\ UNCHANGED <<place, cmd, owner, pc>>
      /\ OneThreadEach' /\ \A u \in Threads \ {t} : emit'[u] = emit[u]
  BY DEF WorkerInv, OneThreadEach, EmitStep, Snapshot, EmitSize, EmitCopy, EmitWrite,
       EmitNewline, EmitFrame, main, library, world, audio, worker
<1>2. ~Idle(t)
  BY DEF Idle, Silent, EmitStep, Snapshot, EmitSize, EmitCopy, EmitWrite, EmitNewline, Writes
<1> QED
  BY <1>1, <1>2 DEF WorkerInv, StartedBetween, OpensUnstarted, EndedSilent, JoinsInPlace, Idle,
       Silent, Threads

\* The worker may end only at the head of its loop, and then publishes nothing.
LEMMA WorkerInvWorker ==
    ASSUME WorkerInv, WorkerStep
    PROVE  WorkerInv'
<1>1. /\ UNCHANGED <<place, cmd, rest, owner, report, titleFrag>>
      /\ pc # "ended" /\ Idle("worker")
  BY DEF WorkerStep, main, library, Audio!WorkerStep, Audio!Exit, Audio!BeginPoll, Audio!Release,
         Audio!KeepSession, Audio!Resolve, Audio!ResolveFails, Audio!Measures,
         Audio!MeasureNothing, Audio!MeasureSession, Audio!MeasurePartly,
         Audio!MeasureExpired, Audio!Apply,
         Audio!NotifyAudible, Audio!CountTick, Audio!Sleep, Audio!control
<1>2. CASE pc' # "ended"
  <2>1. OneThreadEach'
    BY DEF WorkerInv, WorkerStep, Publishes, OneThreadEach
  <2> QED
    BY <1>1, <1>2, <2>1 DEF WorkerInv, StartedBetween, OpensUnstarted, EndedSilent,
       JoinsInPlace
<1>3. CASE pc' = "ended"
  <2>1. pc = "loop" /\ UNCHANGED applied
    BY <1>1, <1>3 DEF WorkerStep, Audio!WorkerStep, Audio!Exit, Audio!BeginPoll, Audio!Release,
         Audio!KeepSession, Audio!Resolve, Audio!ResolveFails, Audio!Measures,
         Audio!MeasureNothing, Audio!MeasureSession, Audio!MeasurePartly,
         Audio!MeasureExpired, Audio!Apply,
         Audio!NotifyAudible, Audio!CountTick, Audio!Sleep, Audio!reports
  <2>2. Latest' = Latest
    BY <1>1, <2>1 DEF Latest, AudioFragment
  <2>3. Publishes("worker", <<>>)
    BY <2>1 DEF WorkerStep
  <2>4. emit' = [emit EXCEPT !["worker"] = Silent]
    <3>1. Fired(Latest, Latest) = <<>>
      BY DEF Fired
    <3>2. <<>> \o <<>> = <<>>
      BY EmptySeq, ConcatEmptySeq
    <3>3. Notification(<<>>, Latest) = Silent
      BY DEF Notification
    <3> QED
      BY <2>2, <2>3, <3>1, <3>2, <3>3 DEF Publishes
  <2> QED
    BY <1>1, <2>4 DEF WorkerInv, OneThreadEach, StartedBetween, OpensUnstarted, EndedSilent,
       JoinsInPlace, Idle, Threads
<1> QED
  BY <1>2, <1>3

LEMMA WorkerInvMain ==
    ASSUME WorkerInv, MainStep
    PROVE  WorkerInv'
<1> USE DEF WorkerInv, StartedBetween, OpensUnstarted, EndedSilent, JoinsInPlace, Goto, Stays,
       MainFrame, Exit,
            main, library, stdout, world, worker, audio
<1>1. CASE Refuse \/ NewFails
  BY <1>1 DEF Refuse, NewFails, OneThreadEach, Idle
<1>2. CASE New
  BY <1>2 DEF New, OneThreadEach, Idle
<1>3. CASE Seed
  BY <1>3 DEF Seed, OneThreadEach, Idle
<1>4. CASE StartSources
  BY <1>4 DEF StartSources, Audio!Start, OneThreadEach, Idle
<1>5. CASE Detected \/ Sleeps \/ GivesUp
  BY <1>5 DEF Detected, Sleeps, GivesUp, OneThreadEach, Idle
<1>6. CASE PrintJson \/ Baseline
  BY <1>6, ThreadsApart DEF PrintJson, Baseline, EmitFromMain, OneThreadEach, Idle, Threads
<1>7. CASE PrintText \/ Shown
  BY <1>7 DEF PrintText, Shown, OneThreadEach, Idle
<1>8. CASE Connect \/ Disconnect
  BY <1>8 DEF Connect, Disconnect, OneThreadEach, Idle
<1>9. CASE AskSession \/ AskNobody
  BY <1>9 DEF AskSession, AskNobody, Transport, Transports, Asks, Returns, FallsBack,
       OneThreadEach, Idle
<1>10. CASE PostKey
  BY <1>10 DEF PostKey, Returns, OneThreadEach, Idle
<1>11. CASE Seek
  BY <1>11 DEF Seek, Asks, Returns, OneThreadEach, Idle
<1>12. CASE Volume
  BY <1>12 DEF Volume, Adjusts, Returns, OneThreadEach, Idle
<1>13. CASE ReadMuted
  BY <1>13 DEF ReadMuted, OneThreadEach, Idle
<1>14. CASE Mute
  BY <1>14 DEF Mute, SetMuted, Adjusts, Returns, OneThreadEach, Idle
<1>15. CASE Open
  BY <1>15 DEF Open, OneThreadEach, Idle
<1>16. CASE BeginStop
  BY <1>16 DEF BeginStop, Audio!BeginStop, OneThreadEach, Idle
<1>17. CASE Notify
  BY <1>17 DEF Notify, Audio!Notify, OneThreadEach, Idle
<1>18. CASE Join
  BY <1>18 DEF Join, Audio!Join, OneThreadEach, Idle
<1>19. CASE Teardown
  BY <1>19 DEF Teardown, OneThreadEach, Idle
<1>20. CASE EmitStep("main")
  BY <1>20, WorkerInvEmit DEF Threads
<1> QED
  BY <1>1, <1>2, <1>3, <1>4, <1>5, <1>6, <1>7, <1>8, <1>9, <1>10, <1>11, <1>12, <1>13, <1>14,
     <1>15, <1>16, <1>17, <1>18, <1>19, <1>20 DEF MainStep

LEMMA WorkerInvOthers ==
    ASSUME WorkerInv, TimeOut \/ HandlerStep \/ Environment \/ UNCHANGED vars
    PROVE  WorkerInv'
<1>1. CASE TimeOut
  BY <1>1 DEF TimeOut, Audio!TimeOut, Audio!TimePasses, Audio!control, main, stdout, WorkerInv,
              OneThreadEach, StartedBetween, OpensUnstarted, EndedSilent, JoinsInPlace, Idle
<1>2. CASE Refresh
  BY <1>2, ThreadsApart
     DEF Refresh, Publishes, main, audio, worker, WorkerInv, OneThreadEach, StartedBetween,
         OpensUnstarted, EndedSilent, JoinsInPlace, Idle, Threads
<1>3. CASE EmitStep("handler")
  BY <1>3, WorkerInvEmit DEF Threads
<1>4. CASE Environment
  <2>1. UNCHANGED <<place, cmd, emit, owner, pc>>
    <3>1. CASE SpotifyOpens \/ SpotifyCloses \/ SpotifyRenames \/ MediaChanges
      BY <3>1
         DEF SpotifyOpens, SpotifyCloses, SpotifyRenames, MediaChanges, Changes, Outside, main,
             stdout, worker
    <3>2. CASE StreamChanges
      BY <3>2 DEF StreamChanges, Outside, main, stdout, Audio!StreamChanges, Audio!control
    <3>3. CASE Interrupt
      BY <3>3 DEF Interrupt, MainFrame, stdout, audio, worker
    <3> QED
      BY <1>4, <3>1, <3>2, <3>3 DEF Environment
  <2> QED
    BY <2>1 DEF WorkerInv, OneThreadEach, StartedBetween, OpensUnstarted, EndedSilent,
       JoinsInPlace, Idle
<1>5. CASE UNCHANGED vars
  BY <1>5
     DEF vars, main, stdout, worker, audio, WorkerInv, OneThreadEach, StartedBetween,
         OpensUnstarted, EndedSilent, JoinsInPlace, Idle
<1> QED
  BY <1>1, <1>2, <1>3, <1>4, <1>5 DEF HandlerStep

LEMMA WorkerInvStep ==
    ASSUME WorkerInv, [Next]_vars
    PROVE  WorkerInv'
  BY WorkerInvMain, WorkerInvWorker, WorkerInvEmit, WorkerInvOthers DEF Next, Threads

-----------------------------------------------------------------------------
(* The exit code and what was delivered.                                   *)

Stopping == {"stop", "join", "teardown", "done"}

\* Before it stops, a command has asked for nothing; from then on its exit code
\* tells what it has asked for.
NothingYet == place \notin Stopping => received = <<>> /\ rc = kExitOk
Told1 == received = <<>> /\ (rc = kExitOk /\ Controls => lost)
Told2 == rc = kExitOk /\ Len(received) = 1 /\ Asked(received[1])
Verdict == place \in Stopping => Told1 \/ Told2

\* Which commands come where, with arguments that are right.
RightArguments ==
    /\ cmd # "" => ~WrongArguments(cmd, rest)
    /\ place \notin {"parse", "done"} => cmd # ""
    /\ place = "parse" => cmd = ""
RightPlace ==
    /\ place = "key" => cmd \in Transports
    /\ place = "mute" => cmd = "mute" /\ rest[1] = "toggle"
    /\ place = "showing" => cmd \in {"watch", "now-playing"}
    /\ place = "baseline" => cmd = "watch"
    /\ place \in {"connect", "watch", "disconnect"} => cmd \in Streams
Reported == report \in Reports \cup {NoPlayback} /\ media \in Reports \cup {NoPlayback}

ExitInv == NothingYet /\ Verdict /\ RightArguments /\ RightPlace /\ Reported

LEMMA ExitInvTells == ExitInv => ExitTellsDelivery
<1> SUFFICES ASSUME ExitInv
             PROVE  ExitTellsDelivery
  OBVIOUS
<1>3. Len(<<>>) = 0
  OBVIOUS
<1>1. Len(received) <= 1
  <2>1. received = <<>> \/ Len(received) = 1
    BY DEF ExitInv, NothingYet, Verdict, Told1, Told2
  <2> DEFINE n == Len(received)
  <2>2. n = 0 \/ n = 1
    BY <1>3, <2>1, Zenon
  <2> HIDE DEF n
  <2>3. n <= 1
    BY <2>2
  <2> QED
    BY <2>3 DEF n
<1>2. ASSUME place = "done"
      PROVE  Told1 \/ Told2
  BY <1>2 DEF ExitInv, Verdict, Stopping
<1> QED
  BY <1>1, <1>2, <1>3 DEF ExitTellsDelivery, Told1, Told2

LEMMA ExitInvInit == Init => ExitInv
  BY DEF Init, ExitInv, NothingYet, Verdict, RightArguments, RightPlace, Reported, Stopping

\* Steps that do not touch the command, its exit code and what it asked for.
LEMMA ExitInvAside ==
    ASSUME ExitInv, UNCHANGED <<place, cmd, rest, rc, received, lost>>, Reported'
    PROVE  ExitInv'
<1>1. (Controls' <=> Controls) /\ (Told1' <=> Told1)
  BY DEF Told1, Controls
<1>2. Told2' <=> Told2
  BY DEF Told2, Asked
<1> QED
  BY <1>1, <1>2 DEF ExitInv, NothingYet, Verdict, RightArguments, RightPlace

\* Steps of main before it stops that ask for nothing yet.
LEMMA ExitInvOnward ==
    ASSUME ExitInv, place \notin Stopping, place' \notin Stopping,
           UNCHANGED <<rc, received>>, RightArguments', RightPlace', Reported'
    PROVE  ExitInv'
  BY DEF ExitInv, NothingYet, Verdict

\* A command that has its exit code stops.
LEMMA ExitInvReturns ==
    ASSUME ExitInv, place \notin Stopping, place' \in Stopping, cmd # "" \/ place' = "done",
           UNCHANGED <<cmd, rest>>, Reported', Told1' \/ Told2'
    PROVE  ExitInv'
  BY DEF ExitInv, NothingYet, Verdict, RightArguments, RightPlace, Stopping

\* A request that was delivered is the only one.
LEMMA Once ==
    ASSUME ExitInv, place \notin Stopping, NEW request, Delivered(request), rc' = kExitOk,
           UNCHANGED <<cmd, rest>>, Asked(request)
    PROVE  Told2'
<1>1. received' = Append(<<>>, request)
  BY DEF ExitInv, NothingYet, Delivered
<1>2. Len(received') = 1 /\ received'[1] = request
  BY <1>1
<1>3. Asked(received[1])'
  BY <1>2 DEF Asked
<1> QED
  BY <1>2, <1>3 DEF Told2

LEMMA Failed ==
    ASSUME ExitInv, place \notin Stopping, NotDelivered, rc' # kExitOk
    PROVE  Told1'
  BY DEF ExitInv, NothingYet, NotDelivered, Told1

\* The position a seek goes to is not negative.
LEMMA TargetInRange ==
    ASSUME ExitInv, cmd = "seek"
    PROVE  /\ Target \in Int /\ Target >= 0
           /\ Times[rest[1]].sign = "" => Target = ParseAbsDurationMs(Times[rest[1]])
<1> DEFINE t == Times[rest[1]]
           ms == ParseAbsDurationMs(t)
<1>1. rest[1] \in DOMAIN Times /\ ms # Invalid
  BY DEF ExitInv, RightArguments, WrongArguments
<1>2. t.min \in Int /\ t.num \in Int
  BY <1>1 DEF CliAssumption
<1>3. t.min >= 0 /\ t.num >= 0
  BY <1>1, <1>2 DEF ParseAbsDurationMs
<1>4. ms \in Int /\ ms >= 0
  <2>1. t.num \div 1000 \in Int /\ t.num \div 1000 >= 0
    BY <1>2, <1>3
  <2>2. t.min * 60000 + t.num \in Int /\ t.min * 60000 + t.num >= 0
    BY <1>2, <1>3
  <2>3. ms \in {t.min * 60000 + t.num, t.num \div 1000, t.num}
    BY <1>2, <1>3 DEF ParseAbsDurationMs
  <2> QED
    BY <1>2, <1>3, <2>1, <2>2, <2>3
<1>5. Latest.position \in Int
  <2>1. report.position \in Int /\ NoPlayback.position \in Int
    BY DEF ExitInv, Reported, CliAssumption, NoPlayback
  <2> QED
    BY <2>1 DEF Latest, FuseFragments
<1>6. DEFINE to == Latest.position + (IF t.sign = "-" THEN -ms ELSE ms)
             base == IF to < 0 THEN 0 ELSE to
<1>7. Target = IF t.sign = "" THEN ms ELSE base
  BY DEF Target
<1>8. base \in Int /\ base >= 0
  BY <1>4, <1>5
<1> HIDE DEF t, ms, base
<1>9. (t.sign = "" => Target = ms) /\ (Target = ms \/ Target = base)
  BY <1>7, Zenon
<1>10. Target \in Int /\ Target >= 0
  BY <1>4, <1>8, <1>9
<1> QED
  BY <1>9, <1>10 DEF t, ms

\* A command that controls nothing has nothing to tell.
LEMMA Unasked ==
    ASSUME ExitInv, place \notin Stopping, ~Controls, UNCHANGED <<cmd, rest, received>>
    PROVE  Told1'
  BY DEF ExitInv, NothingYet, Told1, Controls

\* From the arguments to the command.
LEMMA ExitInvStarts ==
    ASSUME ExitInv,
       Refuse \/ NewFails \/ New \/ Seed \/ StartSources \/ Detected \/ Sleeps \/ GivesUp
    PROVE  ExitInv'
<1> USE DEF Goto, Stays, MainFrame, Exit, main, library, stdout, world
<1>1. Reported'
  BY DEF ExitInv, Reported, Refuse, NewFails, New, Seed, StartSources, Detected, Sleeps, GivesUp
<1>2. CASE Refuse \/ NewFails
  <2>1. /\ place = "parse" /\ cmd = "" /\ place' = "done"
        /\ UNCHANGED <<cmd, rest, received>>
    BY <1>2 DEF Refuse, NewFails, ExitInv, RightArguments
  <2>2. ~Controls
    BY <2>1 DEF Controls, Commands, Transports, Streams
  <2> QED
    BY <1>1, <2>1, <2>2, Unasked, ExitInvReturns DEF Stopping
<1>3. CASE New
  <2>1. /\ place = "parse" /\ place' \in {"act", "seed"} /\ UNCHANGED <<rc, received>>
        /\ ~WrongArguments(cmd', rest')
    BY <1>3 DEF New, ExitAtOnce, kExitUsage, kExitOk, NeedsClient
  <2>2. cmd' # ""
    BY <2>1 DEF WrongArguments, Commands, Transports, Streams
  <2>3. RightArguments' /\ RightPlace'
    BY <2>1, <2>2 DEF RightArguments, RightPlace, WrongArguments
  <2> QED
    BY <1>1, <2>1, <2>3, ExitInvOnward DEF Stopping
<1>4. CASE Seed \/ StartSources \/ Detected \/ Sleeps \/ (GivesUp /\ place' # "stop")
  <2>1. /\ place \in {"seed", "sources", "wait"}
        /\ \/ place' \in {"sources", "wait", "act"}
           \/ place' = "baseline" /\ cmd = "watch"
           \/ place' = "connect" /\ cmd \in Streams
        /\ UNCHANGED <<rc, received, cmd, rest>>
    BY <1>4 DEF Seed, StartSources, Detected, Sleeps, GivesUp, Streams
  <2>2. RightArguments' /\ RightPlace'
    BY <2>1 DEF ExitInv, RightArguments, RightPlace, WrongArguments
  <2> QED
    BY <1>1, <2>1, <2>2, ExitInvOnward DEF Stopping
<1>5. CASE GivesUp /\ place' = "stop"
  <2>1. /\ place = "wait" /\ rc' = kExitNoSpotify /\ UNCHANGED <<cmd, rest, received, lost>>
    BY <1>5 DEF GivesUp
  <2>2. Told1'
    BY <2>1, Failed DEF NotDelivered, Stopping, kExitNoSpotify, kExitOk
  <2> QED
    BY <1>1, <1>5, <2>1, <2>2, ExitInvReturns DEF Stopping, ExitInv, RightArguments
<1> QED
  BY <1>2, <1>3, <1>4, <1>5

\* now-playing, watch and events.
LEMMA ExitInvShows ==
    ASSUME ExitInv, PrintJson \/ PrintText \/ Baseline \/ Shown \/ Connect \/ Disconnect
    PROVE  ExitInv'
<1> USE DEF Goto, Stays, MainFrame, EmitFromMain, main, library, stdout, world
<1>1. /\ UNCHANGED <<cmd, rest, rc, received, report, media>>
      /\ place \notin Stopping \cup {"parse"}
  BY DEF PrintJson, PrintText, Baseline, Shown, Connect, Disconnect, Stopping
<1>2. Reported'
  BY <1>1 DEF ExitInv, Reported
<1>3. cmd \in Streams \cup {"now-playing"}
  BY DEF ExitInv, RightPlace, PrintJson, PrintText, Baseline, Shown, Connect, Disconnect, Streams
<1>4. CASE place' = "stop"
  BY <1>1, <1>2, <1>3, <1>4, Unasked, ExitInvReturns
     DEF Controls, Stopping, ExitInv, RightArguments
<1>5. CASE place' # "stop"
  <2>1. \/ place' = "showing" /\ cmd \in {"watch", "now-playing"}
        \/ place' \in {"connect", "watch", "disconnect"} /\ cmd \in Streams
    BY <1>5 DEF ExitInv, RightPlace, PrintJson, PrintText, Baseline, Shown, Connect, Disconnect,
       Streams
  <2>2. RightArguments' /\ RightPlace'
    BY <1>1, <2>1 DEF ExitInv, RightArguments, RightPlace, WrongArguments, Stopping
  <2> QED
    BY <1>1, <1>2, <2>1, <2>2, ExitInvOnward DEF Stopping
<1> QED
  BY <1>4, <1>5

\* A command that asked returns or, without an answer, falls back.
LEMMA ExitInvAnswered ==
    ASSUME ExitInv, place \notin Stopping \cup {"parse"}, Reported',
           UNCHANGED <<cmd, rest>>, place' \in Stopping,
           \/ /\ rc' = kExitOk
              /\ \E request : Delivered(request) /\ Asked(request)
           \/ rc' = kExitOk /\ received' = received /\ (lost' \/ ~Controls)
           \/ rc' # kExitOk /\ NotDelivered
    PROVE  ExitInv'
<1>1. Told1' \/ Told2'
  <2>1. CASE rc' = kExitOk /\ \E request : Delivered(request) /\ Asked(request)
    BY <2>1, Once
  <2>2. CASE rc' = kExitOk /\ received' = received /\ (lost' \/ ~Controls)
    BY <2>2 DEF ExitInv, NothingYet, Told1, Controls
  <2>3. CASE rc' # kExitOk /\ NotDelivered
    BY <2>3, Failed
  <2> QED
    BY <2>1, <2>2, <2>3
<1>2. cmd # ""
  BY DEF ExitInv, RightArguments, Stopping
<1> QED
  BY <1>1, <1>2, ExitInvReturns

\* The commands that control Spotify.
LEMMA ExitInvControls ==
    ASSUME ExitInv,
           AskSession \/ AskNobody \/ PostKey \/ Seek \/ Volume \/ ReadMuted \/ Mute \/ Open
    PROVE  ExitInv'
<1> USE DEF Goto, MainFrame, main, library, stdout, world, audio, kExitOk, kExitFailure, kExitUsage
<1>1. Reported'
  BY DEF ExitInv, Reported, AskSession, AskNobody, PostKey, Seek, Volume, ReadMuted, Mute, Open,
         Asks, FallsBack, Returns, SetMuted, Adjusts, Exit
<1>2. place \in {"act", "key", "mute"} /\ UNCHANGED <<cmd, rest>>
  BY DEF AskSession, AskNobody, PostKey, Seek, Volume, ReadMuted, Mute, Open, Transport,
         Asks, FallsBack, Returns, SetMuted, Adjusts, Exit
<1>3. CASE place' \in {"key", "mute"}
  <2>1. /\ UNCHANGED <<rc, received>>
        /\ \/ place' = "key" /\ cmd \in Transports
           \/ place' = "mute" /\ cmd = "mute" /\ rest[1] = "toggle"
    BY <1>3 DEF AskSession, AskNobody, PostKey, Seek, Volume, ReadMuted, Mute, Open, Transport,
         Asks, FallsBack, Returns, SetMuted, Adjusts, Exit, NotDelivered
  <2>2. RightArguments' /\ RightPlace'
    BY <1>2, <2>1, <1>3 DEF ExitInv, RightArguments, RightPlace, WrongArguments
  <2> QED
    BY <1>1, <1>2, <1>3, <2>1, <2>2, ExitInvOnward DEF Stopping
<1>4. CASE place' \notin {"key", "mute"}
  <2>1. place' \in Stopping
    BY <1>4 DEF AskSession, AskNobody, PostKey, Seek, Volume, ReadMuted, Mute, Open, Transport,
         Asks, FallsBack, Returns, SetMuted, Adjusts, Exit, Stopping
  <2>2. CASE AskSession \/ AskNobody
    <3>1. \/ rc' = kExitOk /\ Delivered(<<cmd>>)
          \/ rc' = kExitOk /\ received' = received /\ lost'
      BY <1>4, <2>2 DEF AskSession, AskNobody, Asks, Returns, FallsBack
    <3>2. Asked(<<cmd>>)
      BY <2>2 DEF AskSession, AskNobody, Transport, Transports, Asked
    <3> QED
      BY <1>1, <1>2, <2>1, <3>1, <3>2, ExitInvAnswered DEF Stopping
  <2>3. CASE PostKey
    <3>1. \/ rc' = kExitOk /\ Delivered(Key)
          \/ rc' # kExitOk /\ NotDelivered
      BY <2>3 DEF PostKey, Returns
    <3>2. Asked(Key)
      BY <2>3 DEF PostKey, ExitInv, RightPlace, Transports, Asked, Key
    <3> QED
      BY <1>1, <1>2, <2>1, <3>1, <3>2, ExitInvAnswered DEF Stopping
  <2>4. CASE Seek
    <3>1. \/ rc' = kExitOk /\ Delivered(<<cmd, Target>>)
          \/ rc' = kExitOk /\ received' = received /\ lost'
          \/ rc' # kExitOk /\ NotDelivered
      BY <2>4 DEF Seek, Asks, Returns
    <3>2. Asked(<<cmd, Target>>)
      BY <2>4, TargetInRange DEF Seek, Asked
    <3> QED
      BY <1>1, <1>2, <2>1, <3>1, <3>2, ExitInvAnswered DEF Stopping
  <2>5. CASE Volume
    <3> DEFINE v == Clamp(Levels[rest[2]])
    <3>1. \/ rc' = kExitOk /\ rest[1] = "set" /\ Delivered(<<cmd, v>>)
          \/ rc' = kExitOk /\ received' = received /\ (lost' \/ rest[1] = "get")
          \/ rc' # kExitOk /\ NotDelivered
      BY <2>5 DEF Volume, Adjusts, Returns, NotDelivered
    <3>2. cmd = "volume"
      BY <2>5 DEF Volume
    <3>3. rest[1] = "set" => Asked(<<cmd, v>>)
      BY <3>2 DEF Asked
    <3>4. rest[1] = "get" => ~Controls
      BY <3>2 DEF Controls
    <3> QED
      BY <1>1, <1>2, <2>1, <3>1, <3>3, <3>4, ExitInvAnswered DEF Stopping
  <2>6. CASE Mute
    <3> DEFINE muted == IF place = "mute" THEN ~flag ELSE rest[1] = "on"
    <3>1. \/ rc' = kExitOk /\ Delivered(<<cmd, muted>>)
          \/ rc' = kExitOk /\ received' = received /\ lost'
          \/ rc' # kExitOk /\ NotDelivered
      BY <2>6 DEF Mute, SetMuted, Adjusts, Returns
    <3>2. cmd = "mute" /\ (place = "mute" => rest[1] = "toggle")
      BY <2>6 DEF Mute, ExitInv, RightPlace
    <3>3. Asked(<<cmd, muted>>)
      BY <3>2 DEF Asked
    <3> QED
      BY <1>1, <1>2, <2>1, <3>1, <3>3, ExitInvAnswered DEF Stopping
  <2>7. CASE Open
    <3> DEFINE uri == IF cmd = "url" THEN Spelling[rest[1]] ELSE Search(Query)
    <3>1. \/ rc' = kExitOk /\ Delivered(<<cmd, uri>>)
          \/ rc' # kExitOk /\ NotDelivered
      BY <2>7 DEF Open, Exit
    <3>2. Asked(<<cmd, uri>>)
      BY <2>7 DEF Open, Asked
    <3> QED
      BY <1>1, <1>2, <2>1, <3>1, <3>2, ExitInvAnswered DEF Stopping
  <2> QED
    BY <1>4, <2>2, <2>3, <2>4, <2>5, <2>6, <2>7 DEF ReadMuted
<1> QED
  BY <1>3, <1>4

\* Stop, the other threads and what happens outside leave the command alone.
LEMMA ExitInvStops ==
    ASSUME WorkerInv, ExitInv, BeginStop \/ Notify \/ Join \/ Teardown
    PROVE  ExitInv'
<1> USE DEF Goto, Stays, main, library, stdout, world
<1>1. /\ UNCHANGED <<cmd, rest, rc, received, lost, report, media>>
      /\ \/ UNCHANGED place
         \/ place \in Stopping \ {"done"} /\ place' \in Stopping
  BY DEF BeginStop, Notify, Join, Teardown, Stopping, Audio!Join, WorkerInv, JoinsInPlace
<1>2. (Told1 => Told1') /\ (Told2 => Told2') /\ Reported'
  BY <1>1 DEF ExitInv, Told1, Told2, Controls, Asked, Reported
<1> QED
  BY <1>1, <1>2 DEF ExitInv, NothingYet, Verdict, RightArguments, RightPlace, Stopping

LEMMA ExitInvOthers ==
    ASSUME ExitInv,
           \/ WorkerStep \/ TimeOut \/ HandlerStep \/ Environment \/ UNCHANGED vars
           \/ \E t \in Threads : EmitStep(t)
    PROVE  ExitInv'
<1> USE DEF main, library, world
<1>1. UNCHANGED <<place, cmd, rest, rc, received, lost>>
  BY DEF WorkerStep, TimeOut, HandlerStep, Refresh, Environment, SpotifyOpens, SpotifyCloses,
         SpotifyRenames, MediaChanges, StreamChanges, Changes, Outside, Interrupt, MainFrame, vars,
         EmitStep, Snapshot, EmitSize, EmitCopy, EmitWrite, EmitNewline, EmitFrame
<1>2. Reported'
  BY DEF ExitInv, Reported, WorkerStep, TimeOut, HandlerStep, Refresh, Environment, SpotifyOpens,
         SpotifyCloses, SpotifyRenames, MediaChanges, StreamChanges, Changes, Outside, Interrupt,
         MainFrame, vars, EmitStep, Snapshot, EmitSize, EmitCopy, EmitWrite, EmitNewline, EmitFrame
<1> QED
  BY <1>1, <1>2, ExitInvAside

LEMMA ExitInvStep ==
    ASSUME WorkerInv, ExitInv, [Next]_vars
    PROVE  ExitInv'
  BY ExitInvStarts, ExitInvShows, ExitInvControls, ExitInvStops, ExitInvOthers
     DEF Next, MainStep, Threads

\* The exit code tells what was asked of Spotify: nothing if it is not 0, and
\* otherwise what the arguments say, once, if its media session did not drop it.
THEOREM ExitCodesTell == Spec => []ExitTellsDelivery
<1>1. Spec => [](WorkerInv /\ ExitInv)
  BY WorkerInvInit, WorkerInvStep, ExitInvInit, ExitInvStep, PTL DEF Spec
<1>2. ExitInv => ExitTellsDelivery
  BY ExitInvTells
<1> QED
  BY <1>1, <1>2, PTL

-----------------------------------------------------------------------------
(* The audio session of the tool is that of AudioSession, whose invariant    *)
(* it has.                                                                   *)

LEMMA ClampRange == \A v \in Int : Clamp(v) \in 0 .. 100
  BY DEF Clamp

LEMMA VolumesKnown == Volumes \subseteq 0 .. 100
<1>1. Percents \subseteq Int
  BY DEF Percents, CliAssumption
<1>2. {Clamp(v) : v \in Percents} \subseteq 0 .. 100
  BY <1>1, ClampRange
<1>3. 100 \in 0 .. 100
  OBVIOUS
<1> QED
  BY <1>2, <1>3 DEF Volumes

LEMMA AudioAssumed == AudioTheorems!AudioSessionAssumption
<1>1. NoVolume \notin Volumes
  BY VolumesKnown DEF NoVolume
<1> QED
  BY <1>1 DEF AudioTheorems!AudioSessionAssumption, CliAssumption

\* The names of the two instances stand for the same.
LEMMA AudioNames ==
    /\ Audio!Settings = AudioTheorems!Settings /\ Audio!Readings = AudioTheorems!Readings
    /\ Audio!Unread = AudioTheorems!Unread /\ Audio!Peaks = AudioTheorems!Peaks
    /\ Audio!NoPoll = AudioTheorems!NoPoll
    /\ Audio!NothingApplied = AudioTheorems!NothingApplied
  BY DEF Audio!Settings, Audio!Readings, Audio!Unread, Audio!Peaks, Audio!NoPoll,
    Audio!NothingApplied, AudioTheorems!Settings, AudioTheorems!Readings, AudioTheorems!Unread,
    AudioTheorems!Peaks, AudioTheorems!NoPoll, AudioTheorems!NothingApplied

LEMMA AudioInit == Audio!Init => AudioTheorems!Init
  BY AudioNames DEF Audio!Init, AudioTheorems!Init

LEMMA AudioMeasures ==
    ASSUME NEW s, NEW peak, Audio!Measures(s, peak)
    PROVE  AudioTheorems!Measures(s, peak)
  BY DEF Audio!Measures, AudioTheorems!Measures, Audio!Hysteresis, AudioTheorems!Hysteresis,
    Audio!control, Audio!session, Audio!reports, AudioTheorems!control, AudioTheorems!session,
    AudioTheorems!reports

LEMMA AudioWorkerStep == Audio!WorkerStep => AudioTheorems!WorkerStep
<1> USE DEF Audio!environment, Audio!control, Audio!session, Audio!hysteresis, Audio!reports,
      AudioTheorems!environment, AudioTheorems!control, AudioTheorems!session,
      AudioTheorems!hysteresis, AudioTheorems!reports
<1>1. Audio!Exit => AudioTheorems!Exit
  BY DEF Audio!Exit, AudioTheorems!Exit
<1>2. Audio!BeginPoll => AudioTheorems!BeginPoll
  BY DEF Audio!BeginPoll, AudioTheorems!BeginPoll
<1>3. Audio!Release => AudioTheorems!Release
  BY DEF Audio!Release, AudioTheorems!Release
<1>4. Audio!KeepSession => AudioTheorems!KeepSession
  BY DEF Audio!KeepSession, AudioTheorems!KeepSession, Audio!Due, AudioTheorems!Due
<1>5. Audio!Resolve => AudioTheorems!Resolve
  BY DEF Audio!Resolve, AudioTheorems!Resolve, Audio!Due, AudioTheorems!Due
<1>6. Audio!ResolveFails => AudioTheorems!ResolveFails
  BY DEF Audio!ResolveFails, AudioTheorems!ResolveFails, Audio!Due, AudioTheorems!Due
<1>7. Audio!MeasureNothing => AudioTheorems!MeasureNothing
  BY AudioMeasures, AudioNames DEF Audio!MeasureNothing, AudioTheorems!MeasureNothing
<1>8. ASSUME NEW peak, Audio!MeasureSession(peak)
      PROVE  AudioTheorems!MeasureSession(peak)
  BY <1>8, AudioMeasures DEF Audio!MeasureSession, AudioTheorems!MeasureSession,
     Audio!HasSession, AudioTheorems!HasSession
<1>9. ASSUME NEW s, NEW peak, Audio!MeasurePartly(s, peak)
      PROVE  AudioTheorems!MeasurePartly(s, peak)
  BY <1>9, AudioMeasures DEF Audio!MeasurePartly, AudioTheorems!MeasurePartly,
     Audio!HasSession, AudioTheorems!HasSession
<1>10. ASSUME NEW s, NEW peak, Audio!MeasureExpired(s, peak)
       PROVE  AudioTheorems!MeasureExpired(s, peak)
  BY <1>10, AudioMeasures DEF Audio!MeasureExpired, AudioTheorems!MeasureExpired,
     Audio!HasSession, AudioTheorems!HasSession
<1>11. Audio!Apply => AudioTheorems!Apply
  BY DEF Audio!Apply, AudioTheorems!Apply
<1>12. Audio!NotifyAudible => AudioTheorems!NotifyAudible
  BY DEF Audio!NotifyAudible, AudioTheorems!NotifyAudible
<1>13. Audio!CountTick => AudioTheorems!CountTick
  BY AudioNames DEF Audio!CountTick, AudioTheorems!CountTick
<1>14. Audio!Sleep => AudioTheorems!Sleep
  BY DEF Audio!Sleep, AudioTheorems!Sleep
<1> QED
  BY <1>1, <1>2, <1>3, <1>4, <1>5, <1>6, <1>7, <1>8, <1>9, <1>10, <1>11, <1>12, <1>13, <1>14,
     AudioNames, Zenon DEF Audio!WorkerStep, AudioTheorems!WorkerStep

LEMMA AudioOwnerStep ==
    ASSUME Audio!TimeOut \/ Audio!TimePasses \/ Audio!Start \/ Audio!BeginStop \/ Audio!Notify
           \/ Audio!Join
    PROVE  AudioTheorems!Next
<1>1. \/ AudioTheorems!TimeOut \/ AudioTheorems!TimePasses \/ AudioTheorems!Start
      \/ AudioTheorems!BeginStop \/ AudioTheorems!Notify \/ AudioTheorems!Join
  BY DEF
    Audio!TimeOut, Audio!TimePasses, Audio!Start, Audio!BeginStop, Audio!Notify, Audio!Join,
    Audio!environment, Audio!control, Audio!session, Audio!hysteresis, Audio!reports,
    AudioTheorems!TimeOut, AudioTheorems!TimePasses, AudioTheorems!Start, AudioTheorems!BeginStop,
    AudioTheorems!Notify, AudioTheorems!Join, AudioTheorems!environment, AudioTheorems!control,
    AudioTheorems!session, AudioTheorems!hysteresis, AudioTheorems!reports
<1> QED
  BY <1>1 DEF AudioTheorems!Next

LEMMA AudioStreams ==
    ASSUME NEW p \in Pids, Audio!StreamChanges(p)
    PROVE  AudioTheorems!Next
<1>1. AudioTheorems!StreamChanges(p)
  BY DEF Audio!StreamChanges, Audio!control, Audio!hysteresis, Audio!reports,
    AudioTheorems!StreamChanges, AudioTheorems!control, AudioTheorems!hysteresis,
    AudioTheorems!reports
<1> QED
  BY <1>1 DEF AudioTheorems!Next

AudioInv == AudioTheorems!IInv

LEMMA AudioTypes == AudioInv => Audio!TypeOK
  BY AudioNames DEF AudioInv, AudioTheorems!IInv, AudioTheorems!TypeOK, Audio!TypeOK

LEMMA AudioNext == ASSUME AudioInv, [AudioTheorems!Next]_audio PROVE AudioInv'
<1>1. AudioTheorems!vars' = AudioTheorems!vars \/ AudioTheorems!Next
  BY DEF audio, worker, AudioTheorems!vars, AudioTheorems!environment, AudioTheorems!control,
    AudioTheorems!session, AudioTheorems!hysteresis, AudioTheorems!reports
<1> QED
  BY <1>1, AudioAssumed, AudioTheorems!IInvStep DEF AudioInv

\* What the tool and the world do to a process, its setting and its streams.
LEMMA AudioEnvironment ==
    ASSUME AudioInv, UNCHANGED worker, processId' \in Pids \cup {NoPid},
           streams' \subseteq Pids, setting' \in [Pids -> Audio!Settings],
           changes' \in 0 .. MaxChanges
    PROVE  AudioInv'
  BY AudioNames
  DEF AudioInv, worker, AudioTheorems!IInv, AudioTheorems!TypeOK, AudioTheorems!EdgesTellState,
    AudioTheorems!EdgeOwed, AudioTheorems!CountsAgree, AudioTheorems!EndedLetGo,
    AudioTheorems!StopIsFinal, AudioTheorems!HasSession

-----------------------------------------------------------------------------
(* Types.                                                                    *)

\* TypeOK of main, of the sources it has started and of the world.
ToolTypes ==
    /\ argv \in Invocations /\ place \in Places /\ cmd \in Commands \cup {""} /\ left \in Nat
    /\ rc \in {kExitOk, kExitUsage, kExitNoSpotify, kExitFailure}
    /\ flag \in BOOLEAN /\ interrupted \in BOOLEAN
SourceTypes ==
    /\ session \in {"off", "none", "bound"} /\ report \in Reports \cup {NoPlayback}
    /\ rawTitle \in SeenTitles \cup {<<>>} /\ titleFrag.status \in Statuses
    /\ place \in {"parse", "seed", "sources"} => session = "off"
WorldTypes ==
    /\ spotify \in Pids \cup {NoPid} /\ shown \in Titles \cup {<<>>}
    /\ spotify # NoPid => shown \in Titles
    /\ media \in Reports \cup {NoPlayback} /\ lost \in BOOLEAN

SimpleTypes == ToolTypes /\ SourceTypes /\ WorldTypes /\ AudioInv

\* A value is found for the last --wait-ms.
LEMMA WaitPollsType ==
    ASSUME argv \in Invocations, BadFlags = {}
    PROVE  WaitPolls \in Nat
<1>1. CASE Flags = {}
  BY <1>1 DEF WaitPolls, CliAssumption
<1>2. CASE Flags # {}
  <2>1. argv \in Seq(STRING)
    BY DEF CliAssumption
  <2>2. Flags \subseteq 1 .. Len(argv) /\ Len(argv) \in Nat
    BY <2>1 DEF Flags
  <2>3. Max(Flags) \in Flags
    BY <1>2, <2>2, MinAndMax
  <2>4. argv[Max(Flags) + 1] \in DOMAIN Millis
    BY <2>3 DEF BadFlags
  <2> QED
    BY <1>2, <2>4 DEF WaitPolls, CliAssumption
<1> QED
  BY <1>1, <1>2

LEMMA TitleStatus == ASSUME NEW t PROVE ParseWindowTitle(t).status \in Statuses
  BY DEF ParseWindowTitle, IdleTitle, AdTitle, TrackTitle, OtherTitle, Statuses

LEMMA SimpleTypesInit == Init => SimpleTypes
<1> SUFFICES ASSUME Init
             PROVE  SimpleTypes
  OBVIOUS
<1>1. AudioInv
  BY AudioInit, AudioAssumed, AudioTheorems!IInvInit DEF Init, AudioInv
<1>2. flag \in BOOLEAN /\ interrupted \in BOOLEAN /\ lost \in BOOLEAN
  BY Zenon DEF Init
<1> QED
  BY <1>1, <1>2 DEF Init, SimpleTypes, ToolTypes, SourceTypes, WorldTypes, Places, NoTitle, Statuses

LEMMA Kept ==
    ASSUME SimpleTypes
    PROVE  /\ UNCHANGED <<argv, place, cmd, left, rc, flag, interrupted>> => ToolTypes'
           /\ UNCHANGED <<place, session, report, rawTitle, titleFrag>> => SourceTypes'
           /\ UNCHANGED <<spotify, shown, media, lost>> => WorldTypes'
<1>1. UNCHANGED <<argv, place, cmd, left, rc, flag, interrupted>> => ToolTypes'
  BY DEF SimpleTypes, ToolTypes
<1>2. UNCHANGED <<place, session, report, rawTitle, titleFrag>> => SourceTypes'
  BY DEF SimpleTypes, SourceTypes
<1>3. UNCHANGED <<spotify, shown, media, lost>> => WorldTypes'
  BY DEF SimpleTypes, WorldTypes
<1> QED
  BY <1>1, <1>2, <1>3

\* Steps of main that leave the client and the world alone.
LEMMA SimpleTypesAside ==
    ASSUME SimpleTypes, ToolTypes', UNCHANGED <<library, spotify, shown, media, audio>>,
           lost' \in BOOLEAN, place' \notin {"parse", "seed", "sources"}
    PROVE  SimpleTypes'
<1>1. AudioInv'
  BY AudioNext DEF SimpleTypes
<1> QED
  BY <1>1 DEF SimpleTypes, SourceTypes, WorldTypes, library

LEMMA SimpleTypesStarts ==
    ASSUME SimpleTypes,
       Refuse \/ NewFails \/ New \/ Seed \/ StartSources \/ Detected \/ Sleeps \/ GivesUp
    PROVE  SimpleTypes'
<1> USE DEF Goto, Stays, MainFrame, Exit, main, library, stdout, world, SimpleTypes
<1>1. CASE Refuse \/ NewFails
  <2>1. ToolTypes' /\ place' = "done" /\ UNCHANGED <<library, world, audio>>
    BY <1>1 DEF Refuse, NewFails, ToolTypes, Places, ExitAtOnce, kExitOk, kExitUsage, kExitFailure,
      NeedsClient
  <2> QED
    BY <2>1, SimpleTypesAside DEF WorldTypes
<1>2. CASE New
  <2>1. /\ BadFlags = {} /\ ~WrongArguments(cmd', rest') /\ left' = WaitPolls
        /\ place' \in {"act", "seed"} /\ UNCHANGED <<argv, rc, flag, interrupted>>
        /\ UNCHANGED <<library, world, audio>>
    BY <1>2 DEF New, ExitAtOnce, kExitUsage, kExitOk, NeedsClient
  <2>2. cmd' \in Commands
    BY <2>1 DEF WrongArguments
  <2>3. ToolTypes'
    BY <2>1, <2>2, WaitPollsType DEF ToolTypes, Places
  <2>4. AudioInv'
    BY <2>1, AudioNext
  <2> QED
    BY <1>2, <2>1, <2>3, <2>4 DEF New, SourceTypes, WorldTypes
<1>3. CASE Seed
  <2>1. spotify # NoPid => Cut(shown) \in SeenTitles
    BY DEF SeenTitles, WorldTypes
  <2>4. spotify # NoPid => TitleTold[Cut(shown)].status \in Statuses
    BY <2>1, TitleStatus DEF TitleTold
  <2>2. SourceTypes'
    BY <1>3, <2>1, <2>4 DEF Seed, SourceTypes, NoTitle, Statuses
  <2>3. AudioInv'
    BY <1>3, AudioEnvironment, AudioTypes DEF Seed, WorldTypes, Audio!TypeOK
  <2> QED
    BY <1>3, <2>2, <2>3 DEF Seed, ToolTypes, Places, WorldTypes
<1>4. CASE StartSources
  <2>1. AudioInv'
    BY <1>4, AudioNext, AudioOwnerStep DEF StartSources
  <2>2. ToolTypes' /\ place' \in {"baseline", "connect", "wait"}
    BY <1>4 DEF StartSources, ToolTypes, Places
  <2>3. SourceTypes' /\ WorldTypes'
    BY <1>4, <2>2 DEF StartSources, SourceTypes, WorldTypes
  <2> QED
    BY <2>1, <2>2, <2>3
<1>5. CASE Detected \/ Sleeps \/ GivesUp
  <2>1. ToolTypes' /\ place' \in {"wait", "act", "stop"} /\ UNCHANGED <<library, world, audio>>
    <3>1. CASE Detected
      BY <1>5, <3>1 DEF Detected, ToolTypes, Places
    <3>2. CASE Sleeps
      <4>1. left' = left - 1 /\ left > 0 /\ UNCHANGED <<argv, place, cmd, rc, flag, interrupted>>
        BY <3>2 DEF Sleeps
      <4> HIDE DEF SimpleTypes
      <4>2. left \in Nat
        BY DEF SimpleTypes, ToolTypes
      <4>3. left' \in Nat
        BY <4>1, <4>2
      <4> QED
        BY <3>2, <4>1, <4>3 DEF Sleeps, SimpleTypes, ToolTypes
    <3>3. CASE GivesUp
      BY <1>5, <3>3 DEF GivesUp, ToolTypes, Places, kExitNoSpotify
    <3> QED
      BY <1>5, <3>1, <3>2, <3>3
  <2> QED
    BY <2>1, SimpleTypesAside DEF WorldTypes
<1> QED
  BY <1>1, <1>2, <1>3, <1>4, <1>5

LEMMA SimpleTypesShows ==
    ASSUME SimpleTypes, PrintJson \/ PrintText \/ Baseline \/ Shown \/ Connect \/ Disconnect
    PROVE  SimpleTypes'
<1> USE DEF Goto, Stays, MainFrame, EmitFromMain, main, library, stdout, world, SimpleTypes
<1>1. ToolTypes' /\ place' \notin {"parse", "seed", "sources"}
  BY DEF PrintJson, PrintText, Baseline, Shown, Connect, Disconnect, ToolTypes, Places
<1>2. UNCHANGED <<session, report, rawTitle, titleFrag, world, audio>>
  BY DEF PrintJson, PrintText, Baseline, Shown, Connect, Disconnect
<1>3. AudioInv'
  BY <1>2, AudioNext
<1> QED
  BY <1>1, <1>2, <1>3 DEF SourceTypes, WorldTypes

\* A setting that is made is one a session may have.
LEMMA SettingTypes ==
    ASSUME AudioInv
    PROVE  /\ setting \in [Pids -> Audio!Settings]
           /\ bound # NoPid => bound \in Pids /\ setting[bound].muted \in BOOLEAN
           /\ \A x \in DOMAIN Levels, muted \in BOOLEAN :
                 [vol |-> Clamp(Levels[x]), muted |-> muted] \in Audio!Settings
           /\ \A muted \in BOOLEAN : bound # NoPid =>
                 [vol |-> setting[bound].vol, muted |-> muted] \in Audio!Settings
  BY AudioTypes DEF Audio!TypeOK, Audio!Settings, Volumes, Percents

LEMMA SimpleTypesAdjusts ==
    ASSUME SimpleTypes, NEW request, NEW s, bound # NoPid => s \in Audio!Settings,
    Adjusts(request, s),
           UNCHANGED <<processId, streams, changes, worker>>
    PROVE  SimpleTypes'
<1> USE DEF Goto, SimpleTypes, library
<1>1. setting' \in [Pids -> Audio!Settings]
  BY SettingTypes DEF Adjusts, Audio!HasSession
<1>2. AudioInv'
  BY <1>1, AudioEnvironment, AudioTypes DEF Audio!TypeOK
<1>3. ToolTypes' /\ place' = "stop" /\ UNCHANGED <<library, spotify, shown, media>>
  BY DEF Adjusts, Returns, Delivered, NotDelivered, ToolTypes, Places, kExitOk, kExitFailure
<1>4. lost' = lost \/ lost' = TRUE
  BY DEF Adjusts, Delivered, NotDelivered
<1>5. lost' \in BOOLEAN
  BY <1>4, Zenon DEF WorldTypes
<1> QED
  BY <1>2, <1>3, <1>5 DEF SourceTypes, WorldTypes

LEMMA SimpleTypesControls ==
    ASSUME SimpleTypes,
           AskSession \/ AskNobody \/ PostKey \/ Seek \/ Volume \/ ReadMuted \/ Mute \/ Open
    PROVE  SimpleTypes'
<1> USE DEF Goto, MainFrame, main, library, stdout, world, SimpleTypes
<1>1. CASE AskSession \/ AskNobody \/ PostKey \/ Seek \/ Open
  <2>1. /\ ToolTypes' /\ UNCHANGED <<library, spotify, shown, media, audio>>
        /\ place' \notin {"parse", "seed", "sources"}
    BY <1>1 DEF AskSession, AskNobody, PostKey, Seek, Open, Asks, FallsBack, Returns, Exit,
       ToolTypes,
      Places, kExitOk, kExitFailure
  <2>2. lost' = lost \/ lost' = TRUE
    BY <1>1 DEF AskSession, AskNobody, PostKey, Seek, Open, Asks, Delivered, NotDelivered
  <2>3. lost' \in BOOLEAN
    BY <2>2, Zenon DEF WorldTypes
  <2> QED
    BY <2>1, <2>3, SimpleTypesAside
<1>2. CASE ReadMuted
  <2>1. flag' \in BOOLEAN
    BY <1>2, Zenon, SettingTypes DEF ReadMuted, Audio!HasSession
  <2>2. ToolTypes' /\ place' = "mute" /\ UNCHANGED <<library, world, audio>>
    BY <1>2, <2>1 DEF ReadMuted, ToolTypes, Places
  <2> QED
    BY <2>2, SimpleTypesAside DEF WorldTypes
<1>3. CASE Volume
  <2>1. CASE setting' = setting
    <3>1. ToolTypes' /\ UNCHANGED <<library, spotify, shown, media, audio>> /\ place' = "stop"
      BY <1>3, <2>1 DEF Volume, Adjusts, Returns, ToolTypes, Places, kExitOk, kExitUsage,
         kExitFailure, audio
    <3>2. lost' = lost \/ lost' = TRUE
      BY <1>3 DEF Volume, Adjusts, Delivered, NotDelivered
    <3>3. lost' \in BOOLEAN
      BY <3>2, Zenon DEF WorldTypes
    <3> QED
      BY <3>1, <3>3, SimpleTypesAside
  <2>2. CASE setting' # setting
    <3> DEFINE v == Clamp(Levels[rest[2]])
               s == [vol |-> v, muted |-> bound # NoPid /\ setting[bound].muted]
    <3>1. /\ rest[2] \in DOMAIN Levels /\ Adjusts(<<cmd, v>>, s)
          /\ UNCHANGED <<processId, streams, changes, worker>>
      BY <1>3, <2>2 DEF Volume
    <3>2. (bound # NoPid /\ setting[bound].muted) \in BOOLEAN
      BY Zenon
    <3>3. s \in Audio!Settings
      BY <3>1, <3>2, SettingTypes
    <3> QED
      BY <3>1, <3>3, SimpleTypesAdjusts
  <2> QED
    BY <2>1, <2>2
<1>4. ASSUME NEW muted \in BOOLEAN, SetMuted(muted)
      PROVE  SimpleTypes'
  BY <1>4, SettingTypes, SimpleTypesAdjusts DEF SetMuted
<1>5. CASE Mute
  <2>1. CASE \E muted \in BOOLEAN : SetMuted(muted)
    BY <1>4, <2>1
  <2>2. CASE ~\E muted \in BOOLEAN : SetMuted(muted)
    <3>1. (rest[1] = "on") \in BOOLEAN /\ (~flag) \in BOOLEAN
      BY Zenon
    <3>2. /\ NotDelivered /\ Returns(kExitUsage)
          /\ UNCHANGED audio
      BY <1>5, <2>2, <3>1 DEF Mute
    <3>3. ToolTypes' /\ UNCHANGED <<library, world, audio>> /\ place' = "stop"
      BY <3>2 DEF Returns, NotDelivered, ToolTypes, Places, kExitUsage
    <3> QED
      BY <3>3, SimpleTypesAside DEF WorldTypes
  <2> QED
    BY <2>1, <2>2
<1> QED
  BY <1>1, <1>2, <1>3, <1>5

LEMMA SimpleTypesStops ==
    ASSUME SimpleTypes, BeginStop \/ Notify \/ Join \/ Teardown
    PROVE  SimpleTypes'
<1> USE DEF Goto, Stays, main, library, stdout, world, SimpleTypes
<1>1. CASE BeginStop \/ Notify \/ Join
  <2>1. AudioInv'
    BY <1>1, AudioNext, AudioOwnerStep DEF BeginStop, Notify, Join
  <2> QED
    <3>1. ToolTypes' /\ SourceTypes'
      <4>1. CASE Notify
        BY <4>1, Kept DEF Notify
      <4>2. CASE BeginStop \/ Join
        BY <4>2 DEF BeginStop, Join, ToolTypes, Places, SourceTypes
      <4> QED
        BY <1>1, <4>1, <4>2
    <3>2. WorldTypes'
      BY <1>1, Kept DEF BeginStop, Notify, Join
    <3> QED
      BY <2>1, <3>1, <3>2
<1>2. CASE Teardown
  <2>1. AudioInv'
    BY <1>2, AudioEnvironment, AudioTypes DEF Teardown, Audio!TypeOK
  <2> QED
    <3>1. ToolTypes' /\ SourceTypes'
      BY <1>2 DEF Teardown, ToolTypes, Places, SourceTypes
    <3> QED
      BY <1>2, <2>1, <3>1, Kept DEF Teardown
<1> QED
  BY <1>1, <1>2

LEMMA SimpleTypesThreads ==
    ASSUME SimpleTypes,
           \/ WorkerStep \/ TimeOut \/ Refresh
           \/ \E t \in Threads : EmitStep(t)
    PROVE  SimpleTypes'
<1> USE DEF main, library, world, SimpleTypes
<1>1. CASE WorkerStep \/ TimeOut
  <2>1. AudioInv'
    BY <1>1, AudioNext, AudioOwnerStep, AudioWorkerStep DEF WorkerStep, TimeOut, AudioTheorems!Next
  <2> QED
    BY <1>1, <2>1, Kept DEF WorkerStep, TimeOut
<1>2. CASE Refresh
  <2>1. AudioInv'
    BY <1>2, AudioNext DEF Refresh
  <2>2. SourceTypes'
    BY <1>2 DEF Refresh, SourceTypes, WorldTypes
  <2> QED
    BY <1>2, <2>1, <2>2, Kept DEF Refresh
<1>3. ASSUME NEW t \in Threads, EmitStep(t)
      PROVE  SimpleTypes'
  <2>1. EmitFrame
    BY <1>3 DEF EmitStep, Snapshot, EmitSize, EmitCopy, EmitWrite, EmitNewline
  <2> QED
    BY <2>1, AudioNext, Kept DEF EmitFrame
<1> QED
  BY <1>1, <1>2, <1>3

LEMMA WorldChanges ==
    ASSUME AudioInv, Changes
    PROVE  AudioInv'
<1>1. /\ UNCHANGED <<processId, streams, setting, worker>> /\ changes' = changes + 1
      /\ changes < MaxChanges
  BY DEF Changes
<1>2. /\ processId \in Pids \cup {NoPid} /\ streams \subseteq Pids
      /\ setting \in [Pids -> Audio!Settings] /\ changes \in 0 .. MaxChanges
  BY AudioTypes DEF Audio!TypeOK
<1>3. changes' \in 0 .. MaxChanges
  BY <1>1, <1>2 DEF CliAssumption
<1>4. /\ UNCHANGED worker /\ processId' \in Pids \cup {NoPid} /\ streams' \subseteq Pids
      /\ setting' \in [Pids -> Audio!Settings]
  BY <1>1, <1>2
<1> QED
  BY <1>3, <1>4, AudioEnvironment

LEMMA WorldStreams ==
    ASSUME AudioInv, WorldTypes, StreamChanges
    PROVE  AudioInv'
<1>1. PICK p \in streams \cup ({spotify} \ {NoPid}) : Audio!StreamChanges(p)
  BY DEF StreamChanges
<1>2. p \in Pids
  BY AudioTypes DEF Audio!TypeOK, WorldTypes
<1>3. AudioTheorems!Next
  BY <1>1, <1>2, AudioStreams
<1> QED
  BY <1>3, AudioNext

LEMMA SimpleTypesWorld ==
    ASSUME SimpleTypes, Environment \/ UNCHANGED vars
    PROVE  SimpleTypes'
<1> USE DEF main, library, world, SimpleTypes
<1>1. CASE SpotifyOpens \/ SpotifyCloses \/ SpotifyRenames \/ MediaChanges \/ StreamChanges
  <2>1. Outside /\ (Changes \/ StreamChanges)
    BY <1>1 DEF SpotifyOpens, SpotifyCloses, SpotifyRenames, MediaChanges, StreamChanges, Changes
  <2>4. AudioInv'
    BY <2>1, WorldChanges, WorldStreams
  <2> QED
    <3>1. ToolTypes' /\ SourceTypes'
      BY <2>1, Kept DEF Outside
    <3>2. WorldTypes'
      <4>1. lost' = lost
        BY <2>1 DEF Outside
      <4>2. lost' \in BOOLEAN
        BY <4>1, Zenon DEF WorldTypes
      <4>3. CASE SpotifyOpens \/ SpotifyCloses \/ SpotifyRenames
        <5>1. UNCHANGED media
          BY <4>3 DEF SpotifyOpens, SpotifyCloses, SpotifyRenames
        <5>2. /\ spotify' \in Pids \cup {NoPid} /\ shown' \in Titles \cup {<<>>}
              /\ spotify' # NoPid => shown' \in Titles
          BY <4>3 DEF SpotifyOpens, SpotifyCloses, SpotifyRenames, WorldTypes
        <5> QED
          BY <4>2, <5>1, <5>2 DEF WorldTypes
      <4>4. CASE MediaChanges
        BY <4>2, <4>4 DEF MediaChanges, WorldTypes
      <4>5. CASE StreamChanges
        BY <4>1, <4>5, Kept DEF StreamChanges
      <4> QED
        BY <1>1, <4>3, <4>4, <4>5
    <3> QED
      BY <2>4, <3>1, <3>2
<1>2. CASE Interrupt
  <2>1. interrupted' \in BOOLEAN
    BY <1>2, Zenon DEF Interrupt
  <2>2. ToolTypes' /\ UNCHANGED <<library, world, audio>> /\ place' = place
    BY <1>2, <2>1 DEF Interrupt, MainFrame, ToolTypes
  <2>3. AudioInv'
    BY <2>2, AudioNext
  <2> QED
    BY <2>2, <2>3 DEF SourceTypes, WorldTypes
<1>3. CASE UNCHANGED vars
  <2>1. AudioInv'
    BY <1>3, AudioNext DEF vars
  <2> QED
    BY <1>3, <2>1, Kept DEF vars
<1> QED
  BY <1>1, <1>2, <1>3 DEF Environment

LEMMA SimpleTypesStep ==
    ASSUME SimpleTypes, [Next]_vars
    PROVE  SimpleTypes'
  BY SimpleTypesStarts, SimpleTypesShows, SimpleTypesControls, SimpleTypesStops,
    SimpleTypesThreads, SimpleTypesWorld DEF Next, MainStep, HandlerStep, Threads

-----------------------------------------------------------------------------
(* Notifications in progress.                                                *)

Ats == {"idle", "owed", "size", "copy", "write"}
Said == Range(Wanted) \cup {"state"}

\* A thread that notifies has signals left to say.
Wellformed(e) ==
    /\ e = [todo |-> e.todo, at |-> e.at, need |-> e.need, json |-> e.json, calls |-> e.calls]
    /\ e.at \in Ats /\ e.todo \in Seq(Said)
    /\ e.calls \in 0 .. 5 /\ (e.at = "write" <=> e.calls > 0)
    /\ e.at = "idle" => e = Silent
    /\ e.at # "idle" => e.todo # <<>>

EmitInv ==
    /\ \A t \in Threads : Wellformed(emit[t])
    /\ place = "parse" => \A t \in Threads : Idle(t)
    /\ place # "showing" => Idle("main")
    /\ line \subseteq Threads

LEMMA WantedType == Wanted \in Seq(Range(Wanted))
<1> DEFINE Signals == {"track", "adStarted", "adEnded", "state", "position"}
<1>1. /\ <<"state">> \in Seq(Signals) /\ <<"position">> \in Seq(Signals) /\ <<>> \in Seq(Signals)
      /\ <<"track", "adStarted", "adEnded">> \in Seq(Signals)
  OBVIOUS
<1>2. Wanted \in Seq(Signals)
  BY <1>1, ConcatProperties DEF Wanted
<1> QED
  BY <1>2, SeqOfRange

LEMMA SilentWellformed == Wellformed(Silent)
<1>1. <<>> \in Seq(Said)
  BY EmptySeq
<1> QED
  BY <1>1 DEF Wellformed, Silent, Ats

\* The first signal of a sequence and the others.
LEMMA HeadOrTail ==
    ASSUME NEW S, NEW s \in Seq(S), s # <<>>
    PROVE  Range(s) = {Head(s)} \cup Range(Tail(s))
<1>1. /\ Head(s) = s[1] /\ Tail(s) \in Seq(S) /\ Len(Tail(s)) = Len(s) - 1
      /\ \A i \in 1 .. Len(Tail(s)) : Tail(s)[i] = s[i + 1]
  BY HeadTailProperties
<1>2. Len(s) \in Nat \ {0}
  BY EmptySeq
<1>3. /\ Range(s) = {s[i] : i \in 1 .. Len(s)}
      /\ Range(Tail(s)) = {Tail(s)[i] : i \in 1 .. Len(Tail(s))}
  BY <1>1, RangeEquality
<1>4. ASSUME NEW i \in 1 .. Len(s), i # 1
      PROVE  s[i] \in Range(Tail(s))
  <2>1. i - 1 \in 1 .. Len(Tail(s)) /\ s[(i - 1) + 1] = Tail(s)[i - 1] /\ (i - 1) + 1 = i
    BY <1>1, <1>2, <1>4
  <2> QED
    BY <1>3, <2>1
<1>5. Range(Tail(s)) \subseteq Range(s)
  BY <1>1, <1>2, <1>3
<1>6. 1 \in 1 .. Len(s)
  BY <1>2
<1> QED
  BY <1>1, <1>3, <1>4, <1>5, <1>6

\* When a signal has been said, the others are.
LEMMA NextSignalShape ==
    ASSUME NEW e, Wellformed(e), e.at # "idle"
    PROVE  /\ Wellformed(NextSignal(e))
           /\ Range(Tail(e.todo)) # {} =>
                 /\ NextSignal(e).at = "owed" /\ NextSignal(e).todo = Tail(e.todo)
<1>1. e.todo \in Seq(Said) /\ e.todo # <<>>
  BY DEF Wellformed
<1>2. Tail(e.todo) \in Seq(Said) /\ Len(Tail(e.todo)) = Len(e.todo) - 1 /\ Len(e.todo) \in Nat \ {0}
  BY <1>1, HeadTailProperties, EmptySeq
<1>3. Range(Tail(e.todo)) = {Tail(e.todo)[i] : i \in 1 .. Len(Tail(e.todo))}
  BY <1>2, RangeEquality
<1>4. CASE Len(e.todo) = 1
  BY <1>2, <1>3, <1>4, SilentWellformed DEF NextSignal
<1>5. CASE Len(e.todo) # 1
  <2>1. Tail(e.todo) # <<>>
    <3>1. Len(Tail(e.todo)) # 0
      BY <1>2, <1>5
    <3>2. Len(<<>>) = 0
      BY EmptySeq
    <3> QED
      BY <3>1, <3>2
  <2>2. /\ NextSignal(e) = [e EXCEPT !.todo = Tail(@), !.at = "owed", !.calls = 0]
        /\ e = [todo |-> e.todo, at |-> e.at, need |-> e.need, json |-> e.json,
                calls |-> e.calls]
    BY <1>5 DEF NextSignal, Wellformed
  <2>3. NextSignal(e) = [todo |-> Tail(e.todo), at |-> "owed", need |-> e.need,
                         json |-> e.json, calls |-> 0]
    BY <2>2
  <2> QED
    BY <1>2, <2>1, <2>3 DEF Wellformed, Ats
<1> QED
  BY <1>4, <1>5

LEMMA MadeWellformed ==
    ASSUME NEW todo \in Seq(Said), todo # <<>>, NEW at \in Ats \ {"idle"}, NEW need, NEW json,
           NEW calls \in 0 .. 5, at = "write" <=> calls > 0
    PROVE  Wellformed([todo |-> todo, at |-> at, need |-> need, json |-> json,
                       calls |-> calls])
<1> DEFINE e == [todo |-> todo, at |-> at, need |-> need, json |-> json, calls |-> calls]
<1>1. e.todo = todo /\ e.at = at /\ e.need = need /\ e.json = json /\ e.calls = calls
  OBVIOUS
<1>2. e = [todo |-> e.todo, at |-> e.at, need |-> e.need, json |-> e.json, calls |-> e.calls]
  BY <1>1
<1> HIDE DEF e
<1> QED
  BY <1>1, <1>2 DEF Wellformed, e

\* A thread that asks for the state, and one that writes what it has.
LEMMA OneOfThree ==
    ASSUME NEW e, Wellformed(e), e.at # "idle", NEW need, NEW json
    PROVE  /\ \A at \in {"size", "copy"} :
                 Wellformed([todo |-> e.todo, at |-> at, need |-> need, json |-> json,
                             calls |-> 0])
           /\ \A calls \in 1 .. 5 :
                 Wellformed([todo |-> e.todo, at |-> "write", need |-> need, json |-> json,
                             calls |-> calls])
<1>1. e.todo \in Seq(Said) /\ e.todo # <<>>
  BY DEF Wellformed
<1>2. /\ \A at \in {"size", "copy"} : at \in Ats \ {"idle"} /\ at # "write"
      /\ "write" \in Ats \ {"idle"}
  BY DEF Ats
<1>3. 0 \in 0 .. 5 /\ ~(0 > 0) /\ \A calls \in 1 .. 5 : calls \in 0 .. 5 /\ calls > 0
  OBVIOUS
<1> QED
  BY <1>1, <1>2, <1>3, MadeWellformed

\* The steps of a notification, each by what it does to its thread.
LEMMA SnapshotShape ==
    ASSUME OneThreadEach, NEW t \in Threads, Wellformed(emit[t]), Snapshot(t)
    PROVE  /\ emit[t].at = "owed"
           /\ \/ /\ Head(emit[t].todo) \notin Range(connected)
                 /\ emit'[t] = NextSignal(emit[t])
              \/ /\ Head(emit[t].todo) = "state"
                 /\ emit'[t] = [todo |-> emit[t].todo, at |-> "size", need |-> emit[t].need,
                                json |-> NoPlayback, calls |-> 0]
              \/ /\ Head(emit[t].todo) # "state"
                 /\ \E calls \in 1 .. 5 :
                       emit'[t] = [todo |-> emit[t].todo, at |-> "write",
                                   need |-> emit[t].need, json |-> emit[t].json,
                                   calls |-> calls]
<1> DEFINE e == emit[t]
<1>1. /\ e = [todo |-> e.todo, at |-> e.at, need |-> e.need, json |-> e.json,
              calls |-> e.calls]
      /\ e.at = "owed" /\ e.calls = 0
  BY DEF Wellformed, Snapshot
<1>2. emit = [u \in Threads |-> emit[u]]
  BY DEF OneThreadEach
<1>3. CASE Head(e.todo) \notin Range(connected)
  <2>1. emit' = [emit EXCEPT ![t] = NextSignal(e)]
    BY <1>3 DEF Snapshot
  <2> QED
    BY <1>1, <1>2, <1>3, <2>1
<1>4. CASE Head(e.todo) \in Range(connected)
  <2>1. emit' = [emit EXCEPT ![t] = Called(e)]
    BY <1>4 DEF Snapshot
  <2>2. emit'[t] = Called(e)
    BY <1>2, <2>1
  <2>3. Calls(Head(e.todo)) \in 1 .. 5
    BY DEF Calls
  <2>4. CASE Head(e.todo) = "state"
    <3>1. Called(e) = [e EXCEPT !.at = "size", !.json = NoPlayback]
      BY <2>4 DEF Called
    <3>2. Called(e) = [todo |-> e.todo, at |-> "size", need |-> e.need, json |-> NoPlayback,
                       calls |-> 0]
      BY <1>1, <3>1
    <3> QED
      BY <1>1, <2>2, <2>4, <3>2
  <2>5. CASE Head(e.todo) # "state"
    <3>1. Called(e) = [e EXCEPT !.at = "write", !.calls = Calls(Head(e.todo))]
      BY <2>5 DEF Called
    <3>2. Called(e) = [todo |-> e.todo, at |-> "write", need |-> e.need, json |-> e.json,
                       calls |-> Calls(Head(e.todo))]
      BY <1>1, <3>1
    <3> QED
      BY <1>1, <2>2, <2>3, <2>5, <3>2
  <2> QED
    BY <2>4, <2>5
<1> QED
  BY <1>3, <1>4

LEMMA AskShape ==
    ASSUME OneThreadEach, NEW t \in Threads, Wellformed(emit[t]), EmitSize(t) \/ EmitCopy(t)
    PROVE  \/ /\ emit[t].at = "size"
              /\ emit'[t] = [todo |-> emit[t].todo, at |-> "copy", need |-> JsonSize(Latest),
                             json |-> emit[t].json, calls |-> 0]
           \/ /\ emit[t].at = "copy"
              /\ emit'[t] = [todo |-> emit[t].todo, at |-> "write", need |-> emit[t].need,
                             json |-> Latest, calls |-> 2]
<1> DEFINE e == emit[t]
<1>1. e = [todo |-> e.todo, at |-> e.at, need |-> e.need, json |-> e.json, calls |-> e.calls]
  BY DEF Wellformed
<1>2. emit = [u \in Threads |-> emit[u]]
  BY DEF OneThreadEach
<1>3. CASE EmitSize(t)
  <2>1. /\ e.at = "size" /\ e.calls = 0
        /\ \E s \in {Latest} :
              emit' = [emit EXCEPT ![t].need = JsonSize(s), ![t].at = "copy"]
    BY <1>3 DEF EmitSize, Wellformed
  <2>2. emit' = [emit EXCEPT ![t].need = JsonSize(Latest), ![t].at = "copy"]
    BY <2>1
  <2> QED
    BY <1>1, <1>2, <2>1, <2>2
<1>4. CASE EmitCopy(t)
  <2>1. /\ e.at = "copy" /\ Calls("state") = 2
        /\ emit' = [emit EXCEPT ![t].json = Latest, ![t].calls = Calls("state"),
                                ![t].at = "write"]
    BY <1>4 DEF EmitCopy, Calls
  <2> QED
    BY <1>1, <1>2, <2>1
<1> QED
  BY <1>3, <1>4

LEMMA WriteShape ==
    ASSUME OneThreadEach, NEW t \in Threads, Wellformed(emit[t]), EmitWrite(t)
    PROVE  /\ emit[t].at = "write" /\ stale' = stale /\ line' = line \cup {t}
           /\ \E calls \in 1 .. 5 :
                 emit'[t] = [todo |-> emit[t].todo, at |-> "write", need |-> emit[t].need,
                             json |-> emit[t].json, calls |-> calls]
<1> DEFINE e == emit[t]
<1>1. /\ e = [todo |-> e.todo, at |-> e.at, need |-> e.need, json |-> e.json,
              calls |-> e.calls]
      /\ e.calls \in 0 .. 5
  BY DEF Wellformed
<1>2. emit = [u \in Threads |-> emit[u]]
  BY DEF OneThreadEach
<1>3. /\ e.at = "write" /\ e.calls > 1 /\ stale' = stale /\ line' = line \cup {t}
      /\ emit' = [emit EXCEPT ![t].calls = @ - 1]
  BY DEF EmitWrite, Writes
<1>4. emit'[t] = [todo |-> e.todo, at |-> "write", need |-> e.need, json |-> e.json,
                  calls |-> e.calls - 1]
  BY <1>1, <1>2, <1>3
<1>5. e.calls - 1 \in 1 .. 5
  BY <1>1, <1>3
<1> QED
  BY <1>3, <1>4, <1>5

\* What a step of a notification does to its thread.
LEMMA EmitStepShape ==
    ASSUME OneThreadEach, NEW t \in Threads, Wellformed(emit[t]), EmitStep(t)
    PROVE  /\ emit' = [emit EXCEPT ![t] = emit'[t]]
           /\ Wellformed(emit'[t])
           /\ ~Idle(t) /\ UNCHANGED <<main, library, world, audio>>
           /\ line' \subseteq line \cup {t}
<1> DEFINE e == emit[t]
<1>1. UNCHANGED <<main, library, world, audio>>
  BY DEF EmitStep, Snapshot, EmitSize, EmitCopy, EmitWrite, EmitNewline, EmitFrame
<1>2. e.at # "idle"
  BY DEF EmitStep, Snapshot, EmitSize, EmitCopy, EmitWrite, EmitNewline, Writes
<1>3. ~Idle(t)
  BY <1>2 DEF Idle, Silent
<1>4. emit = [u \in Threads |-> emit[u]]
  BY DEF OneThreadEach
<1>5. emit' = [emit EXCEPT ![t] = emit'[t]]
  BY <1>4 DEF EmitStep, Snapshot, EmitSize, EmitCopy, EmitWrite, EmitNewline
<1>6. line' \subseteq line \cup {t}
  BY DEF EmitStep, Snapshot, EmitSize, EmitCopy, EmitWrite, EmitNewline
<1>7. Wellformed(emit'[t])
  <2>1. CASE Snapshot(t)
    <3>1. /\ Wellformed(NextSignal(e))
          /\ Wellformed([todo |-> e.todo, at |-> "size", need |-> e.need,
                         json |-> NoPlayback, calls |-> 0])
          /\ \A calls \in 1 .. 5 :
                Wellformed([todo |-> e.todo, at |-> "write", need |-> e.need, json |-> e.json,
                            calls |-> calls])
      BY <1>2, NextSignalShape, OneOfThree
    <3>2. \/ emit'[t] = NextSignal(e)
          \/ emit'[t] = [todo |-> e.todo, at |-> "size", need |-> e.need,
                         json |-> NoPlayback, calls |-> 0]
          \/ \E calls \in 1 .. 5 :
                emit'[t] = [todo |-> e.todo, at |-> "write", need |-> e.need,
                            json |-> e.json, calls |-> calls]
      BY <2>1, SnapshotShape
    <3> QED
      BY <3>1, <3>2, Zenon
  <2>2. CASE EmitSize(t) \/ EmitCopy(t)
    <3>1. /\ Wellformed([todo |-> e.todo, at |-> "copy", need |-> JsonSize(Latest),
                         json |-> e.json, calls |-> 0])
          /\ Wellformed([todo |-> e.todo, at |-> "write", need |-> e.need,
                         json |-> Latest, calls |-> 2])
      <4>1. "copy" \in {"size", "copy"} /\ 2 \in 1 .. 5
        OBVIOUS
      <4>2. \A at \in {"size", "copy"} :
               Wellformed([todo |-> e.todo, at |-> at, need |-> JsonSize(Latest),
                           json |-> e.json, calls |-> 0])
        BY <1>2, OneOfThree
      <4>3. \A calls \in 1 .. 5 :
               Wellformed([todo |-> e.todo, at |-> "write", need |-> e.need,
                           json |-> Latest, calls |-> calls])
        BY <1>2, OneOfThree
      <4> QED
        BY <4>1, <4>2, <4>3, Zenon
    <3>2. \/ emit'[t] = [todo |-> e.todo, at |-> "copy", need |-> JsonSize(Latest),
                         json |-> e.json, calls |-> 0]
          \/ emit'[t] = [todo |-> e.todo, at |-> "write", need |-> e.need,
                         json |-> Latest, calls |-> 2]
      BY <2>2, AskShape
    <3> QED
      BY <3>1, <3>2, Zenon
  <2>3. CASE EmitWrite(t)
    <3>1. \A calls \in 1 .. 5 :
             Wellformed([todo |-> e.todo, at |-> "write", need |-> e.need, json |-> e.json,
                         calls |-> calls])
      BY <1>2, OneOfThree
    <3>2. \E calls \in 1 .. 5 :
             emit'[t] = [todo |-> e.todo, at |-> "write", need |-> e.need, json |-> e.json,
                         calls |-> calls]
      BY <2>3, WriteShape
    <3> QED
      BY <3>1, <3>2, Zenon
  <2>4. CASE EmitNewline(t)
    <3>1. emit'[t] = NextSignal(e)
      BY <1>4, <2>4 DEF EmitNewline
    <3> QED
      BY <1>2, <3>1, NextSignalShape
  <2> QED
    BY <2>1, <2>2, <2>3, <2>4 DEF EmitStep
<1> QED
  BY <1>1, <1>3, <1>5, <1>6, <1>7

\* What a thread publishes: the signals that fire and are connected to, the
\* track first.
LEMMA PublishesShape ==
    ASSUME OneThreadEach, NEW t \in Threads, NEW also,
           also = <<>> \/ (also = <<"position">> /\ "position" \in Range(Wanted)),
           Publishes(t, also)
    PROVE  /\ emit' = [emit EXCEPT ![t] = emit'[t]]
           /\ Wellformed(emit'[t])
           /\ Latest' # Latest /\ "state" \in Range(Wanted) =>
                 emit'[t].at = "owed" /\ "state" \in Range(emit'[t].todo)
           /\ IsTrackChange(Latest, Latest') /\ "track" \in Range(Wanted) =>
                 emit'[t].at = "owed" /\ Head(emit'[t].todo) = "track" /\ emit'[t].json = Latest'
           /\ stale' = stale \cup Outdated(Latest, Latest')
<1> DEFINE was == Latest
           is == Latest'
           W == Range(Wanted)
           first == Push("track", was, is) \o Push("adStarted", was, is)
           three == first \o Push("adEnded", was, is)
           four == three \o Push("state", was, is)
           todo == Fired(was, is) \o also
<1>1. /\ emit' = [emit EXCEPT ![t] = Notification(todo, is)]
      /\ stale' = stale \cup Outdated(was, is)
  BY Zenon DEF Publishes
<1>2. emit'[t] = Notification(todo, is)
  BY <1>1 DEF OneThreadEach
<1>3. \A s : Push(s, was, is) \in Seq(W)
  BY DEF Push
<1>4. <<>> \in Seq(W) /\ also \in Seq(W)
  <2>1. "position" \in W => <<"position">> \in Seq(W)
    OBVIOUS
  <2>2. <<>> \in Seq(W)
    BY EmptySeq
  <2> QED
    BY <2>1, <2>2
<1>5. was # is /\ "state" \in W => Push("state", was, is) = <<"state">>
  BY DEF Push, Fires
<1>6. IsTrackChange(was, is) /\ "track" \in W => Push("track", was, is) = <<"track">>
  BY DEF Push, Fires
<1>7. IsTrackChange(was, is) => was # is
  BY DEF IsTrackChange
<1>8. was # is => Fired(was, is) = four
  BY DEF Fired
<1>9. was = is => Fired(was, is) = <<>>
  BY DEF Fired
<1> HIDE DEF was, is, W
<1>10. first \in Seq(W) /\ three \in Seq(W) /\ four \in Seq(W)
  BY <1>3, ConcatProperties
<1>11. Fired(was, is) \in Seq(W) /\ todo \in Seq(W)
  BY <1>4, <1>8, <1>9, <1>10, ConcatProperties
<1>12. todo \in Seq(Said)
  BY <1>11, SeqMonotonic DEF W, Said
<1>13. Wellformed(Notification(todo, is))
  <2>1. todo = <<>> => Notification(todo, is) = Silent
    BY DEF Notification
  <2>2. todo # <<>> => Notification(todo, is)
                       = [todo |-> todo, at |-> "owed", need |-> 0, json |-> is, calls |-> 0]
    BY DEF Notification, Silent
  <2>3. "owed" \in Ats \ {"idle"} /\ "owed" # "write" /\ 0 \in 0 .. 5 /\ ~(0 > 0)
    BY DEF Ats
  <2> HIDE DEF todo
  <2> QED
    BY <1>12, <2>1, <2>2, <2>3, MadeWellformed, SilentWellformed
<1>14. ASSUME was # is, "state" \in W
       PROVE  "state" \in Range(todo)
  <2> DEFINE x == Push("state", was, is)
  <2>3. x = <<"state">> /\ x \in Seq(W) /\ todo = four \o also /\ four = three \o x
    BY <1>3, <1>5, <1>8, <1>14
  <2>6. \A s1, s2 \in Seq(W) : Range(s1 \o s2) = Range(s1) \cup Range(s2)
    BY RangeConcatenation, Zenon
  <2> HIDE DEF x, todo, four, three
  <2>4. Range(todo) = Range(four) \cup Range(also)
    BY <1>4, <1>10, <2>3, <2>6
  <2>5. Range(four) = Range(three) \cup Range(x)
    BY <1>10, <2>3, <2>6
  <2>1. /\ Range(todo) = Range(four) \cup Range(also)
        /\ Range(four) = Range(three) \cup Range(<<"state">>)
    BY <2>3, <2>4, <2>5
  <2>2. "state" \in Range(<<"state">>)
    BY DEF Range
  <2> QED
    BY <2>1, <2>2
<1>15. ASSUME IsTrackChange(was, is), "track" \in W
       PROVE  todo # <<>> /\ Head(todo) = "track"
  <2> DEFINE x == Push("track", was, is)
  <2>1. x = <<"track">> /\ Len(x) = 1 /\ x[1] = "track"
    BY <1>6, <1>15
  <2> HIDE DEF x
  <2>2. x \in Seq(W)
    BY <1>3 DEF x
  <2>3. Len(first) >= 1 /\ first[1] = "track" /\ Len(first) \in Nat
    BY <1>3, <1>10, <2>1, <2>2, ConcatProperties, LenProperties DEF x
  <2>4. Len(three) >= 1 /\ three[1] = "track" /\ Len(three) \in Nat
    BY <1>3, <1>10, <2>3, ConcatProperties, LenProperties
  <2>5. Len(four) >= 1 /\ four[1] = "track" /\ Len(four) \in Nat
    BY <1>3, <1>10, <2>4, ConcatProperties, LenProperties
  <2>6. Len(todo) >= 1 /\ todo[1] = "track"
    <3>1. todo = four \o also
      BY <1>7, <1>8, <1>15
    <3> HIDE DEF four, todo
    <3>2. /\ Len(todo) = Len(four) + Len(also)
          /\ \A i \in 1 .. Len(todo) :
                todo[i] = IF i <= Len(four) THEN four[i] ELSE also[i - Len(four)]
      BY <1>4, <1>10, <3>1, ConcatProperties
    <3>3. Len(also) \in Nat
      BY <1>4, LenProperties
    <3>4. Len(todo) >= 1 /\ 1 \in 1 .. Len(todo) /\ 1 <= Len(four)
      BY <2>5, <3>2, <3>3
    <3> QED
      BY <2>5, <3>2, <3>4
  <2> QED
    BY <1>11, <2>6, EmptySeq
<1>16. ASSUME todo # <<>>
       PROVE  /\ Notification(todo, is).at = "owed" /\ Notification(todo, is).todo = todo
              /\ Notification(todo, is).json = is
  BY <1>16 DEF Notification, Silent
<1>17. ASSUME was # is, "state" \in W
       PROVE  todo # <<>>
  <2>1. "state" \notin Range(<<>>)
    BY DEF Range
  <2> QED
    BY <1>14, <1>17, <2>1
<1> QED
  <2>1. emit' = [emit EXCEPT ![t] = emit'[t]] /\ Wellformed(emit'[t])
    BY <1>1, <1>2, <1>13
  <2>2. stale' = stale \cup Outdated(was, is)
    BY <1>1
  <2> QED
    BY <1>2, <1>14, <1>15, <1>16, <1>17, <2>1, <2>2 DEF was, is, W

\* Main is connected to a beginning of what it wants, from connect to the last
\* disconnect.
Before == {"parse", "seed", "sources", "wait", "act", "key", "mute", "baseline", "showing"}
ConnectInv ==
    /\ Len(connected) \in 0 .. Len(Wanted) /\ connected = SubSeq(Wanted, 1, Len(connected))
    /\ place \in Before => connected = <<>>
    /\ place = "connect" => Len(connected) < Len(Wanted)
    /\ place \in {"watch", "disconnect"} => connected # <<>>

LEMMA ConnectedWanted ==
    ASSUME ConnectInv
    PROVE  /\ connected \in Seq(Range(Wanted)) /\ Len(Wanted) \in Nat
           /\ Range(connected) \subseteq Range(Wanted)
<1>1. Wanted \in Seq(Range(Wanted)) /\ Len(Wanted) \in Nat
  BY WantedType, LenProperties
<1>2. \A i \in 1 .. Len(connected) : Wanted[i] \in Range(Wanted)
  BY <1>1, ElementOfSeq DEF ConnectInv
<1>3. Len(connected) \in Int
  BY <1>1 DEF ConnectInv
<1>4. SubSeq(Wanted, 1, Len(connected)) \in Seq(Range(Wanted))
  BY <1>2, <1>3, SubSeqProperties
<1>5. connected \in Seq(Range(Wanted))
  BY <1>4 DEF ConnectInv
<1>6. Range(connected) \in SUBSET Range(Wanted)
  BY <1>5, RangeOfSeq
<1> QED
  BY <1>1, <1>5, <1>6

LEMMA ConnectInvInit == Init => ConnectInv
<1> SUFFICES ASSUME Init
             PROVE  ConnectInv
  OBVIOUS
<1>1. connected = <<>> /\ place = "parse"
  BY DEF Init
<1>2. Len(connected) = 0 /\ Len(Wanted) \in Nat
  BY <1>1, EmptySeq, WantedType, LenProperties
<1>3. SubSeq(Wanted, 1, 0) = <<>>
  BY SubSeqEmpty
<1> QED
  BY <1>1, <1>2, <1>3 DEF ConnectInv

\* The next signal, and the last one.
LEMMA ConnectInvConnects ==
    ASSUME ConnectInv, Connect
    PROVE  ConnectInv'
<1> DEFINE n == Len(connected)
           W == Range(Wanted)
<1>1. /\ connected' = Append(connected, Wanted[n + 1]) /\ Wanted' = Wanted
      /\ place' = IF Len(connected') = Len(Wanted') THEN "watch" ELSE "connect"
  BY DEF Connect, Goto, Stays, Wanted
<1>2. n \in Nat /\ n < Len(Wanted) /\ Len(Wanted) \in Nat
  BY ConnectedWanted DEF ConnectInv, Connect
<1>3. Wanted \in Seq(W) /\ connected \in Seq(W) /\ Wanted[n + 1] \in W
  BY <1>2, WantedType, ConnectedWanted, ElementOfSeq
<1>4. /\ Append(connected, Wanted[n + 1]) \in Seq(W) /\ connected' # <<>>
      /\ Len(Append(connected, Wanted[n + 1])) = n + 1
      /\ Append(connected, Wanted[n + 1]) = connected \o <<Wanted[n + 1]>>
  BY <1>1, <1>3, AppendProperties, AppendIsConcat
<1>5. SubSeq(Wanted, 1, n + 1) = SubSeq(Wanted, 1, n) \o <<Wanted[n + 1]>>
  <2>1. n + 1 \in 1 .. Len(Wanted) /\ 1 \in 1 .. Len(Wanted) /\ n + 1 \in 1 .. Len(Wanted)
        /\ (n + 1) - 1 = n
    BY <1>2
  <2> HIDE DEF n, W
  <2>2. SubSeq(Wanted, 1, n + 1) = SubSeq(Wanted, 1, (n + 1) - 1) \o <<Wanted[n + 1]>>
    BY <1>2, <1>3, <2>1, SubSeqRecursiveSecond
  <2> QED
    BY <2>1, <2>2
<1>6. connected = SubSeq(Wanted, 1, n)
  BY DEF ConnectInv
<1> HIDE DEF n, W
<1>7. connected' = SubSeq(Wanted', 1, Len(connected')) /\ Len(connected') \in 0 .. Len(Wanted')
  BY <1>1, <1>2, <1>4, <1>5, <1>6
<1>8. place' \in {"watch", "connect"} /\ (place' = "connect" => Len(connected') < Len(Wanted'))
  BY <1>1, <1>2, <1>4
<1> QED
  BY <1>4, <1>7, <1>8 DEF ConnectInv, Before

LEMMA ConnectInvDisconnects ==
    ASSUME ConnectInv, Disconnect
    PROVE  ConnectInv'
<1> DEFINE n == Len(connected)
           W == Range(Wanted)
<1>1. /\ connected' = SubSeq(connected, 1, n - 1) /\ Wanted' = Wanted /\ connected # <<>>
      /\ place' = IF connected' = <<>> THEN "stop" ELSE "disconnect"
  BY DEF Disconnect, Goto, Stays, Wanted, Front, ConnectInv
<1>2. connected \in Seq(W) /\ Len(Wanted) \in Nat /\ Wanted \in Seq(W) /\ n <= Len(Wanted)
  BY ConnectedWanted, WantedType DEF ConnectInv
<1>3. n \in Nat \ {0}
  BY <1>1, <1>2, EmptySeq
<1>4. Len(connected') = n - 1
  <2>1. \A i \in 1 .. n - 1 : connected[i] \in W
    BY <1>2, <1>3, ElementOfSeq
  <2> HIDE DEF n, W
  <2>2. n - 1 \in Int /\ 1 \in Int
    BY <1>3
  <2>3. Len(SubSeq(connected, 1, n - 1)) = IF 1 <= n - 1 THEN (n - 1) - 1 + 1 ELSE 0
    BY <2>1, <2>2, SubSeqProperties
  <2>4. (IF 1 <= n - 1 THEN (n - 1) - 1 + 1 ELSE 0) = n - 1
    BY <1>3
  <2> QED
    BY <1>1, <2>3, <2>4
<1>5. SubSeq(SubSeq(Wanted, 1, n), 1, n - 1) = SubSeq(Wanted, 1, n - 1)
  <2>1. CASE n = 1
    <3>1. n - 1 = 0
      BY <2>1
    <3>2. SubSeq(SubSeq(Wanted, 1, n), 1, 0) = <<>> /\ SubSeq(Wanted, 1, 0) = <<>>
      BY SubSeqEmpty
    <3> QED
      BY <3>1, <3>2
  <2>2. CASE n # 1
    <3> DEFINE k == Len(Wanted)
    <3> HIDE DEF n, W, k
    <3>1. k \in Nat /\ n <= k
      BY <1>2 DEF k
    <3>2. /\ 1 \in 1 .. k /\ n \in 1 .. k
          /\ 1 \in 1 .. n - 1 + 1 /\ n - 1 \in 1 .. n - 1 + 1
          /\ 1 + 1 - 1 = 1 /\ 1 + (n - 1) - 1 = n - 1
      BY <1>3, <2>2, <3>1
    <3>3. SubSeq(SubSeq(Wanted, 1, n), 1, n - 1) = SubSeq(Wanted, 1 + 1 - 1, 1 + (n - 1) - 1)
      BY <1>2, <3>2, SubSeqOfSubSeq DEF k
    <3> QED
      BY <3>2, <3>3
  <2> QED
    BY <2>1, <2>2
<1>6. connected = SubSeq(Wanted, 1, n)
  BY DEF ConnectInv
<1> HIDE DEF n, W
<1>7. connected' = SubSeq(Wanted', 1, Len(connected')) /\ Len(connected') \in 0 .. Len(Wanted')
  BY <1>1, <1>2, <1>3, <1>4, <1>5, <1>6
<1> QED
  BY <1>1, <1>7 DEF ConnectInv, Before

LEMMA Unconnected ==
    connected = <<>> /\ place \notin {"connect", "watch", "disconnect"} => ConnectInv
<1> SUFFICES ASSUME connected = <<>>, place \notin {"connect", "watch", "disconnect"}
             PROVE  ConnectInv
  OBVIOUS
<1>1. Len(connected) = 0 /\ Len(Wanted) \in Nat
  BY EmptySeq, WantedType, LenProperties
<1>2. SubSeq(Wanted, 1, 0) = <<>>
  BY SubSeqEmpty
<1> QED
  BY <1>1, <1>2 DEF ConnectInv

LEMMA StreamsWant == ASSUME cmd \in Streams PROVE Len(Wanted) > 0
<1> DEFINE Signals == {"track", "adStarted", "adEnded", "position"}
           three == <<"track", "adStarted", "adEnded">>
           more == IF "--position" \in Range(rest) THEN <<"position">> ELSE <<>>
<1>1. CASE cmd = "watch"
  BY <1>1 DEF Wanted
<1>2. CASE cmd = "events"
  <2>1. Wanted = three \o more
    BY <1>2 DEF Wanted
  <2>2. three \in Seq(Signals) /\ Len(three) = 3
    OBVIOUS
  <2>4. <<>> \in Seq(Signals) /\ <<"position">> \in Seq(Signals)
    OBVIOUS
  <2>5. more \in Seq(Signals)
    BY <2>4
  <2> HIDE DEF three, more
  <2>3. Len(Wanted) = Len(three) + Len(more) /\ Len(more) \in Nat
    BY <2>1, <2>2, <2>5, ConcatProperties, LenProperties
  <2> QED
    BY <2>2, <2>3
<1> QED
  BY <1>1, <1>2 DEF Streams

\* Only Connect and Disconnect touch the connections, and main gets to them
\* from two steps.
LEMMA MainPlaces ==
    ASSUME WorkerInv, MainStep
    PROVE  \/ Connect \/ Disconnect \/ New
           \/ /\ UNCHANGED <<connected, cmd, rest>>
              /\ \/ place' = place \/ place' \in Stopping
                 \/ place \in Before /\ place' \in Before
                 \/ place \in Before /\ place' = "connect" /\ cmd \in Streams
<1> USE DEF Goto, Stays, MainFrame, Exit, main, library, Before, Stopping
<1>1. CASE Refuse \/ NewFails
  BY <1>1 DEF Refuse, NewFails
<1>2. CASE Seed
  BY <1>2 DEF Seed
<1>3. CASE StartSources
  BY <1>3 DEF StartSources, Streams
<1>4. CASE Detected \/ Sleeps \/ GivesUp
  BY <1>4 DEF Detected, Sleeps, GivesUp
<1>5. CASE PrintJson \/ PrintText \/ Baseline
  BY <1>5 DEF PrintJson, PrintText, Baseline, EmitFromMain
<1>6. CASE Shown
  BY <1>6 DEF Shown, Streams
<1>7. CASE AskSession \/ AskNobody \/ Seek
  BY <1>7 DEF AskSession, AskNobody, Seek, Transport, Asks, Returns, FallsBack
<1>8. CASE PostKey \/ Volume
  BY <1>8 DEF PostKey, Volume, Adjusts, Returns
<1>9. CASE ReadMuted \/ Mute
  BY <1>9 DEF ReadMuted, Mute, SetMuted, Adjusts, Returns
<1>10. CASE Open
  BY <1>10 DEF Open
<1>11. CASE BeginStop \/ Notify \/ Join \/ Teardown
  BY <1>11 DEF BeginStop, Notify, Join, Teardown
<1>12. CASE EmitStep("main")
  BY <1>12 DEF EmitStep, Snapshot, EmitSize, EmitCopy, EmitWrite, EmitNewline, EmitFrame
<1> QED
  BY <1>1, <1>2, <1>3, <1>4, <1>5, <1>6, <1>7, <1>8, <1>9, <1>10, <1>11, <1>12 DEF MainStep

LEMMA OthersPlaces ==
    ASSUME WorkerStep \/ EmitStep("worker") \/ TimeOut \/ HandlerStep \/ Environment
           \/ UNCHANGED vars
    PROVE  UNCHANGED <<connected, place, cmd, rest>>
<1> USE DEF MainFrame, main, library
<1>1. CASE WorkerStep \/ TimeOut \/ Refresh
  BY <1>1 DEF WorkerStep, TimeOut, Refresh
<1>2. CASE EmitStep("worker") \/ EmitStep("handler")
  BY <1>2 DEF EmitStep, Snapshot, EmitSize, EmitCopy, EmitWrite, EmitNewline, EmitFrame
<1>3. CASE Environment
  BY <1>3 DEF Environment, SpotifyOpens, SpotifyCloses, SpotifyRenames, MediaChanges,
       StreamChanges, Changes, Outside, Interrupt
<1>4. CASE UNCHANGED vars
  BY <1>4 DEF vars
<1> QED
  BY <1>1, <1>2, <1>3, <1>4 DEF HandlerStep

LEMMA ConnectInvStep ==
    ASSUME WorkerInv, ConnectInv, [Next]_vars
    PROVE  ConnectInv'
<1>1. (connected = <<>> /\ place \notin {"connect", "watch", "disconnect"})' => ConnectInv'
  BY Unconnected, PTL
<1>2. ASSUME UNCHANGED <<connected, cmd, rest>>,
             \/ place' = place \/ place' \in Stopping
             \/ place \in Before /\ place' \in Before
             \/ place \in Before /\ place' = "connect" /\ cmd \in Streams
      PROVE  ConnectInv'
  <2>1. Wanted' = Wanted
    BY <1>2 DEF Wanted
  <2>2. place' = "connect" => Len(connected) < Len(Wanted)
    <3>1. Len(<<>>) = 0
      BY EmptySeq
    <3> QED
      BY <1>2, <3>1, StreamsWant DEF ConnectInv, Before, Stopping
  <2> QED
    BY <1>2, <2>1, <2>2 DEF ConnectInv, Before, Stopping
<1>3. CASE New
  BY <1>1, <1>3 DEF New, MainFrame, library, Goto, ConnectInv, Before
<1>4. CASE Connect \/ Disconnect
  BY <1>4, ConnectInvConnects, ConnectInvDisconnects
<1>5. CASE MainStep
  BY <1>2, <1>3, <1>4, <1>5, MainPlaces
<1> QED
  BY <1>2, <1>5, OthersPlaces DEF Next

LEMMA EmitInvInit == Init => EmitInv
<1> SUFFICES ASSUME Init
             PROVE  EmitInv
  OBVIOUS
<1>1. line = {} /\ \A t \in Threads : emit[t] = Silent
  BY DEF Init
<1>2. \A t \in Threads : Wellformed(emit[t])
  BY <1>1, SilentWellformed
<1> QED
  BY <1>1, <1>2 DEF EmitInv, Idle, Threads

\* A thread begins, continues or ends its notifications.
LEMMA EmitInvThread ==
    ASSUME EmitInv, OneThreadEach, NEW t \in Threads,
           UNCHANGED <<cmd, rest>>, place' # "parse",
           place' = "showing" \/ (place' = place /\ t # "main"),
           emit' = [emit EXCEPT ![t] = emit'[t]], Wellformed(emit'[t]),
           line' \subseteq line \cup {t}
    PROVE  EmitInv'
<1>1. Said' = Said
  BY DEF Said, Wanted
<1>2. \A u \in Threads : Wellformed(emit'[u])
  BY DEF EmitInv, OneThreadEach
<1>3. \A u \in Threads : Wellformed(emit[u])'
  BY <1>1, <1>2 DEF Wellformed
<1>4. place' # "showing" => Idle("main")'
  BY DEF EmitInv, OneThreadEach, Idle, Threads
<1>5. line' \subseteq Threads
  BY DEF EmitInv
<1> QED
  BY <1>3, <1>4, <1>5 DEF EmitInv

\* No notification moves; what main wants may change while nobody notifies.
LEMMA EmitInvAside ==
    ASSUME EmitInv, UNCHANGED <<emit, line>>,
           UNCHANGED <<cmd, rest>> \/ place = "parse",
           place' # "parse" \/ place' = place,
           place # "showing" \/ place' = place \/ Idle("main")
    PROVE  EmitInv'
<1>1. \A t \in Threads : Wellformed(emit[t])'
  <2>1. CASE UNCHANGED <<cmd, rest>>
    <3>1. Said' = Said
      BY <2>1 DEF Said, Wanted
    <3> QED
      BY <3>1 DEF EmitInv, Wellformed
  <2>2. CASE place = "parse"
    <3>1. \A t \in Threads : emit[t] = Silent /\ emit'[t] = Silent
      BY <2>2 DEF EmitInv, Idle
    <3>2. Wellformed(Silent)'
      BY SilentWellformed, PTL
    <3> QED
      BY <3>1, <3>2 DEF Wellformed
  <2> QED
    BY <2>1, <2>2
<1>2. \A t \in Threads : Idle(t)' <=> Idle(t)
  BY DEF Idle
<1>3. "main" \in Threads
  BY DEF Threads
<1> QED
  BY <1>1, <1>2, <1>3 DEF EmitInv, Threads

LEMMA EmitInvMain ==
    ASSUME WorkerInv, EmitInv, MainStep
    PROVE  EmitInv'
<1> USE DEF Goto, Stays, MainFrame, Exit, main, library, stdout
<1> DEFINE Aside == /\ UNCHANGED <<emit, line>>
                    /\ UNCHANGED <<cmd, rest>> \/ place = "parse"
                    /\ place' # "parse" \/ place' = place
                    /\ place # "showing" \/ place' = place \/ Idle("main")
<1>1. CASE Refuse \/ NewFails \/ New
  <2>1. Aside
    BY <1>1 DEF Refuse, NewFails, New
  <2> QED
    BY <2>1, EmitInvAside
<1>2. CASE Seed \/ StartSources \/ Detected \/ Sleeps \/ GivesUp
  <2>1. Aside
    BY <1>2 DEF Seed, StartSources, Detected, Sleeps, GivesUp
  <2> QED
    BY <2>1, EmitInvAside
<1>3. CASE PrintText \/ Shown \/ Connect \/ Disconnect
  <2>1. Aside
    BY <1>3 DEF PrintText, Shown, Connect, Disconnect
  <2> QED
    BY <2>1, EmitInvAside
<1>4. CASE AskSession \/ AskNobody \/ Seek \/ PostKey
  <2>1. Aside
    BY <1>4 DEF AskSession, AskNobody, Seek, PostKey, Transport, Asks, Returns, FallsBack
  <2> QED
    BY <2>1, EmitInvAside
<1>5. CASE Volume \/ ReadMuted \/ Mute \/ Open
  <2>1. Aside
    BY <1>5 DEF Volume, ReadMuted, Mute, Open, SetMuted, Adjusts, Returns
  <2> QED
    BY <2>1, EmitInvAside
<1>6. CASE BeginStop \/ Notify \/ Join \/ Teardown
  <2>1. Aside
    <3>1. CASE BeginStop \/ Join
      BY <3>1 DEF BeginStop, Join, Audio!Join, WorkerInv, JoinsInPlace
    <3>2. CASE Notify
      BY <3>2 DEF Notify
    <3>3. CASE Teardown
      BY <3>3 DEF Teardown
    <3> QED
      BY <1>6, <3>1, <3>2, <3>3
  <2> QED
    BY <2>1, EmitInvAside
<1>7. CASE PrintJson \/ Baseline
  <2>1. /\ emit' = [emit EXCEPT !["main"] = [Silent EXCEPT !.todo = <<"state">>, !.at = "size"]]
        /\ place' = "showing" /\ place # "showing" /\ UNCHANGED <<cmd, rest, line>>
    BY <1>7 DEF PrintJson, Baseline, EmitFromMain
  <2>2. "main" \in Threads /\ emit = [u \in Threads |-> emit[u]]
    BY DEF WorkerInv, OneThreadEach, Threads
  <2>3. emit'["main"] = [todo |-> <<"state">>, at |-> "size", need |-> 0,
                        json |-> NoPlayback, calls |-> 0]
    BY <2>1, <2>2 DEF Silent
  <2>4. <<"state">> \in Seq(Said) /\ <<"state">> # <<>>
    BY DEF Said
  <2>5. Wellformed(emit'["main"])
    <3> DEFINE todo == <<"state">>
    <3> HIDE DEF todo
    <3>1. /\ todo \in Seq(Said) /\ todo # <<>> /\ "size" \in Ats \ {"idle"}
          /\ "size" # "write" /\ 0 \in 0 .. 5 /\ ~(0 > 0)
      BY <2>4 DEF todo, Ats
    <3>2. emit'["main"] = [todo |-> todo, at |-> "size", need |-> 0, json |-> NoPlayback,
                          calls |-> 0]
      BY <2>3 DEF todo
    <3> QED
      BY <3>1, <3>2, MadeWellformed
  <2>7. emit' = [emit EXCEPT !["main"] = emit'["main"]]
    BY <2>1, <2>2
  <2> QED
    BY <2>1, <2>2, <2>5, <2>7, EmitInvThread DEF WorkerInv
<1>8. CASE EmitStep("main")
  <2>1. "main" \in Threads
    BY DEF Threads
  <2>2. Wellformed(emit["main"])
    BY <2>1 DEF EmitInv
  <2>3. /\ emit' = [emit EXCEPT !["main"] = emit'["main"]]
        /\ Wellformed(emit'["main"]) /\ ~Idle("main")
        /\ UNCHANGED <<main, library, world, audio>>
        /\ line' \subseteq line \cup {"main"}
    BY <1>8, <2>1, <2>2, EmitStepShape DEF WorkerInv
  <2>4. place = "showing" /\ place' = "showing" /\ UNCHANGED <<cmd, rest>>
    BY <2>3 DEF EmitInv
  <2> QED
    BY <2>1, <2>3, <2>4, EmitInvThread DEF WorkerInv
<1> QED
  BY <1>1, <1>2, <1>3, <1>4, <1>5, <1>6, <1>7, <1>8 DEF MainStep

\* The worker and the handler publish when they are in no notification.
LEMMA LibraryPublishes ==
    ASSUME WorkerInv, ConnectInv, SourceTypes,
           NEW t \in {"worker", "handler"},
           (t = "worker" /\ WorkerStep) \/ (t = "handler" /\ Refresh)
    PROVE  /\ Idle(t) /\ UNCHANGED <<cmd, rest, place, connected, line>> /\ place # "parse"
           /\ \E also : /\ also = <<>> \/ (also = <<"position">> /\ "position" \in Range(Wanted))
                        /\ Publishes(t, also)
<1>1. CASE WorkerStep /\ t = "worker"
  <2>1. Idle(t) /\ UNCHANGED <<cmd, rest, place, connected, line>>
    BY <1>1 DEF WorkerStep, main, library
  <2>2. place # "parse"
    BY <1>1 DEF WorkerStep, WorkerInv, StartedBetween, Audio!WorkerStep, Audio!Exit,
       Audio!BeginPoll, Audio!Release, Audio!KeepSession, Audio!Resolve, Audio!ResolveFails,
       Audio!Measures, Audio!MeasureNothing, Audio!MeasureSession, Audio!MeasurePartly,
         Audio!MeasureExpired, Audio!Apply, Audio!NotifyAudible, Audio!CountTick, Audio!Sleep
  <2>3. \E also \in {<<>>} \cup
                    (IF "position" \in Range(connected) THEN {<<"position">>} ELSE {}) :
           Publishes(t, also)
    BY <1>1, Zenon DEF WorkerStep
  <2> QED
    BY <2>1, <2>2, <2>3, ConnectedWanted
<1>2. CASE Refresh /\ t = "handler"
  <2>1. Idle(t) /\ UNCHANGED <<cmd, rest, place, connected, line>> /\ session # "off"
    BY <1>2 DEF Refresh, main
  <2>2. Publishes(t, <<>>)
    BY <1>2 DEF Refresh
  <2> QED
    BY <2>1, <2>2 DEF SourceTypes
<1> QED
  BY <1>1, <1>2

\* The worker and the handler, between two notifications and in one.
LEMMA EmitInvLibrary ==
    ASSUME WorkerInv, ConnectInv, SourceTypes, EmitInv,
           NEW t \in {"worker", "handler"},
           \/ t = "worker" /\ WorkerStep
           \/ t = "handler" /\ Refresh
           \/ EmitStep(t)
    PROVE  EmitInv'
<1>1. t \in Threads /\ t # "main"
  BY ThreadsApart DEF Threads
<1>2. CASE EmitStep(t)
  <2>1. Wellformed(emit[t])
    BY <1>1 DEF EmitInv
  <2>2. /\ emit' = [emit EXCEPT ![t] = emit'[t]]
        /\ Wellformed(emit'[t]) /\ ~Idle(t)
        /\ UNCHANGED <<main, library, world, audio>>
        /\ line' \subseteq line \cup {t}
    BY <1>1, <1>2, <2>1, EmitStepShape DEF WorkerInv
  <2>3. place # "parse" /\ UNCHANGED <<cmd, rest, place>>
    BY <1>1, <2>2 DEF EmitInv, main
  <2> QED
    BY <1>1, <2>2, <2>3, EmitInvThread DEF WorkerInv
<1>3. CASE ~EmitStep(t)
  <2>1. /\ Idle(t) /\ UNCHANGED <<cmd, rest, place, line>> /\ place # "parse"
        /\ \E also : /\ also = <<>> \/ (also = <<"position">> /\ "position" \in Range(Wanted))
                     /\ Publishes(t, also)
    BY <1>3, LibraryPublishes
  <2>2. PICK also : /\ also = <<>> \/ (also = <<"position">> /\ "position" \in Range(Wanted))
                    /\ Publishes(t, also)
    BY <2>1
  <2>3. /\ emit' = [emit EXCEPT ![t] = emit'[t]]
        /\ Wellformed(emit'[t])
    BY <1>1, <2>2, PublishesShape DEF WorkerInv
  <2> QED
    BY <1>1, <2>1, <2>3, EmitInvThread DEF WorkerInv
<1> QED
  BY <1>2, <1>3

LEMMA EmitInvStep ==
    ASSUME WorkerInv, ConnectInv, SourceTypes, EmitInv, [Next]_vars
    PROVE  EmitInv'
<1>1. CASE TimeOut \/ Environment \/ UNCHANGED vars
  <2>1. UNCHANGED <<emit, line, cmd, rest, place>>
    BY <1>1 DEF TimeOut, Environment, SpotifyOpens, SpotifyCloses, SpotifyRenames, MediaChanges,
       StreamChanges, Changes, Outside, Interrupt, MainFrame, vars, main, stdout
  <2> QED
    BY <2>1, EmitInvAside
<1> QED
  BY <1>1, EmitInvMain, EmitInvLibrary DEF Next, HandlerStep

-----------------------------------------------------------------------------
(* What watch shows.                                                         *)

\* A thread that is going to write signal s as it is now: the state once it
\* has said what comes before, unless the state has changed since it asked;
\* the track it was given, unless that is another one.
Owes(e, s) ==
    \/ /\ s = "state" /\ e.todo # <<>>
       /\ \/ "state" \in Range(Tail(e.todo))
          \/ Head(e.todo) = "state" /\ e.at \in {"owed", "size"}
          \/ Head(e.todo) = "state" /\ e.at = "copy" /\ e.need = JsonSize(Latest)
          \/ Head(e.todo) = "state" /\ e.at = "write" /\ e.need = JsonSize(Latest)
                                    /\ e.json = Latest
    \/ /\ s = "track" /\ e.todo # <<>> /\ Head(e.todo) = "track"
       /\ e.at \in {"owed", "write"} /\ ~IsTrackChange(e.json, Latest)

\* What is out of date on stdout is owed by somebody.
StaleInv ==
    /\ stale \subseteq {"track", "state"}
    /\ place \in Before => stale = {}
    /\ place \in {"connect", "watch"} =>
          \A s \in stale : s \in Range(connected) /\ \E t \in Threads : Owes(emit[t], s)

LEMMA StaleInvInit == Init => StaleInv
  BY DEF Init, StaleInv

LEMMA StaleInvShows == StaleInv => WatchShowsLatest
<1> SUFFICES ASSUME StaleInv, place = "watch", \A t \in Threads : Idle(t), stale # {}
             PROVE  FALSE
  BY DEF WatchShowsLatest
<1>1. PICK s \in stale, t \in Threads : Owes(emit[t], s)
  BY DEF StaleInv
<1>2. emit[t].todo = <<>>
  BY DEF Idle, Silent
<1> QED
  BY <1>1, <1>2 DEF Owes

LEMMA LatestKept == UNCHANGED <<report, titleFrag, applied>> => Latest' = Latest
  BY DEF Latest, AudioFragment

\* The track stays the same over two steps that leave it.
LEMMA SameTrack ==
    ASSUME NEW a, NEW b, NEW c, ~IsTrackChange(a, b), ~IsTrackChange(b, c)
    PROVE  ~IsTrackChange(a, c)
  BY DEF IsTrackChange

\* One that says another signal first owes what follows.
LEMMA OwesRest ==
    ASSUME NEW e, Wellformed(e), e.at # "idle", "state" \in Range(Tail(e.todo))
    PROVE  Owes(NextSignal(e), "state")
<1>1. NextSignal(e).at = "owed" /\ NextSignal(e).todo = Tail(e.todo)
  BY NextSignalShape
<1>2. Tail(e.todo) \in Seq(Said)
  BY HeadTailProperties DEF Wellformed
<1>3. Tail(e.todo) # <<>>
  BY DEF Range
<1>4. "state" = Head(Tail(e.todo)) \/ "state" \in Range(Tail(Tail(e.todo)))
  BY <1>2, <1>3, HeadOrTail
<1> QED
  BY <1>1, <1>3, <1>4 DEF Owes

\* A step of the notification pays, or keeps owing.
LEMMA OwesEmit ==
    ASSUME OneThreadEach, NEW t \in Threads, Wellformed(emit[t]), EmitStep(t),
           NEW s \in Range(connected), Owes(emit[t], s)
    PROVE  Owes(emit'[t], s) \/ s \notin stale'
<1> DEFINE e == emit[t]
<1>1. e.todo # <<>> /\ s \in {"state", "track"}
  BY DEF Owes
<1>2. emit = [u \in Threads |-> emit[u]]
  BY DEF OneThreadEach
<1>3. CASE Snapshot(t)
  <2>1. e.at = "owed"
    BY <1>3 DEF Snapshot
  <2>2. CASE Head(e.todo) \notin Range(connected) /\ emit'[t] = NextSignal(e)
    <3>1. s = "state" /\ "state" \in Range(Tail(e.todo))
      BY <2>2 DEF Owes
    <3> QED
      BY <2>1, <2>2, <3>1, OwesRest
  <2>3. CASE /\ Head(e.todo) = "state"
             /\ emit'[t] = [todo |-> e.todo, at |-> "size", need |-> e.need,
                            json |-> NoPlayback, calls |-> 0]
    BY <1>1, <2>3 DEF Owes
  <2>4. CASE /\ Head(e.todo) # "state"
             /\ \E calls \in 1 .. 5 :
                   emit'[t] = [todo |-> e.todo, at |-> "write", need |-> e.need,
                               json |-> e.json, calls |-> calls]
    BY <1>1, <2>4 DEF Owes
  <2> QED
    BY <1>3, <2>2, <2>3, <2>4, SnapshotShape
<1>4. CASE EmitSize(t) \/ EmitCopy(t)
  <2>1. \/ /\ e.at = "size"
           /\ emit'[t] = [todo |-> e.todo, at |-> "copy", need |-> JsonSize(Latest),
                          json |-> e.json, calls |-> 0]
        \/ /\ e.at = "copy"
           /\ emit'[t] = [todo |-> e.todo, at |-> "write", need |-> e.need,
                          json |-> Latest, calls |-> 2]
    BY <1>4, AskShape
  <2> QED
    BY <1>1, <2>1 DEF Owes
<1>5. CASE EmitWrite(t)
  <2>1. /\ e.at = "write"
        /\ \E calls \in 1 .. 5 :
              emit'[t] = [todo |-> e.todo, at |-> "write", need |-> e.need,
                          json |-> e.json, calls |-> calls]
    BY <1>5, WriteShape
  <2> QED
    BY <1>1, <2>1 DEF Owes
<1>6. CASE EmitNewline(t)
  <2>1. /\ emit'[t] = NextSignal(e) /\ e.at = "write"
        /\ stale' = IF Whole(e) /\ Current(e) THEN stale \ {Head(e.todo)} ELSE stale
    BY <1>2, <1>6 DEF EmitNewline
  <2>2. CASE "state" \in Range(Tail(e.todo)) /\ s = "state"
    BY <2>1, <2>2, OwesRest
  <2>3. CASE ~("state" \in Range(Tail(e.todo)) /\ s = "state")
    <3>1. \/ s = "state" /\ Head(e.todo) = "state" /\ e.need = JsonSize(Latest) /\ e.json = Latest
          \/ s = "track" /\ Head(e.todo) = "track" /\ ~IsTrackChange(e.json, Latest)
      BY <2>1, <2>3 DEF Owes
    <3>2. Head(e.todo) = s /\ Whole(e) /\ Current(e)
      BY <3>1 DEF Whole, Current
    <3>3. stale' = stale \ {s}
      BY <2>1, <3>2
    <3> QED
      BY <3>3
  <2> QED
    BY <2>2, <2>3
<1> QED
  BY <1>3, <1>4, <1>5, <1>6 DEF EmitStep

LEMMA StaleInvEmit ==
    ASSUME OneThreadEach, EmitInv, StaleInv, NEW t \in Threads, EmitStep(t)
    PROVE  StaleInv'
<1>1. Wellformed(emit[t])
  BY DEF EmitInv
<1>2. /\ emit' = [emit EXCEPT ![t] = emit'[t]]
      /\ UNCHANGED <<place, connected, report, titleFrag, applied>>
  BY <1>1, EmitStepShape DEF main, library, audio, worker
<1>3. Latest' = Latest
  BY <1>2, LatestKept
<1>4. stale' \subseteq stale
  BY DEF EmitStep, Snapshot, EmitSize, EmitCopy, EmitWrite, EmitNewline
<1>5. ASSUME place \in {"connect", "watch"}, NEW s \in stale'
      PROVE  s \in Range(connected) /\ \E u \in Threads : Owes(emit'[u], s)
  <2>1. s \in Range(connected)
    BY <1>4, <1>5 DEF StaleInv
  <2>2. PICK u \in Threads : Owes(emit[u], s)
    BY <1>4, <1>5 DEF StaleInv
  <2>3. CASE u = t
    <3>1. Owes(emit'[t], s)
      BY <1>1, <1>5, <2>1, <2>2, <2>3, OwesEmit
    <3> QED
      BY <2>1, <3>1
  <2>4. CASE u # t
    <3>1. emit'[u] = emit[u]
      BY <1>2, <2>4 DEF OneThreadEach
    <3> QED
      BY <2>1, <2>2, <3>1
  <2> QED
    BY <2>3, <2>4
<1>6. \A u, s : Owes(emit'[u], s) => Owes(emit[u], s)'
  BY <1>3 DEF Owes
<1> QED
  BY <1>2, <1>4, <1>5, <1>6 DEF StaleInv

\* The thread that publishes a change owes it; those who write the same track
\* still do.
LEMMA StaleInvPublishes ==
    ASSUME OneThreadEach, ConnectInv, StaleInv, NEW t \in Threads, Idle(t), NEW also,
           also = <<>> \/ (also = <<"position">> /\ "position" \in Range(Wanted)),
           Publishes(t, also), UNCHANGED <<place, connected>>
    PROVE  StaleInv'
<1>1. /\ emit' = [emit EXCEPT ![t] = emit'[t]] /\ Wellformed(emit'[t])
      /\ Latest' # Latest /\ "state" \in Range(Wanted) =>
            emit'[t].at = "owed" /\ "state" \in Range(emit'[t].todo)
      /\ IsTrackChange(Latest, Latest') /\ "track" \in Range(Wanted) =>
            emit'[t].at = "owed" /\ Head(emit'[t].todo) = "track" /\ emit'[t].json = Latest'
      /\ stale' = stale \cup Outdated(Latest, Latest')
  BY PublishesShape
<1>2. Range(connected) \subseteq Range(Wanted)
  BY ConnectedWanted
<1>3. stale' \subseteq {"track", "state"}
  BY <1>1 DEF StaleInv, Outdated
<1>4. ASSUME place \in Before
      PROVE  stale' = {}
  <2>1. Range(connected) = {}
    <3>1. connected = <<>>
      BY <1>4 DEF ConnectInv
    <3> QED
      BY <3>1 DEF Range
  <2> QED
    BY <1>1, <1>4, <2>1 DEF StaleInv, Outdated
<1>5. ASSUME place \in {"connect", "watch"}, NEW s \in stale'
      PROVE  s \in Range(connected) /\ \E u \in Threads : Owes(emit[u], s)'
  <2>1. s \in Range(connected)
    BY <1>1, <1>5 DEF StaleInv, Outdated
  <2>2. s \in Range(Wanted)
    BY <1>2, <2>1
  <2>3. ASSUME s \in stale
        PROVE  \E u \in Threads \ {t} : Owes(emit[u], s) /\ emit'[u] = emit[u]
    <3>1. PICK u \in Threads : Owes(emit[u], s)
      BY <1>5, <2>3 DEF StaleInv
    <3>2. u # t
      BY <3>1 DEF Owes, Idle, Silent
    <3> QED
      BY <1>1, <3>1, <3>2 DEF OneThreadEach
  <2>4. CASE s = "state" /\ Latest' # Latest
    <3>1. emit'[t].at = "owed" /\ "state" \in Range(emit'[t].todo)
      BY <1>1, <2>2, <2>4
    <3>2. emit'[t].todo # <<>> /\ emit'[t].todo \in Seq(Said)
      BY <1>1, <3>1 DEF Wellformed
    <3>3. Head(emit'[t].todo) = "state" \/ "state" \in Range(Tail(emit'[t].todo))
      BY <3>1, <3>2, HeadOrTail
    <3>4. Owes(emit[t], s)'
      BY <2>4, <3>1, <3>2, <3>3 DEF Owes
    <3> QED
      BY <2>1, <3>4
  <2>5. CASE s = "state" /\ Latest' = Latest
    <3>1. s \in stale
      BY <1>1, <1>5, <2>5 DEF Outdated, Fires
    <3>2. PICK u \in Threads \ {t} : Owes(emit[u], s) /\ emit'[u] = emit[u]
      BY <2>3, <3>1
    <3>3. Owes(emit[u], s)'
      BY <2>5, <3>2 DEF Owes
    <3> QED
      BY <2>1, <3>3
  <2>6. CASE s = "track" /\ IsTrackChange(Latest, Latest')
    <3>1. emit'[t].at = "owed" /\ Head(emit'[t].todo) = "track" /\ emit'[t].json = Latest'
      BY <1>1, <2>2, <2>6
    <3>2. emit'[t].todo # <<>>
      BY <1>1, <3>1 DEF Wellformed
    <3>3. ~IsTrackChange(Latest', Latest')
      BY DEF IsTrackChange
    <3>4. Owes(emit[t], s)'
      BY <2>6, <3>1, <3>2, <3>3 DEF Owes, IsTrackChange
    <3> QED
      BY <2>1, <3>4
  <2>7. CASE s = "track" /\ ~IsTrackChange(Latest, Latest')
    <3>1. s \in stale
      BY <1>1, <1>5, <2>7 DEF Outdated, Fires
    <3>2. PICK u \in Threads \ {t} : Owes(emit[u], s) /\ emit'[u] = emit[u]
      BY <2>3, <3>1
    <3>3. ~IsTrackChange(emit[u].json, Latest')
      BY <2>7, <3>2, SameTrack DEF Owes
    <3>4. Owes(emit[u], s)'
      BY <2>7, <3>2, <3>3 DEF Owes, IsTrackChange
    <3> QED
      BY <2>1, <3>4
  <2> QED
    BY <1>3, <1>5, <2>4, <2>5, <2>6, <2>7
<1> QED
  BY <1>3, <1>4, <1>5 DEF StaleInv

\* What main does meanwhile: to connect it takes nothing out of date along, and
\* it leaves the fragments alone.
LEMMA StaleInvAside ==
    ASSUME StaleInv, UNCHANGED <<emit, stale>>,
           place' \in Before => place \in Before,
           place' \in {"connect", "watch"} =>
              \/ place \in Before
              \/ /\ place \in {"connect", "watch"}
                 /\ UNCHANGED <<report, titleFrag, applied>>
                 /\ Range(connected) \subseteq Range(connected')
    PROVE  StaleInv'
<1>1. CASE place \in Before
  BY <1>1 DEF StaleInv
<1>2. CASE place \notin Before /\ place' \notin {"connect", "watch"}
  BY <1>2 DEF StaleInv
<1>3. CASE place \notin Before /\ place' \in {"connect", "watch"}
  <2>1. /\ place \in {"connect", "watch"} /\ UNCHANGED <<report, titleFrag, applied>>
        /\ Range(connected) \subseteq Range(connected')
    BY <1>3
  <2>2. Latest' = Latest
    BY <2>1, LatestKept
  <2>3. \A u, s : Owes(emit[u], s) => Owes(emit[u], s)'
    BY <2>2 DEF Owes
  <2> QED
    BY <1>3, <2>1, <2>3 DEF StaleInv
<1> QED
  BY <1>1, <1>2, <1>3

LEMMA StaleInvMain ==
    ASSUME WorkerInv, ConnectInv, EmitInv, StaleInv, MainStep
    PROVE  StaleInv'
<1> USE DEF Goto, Stays, MainFrame, Exit, main, library, stdout
<1>1. place \in Before /\ stale' = stale => StaleInv'
  BY DEF StaleInv
<1>2. CASE Refuse \/ NewFails \/ New \/ Seed \/ StartSources
  BY <1>1, <1>2 DEF Refuse, NewFails, New, Seed, StartSources, Before
<1>3. CASE Detected \/ Sleeps \/ GivesUp
  BY <1>1, <1>3 DEF Detected, Sleeps, GivesUp, Before
<1>4. CASE PrintJson \/ PrintText \/ Baseline \/ Shown
  BY <1>1, <1>4 DEF PrintJson, PrintText, Baseline, EmitFromMain, Shown, Before
<1>5. CASE AskSession \/ AskNobody \/ Seek
  BY <1>1, <1>5 DEF AskSession, AskNobody, Seek, Transport, Asks, Returns, FallsBack, Before
<1>6. CASE PostKey \/ Volume
  BY <1>1, <1>6 DEF PostKey, Volume, Adjusts, Returns, Before
<1>7. CASE ReadMuted \/ Mute \/ Open
  BY <1>1, <1>7 DEF ReadMuted, Mute, Open, SetMuted, Adjusts, Returns, Before
<1>8. CASE Connect
  <2>1. /\ connected' = Append(connected, Wanted[Len(connected) + 1])
        /\ place = "connect" /\ place' \in {"connect", "watch"}
        /\ UNCHANGED <<emit, stale, report, titleFrag, applied>>
    BY <1>8 DEF Connect, audio, worker
  <2>2. connected \in Seq(Range(Wanted)) /\ Wanted \in Seq(Range(Wanted))
    BY ConnectedWanted, WantedType
  <2>3. Range(connected) \subseteq Range(connected')
    <3> DEFINE n == Len(connected)
               x == Wanted[n + 1]
               S == Range(Wanted) \cup {x}
    <3>1. connected \in Seq(S) /\ x \in S
      BY <2>2, SeqMonotonic
    <3> HIDE DEF x, S
    <3>2. /\ Append(connected, x) \in Seq(S) /\ Len(Append(connected, x)) = n + 1
          /\ \A i \in 1 .. n : Append(connected, x)[i] = connected[i]
      BY <3>1, AppendProperties
    <3>3. /\ Range(connected) = {connected[i] : i \in 1 .. n}
          /\ Range(Append(connected, x)) = {Append(connected, x)[i] : i \in 1 .. n + 1}
      BY <3>1, <3>2, RangeEquality
    <3>4. n \in Nat
      BY <3>1, LenProperties
    <3>5. 1 .. n \subseteq 1 .. n + 1
      BY <3>4
    <3> QED
      BY <2>1, <3>2, <3>3, <3>5 DEF x
  <2> QED
    BY <2>1, <2>3, StaleInvAside DEF Before
<1>9. CASE Disconnect \/ BeginStop \/ Teardown
  <2>1. place' \notin Before \cup {"connect", "watch"} /\ UNCHANGED <<emit, stale>>
    BY <1>9 DEF Disconnect, BeginStop, Teardown, Before
  <2> QED
    BY <2>1, StaleInvAside
<1>10. CASE Notify \/ Join
  <2>1. place = "join" /\ UNCHANGED <<emit, stale>>
    BY <1>10 DEF Notify, Join, Audio!Notify, Audio!Join, WorkerInv, JoinsInPlace
  <2>2. place' \in {"join", "teardown"}
    BY <1>10, <2>1 DEF Notify, Join
  <2> QED
    BY <2>1, <2>2, StaleInvAside DEF Before
<1>11. CASE EmitStep("main")
  BY <1>11, StaleInvEmit DEF WorkerInv, Threads
<1> QED
  BY <1>2, <1>3, <1>4, <1>5, <1>6, <1>7, <1>8, <1>9, <1>10, <1>11 DEF MainStep

LEMMA StaleInvStep ==
    ASSUME WorkerInv, ConnectInv, SourceTypes, EmitInv, StaleInv, [Next]_vars
    PROVE  StaleInv'
<1>1. CASE TimeOut \/ Environment \/ UNCHANGED vars
  <2>1. UNCHANGED <<emit, stale, place, connected, report, titleFrag>>
    BY <1>1 DEF TimeOut, Environment, SpotifyOpens, SpotifyCloses, SpotifyRenames, MediaChanges,
       StreamChanges, Changes, Outside, Interrupt, MainFrame, vars, main, library, stdout
  <2>2. UNCHANGED applied
    <3>1. CASE TimeOut
      BY <3>1 DEF TimeOut, Audio!TimeOut, Audio!TimePasses, Audio!reports
    <3>2. CASE StreamChanges
      BY <3>2 DEF StreamChanges, Audio!StreamChanges, Audio!reports
    <3>3. CASE Environment /\ ~StreamChanges
      BY <3>3 DEF Environment, SpotifyOpens, SpotifyCloses, SpotifyRenames, MediaChanges,
         Changes, Interrupt, MainFrame, audio, worker
    <3>4. CASE UNCHANGED vars
      BY <3>4 DEF vars, audio, worker
    <3> QED
      BY <1>1, <3>1, <3>2, <3>3, <3>4
  <2> QED
    BY <2>1, <2>2, StaleInvAside DEF Before
<1>2. ASSUME NEW t \in {"worker", "handler"},
             (t = "worker" /\ WorkerStep) \/ (t = "handler" /\ Refresh)
      PROVE  StaleInv'
  <2>1. /\ t \in Threads /\ OneThreadEach /\ Idle(t) /\ UNCHANGED <<place, connected>>
        /\ \E also : /\ also = <<>> \/ (also = <<"position">> /\ "position" \in Range(Wanted))
                     /\ Publishes(t, also)
    BY <1>2, LibraryPublishes DEF WorkerInv, Threads
  <2>2. PICK also : /\ also = <<>> \/ (also = <<"position">> /\ "position" \in Range(Wanted))
                    /\ Publishes(t, also)
    BY <2>1
  <2> QED
    BY <2>1, <2>2, StaleInvPublishes
<1>3. CASE EmitStep("worker") \/ EmitStep("handler")
  BY <1>3, StaleInvEmit DEF WorkerInv, Threads
<1> QED
  BY <1>1, <1>2, <1>3, StaleInvMain DEF Next, HandlerStep

\* All the parts together, as they lean on each other.
AllInv == WorkerInv /\ SimpleTypes /\ ConnectInv /\ EmitInv /\ StaleInv

LEMMA AllInvInit == Init => AllInv
  BY WorkerInvInit, SimpleTypesInit, ConnectInvInit, EmitInvInit, StaleInvInit DEF AllInv

LEMMA AllInvStep == AllInv /\ [Next]_vars => AllInv'
  BY WorkerInvStep, SimpleTypesStep, ConnectInvStep, EmitInvStep, StaleInvStep
     DEF AllInv, SimpleTypes

LEMMA AllInvariant == Spec => []AllInv
  BY AllInvInit, AllInvStep, PTL DEF Spec

\* Every variable has its type: whatever Spotify does meanwhile, main is
\* connected to a beginning of the signals its command wants, a callback has
\* only signals of that command to write, and writes with no more calls than an
\* object takes.
THEOREM CliTypeCorrect == Spec => []TypeOK
<1>1. ASSUME AllInv
      PROVE  TypeOK
  <2>1. SimpleTypes /\ ConnectInv /\ EmitInv /\ StaleInv
    BY <1>1 DEF AllInv
  <2>2. Audio!TypeOK
    BY <2>1, AudioTypes DEF SimpleTypes
  <2>3. connected = SubSeq(Wanted, 1, Len(connected))
    BY <2>1 DEF ConnectInv
  <2>4. ASSUME NEW t \in Threads
        PROVE  /\ emit[t].at \in Ats
               /\ emit[t].calls \in 0 .. 5 /\ (emit[t].at = "write" <=> emit[t].calls > 0)
               /\ Range(emit[t].todo) \subseteq Said
    <3>1. /\ emit[t].at \in Ats /\ emit[t].todo \in Seq(Said)
          /\ emit[t].calls \in 0 .. 5 /\ (emit[t].at = "write" <=> emit[t].calls > 0)
      BY <2>1 DEF EmitInv, Wellformed
    <3>2. Range(emit[t].todo) \in SUBSET Said
      BY <3>1, RangeOfSeq
    <3> QED
      BY <3>1, <3>2
  <2>5. line \subseteq Threads
    BY <2>1 DEF EmitInv
  <2>6. stale \subseteq {"track", "state"}
    BY <2>1 DEF StaleInv
  <2> QED
    BY <2>1, <2>2, <2>3, <2>4, <2>5, <2>6
       DEF TypeOK, SimpleTypes, ToolTypes, SourceTypes, WorldTypes, Ats, Said
<1> QED
  BY <1>1, AllInvariant, PTL

\* While watch is connected and no callback runs, the last state published
\* since main connected has been written to its last byte; for events, the last
\* track, by the five calls that write it, between which others may have written.
\* Whenever it has not, a thread owes it: the one that published last, or one
\* that has asked for the state since.
THEOREM LastStateShown == Spec => []WatchShowsLatest
<1>1. AllInv => WatchShowsLatest
  BY StaleInvShows DEF AllInv
<1> QED
  BY <1>1, AllInvariant, PTL
-----------------------------------------------------------------------------
(* What a search finds.                                                      *)

\* The arguments that are neither a flag nor its value, up to each place.
IsSorting(f, n) ==
    f = [i \in 0 .. n |->
            IF i = 0 THEN <<>>
            ELSE IF i \in Flags \/ i - 1 \in Flags THEN f[i - 1]
            ELSE Append(f[i - 1], argv[i])]

LEMMA SortingExists ==
    ASSUME NEW n \in Nat
    PROVE  \E f : IsSorting(f, n)
<1> DEFINE Bad == {k \in Nat : ~\E f : IsSorting(f, k)}
<1> SUFFICES ASSUME Bad # {}
             PROVE  FALSE
  OBVIOUS
<1>1. PICK m \in Bad : \A k \in Bad : m <= k
  BY Least
<1>2. CASE m = 0
  <2> DEFINE f == [i \in 0 .. 0 |-> <<>>]
  <2>1. \A i \in 0 .. 0 : i = 0
    OBVIOUS
  <2>2. IsSorting(f, 0)
    BY <2>1 DEF IsSorting
  <2> QED
    BY <1>1, <1>2, <2>2
<1>3. CASE m # 0
  <2>1. m - 1 \in Nat /\ ~(m <= m - 1) /\ m \in Nat
    BY <1>1, <1>3
  <2>2. PICK g : IsSorting(g, m - 1)
    BY <1>1, <2>1
  <2> DEFINE last == IF m \in Flags \/ m - 1 \in Flags THEN g[m - 1]
                     ELSE Append(g[m - 1], argv[m])
             f == [i \in 0 .. m |-> IF i = m THEN last ELSE g[i]]
  <2> HIDE DEF last
  <2>3. ASSUME NEW i \in 0 .. m
        PROVE  f[i] = IF i = 0 THEN <<>>
                      ELSE IF i \in Flags \/ i - 1 \in Flags THEN f[i - 1]
                      ELSE Append(f[i - 1], argv[i])
    <3>1. CASE i = m
      <4>1. m - 1 \in 0 .. m /\ m - 1 # m /\ m \in 0 .. m
        BY <2>1
      <4>2. f[i] = last /\ f[i - 1] = g[m - 1]
        BY <3>1, <4>1
      <4> QED
        BY <1>3, <3>1, <4>2 DEF last
    <3>2. CASE i # m
      <4>1. i \in 0 .. m - 1 /\ (i # 0 => i - 1 \in 0 .. m /\ i - 1 # m)
        BY <2>1, <3>2
      <4>2. g[i] = IF i = 0 THEN <<>>
                   ELSE IF i \in Flags \/ i - 1 \in Flags THEN g[i - 1]
                   ELSE Append(g[i - 1], argv[i])
        BY <2>2, <4>1 DEF IsSorting
      <4>3. f[i] = g[i] /\ (i # 0 => f[i - 1] = g[i - 1])
        BY <3>2, <4>1
      <4> HIDE DEF f
      <4> QED
        BY <4>2, <4>3
    <3> QED
      BY <3>1, <3>2
  <2>4. IsSorting(f, m)
    BY <2>3 DEF IsSorting
  <2> QED
    BY <1>1, <2>4
<1> QED
  BY <1>2, <1>3

\* Every positional argument is a token of the command line.
LEMMA PositionalTokens ==
    ASSUME argv \in Invocations
    PROVE  Positional \in Seq(DOMAIN Spelling)
<1> DEFINE T == DOMAIN Spelling
           n == Len(argv)
           f == CHOOSE f : IsSorting(f, n)
<1>1. argv \in Seq(STRING) /\ n \in Nat /\ \A i \in 1 .. n : argv[i] \in T
  <2>1. argv \in Seq(STRING) /\ Range(argv) \subseteq T
    OBVIOUS
  <2>2. n \in Nat /\ DOMAIN argv = 1 .. n
    BY <2>1, LenProperties
  <2> QED
    BY <2>1, <2>2 DEF Range
<1>2. IsSorting(f, n)
  BY <1>1, SortingExists
<1>3. Positional = f[n]
  BY DEF Positional, IsSorting
<1> HIDE DEF T, n, f
<1>4. \A i \in 0 .. n : f[i] = IF i = 0 THEN <<>>
                               ELSE IF i \in Flags \/ i - 1 \in Flags THEN f[i - 1]
                               ELSE Append(f[i - 1], argv[i])
  BY <1>2 DEF IsSorting
<1> DEFINE Bad == {i \in 0 .. n : f[i] \notin Seq(T)}
<1>5. Bad = {}
  <2> SUFFICES ASSUME Bad # {}
               PROVE  FALSE
    OBVIOUS
  <2>1. Bad \in SUBSET Nat
    BY <1>1
  <2>2. PICK i \in Bad : \A k \in Bad : i <= k
    BY <2>1, Least
  <2>3. i # 0
    <3>1. <<>> \in Seq(T)
      OBVIOUS
    <3>2. 0 \in 0 .. n
      BY <1>1
    <3> QED
      BY <1>4, <2>2, <3>1, <3>2
  <2>4. i - 1 \in 0 .. n /\ ~(i <= i - 1) /\ i \in 1 .. n
    BY <1>1, <2>2, <2>3
  <2>5. f[i - 1] \in Seq(T) /\ argv[i] \in T
    BY <1>1, <2>2, <2>4
  <2>6. Append(f[i - 1], argv[i]) \in Seq(T)
    BY <2>5, AppendProperties
  <2> QED
    BY <1>4, <2>2, <2>3, <2>5, <2>6
<1> QED
  BY <1>1, <1>3, <1>5 DEF T

\* So what is searched for is a sequence of bytes.
LEMMA QueryBytes ==
    ASSUME rest \in Seq(DOMAIN Spelling)
    PROVE  Query \in Seq(Bytes)
<1> DEFINE words == [i \in DOMAIN rest |->
                        (IF i = 1 THEN <<>> ELSE <<Blank>>) \o Spelling[rest[i]]]
<1>1. Len(rest) \in Nat /\ DOMAIN rest = 1 .. Len(rest)
  BY LenProperties
<1>2. \A i \in 1 .. Len(rest) : Spelling[rest[i]] \in Seq(Bytes)
  <2>1. \A i \in 1 .. Len(rest) : rest[i] \in DOMAIN Spelling
    BY ElementOfSeq
  <2> QED
    BY <2>1
<1>3. <<>> \in Seq(Bytes) /\ <<Blank>> \in Seq(Bytes)
  BY DEF Bytes, Blank
<1>4. ASSUME NEW i \in 1 .. Len(rest)
      PROVE  (IF i = 1 THEN <<>> ELSE <<Blank>>) \o Spelling[rest[i]] \in Seq(Bytes)
  <2>1. (IF i = 1 THEN <<>> ELSE <<Blank>>) \in Seq(Bytes)
    BY <1>3
  <2> QED
    BY <1>2, <2>1, ConcatProperties
<1>5. words \in Seq(Seq(Bytes)) /\ Len(words) = Len(rest)
  BY <1>1, <1>4
<1>6. Query = FlattenSeq(words)
  BY DEF Query
<1> HIDE DEF words
<1>7. CASE Len(rest) # 0
  BY <1>5, <1>6, <1>7, FlattenLayout
<1>8. CASE Len(rest) = 0
  <2>1. words = <<>>
    BY <1>5, <1>8, EmptySeq
  <2>2. FlattenSeq(words) = <<>>
    BY <2>1 DEF FlattenSeq
  <2> QED
    BY <1>3, <1>6, <2>2
<1> QED
  BY <1>7, <1>8

\* A search that was received is the encoding of the query.
SearchInv ==
    /\ rest \in Seq(DOMAIN Spelling)
    /\ cmd = "search" /\ received # <<>> => received[1] = <<cmd, Search(Query)>>

LEMMA SearchInvTells == SearchInv => SearchFindsQuery
<1> SUFFICES ASSUME SearchInv, received # <<>>, cmd = "search"
             PROVE  PercentDecode(received[1][2]) = Query
  BY DEF SearchFindsQuery
<1>1. received[1][2] = PercentEncode(Query)
  BY DEF SearchInv, Search
<1>2. Query \in Seq(Bytes)
  BY QueryBytes DEF SearchInv
<1> QED
  BY <1>1, <1>2, DecodeEncode

LEMMA SearchInvInit == Init => SearchInv
<1> SUFFICES ASSUME rest = <<>>, received = <<>>
             PROVE  SearchInv
  BY DEF Init
<1>1. <<>> \in Seq(DOMAIN Spelling)
  OBVIOUS
<1> QED
  BY <1>1 DEF SearchInv

\* Only New sets the command, and only Open asks for a search.
LEMMA SearchReceived ==
    ASSUME WorkerInv, NothingYet, [Next]_vars, ~New
    PROVE  /\ UNCHANGED <<cmd, rest>>
           /\ \/ UNCHANGED received
              \/ cmd # "search"
              \/ received = <<>> /\ received' = <<<<cmd, Search(Query)>>>>
<1> USE DEF main, world
<1>1. CASE AskSession \/ AskNobody \/ PostKey \/ Seek \/ Volume \/ ReadMuted \/ Mute
  <2>1. cmd # "search"
    BY <1>1 DEF AskSession, AskNobody, PostKey, Seek, Volume, ReadMuted, Mute, Transport,
       Transports, WorkerInv, OpensUnstarted
  <2>2. UNCHANGED <<cmd, rest>>
    BY <1>1 DEF AskSession, AskNobody, PostKey, Seek, Volume, ReadMuted, Mute, Asks, FallsBack,
       Returns, SetMuted, Adjusts, MainFrame, Goto
  <2> QED
    BY <2>1, <2>2
<1>2. CASE Open
  <2>1. UNCHANGED <<cmd, rest>> /\ place = "act"
    BY <1>2 DEF Open, Exit
  <2>2. received = <<>>
    BY <2>1 DEF NothingYet, Stopping
  <2>3. cmd = "search" => UNCHANGED received \/ Delivered(<<cmd, Search(Query)>>)
    BY <1>2 DEF Open, NotDelivered
  <2>4. Append(<<>>, <<cmd, Search(Query)>>) = <<<<cmd, Search(Query)>>>>
    OBVIOUS
  <2> QED
    BY <2>1, <2>2, <2>3, <2>4 DEF Delivered
<1>3. CASE \/ Refuse \/ NewFails \/ Seed \/ StartSources \/ Detected \/ Sleeps \/ GivesUp
           \/ PrintJson \/ PrintText \/ Baseline \/ Shown \/ Connect \/ Disconnect
           \/ BeginStop \/ Notify \/ Join \/ Teardown
  BY <1>3 DEF Refuse, NewFails, Seed, StartSources, Detected, Sleeps, GivesUp, PrintJson,
     PrintText, Baseline, Shown, Connect, Disconnect, BeginStop, Notify, Join, Teardown,
     Exit, Goto, Stays, MainFrame, EmitFromMain
<1>4. CASE \/ WorkerStep \/ TimeOut \/ HandlerStep \/ Environment \/ UNCHANGED vars
           \/ \E t \in Threads : EmitStep(t)
  BY <1>4 DEF WorkerStep, TimeOut, HandlerStep, Refresh, Environment, SpotifyOpens,
     SpotifyCloses, SpotifyRenames, MediaChanges, StreamChanges, Changes, Outside, Interrupt,
     MainFrame,
     vars, EmitStep, Snapshot, EmitSize, EmitCopy, EmitWrite, EmitNewline, EmitFrame
<1> QED
  BY <1>1, <1>2, <1>3, <1>4 DEF Next, MainStep, Threads

LEMMA SearchInvStep ==
    ASSUME WorkerInv, NothingYet, argv \in Invocations, SearchInv, [Next]_vars
    PROVE  SearchInv'
<1>1. CASE New
  <2>1. place = "parse" /\ Positional # <<>> /\ rest' = Tail(Positional) /\ UNCHANGED received
    BY <1>1 DEF New, MainFrame, world, ExitAtOnce, kExitUsage, kExitOk, NeedsClient
  <2>2. Tail(Positional) \in Seq(DOMAIN Spelling)
    BY <2>1, PositionalTokens, HeadTailProperties
  <2> QED
    BY <2>1, <2>2 DEF SearchInv, NothingYet, Stopping
<1>2. CASE ~New
  <2>1. /\ UNCHANGED <<cmd, rest>>
        /\ \/ UNCHANGED received
           \/ cmd # "search"
           \/ received = <<>> /\ received' = <<<<cmd, Search(Query)>>>>
    BY <1>2, SearchReceived
  <2>2. Query' = Query
    BY <2>1 DEF Query
  <2>3. Search(Query)' = Search(Query)
    BY <2>2 DEF Search, PercentEncode
  <2>4. (<<<<cmd, Search(Query)>>>>)[1] = <<cmd, Search(Query)>>
    OBVIOUS
  <2> QED
    BY <2>1, <2>3, <2>4 DEF SearchInv
<1> QED
  BY <1>1, <1>2

\* Whatever words are searched for, and whatever bytes they consist of, Spotify
\* decodes them from the URI it is given: no byte is left as it is that the
\* decoding would take for something else.
THEOREM SearchFound == Spec => []SearchFindsQuery
<1> DEFINE Inv == AllInv /\ ExitInv /\ SearchInv
<1>1. Init => Inv
  BY AllInvInit, ExitInvInit, SearchInvInit
<1>2. Inv /\ [Next]_vars => Inv'
  <2>1. AllInv /\ [Next]_vars => AllInv'
    BY AllInvStep
  <2>2. AllInv /\ ExitInv /\ [Next]_vars => ExitInv'
    BY ExitInvStep DEF AllInv
  <2>3. AllInv /\ ExitInv /\ SearchInv /\ [Next]_vars => SearchInv'
    BY SearchInvStep DEF AllInv, ExitInv, SimpleTypes, ToolTypes
  <2> QED
    BY <2>1, <2>2, <2>3
<1>3. Inv => SearchFindsQuery
  BY SearchInvTells
<1> QED
  BY <1>1, <1>2, <1>3, PTL DEF Spec

-----------------------------------------------------------------------------
(* What now-playing shows.                                                 *)

\* The names of a state: those of one report, and of the title for the others.
Fusions == {[artist |-> IF r.artist = <<>> THEN titleFrag.artist ELSE r.artist,
             title |-> IF r.title = <<>> THEN titleFrag.title ELSE r.title]
            : r \in Reports \cup {NoPlayback}}
Fused(s) == [artist |-> s.artist, title |-> s.title] \in Fusions

\* The title is parsed once, before anything is shown; what now-playing is going
\* to write, and what it has written, has the names of a state.
TitleInv ==
    \/ rawTitle = <<>> /\ titleFrag = NoTitle
    \/ rawTitle \in SeenTitles /\ titleFrag = TitleTold[rawTitle]
UnshownInv ==
    place \in {"parse", "seed"} =>
        rawTitle = <<>> /\ printed = Garbled /\ \A t \in Threads : Idle(t)
WritesInv ==
    cmd = "now-playing" => \A t \in Threads : emit[t].at = "write" => Fused(emit[t].json)
Wrote == \E s \in Fusions : /\ printed.artist = AppendEscaped(s.artist)
                            /\ printed.title = AppendEscaped(s.title)
PrintedInv == cmd = "now-playing" /\ "--json" \in Range(rest) => printed = Garbled \/ Wrote

NowInv == TitleInv /\ UnshownInv /\ WritesInv /\ PrintedInv

LEMMA LatestFused == SourceTypes => Fused(Latest)
<1> SUFFICES ASSUME SourceTypes
             PROVE  Fused(Latest)
  OBVIOUS
<1> DEFINE r == IF SmtcHasContent(report) THEN report ELSE NoPlayback
<1>1. r \in Reports \cup {NoPlayback}
  BY DEF SourceTypes
<1>2. /\ Latest.artist = IF r.artist = <<>> THEN titleFrag.artist ELSE r.artist
      /\ Latest.title = IF r.title = <<>> THEN titleFrag.title ELSE r.title
  BY DEF Latest, FuseFragments, CliAssumption
<1> QED
  BY <1>1, <1>2 DEF Fused, Fusions

\* A title that is cut still consists of bytes.
LEMMA SeenBytes == SeenTitles \subseteq Seq(Bytes)
<1> SUFFICES ASSUME NEW t \in Titles
             PROVE  Cut(t) \in Seq(Bytes)
  BY DEF SeenTitles
<1>1. t \in Seq(Bytes) /\ Len(t) \in Nat /\ TitleSize \in Nat
  BY DEF CliAssumption
<1> DEFINE S == {Len(t), TitleSize}
           n == Min(S)
<1>2. n \in S /\ n <= Len(t)
  <2>1. \E x \in S : \A y \in S : x <= y
    <3>1. CASE Len(t) <= TitleSize
      BY <1>1, <3>1
    <3>2. CASE ~(Len(t) <= TitleSize)
      BY <1>1, <3>2
    <3> QED
      BY <3>1, <3>2
  <2> HIDE DEF S
  <2>2. Min(S) \in S /\ \A x \in S : Min(S) <= x
    BY <2>1, Zenon DEF Min
  <2> QED
    BY <2>2 DEF S
<1>3. n \in Nat
  BY <1>1, <1>2
<1> HIDE DEF n, S
<1>4. SubSeq(t, 1, n) \in Seq(Bytes)
  BY <1>1, <1>2, <1>3, SubSeqProperties
<1> QED
  BY <1>4 DEF Cut, n, S

\* Whatever the names of a state are made of, what is decoded is what was told.
LEMMA NowInvTells == NowInv => NowPlayingTellsTrack
<1> SUFFICES ASSUME NowInv, cmd = "now-playing", "--json" \in Range(rest), printed # Garbled
             PROVE  Told(Unescape(printed.artist), Unescape(printed.title))
  BY DEF NowPlayingTellsTrack
<1> DEFINE artist == titleFrag.artist
           title == titleFrag.title
<1>1. /\ artist \in Seq(Bytes) /\ title \in Seq(Bytes)
      /\ TitleSaysArtist(artist) /\ TitleSaysTitle(title)
  <2>1. CASE rawTitle = <<>> /\ titleFrag = NoTitle
    <3>1. artist = <<>> /\ title = <<>> /\ <<>> \in Seq(Bytes)
      BY <2>1 DEF NoTitle, CliAssumption
    <3>2. 1 .. Len(rawTitle) - 2 = {}
      BY <2>1
    <3>3. Dividers(rawTitle) = {}
      BY <3>2 DEF Dividers, Separators
    <3> QED
      BY <3>1, <3>3 DEF TitleSaysArtist, TitleSaysTitle
  <2>2. CASE rawTitle \in SeenTitles /\ titleFrag = TitleTold[rawTitle]
    <3>1. rawTitle \in Seq(Bytes) /\ Empty = <<>>
      BY <2>2, SeenBytes DEF CliAssumption
    <3>2. /\ artist = ParseWindowTitle(rawTitle).artist
          /\ title = ParseWindowTitle(rawTitle).title
      BY <2>2 DEF TitleTold
    <3> HIDE DEF artist, title
    <3>3. /\ artist \in Seq(Bytes) /\ title \in Seq(Bytes)
          /\ \/ Dividers(rawTitle) = {} /\ artist = <<>> /\ title = <<>>
             \/ \E d \in Dividers(rawTitle) :
                   /\ Pads(SubSeq(rawTitle, 1, d - 1), artist)
                   /\ Pads(SubSeq(rawTitle, d + 3, Len(rawTitle)), title)
      BY <3>1, <3>2, TitleTells
    <3> QED
      BY <3>3 DEF TitleSaysArtist, TitleSaysTitle
  <2> QED
    BY <2>1, <2>2 DEF NowInv, TitleInv
<1>2. PICK r \in Reports \cup {NoPlayback} :
        /\ printed.artist = AppendEscaped(IF r.artist = <<>> THEN artist ELSE r.artist)
        /\ printed.title = AppendEscaped(IF r.title = <<>> THEN title ELSE r.title)
  BY DEF NowInv, PrintedInv, Wrote, Fusions
<1>3. r.artist \in Seq(Bytes) /\ r.title \in Seq(Bytes)
  <2>1. CASE r \in Reports
    BY <2>1 DEF CliAssumption
  <2>2. CASE r = NoPlayback
    <3>1. r.artist = <<>> /\ r.title = <<>>
      BY <2>2 DEF CliAssumption, NoPlayback
    <3>2. <<>> \in Seq(Bytes)
      OBVIOUS
    <3> QED
      BY <3>1, <3>2
  <2> QED
    BY <2>1, <2>2
<1> HIDE DEF artist, title
<1>4. /\ Unescape(printed.artist) = IF r.artist = <<>> THEN artist ELSE r.artist
      /\ Unescape(printed.title) = IF r.title = <<>> THEN title ELSE r.title
  BY <1>1, <1>2, <1>3, UnescapeEscape
<1> QED
  BY <1>1, <1>4 DEF Told

LEMMA NowInvInit == Init => NowInv
<1> SUFFICES ASSUME Init
             PROVE  NowInv
  OBVIOUS
<1>1. /\ rawTitle = <<>> /\ titleFrag = NoTitle /\ printed = Garbled /\ cmd = ""
      /\ \A t \in Threads : Idle(t)
  BY DEF Init, Idle
<1> QED
  BY <1>1 DEF NowInv, TitleInv, UnshownInv, WritesInv, PrintedInv

\* After the title is parsed: what is to be written, and what is written.
LEMMA NowInvShows ==
    ASSUME NowInv, UNCHANGED <<cmd, rest, rawTitle, titleFrag>>,
           place' \notin {"parse", "seed"} \/ UNCHANGED <<place, emit, printed>>,
           cmd = "now-playing" =>
              /\ \A t \in Threads : \/ emit'[t] = emit[t]
                                    \/ emit'[t].at # "write"
                                    \/ Fused(emit'[t].json)
              /\ "--json" \in Range(rest) =>
                    \/ printed' \in {printed, Garbled}
                    \/ \E s : /\ Fused(s) /\ printed'.artist = AppendEscaped(s.artist)
                              /\ printed'.title = AppendEscaped(s.title)
    PROVE  NowInv'
<1>1. Fusions' = Fusions
  BY DEF Fusions
<1>2. TitleInv'
  BY DEF NowInv, TitleInv
<1>3. UnshownInv'
  BY DEF NowInv, UnshownInv, Idle
<1>4. WritesInv'
  BY <1>1 DEF NowInv, WritesInv, Fused
<1>5. PrintedInv'
  <2> SUFFICES ASSUME cmd = "now-playing", "--json" \in Range(rest), printed' # Garbled
               PROVE  Wrote'
    BY DEF PrintedInv
  <2>1. CASE printed' = printed
    BY <1>1, <2>1 DEF NowInv, PrintedInv, Wrote
  <2>2. CASE printed' # printed
    <3>1. PICK s : /\ Fused(s) /\ printed'.artist = AppendEscaped(s.artist)
                   /\ printed'.title = AppendEscaped(s.title)
      BY <2>2
    <3> DEFINE x == [artist |-> s.artist, title |-> s.title]
    <3>2. x \in Fusions' /\ x.artist = s.artist /\ x.title = s.title
      BY <1>1, <3>1 DEF Fused
    <3> QED
      BY <3>1, <3>2 DEF Wrote
  <2> QED
    BY <2>1, <2>2
<1> QED
  BY <1>2, <1>3, <1>4, <1>5 DEF NowInv

\* now-playing writes what it has last asked for.
LEMMA NowInvEmit ==
    ASSUME NowInv, WorkerInv, SourceTypes, EmitInv, NEW t \in Threads, EmitStep(t)
    PROVE  NowInv'
<1>1. ~Idle(t) /\ UNCHANGED <<main, library, world, audio>>
  BY EmitStepShape DEF WorkerInv, EmitInv
<1>2. place' \notin {"parse", "seed"}
  BY <1>1 DEF NowInv, UnshownInv, main
<1>3. ASSUME cmd = "now-playing"
      PROVE  /\ \A u \in Threads : \/ emit'[u] = emit[u]
                                   \/ emit'[u].at # "write"
                                   \/ Fused(emit'[u].json)
             /\ "--json" \in Range(rest) =>
                    \/ printed' \in {printed, Garbled}
                    \/ \E s : /\ Fused(s) /\ printed'.artist = AppendEscaped(s.artist)
                              /\ printed'.title = AppendEscaped(s.title)
  <2> DEFINE e == emit[t]
  <2>1. emit = [u \in Threads |-> emit[u]]
    BY DEF WorkerInv, OneThreadEach
  <2>2. Wellformed(e)
    BY DEF EmitInv
  <2>9. NextSignal(e).at # "write"
    BY <2>2 DEF NextSignal, Silent, Wellformed
  <2>3. e.at # "idle" => Head(e.todo) = "state"
    <3>1. Wanted = <<>>
      BY <1>3 DEF Wanted
    <3>2. Said = {"state"}
      BY <3>1, EmptySeq DEF Said, Range
    <3>3. e.at # "idle" => e.todo \in Seq(Said) /\ e.todo # <<>>
      BY DEF EmitInv, Wellformed
    <3> QED
      BY <3>2, <3>3, HeadTailProperties
  <2>4. CASE Snapshot(t)
    <3>3. \/ emit'[t] = NextSignal(e)
          \/ emit'[t] = [todo |-> e.todo, at |-> "size", need |-> e.need,
                         json |-> NoPlayback, calls |-> 0]
      <4>1. OneThreadEach /\ Head(e.todo) = "state"
        BY <2>3, <2>4 DEF WorkerInv, Snapshot
      <4> QED
        BY <2>2, <2>4, <4>1, SnapshotShape
    <3>1. emit'[t].at # "write"
      BY <2>9, <3>3
    <3>2. emit' = [emit EXCEPT ![t] = emit'[t]] /\ UNCHANGED printed
      BY <2>1, <2>4 DEF Snapshot
    <3> QED
      BY <2>1, <3>1, <3>2
  <2>5. CASE EmitSize(t) \/ EmitCopy(t)
    <3>1. emit'[t].at = "copy" \/ emit'[t].json = Latest
      <4>1. OneThreadEach
        BY DEF WorkerInv
      <4>2. \/ emit'[t] = [todo |-> e.todo, at |-> "copy", need |-> JsonSize(Latest),
                           json |-> e.json, calls |-> 0]
            \/ emit'[t] = [todo |-> e.todo, at |-> "write", need |-> e.need,
                           json |-> Latest, calls |-> 2]
        BY <2>2, <2>5, <4>1, AskShape
      <4> QED
        BY <4>2
    <3>2. emit' = [emit EXCEPT ![t] = emit'[t]] /\ UNCHANGED printed
      BY <2>1, <2>5 DEF EmitSize, EmitCopy
    <3> QED
      BY <2>1, <3>1, <3>2, LatestFused
  <2>7. CASE EmitWrite(t)
    <3>1. emit[t].at = "write" /\ emit'[t].json = e.json
      <4>1. OneThreadEach
        BY DEF WorkerInv
      <4>2. /\ emit[t].at = "write"
            /\ \E calls \in 1 .. 5 :
                  emit'[t] = [todo |-> e.todo, at |-> "write", need |-> e.need,
                              json |-> e.json, calls |-> calls]
        BY <2>2, <2>7, <4>1, WriteShape
      <4> QED
        BY <4>2
    <3>2. /\ emit' = [emit EXCEPT ![t] = emit'[t]]
          /\ printed' = IF Whole(e) THEN WriteStateJson(e.json) ELSE Garbled
      BY <1>3, <2>1, <2>7 DEF EmitWrite
    <3>3. Fused(e.json)
      BY <1>3, <3>1 DEF NowInv, WritesInv
    <3>4. /\ WriteStateJson(e.json).artist = AppendEscaped(e.json.artist)
          /\ WriteStateJson(e.json).title = AppendEscaped(e.json.title)
      BY DEF WriteStateJson
    <3> QED
      BY <2>1, <3>1, <3>2, <3>3, <3>4
  <2>8. CASE EmitNewline(t)
    <3>1. emit' = [emit EXCEPT ![t] = NextSignal(e)] /\ UNCHANGED printed
      BY <2>8 DEF EmitNewline
    <3> QED
      BY <2>1, <2>9, <3>1
  <2> QED
    BY <2>4, <2>5, <2>7, <2>8 DEF EmitStep
<1>4. UNCHANGED <<cmd, rest, rawTitle, titleFrag>>
  BY <1>1 DEF main, library
<1> QED
  BY <1>2, <1>3, <1>4, NowInvShows

\* The library publishes: nothing is written yet.
LEMMA NowInvPublishes ==
    ASSUME NowInv, WorkerInv, SourceTypes,
           NEW t \in {"worker", "handler"},
           (t = "worker" /\ WorkerStep) \/ (t = "handler" /\ Refresh)
    PROVE  NowInv'
<1>1. UNCHANGED <<cmd, rest, place, rawTitle, titleFrag, printed>>
  BY DEF WorkerStep, Refresh, main, library
<1>2. place \notin {"parse", "seed"}
  <2>1. WorkerStep => pc # "ended"
    BY DEF WorkerStep, Audio!WorkerStep, Audio!Exit, Audio!BeginPoll, Audio!Release,
       Audio!KeepSession, Audio!Resolve, Audio!ResolveFails, Audio!Measures,
       Audio!MeasureNothing, Audio!MeasureSession, Audio!MeasurePartly,
         Audio!MeasureExpired, Audio!Apply,
       Audio!NotifyAudible, Audio!CountTick, Audio!Sleep
  <2>2. Refresh => session # "off"
    BY DEF Refresh
  <2> QED
    BY <2>1, <2>2 DEF WorkerInv, StartedBetween, SourceTypes
<1>3. \E todo, out : emit' = [emit EXCEPT ![t] = Notification(todo, out)]
  BY DEF WorkerStep, Refresh, Publishes
<1>4. \A u \in Threads : emit'[u] = emit[u] \/ emit'[u].at # "write"
  BY <1>3 DEF Notification, Silent, WorkerInv, OneThreadEach
<1> QED
  BY <1>1, <1>2, <1>4, NowInvShows

\* Steps that neither show nor parse anything.
LEMMA NowInvAside ==
    ASSUME NowInv,
           \/ Refuse \/ NewFails \/ StartSources \/ Detected \/ Sleeps \/ GivesUp \/ Shown
           \/ Connect \/ Disconnect
           \/ AskSession \/ AskNobody \/ PostKey \/ Seek \/ Volume \/ ReadMuted \/ Mute \/ Open
           \/ BeginStop \/ Notify \/ Join \/ Teardown
           \/ TimeOut \/ Environment \/ UNCHANGED vars
    PROVE  NowInv'
<1> USE DEF Goto, Stays, MainFrame, Exit, main, library, stdout
<1> DEFINE Aside == /\ UNCHANGED <<cmd, rest, rawTitle, titleFrag, emit, printed>>
                    /\ place' \notin {"parse", "seed"} \/ place' = place
<1>1. ASSUME Refuse \/ NewFails \/ StartSources
      PROVE  Aside
  BY <1>1 DEF Refuse, NewFails, StartSources
<1>2. ASSUME Detected \/ Sleeps \/ GivesUp \/ Shown \/ Connect \/ Disconnect
      PROVE  Aside
  BY <1>2 DEF Detected, Sleeps, GivesUp, Shown, Connect, Disconnect
<1>3. ASSUME AskSession \/ AskNobody \/ PostKey \/ Seek
      PROVE  Aside
  BY <1>3 DEF AskSession, AskNobody, PostKey, Seek, Transport, Asks, FallsBack, Returns
<1>4. ASSUME Volume \/ ReadMuted \/ Mute \/ Open
      PROVE  Aside
  BY <1>4 DEF Volume, ReadMuted, Mute, SetMuted, Adjusts, Open, Returns
<1>5. ASSUME BeginStop \/ Notify \/ Join \/ Teardown
      PROVE  Aside
  BY <1>5 DEF BeginStop, Notify, Join, Teardown
<1>6. ASSUME TimeOut \/ Environment \/ UNCHANGED vars
      PROVE  Aside
  BY <1>6 DEF TimeOut, Environment, SpotifyOpens, SpotifyCloses, SpotifyRenames, MediaChanges,
     StreamChanges, Changes, Outside, Interrupt, vars
<1>7. Aside
  BY <1>1, <1>2, <1>3, <1>4, <1>5, <1>6
<1>8. CASE place' \notin {"parse", "seed"}
  BY <1>7, <1>8, NowInvShows
<1>9. CASE place' = place
  BY <1>7, <1>9, NowInvShows
<1> QED
  BY <1>7, <1>8, <1>9

\* The arguments are read, the title is parsed, now-playing begins to show.
LEMMA NowInvBegins ==
    ASSUME NowInv, EmitInv, WorldTypes, New \/ Seed \/ PrintJson \/ PrintText \/ Baseline
    PROVE  NowInv'
<1> USE DEF Goto, Stays, MainFrame, main, library, stdout
<1>1. CASE New
  <2>1. /\ UNCHANGED <<rawTitle, titleFrag, printed, emit>>
        /\ rawTitle = <<>> /\ printed = Garbled /\ \A t \in Threads : Idle(t)
    BY <1>1 DEF New, NowInv, UnshownInv
  <2>2. \A t \in Threads : Idle(t)' /\ emit'[t].at # "write"
    BY <2>1 DEF Idle, Silent
  <2> QED
    BY <2>1, <2>2 DEF NowInv, TitleInv, UnshownInv, WritesInv, PrintedInv
<1>2. CASE Seed
  <2>1. /\ UNCHANGED <<cmd, printed, emit>> /\ place' = "sources"
        /\ rawTitle = <<>> /\ printed = Garbled /\ \A t \in Threads : Idle(t)
    BY <1>2 DEF Seed, NowInv, UnshownInv
  <2>4. spotify # NoPid => Cut(shown) \in SeenTitles
    BY DEF SeenTitles, WorldTypes
  <2>2. TitleInv'
    BY <1>2, <2>1, <2>4 DEF Seed, TitleInv
  <2>3. \A t \in Threads : emit'[t].at # "write"
    BY <2>1 DEF Idle, Silent
  <2> QED
    BY <2>1, <2>2, <2>3 DEF NowInv, UnshownInv, WritesInv, PrintedInv
<1>3. CASE PrintText
  <2>1. /\ UNCHANGED <<cmd, rest, rawTitle, titleFrag, emit>>
        /\ place' = "stop" /\ "--json" \notin Range(rest)
    BY <1>3 DEF PrintText
  <2> QED
    BY <2>1, NowInvShows
<1>4. CASE PrintJson \/ Baseline
  <2>1. /\ UNCHANGED <<cmd, rest, rawTitle, titleFrag, printed>> /\ place' = "showing"
        /\ emit' = [emit EXCEPT !["main"] = [Silent EXCEPT !.todo = <<"state">>, !.at = "size"]]
    BY <1>4 DEF PrintJson, Baseline, EmitFromMain
  <2>2. \A t \in Threads : emit'[t] = emit[t] \/ emit'[t].at # "write"
    BY <2>1 DEF Silent
  <2> QED
    BY <2>1, <2>2, NowInvShows
<1> QED
  BY <1>1, <1>2, <1>3, <1>4

LEMMA NowInvStep ==
    ASSUME NowInv, AllInv, [Next]_vars
    PROVE  NowInv'
<1>1. WorkerInv /\ SourceTypes /\ EmitInv /\ WorldTypes
  BY DEF AllInv, SimpleTypes
<1>2. CASE \E t \in Threads : EmitStep(t)
  BY <1>1, <1>2, NowInvEmit
<1>3. CASE WorkerStep \/ Refresh
  BY <1>1, <1>3, NowInvPublishes
<1>4. CASE New \/ Seed \/ PrintJson \/ PrintText \/ Baseline
  BY <1>1, <1>4, NowInvBegins
<1> QED
  BY <1>2, <1>3, <1>4, NowInvAside DEF Next, MainStep, HandlerStep, Threads

\* now-playing --json tells the artist and the title of one report of the media
\* session, and what that leaves out as the window's title says it, whatever the
\* bytes of the names and the blanks around them are.
THEOREM NowPlayingShown == Spec => []NowPlayingTellsTrack
<1> DEFINE Inv == AllInv /\ NowInv
<1>1. Init => Inv
  BY AllInvInit, NowInvInit
<1>2. Inv /\ [Next]_vars => Inv'
  BY AllInvStep, NowInvStep
<1>3. Inv => NowPlayingTellsTrack
  BY NowInvTells
<1> QED
  BY <1>1, <1>2, <1>3, PTL DEF Spec
=============================================================================
