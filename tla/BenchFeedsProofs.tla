------------------------- MODULE BenchFeedsProofs -------------------------
(***************************************************************************)
(* Proofs about BenchFeeds, for any number of calls and any captures: what *)
(* the benches cut into words and byte enables is what the IP gets.        *)
(***************************************************************************)
EXTENDS BenchFeeds, Concatenation

Byte == Nat \X (Nat \cup {"tlast"})

---------------------------------------------------------------------------
\* Byte enables.

LEMMA Powers ==
    ASSUME NEW m
    PROVE  /\ (m = 0 => 2 ^ m = 1) /\ (m = 1 => 2 ^ m = 2) /\ (m = 2 => 2 ^ m = 4)
           /\ (m = 3 => 2 ^ m = 8) /\ (m = 4 => 2 ^ m = 16) /\ (m = 5 => 2 ^ m = 32)
           /\ (m = 6 => 2 ^ m = 64) /\ (m = 7 => 2 ^ m = 128) /\ (m = 8 => 2 ^ m = 256)
<1>1. m = 0 => 2 ^ m = 1
  <2>1. PICK c : c = 1
    OBVIOUS
  <2>2. c = 2 ^ 0
    BY <2>1, SMT
  <2>3. m = 0 => 2 ^ m = c
    BY <2>2, Zenon
  <2>. QED BY <2>1, <2>3, SMT
<1>2. m = 1 => 2 ^ m = 2
  <2>1. PICK c : c = 2
    OBVIOUS
  <2>2. c = 2 ^ 1
    BY <2>1, SMT
  <2>3. m = 1 => 2 ^ m = c
    BY <2>2, Zenon
  <2>. QED BY <2>1, <2>3, SMT
<1>3. m = 2 => 2 ^ m = 4
  <2>1. PICK c : c = 4
    OBVIOUS
  <2>2. c = 2 ^ 2
    BY <2>1, SMT
  <2>3. m = 2 => 2 ^ m = c
    BY <2>2, Zenon
  <2>. QED BY <2>1, <2>3, SMT
<1>4. m = 3 => 2 ^ m = 8
  <2>1. PICK c : c = 8
    OBVIOUS
  <2>2. c = 2 ^ 3
    BY <2>1, SMT
  <2>3. m = 3 => 2 ^ m = c
    BY <2>2, Zenon
  <2>. QED BY <2>1, <2>3, SMT
<1>5. m = 4 => 2 ^ m = 16
  <2>1. PICK c : c = 16
    OBVIOUS
  <2>2. c = 2 ^ 4
    BY <2>1, SMT
  <2>3. m = 4 => 2 ^ m = c
    BY <2>2, Zenon
  <2>. QED BY <2>1, <2>3, SMT
<1>6. m = 5 => 2 ^ m = 32
  <2>1. PICK c : c = 32
    OBVIOUS
  <2>2. c = 2 ^ 5
    BY <2>1, SMT
  <2>3. m = 5 => 2 ^ m = c
    BY <2>2, Zenon
  <2>. QED BY <2>1, <2>3, SMT
<1>7. m = 6 => 2 ^ m = 64
  <2>1. PICK c : c = 64
    OBVIOUS
  <2>2. c = 2 ^ 6
    BY <2>1, SMT
  <2>3. m = 6 => 2 ^ m = c
    BY <2>2, Zenon
  <2>. QED BY <2>1, <2>3, SMT
<1>8. m = 7 => 2 ^ m = 128
  <2>1. PICK c : c = 128
    OBVIOUS
  <2>2. c = 2 ^ 7
    BY <2>1, SMT
  <2>3. m = 7 => 2 ^ m = c
    BY <2>2, Zenon
  <2>. QED BY <2>1, <2>3, SMT
<1>9. m = 8 => 2 ^ m = 256
  <2>1. PICK c : c = 256
    OBVIOUS
  <2>2. c = 2 ^ 8
    BY <2>1, SMT
  <2>3. m = 8 => 2 ^ m = c
    BY <2>2, Zenon
  <2>. QED BY <2>1, <2>3, SMT
<1>. QED BY <1>1, <1>2, <1>3, <1>4, <1>5, <1>6, <1>7, <1>8, <1>9, SMT

\* The bits of e that are set belong to the places from a + 1 to b of a word.
Marks(e, a, b) == \A n \in 1 .. 8 : (e \div 2 ^ (8 - n)) % 2 = 1 <=> n > a /\ n <= b

LEMMA MarksByBits ==
    ASSUME NEW e \in Nat, NEW a \in Nat, NEW b \in Nat,
           (e \div 128) % 2 = 1 <=> 1 > a /\ 1 <= b,
           (e \div 64) % 2 = 1 <=> 2 > a /\ 2 <= b,
           (e \div 32) % 2 = 1 <=> 3 > a /\ 3 <= b,
           (e \div 16) % 2 = 1 <=> 4 > a /\ 4 <= b,
           (e \div 8) % 2 = 1 <=> 5 > a /\ 5 <= b,
           (e \div 4) % 2 = 1 <=> 6 > a /\ 6 <= b,
           (e \div 2) % 2 = 1 <=> 7 > a /\ 7 <= b,
           (e \div 1) % 2 = 1 <=> 8 > a /\ 8 <= b
    PROVE  Marks(e, a, b)
<1>. SUFFICES ASSUME NEW n \in 1 .. 8
              PROVE  (e \div 2 ^ (8 - n)) % 2 = 1 <=> n > a /\ n <= b
  BY DEF Marks
<1>. PICK m : m = 8 - n
  OBVIOUS
<1>. PICK p : p = 2 ^ m
  OBVIOUS
<1>1. CASE n = 1
  <2>1. m = 7
    BY <1>1
  <2>2. p = 128
    BY <2>1, Powers, SMT
  <2>. QED BY <1>1, <2>2
<1>2. CASE n = 2
  <2>1. m = 6
    BY <1>2
  <2>2. p = 64
    BY <2>1, Powers, SMT
  <2>. QED BY <1>2, <2>2
<1>3. CASE n = 3
  <2>1. m = 5
    BY <1>3
  <2>2. p = 32
    BY <2>1, Powers, SMT
  <2>. QED BY <1>3, <2>2
<1>4. CASE n = 4
  <2>1. m = 4
    BY <1>4
  <2>2. p = 16
    BY <2>1, Powers, SMT
  <2>. QED BY <1>4, <2>2
<1>5. CASE n = 5
  <2>1. m = 3
    BY <1>5
  <2>2. p = 8
    BY <2>1, Powers, SMT
  <2>. QED BY <1>5, <2>2
<1>6. CASE n = 6
  <2>1. m = 2
    BY <1>6
  <2>2. p = 4
    BY <2>1, Powers, SMT
  <2>. QED BY <1>6, <2>2
<1>7. CASE n = 7
  <2>1. m = 1
    BY <1>7
  <2>2. p = 2
    BY <2>1, Powers, SMT
  <2>. QED BY <1>7, <2>2
<1>8. CASE n = 8
  <2>1. m = 0
    BY <1>8
  <2>2. p = 1
    BY <2>1, Powers, SMT
  <2>. QED BY <1>8, <2>2
<1>. QED BY <1>1, <1>2, <1>3, <1>4, <1>5, <1>6, <1>7, <1>8

\* The two powers the enables are made of.
PowerPair(z, p, q) ==
    <<z, p, q>> \in {<<0, 1, 256>>, <<1, 2, 128>>, <<2, 4, 64>>, <<3, 8, 32>>, <<4, 16, 16>>,
                    <<5, 32, 8>>, <<6, 64, 4>>, <<7, 128, 2>>, <<8, 256, 1>>}

LEMMA PowersOf ==
    ASSUME NEW z \in 0 .. 8, NEW p, NEW q, p = 2 ^ z, q = 2 ^ (8 - z)
    PROVE  PowerPair(z, p, q)
<1>1. CASE z = 0
  <2>1. 8 - z = 8
    BY <1>1
  <2>. QED BY <1>1, <2>1, Powers DEF PowerPair
<1>2. CASE z = 1
  <2>1. 8 - z = 7
    BY <1>2
  <2>. QED BY <1>2, <2>1, Powers DEF PowerPair
<1>3. CASE z = 2
  <2>1. 8 - z = 6
    BY <1>3
  <2>. QED BY <1>3, <2>1, Powers DEF PowerPair
<1>4. CASE z = 3
  <2>1. 8 - z = 5
    BY <1>4
  <2>. QED BY <1>4, <2>1, Powers DEF PowerPair
<1>5. CASE z = 4
  <2>1. 8 - z = 4
    BY <1>5
  <2>. QED BY <1>5, <2>1, Powers DEF PowerPair
<1>6. CASE z = 5
  <2>1. 8 - z = 3
    BY <1>6
  <2>. QED BY <1>6, <2>1, Powers DEF PowerPair
<1>7. CASE z = 6
  <2>1. 8 - z = 2
    BY <1>7
  <2>. QED BY <1>7, <2>1, Powers DEF PowerPair
<1>8. CASE z = 7
  <2>1. 8 - z = 1
    BY <1>8
  <2>. QED BY <1>8, <2>1, Powers DEF PowerPair
<1>9. CASE z = 8
  <2>1. 8 - z = 0
    BY <1>9
  <2>. QED BY <1>9, <2>1, Powers DEF PowerPair
<1>. QED BY <1>1, <1>2, <1>3, <1>4, <1>5, <1>6, <1>7, <1>8, <1>9

\* z enables from the first byte on, and z up to the last.
LEMMA Masks ==
    ASSUME NEW z \in 0 .. 8
    PROVE  /\ Marks((2 ^ z - 1) * 2 ^ (8 - z), 0, z)
           /\ Marks(2 ^ z - 1, 8 - z, 8)
           /\ Marks((255 * 2 ^ (8 - z)) % 256, 0, z)
<1>. PICK p, q : p = 2 ^ z /\ q = 2 ^ (8 - z)
  OBVIOUS
<1>1. PowerPair(z, p, q)
  BY PowersOf, Zenon
<1>2. (p - 1) * q \in Nat /\ p - 1 \in Nat /\ (255 * q) % 256 = ((p - 1) * q) % 256 /\ 8 - z \in Nat
  BY <1>1 DEF PowerPair
<1>3. (p - 1) * q < 256
  BY <1>1 DEF PowerPair
<1>4. (255 * q) % 256 = (p - 1) * q
  BY <1>2, <1>3
<1>5. Marks((p - 1) * q, 0, z)
  <2>. PICK e \in Nat : e = (p - 1) * q
    BY <1>2
  <2>1. <<z, e>> \in {<<0, 0>>, <<1, 128>>, <<2, 192>>, <<3, 224>>, <<4, 240>>, <<5, 248>>,
                      <<6, 252>>, <<7, 254>>, <<8, 255>>}
    BY <1>1 DEF PowerPair
  <2>2. CASE z = 0 /\ e = 0
    BY <2>2, MarksByBits
  <2>3. CASE z = 1 /\ e = 128
    BY <2>3, MarksByBits
  <2>4. CASE z = 2 /\ e = 192
    BY <2>4, MarksByBits
  <2>5. CASE z = 3 /\ e = 224
    BY <2>5, MarksByBits
  <2>6. CASE z = 4 /\ e = 240
    BY <2>6, MarksByBits
  <2>7. CASE z = 5 /\ e = 248
    BY <2>7, MarksByBits
  <2>8. CASE z = 6 /\ e = 252
    BY <2>8, MarksByBits
  <2>9. CASE z = 7 /\ e = 254
    BY <2>9, MarksByBits
  <2>10. CASE z = 8 /\ e = 255
    BY <2>10, MarksByBits
  <2>11. Marks(e, 0, z)
    BY <2>1, <2>2, <2>3, <2>4, <2>5, <2>6, <2>7, <2>8, <2>9, <2>10
  <2>. QED BY <2>11
<1>6. Marks(p - 1, 8 - z, 8)
  <2>. PICK e \in Nat, a \in Nat : e = p - 1 /\ a = 8 - z
    BY <1>2
  <2>1. <<a, e>> \in {<<8, 0>>, <<7, 1>>, <<6, 3>>, <<5, 7>>, <<4, 15>>, <<3, 31>>,
                      <<2, 63>>, <<1, 127>>, <<0, 255>>}
    BY <1>1 DEF PowerPair
  <2>2. CASE a = 8 /\ e = 0
    BY <2>2, MarksByBits
  <2>3. CASE a = 7 /\ e = 1
    BY <2>3, MarksByBits
  <2>4. CASE a = 6 /\ e = 3
    BY <2>4, MarksByBits
  <2>5. CASE a = 5 /\ e = 7
    BY <2>5, MarksByBits
  <2>6. CASE a = 4 /\ e = 15
    BY <2>6, MarksByBits
  <2>7. CASE a = 3 /\ e = 31
    BY <2>7, MarksByBits
  <2>8. CASE a = 2 /\ e = 63
    BY <2>8, MarksByBits
  <2>9. CASE a = 1 /\ e = 127
    BY <2>9, MarksByBits
  <2>10. CASE a = 0 /\ e = 255
    BY <2>10, MarksByBits
  <2>11. Marks(e, a, 8)
    BY <2>1, <2>2, <2>3, <2>4, <2>5, <2>6, <2>7, <2>8, <2>9, <2>10
  <2>. QED BY <2>11
<1>. QED BY <1>4, <1>5, <1>6

\* The bytes a word's enables leave.
LEMMA EnabledPart ==
    ASSUME NEW S, NEW w \in Seq(S), Len(w) = 8, NEW e, NEW a \in 0 .. 8, NEW b \in a .. 8, Marks(e, a, b)
    PROVE  Enabled(w, e) = SubSeq(w, a + 1, b)
<1>. DEFINE s == [n \in 1 .. 8 |-> IF n > a /\ n <= b THEN <<w[n]>> ELSE <<>>]
            g == [n \in 1 .. 8 |-> SubSeq(w, a + 1, IF n <= b THEN n ELSE b)]
<1>1. Enabled(w, e) = FlattenSeq(s)
  <2>1. [n \in 1 .. 8 |-> IF (e \div 2 ^ (8 - n)) % 2 = 1 THEN <<w[n]>> ELSE <<>>] = s
    <3>1. \A n \in 1 .. 8 : (e \div 2 ^ (8 - n)) % 2 = 1 <=> n > a /\ n <= b
      BY DEF Marks
    <3>2. ASSUME NEW n \in 1 .. 8
          PROVE  (IF (e \div 2 ^ (8 - n)) % 2 = 1 THEN <<w[n]>> ELSE <<>>)
                     = (IF n > a /\ n <= b THEN <<w[n]>> ELSE <<>>)
      BY <3>1, Zenon
    <3>. QED BY <3>2, Zenon
  <2>. HIDE DEF s
  <2>. QED BY <2>1, Zenon DEF Enabled
<1>2. \A n \in 1 .. 8 : w[n] \in S
  BY ElementOfSeq
<1>3. g[1] = s[1]
  <2>1. CASE a = 0 /\ b >= 1
    <3>1. g[1] = SubSeq(w, 1, 1) /\ s[1] = <<w[1]>>
      BY <2>1
    <3>2. SubSeq(w, 1, 1) = SubSeq(w, 1, 1 - 1) \o <<w[1]>>
      <4>1. 1 \in 1 .. Len(w) /\ 1 \in 1 .. Len(w)
        OBVIOUS
      <4>. QED BY <4>1, SubSeqRecursiveSecond
    <3>3. SubSeq(w, 1, 1 - 1) = <<>> /\ <<w[1]>> \in Seq(S)
      BY <1>2, SubSeqEmpty
    <3>. HIDE DEF g, s
    <3>4. <<>> \o <<w[1]>> = <<w[1]>>
      BY <3>3, ConcatEmptySeq
    <3>. QED BY <3>1, <3>2, <3>3, <3>4, Zenon
  <2>2. CASE a >= 1 \/ b = 0
    <3>1. s[1] = <<>>
      BY <2>2
    <3>2. g[1] = <<>>
      <4>1. (IF 1 <= b THEN 1 ELSE b) \in Int /\ (IF 1 <= b THEN 1 ELSE b) < a + 1 /\ a + 1 \in Int
        BY <2>2
      <4>. QED BY <4>1, SubSeqEmpty
    <3>. QED BY <3>1, <3>2, Zenon
  <2>. QED BY <2>1, <2>2
<1>4. ASSUME NEW n \in 1 .. 7 PROVE g[n+1] = g[n] \o s[n+1]
  <2>1. g[n+1] = SubSeq(w, a + 1, IF n + 1 <= b THEN n + 1 ELSE b) /\ g[n] = SubSeq(w, a + 1, IF n <= b THEN n ELSE b)
        /\ s[n+1] = IF n + 1 > a /\ n + 1 <= b THEN <<w[n+1]>> ELSE <<>>
    OBVIOUS
  <2>. HIDE DEF g, s
  <2>2. CASE n + 1 > a /\ n + 1 <= b
    <3>1. g[n+1] = SubSeq(w, a + 1, n + 1) /\ g[n] = SubSeq(w, a + 1, n) /\ s[n+1] = <<w[n+1]>>
      BY <2>1, <2>2
    <3>2. SubSeq(w, a + 1, n + 1) = SubSeq(w, a + 1, (n + 1) - 1) \o <<w[n+1]>>
      <4>1. a + 1 \in 1 .. Len(w) /\ n + 1 \in a + 1 .. Len(w)
        BY <2>2
      <4>. QED BY <4>1, SubSeqRecursiveSecond
    <3>3. (n + 1) - 1 = n
      OBVIOUS
    <3>. QED BY <3>1, <3>2, <3>3
  <2>3. CASE n + 1 <= a
    <3>1. g[n+1] = <<>>
      <4>1. (IF n + 1 <= b THEN n + 1 ELSE b) \in Int /\ (IF n + 1 <= b THEN n + 1 ELSE b) < a + 1 /\ a + 1 \in Int
        BY <2>3
      <4>. QED BY <2>1, <4>1, SubSeqEmpty
    <3>2. g[n] = <<>>
      <4>1. (IF n <= b THEN n ELSE b) \in Int /\ (IF n <= b THEN n ELSE b) < a + 1 /\ a + 1 \in Int
        BY <2>3
      <4>. QED BY <2>1, <4>1, SubSeqEmpty
    <3>3. s[n+1] = <<>>
      BY <2>1, <2>3
    <3>4. <<>> \o <<>> = <<>>
      BY EmptySeq, ConcatEmptySeq
    <3>. QED BY <3>1, <3>2, <3>3, <3>4
  <2>4. CASE n + 1 > b
    <3>1. g[n+1] = SubSeq(w, a + 1, b) /\ g[n] = SubSeq(w, a + 1, b) /\ s[n+1] = <<>>
      BY <2>1, <2>4
    <3>2. SubSeq(w, a + 1, b) \in Seq(S)
      BY <1>2, SubSeqProperties
    <3>. QED BY <3>1, <3>2, ConcatEmptySeq
  <2>5. (n + 1 > a /\ n + 1 <= b) \/ n + 1 <= a \/ n + 1 > b
    OBVIOUS
  <2>. QED BY <2>2, <2>3, <2>4, <2>5, Zenon
<1>5. g[8] = SubSeq(w, a + 1, b) /\ Len(s) = 8
  OBVIOUS
<1>. HIDE DEF g, s
<1>6. FlattenSeq(s) = g[8]
  <2>1. PICK m \in Nat \ {0} : m = 8
    OBVIOUS
  <2>2. m - 1 = 7
    BY <2>1
  <2>3. Len(s) = m /\ \A n \in 1 .. m - 1 : g[n+1] = g[n] \o s[n+1]
    BY <1>4, <1>5, <2>1, <2>2, Zenon
  <2>4. FlattenSeq(s) = g[m]
    BY <1>3, <2>3, MadeByParts
  <2>. QED BY <2>1, <2>4, Zenon
<1>. QED BY <1>1, <1>5, <1>6

---------------------------------------------------------------------------
\* Words.

\* The first bytes of a padded word.
LEMMA FirstPart ==
    ASSUME NEW S, NEW u \in Seq(S), NEW v \in Seq(S), NEW n \in 0 .. 8, Len(u) = n, Len(v) = 8 - n
    PROVE  /\ u \o v \in Seq(S) /\ Len(u \o v) = 8
           /\ SubSeq(u \o v, 1, n) = u
<1>1. u \o v \in Seq(S) /\ Len(u \o v) = 8
  BY ConcatProperties
<1>2. CASE n = 0
  <2>1. SubSeq(u \o v, 1, n) = <<>>
    BY <1>2, SubSeqEmpty
  <2>2. u = <<>>
    BY <1>2, EmptySeq
  <2>. QED BY <1>1, <2>1, <2>2
<1>3. CASE n > 0
  <2>1. SubSeq(u \o v, 1, n) = SubSeq(u, 1, n)
    <3>1. 1 \in 1 .. Len(u) /\ n \in 1 .. Len(u)
      BY <1>3
    <3>. QED BY <3>1, SubSeqOfConcat1
  <2>2. SubSeq(u, 1, n) = u
    BY SubSeqFull
  <2>. QED BY <1>1, <2>1, <2>2
<1>. QED BY <1>2, <1>3

LEMMA Zeros ==
    ASSUME NEW n \in Nat
    PROVE  [k \in 1 .. n |-> ZERO] \in Seq(Byte) /\ Len([k \in 1 .. n |-> ZERO]) = n
<1>1. ZERO \in Byte
  BY DEF ZERO, Byte
<1>. PICK z : z = ZERO
  OBVIOUS
<1>2. [k \in 1 .. n |-> z] \in [1 .. n -> Byte]
  BY <1>1
<1>3. [k \in 1 .. n |-> z] \in Seq(Byte) /\ Len([k \in 1 .. n |-> z]) = n
  BY <1>2
<1>. QED BY <1>3

\* A part of a list.
LEMMA PartOf ==
    ASSUME NEW S, NEW list \in Seq(S), NEW from \in Nat, NEW to \in from .. Len(list)
    PROVE  SubSeq(list, from + 1, to) \in Seq(S) /\ Len(SubSeq(list, from + 1, to)) = to - from
<1>1. \A i \in from + 1 .. to : list[i] \in S
  BY ElementOfSeq
<1>2. from + 1 \in Int /\ to \in Int
  OBVIOUS
<1>3. /\ SubSeq(list, from + 1, to) \in Seq(S)
      /\ Len(SubSeq(list, from + 1, to)) = IF from + 1 <= to THEN to - (from + 1) + 1 ELSE 0
  BY <1>1, <1>2, SubSeqProperties
<1>. QED BY <1>3

\* How many words a list of n bytes has.
LEMMA WordsOf ==
    ASSUME NEW n \in Nat, NEW words, words = n \div 8 + (IF n % 8 > 0 THEN 1 ELSE 0)
    PROVE  /\ words \in Nat /\ (words = 0 <=> n = 0) /\ n <= 8 * words
           /\ n > 0 => 8 * (words - 1) < n
           /\ n % 8 \in 0 .. 7
           /\ n % 8 = 0 => n = 8 * words
           /\ n % 8 # 0 => n = 8 * (words - 1) + (n % 8)
<1>1. PICK q \in Nat, r \in 0 .. 7 : q = n \div 8 /\ r = n % 8 /\ n = 8 * q + r
  OBVIOUS
<1>2. words = IF r > 0 THEN q + 1 ELSE q
  BY <1>1
<1>. QED BY <1>1, <1>2

\* The IP gets the bytes of the unit.
LEMMA UnitOnBus ==
    ASSUME NEW list \in Seq(Byte)
    PROVE  FlattenSeq([j \in 1 .. get_num_words(list) |->
                           Enabled(get_word(list, j - 1), get_byte_enables(list, j - 1))]) = list
<1>. PICK n \in Nat : n = Len(list)
  OBVIOUS
<1>. PICK words : words = get_num_words(list)
  OBVIOUS
<1>. DEFINE s == [j \in 1 .. words |-> Enabled(get_word(list, j - 1), get_byte_enables(list, j - 1))]
            to(j) == IF 8 * j > n THEN n ELSE 8 * j
<1>1. /\ words \in Nat /\ (words = 0 <=> n = 0) /\ n <= 8 * words
      /\ n > 0 => 8 * (words - 1) < n
  BY WordsOf DEF get_num_words
<1>2. ASSUME NEW j \in 1 .. words
      PROVE  s[j] = SubSeq(list, 8 * (j - 1) + 1, to(j)) /\ s[j] \in Seq(Byte)
  <2>1. PICK from \in Nat, end \in Nat : from = (j - 1) * 8 /\ end = to(j)
    <3>1. (j - 1) * 8 \in Nat /\ to(j) \in Nat
      BY <1>1
    <3>. HIDE DEF to
    <3>. QED BY <3>1
  <2>2. end = Stop(list, j - 1) /\ from = 8 * (j - 1)
    BY <2>1 DEF Stop
  <2>3. from < end /\ end <= n /\ end <= from + 8
    BY <1>1, <2>1
  <2>. HIDE DEF to
  <2>4. PICK z \in 1 .. 8 : z = end - from
    BY <2>3
  <2>5. NumZeros(list, j - 1) = 8 - z
    BY <2>1, <2>2, <2>4 DEF NumZeros
  <2>6. PICK u \in Seq(Byte) : u = SubSeq(list, from + 1, end) /\ Len(u) = z
    <3>1. end \in from .. Len(list)
      BY <2>3
    <3>. QED BY <2>4, <3>1, PartOf
  <2>7. PICK v \in Seq(Byte) : v = [i \in 1 .. 8 - z |-> ZERO] /\ Len(v) = 8 - z
    <3>1. 8 - z \in Nat
      OBVIOUS
    <3>. QED BY <3>1, Zeros
  <2>8. get_word(list, j - 1) = u \o v
    BY <2>1, <2>2, <2>5, <2>6, <2>7 DEF get_word
  <2>9. u \o v \in Seq(Byte) /\ Len(u \o v) = 8 /\ SubSeq(u \o v, 1, z) = u
    BY <2>6, <2>7, FirstPart
  <2>10. Marks(get_byte_enables(list, j - 1), 0, z)
    <3>1. z \in 0 .. 8
      OBVIOUS
    <3>2. Marks((255 * 2 ^ (8 - z)) % 256, 0, z)
      BY <3>1, Masks, Zenon
    <3>. QED BY <2>5, <3>2, Zenon DEF get_byte_enables
  <2>11. Enabled(u \o v, get_byte_enables(list, j - 1)) = SubSeq(u \o v, 0 + 1, z)
    <3>1. PICK w, e : w = u \o v /\ e = get_byte_enables(list, j - 1)
      OBVIOUS
    <3>2. w \in Seq(Byte) /\ Len(w) = 8 /\ 0 \in 0 .. 8 /\ z \in 0 .. 8 /\ Marks(e, 0, z)
      BY <2>9, <2>10, <3>1
    <3>3. Enabled(w, e) = SubSeq(w, 0 + 1, z)
      BY <3>2, EnabledPart
    <3>. QED BY <3>1, <3>3
  <2>12. s[j] = u
    <3>1. s[j] = Enabled(u \o v, get_byte_enables(list, j - 1))
      BY <2>8
    <3>2. 0 + 1 = 1
      OBVIOUS
    <3>. HIDE DEF s
    <3>. QED BY <2>9, <2>11, <3>1, <3>2, Zenon
  <2>. HIDE DEF s
  <2>. QED BY <2>1, <2>2, <2>6, <2>12
<1>3. s \in Seq(Seq(Byte)) /\ Len(s) = words
  <2>1. s \in [1 .. words -> Seq(Byte)]
    <3>1. s = [j \in 1 .. words |-> s[j]]
      OBVIOUS
    <3>. HIDE DEF s, to
    <3>. QED BY <1>2, <3>1
  <2>. HIDE DEF s
  <2>. QED BY <1>1, <2>1
<1>4. FlattenSeq(s) = list
  <2>. HIDE DEF s
  <2>1. CASE words = 0
    <3>1. list = <<>>
      BY <1>1, <2>1, EmptySeq
    <3>2. FlattenSeq(s) = <<>>
      BY <1>3, <2>1, Flattened
    <3>. QED BY <3>1, <3>2
  <2>2. CASE words > 0
    <3>1. Cut(s, list, 8, n)
      <4>1. 8 * (Len(s) - 1) <= n /\ n <= 8 * Len(s)
        BY <1>1, <1>3, <2>2
      <4>2. \A k \in 1 .. Len(s) : s[k] = SubSeq(list, 8 * (k - 1) + 1, IF 8 * k > n THEN n ELSE 8 * k)
        BY <1>2, <1>3, Zenon
      <4>. QED BY <4>1, <4>2, Zenon DEF Cut
    <3>2. FlattenSeq(s) = SubSeq(list, 1, n)
      <4>1. 8 \in Nat /\ n \in 0 .. Len(list) /\ Len(s) > 0
        BY <1>3, <2>2
      <4>. QED BY <1>3, <3>1, <4>1, CutFlattened
    <3>3. SubSeq(list, 1, n) = list
      BY SubSeqFull
    <3>. QED BY <3>2, <3>3
  <2>. QED BY <1>1, <2>1, <2>2
<1>. QED BY <1>4

\* A list of 14 bytes in two words with the enables of Test #4.
CutAt(list, index, e, from, end, z) ==
    /\ list \in Seq(Byte) /\ index \in Nat /\ e \in Nat /\ from \in Nat /\ end \in Nat /\ z \in 1 .. 8
    /\ from = index * 8 /\ end = Stop(list, index) /\ end = from + z /\ end <= Len(list)
    /\ Marks(e, 0, z)

HoldsPart(list, index, e, from, end) == Enabled(get_word(list, index), e) = SubSeq(list, from + 1, end)

LEMMA EnabledWord ==
    ASSUME NEW list, NEW index, NEW e, NEW from, NEW end, NEW z, CutAt(list, index, e, from, end, z)
    PROVE  HoldsPart(list, index, e, from, end)
<1>. /\ list \in Seq(Byte) /\ index \in Nat /\ e \in Nat /\ from \in Nat /\ end \in Nat /\ z \in 1 .. 8
  BY DEF CutAt
<1>0. from = index * 8 /\ end = Stop(list, index) /\ end <= Len(list) /\ end - from = z /\ Marks(e, 0, z)
  BY DEF CutAt
<1>1. NumZeros(list, index) = 8 - z
  BY <1>0 DEF NumZeros
<1>2. PICK u \in Seq(Byte) : u = SubSeq(list, from + 1, end) /\ Len(u) = z
  <2>1. end \in from .. Len(list)
    BY <1>0
  <2>. QED BY <1>0, <2>1, PartOf, Zenon
<1>3. PICK v \in Seq(Byte) : v = [i \in 1 .. 8 - z |-> ZERO] /\ Len(v) = 8 - z
  <2>1. 8 - z \in Nat
    OBVIOUS
  <2>. QED BY <2>1, Zeros
<1>4. get_word(list, index) = u \o v
  BY <1>0, <1>1, <1>2, <1>3 DEF get_word
<1>5. u \o v \in Seq(Byte) /\ Len(u \o v) = 8 /\ SubSeq(u \o v, 1, z) = u
  <2>1. z \in 0 .. 8
    OBVIOUS
  <2>. QED BY <1>2, <1>3, <2>1, FirstPart
<1>6. PICK w : w = u \o v
  OBVIOUS
<1>7. w \in Seq(Byte) /\ Len(w) = 8 /\ 0 \in 0 .. 8 /\ z \in 0 .. 8
  BY <1>5, <1>6
<1>8. Enabled(w, e) = SubSeq(w, 0 + 1, z)
  BY <1>0, <1>7, EnabledPart
<1>9. 0 + 1 = 1
  OBVIOUS
<1>10. Enabled(get_word(list, index), e) = SubSeq(list, from + 1, end)
  BY <1>2, <1>4, <1>5, <1>6, <1>8, <1>9, Zenon
<1>. QED BY <1>10 DEF HoldsPart

LEMMA TwoWords ==
    ASSUME NEW list \in Seq(Byte), Len(list) = 14
    PROVE  Enabled(get_word(list, 0), 255) \o Enabled(get_word(list, 1), 252) = list
<1>1. Marks(255, 0, 8) /\ Marks(252, 0, 6)
  <2>1. Marks(255, 0, 8)
    BY MarksByBits
  <2>2. Marks(252, 0, 6)
    BY MarksByBits
  <2>. QED BY <2>1, <2>2
<1>2. Stop(list, 0) = 8 /\ Stop(list, 1) = 14
  BY DEF Stop
<1>3. CutAt(list, 0, 255, 0, 8, 8) /\ CutAt(list, 1, 252, 8, 14, 6)
  BY <1>1, <1>2 DEF CutAt
<1>4. /\ Enabled(get_word(list, 0), 255) = SubSeq(list, 1, 8)
      /\ Enabled(get_word(list, 1), 252) = SubSeq(list, 9, 14)
  <2>1. HoldsPart(list, 0, 255, 0, 8)
    BY <1>3, EnabledWord
  <2>2. HoldsPart(list, 1, 252, 8, 14)
    BY <1>3, EnabledWord
  <2>. QED BY <2>1, <2>2 DEF HoldsPart
<1>5. SubSeq(list, 1, 8) \o SubSeq(list, 9, 14) = list
  <2>1. SubSeq(list, 1, 8) \o SubSeq(list, 8 + 1, 14) = SubSeq(list, 1, 14)
    <3>1. 1 \in 1 .. Len(list) + 1 /\ 8 \in 1 - 1 .. Len(list) /\ 14 \in 8 .. Len(list)
      OBVIOUS
    <3>. QED BY <3>1, ConcatAdjacentSubSeq
  <2>2. SubSeq(list, 1, 14) = list
    BY SubSeqFull
  <2>. QED BY <2>1, <2>2
<1>. QED BY <1>4, <1>5

\* The order of the lanes.
LEMMA Reversed ==
    ASSUME NEW S, NEW w \in Seq(S)
    PROVE  /\ Reverse(w) \in Seq(S) /\ Len(Reverse(w)) = Len(w)
           /\ \A i \in 1 .. Len(w) : Reverse(w)[i] = w[Len(w) - i + 1]
<1>. PICK n \in Nat : n = Len(w)
  OBVIOUS
<1>1. \A i \in 1 .. n : w[n - i + 1] \in S
  <2>1. ASSUME NEW i \in 1 .. n PROVE w[n - i + 1] \in S
    <3>1. n - i + 1 \in 1 .. Len(w)
      OBVIOUS
    <3>. QED BY <3>1, ElementOfSeq
  <2>. QED BY <2>1
<1>2. PICK r : r = [i \in 1 .. n |-> w[n - i + 1]]
  OBVIOUS
<1>3. r \in [1 .. n -> S]
  BY <1>1, <1>2
<1>4. r \in Seq(S) /\ Len(r) = n
  BY <1>3
<1>5. Reverse(w) = r
  BY <1>2 DEF Reverse
<1>. QED BY <1>2, <1>4, <1>5

LEMMA ReversedTwice ==
    ASSUME NEW S, NEW w \in Seq(S)
    PROVE  Reverse(Reverse(w)) = w
<1>. PICK n \in Nat : n = Len(w)
  OBVIOUS
<1>1. PICK r \in Seq(S) : r = Reverse(w) /\ Len(r) = n /\ \A i \in 1 .. n : r[i] = w[n - i + 1]
  BY Reversed
<1>2. PICK q \in Seq(S) : q = Reverse(r) /\ Len(q) = n /\ \A i \in 1 .. n : q[i] = r[n - i + 1]
  BY <1>1, Reversed
<1>3. ASSUME NEW i \in 1 .. n PROVE q[i] = w[i]
  <2>1. n - i + 1 \in 1 .. n /\ n - (n - i + 1) + 1 = i
    OBVIOUS
  <2>. QED BY <1>1, <1>2, <2>1
<1>4. q = w
  BY <1>2, <1>3, SeqEqual
<1>. QED BY <1>1, <1>2, <1>4

\* The last bytes of a padded word that was turned round.
LEMMA LastPart ==
    ASSUME NEW S, NEW u \in Seq(S), NEW v \in Seq(S), NEW n \in 0 .. 7, Len(u) = n, Len(v) = 8 - n
    PROVE  SubSeq(Reverse(u \o v), 8 - n + 1, 8) = Reverse(u)
<1>1. PICK w \in Seq(S) : w = u \o v /\ Len(w) = 8 /\ \A i \in 1 .. n : w[i] = u[i]
  <2>1. u \o v \in Seq(S) /\ Len(u \o v) = 8
    BY ConcatProperties
  <2>2. \A i \in 1 .. n : (u \o v)[i] = u[i]
    BY ConcatProperties
  <2>. QED BY <2>1, <2>2, Zenon
<1>2. PICK r \in Seq(S) : r = Reverse(w) /\ Len(r) = 8 /\ \A i \in 1 .. 8 : r[i] = w[8 - i + 1]
  <2>1. /\ Reverse(w) \in Seq(S) /\ Len(Reverse(w)) = Len(w)
        /\ \A i \in 1 .. Len(w) : Reverse(w)[i] = w[Len(w) - i + 1]
    BY Reversed, Zenon
  <2>2. Len(w) = 8
    BY <1>1
  <2>3. \A i \in 1 .. 8 : Reverse(w)[i] = w[8 - i + 1]
    BY <2>1, <2>2, Zenon
  <2>4. Reverse(w) \in Seq(S) /\ Len(Reverse(w)) = 8
    BY <2>1, <2>2, Zenon
  <2>. QED BY <2>3, <2>4, Zenon
<1>3. PICK q \in Seq(S) : q = Reverse(u) /\ Len(q) = n /\ \A i \in 1 .. n : q[i] = u[n - i + 1]
  BY Reversed
<1>4. PICK t : t = SubSeq(r, 8 - n + 1, 8)
  OBVIOUS
<1>5. t \in Seq(S) /\ Len(t) = n /\ \A i \in 1 .. n : t[i] = r[8 - n + i]
  <2>1. 8 - n + 1 \in Int /\ 8 \in Int /\ \A i \in 8 - n + 1 .. 8 : r[i] \in S
    <3>1. ASSUME NEW i \in 8 - n + 1 .. 8 PROVE r[i] \in S
      <4>1. i \in 1 .. Len(r)
        BY <1>2
      <4>. QED BY <4>1, ElementOfSeq, Zenon
    <3>. QED BY <3>1
  <2>2. /\ t \in Seq(S) /\ Len(t) = IF 8 - n + 1 <= 8 THEN 8 - (8 - n + 1) + 1 ELSE 0
        /\ \A i \in 1 .. 8 - (8 - n + 1) + 1 : t[i] = r[(8 - n + 1) + i - 1]
    BY <1>4, <2>1, SubSeqProperties
  <2>. QED BY <2>2
<1>6. ASSUME NEW i \in 1 .. n PROVE t[i] = q[i]
  <2>1. 8 - n + i \in 1 .. 8 /\ 8 - (8 - n + i) + 1 = n - i + 1 /\ n - i + 1 \in 1 .. n
    OBVIOUS
  <2>2. t[i] = r[8 - n + i] /\ q[i] = u[n - i + 1]
    BY <1>3, <1>5
  <2>3. r[8 - n + i] = w[n - i + 1]
    BY <1>2, <2>1
  <2>4. w[n - i + 1] = u[n - i + 1]
    BY <1>1, <2>1
  <2>. QED BY <2>2, <2>3, <2>4
<1>7. t = q
  BY <1>3, <1>5, <1>6, SeqEqual
<1>. QED BY <1>1, <1>2, <1>3, <1>4, <1>7

LEMMA BothOrders ==
    ASSUME NEW S, NEW w \in Seq(S), NEW order
    PROVE  /\ from_bytes(w, order) \in Seq(S) /\ Len(from_bytes(w, order)) = Len(w)
           /\ from_bytes(from_bytes(w, order), order) = w
BY Reversed, ReversedTwice DEF from_bytes

\* A beat in the middle of a frame has its eight bytes, ...
LEMMA MiddleBeat ==
    ASSUME NEW raw \in Seq(Byte), NEW order \in {0, 1}, NEW j \in Nat \ {0},
           8 * j <= Len(raw), ~IsLastWord(raw, j - 1)
    PROVE  Beat(raw, j - 1, order) = SubSeq(raw, 8 * (j - 1) + 1, 8 * j)
<1>1. PICK from \in Nat, end \in Nat : from = (j - 1) * 8 /\ end = from + 8
  <2>1. (j - 1) * 8 \in Nat /\ (j - 1) * 8 + 8 \in Nat
    OBVIOUS
  <2>. QED BY <2>1
<1>2. from = 8 * (j - 1) /\ end = 8 * j /\ end \in from .. Len(raw)
  BY <1>1
<1>3. PICK w \in Seq(Byte) : w = SubSeq(raw, from + 1, end) /\ Len(w) = 8
  <2>1. SubSeq(raw, from + 1, end) \in Seq(Byte) /\ Len(SubSeq(raw, from + 1, end)) = end - from
    BY <1>2, PartOf
  <2>2. end - from = 8
    BY <1>1
  <2>. QED BY <2>1, <2>2, Zenon
<1>4. PICK x \in Seq(Byte) : x = from_bytes(w, order) /\ Len(x) = 8 /\ from_bytes(x, order) = w
  BY <1>3, BothOrders
<1>5. frame_get_word(raw, j - 1, order) = x /\ get_word_tkeep(raw, j - 1, order) = 255
  BY <1>1, <1>3, <1>4 DEF frame_get_word, get_word_tkeep
<1>6. Enabled(x, 255) = x
  <2>1. Marks(255, 0, 8)
    <3>1. 8 \in 0 .. 8 /\ 2 ^ 8 - 1 = 255 /\ 8 - 8 = 0
      OBVIOUS
    <3>2. Marks(2 ^ 8 - 1, 8 - 8, 8)
      BY <3>1, Masks, Zenon
    <3>. QED BY <3>1, <3>2
  <2>2. PICK e : e = 255
    OBVIOUS
  <2>3. Enabled(x, e) = SubSeq(x, 0 + 1, 8)
    <3>1. 0 \in 0 .. 8 /\ 8 \in 0 .. 8 /\ Marks(e, 0, 8)
      BY <2>1, <2>2
    <3>. QED BY <1>4, <3>1, EnabledPart
  <2>4. SubSeq(x, 1, Len(x)) = x
    BY SubSeqFull, Zenon
  <2>5. Len(x) = 8 /\ 0 + 1 = 1
    BY <1>4
  <2>. QED BY <2>2, <2>3, <2>4, <2>5, Zenon
<1>7. Beat(raw, j - 1, order) = w
  BY <1>4, <1>5, <1>6 DEF Beat
<1>. QED BY <1>2, <1>3, <1>7

LEMMA Lanes ==
    ASSUME NEW z \in 0 .. 7
    PROVE  z \in 0 .. 8 /\ 8 - z \in 0 .. 8 /\ 8 - z \in Nat /\ 0 \in 0 .. 8
OBVIOUS

\* ... and the last one has what is over.
LEMMA LastBeat ==
    ASSUME NEW raw \in Seq(Byte), NEW order \in {0, 1}, NEW j \in Nat \ {0}, NEW z \in 0 .. 7,
           z = Len(raw) % 8, 8 * (j - 1) + z <= Len(raw), IsLastWord(raw, j - 1)
    PROVE  Beat(raw, j - 1, order) = SubSeq(raw, 8 * (j - 1) + 1, 8 * (j - 1) + z)
<1>1. PICK from \in Nat : from = (j - 1) * 8
  OBVIOUS
<1>2. from = 8 * (j - 1) /\ from + z \in from .. Len(raw)
  BY <1>1
<1>3. PICK u \in Seq(Byte) : u = SubSeq(raw, from + 1, from + z) /\ Len(u) = z
  <2>1. /\ SubSeq(raw, from + 1, from + z) \in Seq(Byte)
        /\ Len(SubSeq(raw, from + 1, from + z)) = (from + z) - from
    BY <1>2, PartOf, Zenon
  <2>2. (from + z) - from = z
    OBVIOUS
  <2>. QED BY <2>1, <2>2, Zenon
<1>4. PICK v \in Seq(Byte) : v = [n \in 1 .. 8 - z |-> ZERO] /\ Len(v) = 8 - z
  <2>1. 8 - z \in Nat
    BY Lanes, Zenon
  <2>. QED BY <2>1, Zeros
<1>5. PICK w \in Seq(Byte) : w = u \o v /\ Len(w) = 8 /\ SubSeq(w, 1, z) = u
  <2>1. PICK n \in 0 .. 8 : n = z
    BY Lanes, Zenon
  <2>2. Len(u) = n /\ Len(v) = 8 - n
    BY <1>3, <1>4, <2>1
  <2>3. u \o v \in Seq(Byte) /\ Len(u \o v) = 8 /\ SubSeq(u \o v, 1, n) = u
    BY <2>2, FirstPart
  <2>. QED BY <2>1, <2>3, Zenon
<1>6. frame_get_word(raw, j - 1, order) = from_bytes(w, order)
  BY <1>1, <1>3, <1>4, <1>5 DEF frame_get_word
<1>7. CASE order = 0
  <2>1. PICK e : e = (2 ^ z - 1) * 2 ^ (8 - z)
    OBVIOUS
  <2>2. get_word_tkeep(raw, j - 1, order) = e
    BY <1>7, <2>1 DEF get_word_tkeep
  <2>3. Marks(e, 0, z)
    <3>1. z \in 0 .. 8
      BY Lanes, Zenon
    <3>. QED BY <2>1, <3>1, Masks, Zenon
  <2>4. Enabled(w, e) = SubSeq(w, 0 + 1, z)
    <3>1. 0 \in 0 .. 8 /\ z \in 0 .. 8
      BY Lanes, Zenon
    <3>. QED BY <1>5, <2>3, <3>1, EnabledPart
  <2>5. \A x : from_bytes(x, order) = x
    BY <1>7 DEF from_bytes
  <2>6. Beat(raw, j - 1, order) = SubSeq(w, 0 + 1, z)
    BY <1>6, <2>2, <2>4, <2>5, Zenon DEF Beat
  <2>7. 0 + 1 = 1
    OBVIOUS
  <2>. QED BY <1>2, <1>3, <1>5, <2>6, <2>7, Zenon
<1>8. CASE order = 1
  <2>1. PICK e : e = 2 ^ z - 1
    OBVIOUS
  <2>2. get_word_tkeep(raw, j - 1, order) = e
    BY <1>8, <2>1 DEF get_word_tkeep
  <2>3. Marks(e, 8 - z, 8)
    <3>1. z \in 0 .. 8
      BY Lanes, Zenon
    <3>. QED BY <2>1, <3>1, Masks, Zenon
  <2>4. PICK x \in Seq(Byte) : x = Reverse(w) /\ Len(x) = 8
    BY <1>5, Reversed
  <2>5. Enabled(x, e) = SubSeq(x, 8 - z + 1, 8)
    <3>0. 8 - z \in 0 .. 8
      BY Lanes, Zenon
    <3>1. PICK a \in 0 .. 8 : a = 8 - z
      BY <3>0, Zenon
    <3>2. 8 \in a .. 8 /\ Marks(e, a, 8)
      BY <2>3, <3>1
    <3>3. Enabled(x, e) = SubSeq(x, a + 1, 8)
      BY <2>4, <3>2, EnabledPart
    <3>. QED BY <3>1, <3>3
  <2>6. SubSeq(x, 8 - z + 1, 8) = Reverse(u)
    <3>1. SubSeq(Reverse(u \o v), 8 - z + 1, 8) = Reverse(u)
      BY <1>3, <1>4, LastPart, Zenon
    <3>. QED BY <1>5, <2>4, <3>1, Zenon
  <2>7. \A y : from_bytes(y, order) = Reverse(y)
    BY <1>8 DEF from_bytes
  <2>8. Beat(raw, j - 1, order) = Reverse(Reverse(u))
    BY <1>6, <2>2, <2>4, <2>5, <2>6, <2>7, Zenon DEF Beat
  <2>. QED BY <1>2, <1>3, <2>8, ReversedTwice, Zenon
<1>. QED BY <1>7, <1>8

\* What a frame of n bytes keeps.
Kept(n) == IF n % 8 = 0 THEN n - 8 ELSE n

LEMMA BytesOf ==
    ASSUME NEW k \in Nat, NEW n \in Nat
    PROVE  /\ Bytes(k, n) \in Seq(Byte) /\ Len(Bytes(k, n)) = n
           /\ \A i \in 1 .. n : Bytes(k, n)[i] = <<k, i>>
<1>1. \A i \in 1 .. n : <<k, i>> \in Byte
  BY DEF Byte
<1>2. Bytes(k, n) \in [1 .. n -> Byte]
  BY <1>1 DEF Bytes
<1>3. \A i \in 1 .. n : Bytes(k, n)[i] = <<k, i>>
  BY DEF Bytes
<1>. QED BY <1>2, <1>3

LEMMA KeptBytes ==
    ASSUME NEW k \in Nat, NEW n \in Nat
    PROVE  /\ Bytes(k, Kept(n)) \in Seq(Byte)
           /\ Bytes(k, Kept(n)) = SubSeq(Bytes(k, n), 1, Kept(n))
           /\ n = 0 => Bytes(k, Kept(n)) = <<>>
           /\ Kept(n) <= n /\ (n > 0 => Kept(n) \in Nat)
<1>1. PICK m \in Int : m = Kept(n) /\ m <= n /\ (n > 0 => m >= 0) /\ (n = 0 => m < 0)
  <2>1. PICK r \in 0 .. 7, q \in Nat : r = n % 8 /\ n = 8 * q + r
    OBVIOUS
  <2>2. Kept(n) \in Int /\ Kept(n) <= n /\ (n > 0 => Kept(n) >= 0) /\ (n = 0 => Kept(n) < 0)
    BY <2>1 DEF Kept
  <2>. QED BY <2>2
<1>2. CASE m < 0
  <2>1. 1 .. m = {}
    BY <1>2
  <2>2. Bytes(k, m) = <<>>
    <3>1. Bytes(k, m) = [i \in {} |-> <<k, i>>]
      BY <2>1 DEF Bytes
    <3>. QED BY <3>1
  <2>3. SubSeq(Bytes(k, n), 1, m) = <<>>
    BY <1>2, SubSeqEmpty
  <2>4. <<>> \in Seq(Byte)
    OBVIOUS
  <2>. QED BY <1>1, <1>2, <2>2, <2>3, <2>4
<1>3. CASE m >= 0
  <2>1. PICK b \in Seq(Byte) : b = Bytes(k, n) /\ Len(b) = n /\ \A i \in 1 .. n : b[i] = <<k, i>>
    BY BytesOf, Zenon
  <2>2. PICK c \in Seq(Byte) : c = Bytes(k, m) /\ Len(c) = m /\ \A i \in 1 .. m : c[i] = <<k, i>>
    <3>1. m \in Nat
      BY <1>3
    <3>. QED BY <3>1, BytesOf, Zenon
  <2>3. PICK s : s = SubSeq(b, 1, m)
    OBVIOUS
  <2>4. s \in Seq(Byte) /\ Len(s) = m /\ \A i \in 1 .. m : s[i] = b[i]
    <3>1. 1 \in Int /\ m \in Int /\ \A i \in 1 .. m : b[i] \in Byte
      BY <1>1, <2>1, ElementOfSeq
    <3>2. s \in Seq(Byte) /\ Len(s) = (IF 1 <= m THEN m - 1 + 1 ELSE 0)
          /\ \A i \in 1 .. m - 1 + 1 : s[i] = b[1 + i - 1]
      BY <2>3, <3>1, SubSeqProperties
    <3>. QED BY <1>3, <3>2
  <2>5. \A i \in 1 .. m : s[i] = c[i]
    BY <1>1, <2>1, <2>2, <2>4
  <2>6. s = c
    BY <2>2, <2>4, <2>5, SeqEqual
  <2>. QED BY <1>1, <1>3, <2>1, <2>2, <2>3, <2>6
<1>. QED BY <1>2, <1>3

\* The IP gets what the frame keeps, in the order of the frame.
Taken(raw, order) == FlattenSeq([j \in 1 .. get_number_of_words(raw) |-> Beat(raw, j - 1, order)])

LEMMA FrameOnBus ==
    ASSUME NEW k \in Nat, NEW n \in Nat, NEW order \in {0, 1}, NEW raw, raw = Bytes(k, n)
    PROVE  Taken(raw, order) = Bytes(k, Kept(n))
<1>1. raw \in Seq(Byte) /\ Len(raw) = n
  BY BytesOf
<1>. PICK words : words = get_number_of_words(raw)
  OBVIOUS
<1>2. /\ words \in Nat /\ (words = 0 <=> n = 0) /\ n <= 8 * words
      /\ (n > 0 => 8 * (words - 1) < n)
      /\ n % 8 \in 0 .. 7
      /\ (n % 8 = 0 => n = 8 * words)
      /\ (n % 8 # 0 => n = 8 * (words - 1) + (n % 8))
  <2>1. words = n \div 8 + (IF n % 8 > 0 THEN 1 ELSE 0)
    BY <1>1 DEF get_number_of_words
  <2>. QED BY <2>1, WordsOf, Zenon
<1>. DEFINE s == [j \in 1 .. words |-> Beat(raw, j - 1, order)]
<1>3. CASE n = 0
  <2>1. words = 0
    BY <1>2, <1>3
  <2>2. s = <<>>
    <3>1. 1 .. words = {}
      BY <2>1
    <3>. QED BY <3>1
  <2>3. <<>> \in Seq(Seq(Byte)) /\ Len(<<>>) = 0
    OBVIOUS
  <2>4. FlattenSeq(<<>>) = <<>>
    BY <2>3, Flattened
  <2>5. Bytes(k, Kept(n)) = <<>>
    BY <1>3, KeptBytes
  <2>6. Taken(raw, order) = FlattenSeq(s)
    BY Zenon DEF Taken
  <2>. QED BY <2>2, <2>4, <2>5, <2>6
<1>4. CASE n > 0
  <2>1. PICK m \in Nat : m = Kept(n) /\ m <= n
    BY <1>4, KeptBytes
  <2>2. words \in Nat \ {0} /\ 8 * (words - 1) <= m /\ m <= 8 * words /\ m = 8 * (words - 1) + (n % 8)
    BY <1>2, <1>4, <2>1 DEF Kept
  <2>. DEFINE to(j) == IF 8 * j > m THEN m ELSE 8 * j
  <2>3. ASSUME NEW j \in 1 .. words
        PROVE  s[j] = SubSeq(raw, 8 * (j - 1) + 1, to(j)) /\ s[j] \in Seq(Byte)
    <3>1. s[j] = Beat(raw, j - 1, order) /\ j \in Nat \ {0}
      OBVIOUS
    <3>2. IsLastWord(raw, j - 1) <=> j = words
      BY DEF IsLastWord
    <3>3. ASSUME j < words PROVE s[j] = SubSeq(raw, 8 * (j - 1) + 1, to(j))
      <4>1. 8 * j <= m /\ 8 * j <= Len(raw) /\ ~IsLastWord(raw, j - 1)
        <5>1. 8 * j <= 8 * (words - 1)
          BY <2>2, <3>3
        <5>2. 8 * j <= m
          BY <2>2, <5>1
        <5>. HIDE DEF s, to
        <5>3. j # words
          BY <2>2, <3>3
        <5>. QED BY <1>1, <2>1, <3>2, <5>2, <5>3
      <4>2. Beat(raw, j - 1, order) = SubSeq(raw, 8 * (j - 1) + 1, 8 * j)
        BY <1>1, <3>1, <4>1, MiddleBeat
      <4>3. to(j) = 8 * j
        BY <4>1
      <4>. HIDE DEF s, to
      <4>. QED BY <3>1, <4>2, <4>3, Zenon
    <3>4. ASSUME j = words PROVE s[j] = SubSeq(raw, 8 * (j - 1) + 1, to(j))
      <4>1. PICK z \in 0 .. 7 : z = n % 8
        BY <1>2
      <4>2. 8 * (j - 1) + z = m /\ z = Len(raw) % 8 /\ m <= Len(raw) /\ IsLastWord(raw, j - 1)
        BY <1>1, <2>1, <2>2, <3>2, <3>4, <4>1
      <4>3. Beat(raw, j - 1, order) = SubSeq(raw, 8 * (j - 1) + 1, 8 * (j - 1) + z)
        BY <1>1, <3>1, <4>2, LastBeat
      <4>4. to(j) = m
        BY <2>2, <3>4
      <4>. HIDE DEF s, to
      <4>. QED BY <3>1, <4>2, <4>3, <4>4, Zenon
    <3>5. s[j] = SubSeq(raw, 8 * (j - 1) + 1, to(j))
      <4>1. j < words \/ j = words
        BY <2>2
      <4>. QED BY <3>3, <3>4, <4>1, Zenon
    <3>6. SubSeq(raw, 8 * (j - 1) + 1, to(j)) \in Seq(Byte)
      <4>1. PICK from \in Nat, end \in Nat : from = 8 * (j - 1) /\ end = to(j)
        <5>1. 8 * (j - 1) \in Nat /\ to(j) \in Nat
          OBVIOUS
        <5>. HIDE DEF to
        <5>. QED BY <5>1
      <4>2. end \in from .. Len(raw)
        <5>1. 8 * (j - 1) <= 8 * (words - 1) /\ 8 * (j - 1) <= 8 * j
          BY <2>2
        <5>2. from <= m /\ from <= 8 * j /\ (end = m \/ (end = 8 * j /\ end <= m))
          BY <2>2, <4>1, <5>1
        <5>. HIDE DEF to
        <5>. QED BY <1>1, <2>1, <4>1, <5>2
      <4>. QED BY <1>1, <4>1, <4>2, PartOf
    <3>. HIDE DEF s, to
    <3>. QED BY <3>5, <3>6
  <2>4. s \in Seq(Seq(Byte)) /\ Len(s) = words
    <3>1. s = [j \in 1 .. words |-> s[j]]
      OBVIOUS
    <3>. HIDE DEF s, to
    <3>2. s \in [1 .. words -> Seq(Byte)]
      BY <2>3, <3>1
    <3>3. PICK S : S = Seq(Byte)
      OBVIOUS
    <3>4. s \in [1 .. words -> S] /\ words \in Nat
      BY <2>2, <3>2, <3>3, Zenon
    <3>5. s \in Seq(S) /\ Len(s) = words
      BY <3>4
    <3>. QED BY <3>3, <3>5, Zenon
  <2>. HIDE DEF s
  <2>5. Cut(s, raw, 8, m)
    <3>1. 8 * (Len(s) - 1) <= m /\ m <= 8 * Len(s)
      BY <2>2, <2>4
    <3>2. \A j \in 1 .. Len(s) : s[j] = SubSeq(raw, 8 * (j - 1) + 1, IF 8 * j > m THEN m ELSE 8 * j)
      BY <2>3, <2>4, Zenon
    <3>. QED BY <3>1, <3>2, Zenon DEF Cut
  <2>6. FlattenSeq(s) = SubSeq(raw, 1, m)
    <3>1. 8 \in Nat /\ m \in 0 .. Len(raw) /\ Len(s) > 0
      BY <1>1, <2>1, <2>2, <2>4
    <3>. QED BY <1>1, <2>4, <2>5, <3>1, CutFlattened
  <2>7. Bytes(k, Kept(n)) = SubSeq(Bytes(k, n), 1, Kept(n))
    BY KeptBytes, Zenon
  <2>8. Taken(raw, order) = FlattenSeq(s)
    BY Zenon DEF Taken, s
  <2>. QED BY <2>1, <2>6, <2>7, <2>8, Zenon
<1>. QED BY <1>3, <1>4

---------------------------------------------------------------------------
\* Units.

\* The messages of a list of numbers and lengths, one part each.
Parts(l) == [n \in DOMAIN l |-> Bytes(l[n][1], l[n][2])]
Messages == FlattenSeq(Parts(loaded))

UnitInv ==
    /\ calls \in Nat
    /\ loaded \in Seq(Nat \X Nat)
    /\ _data = IF headed THEN Header(Len(Messages)) \o Messages ELSE Messages
    /\ pc = "load" => ~headed
    /\ pc \in {"read", "fed"} => bus = _data

LEMMA PartsOf ==
    ASSUME NEW l \in Seq(Nat \X Nat)
    PROVE  /\ Parts(l) \in Seq(Seq(Byte)) /\ Len(Parts(l)) = Len(l)
           /\ FlattenSeq(Parts(l)) \in Seq(Byte)
<1>1. ASSUME NEW n \in 1 .. Len(l) PROVE Bytes(l[n][1], l[n][2]) \in Seq(Byte)
  <2>1. l[n][1] \in Nat /\ l[n][2] \in Nat
    OBVIOUS
  <2>. QED BY <2>1, BytesOf, Zenon
<1>2. Parts(l) = [n \in 1 .. Len(l) |-> Bytes(l[n][1], l[n][2])]
  BY DEF Parts
<1>3. PICK S : S = Seq(Byte)
  OBVIOUS
<1>4. Parts(l) \in [1 .. Len(l) -> S]
  BY <1>1, <1>2, <1>3, Zenon
<1>5. Parts(l) \in Seq(S) /\ Len(Parts(l)) = Len(l)
  BY <1>4
<1>6. Parts(l) \in Seq(Seq(Byte)) /\ Len(Parts(l)) = Len(l)
  BY <1>3, <1>5, Zenon
<1>. QED BY <1>6, Flattened, Zenon

\* A message more at the end, and one more in front.
AddedBehind(l, k, n, q) == q = Append(l, <<k, n>>)
AddedInFront(l, k, n, q) == q = <<<<k, n>>>> \o l

LEMMA MessageBehind ==
    ASSUME NEW l \in Seq(Nat \X Nat), NEW k \in Nat, NEW n \in Nat, NEW q, AddedBehind(l, k, n, q)
    PROVE  q \in Seq(Nat \X Nat) /\ FlattenSeq(Parts(q)) = FlattenSeq(Parts(l)) \o Bytes(k, n)
<1>1. q \in Seq(Nat \X Nat) /\ Len(q) = Len(l) + 1 /\ q[Len(q)] = <<k, n>>
      /\ \A i \in 1 .. Len(l) : q[i] = l[i]
  BY DEF AddedBehind
<1>2. PICK s, t : s = Parts(l) /\ t = Parts(q)
  OBVIOUS
<1>3. s \in Seq(Seq(Byte)) /\ t \in Seq(Seq(Byte)) /\ Len(s) = Len(l) /\ Len(t) = Len(l) + 1
  BY <1>1, <1>2, PartsOf
<1>4. \A i \in 1 .. Len(s) : t[i] = s[i]
  BY <1>1, <1>2, <1>3 DEF Parts
<1>5. PICK x : x = Bytes(k, n)
  OBVIOUS
<1>6. t[Len(t)] = x
  BY <1>1, <1>2, <1>3, <1>5 DEF Parts
<1>7. x \in Seq(Byte)
  BY <1>5, BytesOf
<1>8. FlattenSeq(t) = FlattenSeq(s) \o x
  <2>1. Len(t) = Len(s) + 1
    BY <1>3
  <2>2. OneBehind(s, x, t)
    BY <1>4, <1>6, <2>1, Zenon DEF OneBehind
  <2>. QED BY <1>3, <1>7, <2>2, FlattenAppend
<1>. QED BY <1>1, <1>2, <1>5, <1>8

LEMMA MessageInFront ==
    ASSUME NEW l \in Seq(Nat \X Nat), NEW k \in Nat, NEW n \in Nat, NEW q, AddedInFront(l, k, n, q)
    PROVE  q \in Seq(Nat \X Nat) /\ FlattenSeq(Parts(q)) = Bytes(k, n) \o FlattenSeq(Parts(l))
<1>1. q \in Seq(Nat \X Nat) /\ Len(q) = Len(l) + 1 /\ q[1] = <<k, n>>
      /\ \A i \in 1 .. Len(l) : q[i+1] = l[i]
  BY DEF AddedInFront
<1>2. PICK s, t : s = Parts(l) /\ t = Parts(q)
  OBVIOUS
<1>3. s \in Seq(Seq(Byte)) /\ t \in Seq(Seq(Byte)) /\ Len(s) = Len(l) /\ Len(t) = Len(l) + 1
  BY <1>1, <1>2, PartsOf
<1>4. \A i \in 1 .. Len(s) : t[i+1] = s[i]
  BY <1>1, <1>2, <1>3 DEF Parts
<1>5. PICK x : x = Bytes(k, n)
  OBVIOUS
<1>6. t[1] = x
  BY <1>1, <1>2, <1>3, <1>5 DEF Parts
<1>7. x \in Seq(Byte)
  BY <1>5, BytesOf
<1>8. FlattenSeq(t) = x \o FlattenSeq(s)
  <2>1. Len(t) = Len(s) + 1
    BY <1>3
  <2>. QED BY <1>3, <1>4, <1>6, <1>7, <2>1, FlattenPrepend, Zenon
<1>. QED BY <1>1, <1>2, <1>5, <1>8

\* A header counts itself and what it stands in front of.
LEMMA HeaderOf ==
    ASSUME NEW m \in Nat
    PROVE  /\ Header(m) \in Seq(Byte) /\ Len(Header(m)) = HEADER
           /\ Header(m)[1][2] + 256 * Header(m)[2][2] = HEADER + m
<1>1. PICK lo \in Nat, hi \in Nat : lo = (8 + m) % 256 /\ hi = (8 + m) \div 256 /\ lo + 256 * hi = 8 + m
  OBVIOUS
<1>2. PICK u : u = <<<<0, lo>>, <<0, hi>>>>
  OBVIOUS
<1>3. u \in Seq(Byte) /\ Len(u) = 2 /\ u[1] = <<0, lo>> /\ u[2] = <<0, hi>>
  BY <1>2 DEF Byte
<1>4. PICK v : v = [n \in 1 .. 6 |-> <<0, n>>]
  OBVIOUS
<1>5. v \in Seq(Byte) /\ Len(v) = 6
  <2>1. v \in [1 .. 6 -> Byte]
    BY <1>4 DEF Byte
  <2>2. PICK n \in Nat : n = 6
    OBVIOUS
  <2>3. v \in [1 .. n -> Byte]
    BY <2>1, <2>2
  <2>4. v \in Seq(Byte) /\ Len(v) = n
    BY <2>3
  <2>. QED BY <2>2, <2>4
<1>6. Header(m) = u \o v
  BY <1>1, <1>2, <1>4 DEF Header, HEADER
<1>7. PICK w : w = u \o v
  OBVIOUS
<1>8. w \in Seq(Byte) /\ Len(w) = 8 /\ w[1] = <<0, lo>> /\ w[2] = <<0, hi>>
  <2>1. /\ u \o v \in Seq(Byte) /\ Len(u \o v) = Len(u) + Len(v)
        /\ \A a \in 1 .. Len(u) : (u \o v)[a] = u[a]
    <3>. PICK S : S = Byte
      OBVIOUS
    <3>1. u \in Seq(S) /\ v \in Seq(S)
      BY <1>3, <1>5
    <3>2. /\ u \o v \in Seq(S) /\ Len(u \o v) = Len(u) + Len(v)
          /\ \A a \in 1 .. Len(u) : (u \o v)[a] = u[a]
      BY <3>1, Joined
    <3>. QED BY <3>2
  <2>2. w \in Seq(Byte) /\ Len(w) = 8
    BY <1>3, <1>5, <1>7, <2>1
  <2>3. 1 \in 1 .. Len(u) /\ 2 \in 1 .. Len(u)
    BY <1>3
  <2>4. w[1] = u[1] /\ w[2] = u[2]
    BY <1>7, <2>1, <2>3, Zenon
  <2>. QED BY <1>3, <2>2, <2>4
<1>. QED BY <1>1, <1>6, <1>7, <1>8 DEF HEADER

LEMMA UnitTyped ==
    ASSUME UnitInv
    PROVE  Messages \in Seq(Byte) /\ _data \in Seq(Byte)
<1>1. Messages \in Seq(Byte)
  BY PartsOf DEF UnitInv, Messages
<1>2. PICK m \in Seq(Byte) : m = Messages
  BY <1>1
<1>3. Header(Len(m)) \in Seq(Byte)
  <2>1. Len(m) \in Nat
    OBVIOUS
  <2>. QED BY <2>1, HeaderOf
<1>4. Header(Len(m)) \o m \in Seq(Byte)
  BY <1>3
<1>. QED BY <1>1, <1>2, <1>4 DEF UnitInv

\* A message added: with the numbers and lengths, the bytes.
LEMMA LoadKeeps ==
    ASSUME UnitInv, NEW n \in Nat, pc = "load", calls' = calls + 1, UNCHANGED <<pc, headed, bus>>,
           \/ _data' = _data \o Bytes(calls', n) /\ loaded' = Append(loaded, <<calls', n>>)
           \/ _data' = Bytes(calls', n) \o _data /\ loaded' = <<<<calls', n>>>> \o loaded
           \/ UNCHANGED <<_data, loaded>>
    PROVE  UnitInv'
<1>1. calls' \in Nat /\ ~headed /\ ~headed' /\ _data = Messages /\ pc' = "load"
  BY DEF UnitInv
<1>2. CASE _data' = _data \o Bytes(calls', n) /\ loaded' = Append(loaded, <<calls', n>>)
  <2>1. loaded' \in Seq(Nat \X Nat) /\ Messages' = Messages \o Bytes(calls', n)
    <3>1. PICK q, l, k : q = loaded' /\ l = loaded /\ k = calls'
      OBVIOUS
    <3>2. l \in Seq(Nat \X Nat) /\ k \in Nat /\ AddedBehind(l, k, n, q)
      BY <1>1, <1>2, <3>1, Zenon DEF UnitInv, AddedBehind
    <3>3. q \in Seq(Nat \X Nat) /\ FlattenSeq(Parts(q)) = FlattenSeq(Parts(l)) \o Bytes(k, n)
      BY <3>2, MessageBehind
    <3>. QED BY <3>1, <3>3, Zenon DEF Messages
  <2>. QED BY <1>1, <1>2, <2>1 DEF UnitInv
<1>3. CASE _data' = Bytes(calls', n) \o _data /\ loaded' = <<<<calls', n>>>> \o loaded
  <2>1. loaded' \in Seq(Nat \X Nat) /\ Messages' = Bytes(calls', n) \o Messages
    <3>1. PICK q, l, k : q = loaded' /\ l = loaded /\ k = calls'
      OBVIOUS
    <3>2. l \in Seq(Nat \X Nat) /\ k \in Nat /\ AddedInFront(l, k, n, q)
      BY <1>1, <1>3, <3>1, Zenon DEF UnitInv, AddedInFront
    <3>3. q \in Seq(Nat \X Nat) /\ FlattenSeq(Parts(q)) = Bytes(k, n) \o FlattenSeq(Parts(l))
      BY <3>2, MessageInFront
    <3>. QED BY <3>1, <3>3, Zenon DEF Messages
  <2>. QED BY <1>1, <1>3, <2>1 DEF UnitInv
<1>4. CASE UNCHANGED <<_data, loaded>>
  BY <1>1, <1>4 DEF UnitInv, Messages
<1>. QED BY <1>2, <1>3, <1>4

LEMMA WrapperKeeps ==
    ASSUME UnitInv, NEW n \in Nat, NEW prepend \in BOOLEAN, Wrapper(n, prepend)
    PROVE  UnitInv'
<1>1. pc = "load" /\ calls' = calls + 1 /\ UNCHANGED <<pc, headed, bus>>
  BY DEF Wrapper
<1>2. \/ _data' = _data \o Bytes(calls', n) /\ loaded' = Append(loaded, <<calls', n>>)
      \/ _data' = Bytes(calls', n) \o _data /\ loaded' = <<<<calls', n>>>> \o loaded
      \/ UNCHANGED <<_data, loaded>>
  BY DEF Wrapper, append_list, prepend_list
<1>. QED BY <1>1, <1>2, LoadKeeps

LEMMA UnitInvInit == Init => UnitInv
<1>. SUFFICES ASSUME Init PROVE UnitInv
  OBVIOUS
<1>1. loaded = <<>> /\ loaded \in Seq(Nat \X Nat) /\ Len(loaded) = 0
  BY DEF Init
<1>2. Messages = <<>>
  BY <1>1, PartsOf, Flattened DEF Messages
<1>. QED BY <1>1, <1>2 DEF Init, UnitInv

LEMMA UnitInvStep == UnitInv /\ [Next]_vars => UnitInv'
<1>. SUFFICES ASSUME UnitInv, [Next]_vars PROVE UnitInv'
  OBVIOUS
<1>1. CASE Load
  <2>1. CASE AppendValue
    <3>1. Bytes(calls', 1) = <<<<calls', 1>>>>
      BY DEF Bytes
    <3>2. Append(_data, <<calls', 1>>) = _data \o Bytes(calls', 1)
      <4>1. _data \in Seq(Byte) /\ calls' \in Nat
        BY <2>1, UnitTyped DEF AppendValue, UnitInv
      <4>2. <<calls', 1>> \in Byte
        BY <4>1 DEF Byte
      <4>. QED BY <3>1, <4>1, <4>2, AppendIsConcat
    <3>3. /\ pc = "load" /\ calls' = calls + 1 /\ UNCHANGED <<pc, headed, bus>>
          /\ _data' = _data \o Bytes(calls', 1) /\ loaded' = Append(loaded, <<calls', 1>>)
      BY <2>1, <3>2 DEF AppendValue, append
    <3>. QED BY <3>3, LoadKeeps
  <2>2. ASSUME NEW prepend \in BOOLEAN, NEW n \in Nat, Wrapper(n, prepend) PROVE UnitInv'
    BY <2>2, WrapperKeeps
  <2>3. CASE \E prepend \in BOOLEAN, n \in Nat : Wrapper(n, prepend)
    BY <2>2, <2>3
  <2>4. Load => AppendValue \/ \E prepend \in BOOLEAN, n \in Nat : Wrapper(n, prepend)
    BY DEF Load, get_time, get_add_order_long, get_add_order_short, get_add_order_expanded,
           get_order_executed, get_order_executed_at_price_size, get_reduce_size_long,
           get_reduce_size_short, get_modify_order_long, get_modify_order_short, get_delete_order,
           get_trade_long, get_trade_short, get_trade_expanded
  <2>. QED BY <1>1, <2>1, <2>3, <2>4
<1>2. CASE get_seq_unit_hdr
  <2>1. UNCHANGED <<calls, loaded>> /\ pc = "load" /\ pc' = "built" /\ ~headed /\ _data = Messages
        /\ Messages' = Messages
    BY <1>2 DEF get_seq_unit_hdr, UnitInv, Messages
  <2>2. CASE _data' = Header(Len(_data)) \o _data /\ headed' = TRUE
    BY <2>1, <2>2 DEF UnitInv
  <2>3. CASE UNCHANGED <<_data, headed>>
    BY <2>1, <2>3 DEF UnitInv
  <2>. QED BY <1>2, <2>2, <2>3 DEF get_seq_unit_hdr
<1>3. CASE ReadUnit
  <2>1. UNCHANGED unit /\ pc' = "read" /\ bus' = _data
    BY <1>3, UnitTyped, UnitOnBus DEF ReadUnit
  <2>. QED BY <2>1 DEF unit, UnitInv, Messages
<1>8. CASE FeedUnit
  <2>1. UNCHANGED unit /\ ((pc' = "fed" /\ Len(_data) = 14) \/ pc' = "reported")
    BY <1>8 DEF FeedUnit
  <2>2. CASE pc' = "fed" /\ Len(_data) = 14
    <3>1. bus' = _data
      BY <1>8, <2>2, UnitTyped, TwoWords DEF FeedUnit
    <3>. QED BY <2>1, <2>2, <3>1 DEF unit, UnitInv, Messages
  <2>. QED BY <2>1, <2>2 DEF unit, UnitInv, Messages
<1>4. CASE NewList
  <2>1. loaded' = <<>> /\ loaded' \in Seq(Nat \X Nat) /\ Len(loaded') = 0
    BY <1>4 DEF NewList
  <2>2. Messages' = <<>>
    BY <2>1, PartsOf, Flattened DEF Messages
  <2>. QED BY <1>4, <2>1, <2>2 DEF NewList, UnitInv
<1>5. ASSUME NEW file \in Captures \cup {Unreadable, Missing}, OpenPcap(file) PROVE UnitInv'
  BY <1>5 DEF OpenPcap, unit, UnitInv, Messages
<1>6. CASE FeedFrame
  BY <1>6 DEF FeedFrame, unit, UnitInv, Messages
<1>7. CASE UNCHANGED vars
  BY <1>7 DEF vars, unit, UnitInv, Messages
<1>. QED BY <1>1, <1>2, <1>3, <1>4, <1>5, <1>6, <1>7, <1>8 DEF Next

LEMMA UnitInvFed == UnitInv => UnitFed
<1>. SUFFICES ASSUME UnitInv, pc \in {"read", "fed"}
              PROVE  /\ SubSeq(bus, Len(bus) - Len(Messages) + 1, Len(bus)) = Messages
                     /\ IF headed
                        THEN Len(bus) = HEADER + Len(Messages) /\ bus[1][2] + 256 * bus[2][2] = Len(bus)
                        ELSE Len(bus) = Len(Messages)
  BY DEF UnitFed, Messages, Parts
<1>1. PICK m \in Seq(Byte), l \in Nat : m = Messages /\ l = Len(m)
  <2>1. Messages \in Seq(Byte) /\ Len(Messages) \in Nat
    BY UnitTyped
  <2>. QED BY <2>1
<1>2. CASE ~headed
  <2>1. bus = m
    BY <1>1, <1>2 DEF UnitInv
  <2>2. SubSeq(m, l - l + 1, l) = m
    <3>1. l - l + 1 = 1
      OBVIOUS
    <3>. QED BY <1>1, <3>1, SubSeqFull
  <2>. QED BY <1>1, <1>2, <2>1, <2>2
<1>3. CASE headed
  <2>1. PICK h \in Seq(Byte) : h = Header(l) /\ Len(h) = 8 /\ h[1][2] + 256 * h[2][2] = 8 + l
    BY HeaderOf DEF HEADER
  <2>2. PICK b \in Seq(Byte) : b = h \o m /\ b = bus
    <3>1. bus = h \o m
      BY <1>1, <1>3, <2>1, Zenon DEF UnitInv
    <3>2. h \o m \in Seq(Byte)
      BY Joined, Zenon
    <3>. QED BY <3>1, <3>2, Zenon
  <2>3. Len(b) = 8 + l /\ b[1] = h[1] /\ b[2] = h[2]
    <3>1. Len(h \o m) = Len(h) + Len(m) /\ \A a \in 1 .. Len(h) : (h \o m)[a] = h[a]
      BY Joined, Zenon
    <3>2. 1 \in 1 .. Len(h) /\ 2 \in 1 .. Len(h)
      BY <2>1
    <3>3. b[1] = h[1] /\ b[2] = h[2]
      <4>1. \A a \in 1 .. Len(h) : b[a] = h[a]
        BY <2>2, <3>1, Zenon
      <4>2. b[1] = h[1]
        BY <3>2, <4>1, Zenon
      <4>3. b[2] = h[2]
        BY <3>2, <4>1, Zenon
      <4>. QED BY <4>2, <4>3
    <3>4. Len(b) = 8 + l
      BY <1>1, <2>1, <2>2, <3>1
    <3>. QED BY <3>3, <3>4
  <2>4. SubSeq(b, Len(b) - l + 1, Len(b)) = m
    <3>1. CASE l = 0
      <4>1. m = <<>>
        BY <1>1, <3>1, EmptySeq
      <4>2. SubSeq(b, 9, 8) = <<>>
        BY SubSeqEmpty
      <4>. QED BY <2>3, <3>1, <4>1, <4>2
    <3>2. CASE l > 0
      <4>1. SubSeq(h \o m, 9, 8 + l) = SubSeq(m, 9 - 8, (8 + l) - 8)
        <5>1. 9 \in Len(h) + 1 .. Len(h) + Len(m) /\ 8 + l \in Len(h) + 1 .. Len(h) + Len(m)
          BY <1>1, <2>1, <3>2
        <5>2. SubSeq(h \o m, 9, 8 + l) = SubSeq(m, 9 - Len(h), (8 + l) - Len(h))
          BY <5>1, SubSeqOfConcat2
        <5>. QED BY <2>1, <5>2
      <4>2. SubSeq(m, 1, l) = m
        BY <1>1, SubSeqFull
      <4>3. 9 - 8 = 1 /\ (8 + l) - 8 = l /\ (8 + l) - l + 1 = 9
        OBVIOUS
      <4>. QED BY <2>2, <2>3, <4>1, <4>2, <4>3
    <3>. QED BY <3>1, <3>2
  <2>. QED BY <1>1, <1>3, <2>1, <2>2, <2>3, <2>4 DEF HEADER
<1>. QED BY <1>2, <1>3

\* Whoever reads a unit word by word gets exactly the messages that were loaded,
\* in order, behind a header that counts the bytes there are; and so does the
\* parser in Test #4 unless the bench reports the unit.
THEOREM UnitFedWhole == Spec => []UnitFed
<1>. QED BY UnitInvInit, UnitInvStep, UnitInvFed, PTL DEF Spec

---------------------------------------------------------------------------
\* Captures.

\* What is due of the first n frames, one part each.
FrameParts(p, n) == [k \in 1 .. n |-> Bytes(k, Kept(p[k])) \o <<LAST>>]

ReplayInv ==
    /\ byteorder \in {0, 1}
    /\ pc = "open" => bus = <<>> /\ frame = 0
    /\ pc = "replay" => /\ _packets \in Seq(Nat) /\ frame \in 0 .. Len(_packets)
                        /\ bus = FlattenSeq(FrameParts(_packets, frame))

LEMMA FramePartsOf ==
    ASSUME NEW p \in Seq(Nat), NEW n \in 0 .. Len(p)
    PROVE  /\ FrameParts(p, n) \in Seq(Seq(Byte)) /\ Len(FrameParts(p, n)) = n
           /\ \A k \in 1 .. n : FrameParts(p, n)[k] = Bytes(k, Kept(p[k])) \o <<LAST>>
           /\ FlattenSeq(FrameParts(p, n)) \in Seq(Byte)
<1>1. <<LAST>> \in Seq(Byte)
  BY DEF LAST, Byte
<1>2. ASSUME NEW k \in 1 .. n PROVE Bytes(k, Kept(p[k])) \o <<LAST>> \in Seq(Byte)
  <2>1. k \in Nat /\ p[k] \in Nat
    OBVIOUS
  <2>2. Bytes(k, Kept(p[k])) \in Seq(Byte)
    BY <2>1, KeptBytes, Zenon
  <2>. QED BY <1>1, <2>2, Joined, Zenon
<1>3. PICK S : S = Seq(Byte)
  OBVIOUS
<1>4. FrameParts(p, n) \in [1 .. n -> S]
  BY <1>2, <1>3, Zenon DEF FrameParts
<1>5. FrameParts(p, n) \in Seq(S) /\ Len(FrameParts(p, n)) = n
  BY <1>4
<1>6. FrameParts(p, n) \in Seq(Seq(Byte)) /\ Len(FrameParts(p, n)) = n
  BY <1>3, <1>5, Zenon
<1>7. FlattenSeq(FrameParts(p, n)) \in Seq(Byte)
  BY <1>6, Flattened, Zenon
<1>8. \A k \in 1 .. n : FrameParts(p, n)[k] = Bytes(k, Kept(p[k])) \o <<LAST>>
  BY Zenon DEF FrameParts
<1>. QED BY <1>6, <1>7, <1>8, Zenon

LEMMA ReplayInvInit == Init => ReplayInv
BY DEF Init, ReplayInv

LEMMA ReplayInvStep == ReplayInv /\ [Next]_vars => ReplayInv'
<1>. SUFFICES ASSUME ReplayInv, [Next]_vars PROVE ReplayInv'
  OBVIOUS
<1>1. CASE Load
  <2>1. pc = "load" /\ UNCHANGED <<pc, capture, bus>>
    BY <1>1 DEF Load, Wrapper, AppendValue, get_time, get_add_order_long, get_add_order_short, get_add_order_expanded,
           get_order_executed, get_order_executed_at_price_size, get_reduce_size_long,
           get_reduce_size_short, get_modify_order_long, get_modify_order_short, get_delete_order,
           get_trade_long, get_trade_short, get_trade_expanded
  <2>. QED BY <2>1 DEF capture, ReplayInv
<1>2. CASE get_seq_unit_hdr
  BY <1>2 DEF get_seq_unit_hdr, capture, ReplayInv
<1>3. CASE ReadUnit
  BY <1>3 DEF ReadUnit, capture, ReplayInv
<1>8. CASE FeedUnit
  BY <1>8 DEF FeedUnit, capture, ReplayInv
<1>4. CASE NewList
  BY <1>4 DEF NewList, capture, ReplayInv
<1>5. ASSUME NEW file \in Captures \cup {Unreadable, Missing}, OpenPcap(file) PROVE ReplayInv'
  <2>1. pc = "open" /\ bus = <<>> /\ frame = 0 /\ UNCHANGED <<frame, bus>> /\ byteorder' \in {0, 1}
        /\ pc' # "open"
    BY <1>5 DEF OpenPcap, ReplayInv
  <2>2. _packets' \in Seq(Nat)
    <3>1. CASE file \in {Missing, Unreadable}
      BY <1>5, <3>1 DEF OpenPcap
    <3>2. CASE file \notin {Missing, Unreadable}
      BY <1>5, <3>2, CapturesAssumption DEF OpenPcap
    <3>. QED BY <3>1, <3>2
  <2>3. FlattenSeq(FrameParts(_packets', 0)) = <<>>
    <3>1. 0 \in 0 .. Len(_packets')
      BY <2>2
    <3>2. FrameParts(_packets', 0) \in Seq(Seq(Byte)) /\ Len(FrameParts(_packets', 0)) = 0
      BY <2>2, <3>1, FramePartsOf, Zenon
    <3>. QED BY <3>2, Flattened, Zenon
  <2>4. 0 \in 0 .. Len(_packets')
    BY <2>2
  <2>. QED BY <2>1, <2>2, <2>3, <2>4 DEF ReplayInv
<1>6. CASE FeedFrame
  <2>1. /\ pc = "replay" /\ UNCHANGED <<pc, _packets, byteorder>> /\ frame' = frame + 1 /\ frame < Len(_packets)
        /\ _packets \in Seq(Nat) /\ frame \in 0 .. Len(_packets) /\ byteorder \in {0, 1}
        /\ bus = FlattenSeq(FrameParts(_packets, frame))
    BY <1>6 DEF FeedFrame, ReplayInv
  <2>2. PICK k \in Nat \ {0}, n \in Nat : k = frame' /\ n = _packets[k]
    BY <2>1
  <2>3. k = frame + 1 /\ k \in 0 .. Len(_packets) /\ frame \in Nat
    BY <2>1, <2>2
  <2>4. PICK x \in Seq(Byte) : x = Bytes(k, Kept(n))
    BY KeptBytes, Zenon
  <2>5. bus' = bus \o x \o <<LAST>>
    <3>1. PICK raw : raw = Bytes(k, n)
      OBVIOUS
    <3>2. get_frame(frame') = raw
      BY <2>2, <3>1, Zenon DEF get_frame
    <3>3. Taken(raw, byteorder) = x
      BY <2>1, <2>4, <3>1, FrameOnBus
    <3>. QED BY <1>6, <3>2, <3>3, Zenon DEF FeedFrame, Taken
  <2>6. PICK s, t : s = FrameParts(_packets, frame) /\ t = FrameParts(_packets, k)
    OBVIOUS
  <2>7. /\ s \in Seq(Seq(Byte)) /\ Len(s) = frame /\ t \in Seq(Seq(Byte)) /\ Len(t) = k
        /\ \A i \in 1 .. frame : s[i] = Bytes(i, Kept(_packets[i])) \o <<LAST>>
        /\ \A i \in 1 .. k : t[i] = Bytes(i, Kept(_packets[i])) \o <<LAST>>
    BY <2>1, <2>3, <2>6, FramePartsOf, Zenon
  <2>8. PICK y \in Seq(Byte) : y = <<LAST>>
    <3>1. <<LAST>> \in Seq(Byte)
      BY DEF LAST, Byte
    <3>. QED BY <3>1, Zenon
  <2>9. x \o y \in Seq(Byte)
    BY Joined, Zenon
  <2>10. FlattenSeq(t) = FlattenSeq(s) \o (x \o y)
    <3>1. \A i \in 1 .. Len(s) : t[i] = s[i]
      <4>1. ASSUME NEW i \in 1 .. Len(s) PROVE t[i] = s[i]
        <5>1. i \in 1 .. frame /\ i \in 1 .. k
          BY <2>3, <2>7
        <5>. QED BY <2>7, <5>1, Zenon
      <4>. QED BY <4>1, Zenon
    <3>2. Len(t) = Len(s) + 1 /\ k \in 1 .. k
      BY <2>3, <2>7
    <3>3. t[Len(t)] = x \o y
      BY <2>2, <2>4, <2>7, <2>8, <3>2, Zenon
    <3>4. PICK z \in Seq(Byte) : z = x \o y
      BY <2>9, Zenon
    <3>5. OneBehind(s, z, t)
      BY <3>1, <3>2, <3>3, <3>4, Zenon DEF OneBehind
    <3>6. FlattenSeq(t) = FlattenSeq(s) \o z
      BY <2>7, <3>5, FlattenAppend
    <3>. QED BY <3>4, <3>6, Zenon
  <2>11. FlattenSeq(s) \in Seq(Byte)
    BY <2>7, Flattened, Zenon
  <2>12. Associative(FlattenSeq(s), x, y)
    BY <2>11, Associates, Zenon
  <2>13. bus' = FlattenSeq(t)
    BY <2>1, <2>5, <2>6, <2>8, <2>10, <2>12, Zenon DEF Associative
  <2>. QED BY <2>1, <2>2, <2>3, <2>6, <2>13 DEF ReplayInv
<1>7. CASE UNCHANGED vars
  BY <1>7 DEF vars, capture, ReplayInv
<1>. QED BY <1>1, <1>2, <1>3, <1>4, <1>5, <1>6, <1>7, <1>8 DEF Next

LEMMA ReplayInvFed == ReplayInv => FramesFed
<1>. SUFFICES ASSUME ReplayInv, pc = "replay"
              PROVE  bus = FlattenSeq([k \in 1 .. frame |->
                         Bytes(k, IF _packets[k] % 8 = 0 THEN _packets[k] - 8 ELSE _packets[k]) \o <<LAST>>])
  BY DEF FramesFed
<1>1. bus = FlattenSeq(FrameParts(_packets, frame))
  BY DEF ReplayInv
<1>. QED BY <1>1, Zenon DEF FrameParts, Kept

\* Every frame of a capture reaches the IP byte by byte in either byte order, but
\* for the last word of one that fills it.
THEOREM FramesFedExact == Spec => []FramesFed
<1>. QED BY ReplayInvInit, ReplayInvStep, ReplayInvFed, PTL DEF Spec
============================================================================
