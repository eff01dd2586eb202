--------------------------- MODULE Concatenation ---------------------------
(***************************************************************************)
(* What FlattenSeq returns: proofs by induction over the naturals.  The    *)
(* induction is stated for a set of numbers and rests on their being well  *)
(* founded, so that it has no operator for a parameter.                    *)
(***************************************************************************)
EXTENDS Naturals, Sequences, SequencesExt, SequenceTheorems, WellFoundedInduction, TLAPS

\* A set of naturals has a smallest element: a step back in a list or a buffer
\* cannot go on for ever.
LEMMA SmallestElement ==
    ASSUME NEW T \in SUBSET Nat, T # {}
    PROVE  \E n \in T : \A k \in T : n <= k
<1>. DEFINE R == {ss \in Nat \X Nat : ss[1] < ss[2]}
<1>1. IsWellFoundedOn(R, Nat)
  BY NatLessThanWellFounded DEF OpToRel
<1>. HIDE DEF R
<1>2. PICK n \in T : \A k \in T : ~ (<<k, n>> \in R)
  BY <1>1, WFMin
<1>3. \A k \in T : n <= k
  <2>. TAKE k \in T
  <2>1. <<k, n>> \in R <=> k < n
    BY DEF R
  <2>. QED BY <1>2, <2>1
<1>. QED BY <1>3

\* What holds at the start of a list, and of a place with the one before it,
\* holds everywhere in it.
LEMMA SetInduction ==
    ASSUME NEW T \in SUBSET Nat, 0 \in T, \A n \in T : n + 1 \in T
    PROVE  T = Nat
<1>. SUFFICES ASSUME Nat \ T # {} PROVE FALSE
  OBVIOUS
<1>1. PICK n \in Nat \ T : \A k \in Nat \ T : n <= k
  BY SmallestElement
<1>2. n # 0 /\ n - 1 \in Nat
  BY <1>1
<1>3. n - 1 \in T
  BY <1>1, <1>2
<1>4. (n - 1) + 1 = n
  BY <1>1
<1>. QED BY <1>3, <1>4

---------------------------------------------------------------------------
\* The local definition of FlattenSeq.
Flattens(f, s, n) == f = [k \in 1 .. n |-> IF k = 1 THEN s[k] ELSE f[k-1] \o s[k]]

\* There is a function as it demands.
LEMMA FlattensExists ==
    ASSUME NEW s, NEW n \in Nat
    PROVE  \E f : Flattens(f, s, n)
<1>. DEFINE T == {k \in Nat : \E f : Flattens(f, s, k)}
<1>1. 0 \in T
  <2>1. 1 .. 0 = {}
    OBVIOUS
  <2>2. Flattens([k \in 1 .. 0 |-> 0], s, 0)
    BY <2>1 DEF Flattens
  <2>. QED BY <2>2
<1>2. ASSUME NEW k \in T PROVE k + 1 \in T
  <2>1. PICK f : Flattens(f, s, k)
    OBVIOUS
  <2>. DEFINE g == [i \in 1 .. k + 1 |-> IF i = 1 THEN s[i] ELSE f[i-1] \o s[i]]
  <2>2. ASSUME NEW i \in 1 .. k + 1, i # 1 PROVE g[i-1] = f[i-1]
    <3>1. i - 1 \in 1 .. k /\ i - 1 \in 1 .. k + 1
      BY <2>2
    <3>2. f[i-1] = IF i - 1 = 1 THEN s[i-1] ELSE f[i-1-1] \o s[i-1]
      BY <2>1, <3>1 DEF Flattens
    <3>3. g[i-1] = IF i - 1 = 1 THEN s[i-1] ELSE f[i-1-1] \o s[i-1]
      BY <3>1
    <3>. QED BY <3>2, <3>3
  <2>3. Flattens(g, s, k + 1)
    BY <2>2 DEF Flattens
  <2>. QED BY <2>3
<1>3. T = Nat
  <2>1. (\A k \in T : k + 1 \in T) /\ T \in SUBSET Nat
    BY <1>2
  <2>. HIDE DEF T
  <2>. QED BY <1>1, <2>1, SetInduction
<1>. QED BY <1>3

LEMMA Joined ==
    ASSUME NEW S, NEW u \in Seq(S), NEW v \in Seq(S)
    PROVE  /\ u \o v \in Seq(S) /\ Len(u \o v) = Len(u) + Len(v) /\ Len(u) \in Nat /\ Len(v) \in Nat
           /\ \A a \in 1 .. Len(u) : (u \o v)[a] = u[a]
           /\ \A a \in 1 .. Len(v) : (u \o v)[Len(u) + a] = v[a]
OBVIOUS

\* The first k parts of s end where at says, and f[k] is what they make.
Fits(f, at, s, S, k) ==
    /\ f[k] \in Seq(S) /\ at[k] \in Nat
    /\ \A j \in 1 .. k :
          /\ at[j-1] \in Nat /\ at[j] \in Nat /\ at[j] = at[j-1] + Len(s[j]) /\ at[j] <= at[k]
          /\ \A a \in 1 .. Len(s[j]) : f[k][at[j-1] + a] = s[j][a]

LEMMA FitsFirst ==
    ASSUME NEW S, NEW s \in Seq(Seq(S)), Len(s) > 0, NEW f, NEW at, at[0] = 0, at[1] = Len(f[1]), f[1] = s[1]
    PROVE  Fits(f, at, s, S, 1)
<1>1. s[1] \in Seq(S) /\ Len(s[1]) \in Nat
  OBVIOUS
<1>2. \A j \in 1 .. 1 : j = 1 /\ j - 1 = 0
  OBVIOUS
<1>3. \A a \in 1 .. Len(s[1]) : 0 + a = a
  BY <1>1
<1>. QED BY <1>1, <1>2, <1>3 DEF Fits

LEMMA FitsNext ==
    ASSUME NEW S, NEW s, NEW f, NEW at, NEW k \in Nat, Fits(f, at, s, S, k),
           \A j \in 1 .. k + 1 : Len(s[j]) \in Nat,
           f[k+1] \in Seq(S), at[k+1] = at[k] + Len(s[k+1]),
           \A a \in 1 .. at[k] : f[k+1][a] = f[k][a],
           \A a \in 1 .. Len(s[k+1]) : f[k+1][at[k] + a] = s[k+1][a]
    PROVE  Fits(f, at, s, S, k + 1)
<1>1. at[k] \in Nat /\ at[k+1] \in Nat /\ at[k] <= at[k+1]
  BY DEF Fits
<1>2. ASSUME NEW j \in 1 .. k + 1
      PROVE  /\ at[j-1] \in Nat /\ at[j] \in Nat /\ at[j] = at[j-1] + Len(s[j]) /\ at[j] <= at[k+1]
             /\ \A a \in 1 .. Len(s[j]) : f[k+1][at[j-1] + a] = s[j][a]
  <2>1. CASE j = k + 1
    <3>1. j - 1 = k
      BY <2>1
    <3>2. at[j-1] = at[k] /\ at[j] = at[k+1] /\ s[j] = s[k+1] /\ at[k+1] <= at[k+1]
      BY <1>1, <2>1, <3>1
    <3>. QED BY <1>1, <3>2, Zenon
  <2>2. CASE j \in 1 .. k
    <3>1. /\ at[j-1] \in Nat /\ at[j] \in Nat /\ at[j] = at[j-1] + Len(s[j]) /\ at[j] <= at[k]
          /\ \A a \in 1 .. Len(s[j]) : f[k][at[j-1] + a] = s[j][a]
      BY <2>2 DEF Fits
    <3>2. ASSUME NEW a \in 1 .. Len(s[j]) PROVE f[k+1][at[j-1] + a] = s[j][a]
      <4>1. Len(s[j]) \in Nat
        BY <2>2
      <4>2. at[j-1] + a \in 1 .. at[k]
        <5>1. PICK p \in Nat, q \in Nat, len \in Nat, last \in Nat :
                 p = at[j-1] /\ q = at[j] /\ len = Len(s[j]) /\ last = at[k]
          BY <1>1, <3>1, <4>1, Zenon
        <5>2. q = p + len /\ q <= last /\ a \in 1 .. len
          BY <3>1, <5>1, Zenon
        <5>3. p + a \in 1 .. last
          BY <5>2
        <5>. QED BY <5>1, <5>3, Zenon
      <4>. QED BY <3>1, <4>2, Zenon
    <3>3. at[j] <= at[k+1]
      BY <1>1, <3>1
    <3>. QED BY <3>1, <3>2, <3>3, Zenon
  <2>. QED BY <2>1, <2>2
<1>. QED BY <1>1, <1>2 DEF Fits

\* Part k of s ends at[k] places into b.
PartAt(at, s, b, k) ==
    /\ at[k] = at[k-1] + Len(s[k]) /\ at[k] <= at[Len(s)]
    /\ \A a \in 1 .. Len(s[k]) : b[at[k-1] + a] = s[k][a]
LaidOut(at, s, b) == \A k \in 1 .. Len(s) : PartAt(at, s, b, k)

\* Where the parts of a concatenation are.
LEMMA Concatenated ==
    ASSUME NEW S, NEW s \in Seq(Seq(S))
    PROVE  \E at \in [Nat -> Nat] :
              /\ at[0] = 0 /\ LaidOut(at, s, FlattenSeq(s))
              /\ FlattenSeq(s) \in Seq(S) /\ Len(FlattenSeq(s)) = at[Len(s)]
<1>. PICK N \in Nat : N = Len(s)
  OBVIOUS
<1>1. CASE N = 0
  <2>1. s = <<>>
    BY <1>1, EmptySeq
  <2>2. FlattenSeq(s) = s
    BY <1>1 DEF FlattenSeq
  <2>. DEFINE at == [k \in Nat |-> 0]
  <2>3. at \in [Nat -> Nat] /\ at[0] = 0 /\ at[N] = 0
    OBVIOUS
  <2>4. FlattenSeq(s) = <<>> /\ <<>> \in Seq(S) /\ Len(<<>>) = 0
    BY <2>1, <2>2
  <2>5. 1 .. Len(s) = {}
    BY <1>1
  <2>. HIDE DEF at
  <2>. QED BY <2>3, <2>4, <2>5 DEF LaidOut
<1>2. CASE N > 0
  <2>1. PICK f : Flattens(f, s, N) /\ FlattenSeq(s) = f[N]
    <3>. DEFINE fl == CHOOSE f : Flattens(f, s, N)
    <3>1. Flattens(fl, s, N)
      BY FlattensExists
    <3>2. FlattenSeq(s) = fl[N]
      BY <1>2 DEF FlattenSeq, Flattens
    <3>. QED BY <3>1, <3>2
  <2>2. \A k \in 1 .. N : f[k] = IF k = 1 THEN s[k] ELSE f[k-1] \o s[k]
    BY <2>1 DEF Flattens
  <2>3. PICK at : at = [k \in Nat |-> IF k \in 1 .. N THEN Len(f[k]) ELSE 0]
    OBVIOUS
  <2>4. at[0] = 0 /\ \A k \in 1 .. N : at[k] = Len(f[k])
    BY <2>3
  <2>. DEFINE T == {k \in Nat : k \in 1 .. N => Fits(f, at, s, S, k)}
  <2>5. ASSUME NEW k \in T, k + 1 \in 1 .. N PROVE Fits(f, at, s, S, k + 1)
    <3>1. CASE k = 0
      <4>1. at[1] = Len(f[1]) /\ f[1] = s[1]
        BY <1>2, <2>2, <2>4
      <4>2. Fits(f, at, s, S, 1)
        BY <1>2, <2>4, <4>1, FitsFirst
      <4>. QED BY <3>1, <4>2
    <3>2. CASE k \in 1 .. N
      <4>1. Fits(f, at, s, S, k)
        BY <3>2
      <4>2. at[k] = Len(f[k]) /\ at[k+1] = Len(f[k+1]) /\ f[k] \in Seq(S)
        BY <2>4, <2>5, <3>2, <4>1 DEF Fits
      <4>3. f[k+1] = f[k] \o s[k+1]
        <5>1. k + 1 # 1 /\ (k + 1) - 1 = k
          BY <3>2
        <5>. QED BY <2>2, <2>5, <5>1
      <4>4. s[k+1] \in Seq(S) /\ \A j \in 1 .. k + 1 : Len(s[j]) \in Nat
        BY <2>5
      <4>5. PICK u \in Seq(S), v \in Seq(S) : u = f[k] /\ v = s[k+1]
        BY <4>2, <4>4
      <4>6. f[k+1] = u \o v /\ at[k] = Len(u) /\ at[k+1] = Len(u \o v)
        BY <4>2, <4>3, <4>5
      <4>7. /\ f[k+1] \in Seq(S) /\ at[k+1] = at[k] + Len(s[k+1])
            /\ \A a \in 1 .. at[k] : f[k+1][a] = f[k][a]
            /\ \A a \in 1 .. Len(s[k+1]) : f[k+1][at[k] + a] = s[k+1][a]
        <5>1. /\ u \o v \in Seq(S) /\ Len(u \o v) = Len(u) + Len(v)
              /\ \A a \in 1 .. Len(u) : (u \o v)[a] = u[a]
              /\ \A a \in 1 .. Len(v) : (u \o v)[Len(u) + a] = v[a]
          BY Joined
        <5>. QED BY <4>5, <4>6, <5>1, Zenon
      <4>8. k \in Nat
        OBVIOUS
      <4>. HIDE DEF T
      <4>. QED BY <4>1, <4>4, <4>7, <4>8, FitsNext
    <3>. QED BY <2>5, <3>1, <3>2
  <2>6. T = Nat
    <3>1. T \in SUBSET Nat /\ 0 \in T
      OBVIOUS
    <3>2. ASSUME NEW k \in T PROVE k + 1 \in T
      BY <2>5
    <3>. HIDE DEF T
    <3>. QED BY <3>1, <3>2, SetInduction
  <2>7. Fits(f, at, s, S, N)
    <3>1. N \in T
      BY <2>6
    <3>. QED BY <1>2, <3>1
  <2>8. at \in [Nat -> Nat] /\ Len(f[N]) = at[N]
    <3>1. \A k \in 1 .. N : at[k] \in Nat
      BY <2>7 DEF Fits
    <3>. QED BY <1>2, <2>3, <2>4, <3>1
  <2>. HIDE DEF T
  <2>9. LaidOut(at, s, f[N])
    BY <2>7 DEF Fits, LaidOut, PartAt
  <2>. QED BY <2>1, <2>4, <2>7, <2>8, <2>9 DEF Fits
<1>3. N = 0 \/ N > 0
  OBVIOUS
<1>. QED BY <1>1, <1>2, <1>3, Zenon
\* The same behind a header h.
LEMMA ShiftedPart ==
    ASSUME NEW L \in Nat, NEW last \in Nat, NEW before \in Nat, NEW after \in Nat, NEW len \in Nat,
           after = before + len, after <= last, NEW w, NEW b, NEW part,
           \A a \in 1 .. len : w[before + a] = part[a],
           \A a \in 1 .. last : b[L + a] = w[a]
    PROVE  /\ L + after = (L + before) + len /\ L + after <= L + last
           /\ \A a \in 1 .. len : b[(L + before) + a] = part[a]
<1>1. ASSUME NEW a \in 1 .. len PROVE b[(L + before) + a] = part[a]
  <2>1. before + a \in 1 .. last /\ L + (before + a) = (L + before) + a
    OBVIOUS
  <2>. QED BY <2>1
<1>. QED BY <1>1

\* w is in b, behind L others.
Behind(b, L, w, n) == \A a \in 1 .. n : b[L + a] = w[a]

LaidBehind(L, N, f, s, w, b) ==
    /\ f[0] = 0 /\ N = Len(s) /\ LaidOut(f, s, w)
    /\ \A k \in 1 .. N : Len(s[k]) \in Nat
    /\ Behind(b, L, w, f[N])
LaidFrom(at, L, N, f, s, b) == at[0] = L /\ at[N] = L + f[N] /\ LaidOut(at, s, b)

LEMMA Shifted ==
    ASSUME NEW L \in Nat, NEW N \in Nat, NEW f \in [Nat -> Nat], NEW s, NEW w, NEW b
    PROVE  LaidBehind(L, N, f, s, w, b) => \E at \in [Nat -> Nat] : LaidFrom(at, L, N, f, s, b)
<1>0. SUFFICES ASSUME f[0] = 0, N = Len(s), LaidOut(f, s, w), \A k \in 1 .. N : Len(s[k]) \in Nat,
                      Behind(b, L, w, f[N])
               PROVE  \E at \in [Nat -> Nat] : at[0] = L /\ at[N] = L + f[N] /\ LaidOut(at, s, b)
  BY DEF LaidBehind, LaidFrom
<1>1. PICK at : at = [k \in Nat |-> L + f[k]]
  OBVIOUS
<1>2. at \in [Nat -> Nat] /\ at[N] = L + f[N] /\ at[0] = L + f[0]
  BY <1>1
<1>3. at[0] = L
  BY <1>0, <1>2
<1>4. ASSUME NEW k \in 1 .. N PROVE PartAt(at, s, b, k)
  <2>1. /\ f[k] \in Nat /\ f[k-1] \in Nat /\ f[N] \in Nat /\ at[k] = L + f[k] /\ at[k-1] = L + f[k-1]
    BY <1>1
  <2>2. PartAt(f, s, w, k) /\ Len(s[k]) \in Nat
    BY <1>0 DEF LaidOut
  <2>3. /\ f[k] = f[k-1] + Len(s[k]) /\ f[k] <= f[N]
        /\ \A a \in 1 .. Len(s[k]) : w[f[k-1] + a] = s[k][a]
    BY <1>0, <2>2 DEF PartAt
  <2>4. /\ L + f[k] = (L + f[k-1]) + Len(s[k]) /\ L + f[k] <= L + f[N]
        /\ \A a \in 1 .. Len(s[k]) : b[(L + f[k-1]) + a] = s[k][a]
    <3>1. PICK before \in Nat, after \in Nat, last \in Nat : before = f[k-1] /\ after = f[k] /\ last = f[N]
      BY <2>1, Zenon
    <3>20. PICK part : part = s[k]
      OBVIOUS
    <3>2. PICK len \in Nat : len = Len(s[k]) /\ part = s[k]
      BY <2>2, <3>20, Zenon
    <3>3. /\ after = before + len /\ after <= last
          /\ \A a \in 1 .. len : w[before + a] = part[a]
          /\ \A a \in 1 .. last : b[L + a] = w[a]
      BY <1>0, <2>3, <3>1, <3>2, Zenon DEF Behind
    <3>4. /\ L + after = (L + before) + len /\ L + after <= L + last
          /\ \A a \in 1 .. len : b[(L + before) + a] = part[a]
      BY <3>3, ShiftedPart
    <3>. QED BY <3>1, <3>2, <3>4, Zenon
  <2>. QED BY <1>0, <1>2, <2>1, <2>4, Zenon DEF PartAt
<1>. QED BY <1>0, <1>2, <1>3, <1>4 DEF LaidOut

\* b is h, and behind it the parts of s.
Composed(at, h, s, b, S) ==
    /\ at[0] = Len(h) /\ b \in Seq(S) /\ Len(b) = at[Len(s)] /\ LaidOut(at, s, b)
    /\ \A a \in 1 .. Len(h) : b[a] = h[a]

LEMMA ConcatenatedBehind ==
    ASSUME NEW S, NEW h, NEW s
    PROVE  h \in Seq(S) /\ s \in Seq(Seq(S))
           => \E at \in [Nat -> Nat] : Composed(at, h, s, h \o FlattenSeq(s), S)
<1>. SUFFICES ASSUME h \in Seq(S), s \in Seq(Seq(S))
              PROVE  \E at \in [Nat -> Nat] : Composed(at, h, s, h \o FlattenSeq(s), S)
  OBVIOUS
<1>1. PICK f \in [Nat -> Nat] :
         /\ f[0] = 0 /\ LaidOut(f, s, FlattenSeq(s))
         /\ FlattenSeq(s) \in Seq(S) /\ Len(FlattenSeq(s)) = f[Len(s)]
  BY Concatenated
<1>2. PICK v \in Seq(S) : v = FlattenSeq(s)
  BY <1>1
<1>3. LaidOut(f, s, v) /\ Len(v) = f[Len(s)]
  BY <1>1, <1>2
<1>4. /\ h \o v \in Seq(S) /\ Len(h \o v) = Len(h) + Len(v)
      /\ \A a \in 1 .. Len(h) : (h \o v)[a] = h[a]
      /\ \A a \in 1 .. Len(v) : (h \o v)[Len(h) + a] = v[a]
  BY Joined
<1>5. Len(h) \in Nat /\ Len(s) \in Nat
  BY LenProperties, Zenon
<1>6. \A k \in 1 .. Len(s) : Len(s[k]) \in Nat
  <2>1. ASSUME NEW k \in 1 .. Len(s) PROVE Len(s[k]) \in Nat
    <3>1. s[k] \in Seq(S)
      BY ElementOfSeq, Zenon
    <3>. QED BY <3>1, LenProperties, Zenon
  <2>. QED BY <2>1
<1>7. PICK at \in [Nat -> Nat] :
         at[0] = Len(h) /\ at[Len(s)] = Len(h) + f[Len(s)] /\ LaidOut(at, s, h \o v)
  <2>10. PICK b : b = h \o v
    OBVIOUS
  <2>1. PICK L \in Nat, N \in Nat : L = Len(h) /\ N = Len(s) /\ b = h \o v
    BY <1>5, <2>10
  <2>2. /\ f[0] = 0 /\ N = Len(s) /\ LaidOut(f, s, v)
        /\ \A k \in 1 .. N : Len(s[k]) \in Nat
        /\ Behind(b, L, v, f[N])
    BY <1>1, <1>3, <1>4, <1>6, <2>1, Zenon DEF Behind
  <2>3. L \in Nat /\ N \in Nat /\ f \in [Nat -> Nat]
    OBVIOUS
  <2>4. \E at \in [Nat -> Nat] : at[0] = L /\ at[N] = L + f[N] /\ LaidOut(at, s, b)
    <3>1. LaidBehind(L, N, f, s, v, b)
      BY <2>2, Zenon DEF LaidBehind
    <3>2. \E at \in [Nat -> Nat] : LaidFrom(at, L, N, f, s, b)
      BY <2>3, <3>1, Shifted, Zenon
    <3>. QED BY <3>2, Zenon DEF LaidFrom
  <2>. QED BY <2>1, <2>4, Zenon
<1>. QED BY <1>2, <1>3, <1>4, <1>7, Zenon DEF Composed

---------------------------------------------------------------------------
\* FlattenSeq as a loop makes it: part by part.
LEMMA MadeByParts ==
    ASSUME NEW s, NEW n \in Nat \ {0}, Len(s) = n, NEW g,
           g[1] = s[1], \A k \in 1 .. n - 1 : g[k+1] = g[k] \o s[k+1]
    PROVE  FlattenSeq(s) = g[n]
<1>. DEFINE f == CHOOSE f : Flattens(f, s, n)
<1>1. Flattens(f, s, n)
  BY FlattensExists
<1>2. FlattenSeq(s) = f[n]
  BY DEF FlattenSeq, Flattens
<1>. HIDE DEF f
<1>3. f[1] = s[1] /\ \A k \in 1 .. n - 1 : f[k+1] = f[k] \o s[k+1]
  <2>1. \A k \in 1 .. n : f[k] = IF k = 1 THEN s[k] ELSE f[k-1] \o s[k]
    BY <1>1 DEF Flattens
  <2>2. ASSUME NEW k \in 1 .. n - 1 PROVE f[k+1] = f[k] \o s[k+1]
    <3>1. k + 1 \in 1 .. n /\ k + 1 # 1 /\ (k + 1) - 1 = k
      OBVIOUS
    <3>. QED BY <2>1, <3>1
  <2>3. f[1] = s[1]
    BY <2>1
  <2>. QED BY <2>2, <2>3, Zenon
<1>. DEFINE T == {k \in Nat : k \in 1 .. n => f[k] = g[k]}
<1>4. 0 \in T
  OBVIOUS
<1>5. ASSUME NEW k \in T PROVE k + 1 \in T
  <2>. SUFFICES ASSUME k + 1 \in 1 .. n PROVE f[k+1] = g[k+1]
    OBVIOUS
  <2>1. CASE k = 0
    BY <1>3, <2>1
  <2>2. CASE k \in 1 .. n - 1
    <3>1. f[k+1] = f[k] \o s[k+1] /\ g[k+1] = g[k] \o s[k+1]
      BY <1>3, <2>2, Zenon
    <3>2. k \in 1 .. n
      BY <2>2
    <3>. QED BY <3>1, <3>2
  <2>. QED BY <2>1, <2>2
<1>6. T = Nat
  <2>. HIDE DEF T
  <2>1. T \in SUBSET Nat
    BY DEF T
  <2>. QED BY <1>4, <1>5, <2>1, SetInduction
<1>7. f[n] = g[n]
  BY <1>6
<1>. QED BY <1>2, <1>7

\* What the loop has made after each part.
LEMMA Partials ==
    ASSUME NEW S, NEW s \in Seq(Seq(S)), Len(s) > 0
    PROVE  \E f : /\ f[1] = s[1] /\ \A k \in 1 .. Len(s) - 1 : f[k+1] = f[k] \o s[k+1]
                  /\ \A k \in 1 .. Len(s) : f[k] \in Seq(S)
                  /\ f[Len(s)] = FlattenSeq(s)
<1>. PICK n \in Nat \ {0} : n = Len(s)
  OBVIOUS
<1>1. PICK f : Flattens(f, s, n)
  BY FlattensExists
<1>2. f[1] = s[1] /\ \A k \in 1 .. n - 1 : f[k+1] = f[k] \o s[k+1]
  <2>1. \A k \in 1 .. n : f[k] = IF k = 1 THEN s[k] ELSE f[k-1] \o s[k]
    BY <1>1 DEF Flattens
  <2>2. ASSUME NEW k \in 1 .. n - 1 PROVE f[k+1] = f[k] \o s[k+1]
    <3>1. k + 1 \in 1 .. n /\ k + 1 # 1 /\ (k + 1) - 1 = k
      OBVIOUS
    <3>. QED BY <2>1, <3>1
  <2>3. f[1] = s[1]
    BY <2>1
  <2>. QED BY <2>2, <2>3, Zenon
<1>3. FlattenSeq(s) = f[n]
  BY <1>2, MadeByParts
<1>4. \A k \in 1 .. n : s[k] \in Seq(S)
  BY ElementOfSeq
<1>. DEFINE T == {k \in Nat : k \in 1 .. n => f[k] \in Seq(S)}
<1>5. 0 \in T
  OBVIOUS
<1>6. ASSUME NEW k \in T PROVE k + 1 \in T
  <2>. SUFFICES ASSUME k + 1 \in 1 .. n PROVE f[k+1] \in Seq(S)
    OBVIOUS
  <2>1. CASE k = 0
    BY <1>2, <1>4, <2>1
  <2>2. CASE k \in 1 .. n - 1
    <3>0. k \in 1 .. n /\ k + 1 \in 1 .. n
      BY <2>2
    <3>1. f[k] \in Seq(S) /\ s[k+1] \in Seq(S) /\ f[k+1] = f[k] \o s[k+1]
      BY <1>2, <1>4, <2>2, <3>0, Zenon
    <3>. QED BY <3>1, ConcatProperties
  <2>. QED BY <2>1, <2>2
<1>7. T = Nat
  <2>. HIDE DEF T
  <2>1. T \in SUBSET Nat
    BY DEF T
  <2>. QED BY <1>5, <1>6, <2>1, SetInduction
<1>8. ASSUME NEW k \in 1 .. n PROVE f[k] \in Seq(S)
  <2>1. k \in Nat
    OBVIOUS
  <2>2. k \in T
    <3>. HIDE DEF T
    <3>. QED BY <1>7, <2>1
  <2>. QED BY <2>2
<1>. HIDE DEF T
<1>. QED BY <1>2, <1>3, <1>8

LEMMA Flattened ==
    ASSUME NEW S, NEW s \in Seq(Seq(S))
    PROVE  FlattenSeq(s) \in Seq(S) /\ (Len(s) = 0 => FlattenSeq(s) = <<>>)
<1>1. CASE Len(s) = 0
  <2>1. s = <<>>
    BY <1>1, EmptySeq
  <2>. QED BY <1>1, <2>1, EmptySeq DEF FlattenSeq
<1>2. CASE Len(s) > 0
  <2>1. Len(s) \in 1 .. Len(s) /\ Len(s) # 0
    BY <1>2
  <2>2. FlattenSeq(s) \in Seq(S)
    BY <1>2, <2>1, Partials, Zenon
  <2>. QED BY <2>1, <2>2
<1>3. Len(s) \in Nat
  OBVIOUS
<1>. QED BY <1>1, <1>2, <1>3

\* A part more at the end.
OneBehind(s, x, t) == Len(t) = Len(s) + 1 /\ t[Len(t)] = x /\ \A k \in 1 .. Len(s) : t[k] = s[k]

LEMMA FlattenAppend ==
    ASSUME NEW S, NEW s \in Seq(Seq(S)), NEW x \in Seq(S), NEW t \in Seq(Seq(S)), OneBehind(s, x, t)
    PROVE  FlattenSeq(t) = FlattenSeq(s) \o x
<1>0. Len(t) = Len(s) + 1 /\ t[Len(t)] = x /\ \A k \in 1 .. Len(s) : t[k] = s[k]
  BY DEF OneBehind
<1>. USE <1>0
<1>. PICK n \in Nat : n = Len(s)
  OBVIOUS
<1>1. CASE n = 0
  <2>1. FlattenSeq(s) = <<>>
    BY <1>1, Flattened
  <2>2. FlattenSeq(t) = x
    <3>. DEFINE g == [k \in {1} |-> x]
    <3>1. g[1] = t[1] /\ \A k \in 1 .. 1 - 1 : g[k+1] = g[k] \o t[k+1]
      BY <1>1
    <3>2. Len(t) = 1 /\ 1 \in Nat \ {0} /\ g[1] = x
      BY <1>1
    <3>. HIDE DEF g
    <3>. QED BY <3>1, <3>2, MadeByParts
  <2>. QED BY <2>1, <2>2, ConcatEmptySeq
<1>2. CASE n > 0
  <2>1. PICK f : /\ f[1] = s[1] /\ \A k \in 1 .. n - 1 : f[k+1] = f[k] \o s[k+1]
                 /\ f[n] = FlattenSeq(s)
    BY <1>2, Partials
  <2>. DEFINE g == [k \in 1 .. n + 1 |-> IF k = n + 1 THEN f[n] \o x ELSE f[k]]
  <2>2. g[1] = t[1]
    <3>1. 1 \in 1 .. n /\ 1 \in 1 .. n + 1 /\ 1 # n + 1
      BY <1>2
    <3>2. t[1] = s[1] /\ g[1] = f[1]
      BY <3>1
    <3>. HIDE DEF g
    <3>. QED BY <2>1, <3>2
  <2>3. ASSUME NEW k \in 1 .. (n + 1) - 1 PROVE g[k+1] = g[k] \o t[k+1]
    <3>1. CASE k = n
      <4>1. g[n+1] = f[n] \o x /\ g[n] = f[n] /\ t[n+1] = x
        <5>1. n + 1 \in 1 .. n + 1 /\ n \in 1 .. n + 1 /\ n # n + 1
          BY <1>2
        <5>. QED BY <5>1
      <4>. HIDE DEF g
      <4>. QED BY <3>1, <4>1
    <3>2. CASE k \in 1 .. n - 1
      <4>1. g[k+1] = f[k+1] /\ g[k] = f[k] /\ t[k+1] = s[k+1]
        <5>1. k + 1 \in 1 .. n /\ k + 1 \in 1 .. n + 1 /\ k \in 1 .. n + 1 /\ k # n + 1 /\ k + 1 # n + 1
          BY <3>2
        <5>. QED BY <5>1
      <4>2. f[k+1] = f[k] \o s[k+1]
        BY <2>1, <3>2, Zenon
      <4>. HIDE DEF g
      <4>. QED BY <4>1, <4>2
    <3>3. k = n \/ k \in 1 .. n - 1
      OBVIOUS
    <3>. HIDE DEF g
    <3>. QED BY <3>1, <3>2, <3>3, Zenon
  <2>4. g[n+1] = FlattenSeq(s) \o x /\ n + 1 \in Nat \ {0} /\ Len(t) = n + 1
    BY <2>1
  <2>. HIDE DEF g
  <2>5. PICK m \in Nat \ {0} : m = n + 1
    BY <2>4
  <2>6. Len(t) = m /\ \A k \in 1 .. m - 1 : g[k+1] = g[k] \o t[k+1]
    BY <2>3, <2>4, <2>5, Zenon
  <2>7. FlattenSeq(t) = g[m]
    BY <2>2, <2>6, MadeByParts
  <2>. QED BY <2>4, <2>5, <2>7, Zenon
<1>. QED BY <1>1, <1>2

Associative(u, v, w) == (u \o v) \o w = u \o (v \o w)

LEMMA Associates ==
    ASSUME NEW S, NEW u \in Seq(S), NEW v \in Seq(S), NEW w \in Seq(S)
    PROVE  Associative(u, v, w)
BY DEF Associative

\* A part more in front.
LEMMA FlattenPrepend ==
    ASSUME NEW S, NEW s \in Seq(Seq(S)), NEW x \in Seq(S), NEW t \in Seq(Seq(S)),
           Len(t) = Len(s) + 1, \A k \in 1 .. Len(s) : t[k+1] = s[k], t[1] = x
    PROVE  FlattenSeq(t) = x \o FlattenSeq(s)
<1>. PICK n \in Nat : n = Len(s)
  OBVIOUS
<1>1. CASE n = 0
  <2>1. FlattenSeq(s) = <<>>
    BY <1>1, Flattened
  <2>2. FlattenSeq(t) = x
    <3>. DEFINE g == [k \in {1} |-> x]
    <3>1. g[1] = t[1] /\ \A k \in 1 .. 1 - 1 : g[k+1] = g[k] \o t[k+1]
      BY <1>1
    <3>2. Len(t) = 1 /\ 1 \in Nat \ {0} /\ g[1] = x
      BY <1>1
    <3>. HIDE DEF g
    <3>. QED BY <3>1, <3>2, MadeByParts
  <2>. QED BY <2>1, <2>2, ConcatEmptySeq
<1>2. CASE n > 0
  <2>1. PICK f : /\ f[1] = s[1] /\ \A k \in 1 .. n - 1 : f[k+1] = f[k] \o s[k+1]
                 /\ \A k \in 1 .. n : f[k] \in Seq(S)
                 /\ f[n] = FlattenSeq(s)
    BY <1>2, Partials
  <2>. DEFINE g == [k \in 1 .. n + 1 |-> IF k = 1 THEN x ELSE x \o f[k-1]]
  <2>2. g[1] = t[1]
    BY <1>2
  <2>3. ASSUME NEW k \in 1 .. (n + 1) - 1 PROVE g[k+1] = g[k] \o t[k+1]
    <3>1. g[k+1] = x \o f[k] /\ t[k+1] = s[k]
      <4>1. k \in 1 .. n /\ k + 1 \in 1 .. n + 1 /\ k + 1 # 1 /\ (k + 1) - 1 = k
        OBVIOUS
      <4>. QED BY <4>1
    <3>2. CASE k = 1
      <4>1. f[k] = s[k] /\ g[k] = x
        BY <2>1, <3>2
      <4>. HIDE DEF g
      <4>. QED BY <3>1, <4>1
    <3>3. CASE k \in 2 .. n
      <4>1. PICK j \in 1 .. n - 1 : k = j + 1
        <5>1. k - 1 \in 1 .. n - 1
          BY <3>3
        <5>2. k = (k - 1) + 1
          OBVIOUS
        <5>. HIDE DEF g
        <5>. QED BY <5>1, <5>2
      <4>2. g[k] = x \o f[j]
        <5>1. j + 1 \in 1 .. n + 1 /\ j + 1 # 1 /\ (j + 1) - 1 = j
          OBVIOUS
        <5>2. g[j+1] = x \o f[j]
          BY <5>1
        <5>. HIDE DEF g
        <5>. QED BY <4>1, <5>2
      <4>3. f[k] = f[j] \o s[k] /\ f[j] \in Seq(S) /\ s[k] \in Seq(S)
        <5>1. f[j+1] = f[j] \o s[j+1]
          BY <2>1, Zenon
        <5>2. j \in 1 .. n /\ k \in 1 .. Len(s)
          OBVIOUS
        <5>3. f[j] \in Seq(S)
          BY <2>1, <5>2, Zenon
        <5>4. s[k] \in Seq(S)
          BY <5>2, ElementOfSeq, Zenon
        <5>. HIDE DEF g
        <5>. QED BY <4>1, <5>1, <5>3, <5>4
      <4>4. g[k] \o s[k] = x \o f[k]
        <5>. HIDE DEF g
        <5>1. x \in Seq(S) /\ f[j] \in Seq(S) /\ s[k] \in Seq(S) /\ g[k] = x \o f[j] /\ f[k] = f[j] \o s[k]
          BY <4>2, <4>3
        <5>2. Associative(x, f[j], s[k])
          BY <5>1, Associates, Zenon
        <5>. QED BY <5>1, <5>2, Zenon DEF Associative
      <4>. HIDE DEF g
      <4>. QED BY <3>1, <4>4
    <3>4. k = 1 \/ k \in 2 .. n
      OBVIOUS
    <3>. HIDE DEF g
    <3>. QED BY <3>2, <3>3, <3>4, Zenon
  <2>4. g[n+1] = x \o FlattenSeq(s) /\ n + 1 \in Nat \ {0} /\ Len(t) = n + 1
    <3>1. n + 1 \in 1 .. n + 1 /\ n + 1 # 1 /\ (n + 1) - 1 = n
      BY <1>2
    <3>2. g[n+1] = x \o f[n]
      BY <3>1
    <3>. HIDE DEF g
    <3>. QED BY <2>1, <3>2
  <2>. HIDE DEF g
  <2>5. PICK m \in Nat \ {0} : m = n + 1
    BY <2>4
  <2>6. Len(t) = m /\ \A k \in 1 .. m - 1 : g[k+1] = g[k] \o t[k+1]
    BY <2>3, <2>4, <2>5, Zenon
  <2>7. FlattenSeq(t) = g[m]
    BY <2>2, <2>6, MadeByParts
  <2>. QED BY <2>4, <2>5, <2>7, Zenon
<1>. QED BY <1>1, <1>2

\* A list cut into parts of w places, the last of them ending at m.
Cut(s, list, w, m) ==
    /\ w * (Len(s) - 1) <= m /\ m <= w * Len(s)
    /\ \A k \in 1 .. Len(s) : s[k] = SubSeq(list, w * (k - 1) + 1, IF w * k > m THEN m ELSE w * k)

LEMMA CutFlattened ==
    ASSUME NEW S, NEW list \in Seq(S), NEW s \in Seq(Seq(S)), NEW w \in Nat, NEW m \in 0 .. Len(list),
           Len(s) > 0, Cut(s, list, w, m)
    PROVE  FlattenSeq(s) = SubSeq(list, 1, m)
<1>. PICK n \in Nat \ {0} : n = Len(s)
  OBVIOUS
<1>. DEFINE end(k) == IF w * k > m THEN m ELSE w * k
            g == [k \in 1 .. n |-> SubSeq(list, 1, end(k))]
<1>1. g[1] = s[1]
  <2>1. w * (1 - 1) + 1 = 1 /\ 1 \in 1 .. Len(s)
    OBVIOUS
  <2>. QED BY <2>1 DEF Cut
<1>2. ASSUME NEW k \in 1 .. n - 1 PROVE g[k+1] = g[k] \o s[k+1]
  <2>1. w * k \in Nat /\ w * (k + 1) = w * k + w /\ (k + 1) - 1 = k /\ k + 1 \in 1 .. Len(s)
    OBVIOUS
  <2>2. w * k <= w * (n - 1)
    <3>1. k <= n - 1 /\ n - 1 \in Nat
      OBVIOUS
    <3>2. PICK d \in Nat : n - 1 = k + d
      <4>1. n - 1 - k \in Nat /\ n - 1 = k + (n - 1 - k)
        BY <3>1
      <4>. QED BY <4>1
    <3>3. w * (k + d) = w * k + w * d /\ w * d \in Nat
      OBVIOUS
    <3>4. w * (n - 1) = w * k + w * d
      BY <3>2, <3>3, Zenon
    <3>. QED BY <2>1, <3>3, <3>4
  <2>3. w * k <= m
    BY <2>1, <2>2 DEF Cut
  <2>4. end(k) = w * k /\ end(k + 1) \in w * k .. Len(list)
    BY <2>1, <2>3
  <2>5. s[k+1] = SubSeq(list, w * k + 1, end(k + 1))
    BY <2>1 DEF Cut
  <2>6. g[k] = SubSeq(list, 1, w * k) /\ g[k+1] = SubSeq(list, 1, end(k + 1))
    BY <2>4
  <2>7. SubSeq(list, 1, w * k) \o SubSeq(list, w * k + 1, end(k + 1)) = SubSeq(list, 1, end(k + 1))
    <3>. HIDE DEF end
    <3>0. w * k \in Nat /\ end(k + 1) \in Nat
      <4>1. PICK a \in Nat : a = w * k
        BY <2>1, Zenon
      <4>2. end(k + 1) \in a .. Len(list)
        BY <2>4, <4>1, Zenon
      <4>. QED BY <2>1, <4>2
    <3>1. PICK a \in Nat, b \in Nat : a = w * k /\ b = end(k + 1)
      BY <3>0, Zenon
    <3>2. 1 \in 1 .. Len(list) + 1 /\ a \in 1 - 1 .. Len(list) /\ b \in a .. Len(list)
      BY <2>1, <2>3, <2>4, <3>1
    <3>. QED BY <3>1, <3>2, ConcatAdjacentSubSeq
  <2>. QED BY <2>5, <2>6, <2>7
<1>3. g[n] = SubSeq(list, 1, m)
  BY DEF Cut
<1>. HIDE DEF g
<1>. QED BY <1>1, <1>2, <1>3, MadeByParts
============================================================================
