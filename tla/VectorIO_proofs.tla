-------------------------- MODULE VectorIO_proofs --------------------------
(***************************************************************************)
(* The read and write loops, for every set of vectors and any amount of    *)
(* bytes, however the system cuts the calls into pieces.                   *)
(***************************************************************************)
EXTENDS VectorIO, SequenceTheorems, FiniteSetTheorems, WellFoundedInduction, TLAPS

-----------------------------------------------------------------------------
(***************************************************************************)
(* Sums of lengths.                                                        *)
(***************************************************************************)
LEMMA HasLeast ==
  ASSUME NEW S \in SUBSET Nat, S # {}
  PROVE  \E x \in S : \A y \in S : x <= y
<1>1. PICK x \in S : \A y \in S : ~ (<<y, x>> \in OpToRel(<, Nat))
  BY WFMin, NatLessThanWellFounded
<1>2. \A y \in S : ~ (y < x)
  BY <1>1 DEF OpToRel
<1> QED BY <1>2

\* The recursion defines a function.
LEMMA SumsDefined ==
  ASSUME NEW lens \in Seq(Nat)
  PROVE  /\ Len(lens) \in Nat
         /\ Sums(lens) \in [0 .. Len(lens) -> Nat]
         /\ Sums(lens)[0] = 0
         /\ \A i \in 1 .. Len(lens) : Sums(lens)[i] = Sums(lens)[i - 1] + lens[i]
<1> DEFINE N == Len(lens)
           Step(g, i) == IF i = 0 THEN 0 ELSE g[i - 1] + lens[i]
           Up(g, n) == \A i \in 0 .. n : g[i] = Step(g, i)
           Bad == {n \in 0 .. N : ~ \E g \in [0 .. n -> Nat] : Up(g, n)}
           Eq(g) == g = [i \in 0 .. N |-> Step(g, i)]
<1>1. N \in Nat /\ lens \in [1 .. N -> Nat]
  BY LenProperties
<1>2. Bad = {}
  <2> SUFFICES ASSUME Bad # {} PROVE FALSE
    OBVIOUS
  <2>1. Bad \in SUBSET Nat
    BY <1>1
  <2>2. PICK n \in Bad : \A m \in Bad : n <= m
    BY <2>1, HasLeast
  <2>3. n \in 0 .. N /\ n \in Nat
    BY <1>1
  <2>4. CASE n = 0
    <3> DEFINE g == [i \in 0 .. 0 |-> 0]
    <3>1. g \in [0 .. 0 -> Nat] /\ Up(g, 0)
      OBVIOUS
    <3> QED BY <2>2, <2>4, <3>1
  <2>5. CASE n > 0
    <3>1. n - 1 \in 0 .. N /\ n - 1 \notin Bad /\ n \in 1 .. N
      <4>1. n - 1 \in 0 .. N /\ n \in 1 .. N /\ ~ (n <= n - 1)
        BY <1>1, <2>3, <2>5
      <4> HIDE DEF Bad
      <4> QED BY <2>2, <4>1
    <3>2. PICK g \in [0 .. (n - 1) -> Nat] : Up(g, n - 1)
      BY <3>1
    <3> DEFINE h == [i \in 0 .. n |-> IF i = n THEN g[n - 1] + lens[n] ELSE g[i]]
    <3>3. g[n - 1] \in Nat /\ lens[n] \in Nat
      BY <1>1, <2>3, <2>5, <3>1
    <3>4. h \in [0 .. n -> Nat]
      BY <2>3, <3>3
    <3>5. ASSUME NEW i \in 0 .. n PROVE h[i] = Step(h, i)
      <4>1. CASE i = n
        BY <2>3, <2>5, <4>1
      <4>2. CASE i # n
        <5>1. i \in 0 .. (n - 1) /\ h[i] = g[i]
          BY <2>3, <4>2
        <5>2. i # 0 => i - 1 \in 0 .. n /\ i - 1 # n /\ h[i - 1] = g[i - 1]
          BY <2>3, <5>1
        <5> QED BY <3>2, <5>1, <5>2
      <4> QED BY <4>1, <4>2
    <3> HIDE DEF h
    <3>6. Up(h, n)
      BY <3>5
    <3> QED BY <2>2, <3>4, <3>6
  <2> QED BY <2>3, <2>4, <2>5
<1>3. PICK g \in [0 .. N -> Nat] : Up(g, N)
  <2>1. N \in 0 .. N
    BY <1>1
  <2>2. N \notin Bad
    BY <1>2
  <2> QED BY <2>1, <2>2
<1>4. Eq(g)
  BY <1>3
<1>5. Sums(lens) = CHOOSE s : Eq(s)
  BY DEF Sums
<1>6. Eq(Sums(lens))
  BY <1>4, <1>5
\* and only one.
<1>7. Sums(lens) = g
  <2> DEFINE s == Sums(lens)
             Diff == {n \in 0 .. N : s[n] # g[n]}
  <2>1. \A n \in 0 .. N : s[n] = Step(s, n) /\ g[n] = Step(g, n)
    BY <1>3, <1>6
  <2>2. Diff = {}
    <3> SUFFICES ASSUME Diff # {} PROVE FALSE
      OBVIOUS
    <3>1. Diff \in SUBSET Nat
      BY <1>1
    <3>2. PICK n \in Diff : \A m \in Diff : n <= m
      BY <3>1, HasLeast
    <3>3. n \in 0 .. N /\ n \in Nat /\ s[n] # g[n]
      BY <1>1
    <3>4. n # 0
      BY <2>1, <3>3
    <3>5. n - 1 \in 0 .. N /\ ~ (n <= n - 1)
      BY <1>1, <3>3, <3>4
    <3>6. s[n - 1] = g[n - 1]
      BY <3>2, <3>5
    <3> QED BY <2>1, <3>3, <3>4, <3>6
  <2>3. \A n \in 0 .. N : s[n] = g[n]
    BY <2>2
  <2>4. s = [i \in 0 .. N |-> s[i]]
    <3>1. s = [i \in 0 .. N |-> Step(s, i)]
      BY <1>6
    <3> HIDE DEF s, Step
    <3> QED BY <3>1
  <2> HIDE DEF s
  <2> QED BY <2>3, <2>4 DEF s
<1>8. \A i \in 1 .. N : i \in 0 .. N /\ i # 0
  BY <1>1
<1>9. 0 \in 0 .. N
  BY <1>1
<1> QED BY <1>1, <1>3, <1>7, <1>8, <1>9

LEMMA SumsTypes ==
  ASSUME NEW lens \in Seq(Nat)
  PROVE  /\ Total(lens) \in Nat
         /\ \A i \in 0 .. Len(lens) : Sums(lens)[i] \in Nat
         /\ \A i \in 1 .. Len(lens) : lens[i] \in Nat
<1>1. Len(lens) \in Nat /\ Sums(lens) \in [0 .. Len(lens) -> Nat]
  BY SumsDefined
<1>2. \A i \in 1 .. Len(lens) : lens[i] \in Nat
  BY ElementOfSeq
<1>3. Len(lens) \in 0 .. Len(lens)
  BY <1>1
<1> QED BY <1>1, <1>2, <1>3 DEF Total

LEMMA SumsGrow ==
  ASSUME NEW lens \in Seq(Nat), NEW i \in 0 .. Len(lens), NEW j \in 0 .. Len(lens), i <= j
  PROVE  Sums(lens)[i] <= Sums(lens)[j]
<1> DEFINE s == Sums(lens)
           N == Len(lens)
           Bad == {n \in i .. N : ~ (s[i] <= s[n])}
<1>1. /\ N \in Nat /\ \A n \in 0 .. N : s[n] \in Nat
      /\ \A n \in 1 .. N : s[n] = s[n - 1] + lens[n] /\ lens[n] \in Nat
  BY SumsDefined, SumsTypes
<1> HIDE DEF s
<1>2. Bad = {}
  <2> SUFFICES ASSUME Bad # {} PROVE FALSE
    OBVIOUS
  <2>1. Bad \in SUBSET Nat
    BY <1>1
  <2>2. PICK n \in Bad : \A m \in Bad : n <= m
    BY <2>1, HasLeast
  <2>3. n \in i .. N /\ ~ (s[i] <= s[n])
    OBVIOUS
  <2>4. n # i
    BY <1>1, <2>3
  <2>5. n - 1 \in i .. N /\ ~ (n <= n - 1) /\ n \in 1 .. N /\ n - 1 \in 0 .. N
    BY <1>1, <2>3, <2>4
  <2>6. s[i] <= s[n - 1]
    BY <2>2, <2>5
  <2>7. s[n] = s[n - 1] + lens[n] /\ lens[n] \in Nat
    BY <1>1, <2>5
  <2>8. s[i] \in Nat /\ s[n - 1] \in Nat
    BY <1>1, <2>5
  <2>9. s[i] <= s[n]
    BY <2>6, <2>7, <2>8
  <2> QED BY <2>3, <2>9
<1>3. j \in i .. N
  BY <1>1
<1>4. s[i] <= s[j]
  BY <1>2, <1>3
<1> QED BY <1>4 DEF s

\* Two vectors that agree in their last blocks: what differs is what lies before.
LEMMA SumsShifted ==
  ASSUME NEW long \in Seq(Nat), NEW short \in Seq(Nat), NEW m \in Nat, NEW n \in Nat,
         Len(long) = m + Len(short),
         NEW b \in 0 .. Len(short), Sums(short)[b] + n = Sums(long)[m + b],
         \A j \in (b + 1) .. Len(short) : short[j] = long[m + j]
  PROVE  \A j \in b .. Len(short) : Sums(short)[j] + n = Sums(long)[m + j]
<1> DEFINE s == Sums(short)
           l == Sums(long)
           N == Len(short)
           Bad == {j \in b .. N : s[j] + n # l[m + j]}
<1>1. /\ N \in Nat /\ \A j \in 0 .. N : s[j] \in Nat
      /\ \A j \in 1 .. N : s[j] = s[j - 1] + short[j] /\ short[j] \in Nat
  BY SumsDefined, SumsTypes
<1>2. /\ \A j \in 0 .. Len(long) : l[j] \in Nat
      /\ \A j \in 1 .. Len(long) : l[j] = l[j - 1] + long[j] /\ long[j] \in Nat
  BY SumsDefined, SumsTypes
<1>3. s[b] + n = l[m + b]
  OBVIOUS
<1> HIDE DEF s, l
<1>4. Bad = {}
  <2> SUFFICES ASSUME Bad # {} PROVE FALSE
    OBVIOUS
  <2>1. Bad \in SUBSET Nat
    BY <1>1
  <2>2. PICK j \in Bad : \A i \in Bad : j <= i
    BY <2>1, HasLeast
  <2>3. j \in b .. N /\ s[j] + n # l[m + j]
    OBVIOUS
  <2>4. j # b
    BY <1>3, <2>3
  <2>a. b \in Nat /\ j \in Nat /\ b < j /\ j <= N
    BY <1>1, <2>3, <2>4
  <2>5. /\ j - 1 \in b .. N /\ ~ (j <= j - 1) /\ j \in 1 .. N /\ j - 1 \in 0 .. N
        /\ j \in (b + 1) .. N
    BY <1>1, <2>a
  <2>b. Len(long) = m + N
    OBVIOUS
  <2>c. m + j \in 1 .. Len(long) /\ (m + j) - 1 = m + (j - 1)
    BY <1>1, <2>a, <2>b
  <2>6. s[j - 1] + n = l[m + (j - 1)]
    BY <2>2, <2>5
  <2>7. s[j] = s[j - 1] + short[j] /\ short[j] \in Nat /\ s[j - 1] \in Nat
    BY <1>1, <2>5
  <2>d. l[m + j] = l[(m + j) - 1] + long[m + j]
    BY <1>2, <2>c
  <2>8. l[m + j] = l[m + (j - 1)] + short[j]
    BY <2>5, <2>c, <2>d
  <2>9. s[j] + n = l[m + j]
    <3>1. \A x, y, z \in Nat : (x + y) + z = (x + z) + y
      OBVIOUS
    <3>2. (s[j - 1] + short[j]) + n = (s[j - 1] + n) + short[j]
      BY <2>7, <3>1
    <3> HIDE DEF N, Bad
    <3> QED BY <2>6, <2>7, <2>8, <3>2, Zenon
  <2> QED BY <2>3, <2>9
<1>5. \A j \in b .. N : s[j] + n = l[m + j]
  BY <1>4
<1> QED BY <1>5 DEF s, l

LEMMA HoldingFacts ==
  ASSUME NEW lens \in Seq(Nat), NEW n \in 1 .. Total(lens)
  PROVE  /\ Holding(lens, n) \in 1 .. Len(lens)
         /\ Sums(lens)[Holding(lens, n)] >= n
         /\ Sums(lens)[Holding(lens, n) - 1] < n
<1> DEFINE s == Sums(lens)
           N == Len(lens)
           Enough == {i \in 0 .. N : s[i] >= n}
           k == Holding(lens, n)
<1>1. /\ N \in Nat /\ \A i \in 0 .. N : s[i] \in Nat
      /\ s[0] = 0 /\ s[N] \in Nat /\ s[N] >= n /\ n \in Nat /\ n >= 1
  BY SumsDefined, SumsTypes DEF Total
<1>2. k = CHOOSE i \in 0 .. N : s[i] >= n /\ \A j \in 0 .. i - 1 : s[j] < n
  BY DEF Holding
<1> HIDE DEF s, k
<1>3. Enough \in SUBSET Nat /\ Enough # {}
  <2>1. N \in Enough
    BY <1>1
  <2> QED BY <1>1, <2>1
<1>4. PICK i \in Enough : \A j \in Enough : i <= j
  BY <1>3, HasLeast
<1>5. i \in 0 .. N /\ s[i] >= n
  OBVIOUS
<1>6. ASSUME NEW j \in 0 .. i - 1 PROVE s[j] < n
  <2>1. j \in 0 .. N /\ ~ (i <= j)
    BY <1>1, <1>5
  <2>2. j \notin Enough
    BY <1>4, <2>1
  <2> QED BY <1>1, <2>1, <2>2
<1>7. k \in 0 .. N /\ s[k] >= n /\ \A j \in 0 .. k - 1 : s[j] < n
  BY <1>2, <1>5, <1>6
<1>8. k # 0
  BY <1>1, <1>7
<1>9. k \in 1 .. N /\ k - 1 \in 0 .. k - 1
  BY <1>1, <1>7, <1>8
<1>10. s[k - 1] < n
  BY <1>7, <1>9
<1> QED BY <1>7, <1>9, <1>10 DEF s, k

-----------------------------------------------------------------------------
(***************************************************************************)
(* Vectors.  The blocks of a call lie one behind the other in memory order *)
(* of the program, which is what makes position p hold byte p.             *)
(***************************************************************************)
Block == [base : Nat, len : Nat]

Contiguous(iov, from) ==
    \A i \in 1 .. Len(iov) : iov[i].base = from + Sums(Lengths(iov))[i - 1]

LEMMA LengthsFacts ==
  ASSUME NEW iov \in Seq(Block)
  PROVE  /\ Len(iov) \in Nat
         /\ Lengths(iov) \in Seq(Nat) /\ Len(Lengths(iov)) = Len(iov)
         /\ \A i \in 1 .. Len(iov) : /\ Lengths(iov)[i] = iov[i].len
                                     /\ iov[i].len \in Nat /\ iov[i].base \in Nat
<1>1. Len(iov) \in Nat
  BY LenProperties
<1>2. \A i \in 1 .. Len(iov) : iov[i].len \in Nat /\ iov[i].base \in Nat
  <2>1. \A i \in 1 .. Len(iov) : iov[i] \in Block
    BY ElementOfSeq
  <2> QED BY <2>1 DEF Block
<1>3. Lengths(iov) \in [1 .. Len(iov) -> Nat] /\ \A i \in 1 .. Len(iov) : Lengths(iov)[i] = iov[i].len
  BY <1>2 DEF Lengths
<1>4. Lengths(iov) \in Seq(Nat)
  BY <1>1, <1>3, SeqDef
<1>5. Len(Lengths(iov)) = Len(iov)
  BY <1>1, <1>3, <1>4, LenProperties
<1> QED BY <1>1, <1>2, <1>3, <1>4, <1>5

LEMMA LeftType ==
  ASSUME NEW iov \in Seq(Block)
  PROVE  Left(iov) \in Nat
  BY LengthsFacts, SumsTypes DEF Left

LEMMA PositionsFacts ==
  ASSUME NEW iov \in Seq(Block), NEW from \in Nat, Contiguous(iov, from)
  PROVE  Positions(iov) = [n \in 1 .. Left(iov) |-> from + n]
<1> DEFINE lens == Lengths(iov)
<1>1. lens \in Seq(Nat) /\ Len(lens) = Len(iov) /\ Len(iov) \in Nat
  BY LengthsFacts
<1>2. ASSUME NEW n \in 1 .. Left(iov)
      PROVE  iov[Holding(lens, n)].base + n - Sums(lens)[Holding(lens, n) - 1] = from + n
  <2> DEFINE k == Holding(lens, n)
  <2>1. k \in 1 .. Len(iov)
    BY <1>1, HoldingFacts DEF Left
  <2>2. iov[k].base = from + Sums(lens)[k - 1]
    BY <2>1 DEF Contiguous
  <2>3. k - 1 \in 0 .. Len(lens)
    BY <1>1, <2>1
  <2>4. Sums(lens)[k - 1] \in Nat
    BY <1>1, <2>3, SumsTypes
  <2>5. n \in Nat
    BY LeftType
  <2> HIDE DEF k, lens
  <2>6. iov[k].base + n - Sums(lens)[k - 1] = from + n
    BY <2>2, <2>4, <2>5
  <2> QED BY <2>6 DEF k
<1>3. Positions(iov) = [n \in 1 .. Left(iov) |->
                           iov[Holding(lens, n)].base + n - Sums(lens)[Holding(lens, n) - 1]]
  BY DEF Positions
<1> QED BY <1>2, <1>3

\* What a system call that moves n bytes leaves of a vector.
LEMMA AdvanceFacts ==
  ASSUME NEW iov \in Seq(Block), NEW from \in Nat, Contiguous(iov, from),
         NEW n \in 1 .. Left(iov)
  PROVE  LET a == Advance(iov, n)
             m == Len(iov) - Len(a)
         IN  /\ a \in Seq(Block) /\ Len(a) \in Nat /\ m \in Nat
             /\ \A j \in 1 .. Len(a) : Sums(Lengths(a))[j] + n = Sums(Lengths(iov))[m + j]
             /\ Sums(Lengths(iov))[m] <= n
             /\ Left(a) + n = Left(iov)
             /\ Contiguous(a, from + n)
<1> DEFINE lens == Lengths(iov)
           s == Sums(lens)
           N == Len(iov)
           k == Holding(lens, n)
           over == s[k] - n
           rest == SubSeq(iov, k + 1, N)
           a == Advance(iov, n)
           m == N - Len(a)
           t == Sums(Lengths(a))
<1>1. /\ N \in Nat /\ lens \in Seq(Nat) /\ Len(lens) = N
      /\ \A i \in 1 .. N : lens[i] = iov[i].len /\ iov[i].len \in Nat /\ iov[i].base \in Nat
  BY LengthsFacts
<1>2. n \in 1 .. Total(lens) /\ n \in Nat /\ n >= 1
  BY LeftType DEF Left
<1>3. k \in 1 .. N /\ s[k] >= n /\ s[k - 1] < n
  BY <1>1, <1>2, HoldingFacts
<1>4. /\ \A i \in 0 .. N : s[i] \in Nat
      /\ \A i \in 1 .. N : s[i] = s[i - 1] + lens[i]
      /\ s[0] = 0
  BY <1>1, SumsDefined, SumsTypes
<1>5. N \in Nat /\ k \in Nat /\ 1 <= k /\ k <= N /\ k \in 0 .. N /\ k - 1 \in 0 .. N
  BY <1>1, <1>3
<1>6. s[k] \in Nat /\ s[k - 1] \in Nat /\ s[k] = s[k - 1] + iov[k].len /\ over \in Nat
  <2>1. s[k] \in Nat /\ s[k - 1] \in Nat
    BY <1>4, <1>5
  <2>2. s[k] = s[k - 1] + iov[k].len
    BY <1>1, <1>3, <1>4
  <2>3. over \in Nat
    BY <1>2, <1>3, <2>1
  <2> QED BY <2>1, <2>2, <2>3
<1>7. Left(iov) = s[N]
  BY <1>1 DEF Left, Total
<1>8. /\ rest \in Seq(Block) /\ Len(rest) = N - k
      /\ \A j \in 1 .. N - k : rest[j] = iov[k + j]
  <2>1. rest \in Seq(Block)
    BY <1>1, <1>5, SubSeqProperties
  <2>2. Len(rest) = N - k
    BY <1>1, <1>5, SubSeqProperties
  <2>3. \A j \in 1 .. N - (k + 1) + 1 : rest[j] = iov[(k + 1) + j - 1]
    <3>1. k + 1 \in Int /\ N \in Int
      BY <1>5
    <3>2. \A i \in (k + 1) .. N : iov[i] \in Block
      BY <1>5, ElementOfSeq
    <3> QED BY <3>1, <3>2, SubSeqProperties
  <2>4. N - (k + 1) + 1 = N - k /\ \A j \in 1 .. N - k : (k + 1) + j - 1 = k + j
    BY <1>5
  <2> QED BY <2>4, <2>1, <2>2, <2>3
<1>9. a = IF over = 0 THEN rest
          ELSE <<[base |-> iov[k].base + iov[k].len - over, len |-> over]>> \o rest
  BY DEF Advance
<1>10. \A i \in 1 .. N : iov[i].base = from + s[i - 1]
  BY DEF Contiguous
<1> HIDE DEF s, k, lens, a, rest
<1>11. CASE over = 0
  <2>1. a = rest
    BY <1>9, <1>11
  <2>2. a \in Seq(Block) /\ Len(a) = N - k /\ m = k
    BY <1>1, <1>5, <1>8, <2>1
  <2>3. /\ Lengths(a) \in Seq(Nat) /\ Len(Lengths(a)) = N - k
        /\ \A j \in 1 .. N - k : Lengths(a)[j] = a[j].len
    BY <2>2, LengthsFacts
  <2>4. t[0] = 0
    BY <2>3, SumsDefined
  <2>5. s[k] = n
    BY <1>2, <1>6, <1>11
  <2>6. \A j \in 1 .. N - k : Lengths(a)[j] = lens[k + j] /\ a[j].base = iov[k + j].base
    <3> SUFFICES ASSUME NEW j \in 1 .. N - k
                 PROVE  Lengths(a)[j] = lens[k + j] /\ a[j].base = iov[k + j].base
      OBVIOUS
    <3>1. k + j \in 1 .. N
      BY <1>1, <1>5
    <3> QED BY <1>1, <1>8, <2>1, <2>3, <3>1
  <2>7. \A j \in 0 .. N - k : t[j] + n = s[k + j]
    <3>1. N - k \in Nat /\ N = k + (N - k) /\ 0 \in 0 .. (N - k) /\ k + 0 = k
      BY <1>1, <1>5
    <3>2. Sums(Lengths(a))[0] + n = Sums(lens)[k + 0]
      BY <1>2, <2>4, <2>5, <3>1 DEF s
    <3>3. \A j \in (0 + 1) .. Len(Lengths(a)) : Lengths(a)[j] = lens[k + j]
      BY <2>3, <2>6
    <3>4. \A j \in 0 .. Len(Lengths(a)) : Sums(Lengths(a))[j] + n = Sums(lens)[k + j]
      <4>1. Len(lens) = k + Len(Lengths(a)) /\ 0 \in 0 .. Len(Lengths(a))
        BY <1>1, <2>3, <3>1
      <4>2. lens \in Seq(Nat) /\ Lengths(a) \in Seq(Nat) /\ k \in Nat /\ n \in Nat
        BY <1>1, <1>2, <1>5, <2>3
      <4> HIDE DEF t, N
      <4> QED BY <3>2, <3>3, <4>1, <4>2, SumsShifted
    <3> QED BY <2>3, <3>4 DEF s
  <2>8. \A j \in 0 .. N - k : t[j] \in Nat
    BY <2>3, SumsTypes
  <2>9. Left(a) + n = s[N]
    <3>1. N - k \in 0 .. N - k /\ k + (N - k) = N
      BY <1>1, <1>5
    <3>2. Left(a) = t[N - k]
      BY <2>3 DEF Left, Total
    <3> QED BY <2>7, <3>1, <3>2
  <2>10. Contiguous(a, from + n)
    <3> SUFFICES ASSUME NEW j \in 1 .. Len(a)
                 PROVE  a[j].base = (from + n) + t[j - 1]
      BY DEF Contiguous
    <3>1. j \in 1 .. N - k /\ j \in Nat /\ j >= 1
      BY <1>1, <1>5, <2>2
    <3>2. j - 1 \in 0 .. N - k /\ k + j \in 1 .. N /\ (k + j) - 1 = k + (j - 1)
      BY <1>1, <1>5, <3>1
    <3>3. a[j].base = from + s[(k + j) - 1]
      BY <1>10, <2>6, <3>1, <3>2
    <3>4. t[j - 1] + n = s[k + (j - 1)] /\ t[j - 1] \in Nat
      BY <2>7, <2>8, <3>2
    <3>5. a[j].base = from + (t[j - 1] + n)
      BY <3>2, <3>3, <3>4
    <3> QED BY <1>2, <3>4, <3>5
  <2>11. /\ a \in Seq(Block) /\ Len(a) \in Nat /\ m \in Nat
         /\ \A j \in 1 .. Len(a) : t[j] + n = s[m + j]
         /\ s[m] <= n
    <3>1. N - k \in Nat /\ \A j \in 1 .. N - k : j \in 0 .. N - k
      BY <1>1, <1>5
    <3>2. s[m] <= n
      BY <1>2, <2>2, <2>5
    <3> QED BY <1>5, <2>2, <2>7, <3>1, <3>2
  <2> HIDE DEF m, t
  <2> QED BY <1>7, <2>9, <2>10, <2>11 DEF s, lens, a, m, t
<1>12. CASE over # 0
  <2> DEFINE head == [base |-> iov[k].base + iov[k].len - over, len |-> over]
  <2>0. over > 0
    BY <1>6, <1>12
  <2>1. iov[k].base \in Nat /\ iov[k].len \in Nat /\ iov[k].base = from + s[k - 1]
    BY <1>1, <1>3, <1>10
  <2>2. iov[k].base + iov[k].len - over = from + n
    <3> DEFINE B == iov[k].base
               L == iov[k].len
               u == s[k - 1]
               v == s[k]
    <3>1. B = from + u /\ v = u + L /\ over = v - n
      BY <1>6, <2>1
    <3>2. from \in Nat /\ u \in Nat /\ v \in Nat /\ L \in Nat /\ n \in Nat
      BY <1>2, <1>6, <2>1
    <3> HIDE DEF over, head, B, L, u, v
    <3>3. B + L - over = from + n
      BY <3>1, <3>2
    <3> QED BY <3>3 DEF B, L
  <2>3. head \in Block /\ head.base = from + n /\ head.len = over
    <3>1. from + n \in Nat
      BY <1>2
    <3> QED BY <1>6, <2>2, <3>1 DEF Block
  <2> HIDE DEF head
  <2>4. a = <<head>> \o rest
    BY <1>9, <1>12 DEF head
  <2>5. <<head>> \in Seq(Block) /\ Len(<<head>>) = 1 /\ <<head>>[1] = head
    BY <2>3
  <2>6. a \in Seq(Block) /\ Len(a) = 1 + (N - k)
    BY <1>8, <2>4, <2>5, ConcatProperties
  <2>7. a[1] = head /\ \A j \in 2 .. 1 + (N - k) : a[j] = rest[j - 1]
    <3>1. \A j \in 1 .. Len(<<head>>) + Len(rest) :
            a[j] = IF j <= Len(<<head>>) THEN <<head>>[j] ELSE rest[j - Len(<<head>>)]
      BY <1>8, <2>4, <2>5, ConcatProperties
    <3>2. N - k \in Nat
      BY <1>1, <1>5
    <3>3. 1 \in 1 .. 1 + (N - k) /\ \A j \in 2 .. 1 + (N - k) : j \in 1 .. 1 + (N - k) /\ ~ (j <= 1)
      BY <3>2
    <3> QED BY <1>8, <2>5, <3>1, <3>3
  <2>8. m = k - 1
    BY <1>1, <1>5, <2>6
  <2>9. /\ Lengths(a) \in Seq(Nat) /\ Len(Lengths(a)) = 1 + (N - k)
        /\ \A j \in 1 .. 1 + (N - k) : Lengths(a)[j] = a[j].len
    BY <2>6, LengthsFacts
  <2>10. N - k \in Nat /\ 1 \in 1 .. 1 + (N - k)
    BY <1>1, <1>5
  <2>11. t[0] = 0 /\ t[1] = t[0] + Lengths(a)[1]
    <3>1. t[1] = t[1 - 1] + Lengths(a)[1]
      BY <2>9, <2>10, SumsDefined
    <3> QED BY <2>9, <3>1, SumsDefined
  <2>12. t[1] + n = s[k]
    <3>1. t[1] = over
      BY <1>6, <2>3, <2>7, <2>9, <2>10, <2>11
    <3> QED BY <1>2, <1>6, <3>1
  <2>13. \A j \in 2 .. 1 + (N - k) : /\ (k - 1) + j \in 1 .. N
                                    /\ Lengths(a)[j] = lens[(k - 1) + j]
                                    /\ a[j].base = iov[(k - 1) + j].base
    <3> SUFFICES ASSUME NEW j \in 2 .. 1 + (N - k)
                 PROVE  /\ (k - 1) + j \in 1 .. N
                        /\ Lengths(a)[j] = lens[(k - 1) + j]
                        /\ a[j].base = iov[(k - 1) + j].base
      OBVIOUS
    <3>1. /\ (k - 1) + j \in 1 .. N /\ j - 1 \in 1 .. N - k /\ k + (j - 1) = (k - 1) + j
          /\ j \in 1 .. 1 + (N - k)
      BY <1>1, <1>5, <2>10
    <3>2. a[j] = iov[(k - 1) + j]
      BY <1>8, <2>7, <3>1
    <3> QED BY <1>1, <2>9, <3>1, <3>2
  <2>14. \A j \in 1 .. 1 + (N - k) : t[j] + n = s[(k - 1) + j]
    <3>1. /\ k - 1 \in Nat /\ N = (k - 1) + (1 + (N - k)) /\ 1 \in 0 .. 1 + (N - k)
          /\ (k - 1) + 1 = k
      BY <1>1, <1>5
    <3>2. Sums(Lengths(a))[1] + n = Sums(lens)[(k - 1) + 1]
      BY <2>12, <3>1 DEF s
    <3>3. \A j \in (1 + 1) .. Len(Lengths(a)) : Lengths(a)[j] = lens[(k - 1) + j]
      BY <2>9, <2>13
    <3>4. \A j \in 1 .. Len(Lengths(a)) : Sums(Lengths(a))[j] + n = Sums(lens)[(k - 1) + j]
      <4>1. Len(lens) = (k - 1) + Len(Lengths(a)) /\ 1 \in 0 .. Len(Lengths(a))
        BY <1>1, <2>9, <3>1
      <4>2. lens \in Seq(Nat) /\ Lengths(a) \in Seq(Nat) /\ k - 1 \in Nat /\ n \in Nat
        BY <1>1, <1>2, <2>9, <3>1
      <4> HIDE DEF t, N
      <4> QED BY <3>2, <3>3, <4>1, <4>2, SumsShifted
    <3> QED BY <2>9, <3>4 DEF s
  <2>15. \A j \in 0 .. 1 + (N - k) : t[j] \in Nat
    BY <2>9, SumsTypes
  <2>16. Left(a) + n = s[N]
    <3>1. 1 + (N - k) \in 1 .. 1 + (N - k) /\ (k - 1) + (1 + (N - k)) = N
      <4> HIDE DEF N
      <4> QED BY <1>5, <2>10
    <3>2. Left(a) = t[1 + (N - k)]
      BY <2>9 DEF Left, Total
    <3> QED BY <2>14, <3>1, <3>2
  <2>17. Contiguous(a, from + n)
    <3> SUFFICES ASSUME NEW j \in 1 .. Len(a)
                 PROVE  a[j].base = (from + n) + t[j - 1]
      BY DEF Contiguous
    <3>1. j \in 1 .. 1 + (N - k) /\ j \in Nat /\ j >= 1
      BY <2>6, <2>10
    <3>2. CASE j = 1
      <4>1. t[j - 1] = 0
        BY <2>11, <3>2
      <4> QED BY <1>2, <2>3, <2>7, <3>2, <4>1
    <3>3. CASE j # 1
      <4>1. /\ j \in 2 .. 1 + (N - k) /\ j - 1 \in 1 .. 1 + (N - k) /\ j - 1 \in 0 .. 1 + (N - k)
            /\ ((k - 1) + j) - 1 = (k - 1) + (j - 1)
        BY <1>5, <2>10, <3>1, <3>3
      <4>2. a[j].base = from + s[((k - 1) + j) - 1]
        BY <1>10, <2>13, <4>1
      <4>3. t[j - 1] + n = s[(k - 1) + (j - 1)] /\ t[j - 1] \in Nat
        BY <2>14, <2>15, <4>1
      <4>4. a[j].base = from + (t[j - 1] + n)
        BY <4>1, <4>2, <4>3
      <4> QED BY <1>2, <4>3, <4>4
    <3> QED BY <3>2, <3>3
  <2>18. /\ a \in Seq(Block) /\ Len(a) \in Nat /\ m \in Nat
         /\ \A j \in 1 .. Len(a) : t[j] + n = s[m + j]
         /\ s[m] <= n
    <3>1. s[m] <= n /\ m \in Nat
      BY <1>2, <1>3, <1>5, <1>6, <2>8
    <3>2. 1 + (N - k) \in Nat
      BY <2>10
    <3> QED BY <2>6, <2>8, <2>14, <3>1, <3>2
  <2> HIDE DEF m, t
  <2> QED BY <1>7, <2>16, <2>17, <2>18 DEF s, lens, a, m, t
<1> QED BY <1>11, <1>12

\* The vector a call starts with.
LEMMA BlocksFacts ==
  ASSUME NEW lens \in Seq(Nat), NEW from \in Nat
  PROVE  /\ Blocks(lens, from) \in Seq(Block)
         /\ Lengths(Blocks(lens, from)) = lens
         /\ Len(Blocks(lens, from)) = Len(lens)
         /\ Left(Blocks(lens, from)) = Total(lens)
         /\ Contiguous(Blocks(lens, from), from)
<1> DEFINE b == Blocks(lens, from)
           N == Len(lens)
<1>1. N \in Nat /\ lens \in [1 .. N -> Nat]
  BY LenProperties
<1>2. ASSUME NEW i \in 1 .. N PROVE from + Sums(lens)[i - 1] \in Nat /\ lens[i] \in Nat
  <2>1. i - 1 \in 0 .. N
    BY <1>1
  <2>2. Sums(lens)[i - 1] \in Nat
    BY <2>1, SumsTypes
  <2> QED BY <1>1, <2>2
<1>3. b = [i \in 1 .. N |-> [base |-> from + Sums(lens)[i - 1], len |-> lens[i]]]
  BY DEF Blocks
<1>4. b \in [1 .. N -> Block]
  BY <1>2, <1>3 DEF Block
<1>5. b \in Seq(Block)
  BY <1>1, <1>4, SeqDef
<1>6. Len(b) = N
  BY <1>1, <1>4, <1>5, LenProperties
<1>7. Lengths(b) = lens
  <2>1. Lengths(b) = [i \in 1 .. N |-> lens[i]]
    BY <1>3, <1>6 DEF Lengths
  <2> QED BY <1>1, <2>1
<1>8. Contiguous(b, from)
  BY <1>3, <1>6, <1>7 DEF Contiguous
<1> QED BY <1>5, <1>6, <1>7, <1>8 DEF Left

-----------------------------------------------------------------------------
(***************************************************************************)
(* The invariant.  What is left of a call's vector is contiguous and       *)
(* starts where the bytes moved so far end; the blocks that are gone from  *)
(* a writing vector are no longer than the bytes moved (what makes the     *)
(* count of writev true).                                                  *)
(***************************************************************************)
Writing == {"write", "writev"}
Reading == {"read", "timeout_read", "readv"}

Ops == {"idle", "done"} \union Writing \union Reading

Call == [op : Ops, lens : Seq(Nat), from : Nat, iov : Seq(Block), tries : 0 .. 2, ret : Int]

Types == w \in Call /\ r \in Call /\ stream \in Seq(Nat) /\ accepted \in Nat

\* m blocks of the vector are gone, and the others end where they did.
Gone(lens, iov, m, moved) ==
    /\ m \in Nat /\ Len(lens) = m + Len(iov)
    /\ Sums(lens)[m] <= moved
    /\ \A j \in 1 .. Len(iov) : Sums(Lengths(iov))[j] + moved = Sums(lens)[m + j]

WriterOK ==
    w.op \in Writing =>
        /\ w.from <= accepted
        /\ Contiguous(w.iov, accepted)
        /\ Left(w.iov) > 0
        /\ Left(w.iov) + (accepted - w.from) = Total(w.lens)
        /\ w.op = "write" <=> Len(w.lens) = 1
        /\ Gone(w.lens, w.iov, Len(w.lens) - Len(w.iov), accepted - w.from)

\* How far the reader's memory is filled.
Filled == r.from + Got(r)

Outcome ==
    /\ r.op = "idle" => r.lens = << >>
    /\ r.op # "idle" => Len(r.lens) >= 1 /\ (Len(r.lens) = 1 => Total(r.lens) > 0)
    /\ r.op \in {"read", "timeout_read"} => Len(r.lens) = 1
    /\ r.op = "readv" => Len(r.lens) > 1
    /\ r.op = "done" /\ r.ret > 0 =>
         Got(r) = IF Len(r.lens) = 1 THEN r.ret ELSE Total(r.lens)

ReaderOK ==
    /\ Left(r.iov) <= Total(r.lens)
    /\ Contiguous(r.iov, Filled)
    /\ Outcome

MemoryOK ==
    /\ DOMAIN memory = 1 .. Filled
    /\ \A p \in 1 .. Filled : memory[p] = p

StreamOK ==
    /\ accepted = Filled + Len(stream)
    /\ \A i \in 1 .. Len(stream) : stream[i] = Filled + i

IOInv == Types /\ WriterOK /\ WriteResultTrue /\ ReaderOK /\ MemoryOK /\ StreamOK

-----------------------------------------------------------------------------
(* Facts that every step uses.                                             *)

LEMMA CallFacts ==
  ASSUME NEW c \in Call
  PROVE  /\ c.lens \in Seq(Nat) /\ c.iov \in Seq(Block) /\ c.from \in Nat /\ c.ret \in Int
         /\ Len(c.lens) \in Nat /\ Len(c.iov) \in Nat
         /\ Total(c.lens) \in Nat /\ Left(c.iov) \in Nat /\ Got(c) \in Int
<1>1. c.lens \in Seq(Nat) /\ c.iov \in Seq(Block) /\ c.from \in Nat /\ c.ret \in Int
  BY DEF Call
<1>2. Len(c.lens) \in Nat /\ Len(c.iov) \in Nat
  BY <1>1, LenProperties
<1>3. Total(c.lens) \in Nat /\ Left(c.iov) \in Nat
  BY <1>1, SumsTypes, LeftType
<1>4. Got(c) \in Int
  BY <1>3 DEF Got
<1> QED BY <1>1, <1>2, <1>3, <1>4

LEMMA ReturnFacts ==
  ASSUME NEW c \in Call, NEW v \in Int
  PROVE  /\ Return(c, v) \in Call
         /\ Return(c, v).op = "done" /\ Return(c, v).ret = v
         /\ Return(c, v).lens = c.lens /\ Return(c, v).from = c.from
         /\ Return(c, v).iov = c.iov
<1>1. "done" \in Ops /\ 0 \in 0 .. 2
  BY DEF Ops
<1>2. Return(c, v) \in Call
  BY <1>1 DEF Return, Call
<1>3. /\ Return(c, v).op = "done" /\ Return(c, v).ret = v
      /\ Return(c, v).lens = c.lens /\ Return(c, v).from = c.from
      /\ Return(c, v).iov = c.iov
  BY DEF Return, Call
<1> QED BY <1>2, <1>3

LEMMA WholeType ==
  ASSUME NEW c \in Call, NEW vector \in BOOLEAN
  PROVE  Whole(c, vector) \in Int
  BY CallFacts DEF Whole

LEMMA FilledType ==
  ASSUME Types, ReaderOK
  PROVE  Filled \in Nat /\ Got(r) \in Nat
<1>1. r.from \in Nat /\ Total(r.lens) \in Nat /\ Left(r.iov) \in Nat
  BY CallFacts DEF Types
<1>2. Left(r.iov) <= Total(r.lens)
  BY DEF ReaderOK
<1>3. Got(r) \in Nat
  BY <1>1, <1>2 DEF Got
<1> QED BY <1>1, <1>3 DEF Filled

LEMMA StartFacts ==
  ASSUME NEW op \in Writing \union Reading, NEW lens \in Seq(Nat), NEW from \in Nat,
         NEW tries \in 0 .. 2
  PROVE  /\ Start(op, lens, from, tries) \in Call
         /\ Start(op, lens, from, tries).op = op
         /\ Start(op, lens, from, tries).lens = lens
         /\ Start(op, lens, from, tries).from = from
         /\ Start(op, lens, from, tries).iov = Blocks(lens, from)
<1>1. Blocks(lens, from) \in Seq(Block)
  BY BlocksFacts
<1>2. op \in Ops
  BY DEF Ops
<1> QED BY <1>1, <1>2 DEF Start, Call

LEMMA ShapeFacts ==
  ASSUME NEW lens \in Shapes
  PROVE  lens \in Seq(Nat) /\ Len(lens) \in Nat /\ Len(lens) >= 1 /\ Total(lens) \in Nat
<1>1. lens \in Seq(Nat) /\ lens # << >>
  BY ShapesAssumption
<1>2. Len(lens) \in Nat /\ Len(lens) # 0
  BY <1>1, LenProperties, EmptySeq
<1>3. Total(lens) \in Nat
  BY <1>1, SumsTypes
<1> QED BY <1>1, <1>2, <1>3

\* One block, or more than one.
LEMMA OneOrMore ==
  ASSUME NEW k \in Nat, k >= 1
  PROVE  (k = 1 /\ ~ (k > 1)) \/ (k # 1 /\ k > 1 /\ k > 0)
  OBVIOUS

LEMMA CountFacts ==
  ASSUME NEW n \in 1 .. MaxBytes
  PROVE  n \in Nat /\ n >= 1
<1>1. MaxBytes \in Int
  BY BytesAssumption
<1> QED BY <1>1, SMT

LEMMA WriterStable ==
  ASSUME WriterOK, WriteResultTrue, w' = w, accepted' = accepted
  PROVE  WriterOK' /\ WriteResultTrue'
  BY DEF WriterOK, WriteResultTrue

LEMMA ReaderStable ==
  ASSUME ReaderOK, r' = r
  PROVE  ReaderOK' /\ Filled' = Filled
  BY DEF ReaderOK, Outcome, Filled

LEMMA MemoryStable ==
  ASSUME MemoryOK, Filled' = Filled, memory' = memory
  PROVE  MemoryOK'
  BY DEF MemoryOK

LEMMA StreamStable ==
  ASSUME StreamOK, Filled' = Filled, stream' = stream, accepted' = accepted
  PROVE  StreamOK'
  BY DEF StreamOK

-----------------------------------------------------------------------------
(* The writer's steps.                                                     *)

LEMMA BeginWriteStep ==
  ASSUME IOInv, NEW op \in {"write", "writev"}, NEW lens \in Shapes, BeginWrite(op, lens)
  PROVE  IOInv'
<1> DEFINE c == Start(op, lens, accepted, 0)
           b == Blocks(lens, accepted)
<1>1. lens \in Seq(Nat) /\ Len(lens) \in Nat /\ Len(lens) >= 1 /\ Total(lens) \in Nat
  BY ShapeFacts
<1>2. accepted \in Nat /\ r \in Call /\ stream \in Seq(Nat)
  BY DEF IOInv, Types
<1>3. /\ UNCHANGED <<r, stream, accepted, memory, closed>>
      /\ op = "write" <=> Len(lens) = 1
      /\ w' = IF Total(lens) = 0 THEN Return(c, Whole(c, op = "writev")) ELSE c
  BY DEF BeginWrite
<1>4. c \in Call /\ c.op = op /\ c.lens = lens /\ c.from = accepted /\ c.iov = b
  <2>1. op \in Writing \union Reading /\ 0 \in 0 .. 2
    BY DEF Writing
  <2> QED BY <1>1, <1>2, <2>1, StartFacts
<1>5. /\ Lengths(b) = lens /\ Len(b) = Len(lens)
      /\ Left(b) = Total(lens) /\ Contiguous(b, accepted)
  BY <1>1, <1>2, BlocksFacts
<1>6. Sums(lens)[Len(lens)] = Total(lens)
  BY DEF Total
<1>7. Whole(c, op = "writev") = IF op = "writev" THEN Len(lens) ELSE Total(lens)
  BY <1>4 DEF Whole
<1> HIDE DEF c, b
<1>8. w' \in Call /\ WriterOK' /\ WriteResultTrue'
  <2>1. CASE Total(lens) = 0
    <3>1. w' = Return(c, Whole(c, op = "writev"))
      BY <1>3, <2>1
    <3>2. Whole(c, op = "writev") \in Int
      BY <1>1, <1>7
    <3>3. /\ w' \in Call /\ w'.op = "done" /\ w'.ret = Whole(c, op = "writev")
          /\ w'.lens = lens /\ w'.from = accepted
      BY <1>4, <3>1, <3>2, ReturnFacts
    <3>4. WriterOK'
      BY <3>3 DEF WriterOK, Writing
    <3>5. accepted' - w'.from = 0
      BY <1>2, <1>3, <3>3
    <3>6. CASE Len(lens) = 1
      <4>1. w'.ret = 0
        BY <1>3, <1>7, <2>1, <3>3, <3>6
      <4> QED BY <3>3, <3>4, <3>5, <3>6, <4>1 DEF WriteResultTrue
    <3>7. CASE Len(lens) # 1
      <4>1. w'.ret = Len(lens)
        BY <1>3, <1>7, <3>3, <3>7
      <4>2. Sums(lens)[w'.ret] <= 0 /\ ~ (w'.ret < Len(lens))
        BY <1>1, <1>6, <2>1, <4>1
      <4> QED BY <3>3, <3>4, <3>5, <3>7, <4>2 DEF WriteResultTrue
    <3> QED BY <3>6, <3>7
  <2>2. CASE Total(lens) # 0
    <3>1. w' = c
      BY <1>3, <2>2
    <3>2. /\ w' \in Call /\ w'.op = op /\ w'.lens = lens /\ w'.from = accepted /\ w'.iov = b
          /\ accepted' = accepted
      BY <1>3, <1>4, <3>1
    <3>3. Gone(lens, b, 0, 0)
      <4>1. Sums(lens)[0] = 0
        BY <1>1, SumsDefined
      <4>2. \A j \in 1 .. Len(lens) : Sums(lens)[j] + 0 = Sums(lens)[0 + j]
        <5>1. \A j \in 1 .. Len(lens) : Sums(lens)[j] \in Nat
          BY <1>1, SumsTypes
        <5> QED BY <1>1, <5>1
      <4> QED BY <1>1, <1>5, <4>1, <4>2 DEF Gone
    <3>4. Len(lens) - Len(b) = 0 /\ accepted - accepted = 0 /\ Left(b) > 0
          /\ Left(b) + 0 = Total(lens) /\ accepted <= accepted
      BY <1>1, <1>2, <1>5, <2>2
    <3>5. WriterOK'
      BY <1>3, <1>5, <3>2, <3>3, <3>4 DEF WriterOK
    <3>6. WriteResultTrue'
      BY <3>2 DEF WriteResultTrue
    <3> QED BY <3>2, <3>5, <3>6
  <2> QED BY <2>1, <2>2
<1>9. ReaderOK' /\ Filled' = Filled
  BY <1>3, ReaderStable DEF IOInv
<1>10. MemoryOK' /\ StreamOK'
  BY <1>3, <1>9, MemoryStable, StreamStable DEF IOInv
<1>11. Types'
  BY <1>2, <1>3, <1>8 DEF Types
<1> QED BY <1>8, <1>9, <1>10, <1>11 DEF IOInv

LEMMA WriteFailsStep ==
  ASSUME IOInv, NEW op \in {"write", "writev"}, WriteFails(op)
  PROVE  IOInv'
<1> DEFINE v == IF op = "write" THEN Total(w.lens) - Left(w.iov)
                ELSE Len(w.lens) - Len(w.iov)
           moved == accepted - w.from
<1>1. /\ w.op = op /\ w' = Return(w, v)
      /\ UNCHANGED <<r, stream, accepted, memory, closed>>
  BY DEF WriteFails
<1>2. w \in Call /\ accepted \in Nat /\ r \in Call /\ stream \in Seq(Nat)
  BY DEF IOInv, Types
<1>3. /\ Len(w.lens) \in Nat /\ Len(w.iov) \in Nat /\ w.from \in Nat
      /\ Total(w.lens) \in Nat /\ Left(w.iov) \in Nat
  BY <1>2, CallFacts
<1>4. /\ Left(w.iov) > 0 /\ Left(w.iov) + moved = Total(w.lens)
      /\ w.op = "write" <=> Len(w.lens) = 1
      /\ Gone(w.lens, w.iov, Len(w.lens) - Len(w.iov), moved)
  BY <1>1 DEF IOInv, WriterOK, Writing
<1>5. v \in Int
  BY <1>3
<1>6. /\ w' \in Call /\ w'.op = "done" /\ w'.ret = v
      /\ w'.lens = w.lens /\ w'.from = w.from /\ accepted' = accepted
  BY <1>1, <1>2, <1>5, ReturnFacts
<1>7. WriterOK'
  BY <1>6 DEF WriterOK, Writing
<1>8. WriteResultTrue'
  <2>1. moved \in Int
    BY <1>2, <1>3
  <2>2. CASE op = "write"
    <3>1. Len(w.lens) = 1 /\ v = Total(w.lens) - Left(w.iov)
      BY <1>1, <1>4, <2>2
    <3> HIDE DEF v, moved
    <3>2. v = moved
      BY <1>3, <1>4, <2>1, <3>1
    <3> QED BY <1>6, <3>1, <3>2 DEF WriteResultTrue, moved
  <2>3. CASE op = "writev"
    <3>1. Len(w.lens) # 1 /\ v = Len(w.lens) - Len(w.iov)
      BY <1>1, <1>4, <2>3
    <3>2. Sums(w.lens)[v] <= moved
      BY <1>4, <3>1 DEF Gone
    <3>3. moved < Total(w.lens)
      <4> HIDE DEF v, moved
      <4> QED BY <1>3, <1>4, <2>1
    <3> HIDE DEF v
    <3> QED BY <1>6, <3>1, <3>2, <3>3 DEF WriteResultTrue
  <2> QED BY <2>2, <2>3
<1>9. ReaderOK' /\ Filled' = Filled
  BY <1>1, ReaderStable DEF IOInv
<1>10. MemoryOK' /\ StreamOK'
  BY <1>1, <1>9, MemoryStable, StreamStable DEF IOInv
<1>11. Types'
  BY <1>1, <1>2, <1>6 DEF Types
<1> QED BY <1>7, <1>8, <1>9, <1>10, <1>11 DEF IOInv

LEMMA MoveOutStep ==
  ASSUME IOInv, NEW n \in 1 .. MaxBytes, MoveOut(n)
  PROVE  IOInv'
<1> DEFINE a == Advance(w.iov, n)
           d == Len(w.iov) - Len(a)
           m == Len(w.lens) - Len(w.iov)
           moved == accepted - w.from
           c == [w EXCEPT !.iov = a]
           q == SubSeq(Positions(w.iov), 1, n)
<1>1. /\ w.op \in Writing /\ n <= Left(w.iov)
      /\ stream' = stream \o q /\ accepted' = accepted + n
      /\ w' = IF n = Left(w.iov) THEN Return(c, Whole(w, w.op = "writev")) ELSE c
      /\ UNCHANGED <<r, memory, closed>>
  BY DEF MoveOut, Writing
<1>2. w \in Call /\ accepted \in Nat /\ r \in Call /\ stream \in Seq(Nat)
  BY DEF IOInv, Types
<1>3. /\ w.lens \in Seq(Nat) /\ w.iov \in Seq(Block)
      /\ Len(w.lens) \in Nat /\ Len(w.iov) \in Nat /\ w.from \in Nat
      /\ Total(w.lens) \in Nat /\ Left(w.iov) \in Nat
  BY <1>2, CallFacts
<1>4. n \in Nat /\ n >= 1 /\ n \in 1 .. Left(w.iov)
  <2>1. n \in Nat /\ n >= 1
    BY CountFacts
  <2> QED BY <1>1, <1>3, <2>1
<1>5. /\ w.from <= accepted /\ Contiguous(w.iov, accepted)
      /\ Left(w.iov) + moved = Total(w.lens)
      /\ w.op = "write" <=> Len(w.lens) = 1
      /\ Gone(w.lens, w.iov, m, moved)
  BY <1>1 DEF IOInv, WriterOK
<1>6. /\ a \in Seq(Block) /\ Len(a) \in Nat /\ d \in Nat
      /\ \A j \in 1 .. Len(a) : Sums(Lengths(a))[j] + n = Sums(Lengths(w.iov))[d + j]
      /\ Sums(Lengths(w.iov))[d] <= n
      /\ Left(a) + n = Left(w.iov)
      /\ Contiguous(a, accepted + n)
  BY <1>2, <1>3, <1>4, <1>5, AdvanceFacts
<1>7. /\ c \in Call /\ c.op = w.op /\ c.lens = w.lens /\ c.from = w.from /\ c.iov = a
  BY <1>2, <1>6 DEF Call
<1>8. Left(a) \in Nat /\ moved \in Nat
  <2>1. Left(a) \in Nat
    BY <1>6, LeftType
  <2> QED BY <1>2, <1>3, <1>5, <2>1
<1> HIDE DEF a, c, q
<1>9. w' \in Call /\ WriterOK' /\ WriteResultTrue'
  <2>1. CASE n = Left(w.iov)
    <3>1. w' = Return(c, Whole(w, w.op = "writev"))
      BY <1>1, <2>1
    <3>2. /\ Whole(w, w.op = "writev") \in Int
          /\ Whole(w, w.op = "writev") = IF w.op = "writev" THEN Len(w.lens) ELSE Total(w.lens)
      BY <1>3 DEF Whole
    <3>3. /\ w' \in Call /\ w'.op = "done" /\ w'.ret = Whole(w, w.op = "writev")
          /\ w'.lens = w.lens /\ w'.from = w.from
      BY <1>7, <3>1, <3>2, ReturnFacts
    <3>4. WriterOK'
      BY <3>3 DEF WriterOK, Writing
    <3>5. accepted' - w'.from = Total(w.lens)
      <4>1. (accepted + n) - w.from = n + moved
        BY <1>2, <1>3, <1>4
      <4> HIDE DEF moved
      <4> QED BY <1>1, <1>5, <2>1, <3>3, <4>1
    <3>6. CASE Len(w.lens) = 1
      <4>1. w'.ret = Total(w.lens)
        BY <1>5, <3>2, <3>3, <3>6
      <4> QED BY <3>3, <3>4, <3>5, <3>6, <4>1 DEF WriteResultTrue
    <3>7. CASE Len(w.lens) # 1
      <4>1. w'.ret = Len(w.lens)
        BY <1>1, <1>5, <3>2, <3>3, <3>7 DEF Writing
      <4>2. Sums(w.lens)[w'.ret] <= Total(w.lens) /\ ~ (w'.ret < Len(w.lens))
        BY <1>3, <4>1 DEF Total
      <4> QED BY <3>3, <3>4, <3>5, <3>7, <4>2 DEF WriteResultTrue
    <3> QED BY <3>6, <3>7
  <2>2. CASE n # Left(w.iov)
    <3>1. w' = c
      BY <1>1, <2>2
    <3>2. /\ w' \in Call /\ w'.op = w.op /\ w'.lens = w.lens /\ w'.from = w.from
          /\ w'.iov = a /\ accepted' = accepted + n
      BY <1>1, <1>7, <3>1
    <3>3. Left(a) > 0
      BY <1>3, <1>4, <1>6, <1>8, <2>2
    <3>4. /\ w.from <= accepted + n
          /\ (accepted + n) - w.from = moved + n
          /\ Left(a) + (moved + n) = Total(w.lens)
      <4>1. w.from <= accepted + n /\ (accepted + n) - w.from = moved + n
        BY <1>2, <1>3, <1>4, <1>5
      <4> HIDE DEF moved
      <4> QED BY <1>3, <1>4, <1>5, <1>6, <1>8, <4>1
    <3>5. Len(w.lens) - Len(a) = m + d
      BY <1>3, <1>6
    <3>6. Gone(w.lens, a, m + d, moved + n)
      <4>1. /\ m \in Nat /\ Sums(w.lens)[m] <= moved
            /\ Len(w.lens) = m + Len(w.iov)
            /\ \A j \in 1 .. Len(w.iov) :
                 Sums(Lengths(w.iov))[j] + moved = Sums(w.lens)[m + j]
        BY <1>5 DEF Gone
      <4>2. m + d \in Nat /\ Len(w.lens) = (m + d) + Len(a)
        BY <1>3, <1>6, <4>1
      <4>a. /\ Lengths(w.iov) \in Seq(Nat) /\ Len(Lengths(w.iov)) = Len(w.iov)
        BY <1>3, LengthsFacts
      <4>b. \A j \in 0 .. Len(w.iov) : Sums(Lengths(w.iov))[j] \in Nat
        BY <4>a, SumsTypes
      <4>c. \A j \in 0 .. Len(w.lens) : Sums(w.lens)[j] \in Nat
        BY <1>3, SumsTypes
      <4>3. Sums(w.lens)[m + d] <= moved + n
        <5>1. CASE d = 0
          <6>1. m \in 0 .. Len(w.lens) /\ m + d = m
            <7>1. Len(w.iov) \in Nat /\ Len(w.lens) = m + Len(w.iov) /\ m \in Nat
              BY <1>3, <4>1
            <7> HIDE DEF m, d
            <7> QED BY <5>1, <7>1
          <6>2. Sums(w.lens)[m] \in Nat
            BY <4>c, <6>1
          <6> HIDE DEF m, d, moved
          <6> QED BY <1>4, <1>8, <4>1, <6>1, <6>2
        <5>2. CASE d # 0
          <6>1. d \in 1 .. Len(w.iov) /\ d \in 0 .. Len(w.iov)
            BY <1>3, <1>6, <5>2
          <6>2. Sums(Lengths(w.iov))[d] + moved = Sums(w.lens)[m + d]
            BY <4>1, <6>1
          <6>3. Sums(Lengths(w.iov))[d] \in Nat
            BY <4>b, <6>1
          <6> DEFINE x == Sums(Lengths(w.iov))[d]
          <6>4. x + moved = Sums(w.lens)[m + d] /\ x \in Nat /\ x <= n
            BY <1>6, <6>2, <6>3
          <6> HIDE DEF m, d, moved, x
          <6>5. x + moved <= moved + n
            BY <1>4, <1>8, <6>4
          <6> QED BY <6>4, <6>5
        <5> QED BY <5>1, <5>2
      <4>4. ASSUME NEW j \in 1 .. Len(a)
            PROVE  Sums(Lengths(a))[j] + (moved + n) = Sums(w.lens)[(m + d) + j]
        <5> DEFINE x == Sums(Lengths(a))[j]
                   y == Sums(Lengths(w.iov))[d + j]
        <5>0. /\ d \in Nat /\ m \in Nat /\ Len(a) \in Nat
              /\ Len(w.iov) = d + Len(a)
          BY <1>3, <1>6, <4>1
        <5>1. d + j \in 1 .. Len(w.iov) /\ m + (d + j) = (m + d) + j
          <6> HIDE DEF m, d, x, y
          <6> QED BY <5>0
        <5>2. y + moved = Sums(w.lens)[(m + d) + j]
          BY <4>1, <5>1
        <5>3. x + n = y
          BY <1>6
        <5>4. x \in Nat
          <6>1. Lengths(a) \in Seq(Nat) /\ Len(Lengths(a)) = Len(a)
            BY <1>6, LengthsFacts
          <6>2. j \in 0 .. Len(a)
            BY <1>6
          <6> QED BY <6>1, <6>2, SumsTypes
        <5> HIDE DEF x, y, m, d, moved
        <5>5. x + (moved + n) = y + moved
          BY <1>4, <1>8, <5>3, <5>4
        <5> QED BY <5>2, <5>5 DEF x
      <4> HIDE DEF m, d, moved
      <4> QED BY <4>2, <4>3, <4>4 DEF Gone
    <3>7. WriterOK'
      <4> HIDE DEF m, d, moved
      <4> QED BY <1>5, <1>6, <3>2, <3>3, <3>4, <3>5, <3>6 DEF WriterOK
    <3>8. WriteResultTrue'
      BY <1>1, <3>2 DEF WriteResultTrue, Writing
    <3> QED BY <3>2, <3>7, <3>8
  <2> QED BY <2>1, <2>2
<1>10. ReaderOK' /\ Filled' = Filled
  BY <1>1, ReaderStable DEF IOInv
<1>11. MemoryOK'
  BY <1>1, <1>10, MemoryStable DEF IOInv
<1>12. /\ q \in Seq(Nat) /\ Len(q) = n /\ \A i \in 1 .. n : q[i] = accepted + i
  <2> DEFINE P == Positions(w.iov)
  <2>1. P = [i \in 1 .. Left(w.iov) |-> accepted + i]
    BY <1>2, <1>3, <1>5, PositionsFacts
  <2>2. \A i \in 1 .. n : i \in 1 .. Left(w.iov) /\ accepted + i \in Nat
    BY <1>2, <1>3, <1>4
  <2>3. \A i \in 1 .. n : P[i] = accepted + i /\ P[i] \in Nat
    BY <2>1, <2>2
  <2> HIDE DEF P
  <2>4. /\ SubSeq(P, 1, n) \in Seq(Nat)
        /\ Len(SubSeq(P, 1, n)) = IF 1 <= n THEN n - 1 + 1 ELSE 0
        /\ \A i \in 1 .. n - 1 + 1 : SubSeq(P, 1, n)[i] = P[1 + i - 1]
    <3>1. 1 \in Int /\ n \in Int
      BY <1>4
    <3> QED BY <2>3, <3>1, SubSeqProperties
  <2>5. n - 1 + 1 = n /\ 1 <= n /\ \A i \in 1 .. n : 1 + i - 1 = i
    BY <1>4
  <2> QED BY <2>3, <2>4, <2>5 DEF q, P
<1>13. /\ stream' \in Seq(Nat) /\ Len(stream') = Len(stream) + n /\ Len(stream) \in Nat
       /\ \A i \in 1 .. Len(stream) + n :
            stream'[i] = IF i <= Len(stream) THEN stream[i] ELSE q[i - Len(stream)]
  BY <1>1, <1>2, <1>12, ConcatProperties, LenProperties
<1>14. StreamOK'
  <2> DEFINE L == Len(stream)
  <2>1. Filled \in Nat /\ L \in Nat
    BY <1>13, FilledType DEF IOInv
  <2>2. accepted = Filled + L /\ \A i \in 1 .. L : stream[i] = Filled + i
    BY DEF IOInv, StreamOK
  <2>3. accepted + n = Filled + (L + n)
    BY <1>4, <2>1, <2>2
  <2>4. ASSUME NEW i \in 1 .. L + n PROVE stream'[i] = Filled + i
    <3>1. CASE i <= L
      BY <1>13, <2>1, <2>2, <3>1
    <3>2. CASE ~ (i <= L)
      <4>1. i - L \in 1 .. n /\ accepted + (i - L) = Filled + i
        BY <1>4, <2>1, <2>2, <3>2
      <4> QED BY <1>12, <1>13, <3>2, <4>1
    <3> QED BY <3>1, <3>2
  <2> QED BY <1>1, <1>10, <1>13, <2>3, <2>4 DEF StreamOK
<1>15. Types'
  BY <1>1, <1>2, <1>4, <1>9, <1>13 DEF Types
<1> QED BY <1>9, <1>10, <1>11, <1>14, <1>15 DEF IOInv

LEMMA CloseStep ==
  ASSUME IOInv, Close
  PROVE  IOInv'
<1>1. UNCHANGED <<w, r, stream, accepted, memory>>
  BY DEF Close
<1>2. WriterOK' /\ WriteResultTrue' /\ ReaderOK' /\ Filled' = Filled
  BY <1>1, WriterStable, ReaderStable DEF IOInv
<1>3. MemoryOK' /\ StreamOK'
  BY <1>1, <1>2, MemoryStable, StreamStable DEF IOInv
<1>4. Types'
  BY <1>1 DEF IOInv, Types
<1> QED BY <1>2, <1>3, <1>4 DEF IOInv

-----------------------------------------------------------------------------
(* The reader's steps.                                                     *)

LEMMA TriedFacts ==
  ASSUME NEW c \in Call
  PROVE  /\ Tried(c) \in Call
         /\ Tried(c).lens = c.lens /\ Tried(c).from = c.from /\ Tried(c).iov = c.iov
         /\ Tried(c).op = c.op \/ (Tried(c).op = "done" /\ Tried(c).ret = -1)
<1>1. CASE c.op = "timeout_read" /\ c.tries = 1
  <2>1. Tried(c) = Return(c, -1)
    BY <1>1 DEF Tried
  <2> QED BY <2>1, ReturnFacts
<1>2. CASE c.op = "timeout_read" /\ c.tries # 1
  <2>1. Tried(c) = [c EXCEPT !.tries = 1]
    BY <1>2 DEF Tried
  <2>2. 1 \in 0 .. 2
    OBVIOUS
  <2> QED BY <2>1, <2>2 DEF Call
<1>3. CASE c.op # "timeout_read"
  <2>1. Tried(c) = c
    BY <1>3 DEF Tried
  <2> QED BY <2>1
<1> QED BY <1>1, <1>2, <1>3

\* A step that moves nothing, whether the call goes on or returns.
LEMMA NothingMoved ==
  ASSUME IOInv, r.op \in Reading,
         r' \in Call, r'.lens = r.lens, r'.from = r.from, r'.iov = r.iov,
         r'.op = r.op \/ r'.op = "done",
         r'.op = "done" /\ r'.ret > 0 =>
             Got(r) = IF Len(r.lens) = 1 THEN r'.ret ELSE Total(r.lens),
         UNCHANGED <<w, stream, accepted, memory, closed>>
  PROVE  IOInv'
<1>1. Got(r') = Got(r) /\ Filled' = Filled
  BY DEF Got, Filled
<1>2. Outcome'
  <2>1. r.op # "idle" /\ r'.op # "idle" /\ r.op # "done"
    BY DEF Reading
  <2>2. Len(r.lens) >= 1 /\ (Len(r.lens) = 1 => Total(r.lens) > 0)
    BY <2>1 DEF IOInv, ReaderOK, Outcome
  <2>3. /\ r.op \in {"read", "timeout_read"} => Len(r.lens) = 1
        /\ r.op = "readv" => Len(r.lens) > 1
    BY DEF IOInv, ReaderOK, Outcome
  <2>4. /\ r'.op \in {"read", "timeout_read"} => Len(r.lens) = 1
        /\ r'.op = "readv" => Len(r.lens) > 1
    BY <2>3
  <2> QED BY <1>1, <2>1, <2>2, <2>4 DEF Outcome
<1>3. ReaderOK'
  BY <1>1, <1>2 DEF IOInv, ReaderOK
<1>4. WriterOK' /\ WriteResultTrue'
  BY WriterStable DEF IOInv
<1>5. MemoryOK' /\ StreamOK'
  BY <1>1, MemoryStable, StreamStable DEF IOInv
<1>6. Types'
  BY DEF IOInv, Types
<1> QED BY <1>3, <1>4, <1>5, <1>6 DEF IOInv

LEMMA EndOfFileStep ==
  ASSUME IOInv, EndOfFile
  PROVE  IOInv'
<1> DEFINE v == IF r.op = "readv" THEN 0 ELSE Got(r)
<1>1. r.op \in Reading /\ r' = Return(r, v) /\ UNCHANGED <<w, stream, accepted, memory, closed>>
  BY DEF EndOfFile, Reading
<1>2. r \in Call /\ Got(r) \in Int
  BY CallFacts DEF IOInv, Types
<1>3. v \in Int
  BY <1>2
<1>4. /\ r' \in Call /\ r'.lens = r.lens /\ r'.from = r.from /\ r'.iov = r.iov
      /\ r'.op = "done" /\ r'.ret = v
  BY <1>1, <1>2, <1>3, ReturnFacts
<1>5. r'.ret > 0 => Got(r) = IF Len(r.lens) = 1 THEN r'.ret ELSE Total(r.lens)
  <2>1. CASE r.op = "readv"
    BY <1>4, <2>1
  <2>2. CASE r.op # "readv"
    <3>1. Len(r.lens) = 1
      BY <1>1, <2>2 DEF IOInv, ReaderOK, Outcome, Reading
    <3> QED BY <1>4, <2>2, <3>1
  <2> QED BY <2>1, <2>2
<1> QED BY <1>1, <1>4, <1>5, NothingMoved

LEMMA ReadFailsStep ==
  ASSUME IOInv, ReadFails
  PROVE  IOInv'
<1>1. r.op \in Reading /\ UNCHANGED <<w, stream, accepted, memory, closed>>
  BY DEF ReadFails, Reading
<1>2. PICK v \in Failure(r) : r' = Return(r, v)
  BY DEF ReadFails
<1>3. r \in Call /\ Got(r) \in Int
  BY CallFacts DEF IOInv, Types
<1>4. v = -1 \/ (r.op # "readv" /\ (v = 0 \/ v = Got(r)))
  BY DEF Failure
<1>5. v \in Int
  BY <1>3, <1>4
<1>6. /\ r' \in Call /\ r'.lens = r.lens /\ r'.from = r.from /\ r'.iov = r.iov
      /\ r'.op = "done" /\ r'.ret = v
  BY <1>2, <1>3, <1>5, ReturnFacts
<1>7. r'.ret > 0 => Got(r) = IF Len(r.lens) = 1 THEN r'.ret ELSE Total(r.lens)
  <2>1. CASE v = -1 \/ v = 0
    BY <1>6, <2>1
  <2>2. CASE r.op # "readv" /\ v = Got(r)
    <3>1. Len(r.lens) = 1
      BY <1>1, <2>2 DEF IOInv, ReaderOK, Outcome, Reading
    <3> QED BY <1>6, <2>2, <3>1
  <2> QED BY <1>4, <2>1, <2>2
<1> QED BY <1>1, <1>6, <1>7, NothingMoved

LEMMA NothingYetStep ==
  ASSUME IOInv, NothingYet
  PROVE  IOInv'
<1>1. /\ r.op \in Reading /\ r.op # "done" /\ r' = Tried(r)
      /\ UNCHANGED <<w, stream, accepted, memory, closed>>
  BY DEF NothingYet, Reading
<1>2. /\ r' \in Call /\ r'.lens = r.lens /\ r'.from = r.from /\ r'.iov = r.iov
      /\ r'.op = r.op \/ (r'.op = "done" /\ r'.ret = -1)
  BY <1>1, TriedFacts DEF IOInv, Types
<1>3. r'.op = "done" /\ r'.ret > 0 =>
        Got(r) = IF Len(r.lens) = 1 THEN r'.ret ELSE Total(r.lens)
  BY <1>1, <1>2
<1> QED BY <1>1, <1>2, <1>3, NothingMoved

LEMMA BeginReadStep ==
  ASSUME IOInv, NEW op \in {"read", "timeout_read", "readv"}, NEW lens \in Shapes,
         BeginRead(op, lens)
  PROVE  IOInv'
<1> DEFINE from == r.from + Total(r.lens)
           tries == IF op = "timeout_read" THEN 2 ELSE 0
           b == Blocks(lens, from)
<1>1. lens \in Seq(Nat) /\ Len(lens) \in Nat /\ Len(lens) >= 1 /\ Total(lens) \in Nat
  BY ShapeFacts
<1>2. /\ r \in Call /\ r.from \in Nat /\ Total(r.lens) \in Nat /\ Left(r.iov) \in Nat
      /\ Len(r.lens) \in Nat
  BY CallFacts DEF IOInv, Types
<1>3. /\ UNCHANGED <<w, stream, accepted, memory, closed>> /\ ReaderReady
      /\ op = "readv" <=> Len(lens) > 1
      /\ op # "readv" => lens[1] > 0
      /\ r' = Start(op, lens, from, tries)
  BY DEF BeginRead
\* The last call has filled all that it was given.
<1>4. Got(r) = Total(r.lens)
  <2>1. CASE r.op = "idle"
    <3>1. r.lens = << >>
      BY <2>1 DEF IOInv, ReaderOK, Outcome
    <3>2. Total(r.lens) = 0
      <4>1. << >> \in Seq(Nat) /\ Len(<< >>) = 0
        OBVIOUS
      <4>2. Sums(<< >>)[0] = 0
        BY <4>1, SumsDefined
      <4> QED BY <3>1, <4>1, <4>2 DEF Total
    <3>3. Left(r.iov) <= 0
      BY <3>2 DEF IOInv, ReaderOK
    <3>4. Left(r.iov) = 0
      BY <1>2, <3>3
    <3> QED BY <3>2, <3>4 DEF Got
  <2>2. CASE r.op = "done" /\ r.ret = Whole(r, Len(r.lens) > 1)
    <3>1. Len(r.lens) >= 1 /\ (Len(r.lens) = 1 => Total(r.lens) > 0)
      BY <2>2 DEF IOInv, ReaderOK, Outcome
    <3>2. r.ret = IF Len(r.lens) > 1 THEN Len(r.lens) ELSE Total(r.lens)
      BY <2>2 DEF Whole
    <3>a. \/ Len(r.lens) = 1 /\ r.ret = Total(r.lens) /\ Total(r.lens) > 0
          \/ Len(r.lens) # 1 /\ r.ret = Len(r.lens) /\ Len(r.lens) > 0
      <4>1. Len(r.lens) \in Nat
        BY <1>2
      <4>2. CASE Len(r.lens) = 1
        <5>1. ~ (Len(r.lens) > 1)
          BY <4>2
        <5> QED BY <3>1, <3>2, <4>2, <5>1
      <4>3. CASE Len(r.lens) # 1
        <5>1. Len(r.lens) >= 1
          BY <3>1
        <5>2. Len(r.lens) > 1 /\ Len(r.lens) > 0
          BY <4>1, <4>3, <5>1, OneOrMore, Zenon
        <5> QED BY <3>2, <4>3, <5>2
      <4> QED BY <4>2, <4>3
    <3>3. r.ret > 0
      BY <3>a
    <3>4. Got(r) = IF Len(r.lens) = 1 THEN r.ret ELSE Total(r.lens)
      BY <2>2, <3>3 DEF IOInv, ReaderOK, Outcome
    <3> QED BY <3>a, <3>4
  <2> QED BY <1>3, <2>1, <2>2 DEF ReaderReady
<1>5. from \in Nat /\ from = Filled
  BY <1>2, <1>4 DEF Filled
<1>6. /\ r' \in Call /\ r'.op = op /\ r'.lens = lens /\ r'.from = from /\ r'.iov = b
  <2>1. op \in Writing \union Reading /\ tries \in 0 .. 2
    BY DEF Reading
  <2> HIDE DEF from, tries
  <2> QED BY <1>1, <1>3, <1>5, <2>1, StartFacts DEF from
<1>7. Left(b) = Total(lens) /\ Contiguous(b, from)
  BY <1>1, <1>5, BlocksFacts
<1> HIDE DEF from, b
<1>8. Got(r') = 0 /\ Filled' = Filled
  <2>1. Got(r') = Total(lens) - Left(b)
    BY <1>6 DEF Got
  <2>2. Got(r') = 0
    BY <1>1, <1>7, <2>1
  <2>3. Filled' = from + Got(r')
    BY <1>6 DEF Filled
  <2> QED BY <1>5, <2>2, <2>3
<1>9. Outcome'
  <2>1. op # "idle" /\ op # "done"
    OBVIOUS
  <2>2. Len(lens) = 1 => Total(lens) > 0
    <3> SUFFICES ASSUME Len(lens) = 1 PROVE Total(lens) > 0
      OBVIOUS
    <3>1. lens[1] > 0
      BY <1>3
    <3>2. 1 \in 1 .. Len(lens)
      OBVIOUS
    <3>3. Sums(lens)[1] = Sums(lens)[1 - 1] + lens[1] /\ Sums(lens)[0] = 0 /\ lens[1] \in Nat
      BY <1>1, <3>2, SumsDefined, SumsTypes
    <3>4. Sums(lens)[1] = lens[1]
      BY <3>3
    <3> QED BY <3>1, <3>4 DEF Total
  <2>3. op # "readv" => Len(lens) = 1
    <3>1. ~ (Len(lens) > 1) => Len(lens) = 1
      BY <1>1, OneOrMore, Zenon
    <3> QED BY <1>3, <3>1
  <2> QED BY <1>1, <1>3, <1>6, <2>1, <2>2, <2>3 DEF Outcome
<1>10. ReaderOK'
  <2>1. Left(b) <= Total(lens)
    BY <1>1, <1>7
  <2>2. Contiguous(b, Filled')
    BY <1>5, <1>7, <1>8
  <2> QED BY <1>6, <1>9, <2>1, <2>2 DEF ReaderOK
<1>11. WriterOK' /\ WriteResultTrue'
  BY <1>3, WriterStable DEF IOInv
<1>12. MemoryOK' /\ StreamOK'
  BY <1>3, <1>8, MemoryStable, StreamStable DEF IOInv
<1>13. Types'
  BY <1>3, <1>6 DEF IOInv, Types
<1> QED BY <1>10, <1>11, <1>12, <1>13 DEF IOInv

LEMMA MoveInStep ==
  ASSUME IOInv, NEW n \in 1 .. MaxBytes, MoveIn(n)
  PROVE  IOInv'
<1> DEFINE a == Advance(r.iov, n)
           c == [r EXCEPT !.iov = a]
           at == Positions(r.iov)
           f == Filled
           L == Len(stream)
<1>1. /\ r.op \in Reading /\ n <= L /\ n <= Left(r.iov)
      /\ memory' = [p \in DOMAIN memory \union {at[k] : k \in 1 .. n} |->
                       IF \E k \in 1 .. n : at[k] = p
                       THEN stream[CHOOSE k \in 1 .. n : at[k] = p] ELSE memory[p]]
      /\ stream' = SubSeq(stream, n + 1, L)
      /\ r' = IF a = << >> THEN Return(c, Whole(r, r.op = "readv")) ELSE Tried(c)
      /\ UNCHANGED <<w, accepted, closed>>
  <2>1. r \in Call
    BY DEF IOInv, Types
  <2>2. c.iov = a
    BY <2>1 DEF Call
  <2> QED BY <2>2 DEF MoveIn, Reading
<1>2. w \in Call /\ accepted \in Nat /\ r \in Call /\ stream \in Seq(Nat)
  BY DEF IOInv, Types
<1>3. /\ r.lens \in Seq(Nat) /\ r.iov \in Seq(Block) /\ Len(r.lens) \in Nat /\ r.from \in Nat
      /\ Total(r.lens) \in Nat /\ Left(r.iov) \in Nat /\ L \in Nat
  BY <1>2, CallFacts, LenProperties
<1>4. n \in Nat /\ n >= 1 /\ n \in 1 .. Left(r.iov)
  <2>1. n \in Nat /\ n >= 1
    BY CountFacts
  <2> QED BY <1>1, <1>3, <2>1
<1>5. f \in Nat /\ Got(r) \in Nat /\ f = r.from + Got(r)
  BY FilledType DEF IOInv, Filled
<1>6. Left(r.iov) <= Total(r.lens) /\ Contiguous(r.iov, f) /\ Outcome
  BY DEF IOInv, ReaderOK
<1>7. DOMAIN memory = 1 .. f /\ \A p \in 1 .. f : memory[p] = p
  BY DEF IOInv, MemoryOK
<1>8. accepted = f + L /\ \A i \in 1 .. L : stream[i] = f + i
  BY DEF IOInv, StreamOK
<1>9. a \in Seq(Block) /\ Left(a) + n = Left(r.iov) /\ Contiguous(a, f + n)
  BY <1>3, <1>4, <1>5, <1>6, AdvanceFacts
<1>10. /\ c \in Call /\ c.op = r.op /\ c.lens = r.lens /\ c.from = r.from /\ c.iov = a
  BY <1>2, <1>9 DEF Call
<1>11. Left(a) \in Nat
  BY <1>9, LeftType
<1>12. at = [k \in 1 .. Left(r.iov) |-> f + k]
  BY <1>3, <1>5, <1>6, PositionsFacts
<1> HIDE DEF a, c, at, f
<1>13. /\ r' \in Call /\ r'.lens = r.lens /\ r'.from = r.from /\ r'.iov = a
       /\ \/ r'.op = r.op
          \/ r'.op = "done" /\ r'.ret = -1
          \/ r'.op = "done" /\ a = << >> /\ r'.ret = Whole(r, r.op = "readv")
  <2>1. CASE a = << >>
    <3>1. r' = Return(c, Whole(r, r.op = "readv"))
      BY <1>1, <2>1
    <3>2. Whole(r, r.op = "readv") \in Int
      BY <1>3 DEF Whole
    <3> QED BY <1>10, <2>1, <3>1, <3>2, ReturnFacts
  <2>2. CASE a # << >>
    <3>1. r' = Tried(c)
      BY <1>1, <2>2
    <3> QED BY <1>10, <3>1, TriedFacts
  <2> QED BY <2>1, <2>2
<1>14. Got(r') = Got(r) + n /\ Filled' = f + n /\ Left(r'.iov) <= Total(r'.lens)
  <2>1. Got(r') = Total(r.lens) - Left(a) /\ Got(r) = Total(r.lens) - Left(r.iov)
    BY <1>13 DEF Got
  <2>2. Got(r') = Got(r) + n /\ Left(a) <= Total(r.lens)
    BY <1>3, <1>4, <1>6, <1>9, <1>11, <2>1
  <2>3. Filled' = r.from + Got(r')
    BY <1>13 DEF Filled
  <2>4. r.from + (Got(r) + n) = f + n
    BY <1>3, <1>4, <1>5
  <2> QED BY <1>13, <2>2, <2>3, <2>4
<1>15. Outcome'
  <2>1. r.op # "idle" /\ r'.op # "idle" /\ r.op # "done"
    BY <1>1, <1>13 DEF Reading
  <2>2. Len(r.lens) >= 1 /\ (Len(r.lens) = 1 => Total(r.lens) > 0)
    BY <1>6, <2>1 DEF Outcome
  <2>3. /\ r.op \in {"read", "timeout_read"} => Len(r.lens) = 1
        /\ r.op = "readv" => Len(r.lens) > 1
    BY <1>6 DEF Outcome
  <2>4. /\ r'.op \in {"read", "timeout_read"} => Len(r.lens) = 1
        /\ r'.op = "readv" => Len(r.lens) > 1
    BY <1>13, <2>3
  <2>5. ASSUME r'.op = "done", r'.ret > 0
        PROVE  Got(r') = IF Len(r.lens) = 1 THEN r'.ret ELSE Total(r.lens)
    <3>1. a = << >> /\ r'.ret = Whole(r, r.op = "readv")
      <4>1. r'.ret # -1
        BY <2>5
      <4> QED BY <1>13, <2>1, <2>5, <4>1
    <3>2. Left(a) = 0
      <4>1. Lengths(a) \in Seq(Nat) /\ Len(Lengths(a)) = 0
        BY <1>9, <3>1, LengthsFacts, EmptySeq
      <4>2. Sums(Lengths(a))[0] = 0
        BY <4>1, SumsDefined
      <4> QED BY <4>1, <4>2 DEF Left, Total
    <3>3. Got(r') = Total(r.lens)
      BY <1>3, <1>13, <3>2 DEF Got
    <3>4. CASE r.op = "readv"
      <4>1. Len(r.lens) # 1
        BY <1>3, <2>2, <2>3, <3>4, OneOrMore, Zenon
      <4> QED BY <3>3, <4>1
    <3>5. CASE r.op # "readv"
      <4>1. Len(r.lens) = 1 /\ r'.ret = Total(r.lens)
        BY <1>1, <2>3, <3>1, <3>5 DEF Whole, Reading
      <4> QED BY <3>3, <4>1
    <3> QED BY <3>4, <3>5
  <2> QED BY <1>13, <2>1, <2>2, <2>4, <2>5 DEF Outcome
<1>16. ReaderOK'
  <2>1. Contiguous(r'.iov, Filled')
    BY <1>9, <1>13, <1>14
  <2> QED BY <1>14, <1>15, <2>1 DEF ReaderOK
<1>17. \A k \in 1 .. n : at[k] = f + k
  <2>1. \A k \in 1 .. n : k \in 1 .. Left(r.iov)
    BY <1>1, <1>3, <1>4
  <2> QED BY <1>12, <2>1
<1>18. MemoryOK'
  <2>1. DOMAIN memory' = 1 .. f \union {at[k] : k \in 1 .. n}
    BY <1>1, <1>7
  <2>2. {at[k] : k \in 1 .. n} = (f + 1) .. (f + n)
    <3>1. ASSUME NEW p \in (f + 1) .. (f + n) PROVE p \in {at[k] : k \in 1 .. n}
      <4>1. p - f \in 1 .. n /\ f + (p - f) = p
        BY <1>4, <1>5
      <4>2. at[p - f] = p
        BY <1>17, <4>1
      <4> QED BY <4>1, <4>2
    <3>2. ASSUME NEW k \in 1 .. n PROVE at[k] \in (f + 1) .. (f + n)
      <4>1. f + k \in (f + 1) .. (f + n)
        BY <1>4, <1>5
      <4> QED BY <1>17, <4>1
    <3> QED BY <3>1, <3>2
  <2>3. 1 .. f \union (f + 1) .. (f + n) = 1 .. (f + n)
    BY <1>4, <1>5
  <2>4. DOMAIN memory' = 1 .. (f + n)
    BY <2>1, <2>2, <2>3
  <2>5. ASSUME NEW p \in 1 .. (f + n) PROVE memory'[p] = p
    <3>1. memory'[p] = IF \E k \in 1 .. n : at[k] = p
                       THEN stream[CHOOSE k \in 1 .. n : at[k] = p] ELSE memory[p]
      BY <1>1, <2>1, <2>4
    <3>2. CASE \E k \in 1 .. n : at[k] = p
      <4> DEFINE k == CHOOSE x \in 1 .. n : at[x] = p
      <4>1. k \in 1 .. n /\ at[k] = p
        BY <3>2
      <4> HIDE DEF k
      <4>2. k \in 1 .. L
        BY <1>1, <1>3, <1>4, <4>1
      <4>3. stream[k] = f + k /\ at[k] = f + k
        BY <1>8, <1>17, <4>1, <4>2
      <4>4. memory'[p] = stream[k]
        BY <3>1, <3>2 DEF k
      <4> QED BY <4>1, <4>3, <4>4
    <3>3. CASE ~ \E k \in 1 .. n : at[k] = p
      <4>1. p \notin (f + 1) .. (f + n)
        BY <2>2, <3>3
      <4>2. p \in 1 .. f
        BY <1>4, <1>5, <4>1
      <4> QED BY <1>7, <3>1, <3>3, <4>2
    <3> QED BY <3>2, <3>3
  <2> QED BY <1>14, <2>4, <2>5 DEF MemoryOK
<1>19. /\ stream' \in Seq(Nat) /\ Len(stream') = L - n
       /\ \A i \in 1 .. L - n : stream'[i] = stream[n + i]
  <2>1. n + 1 \in Int /\ L \in Int
    BY <1>3, <1>4
  <2>2. \A i \in (n + 1) .. L : stream[i] \in Nat
    <3>1. \A i \in (n + 1) .. L : i \in 1 .. L
      BY <1>3, <1>4
    <3> QED BY <1>2, <3>1, ElementOfSeq
  <2>3. /\ stream' \in Seq(Nat)
        /\ Len(stream') = IF n + 1 <= L THEN L - (n + 1) + 1 ELSE 0
        /\ \A i \in 1 .. L - (n + 1) + 1 : stream'[i] = stream[(n + 1) + i - 1]
    <3> HIDE DEF L
    <3> QED BY <1>1, <2>1, <2>2, SubSeqProperties
  <2>4. /\ L - (n + 1) + 1 = L - n /\ ~ (n + 1 <= L) => L - n = 0
        /\ \A i \in 1 .. L - n : (n + 1) + i - 1 = n + i
    BY <1>1, <1>3, <1>4
  <2> QED BY <2>3, <2>4
<1>20. StreamOK'
  <2>1. accepted = (f + n) + (L - n)
    BY <1>3, <1>4, <1>5, <1>8
  <2>2. ASSUME NEW i \in 1 .. L - n PROVE stream'[i] = (f + n) + i
    <3>1. n + i \in 1 .. L /\ f + (n + i) = (f + n) + i
      BY <1>1, <1>3, <1>4, <1>5
    <3> QED BY <1>8, <1>19, <3>1
  <2> QED BY <1>1, <1>14, <1>19, <2>1, <2>2 DEF StreamOK
<1>21. WriterOK' /\ WriteResultTrue'
  BY <1>1, WriterStable DEF IOInv
<1>22. Types'
  BY <1>1, <1>2, <1>13, <1>19 DEF Types
<1> QED BY <1>16, <1>18, <1>20, <1>21, <1>22 DEF IOInv

-----------------------------------------------------------------------------
(* Theorems.                                                               *)

LEMMA IOInit == Init => IOInv
<1> SUFFICES ASSUME Init PROVE IOInv
  OBVIOUS
<1>1. /\ w = Idle /\ r = Idle /\ stream = << >> /\ accepted = 0 /\ memory = << >>
  BY DEF Init
<1>2. /\ Idle.op = "idle" /\ Idle.lens = << >> /\ Idle.iov = << >> /\ Idle.from = 0
      /\ Idle \in Call
  <2>1. << >> \in Seq(Nat) /\ << >> \in Seq(Block)
    OBVIOUS
  <2>2. "idle" \in Ops /\ 0 \in 0 .. 2 /\ 0 \in Nat /\ 0 \in Int
    BY DEF Ops
  <2> QED BY <2>1, <2>2 DEF Idle, Call
<1>3. << >> \in Seq(Nat) /\ << >> \in Seq(Block) /\ Len(<< >>) = 0
  OBVIOUS
<1>4. Total(<< >>) = 0
  <2>1. Sums(<< >>)[0] = 0
    BY <1>3, SumsDefined
  <2> QED BY <1>3, <2>1 DEF Total
<1>5. Left(<< >>) = 0
  <2>1. Lengths(<< >>) \in Seq(Nat) /\ Len(Lengths(<< >>)) = 0
    BY <1>3, LengthsFacts
  <2>2. Sums(Lengths(<< >>))[0] = 0
    BY <2>1, SumsDefined
  <2> QED BY <2>1, <2>2 DEF Left, Total
<1>6. Got(r) = 0 /\ Filled = 0
  BY <1>1, <1>2, <1>4, <1>5 DEF Got, Filled
<1>7. Types
  BY <1>1, <1>2, <1>3 DEF Types
<1>8. WriterOK /\ WriteResultTrue
  BY <1>1, <1>2 DEF WriterOK, WriteResultTrue, Writing
<1>9. ReaderOK
  <2>1. Outcome
    BY <1>1, <1>2 DEF Outcome
  <2>2. Contiguous(r.iov, Filled)
    BY <1>1, <1>2, <1>3 DEF Contiguous
  <2> QED BY <1>1, <1>2, <1>4, <1>5, <2>1, <2>2 DEF ReaderOK
<1>10. MemoryOK /\ StreamOK
  <2>1. DOMAIN memory = 1 .. 0 /\ 1 .. 0 = {}
    BY <1>1
  <2>2. MemoryOK
    BY <1>6, <2>1 DEF MemoryOK
  <2>3. StreamOK
    BY <1>1, <1>3, <1>6, <2>1 DEF StreamOK
  <2> QED BY <2>2, <2>3
<1> QED BY <1>7, <1>8, <1>9, <1>10 DEF IOInv

LEMMA IOStutter ==
  ASSUME IOInv, UNCHANGED vars
  PROVE  IOInv'
<1>1. UNCHANGED <<w, r, stream, accepted, memory>>
  BY DEF vars
<1>2. WriterOK' /\ WriteResultTrue' /\ ReaderOK' /\ Filled' = Filled
  BY <1>1, WriterStable, ReaderStable DEF IOInv
<1>3. MemoryOK' /\ StreamOK'
  BY <1>1, <1>2, MemoryStable, StreamStable DEF IOInv
<1>4. Types'
  BY <1>1 DEF IOInv, Types
<1> QED BY <1>2, <1>3, <1>4 DEF IOInv

LEMMA IOStep == IOInv /\ [Next]_vars => IOInv'
<1> SUFFICES ASSUME IOInv, [Next]_vars PROVE IOInv'
  OBVIOUS
<1>1. CASE \E op \in {"write", "writev"}, lens \in Shapes : BeginWrite(op, lens)
  BY <1>1, BeginWriteStep
<1>2. CASE Writer
  BY <1>2, MoveOutStep DEF Writer
<1>3. CASE \E op \in {"write", "writev"} : WriteFails(op)
  BY <1>3, WriteFailsStep
<1>4. CASE Close
  BY <1>4, CloseStep
<1>5. CASE \E op \in {"read", "timeout_read", "readv"}, lens \in Shapes : BeginRead(op, lens)
  BY <1>5, BeginReadStep
<1>6. CASE Reader
  BY <1>6, MoveInStep, EndOfFileStep, NothingYetStep DEF Reader
<1>7. CASE ReadFails
  BY <1>7, ReadFailsStep
<1>8. CASE UNCHANGED vars
  BY <1>8, IOStutter
<1> QED BY <1>1, <1>2, <1>3, <1>4, <1>5, <1>6, <1>7, <1>8 DEF Next

LEMMA IOInvariant == Spec => []IOInv
  BY IOInit, IOStep, PTL DEF Spec

LEMMA FilledCount ==
  ASSUME IOInv
  PROVE  Filled \in Nat /\ Cardinality(DOMAIN memory) = Filled
<1>1. Filled \in Nat /\ DOMAIN memory = 1 .. Filled
  BY FilledType DEF IOInv, MemoryOK
<1>2. Cardinality(1 .. Filled) = IF 1 > Filled THEN 0 ELSE Filled - 1 + 1
  BY <1>1, FS_Interval
<1>3. (IF 1 > Filled THEN 0 ELSE Filled - 1 + 1) = Filled
  BY <1>1
<1> QED BY <1>1, <1>2, <1>3

(***************************************************************************)
(* However many bytes each system call moves, and however empty blocks lie *)
(* in the vectors, no byte is sent twice, lost or out of order, and each   *)
(* one read lands at its place (unix_write_func, unix_writev_func,         *)
(* unix_read_func, unix_timeout_read_func, unix_readv_func).               *)
(***************************************************************************)
THEOREM BytesStayInPlace == Spec => []BytesInPlace
<1>1. IOInv => BytesInPlace
  <2> SUFFICES ASSUME IOInv PROVE BytesInPlace
    OBVIOUS
  <2> DEFINE L == Len(stream)
  <2>1. Filled \in Nat /\ Cardinality(DOMAIN memory) = Filled
    BY FilledCount
  <2>2. stream \in Seq(Nat) /\ L \in Nat
    BY LenProperties DEF IOInv, Types
  <2>3. accepted = Filled + L /\ \A i \in 1 .. L : stream[i] = Filled + i
    BY DEF IOInv, StreamOK
  <2>4. accepted - L = Filled
    BY <2>1, <2>2, <2>3
  <2>5. stream = [i \in 1 .. L |-> accepted - L + i]
    <3>1. stream = [i \in 1 .. L |-> stream[i]]
      BY <2>2, LenProperties
    <3>2. \A i \in 1 .. L : stream[i] = accepted - L + i
      BY <2>3, <2>4
    <3> HIDE DEF L
    <3> QED BY <3>1, <3>2
  <2>6. \A p \in DOMAIN memory : memory[p] = p
    BY DEF IOInv, MemoryOK
  <2> QED BY <2>1, <2>4, <2>5, <2>6 DEF BytesInPlace
<1> QED BY <1>1, IOInvariant, PTL

(***************************************************************************)
(* The result of a write tells how much has been handed over: all of it,   *)
(* or at least the whole blocks it counts and not everything.              *)
(***************************************************************************)
THEOREM WritersAreTold == Spec => []WriteResultTrue
<1>1. IOInv => WriteResultTrue
  BY DEF IOInv
<1> QED BY <1>1, IOInvariant, PTL

(***************************************************************************)
(* A read that reports bytes has filled exactly those positions.           *)
(***************************************************************************)
THEOREM ReadersAreTold == Spec => []ReadResultTrue
<1>1. IOInv => ReadResultTrue
  <2> SUFFICES ASSUME IOInv, r.op = "done", r.ret > 0
               PROVE  LET n == IF Len(r.lens) = 1 THEN r.ret ELSE Total(r.lens)
                      IN  /\ Got(r) = n
                          /\ r.from + 1 .. r.from + n \subseteq DOMAIN memory
                          /\ Cardinality(DOMAIN memory) = r.from + n
    BY DEF ReadResultTrue
  <2> DEFINE n == IF Len(r.lens) = 1 THEN r.ret ELSE Total(r.lens)
  <2>1. Got(r) = n
    BY DEF IOInv, ReaderOK, Outcome
  <2>2. Filled \in Nat /\ Cardinality(DOMAIN memory) = Filled /\ DOMAIN memory = 1 .. Filled
    BY FilledCount DEF IOInv, MemoryOK
  <2> HIDE DEF n
  <2>3. Filled = r.from + n
    BY <2>1 DEF Filled
  <2>4. r.from \in Nat
    BY CallFacts DEF IOInv, Types
  <2>5. r.from + 1 .. r.from + n \subseteq 1 .. Filled
    BY <2>2, <2>3, <2>4
  <2> QED BY <2>1, <2>2, <2>3, <2>5 DEF n
<1> QED BY <1>1, IOInvariant, PTL
=============================================================================
