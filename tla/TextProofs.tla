----------------------------- MODULE TextProofs -----------------------------
(***************************************************************************)
(* What the operators of Texts compute, for every text: slices, the ends   *)
(* of runs and of lines, and what trim leaves. The library's induction     *)
(* theorems take an operator, which no prover here can instantiate; that   *)
(* strict inclusion of finite sets is well-founded takes none, and gives   *)
(* proofs by least counterexample.                                         *)
(***************************************************************************)
EXTENDS Texts, Integers, FiniteSetTheorems, SequenceTheorems, TLAPS

(* A set of natural numbers that has an element has a least one.           *)
LEMMA LeastNatural ==
    ASSUME NEW S \in SUBSET Nat, S # {}
    PROVE  \E m \in S : \A k \in S : m <= k
<1> DEFINE Below == {0..k : k \in S}
<1>1. Below \subseteq FiniteSubsetsOf(Nat) /\ Below # {}
  <2>1. ASSUME NEW k \in S PROVE 0..k \in FiniteSubsetsOf(Nat)
    <3>1. k \in Nat /\ 0 \in Int /\ k \in Int
      OBVIOUS
    <3>2. IsFiniteSet(0..k)
      BY <3>1, FS_Interval
    <3> QED BY <3>1, <3>2 DEF FiniteSubsetsOf
  <2> QED BY <2>1
<1>2. PICK x \in Below : \A y \in Below : ~(<<y, x>> \in StrictSubsetOrdering(Nat))
  <2> HIDE DEF Below
  <2> QED BY <1>1, FS_StrictSubsetOrderingWellFounded, WFMin
<1>3. PICK m \in S : x = 0..m
  OBVIOUS
<1>4. ASSUME NEW k \in S, k < m PROVE FALSE
  <2>1. 0..k \in SUBSET Nat /\ 0..m \in SUBSET Nat /\ 0..k \subseteq 0..m /\ m \in 0..m /\ m \notin 0..k
    BY <1>4
  <2>2. <<0..k, 0..m>> \in StrictSubsetOrdering(Nat)
    BY <2>1 DEF StrictSubsetOrdering
  <2> QED BY <1>2, <1>3, <2>2
<1> QED BY <1>4

(* One that is bounded has a greatest.                                     *)
LEMMA GreatestNatural ==
    ASSUME NEW n \in Nat, NEW S \in SUBSET (0..n), S # {}
    PROVE  \E m \in S : \A k \in S : k <= m
<1> DEFINE D == {n - k : k \in S}
<1>1. D \in SUBSET Nat /\ D # {}
  <2>1. ASSUME NEW k \in S PROVE n - k \in Nat
    <3>1. k \in 0..n
      OBVIOUS
    <3> QED BY <3>1
  <2> QED BY <2>1
<1>2. PICK d \in D : \A e \in D : d <= e
  <2> HIDE DEF D
  <2> QED BY <1>1, LeastNatural
<1>3. PICK m \in S : d = n - m
  OBVIOUS
<1>4. ASSUME NEW k \in S PROVE k <= m
  <2>1. d <= n - k
    BY <1>2
  <2> QED BY <1>3, <2>1
<1> QED BY <1>4

(* There is one end of a run, and it is where it ends.                     *)
LEMMA RunEndIs ==
    ASSUME NEW Class, NEW S, NEW t \in Seq(S), NEW i \in Nat, NEW e \in i .. (Len(t) + 1),
           \A j \in i .. (e - 1) : t[j] \in Class,
           e <= Len(t) => t[e] \notin Class
    PROVE  RunEnd(Class, t, i) = e
<1> DEFINE Is(n) == /\ \A j \in i .. (n - 1) : t[j] \in Class
                    /\ n <= Len(t) => t[n] \notin Class
<1>1. Is(e)
  OBVIOUS
<1>2. ASSUME NEW n \in i .. (Len(t) + 1), Is(n) PROVE n = e
  <2>1. Len(t) \in Nat
    OBVIOUS
  <2>2. CASE n < e
    <3>1. n \in i .. (e - 1) /\ n <= Len(t)
      BY <2>1, <2>2
    <3> QED BY <1>2, <3>1
  <2>3. CASE e < n
    <3>1. e \in i .. (n - 1) /\ e <= Len(t)
      BY <2>1, <2>3
    <3> QED BY <1>2, <3>1
  <2> QED BY <2>1, <2>2, <2>3
<1>3. RunEnd(Class, t, i) = CHOOSE n \in i .. (Len(t) + 1) : Is(n)
  BY DEF RunEnd
<1> HIDE DEF Is
<1> QED BY <1>1, <1>2, <1>3

(* There always is an end of the run.                                      *)
LEMMA RunEnds ==
    ASSUME NEW Class, NEW S, NEW t \in Seq(S), NEW i \in 1 .. (Len(t) + 1)
    PROVE  LET e == RunEnd(Class, t, i)
           IN  /\ e \in i .. (Len(t) + 1)
               /\ \A j \in i .. (e - 1) : t[j] \in Class
               /\ e <= Len(t) => t[e] \notin Class
<1> DEFINE Ends == {e \in i .. (Len(t) + 1) : e <= Len(t) => t[e] \notin Class}
<1>1. Len(t) \in Nat /\ i \in Nat
  OBVIOUS
<1>2. Ends \in SUBSET Nat /\ Len(t) + 1 \in Ends
  BY <1>1
<1>3. PICK e \in Ends : \A k \in Ends : e <= k
  <2> HIDE DEF Ends
  <2> QED BY <1>2, LeastNatural
<1>4. ASSUME NEW j \in i .. (e - 1) PROVE t[j] \in Class
  <2>1. j \in i .. (Len(t) + 1) /\ ~(e <= j)
    BY <1>1, <1>3
  <2> QED BY <1>3, <2>1
<1>5. RunEnd(Class, t, i) = e
  BY <1>1, <1>3, <1>4, RunEndIs
<1> QED BY <1>3, <1>4, <1>5

-----------------------------------------------------------------------------
(* A sequence is what is up to a place and what is behind it.              *)
LEMMA Divided ==
    ASSUME NEW S, NEW t \in Seq(S), NEW k \in 0 .. Len(t)
    PROVE  /\ SubSeq(t, 1, k) \in Seq(S) /\ Len(SubSeq(t, 1, k)) = k
           /\ \A n \in 1 .. k : SubSeq(t, 1, k)[n] = t[n]
           /\ SubSeq(t, k + 1, Len(t)) \in Seq(S) /\ Len(SubSeq(t, k + 1, Len(t))) = Len(t) - k
           /\ \A n \in 1 .. (Len(t) - k) : SubSeq(t, k + 1, Len(t))[n] = t[k + n]
           /\ t = SubSeq(t, 1, k) \o SubSeq(t, k + 1, Len(t))
<1> DEFINE l == Len(t)
           r == SubSeq(t, 1, k)
           s == SubSeq(t, k + 1, l)
<1>1. /\ l \in Nat /\ k \in Nat /\ k <= l /\ k + 1 \in Int /\ \A n \in 1 .. l : t[n] \in S
  OBVIOUS
<1>2. r \in Seq(S) /\ Len(r) = k /\ \A n \in 1 .. k : r[n] = t[n]
  <2>1. \A n \in 1 .. k : t[n] \in S /\ 1 + n - 1 = n
    BY <1>1
  <2>2. /\ r \in Seq(S) /\ Len(r) = IF 1 <= k THEN k - 1 + 1 ELSE 0
        /\ \A n \in 1 .. k - 1 + 1 : r[n] = t[1 + n - 1]
    BY <1>1, <2>1, SubSeqProperties
  <2>3. k - 1 + 1 = k /\ (1 <= k \/ k = 0)
    BY <1>1
  <2> HIDE DEF r
  <2> QED BY <2>1, <2>2, <2>3
<1>3. s \in Seq(S) /\ Len(s) = l - k /\ \A n \in 1 .. (l - k) : s[n] = t[k + n]
  <2>1. \A n \in (k + 1) .. l : t[n] \in S
    BY <1>1
  <2>2. /\ s \in Seq(S) /\ Len(s) = IF k + 1 <= l THEN l - (k + 1) + 1 ELSE 0
        /\ \A n \in 1 .. l - (k + 1) + 1 : s[n] = t[(k + 1) + n - 1]
    BY <1>1, <2>1, SubSeqProperties
  <2>3. l - (k + 1) + 1 = l - k /\ (k + 1 <= l \/ l - k = 0)
        /\ \A n \in 1 .. (l - k) : (k + 1) + n - 1 = k + n
    BY <1>1
  <2> HIDE DEF s, l
  <2> QED BY <2>2, <2>3
<1>4. t = r \o s
  <2>1. 1 \in 1 .. (l + 1) /\ k \in (1 - 1) .. l /\ l \in k .. l
    BY <1>1
  <2>2. r \o s = SubSeq(t, 1, l)
    BY <2>1, ConcatAdjacentSubSeq
  <2> QED BY <2>2, SubSeqFull
<1> QED BY <1>2, <1>3, <1>4

(* The elements of two sequences behind one another.                       *)
LEMMA JoinedIs ==
    ASSUME NEW S, NEW r \in Seq(S), NEW s \in Seq(S)
    PROVE  /\ r \o s \in Seq(S) /\ Len(r \o s) = Len(r) + Len(s) /\ Len(r) \in Nat /\ Len(s) \in Nat
           /\ \A n \in 1 .. Len(r) : (r \o s)[n] = r[n]
           /\ \A n \in 1 .. Len(s) : (r \o s)[Len(r) + n] = s[n]
<1>1. /\ r \o s \in Seq(S) /\ Len(r \o s) = Len(r) + Len(s)
      /\ \A i \in 1 .. Len(r) + Len(s) : (r \o s)[i] = IF i <= Len(r) THEN r[i] ELSE s[i - Len(r)]
  BY ConcatProperties
<1>2. Len(r) \in Nat /\ Len(s) \in Nat
  OBVIOUS
<1> DEFINE u == r \o s
<1> HIDE DEF u
<1>3. \A n \in 1 .. Len(r) : u[n] = r[n]
  <2>1. \A n \in 1 .. Len(r) : n \in 1 .. Len(r) + Len(s) /\ n <= Len(r)
    BY <1>2
  <2> QED BY <1>1, <2>1 DEF u
<1>4. \A n \in 1 .. Len(s) : u[Len(r) + n] = s[n]
  <2>1. \A n \in 1 .. Len(s) : /\ Len(r) + n \in 1 .. Len(r) + Len(s)
                               /\ ~(Len(r) + n <= Len(r)) /\ (Len(r) + n) - Len(r) = n
    BY <1>2
  <2> QED BY <1>1, <2>1 DEF u
<1> QED BY <1>1, <1>2, <1>3, <1>4 DEF u

(* Ranges of a text, and where a word is in it.                            *)
LEMMA SliceIs ==
    ASSUME NEW S, NEW t \in Seq(S), NEW i \in 1 .. (Len(t) + 1), NEW j \in i .. (Len(t) + 1)
    PROVE  /\ Slice(t, i, j) \in Seq(S)
           /\ Len(Slice(t, i, j)) = j - i
           /\ \A k \in 1 .. (j - i) : Slice(t, i, j)[k] = t[i + k - 1]
<1>1. /\ Len(t) \in Nat /\ i \in Int /\ j - 1 \in Int
      /\ \A k \in i .. (j - 1) : t[k] \in S
      /\ (j - 1) - i + 1 = j - i /\ (i <= j - 1 \/ j - i = 0)
  OBVIOUS
<1>2. /\ SubSeq(t, i, j - 1) \in Seq(S)
      /\ Len(SubSeq(t, i, j - 1)) = IF i <= j - 1 THEN (j - 1) - i + 1 ELSE 0
      /\ \A k \in 1 .. ((j - 1) - i + 1) : SubSeq(t, i, j - 1)[k] = t[i + k - 1]
  BY <1>1, SubSeqProperties
<1> QED BY <1>1, <1>2 DEF Slice

LEMMA SlicesJoin ==
    ASSUME NEW S, NEW t \in Seq(S), NEW i \in 1 .. (Len(t) + 1), NEW j \in i .. (Len(t) + 1),
           NEW k \in j .. (Len(t) + 1)
    PROVE  Slice(t, i, j) \o Slice(t, j, k) = Slice(t, i, k)
<1> DEFINE a == Slice(t, i, j)
           b == Slice(t, j, k)
           c == Slice(t, i, k)
<1>1. Len(t) \in Nat /\ i \in Nat /\ j \in Nat /\ k \in Nat /\ i <= j /\ j <= k
      /\ j \in 1 .. (Len(t) + 1) /\ k \in i .. (Len(t) + 1)
  OBVIOUS
<1>2. a \in Seq(S) /\ Len(a) = j - i /\ \A n \in 1 .. (j - i) : a[n] = t[i + n - 1]
  BY SliceIs
<1>3. b \in Seq(S) /\ Len(b) = k - j /\ \A n \in 1 .. (k - j) : b[n] = t[j + n - 1]
  BY <1>1, SliceIs
<1>4. c \in Seq(S) /\ Len(c) = k - i /\ \A n \in 1 .. (k - i) : c[n] = t[i + n - 1]
  BY <1>1, SliceIs
<1> HIDE DEF a, b, c
<1>5. /\ a \o b \in Seq(S) /\ Len(a \o b) = Len(a) + Len(b)
      /\ \A n \in 1 .. Len(a) + Len(b) : (a \o b)[n] = IF n <= Len(a) THEN a[n] ELSE b[n - Len(a)]
  BY <1>2, <1>3, ConcatProperties
<1>6. Len(a \o b) = Len(c)
  BY <1>1, <1>2, <1>3, <1>4, <1>5
<1>7. ASSUME NEW n \in 1 .. Len(a \o b) PROVE (a \o b)[n] = c[n]
  <2>1. n \in 1 .. (k - i) /\ Len(a) + Len(b) = k - i
    BY <1>1, <1>2, <1>3, <1>5
  <2>2. CASE n <= j - i
    <3>1. n \in 1 .. (j - i)
      BY <1>1, <2>1, <2>2
    <3> QED BY <1>2, <1>4, <1>5, <2>1, <2>2, <3>1
  <2>3. CASE ~(n <= j - i)
    <3>1. n - (j - i) \in 1 .. (k - j) /\ j + (n - (j - i)) - 1 = i + n - 1
      BY <1>1, <2>1, <2>3
    <3> QED BY <1>2, <1>3, <1>4, <1>5, <2>1, <2>3, <3>1
  <2> QED BY <2>2, <2>3
<1>8. a \o b = c
  BY <1>4, <1>5, <1>6, <1>7, SeqEqual
<1> QED BY <1>8 DEF a, b, c

LEMMA AtSymbols ==
    ASSUME NEW S, NEW t \in Seq(S), NEW word \in Seq(S), NEW i \in Nat \ {0}
    PROVE  At(word, t, i) <=>
               /\ i + Len(word) <= Len(t) + 1
               /\ \A k \in 1 .. Len(word) : t[i + k - 1] = word[k]
<1>1. Len(t) \in Nat /\ Len(word) \in Nat
  OBVIOUS
<1>2. CASE i + Len(word) <= Len(t) + 1
  <2>1. /\ i \in 1 .. (Len(t) + 1) /\ i + Len(word) \in i .. (Len(t) + 1)
        /\ (i + Len(word)) - i = Len(word)
    BY <1>1, <1>2
  <2> DEFINE s == Slice(t, i, i + Len(word))
  <2>2. s \in Seq(S) /\ Len(s) = Len(word) /\ \A k \in 1 .. Len(word) : s[k] = t[i + k - 1]
    <3>1. /\ s \in Seq(S) /\ Len(s) = (i + Len(word)) - i
          /\ \A k \in 1 .. ((i + Len(word)) - i) : s[k] = t[i + k - 1]
      BY <2>1, SliceIs, ZenonT(60)
    <3> QED BY <2>1, <3>1
  <2> HIDE DEF s
  <2>3. s = word <=> \A k \in 1 .. Len(word) : s[k] = word[k]
    BY <2>2, SeqEqual
  <2>4. At(word, t, i) <=> s = word
    BY <1>2 DEF At, s
  <2> QED BY <1>2, <2>2, <2>3, <2>4
<1>3. CASE ~(i + Len(word) <= Len(t) + 1)
  BY <1>3 DEF At
<1> QED BY <1>2, <1>3

LEMMA PairAt ==
    ASSUME NEW S, NEW t \in Seq(S), NEW word \in Seq(S), NEW i \in Nat \ {0}, Len(word) = 2
    PROVE  At(word, t, i) <=> i + 1 <= Len(t) /\ t[i] = word[1] /\ t[i + 1] = word[2]
<1>1. At(word, t, i) <=>
          i + Len(word) <= Len(t) + 1 /\ \A k \in 1 .. Len(word) : t[i + k - 1] = word[k]
  <2>1. t \in Seq(S) /\ word \in Seq(S) /\ i \in Nat \ {0}
    OBVIOUS
  <2> QED BY ONLY <2>1, AtSymbols, SMTT(30)
<1>2. 1 \in 1 .. 2 /\ 2 \in 1 .. 2 /\ (\A k \in 1 .. 2 : k = 1 \/ k = 2)
  OBVIOUS
<1>3. /\ Len(t) \in Nat /\ i + 1 - 1 = i /\ i + 2 - 1 = i + 1
      /\ (i + 2 <= Len(t) + 1 <=> i + 1 <= Len(t))
  OBVIOUS
<1> QED BY <1>1, <1>2, <1>3

LEMMA SymbolAt ==
    ASSUME NEW S, NEW t \in Seq(S), NEW word \in Seq(S), NEW i \in Nat \ {0}, Len(word) = 1
    PROVE  At(word, t, i) <=> i <= Len(t) /\ t[i] = word[1]
<1>1. At(word, t, i) <=>
          i + Len(word) <= Len(t) + 1 /\ \A k \in 1 .. Len(word) : t[i + k - 1] = word[k]
  <2>1. t \in Seq(S) /\ word \in Seq(S) /\ i \in Nat \ {0}
    OBVIOUS
  <2> QED BY ONLY <2>1, AtSymbols, SMTT(30)
<1>2. 1 \in 1 .. 1 /\ (\A k \in 1 .. 1 : k = 1)
  OBVIOUS
<1>3. Len(t) \in Nat /\ i + 1 - 1 = i /\ (i + 1 <= Len(t) + 1 <=> i <= Len(t))
  OBVIOUS
<1> QED BY <1>1, <1>2, <1>3

(* There is one place where a word is found first.                         *)
LEMMA FirstIsOne ==
    ASSUME NEW word, NEW t, NEW from \in Nat, NEW i \in Nat, NEW j \in Nat,
           First(word, t, from, i), First(word, t, from, j), Len(t) \in Nat
    PROVE  i = j
<1>1. i < j => i \in from .. (j - 1)
  BY DEF First
<1>2. j < i => j \in from .. (i - 1)
  BY DEF First
<1> QED BY <1>1, <1>2 DEF First

LEMMA TrimOfNothing == Trim(<< >>) = << >>
<1>1. TrimStart(<< >>) = << >>
  BY DEF TrimStart
<1>2. SubSeq(<< >>, 1, CHOOSE n \in 0 .. Len(<< >>) :
          (n > 0 => << >>[n] \notin Blank) /\ \A j \in (n + 1) .. Len(<< >>) : << >>[j] \in Blank)
        = << >>
  <2> DEFINE Ends(n) == (n > 0 => << >>[n] \notin Blank) /\ \A j \in (n + 1) .. 0 : << >>[j] \in Blank
  <2>1. Ends(0) /\ 0 \in 0 .. 0
    OBVIOUS
  <2>2. \A n \in 0 .. 0 : n = 0
    OBVIOUS
  <2>3. (CHOOSE n \in 0 .. 0 : Ends(n)) = 0
    <3> HIDE DEF Ends
    <3> QED BY <2>1, <2>2
  <2>4. SubSeq(<< >>, 1, 0) = << >>
    BY SubSeqEmpty
  <2>5. Len(<< >>) = 0
    OBVIOUS
  <2> QED BY <2>3, <2>4, <2>5
<1> QED BY <1>1, <1>2 DEF Trim, TrimEnd

(* The first and the last symbol of t from e on that is not blank.         *)
Core(t, e, a, b) ==
    /\ a \in e .. Len(t) /\ b \in a .. Len(t)
    /\ \A j \in e .. (a - 1) : t[j] \in Blank
    /\ t[a] \notin Blank /\ t[b] \notin Blank
    /\ \A j \in (b + 1) .. Len(t) : t[j] \in Blank

(* trim takes what is between them.                                        *)
LEMMA TrimIsCore ==
    ASSUME NEW S, NEW t \in Seq(S), NEW a, NEW b, Core(t, 1, a, b)
    PROVE  Trim(t) = SubSeq(t, a, b)
<1> DEFINE n == Len(t)
           v == SubSeq(t, a, n)
<1>1. /\ n \in Nat /\ a \in 1 .. n /\ b \in a .. n /\ a \in Nat /\ b \in Nat
      /\ \A j \in 1 .. (a - 1) : t[j] \in Blank
      /\ t[a] \notin Blank /\ t[b] \notin Blank
      /\ \A j \in (b + 1) .. n : t[j] \in Blank
      /\ \A j \in 1 .. n : t[j] \in S
      /\ DOMAIN t = 1 .. n
  BY DEF Core
<1>2. RunEnd(Blank, t, 1) = a
  <2>1. a \in 1 .. (Len(t) + 1) /\ 1 \in Nat
    BY <1>1
  <2> QED BY <1>1, <2>1, RunEndIs
<1>3. TrimStart(t) = v
  BY <1>1, <1>2 DEF TrimStart
<1>4. /\ v \in Seq(S) /\ Len(v) = n - a + 1
      /\ \A i \in 1 .. n - a + 1 : v[i] = t[a + i - 1]
  <2>1. \A i \in a .. n : t[i] \in S
    BY <1>1
  <2> QED BY <1>1, <2>1, SubSeqProperties
<1> DEFINE Ends(k) == (k > 0 => v[k] \notin Blank) /\ \A j \in (k + 1) .. Len(v) : v[j] \in Blank
           m == b - a + 1
<1>5. (CHOOSE k \in 0 .. Len(v) : Ends(k)) = m
  <2>1. m \in 0 .. Len(v) /\ m \in 1 .. n - a + 1 /\ a + m - 1 = b
    BY <1>1, <1>4
  <2>2. v[m] \notin Blank
    BY <1>1, <1>4, <2>1
  <2>3. ASSUME NEW j \in (m + 1) .. Len(v) PROVE v[j] \in Blank
    <3>1. j \in 1 .. n - a + 1 /\ a + j - 1 \in (b + 1) .. n
      BY <1>1, <1>4, <2>1
    <3> QED BY <1>1, <1>4, <3>1
  <2>4. Ends(m)
    BY <2>2, <2>3
  <2>5. ASSUME NEW k \in 0 .. Len(v), Ends(k) PROVE k = m
    <3>1. CASE k < m
      <4>1. m \in (k + 1) .. Len(v)
        BY <1>1, <1>4, <2>1, <3>1
      <4> QED BY <2>2, <2>5, <4>1
    <3>2. CASE k > m
      <4>1. k \in (m + 1) .. Len(v) /\ k > 0
        BY <1>1, <1>4, <2>1, <3>2
      <4> QED BY <2>3, <2>5, <4>1
    <3> QED BY <1>1, <1>4, <2>1, <3>1, <3>2
  <2> HIDE DEF Ends, m
  <2> QED BY <2>1, <2>4, <2>5
<1>6. Trim(t) = SubSeq(v, 1, m)
  BY <1>3, <1>5 DEF Trim, TrimEnd
<1>7. /\ SubSeq(v, 1, m) \in Seq(S) /\ Len(SubSeq(v, 1, m)) = m
      /\ \A i \in 1 .. m : SubSeq(v, 1, m)[i] = t[a + i - 1]
  <2>1. 1 \in Int /\ m \in Int /\ m - 1 + 1 = m /\ 1 <= m /\ m <= n - a + 1
    BY <1>1
  <2>2. \A i \in 1 .. m : i \in 1 .. n - a + 1 /\ v[i] \in S /\ 1 + i - 1 = i
    BY <1>1, <1>4, <2>1
  <2>3. /\ SubSeq(v, 1, m) \in Seq(S) /\ Len(SubSeq(v, 1, m)) = m
        /\ \A i \in 1 .. m : SubSeq(v, 1, m)[i] = v[1 + i - 1]
    <3> HIDE DEF v, m
    <3> QED BY <2>1, <2>2, SubSeqProperties
  <2> QED BY <1>4, <2>2, <2>3
<1>8. /\ SubSeq(t, a, b) \in Seq(S) /\ Len(SubSeq(t, a, b)) = m
      /\ \A i \in 1 .. m : SubSeq(t, a, b)[i] = t[a + i - 1]
  <2>1. \A i \in a .. b : t[i] \in S
    BY <1>1
  <2> QED BY <1>1, <2>1, SubSeqProperties
<1> HIDE DEF v, m
<1> QED BY <1>6, <1>7, <1>8, SeqEqual

(* A text is blank from e on, or has such symbols.                         *)
LEMMA CoreOrBlank ==
    ASSUME NEW S, NEW t \in Seq(S), NEW e \in 1 .. (Len(t) + 1)
    PROVE  \/ \A j \in e .. Len(t) : t[j] \in Blank
           \/ \E a, b : Core(t, e, a, b)
<1> DEFINE Others == {j \in e .. Len(t) : t[j] \notin Blank}
<1>1. Len(t) \in Nat /\ e \in Nat
  OBVIOUS
<1>2. Others \in SUBSET Nat /\ Others \in SUBSET (0 .. Len(t))
  BY <1>1
<1>3. CASE Others = {}
  BY <1>3
<1>4. CASE Others # {}
  <2>1. PICK a \in Others : \A k \in Others : a <= k
    <3> HIDE DEF Others
    <3> QED BY <1>2, <1>4, LeastNatural
  <2>2. PICK b \in Others : \A k \in Others : k <= b
    <3> HIDE DEF Others
    <3> QED BY <1>1, <1>2, <1>4, GreatestNatural
  <2>3. a \in e .. Len(t) /\ b \in a .. Len(t) /\ t[a] \notin Blank /\ t[b] \notin Blank
    BY <1>1, <2>1, <2>2
  <2>4. ASSUME NEW j \in e .. (a - 1) PROVE t[j] \in Blank
    <3>1. j \in e .. Len(t) /\ ~(a <= j)
      BY <1>1, <2>3
    <3> QED BY <2>1, <3>1
  <2>5. ASSUME NEW j \in (b + 1) .. Len(t) PROVE t[j] \in Blank
    <3>1. j \in e .. Len(t) /\ ~(j <= b)
      BY <1>1, <2>3
    <3> QED BY <2>2, <3>1
  <2>6. Core(t, e, a, b)
    BY <2>3, <2>4, <2>5 DEF Core
  <2> QED BY <2>6
<1> QED BY <1>3, <1>4

(* trim of what is left of a text from e on.                               *)
LEMMA TrimOfBlank ==
    ASSUME NEW S, NEW t \in Seq(S), NEW e \in 1 .. (Len(t) + 1),
           \A j \in e .. Len(t) : t[j] \in Blank
    PROVE  Trim(SubSeq(t, e, Len(t))) = << >>
<1> DEFINE u == SubSeq(t, e, Len(t))
<1>1. Len(t) \in Nat /\ e \in Nat /\ \A j \in e .. Len(t) : t[j] \in S
  OBVIOUS
<1>2. /\ u \in Seq(S) /\ Len(u) = IF e <= Len(t) THEN Len(t) - e + 1 ELSE 0
      /\ \A i \in 1 .. Len(t) - e + 1 : u[i] = t[e + i - 1]
  BY <1>1, SubSeqProperties
<1>3. ASSUME NEW i \in DOMAIN u PROVE u[i] \in Blank
  <2>1. i \in 1 .. Len(t) - e + 1 /\ e + i - 1 \in e .. Len(t)
    BY <1>1, <1>2
  <2> QED BY <1>2, <2>1
<1> HIDE DEF u
<1>4. TrimStart(u) = << >> /\ TrimStart(<< >>) = << >>
  BY <1>3 DEF TrimStart
<1>5. Trim(u) = Trim(<< >>)
  BY <1>4 DEF Trim
<1> QED BY <1>5, TrimOfNothing DEF u

LEMMA TrimOfRest ==
    ASSUME NEW S, NEW t \in Seq(S), NEW e \in 1 .. (Len(t) + 1), NEW a, NEW b, Core(t, e, a, b)
    PROVE  Trim(SubSeq(t, e, Len(t))) = SubSeq(t, a, b)
<1> DEFINE n == Len(t)
           u == SubSeq(t, e, n)
           x == a - e + 1
           y == b - e + 1
<1>1. /\ n \in Nat /\ e \in Nat /\ a \in e .. n /\ b \in a .. n /\ a \in Nat /\ b \in Nat
      /\ \A j \in e .. (a - 1) : t[j] \in Blank
      /\ t[a] \notin Blank /\ t[b] \notin Blank
      /\ \A j \in (b + 1) .. n : t[j] \in Blank
      /\ \A j \in 1 .. n : t[j] \in S
  BY DEF Core
<1>2. /\ u \in Seq(S) /\ Len(u) = n - e + 1
      /\ \A i \in 1 .. n - e + 1 : u[i] = t[e + i - 1]
  <2>1. \A j \in e .. n : t[j] \in S
    BY <1>1
  <2> QED BY <1>1, <2>1, SubSeqProperties
<1>3. x \in 1 .. Len(u) /\ y \in x .. Len(u) /\ e + x - 1 = a /\ e + y - 1 = b
  BY <1>1, <1>2
<1>4. u[x] \notin Blank /\ u[y] \notin Blank
  <2>1. x \in 1 .. n - e + 1 /\ y \in 1 .. n - e + 1
    BY <1>1
  <2> QED BY <1>1, <1>2, <1>3, <2>1
<1>5. ASSUME NEW j \in 1 .. (x - 1) PROVE u[j] \in Blank
  <2>1. j \in 1 .. n - e + 1 /\ e + j - 1 \in e .. (a - 1)
    BY <1>1
  <2> QED BY <1>1, <1>2, <2>1
<1>6. ASSUME NEW j \in (y + 1) .. Len(u) PROVE u[j] \in Blank
  <2>1. j \in 1 .. n - e + 1 /\ e + j - 1 \in (b + 1) .. n
    BY <1>1, <1>2
  <2> QED BY <1>1, <1>2, <2>1
<1>7. x \in Nat /\ y \in Nat /\ y - x = b - a
  BY <1>1
<1> HIDE DEF u, x, y
<1>8. Core(u, 1, x, y)
  BY <1>3, <1>4, <1>5, <1>6 DEF Core
<1>9. Trim(u) = SubSeq(u, x, y)
  BY <1>2, <1>8, TrimIsCore
<1>10. /\ SubSeq(u, x, y) \in Seq(S) /\ Len(SubSeq(u, x, y)) = y - x + 1
       /\ \A i \in 1 .. y - x + 1 : SubSeq(u, x, y)[i] = u[x + i - 1]
  <2>1. \A i \in x .. y : u[i] \in S
    BY <1>2, <1>3, <1>7
  <2> QED BY <1>3, <1>7, <2>1, SubSeqProperties
<1>11. /\ SubSeq(t, a, b) \in Seq(S) /\ Len(SubSeq(t, a, b)) = b - a + 1
       /\ \A i \in 1 .. b - a + 1 : SubSeq(t, a, b)[i] = t[a + i - 1]
  <2>1. \A i \in a .. b : t[i] \in S
    BY <1>1
  <2> QED BY <1>1, <2>1, SubSeqProperties
<1>12. ASSUME NEW i \in 1 .. b - a + 1 PROVE u[x + i - 1] = t[a + i - 1]
  <2>1. x + i - 1 \in 1 .. n - e + 1 /\ e + (x + i - 1) - 1 = a + i - 1
    BY <1>1, <1>2, <1>3, <1>7
  <2> QED BY <1>2, <2>1
<1>13. SubSeq(u, x, y) = SubSeq(t, a, b)
  <2>1. y - x + 1 = b - a + 1
    BY <1>7
  <2>2. /\ Len(SubSeq(u, x, y)) = Len(SubSeq(t, a, b))
        /\ \A i \in 1 .. Len(SubSeq(u, x, y)) : SubSeq(u, x, y)[i] = SubSeq(t, a, b)[i]
    BY <1>10, <1>11, <1>12, <2>1
  <2> QED BY <1>10, <1>11, <2>2, SeqEqual
<1> QED BY <1>9, <1>13 DEF u

(* A line ends before the first newline, or with the text.                 *)
LEMMA LineIs ==
    ASSUME NEW S, "\n" \in S, NEW t \in Seq(S), NEW i \in 1 .. Len(t)
    PROVE  LET e == i + Len(LineFrom(t, i))
           IN  /\ e \in i .. (Len(t) + 1)
               /\ LineFrom(t, i) = Slice(t, i, e)
               /\ LineFrom(t, i) \in Seq(S)
               /\ \A j \in i .. (e - 1) : t[j] # "\n"
               /\ e <= Len(t) => t[e] = "\n"
<1> DEFINE line == LineFrom(t, i)
           c == "\n"
<1>0. /\ c \in S
      /\ line = IF Absent(<<c>>, t, i) THEN SubSeq(t, i, Len(t))
                ELSE Slice(t, i, CHOOSE e \in i .. Len(t) : First(<<c>>, t, i, e))
  BY DEF LineFrom
<1> HIDE DEF line, c
<1>1. Len(t) \in Nat /\ i \in Nat /\ 1 <= i /\ i <= Len(t)
  OBVIOUS
<1>2. \A j \in i .. Len(t) : At(<<c>>, t, j) <=> t[j] = c
  <2> SUFFICES ASSUME NEW j \in i .. Len(t) PROVE At(<<c>>, t, j) <=> t[j] = c
    OBVIOUS
  <2>1. j \in Nat \ {0} /\ j <= Len(t)
    BY <1>1
  <2> DEFINE word == <<c>>
  <2>2. word \in Seq(S) /\ Len(word) = 1 /\ word[1] = c
    BY <1>0
  <2> HIDE DEF word
  <2>3. At(word, t, j) <=> j <= Len(t) /\ t[j] = word[1]
    BY <2>1, <2>2, SymbolAt
  <2> QED BY <2>1, <2>2, <2>3 DEF word
<1>3. PICK e \in i .. (Len(t) + 1) :
          /\ line = Slice(t, i, e)
          /\ \A j \in i .. (e - 1) : t[j] # c
          /\ e <= Len(t) => t[e] = c
  <2>1. CASE Absent(<<c>>, t, i)
    <3>1. line = Slice(t, i, Len(t) + 1)
      BY <1>0, <1>1, <2>1 DEF Slice
    <3>2. \A j \in i .. Len(t) : t[j] # c
      BY <1>2, <2>1 DEF Absent
    <3>3. Len(t) + 1 \in i .. (Len(t) + 1) /\ (Len(t) + 1) - 1 = Len(t) /\ ~(Len(t) + 1 <= Len(t))
      BY <1>1
    <3> QED BY <3>1, <3>2, <3>3
  <2>2. CASE ~Absent(<<c>>, t, i)
    <3> DEFINE Found == {j \in i .. Len(t) : At(<<c>>, t, j)}
               e == CHOOSE j \in i .. Len(t) : First(<<c>>, t, i, j)
    <3>1. Found \in SUBSET Nat /\ Found # {}
      BY <1>1, <2>2 DEF Absent
    <3>2. PICK m \in Found : \A k \in Found : m <= k
      <4> HIDE DEF Found
      <4> QED BY <3>1, LeastNatural
    <3>3. m \in i .. Len(t) /\ First(<<c>>, t, i, m)
      <4>1. m \in i .. Len(t) /\ At(<<c>>, t, m)
        BY <3>2
      <4>2. ASSUME NEW j \in i .. (m - 1) PROVE ~At(<<c>>, t, j)
        <5>1. j \in i .. Len(t) /\ ~(m <= j)
          BY <1>1, <4>1
        <5> QED BY <3>2, <5>1
      <4> QED BY <4>1, <4>2 DEF First
    <3> HIDE DEF Found
    <3>4. e \in i .. Len(t) /\ First(<<c>>, t, i, e)
      BY <3>3
    <3>5. line = Slice(t, i, e)
      BY <1>0, <2>2
    <3> HIDE DEF e
    <3>6. t[e] = c /\ \A j \in i .. (e - 1) : t[j] # c
      <4>1. At(<<c>>, t, e) /\ \A j \in i .. (e - 1) : ~At(<<c>>, t, j)
        BY <3>4 DEF First
      <4>2. \A j \in i .. (e - 1) : j \in i .. Len(t)
        BY <1>1, <3>4
      <4> QED BY <1>2, <3>4, <4>1, <4>2
    <3>7. e \in i .. (Len(t) + 1)
      BY <1>1, <3>4
    <3> QED BY <3>5, <3>6, <3>7
  <2> QED BY <2>1, <2>2
<1>4. i \in 1 .. (Len(t) + 1) /\ e \in Nat
  BY <1>1
<1>5. line \in Seq(S) /\ Len(line) = e - i
  BY <1>3, <1>4, SliceIs
<1>6. i + Len(line) = e
  BY <1>1, <1>4, <1>5
<1> QED BY <1>3, <1>5, <1>6 DEF line, c

LEMMA TrimIsText ==
    ASSUME NEW S, NEW t \in Seq(S)
    PROVE  Trim(t) \in Seq(S) /\ Len(Trim(t)) \in Nat
<1>1. Len(t) \in Nat /\ 1 \in 1 .. (Len(t) + 1)
  OBVIOUS
<1>2. CASE \A j \in 1 .. Len(t) : t[j] \in Blank
  <2>1. TrimStart(t) = << >>
    BY <1>2 DEF TrimStart
  <2>2. TrimStart(<< >>) = << >>
    BY DEF TrimStart
  <2>3. Trim(t) = << >>
    BY <2>1, <2>2, TrimOfNothing DEF Trim
  <2>4. << >> \in Seq(S)
    OBVIOUS
  <2> QED BY <2>3, <2>4
<1>3. CASE \E a, b : Core(t, 1, a, b)
  <2>1. PICK a, b : Core(t, 1, a, b)
    BY <1>3
  <2>2. Trim(t) = SubSeq(t, a, b)
    BY <2>1, TrimIsCore
  <2>3. a \in Int /\ b \in Int /\ \A i \in a .. b : t[i] \in S
    BY <1>1, <2>1 DEF Core
  <2>4. SubSeq(t, a, b) \in Seq(S)
    BY <2>3, SubSeqProperties
  <2> QED BY <2>2, <2>4
<1> QED BY <1>1, <1>2, <1>3, CoreOrBlank
=============================================================================
