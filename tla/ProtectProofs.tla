--------------------------- MODULE ProtectProofs ----------------------------
(***************************************************************************)
(* What module Protect promises of every text, proved. The entries of a    *)
(* text are where its lines put them; the new text follows the old one     *)
(* along a map g of places, off the spans that were replaced; and what is  *)
(* read from the new text is what was read from the old one, moved by g.   *)
(***************************************************************************)
EXTENDS Protect, TextProofs
-----------------------------------------------------------------------------
(* Sequences: the rest of one from a position on, trimming.                *)

(* What is left of a text from a place on.                                 *)
Rest(s, k) == SubSeq(s, k, Len(s))

LEMMA RestIs ==
    ASSUME NEW S, NEW s \in Seq(S), NEW k \in 1 .. (Len(s) + 1)
    PROVE  /\ Rest(s, k) \in Seq(S)
           /\ Len(Rest(s, k)) = Len(s) - k + 1
           /\ \A n \in 1 .. (Len(s) - k + 1) : Rest(s, k)[n] = s[k + n - 1]
<1>1. /\ Len(s) \in Nat /\ Len(s) + 1 \in k .. (Len(s) + 1)
      /\ (Len(s) + 1) - 1 = Len(s) /\ (Len(s) + 1) - k = Len(s) - k + 1
  OBVIOUS
<1>2. Rest(s, k) = Slice(s, k, Len(s) + 1)
  BY <1>1 DEF Rest, Slice
<1>3. /\ Slice(s, k, Len(s) + 1) \in Seq(S)
      /\ Len(Slice(s, k, Len(s) + 1)) = (Len(s) + 1) - k
      /\ \A n \in 1 .. ((Len(s) + 1) - k) : Slice(s, k, Len(s) + 1)[n] = s[k + n - 1]
  BY <1>1, SliceIs, ZenonT(40)
<1> HIDE DEF Rest
<1> QED BY <1>1, <1>2, <1>3

LEMMA RestOfRest ==
    ASSUME NEW S, NEW s \in Seq(S), NEW k \in 1 .. (Len(s) + 1), NEW n \in 1 .. (Len(s) - k + 2)
    PROVE  Rest(Rest(s, k), n) = Rest(s, k + n - 1)
<1> DEFINE r == Rest(s, k)
           l == Len(s)
<1>1. l \in Nat /\ k \in Nat /\ k + n - 1 \in 1 .. (l + 1)
  OBVIOUS
<1>2. r \in Seq(S) /\ Len(r) = l - k + 1 /\ \A j \in 1 .. (l - k + 1) : r[j] = s[k + j - 1]
  BY RestIs
<1>3. PICK p : p = Rest(s, k + n - 1)
  OBVIOUS
<1>4. p \in Seq(S) /\ Len(p) = l - (k + n - 1) + 1
      /\ \A j \in 1 .. (l - (k + n - 1) + 1) : p[j] = s[(k + n - 1) + j - 1]
  BY <1>1, <1>3, RestIs, ZenonT(40)
<1> HIDE DEF r, l
<1>5. n \in 1 .. (Len(r) + 1)
  BY <1>1, <1>2 DEF l
<1>6. PICK q : q = Rest(r, n)
  OBVIOUS
<1>7. q \in Seq(S) /\ Len(q) = Len(r) - n + 1
      /\ \A j \in 1 .. (Len(r) - n + 1) : q[j] = r[n + j - 1]
  BY <1>2, <1>5, <1>6, RestIs, ZenonT(40)
<1>8. Len(q) = Len(p)
  BY <1>1, <1>2, <1>4, <1>5, <1>7
<1>9. ASSUME NEW j \in 1 .. Len(q) PROVE q[j] = p[j]
  <2>1. /\ j \in 1 .. (Len(r) - n + 1) /\ n + j - 1 \in 1 .. (l - k + 1)
        /\ j \in 1 .. (l - (k + n - 1) + 1) /\ k + (n + j - 1) - 1 = (k + n - 1) + j - 1
    BY <1>1, <1>2, <1>5, <1>7
  <2> QED BY <1>2, <1>4, <1>7, <2>1
<1>10. q = p
  BY <1>4, <1>7, <1>8, <1>9, SeqEqual
<1> QED BY <1>3, <1>6, <1>10 DEF r

(* k is where the blanks that start at i end.                              *)
BlanksTo(s, i, k) ==
    /\ k \in i .. (Len(s) + 1)
    /\ \A j \in i .. (k - 1) : s[j] \in Blank
    /\ k <= Len(s) => s[k] \notin Blank

LEMMA BlanksEnd ==
    ASSUME NEW S, NEW s \in Seq(S), NEW i \in 1 .. (Len(s) + 1)
    PROVE  \E k : BlanksTo(s, i, k)
<1>1. PICK k : k = RunEnd(Blank, s, i)
  OBVIOUS
<1>2. BlanksTo(s, i, k)
  BY <1>1, RunEnds DEF BlanksTo
<1> QED BY <1>2

LEMMA TrimStartIs ==
    ASSUME NEW S, NEW s \in Seq(S), NEW k, BlanksTo(s, 1, k)
    PROVE  TrimStart(s) = Rest(s, k)
<1>1. /\ Len(s) \in Nat /\ DOMAIN s = 1 .. Len(s) /\ k \in 1 .. (Len(s) + 1) /\ k \in Nat
      /\ \A j \in 1 .. (k - 1) : s[j] \in Blank
      /\ k <= Len(s) => s[k] \notin Blank
  BY DEF BlanksTo
<1>2. CASE k <= Len(s)
  <2>1. k \in DOMAIN s /\ ~(\A j \in DOMAIN s : s[j] \in Blank)
    BY <1>1, <1>2
  <2>2. RunEnd(Blank, s, 1) = k
    BY <1>1, RunEndIs
  <2> QED BY <2>1, <2>2 DEF TrimStart, Rest
<1>3. CASE ~(k <= Len(s))
  <2>1. k = Len(s) + 1 /\ k - 1 = Len(s)
    BY <1>1, <1>3
  <2>2. TrimStart(s) = << >>
    BY <1>1, <2>1 DEF TrimStart
  <2>3. Rest(s, k) \in Seq(S) /\ Len(Rest(s, k)) = Len(s) - k + 1
    BY <1>1, RestIs
  <2>4. Len(Rest(s, k)) = 0
    BY <1>1, <2>1, <2>3
  <2> QED BY <2>2, <2>3, <2>4
<1> QED BY <1>2, <1>3

LEMMA TrimStartOfRest ==
    ASSUME NEW S, NEW s \in Seq(S), NEW i \in 1 .. (Len(s) + 1), NEW k, BlanksTo(s, i, k)
    PROVE  TrimStart(Rest(s, i)) = Rest(s, k)
<1> DEFINE r == Rest(s, i)
           m == k - i + 1
<1>1. /\ Len(s) \in Nat /\ i \in Nat /\ k \in i .. (Len(s) + 1) /\ k \in Nat
      /\ \A j \in i .. (k - 1) : s[j] \in Blank
      /\ k <= Len(s) => s[k] \notin Blank
  BY DEF BlanksTo
<1>2. /\ r \in Seq(S) /\ Len(r) = Len(s) - i + 1
      /\ \A j \in 1 .. (Len(s) - i + 1) : r[j] = s[i + j - 1]
  BY RestIs
<1>3. m \in 1 .. (Len(s) - i + 2) /\ i + m - 1 = k
  BY <1>1
<1>4. Rest(r, m) = Rest(s, i + m - 1)
  BY <1>3, RestOfRest
<1>5. BlanksTo(r, 1, m)
  <2>1. m \in 1 .. (Len(r) + 1)
    BY <1>1, <1>2
  <2>2. ASSUME NEW j \in 1 .. (m - 1) PROVE r[j] \in Blank
    <3>1. j \in 1 .. (Len(s) - i + 1) /\ i + j - 1 \in i .. (k - 1)
      BY <1>1
    <3> HIDE DEF r
    <3> QED BY <1>1, <1>2, <3>1
  <2>3. m <= Len(r) => r[m] \notin Blank
    <3>1. m <= Len(r) => m \in 1 .. (Len(s) - i + 1) /\ k <= Len(s)
      BY <1>1, <1>2
    <3> HIDE DEF r, m
    <3> QED BY <1>1, <1>2, <1>3, <3>1
  <2> QED BY <2>1, <2>2, <2>3 DEF BlanksTo
<1> HIDE DEF r, m
<1>6. TrimStart(r) = Rest(r, m)
  BY <1>2, <1>5, TrimStartIs
<1> QED BY <1>3, <1>4, <1>6 DEF r

(* n is where what trim_end leaves ends.                                   *)
BlankFrom(s, n) ==
    /\ n \in 0 .. Len(s)
    /\ n > 0 => s[n] \notin Blank
    /\ \A j \in (n + 1) .. Len(s) : s[j] \in Blank

LEMMA BlanksStart ==
    ASSUME NEW S, NEW s \in Seq(S)
    PROVE  \E n : BlankFrom(s, n)
<1> DEFINE Others == {j \in 1 .. Len(s) : s[j] \notin Blank}
<1>1. Len(s) \in Nat
  OBVIOUS
<1>2. CASE Others = {}
  <2>1. BlankFrom(s, 0)
    BY <1>1, <1>2 DEF BlankFrom
  <2> QED BY <2>1
<1>3. CASE Others # {}
  <2>1. Others \in SUBSET (0 .. Len(s))
    BY <1>1
  <2>2. PICK n \in Others : \A k \in Others : k <= n
    <3> HIDE DEF Others
    <3> QED BY <1>1, <1>3, <2>1, GreatestNatural
  <2>3. n \in 1 .. Len(s) /\ s[n] \notin Blank
    BY <2>2
  <2>4. ASSUME NEW j \in (n + 1) .. Len(s) PROVE s[j] \in Blank
    <3>1. j \in 1 .. Len(s) /\ ~(j <= n)
      BY <1>1, <2>3
    <3> QED BY <2>2, <3>1
  <2>5. BlankFrom(s, n)
    BY <1>1, <2>3, <2>4 DEF BlankFrom
  <2> QED BY <2>5
<1> QED BY <1>2, <1>3

LEMMA TrimEndIs ==
    ASSUME NEW S, NEW s \in Seq(S), NEW n, BlankFrom(s, n)
    PROVE  /\ TrimEnd(s) = SubSeq(s, 1, n)
           /\ TrimEnd(s) \in Seq(S) /\ Len(TrimEnd(s)) = n
           /\ \A j \in 1 .. n : TrimEnd(s)[j] = s[j]
<1>1. /\ Len(s) \in Nat /\ n \in 0 .. Len(s)
      /\ n > 0 => s[n] \notin Blank
      /\ \A j \in (n + 1) .. Len(s) : s[j] \in Blank
  BY DEF BlankFrom
<1> DEFINE Ends(m) == (m > 0 => s[m] \notin Blank) /\ \A j \in (m + 1) .. Len(s) : s[j] \in Blank
<1>2. Ends(n)
  BY <1>1
<1>3. ASSUME NEW m \in 0 .. Len(s), Ends(m) PROVE m = n
  <2>1. CASE m < n
    <3>1. n \in (m + 1) .. Len(s) /\ n > 0
      BY <1>1, <2>1
    <3> QED BY <1>1, <1>3, <3>1
  <2>2. CASE n < m
    <3>1. m \in (n + 1) .. Len(s) /\ m > 0
      BY <1>1, <2>2
    <3> QED BY <1>1, <1>3, <3>1
  <2> QED BY <1>1, <2>1, <2>2
<1>4. TrimEnd(s) = SubSeq(s, 1, CHOOSE m \in 0 .. Len(s) : Ends(m))
  BY DEF TrimEnd
<1>5. (CHOOSE m \in 0 .. Len(s) : Ends(m)) = n
  <2> HIDE DEF Ends
  <2> QED BY <1>1, <1>2, <1>3
<1>6. TrimEnd(s) = SubSeq(s, 1, n)
  BY <1>4, <1>5
<1>7. SubSeq(s, 1, n) \in Seq(S) /\ Len(SubSeq(s, 1, n)) = n /\ \A j \in 1 .. n : SubSeq(s, 1, n)[j] = s[j]
  BY <1>1, Divided
<1> QED BY <1>6, <1>7

(* A carriage return is dropped, or not.                                   *)
LEMMA DropCRIs ==
    ASSUME NEW S, NEW s \in Seq(S)
    PROVE  /\ DropCR(s) \in Seq(S)
           /\ Len(DropCR(s)) = IF Len(s) > 0 /\ s[Len(s)] = "\r" THEN Len(s) - 1 ELSE Len(s)
           /\ \A j \in 1 .. Len(DropCR(s)) : DropCR(s)[j] = s[j]
<1>1. Len(s) \in Nat /\ (s # << >> <=> Len(s) > 0)
  OBVIOUS
<1>2. CASE Len(s) > 0 /\ s[Len(s)] = "\r"
  <2>1. DropCR(s) = SubSeq(s, 1, Len(s) - 1)
    BY <1>1, <1>2 DEF DropCR
  <2>2. Len(s) - 1 \in 0 .. Len(s)
    BY <1>1, <1>2
  <2>3. /\ SubSeq(s, 1, Len(s) - 1) \in Seq(S) /\ Len(SubSeq(s, 1, Len(s) - 1)) = Len(s) - 1
        /\ \A j \in 1 .. (Len(s) - 1) : SubSeq(s, 1, Len(s) - 1)[j] = s[j]
    BY <2>2, Divided, ZenonT(40)
  <2> QED BY <1>2, <2>1, <2>3
<1>3. CASE ~(Len(s) > 0 /\ s[Len(s)] = "\r")
  <2>1. DropCR(s) = s
    BY <1>1, <1>3 DEF DropCR
  <2> QED BY <1>3, <2>1
<1> QED BY <1>2, <1>3

-----------------------------------------------------------------------------
(* Symbols, and the content of a line.                                     *)

(* Every literal is a string, which the provers do not know: the ones that  *)
(* are looked for or written are named.                                    *)
Symbol == STRING \cup {"\n", "=", "'", "#", "{", "}", "seal", ":", "v1",
                       "-----BEGIN", "PRIVATE", " ", "KEY-----"}

Str == Seq(Symbol)

(* A word of one symbol.                                                   *)
LEMMA FirstSymbol ==
    ASSUME NEW s \in Str, NEW c \in Symbol, NEW from \in Nat \ {0}, NEW i
    PROVE  First(<<c>>, s, from, i) <=>
               /\ i \in from .. Len(s) /\ s[i] = c
               /\ \A j \in from .. (i - 1) : s[j] # c
<1>1. Len(s) \in Nat /\ s \in Seq(Symbol)
  BY DEF Str
<1>w. PICK w : w = <<c>>
  OBVIOUS
<1>2. w \in Seq(Symbol) /\ Len(w) = 1 /\ w[1] = c
  BY <1>w
<1>3. ASSUME NEW j \in from .. Len(s) PROVE At(w, s, j) <=> s[j] = c
  <2>1. j \in Nat \ {0} /\ j <= Len(s)
    BY <1>1
  <2>2. At(w, s, j) <=> j <= Len(s) /\ s[j] = w[1]
    BY ONLY <1>1, <1>2, <2>1, SymbolAt
  <2> QED BY <1>2, <2>1, <2>2
<1>4. CASE i \in from .. Len(s)
  <2>1. \A j \in from .. (i - 1) : j \in from .. Len(s)
    BY <1>1, <1>4
  <2>2. First(w, s, from, i) <=> At(w, s, i) /\ \A j \in from .. (i - 1) : ~At(w, s, j)
    BY <1>4 DEF First
  <2> QED BY <1>3, <1>4, <1>w, <2>1, <2>2
<1>5. CASE i \notin from .. Len(s)
  BY <1>5 DEF First
<1> QED BY <1>4, <1>5

(* A line, place by place. Its content starts at c: what is not blank, or  *)
(* what is not blank behind "export" and a blank.                          *)
Exported(line, k) == k < Len(line) /\ line[k] = "export" /\ line[k + 1] \in Blank

Content(line, c) ==
    \E k : /\ BlanksTo(line, 1, k)
           /\ IF Exported(line, k) THEN BlanksTo(line, k + 1, c) ELSE c = k

LEMMA ContentReads ==
    ASSUME NEW S, NEW line \in Seq(S), NEW c, Content(line, c)
    PROVE  /\ c \in 1 .. (Len(line) + 1)
           /\ AfterExport(TrimStart(line)) = Rest(line, c)
<1>1. PICK k : /\ BlanksTo(line, 1, k)
               /\ IF Exported(line, k) THEN BlanksTo(line, k + 1, c) ELSE c = k
  BY DEF Content
<1>r. PICK r : r = Rest(line, k)
  OBVIOUS
<1>2. TrimStart(line) = r
  BY <1>1, <1>r, TrimStartIs
<1>3. k \in 1 .. (Len(line) + 1) /\ k \in Nat /\ Len(line) \in Nat
  BY <1>1 DEF BlanksTo
<1>4. /\ r \in Seq(S) /\ Len(r) = Len(line) - k + 1
      /\ \A n \in 1 .. (Len(line) - k + 1) : r[n] = line[k + n - 1]
  BY <1>3, <1>r, RestIs, ZenonT(40)
<1>5. Exported(line, k) <=> Len(r) > 1 /\ r[1] = "export" /\ r[2] \in Blank
  <2>1. Len(r) > 1 <=> k < Len(line)
    BY <1>3, <1>4
  <2>2. k < Len(line) => r[1] = line[k] /\ r[2] = line[k + 1]
    <3>1. k < Len(line) => /\ 1 \in 1 .. (Len(line) - k + 1) /\ 2 \in 1 .. (Len(line) - k + 1)
                           /\ k + 1 - 1 = k /\ k + 2 - 1 = k + 1
      BY <1>3
    <3> QED BY <1>4, <3>1
  <2> QED BY <2>1, <2>2 DEF Exported
<1>6. CASE ~Exported(line, k)
  <2>1. AfterExport(r) = r
    BY <1>5, <1>6 DEF AfterExport
  <2> QED BY <1>1, <1>2, <1>3, <1>6, <1>r, <2>1
<1>7. CASE Exported(line, k)
  <2>1. AfterExport(r) = TrimStart(Tail(r))
    BY <1>5, <1>7 DEF AfterExport
  <2>2. k + 1 \in 1 .. (Len(line) + 1) /\ k + 1 \in Nat
    BY <1>3, <1>7 DEF Exported
  <2>p. PICK p : p = Rest(line, k + 1)
    OBVIOUS
  <2>3. /\ p \in Seq(S) /\ Len(p) = Len(line) - (k + 1) + 1
        /\ \A n \in 1 .. (Len(line) - (k + 1) + 1) : p[n] = line[(k + 1) + n - 1]
    BY <2>2, <2>p, RestIs
  <2>4. Len(r) > 1
    BY <1>5, <1>7
  <2>5. /\ Tail(r) \in Seq(S) /\ Len(Tail(r)) = Len(r) - 1
        /\ \A n \in 1 .. (Len(r) - 1) : Tail(r)[n] = r[n + 1]
    BY <1>4, <2>4
  <2>6. Len(Tail(r)) = Len(p)
    <3>1. Len(p) = Len(line) - (k + 1) + 1 /\ Len(r) = Len(line) - k + 1
      BY <1>4, <2>3
    <3>2. Len(p) = Len(r) - 1
      BY ONLY <1>3, <3>1
    <3> QED BY <2>5, <3>2
  <2>7. ASSUME NEW n \in 1 .. Len(p) PROVE Tail(r)[n] = p[n]
    <3>1. /\ n \in 1 .. (Len(r) - 1) /\ n + 1 \in 1 .. (Len(line) - k + 1)
          /\ n \in 1 .. (Len(line) - (k + 1) + 1) /\ k + (n + 1) - 1 = (k + 1) + n - 1
      BY <1>3, <1>4, <2>3
    <3> QED BY <1>4, <2>3, <2>5, <3>1
  <2>8. Tail(r) = p
    <3>t. PICK u : u = Tail(r)
      OBVIOUS
    <3>1. u \in Seq(S) /\ p \in Seq(S) /\ Len(u) = Len(p) /\ \A n \in 1 .. Len(u) : u[n] = p[n]
      BY <2>3, <2>5, <2>6, <2>7, <3>t
    <3> QED BY <3>1, <3>t, SeqEqual
  <2>9. BlanksTo(line, k + 1, c)
    BY <1>1, <1>7
  <2>10. TrimStart(Rest(line, k + 1)) = Rest(line, c)
    BY <2>2, <2>9, TrimStartOfRest
  <2>11. c \in 1 .. (Len(line) + 1)
    BY <1>3, <2>9 DEF BlanksTo
  <2> QED BY <1>2, <2>1, <2>8, <2>10, <2>11, <2>p
<1> QED BY <1>6, <1>7

LEMMA ContentStarts ==
    ASSUME NEW S, NEW line \in Seq(S)
    PROVE  \E c : Content(line, c)
<1>1. Len(line) \in Nat /\ 1 \in 1 .. (Len(line) + 1)
  OBVIOUS
<1>2. PICK k : BlanksTo(line, 1, k)
  BY <1>1, BlanksEnd
<1>3. CASE Exported(line, k)
  <2>1. k + 1 \in 1 .. (Len(line) + 1)
    BY <1>1, <1>2, <1>3 DEF Exported, BlanksTo
  <2>2. PICK c : BlanksTo(line, k + 1, c)
    BY <2>1, BlanksEnd
  <2> QED BY <1>2, <1>3, <2>2 DEF Content
<1>4. CASE ~Exported(line, k)
  BY <1>2, <1>4 DEF Content
<1> QED BY <1>3, <1>4

-----------------------------------------------------------------------------
(* What LineEntry takes apart of a line, said of positions in the line.    *)

(* The first "=" of the content is at q; the value's text starts at b.     *)
EqAt(line, c, q) ==
    /\ q \in (c + 1) .. Len(line) /\ line[q] = "="
    /\ \A j \in c .. (q - 1) : line[j] # "="

KeyOf(line, c, q) == TrimEnd(Slice(line, c, q))

Named(key) == key # << >> /\ \A n \in DOMAIN key : key[n] \notin Blank

Assigns(line, c, q, b) ==
    /\ Content(line, c) /\ EqAt(line, c, q) /\ BlanksTo(line, q + 1, b)
    /\ Named(KeyOf(line, c, q))

EntryAt(i, b, key, v) ==
    [key |-> key, value |-> v.value,
     start |-> (i - 1) + (b - 1) + v.start, end |-> (i - 1) + (b - 1) + v.end]

LEMMA Equals == "=" \in Symbol
BY DEF Symbol

(* What LineEntry takes apart.                                             *)
TakesApart(line, c, q, x, n) ==
    /\ n \in 2 .. Len(x) /\ First(<<"=">>, x, 1, n) <=> EqAt(line, c, q)
    /\ EqAt(line, c, q) =>
         /\ SubSeq(x, 1, n - 1) = Slice(line, c, q)
         /\ \A b : BlanksTo(line, q + 1, b) =>
                 TrimStart(SubSeq(x, n + 1, Len(x))) = Rest(line, b)

LEMMA AssignmentReads ==
    ASSUME NEW line \in Str, NEW c \in 1 .. (Len(line) + 1), NEW q \in Int,
           NEW x, x = Rest(line, c), NEW n, n = q - c + 1
    PROVE  TakesApart(line, c, q, x, n)
<1>1. line \in Seq(Symbol) /\ Len(line) \in Nat /\ c \in Nat /\ q \in Int
  BY DEF Str
<1>2. /\ x \in Seq(Symbol) /\ Len(x) = Len(line) - c + 1
      /\ \A j \in 1 .. (Len(line) - c + 1) : x[j] = line[c + j - 1]
  <2> QED BY ONLY <1>1, x = Rest(line, c), c \in 1 .. (Len(line) + 1), RestIs, ZenonT(40)
<1>e. PICK e : e = "="
  OBVIOUS
<1>3. /\ n \in 2 .. Len(x) /\ First(<<"=">>, x, 1, n) <=> EqAt(line, c, q)
  <2>1. First(<<e>>, x, 1, n) <=> n \in 1 .. Len(x) /\ x[n] = e /\ \A j \in 1 .. (n - 1) : x[j] # e
    <3>1. x \in Str /\ e \in Symbol /\ 1 \in Nat \ {0}
      BY <1>2, <1>e, Equals DEF Str
    <3> QED BY ONLY <3>1, FirstSymbol
  <2>2. EqAt(line, c, q) <=> /\ q \in (c + 1) .. Len(line) /\ line[q] = e
                             /\ \A j \in c .. (q - 1) : line[j] # e
    BY <1>e DEF EqAt
  <2>3. n \in 2 .. Len(x) <=> q \in (c + 1) .. Len(line)
    BY <1>1, <1>2
  <2>4. ASSUME n \in 2 .. Len(x), q \in (c + 1) .. Len(line)
        PROVE  /\ x[n] = line[q] /\ n \in 1 .. Len(x)
               /\ (\A j \in 1 .. (n - 1) : x[j] # e) <=> (\A j \in c .. (q - 1) : line[j] # e)
    <3>1. n \in 1 .. (Len(line) - c + 1) /\ c + n - 1 = q /\ n \in 1 .. Len(x)
      BY <1>1, <1>2, <2>4
    <3>2. ASSUME \A j \in 1 .. (n - 1) : x[j] # e, NEW j \in c .. (q - 1) PROVE line[j] # e
      <4>1. /\ j - c + 1 \in 1 .. (n - 1) /\ j - c + 1 \in 1 .. (Len(line) - c + 1)
            /\ c + (j - c + 1) - 1 = j
        BY <1>1, <2>4
      <4> QED BY <1>2, <3>2, <4>1
    <3>3. ASSUME \A j \in c .. (q - 1) : line[j] # e, NEW j \in 1 .. (n - 1) PROVE x[j] # e
      <4>1. j \in 1 .. (Len(line) - c + 1) /\ c + j - 1 \in c .. (q - 1)
        BY <1>1, <2>4
      <4> QED BY <1>2, <3>3, <4>1
    <3> QED BY <1>2, <3>1, <3>2, <3>3
  <2> QED BY <1>e, <2>1, <2>2, <2>3, <2>4
<1>4. ASSUME EqAt(line, c, q) PROVE SubSeq(x, 1, n - 1) = Slice(line, c, q)
  <2>1. q \in (c + 1) .. Len(line)
    BY <1>4 DEF EqAt
  <2>2. n - 1 \in 0 .. Len(x) /\ q \in c .. (Len(line) + 1) /\ q - c = n - 1
    BY <1>1, <1>2, <2>1
  <2>s. PICK s : s = SubSeq(x, 1, n - 1)
    OBVIOUS
  <2>k. PICK k : k = n - 1
    OBVIOUS
  <2>3. s \in Seq(Symbol) /\ Len(s) = k /\ \A j \in 1 .. k : s[j] = x[j]
    <3>1. x \in Seq(Symbol) /\ k \in 0 .. Len(x) /\ s = SubSeq(x, 1, k)
      BY <1>2, <2>2, <2>s, <2>k
    <3> QED BY ONLY <3>1, Divided
  <2>u. PICK u : u = Slice(line, c, q)
    OBVIOUS
  <2>4. u \in Seq(Symbol) /\ Len(u) = q - c /\ \A j \in 1 .. (q - c) : u[j] = line[c + j - 1]
    BY ONLY <1>1, c \in 1 .. (Len(line) + 1), <2>2, <2>u, SliceIs, ZenonT(40)
  <2>5. ASSUME NEW j \in 1 .. Len(s) PROVE s[j] = u[j]
    <3>1. j \in 1 .. k /\ j \in 1 .. (Len(line) - c + 1) /\ j \in 1 .. (q - c)
      BY <1>1, <2>1, <2>2, <2>3, <2>k
    <3> QED BY <1>2, <2>3, <2>4, <3>1
  <2>6. Len(s) = Len(u)
    BY <2>2, <2>3, <2>4, <2>k
  <2>7. s = u
    BY ONLY <2>3, <2>4, <2>5, <2>6, SeqEqual
  <2> QED BY <2>s, <2>u, <2>7
<1>5. ASSUME EqAt(line, c, q), NEW b, BlanksTo(line, q + 1, b)
      PROVE  TrimStart(SubSeq(x, n + 1, Len(x))) = Rest(line, b)
  <2>1. q \in (c + 1) .. Len(line)
    BY <1>5 DEF EqAt
  <2>2. /\ n + 1 \in 1 .. (Len(line) - c + 2) /\ c + (n + 1) - 1 = q + 1
        /\ q + 1 \in 1 .. (Len(line) + 1)
    BY <1>1, <2>1
  <2>m. PICK m : m = n + 1
    OBVIOUS
  <2>3. Rest(Rest(line, c), m) = Rest(line, c + m - 1)
    <3>1. m \in 1 .. (Len(line) - c + 2)
      BY <2>2, <2>m
    <3> QED BY ONLY <1>1, c \in 1 .. (Len(line) + 1), <3>1, RestOfRest
  <2>4. SubSeq(x, n + 1, Len(x)) = Rest(line, q + 1)
    BY <2>2, <2>3, <2>m DEF Rest
  <2>5. TrimStart(Rest(line, q + 1)) = Rest(line, b)
    BY ONLY <1>1, <1>5, <2>2, TrimStartOfRest
  <2> QED BY <2>4, <2>5
<1> QED BY <1>3, <1>4, <1>5 DEF TakesApart

(* The lengths of a line and of what is left of it are naturals.           *)
LEMMA PlaceOfBody ==
    ASSUME NEW line \in Str, NEW i \in Nat, NEW b \in 1 .. (Len(line) + 1)
    PROVE  i - 1 + Len(line) - Len(Rest(line, b)) = (i - 1) + (b - 1)
<1>1. line \in Seq(Symbol) /\ Len(line) \in Nat
  BY DEF Str
<1>2. Len(Rest(line, b)) = Len(line) - b + 1
  BY <1>1, RestIs
<1> QED BY <1>1, <1>2

(* The parts of LineEntry.                                                 *)
ContentOf(t, i) == AfterExport(TrimStart(Line(t, i)))

EntriesFrom(t, i, n) ==
    LET x    == ContentOf(t, i)
        body == TrimStart(SubSeq(x, n + 1, Len(x)))
        before == i - 1 + Len(Line(t, i)) - Len(body)
    IN  {[key |-> TrimEnd(SubSeq(x, 1, n - 1)), value |-> v.value,
          start |-> before + v.start, end |-> before + v.end] : v \in ParseValue(body)}

Assignments(t, i) ==
    {n \in 2 .. Len(ContentOf(t, i)) :
        /\ First(<<"=">>, ContentOf(t, i), 1, n)
        /\ Named(TrimEnd(SubSeq(ContentOf(t, i), 1, n - 1)))}

LEMMA LineEntryIs ==
    \A t, i : LineEntry(t, i) = UNION {EntriesFrom(t, i, n) : n \in Assignments(t, i)}
BY DEF LineEntry, EntriesFrom, Assignments, ContentOf, Named

LEMMA EntriesFromIs ==
    ASSUME NEW t, NEW i \in Nat, Line(t, i) \in Str, NEW c, NEW q, NEW b,
           Assigns(Line(t, i), c, q, b)
    PROVE  /\ q - c + 1 \in Assignments(t, i)
           /\ EntriesFrom(t, i, q - c + 1) =
                {EntryAt(i, b, KeyOf(Line(t, i), c, q), v) : v \in ParseValue(Rest(Line(t, i), b))}
<1>l. PICK l : l = Line(t, i)
  OBVIOUS
<1>1. l \in Str /\ l \in Seq(Symbol) /\ Content(l, c) /\ EqAt(l, c, q) /\ BlanksTo(l, q + 1, b) /\ Named(KeyOf(l, c, q))
  BY <1>l DEF Assigns, Str
<1>2. c \in 1 .. (Len(l) + 1) /\ AfterExport(TrimStart(l)) = Rest(l, c)
  BY ONLY <1>1, ContentReads
<1>x. PICK x : x = Rest(l, c)
  OBVIOUS
<1>n. PICK n : n = q - c + 1
  OBVIOUS
<1>3. x = ContentOf(t, i) /\ q \in Int
  BY <1>1, <1>2, <1>x, <1>l DEF ContentOf, EqAt
<1>4. /\ n \in 2 .. Len(x) /\ First(<<"=">>, x, 1, n)
      /\ SubSeq(x, 1, n - 1) = Slice(l, c, q)
      /\ TrimStart(SubSeq(x, n + 1, Len(x))) = Rest(l, b)
  <2>1. TakesApart(l, c, q, x, n)
    BY ONLY <1>1, <1>2, <1>3, <1>x, <1>n, AssignmentReads
  <2> QED BY ONLY <1>1, <2>1 DEF TakesApart
<1>5. TrimEnd(SubSeq(x, 1, n - 1)) = KeyOf(l, c, q)
  BY <1>4 DEF KeyOf
<1>6. n \in Assignments(t, i)
  BY <1>1, <1>3, <1>4, <1>5 DEF Assignments
<1>7. b \in 1 .. (Len(l) + 1)
  BY <1>1, <1>2 DEF BlanksTo, EqAt
<1>8. i - 1 + Len(l) - Len(Rest(l, b)) = (i - 1) + (b - 1)
  BY <1>1, <1>7, PlaceOfBody
<1>9. EntriesFrom(t, i, n) = {EntryAt(i, b, KeyOf(l, c, q), v) : v \in ParseValue(Rest(l, b))}
  BY <1>3, <1>4, <1>5, <1>8, <1>l DEF EntriesFrom, EntryAt
<1> QED BY <1>l, <1>n, <1>6, <1>9

(* A line that assigns has the entry that is read from it.                 *)
LEMMA ReadIsEntry ==
    ASSUME NEW t, NEW i \in Nat, Line(t, i) \in Str, NEW c, NEW q, NEW b,
           Assigns(Line(t, i), c, q, b)
    PROVE  LineEntry(t, i) =
             {EntryAt(i, b, KeyOf(Line(t, i), c, q), v) : v \in ParseValue(Rest(Line(t, i), b))}
<1>l. PICK l : l = Line(t, i)
  OBVIOUS
<1>1. q - c + 1 \in Assignments(t, i)
  BY EntriesFromIs
<1>2. ASSUME NEW m \in Assignments(t, i) PROVE m = q - c + 1
  <2>1. /\ m \in 2 .. Len(ContentOf(t, i)) /\ First(<<"=">>, ContentOf(t, i), 1, m)
        /\ q - c + 1 \in 2 .. Len(ContentOf(t, i)) /\ First(<<"=">>, ContentOf(t, i), 1, q - c + 1)
    BY <1>1, <1>2 DEF Assignments
  <2>2. ContentOf(t, i) = Rest(l, c) /\ c \in 1 .. (Len(l) + 1) /\ l \in Seq(Symbol)
    <3>1. l \in Seq(Symbol) /\ Content(l, c)
      BY <1>l DEF Assigns, Str
    <3> QED BY <1>l, <3>1, ContentReads DEF ContentOf
  <2>3. Len(ContentOf(t, i)) \in Nat
    <3>1. Rest(l, c) \in Seq(Symbol)
      BY <2>2, RestIs
    <3> QED BY <2>2, <3>1
  <2>4. 1 \in Nat /\ m \in Nat /\ q - c + 1 \in Nat
    BY <2>1
  <2> QED BY ONLY <2>1, <2>3, <2>4, FirstIsOne
<1>3. Assignments(t, i) = {q - c + 1}
  BY <1>1, <1>2
<1>4. LineEntry(t, i) = EntriesFrom(t, i, q - c + 1)
  <2>1. LineEntry(t, i) = UNION {EntriesFrom(t, i, n) : n \in Assignments(t, i)}
    BY LineEntryIs
  <2> QED BY <1>3, <2>1
<1> QED BY <1>4, EntriesFromIs

(* And every entry is read from a line so.                                 *)
LEMMA EntryIsRead ==
    ASSUME NEW t, NEW i \in Nat, Line(t, i) \in Str, NEW e \in LineEntry(t, i)
    PROVE  \E c, q, b :
             /\ Assigns(Line(t, i), c, q, b)
             /\ \E v \in ParseValue(Rest(Line(t, i), b)) : e = EntryAt(i, b, KeyOf(Line(t, i), c, q), v)
<1>l. PICK l : l = Line(t, i)
  OBVIOUS
<1>1. l \in Str /\ l \in Seq(Symbol) /\ Len(l) \in Nat
  BY <1>l DEF Str
<1>2. PICK n \in Assignments(t, i) : e \in EntriesFrom(t, i, n)
  BY LineEntryIs
<1>3. PICK c : Content(l, c)
  BY <1>1, ContentStarts
<1>4. c \in 1 .. (Len(l) + 1) /\ ContentOf(t, i) = Rest(l, c)
  BY <1>1, <1>3, <1>l, ContentReads DEF ContentOf
<1>x. PICK x : x = Rest(l, c)
  OBVIOUS
<1>5. n \in 2 .. Len(x) /\ First(<<"=">>, x, 1, n) /\ Named(TrimEnd(SubSeq(x, 1, n - 1)))
  BY <1>2, <1>4, <1>x DEF Assignments
<1>q. PICK q : q = n + c - 1
  OBVIOUS
<1>6. q \in Int /\ n = q - c + 1
  BY <1>4, <1>5, <1>q
<1>7. EqAt(l, c, q) /\ SubSeq(x, 1, n - 1) = Slice(l, c, q)
  <2>1. TakesApart(l, c, q, x, n)
    BY ONLY <1>1, <1>4, <1>6, <1>x, AssignmentReads
  <2> QED BY ONLY <1>5, <2>1 DEF TakesApart
<1>8. Named(KeyOf(l, c, q))
  BY <1>5, <1>7 DEF KeyOf
<1>9. q + 1 \in 1 .. (Len(l) + 1)
  BY <1>1, <1>4, <1>7 DEF EqAt
<1>10. PICK b : BlanksTo(l, q + 1, b)
  BY ONLY <1>1, <1>9, BlanksEnd
<1>11. Assigns(l, c, q, b)
  BY <1>3, <1>7, <1>8, <1>10 DEF Assigns
<1>12. EntriesFrom(t, i, n) = {EntryAt(i, b, KeyOf(l, c, q), v) : v \in ParseValue(Rest(l, b))}
  BY <1>6, <1>11, <1>l, EntriesFromIs
<1> QED BY <1>2, <1>11, <1>12, <1>l

-----------------------------------------------------------------------------
(* Bare values and escapes.                                                *)

(* What StripInlineComment keeps is up to m; a bare value is up to n.      *)
CommentAt(body, i) == body[i] = "#" /\ body[i - 1] = " "

KeptTo(body, m) ==
    /\ m \in 0 .. Len(body)
    /\ \A i \in 2 .. m : ~CommentAt(body, i)
    /\ m < Len(body) => m >= 1 /\ CommentAt(body, m + 1)

BareTo(body, m, n) ==
    /\ KeptTo(body, m) /\ n \in 0 .. m
    /\ n > 0 => body[n] \notin Blank
    /\ \A j \in (n + 1) .. m : body[j] \in Blank

LEMMA KeptIs ==
    ASSUME NEW body \in Str, NEW m, KeptTo(body, m)
    PROVE  StripInlineComment(body) = SubSeq(body, 1, m)
<1> DEFINE starts == {i \in 2 .. Len(body) : CommentAt(body, i)}
           first == CHOOSE i \in starts : \A j \in starts : i <= j
<1>1. body \in Seq(Symbol) /\ Len(body) \in Nat
  BY DEF Str
<1>2. /\ m \in 0 .. Len(body) /\ m \in Nat /\ \A i \in 2 .. m : ~CommentAt(body, i)
      /\ m < Len(body) => m >= 1 /\ m + 1 \in starts
  <2>1. m < Len(body) /\ m >= 1 => m + 1 \in 2 .. Len(body) /\ (m + 1) - 1 = m
    BY <1>1 DEF KeptTo
  <2> QED BY <1>1, <2>1 DEF KeptTo
<1>3. StripInlineComment(body) = IF starts = {} THEN body ELSE SubSeq(body, 1, first - 1)
  BY DEF StripInlineComment, CommentAt
<1>4. \A i \in starts : i \in 2 .. Len(body) /\ ~(i \in 2 .. m)
  BY <1>2
<1> HIDE DEF starts
<1>5. CASE m = Len(body)
  <2>1. starts = {}
    BY <1>4, <1>5
  <2>2. SubSeq(body, 1, Len(body)) = body
    BY <1>1, SubSeqFull
  <2> QED BY <1>3, <1>5, <2>1, <2>2
<1>6. CASE m < Len(body)
  <2>1. m + 1 \in starts /\ \A j \in starts : m + 1 <= j
    BY <1>1, <1>2, <1>4, <1>6
  <2>2. \A i \in starts : (\A j \in starts : i <= j) => i = m + 1
    BY <1>1, <1>2, <1>4, <2>1
  <2>3. first = m + 1
    BY <2>1, <2>2
  <2>4. (m + 1) - 1 = m /\ starts # {}
    BY <1>2, <2>1
  <2> HIDE DEF first
  <2> QED BY <1>3, <2>3, <2>4
<1> QED BY <1>1, <1>2, <1>5, <1>6

LEMMA KeptEnds ==
    ASSUME NEW body \in Str
    PROVE  \E m : KeptTo(body, m)
<1> DEFINE starts == {i \in 2 .. Len(body) : CommentAt(body, i)}
<1>1. body \in Seq(Symbol) /\ Len(body) \in Nat
  BY DEF Str
<1>2. CASE starts = {}
  <2>1. KeptTo(body, Len(body))
    BY <1>1, <1>2 DEF KeptTo
  <2> QED BY <2>1
<1>3. CASE starts # {}
  <2>1. starts \in SUBSET Nat
    BY <1>1
  <2>2. PICK s \in starts : \A k \in starts : s <= k
    <3> HIDE DEF starts
    <3> QED BY <1>3, <2>1, LeastNatural
  <2>m. PICK m : m = s - 1
    OBVIOUS
  <2>3. s \in 2 .. Len(body) /\ CommentAt(body, s) /\ m \in 1 .. Len(body) /\ m + 1 = s
    BY <1>1, <2>2, <2>m
  <2>4. ASSUME NEW i \in 2 .. m PROVE ~CommentAt(body, i)
    <3>1. i \in 2 .. Len(body) /\ ~(s <= i)
      BY <1>1, <2>3
    <3> QED BY <2>2, <3>1
  <2>5. m \in 0 .. Len(body) /\ m >= 1 /\ CommentAt(body, m + 1)
    BY <1>1, <2>3, <2>m
  <2>6. KeptTo(body, m)
    BY <2>4, <2>5 DEF KeptTo
  <2> QED BY <2>6
<1> QED BY <1>2, <1>3

LEMMA BareEnds ==
    ASSUME NEW body \in Str
    PROVE  \E m, n : BareTo(body, m, n)
<1>1. body \in Seq(Symbol) /\ Len(body) \in Nat
  BY DEF Str
<1>2. PICK m : KeptTo(body, m)
  BY KeptEnds
<1>3. m \in 0 .. Len(body)
  BY <1>2 DEF KeptTo
<1>s. PICK s : s = SubSeq(body, 1, m)
  OBVIOUS
<1>4. s \in Seq(Symbol) /\ Len(s) = m /\ \A j \in 1 .. m : s[j] = body[j]
  BY ONLY <1>1, <1>3, <1>s, Divided
<1>5. PICK n : BlankFrom(s, n)
  BY <1>4, BlanksStart
<1>6. BareTo(body, m, n)
  <2>1. n \in 0 .. m /\ (n > 0 => s[n] \notin Blank) /\ \A j \in (n + 1) .. m : s[j] \in Blank
    BY <1>4, <1>5 DEF BlankFrom
  <2>2. (n > 0 => n \in 1 .. m) /\ \A j \in (n + 1) .. m : j \in 1 .. m
    BY <1>3, <2>1
  <2> QED BY <1>2, <1>4, <2>1, <2>2 DEF BareTo
<1> QED BY <1>6

BareValue(body, n) == [value |-> SubSeq(body, 1, n), start |-> 1, end |-> 1 + n]

LEMMA BareIs ==
    ASSUME NEW body \in Str, NEW m, NEW n, BareTo(body, m, n)
    PROVE  Bare(body) = {BareValue(body, n)}
<1>1. body \in Seq(Symbol) /\ Len(body) \in Nat
  BY DEF Str
<1>2. /\ m \in 0 .. Len(body) /\ n \in 0 .. m /\ KeptTo(body, m)
      /\ n > 0 => body[n] \notin Blank
      /\ \A j \in (n + 1) .. m : body[j] \in Blank
  BY DEF BareTo, KeptTo
<1>s. PICK s : s = SubSeq(body, 1, m)
  OBVIOUS
<1>3. s \in Seq(Symbol) /\ Len(s) = m /\ \A j \in 1 .. m : s[j] = body[j]
  BY ONLY <1>1, <1>2, <1>s, Divided
<1>4. BlankFrom(s, n)
  <2>1. (n > 0 => n \in 1 .. m) /\ \A j \in (n + 1) .. m : j \in 1 .. m
    BY <1>2
  <2> QED BY <1>2, <1>3, <2>1 DEF BlankFrom
<1>u. PICK u : u = TrimEnd(s)
  OBVIOUS
<1>5. u \in Seq(Symbol) /\ Len(u) = n /\ \A j \in 1 .. n : u[j] = s[j]
  BY <1>3, <1>4, <1>u, TrimEndIs
<1>w. PICK w : w = SubSeq(body, 1, n)
  OBVIOUS
<1>6. w \in Seq(Symbol) /\ Len(w) = n /\ \A j \in 1 .. n : w[j] = body[j]
  <2>1. n \in 0 .. Len(body)
    BY <1>1, <1>2
  <2> QED BY ONLY <1>1, <2>1, <1>w, Divided
<1>7. \A j \in 1 .. n : u[j] = w[j]
  <2>1. \A j \in 1 .. n : j \in 1 .. m
    BY <1>2
  <2> QED BY <1>3, <1>5, <1>6, <2>1
<1>8. u = w
  BY <1>5, <1>6, <1>7, SeqEqual
<1>9. TrimEnd(StripInlineComment(body)) = w
  BY <1>2, <1>8, <1>s, <1>u, KeptIs
<1>10. 1 + Len(w) = 1 + n
  BY <1>6
<1> QED BY <1>9, <1>10, <1>w DEF Bare, BareValue

(* A recursive function is what its definition says if there is such a     *)
(* function: one up to every place, by the last place up to which there is *)
(* one.                                                                    *)
EscapesTo(body, m, f) ==
    f = [i \in 1 .. m |-> i > 2 /\ body[i - 1] = "\\" /\ ~f[i - 1]]

LEMMA EscapesExtend ==
    ASSUME NEW body, NEW m \in Nat, NEW f, EscapesTo(body, m, f)
    PROVE  \E g : EscapesTo(body, m + 1, g)
<1> DEFINE new == m + 1 > 2 /\ body[m] = "\\" /\ ~f[m]
           g == [i \in 1 .. (m + 1) |-> IF i = m + 1 THEN new ELSE f[i]]
<1>1. \A i \in 1 .. m : f[i] = (i > 2 /\ body[i - 1] = "\\" /\ ~f[i - 1])
  BY DEF EscapesTo
<1>2. ASSUME NEW i \in 1 .. (m + 1)
      PROVE  g[i] = (i > 2 /\ body[i - 1] = "\\" /\ ~g[i - 1])
  <2>1. CASE i = m + 1
    <3>1. i - 1 = m /\ (i > 2 => m \in 1 .. (m + 1) /\ m # m + 1)
      BY <2>1
    <3>2. i > 2 => g[i - 1] = f[m]
      BY <3>1
    <3>3. g[i] = new
      BY <2>1
    <3> HIDE DEF g
    <3> QED BY <2>1, <3>1, <3>2, <3>3
  <2>2. CASE i # m + 1
    <3>1. i \in 1 .. m /\ (i > 2 => i - 1 \in 1 .. (m + 1) /\ i - 1 # m + 1)
      BY <2>2
    <3>2. i > 2 => g[i - 1] = f[i - 1]
      BY <3>1
    <3>3. g[i] = f[i]
      BY <2>2
    <3> HIDE DEF g
    <3> QED BY <1>1, <3>1, <3>2, <3>3
  <2> QED BY <2>1, <2>2
<1>3. g = [i \in 1 .. (m + 1) |-> i > 2 /\ body[i - 1] = "\\" /\ ~g[i - 1]]
  <2>1. g = [i \in 1 .. (m + 1) |-> g[i]]
    OBVIOUS
  <2> HIDE DEF g
  <2> QED BY <1>2, <2>1
<1> HIDE DEF g
<1> QED BY <1>3 DEF EscapesTo

LEMMA EscapesExist ==
    ASSUME NEW body, NEW n \in Nat
    PROVE  \E f : EscapesTo(body, n, f)
<1> DEFINE Some == {m \in 0 .. n : \E f : EscapesTo(body, m, f)}
<1>1. 0 \in Some
  <2> DEFINE f == [i \in {} |-> TRUE]
  <2>1. 1 .. 0 = {}
    OBVIOUS
  <2>2. [i \in 1 .. 0 |-> i > 2 /\ body[i - 1] = "\\" /\ ~f[i - 1]] = f
    BY <2>1
  <2> HIDE DEF f
  <2>3. EscapesTo(body, 0, f)
    BY <2>2 DEF EscapesTo
  <2> QED BY <2>3
<1>2. PICK m \in Some : \A k \in Some : k <= m
  <2>1. Some \in SUBSET (0 .. n) /\ Some # {}
    BY <1>1
  <2> HIDE DEF Some
  <2> QED BY <2>1, GreatestNatural
<1>3. m = n
  <2>1. SUFFICES ASSUME m # n PROVE FALSE
    OBVIOUS
  <2>2. m \in Nat /\ m + 1 \in 0 .. n /\ ~(m + 1 <= m)
    BY <1>2, <2>1
  <2>3. \E f : EscapesTo(body, m, f)
    BY <1>2
  <2>4. m + 1 \in Some
    BY <2>2, <2>3, EscapesExtend
  <2> QED BY <1>2, <2>2, <2>4
<1> QED BY <1>2, <1>3

LEMMA EscapedIs ==
    ASSUME NEW body, Len(body) \in Nat, NEW i \in 1 .. Len(body)
    PROVE  EscapedIn(body)[i] = (i > 2 /\ body[i - 1] = "\\" /\ ~EscapedIn(body)[i - 1])
<1> DEFINE f == CHOOSE g : EscapesTo(body, Len(body), g)
<1>1. EscapedIn(body) = f
  BY DEF EscapedIn, EscapesTo
<1>2. EscapesTo(body, Len(body), f)
  BY EscapesExist
<1> HIDE DEF f
<1>3. f[i] = (i > 2 /\ body[i - 1] = "\\" /\ ~f[i - 1])
  BY <1>2 DEF EscapesTo
<1> QED BY <1>1, <1>3

-----------------------------------------------------------------------------
(* Unescaping, and SEALED.                                                 *)

UnescapesTo(body, escaped, m, f) ==
    f = [i \in 1 .. m |->
            IF i = 1 THEN << >>
            ELSE IF escaped[i] THEN Append(f[i - 1], Unescape(body[i]))
            ELSE IF body[i] = "\\" THEN f[i - 1]
            ELSE Append(f[i - 1], body[i])]

(* What one more symbol makes of the value so far.                         *)
Took(body, escaped, i, u) ==
    IF i = 1 THEN << >>
    ELSE IF escaped[i] THEN Append(u, Unescape(body[i]))
    ELSE IF body[i] = "\\" THEN u
    ELSE Append(u, body[i])

LEMMA UnescapesIs ==
    \A body, escaped, m, f :
        UnescapesTo(body, escaped, m, f) <=> f = [i \in 1 .. m |-> Took(body, escaped, i, f[i - 1])]
BY DEF UnescapesTo, Took

LEMMA UnescapesExtend ==
    ASSUME NEW body, NEW escaped, NEW m \in Nat, NEW f, UnescapesTo(body, escaped, m, f)
    PROVE  \E g : UnescapesTo(body, escaped, m + 1, g)
<1> DEFINE new == Took(body, escaped, m + 1, f[m])
           g == [i \in 1 .. (m + 1) |-> IF i = m + 1 THEN new ELSE f[i]]
<1>1. f = [i \in 1 .. m |-> Took(body, escaped, i, f[i - 1])]
  BY UnescapesIs
<1>2. ASSUME NEW i \in 1 .. (m + 1) PROVE g[i] = Took(body, escaped, i, g[i - 1])
  <2>1. CASE i = m + 1
    <3>1. i - 1 = m /\ (i # 1 => m \in 1 .. (m + 1) /\ m # m + 1)
      BY <2>1
    <3>2. i # 1 => g[i - 1] = f[m]
      BY <3>1
    <3>3. g[i] = new
      BY <2>1
    <3> HIDE DEF g
    <3> QED BY <2>1, <3>2, <3>3 DEF Took
  <2>2. CASE i # m + 1
    <3>1. i \in 1 .. m /\ (i # 1 => i - 1 \in 1 .. (m + 1) /\ i - 1 # m + 1)
      BY <2>2
    <3>2. i # 1 => g[i - 1] = f[i - 1]
      BY <3>1
    <3>3. g[i] = f[i]
      BY <2>2
    <3>4. f[i] = Took(body, escaped, i, f[i - 1])
      BY <1>1, <3>1
    <3> HIDE DEF g
    <3> QED BY <3>2, <3>3, <3>4 DEF Took
  <2> QED BY <2>1, <2>2
<1>3. g = [i \in 1 .. (m + 1) |-> Took(body, escaped, i, g[i - 1])]
  <2>1. g = [i \in 1 .. (m + 1) |-> g[i]]
    OBVIOUS
  <2> HIDE DEF g
  <2> QED BY <1>2, <2>1
<1> HIDE DEF g
<1> QED BY <1>3, UnescapesIs

LEMMA UnescapesExist ==
    ASSUME NEW body, NEW escaped, NEW n \in Nat
    PROVE  \E f : UnescapesTo(body, escaped, n, f)
<1> DEFINE Some == {m \in 0 .. n : \E f : UnescapesTo(body, escaped, m, f)}
<1>1. 0 \in Some
  <2> DEFINE f == [i \in {} |-> << >>]
  <2>1. 1 .. 0 = {}
    OBVIOUS
  <2>2. [i \in 1 .. 0 |-> Took(body, escaped, i, f[i - 1])] = f
    BY <2>1
  <2> HIDE DEF f
  <2>3. UnescapesTo(body, escaped, 0, f)
    BY <2>2, UnescapesIs
  <2> QED BY <2>3
<1>2. PICK m \in Some : \A k \in Some : k <= m
  <2>1. Some \in SUBSET (0 .. n) /\ Some # {}
    BY <1>1
  <2> HIDE DEF Some
  <2> QED BY <2>1, GreatestNatural
<1>3. m = n
  <2>1. SUFFICES ASSUME m # n PROVE FALSE
    OBVIOUS
  <2>2. m \in Nat /\ m + 1 \in 0 .. n /\ ~(m + 1 <= m)
    BY <1>2, <2>1
  <2>3. \E f : UnescapesTo(body, escaped, m, f)
    BY <1>2
  <2>4. m + 1 \in Some
    BY <2>2, <2>3, UnescapesExtend
  <2> QED BY <1>2, <2>2, <2>4
<1> QED BY <1>2, <1>3

LEMMA UnescapedIs ==
    ASSUME NEW body, NEW close \in Nat, close >= 2
    PROVE  \E f : /\ \A i \in 1 .. (close - 1) : f[i] = Took(body, EscapedIn(body), i, f[i - 1])
                  /\ Unescaped(body, close) = f[close - 1]
<1> DEFINE f == CHOOSE g : UnescapesTo(body, EscapedIn(body), close - 1, g)
<1>1. Unescaped(body, close) = f[close - 1]
  BY DEF Unescaped, UnescapesTo
<1>2. UnescapesTo(body, EscapedIn(body), close - 1, f)
  <2>1. close - 1 \in Nat
    OBVIOUS
  <2> QED BY <2>1, UnescapesExist
<1> HIDE DEF f
<1>3. f = [i \in 1 .. (close - 1) |-> Took(body, EscapedIn(body), i, f[i - 1])]
  BY <1>2, UnescapesIs
<1>4. \A i \in 1 .. (close - 1) : f[i] = Took(body, EscapedIn(body), i, f[i - 1])
  BY <1>3
<1> QED BY <1>1, <1>4

LEMMA SealedIs ==
    /\ SEALED \in Str /\ SEALED \in Seq(Symbol) /\ Len(SEALED) = 3
    /\ \A k \in 1 .. 3 : /\ SEALED[k] \in Symbol
                         /\ SEALED[k] \notin Blank \cup {"\"", "'", "\\", "#", "=", "{", "}", "export"}
    /\ SEALED[1] = "seal" /\ SEALED[2] = ":"
<1>1. SEALED = <<"seal", ":", "v1">> /\ {"seal", ":", "v1"} \subseteq Symbol
  BY DEF SEALED, Symbol
<1>2. SEALED \in Seq(Symbol) /\ Len(SEALED) = 3 /\ SEALED[1] = "seal" /\ SEALED[2] = ":" /\ SEALED[3] = "v1"
  BY <1>1
<1>3. \A k \in 1 .. 3 : k = 1 \/ k = 2 \/ k = 3
  OBVIOUS
<1>4. {"seal", ":", "v1"} \cap (Blank \cup {"\"", "'", "\\", "#", "=", "{", "}", "export"}) = {}
  BY DEF Blank
<1>5. ASSUME NEW k \in 1 .. 3 PROVE SEALED[k] \in {"seal", ":", "v1"}
  BY <1>2, <1>3
<1>6. ASSUME NEW k \in 1 .. 3
      PROVE  /\ SEALED[k] \in Symbol
             /\ SEALED[k] \notin Blank \cup {"\"", "'", "\\", "#", "=", "{", "}", "export"}
  BY <1>1, <1>4, <1>5
<1> QED BY <1>2, <1>6 DEF Str

(* SEALED stands at i.                                                     *)
SealedAt(t, i) == \A k \in 1 .. 3 : t[i + k - 1] = SEALED[k]

(* What stands behind the opening quote is the value, with whatever comes  *)
(* behind it.                                                              *)
LEMMA SealedUnescapes ==
    ASSUME NEW body \in Str, NEW close \in 5 .. Len(body), SealedAt(body, 2)
    PROVE  /\ Unescaped(body, close) \in Str /\ Len(Unescaped(body, close)) >= 3
           /\ \A k \in 1 .. 3 : Unescaped(body, close)[k] = SEALED[k]
           /\ close = 5 => Unescaped(body, close) = SEALED
<1>1. body \in Seq(Symbol) /\ Len(body) \in Nat /\ close \in Nat /\ close >= 2 /\ close >= 5
  BY DEF Str
<1>2. \A i \in 1 .. Len(body) : body[i] \in Symbol
  BY <1>1
<1>3. \A i \in 2 .. 4 : body[i] = SEALED[i - 1] /\ body[i] # "\\"
  <2> SUFFICES ASSUME NEW i \in 2 .. 4 PROVE body[i] = SEALED[i - 1] /\ body[i] # "\\"
    OBVIOUS
  <2>k. PICK k : k = i - 1
    OBVIOUS
  <2>1. k \in 1 .. 3 /\ 2 + k - 1 = i
    BY <2>k
  <2>2. body[i] = SEALED[k]
    BY <2>1 DEF SealedAt
  <2>3. SEALED[k] # "\\"
    BY <2>1, SealedIs
  <2> QED BY <2>k, <2>2, <2>3
<1>4. \A i \in 2 .. 4 : ~EscapedIn(body)[i]
  <2> SUFFICES ASSUME NEW i \in 2 .. 4, EscapedIn(body)[i] PROVE FALSE
    OBVIOUS
  <2>1. i \in 1 .. Len(body)
    BY <1>1
  <2>2. EscapedIn(body)[i] = (i > 2 /\ body[i - 1] = "\\" /\ ~EscapedIn(body)[i - 1])
    BY <1>1, <2>1, EscapedIs
  <2>3. i > 2 /\ body[i - 1] = "\\"
    BY <2>2
  <2>4. i - 1 \in 2 .. 4
    BY <2>3
  <2> QED BY <1>3, <2>3, <2>4
<1>5. PICK f : /\ \A i \in 1 .. (close - 1) : f[i] = Took(body, EscapedIn(body), i, f[i - 1])
               /\ Unescaped(body, close) = f[close - 1]
  BY <1>1, UnescapedIs
<1>6. f[1] = << >> /\ \A i \in 2 .. 4 : f[i] = Append(f[i - 1], body[i])
  <2>1. 1 \in 1 .. (close - 1) /\ \A i \in 2 .. 4 : i \in 1 .. (close - 1) /\ i # 1
    BY <1>1
  <2>2. f[1] = << >>
    BY <1>5, <2>1 DEF Took
  <2>3. ASSUME NEW i \in 2 .. 4 PROVE f[i] = Append(f[i - 1], body[i])
    BY <1>3, <1>4, <1>5, <2>1 DEF Took
  <2> QED BY <2>2, <2>3
<1>7. f[4] = SEALED
  <2>1. f[2] = Append(f[1], SEALED[1]) /\ f[3] = Append(f[2], SEALED[2]) /\ f[4] = Append(f[3], SEALED[3])
    BY <1>3, <1>6
  <2>2. SEALED[1] \in Symbol /\ SEALED[2] \in Symbol /\ SEALED[3] \in Symbol
    <3>1. 1 \in 1 .. 3 /\ 2 \in 1 .. 3 /\ 3 \in 1 .. 3
      OBVIOUS
    <3> QED BY <3>1, SealedIs
  <2>3. f[2] \in Seq(Symbol) /\ Len(f[2]) = 1 /\ f[2][1] = SEALED[1]
    BY ONLY <1>6, <2>1, <2>2
  <2>4. f[3] \in Seq(Symbol) /\ Len(f[3]) = 2 /\ f[3][1] = SEALED[1] /\ f[3][2] = SEALED[2]
    BY ONLY <2>1, <2>2, <2>3, AppendProperties
  <2>5. /\ f[4] \in Seq(Symbol) /\ Len(f[4]) = 3
        /\ f[4][1] = SEALED[1] /\ f[4][2] = SEALED[2] /\ f[4][3] = SEALED[3]
    BY ONLY <2>1, <2>2, <2>4, AppendProperties
  <2>6. SEALED \in Seq(Symbol) /\ Len(SEALED) = 3
    BY ONLY SealedIs
  <2>7. \A k \in 1 .. Len(f[4]) : f[4][k] = SEALED[k]
    BY ONLY <2>5
  <2> QED BY ONLY <2>5, <2>6, <2>7, SeqEqual
<1> DEFINE Good(u) == u \in Seq(Symbol) /\ Len(u) >= 3 /\ \A k \in 1 .. 3 : u[k] = SEALED[k]
           Bad == {i \in 4 .. (close - 1) : ~Good(f[i])}
<1>8. Good(SEALED)
  <2>1. SEALED \in Seq(Symbol) /\ Len(SEALED) = 3
    BY ONLY SealedIs
  <2> QED BY <2>1
<1>9. ASSUME NEW u, NEW x \in Symbol, Good(u) PROVE Good(Append(u, x))
  <2>1. u \in Seq(Symbol) /\ Len(u) \in Nat /\ Len(u) >= 3
    BY <1>9
  <2>2. Append(u, x) \in Seq(Symbol) /\ Len(Append(u, x)) = Len(u) + 1
    BY <2>1
  <2>3. ASSUME NEW k \in 1 .. 3 PROVE Append(u, x)[k] = SEALED[k]
    <3>1. k \in 1 .. Len(u)
      BY <2>1
    <3>2. Append(u, x)[k] = u[k]
      BY <2>1, <3>1
    <3> QED BY <1>9, <3>2
  <2>4. Len(Append(u, x)) >= 3
    BY <2>1, <2>2
  <2> QED BY <2>2, <2>3, <2>4
<1>10. Bad = {}
  <2>1. SUFFICES ASSUME Bad # {} PROVE FALSE
    OBVIOUS
  <2>2. PICK i \in Bad : \A k \in Bad : i <= k
    <3>1. Bad \in SUBSET Nat
      BY <1>1
    <3> HIDE DEF Bad
    <3> QED BY <2>1, <3>1, LeastNatural
  <2>3. i \in 4 .. (close - 1) /\ ~Good(f[i])
    BY <2>2
  <2>4. i # 4
    <3> HIDE DEF Good
    <3> QED BY <1>7, <1>8, <2>3
  <2>5. i - 1 \in 4 .. (close - 1) /\ ~(i <= i - 1)
    BY <1>1, <2>3, <2>4
  <2>6. Good(f[i - 1])
    <3>1. i - 1 \notin Bad
      BY <2>2, <2>5
    <3> HIDE DEF Good
    <3> QED BY <2>5, <3>1
  <2>7. i \in 1 .. (close - 1) /\ i # 1 /\ i \in 1 .. Len(body)
    BY <1>1, <2>3
  <2>8. f[i] = Took(body, EscapedIn(body), i, f[i - 1])
    BY <1>5, <2>7
  <2>9. Unescape(body[i]) \in Symbol /\ body[i] \in Symbol
    BY <1>2, <2>7 DEF Unescape, Symbol
  <2>10. Good(Took(body, EscapedIn(body), i, f[i - 1]))
    <3>1. /\ Good(Append(f[i - 1], Unescape(body[i])))
          /\ Good(Append(f[i - 1], body[i]))
      <4> HIDE DEF Good
      <4> QED BY <1>9, <2>6, <2>9
    <3> HIDE DEF Good
    <3> QED BY <2>6, <2>7, <3>1 DEF Took
  <2> HIDE DEF Good
  <2> QED BY <2>3, <2>8, <2>10
<1>11. Good(f[close - 1])
  <2>1. close - 1 \in 4 .. (close - 1)
    BY <1>1
  <2> HIDE DEF Good
  <2> QED BY <1>10, <2>1
<1>12. close = 5 => f[close - 1] = SEALED
  BY <1>7
<1> QED BY <1>5, <1>11, <1>12 DEF Str

-----------------------------------------------------------------------------
(* The three forms of a value.                                             *)

(* The three kinds of value.                                               *)
Quote == {"\"", "'"}

Unquoted(body) == Len(body) >= 1 => body[1] \notin Quote

SingleTo(body, c) ==
    /\ body[1] = "'" /\ c \in 2 .. Len(body)
    /\ First(<<"'">>, body, 2, c) /\ MayFollow(Rest(body, c + 1))

DoubleTo(body, c) ==
    /\ body[1] = "\"" /\ c \in 2 .. Len(body)
    /\ Closes(body, c) /\ MayFollow(Rest(body, c + 1))

SingleValue(body, c) == [value |-> Slice(body, 2, c), start |-> 2, end |-> c]

DoubleValue(body, c) == [value |-> Unescaped(body, c), start |-> 2, end |-> c]

LEMMA HeadIs ==
    ASSUME NEW body \in Str
    PROVE  /\ body \in Seq(Symbol) /\ Len(body) \in Nat
           /\ body # << >> <=> Len(body) >= 1
           /\ Len(body) >= 1 => Head(body) = body[1]
<1>1. body \in Seq(Symbol) /\ Len(body) \in Nat
  BY DEF Str
<1>2. body # << >> <=> Len(body) # 0
  BY <1>1, EmptySeq
<1> QED BY <1>1, <1>2

LEMMA BareForm ==
    ASSUME NEW body \in Str, NEW m, NEW n, Unquoted(body), BareTo(body, m, n)
    PROVE  ParseValue(body) = {BareValue(body, n)}
<1>1. Bare(body) = {BareValue(body, n)}
  BY BareIs
<1>2. CASE body = << >>
  BY <1>1, <1>2 DEF ParseValue
<1>3. CASE body # << >>
  <2>1. Len(body) >= 1 /\ Head(body) = body[1]
    BY <1>3, HeadIs
  <2>2. Head(body) # "\"" /\ Head(body) # "'"
    BY <2>1, Zenon DEF Unquoted, Quote
  <2> QED BY <1>1, <1>3, <2>2 DEF ParseValue
<1> QED BY <1>2, <1>3

LEMMA SingleForm ==
    ASSUME NEW body \in Str, NEW c, SingleTo(body, c)
    PROVE  ParseValue(body) = {SingleValue(body, c)}
<1>0. c \in 2 .. Len(body) /\ body[1] = "'"
  BY DEF SingleTo
<1>1. body \in Seq(Symbol) /\ Len(body) \in Nat /\ c \in Nat /\ Len(body) >= 1
  <2>1. body \in Seq(Symbol) /\ Len(body) \in Nat /\ c \in 2 .. Len(body)
    BY <1>0, HeadIs
  <2> QED BY ONLY <2>1
<1>2. body # << >> /\ Head(body) = body[1]
  BY <1>1, HeadIs
<1>3. Head(body) = "'" /\ Head(body) # "\""
  BY <1>0, <1>2
<1>4. ParseValue(body) = SingleQuoted(body)
  BY <1>2, <1>3 DEF ParseValue
<1> DEFINE closes == {k \in 2 .. Len(body) :
                        First(<<"'">>, body, 2, k) /\ MayFollow(SubSeq(body, k + 1, Len(body)))}
<1>5. SingleQuoted(body) = {SingleValue(body, k) : k \in closes}
  BY DEF SingleQuoted, SingleValue
<1>6. ASSUME NEW k \in closes PROVE k = c
  <2>1. First(<<"'">>, body, 2, k) /\ First(<<"'">>, body, 2, c) /\ k \in 2 .. Len(body)
    BY DEF SingleTo
  <2>2. k \in Nat /\ 2 \in Nat
    BY <1>1, <2>1
  <2> QED BY ONLY <1>1, <2>1, <2>2, FirstIsOne
<1>7. c \in closes
  BY DEF SingleTo, Rest
<1>8. closes = {c}
  <2> HIDE DEF closes
  <2> QED BY <1>6, <1>7
<1> HIDE DEF closes
<1> QED BY <1>4, <1>5, <1>8

LEMMA DoubleForm ==
    ASSUME NEW body \in Str, NEW c, DoubleTo(body, c)
    PROVE  ParseValue(body) = {DoubleValue(body, c)}
<1>0. c \in 2 .. Len(body) /\ body[1] = "\""
  BY DEF DoubleTo
<1>1. body \in Seq(Symbol) /\ Len(body) \in Nat /\ c \in Nat /\ Len(body) >= 1
  <2>1. body \in Seq(Symbol) /\ Len(body) \in Nat /\ c \in 2 .. Len(body)
    BY <1>0, HeadIs
  <2> QED BY ONLY <2>1
<1>2. body # << >> /\ Head(body) = body[1]
  BY <1>1, HeadIs
<1>3. Head(body) = "\""
  BY <1>0, <1>2
<1>4. ParseValue(body) = DoubleQuoted(body)
  BY <1>2, <1>3 DEF ParseValue
<1> DEFINE closes == {k \in 2 .. Len(body) :
                        Closes(body, k) /\ MayFollow(SubSeq(body, k + 1, Len(body)))}
<1>5. DoubleQuoted(body) = {DoubleValue(body, k) : k \in closes}
  BY DEF DoubleQuoted, DoubleValue
<1>6. ASSUME NEW k \in closes PROVE k = c
  <2>1. /\ body[k] = "\"" /\ ~EscapedIn(body)[k]
        /\ \A j \in 2 .. (k - 1) : body[j] = "\"" => EscapedIn(body)[j]
        /\ body[c] = "\"" /\ ~EscapedIn(body)[c]
        /\ \A j \in 2 .. (c - 1) : body[j] = "\"" => EscapedIn(body)[j]
        /\ k \in 2 .. Len(body)
    BY DEF DoubleTo, Closes
  <2>n. k \in 2 .. Len(body) /\ c \in 2 .. Len(body) /\ Len(body) \in Nat
    BY <1>0, <1>1, <2>1
  <2>2. k < c => k \in 2 .. (c - 1)
    BY ONLY <2>n
  <2>3. c < k => c \in 2 .. (k - 1)
    BY ONLY <2>n
  <2>4. k < c \/ c < k \/ k = c
    BY ONLY <2>n
  <2> QED BY ONLY <2>1, <2>2, <2>3, <2>4
<1>7. c \in closes
  BY DEF DoubleTo, Rest
<1>8. closes = {c}
  <2> HIDE DEF closes
  <2> QED BY <1>6, <1>7
<1> HIDE DEF closes
<1> QED BY <1>4, <1>5, <1>8

LEMMA ValueForms ==
    ASSUME NEW body \in Str, NEW v \in ParseValue(body)
    PROVE  \/ \E m, n : Unquoted(body) /\ BareTo(body, m, n) /\ v = BareValue(body, n)
           \/ \E c : SingleTo(body, c) /\ v = SingleValue(body, c)
           \/ \E c : DoubleTo(body, c) /\ v = DoubleValue(body, c)
<1>1. body \in Seq(Symbol) /\ Len(body) \in Nat /\ (body # << >> => Len(body) >= 1 /\ Head(body) = body[1])
  BY HeadIs
<1>2. CASE Unquoted(body)
  <2>1. PICK m, n : BareTo(body, m, n)
    BY BareEnds
  <2> QED BY <1>2, <2>1, BareForm
<1>3. CASE ~Unquoted(body)
  <2>1. Len(body) >= 1 /\ body[1] \in Quote /\ body # << >>
    <3>1. Len(body) >= 1 /\ body[1] \in Quote
      BY <1>3 DEF Unquoted
    <3>2. Len(body) # 0
      BY <1>1, <3>1
    <3> QED BY <3>1, <3>2
  <2>2. CASE body[1] = "'"
    <3>1. v \in SingleQuoted(body)
      BY <1>1, <2>1, <2>2 DEF ParseValue
    <3> QED BY <2>2, <3>1 DEF SingleQuoted, SingleTo, SingleValue, Rest
  <2>3. CASE body[1] = "\""
    <3>1. v \in DoubleQuoted(body)
      BY <1>1, <2>1, <2>3 DEF ParseValue
    <3> QED BY <2>3, <3>1 DEF DoubleQuoted, DoubleTo, DoubleValue, Rest
  <2> QED BY <2>1, <2>2, <2>3 DEF Quote
<1> QED BY <1>2, <1>3

(* A value's text has at most one reading.                                 *)
LEMMA OneValue ==
    ASSUME NEW body \in Str, NEW v \in ParseValue(body)
    PROVE  ParseValue(body) = {v}
<1>1. CASE \E m, n : Unquoted(body) /\ BareTo(body, m, n) /\ v = BareValue(body, n)
  BY <1>1, BareForm
<1>2. CASE \E c : SingleTo(body, c) /\ v = SingleValue(body, c)
  BY <1>2, SingleForm
<1>3. CASE \E c : DoubleTo(body, c) /\ v = DoubleValue(body, c)
  BY <1>3, DoubleForm
<1> QED BY <1>1, <1>2, <1>3, ValueForms

(* Where a value is, and what is around it: blanks or the line's end, or   *)
(* the quotes.                                                             *)
Placed(body, v) ==
    /\ v.start \in 1 .. 2 /\ v.end \in v.start .. (Len(body) + 1)
    /\ \/ v.start = 1 /\ (v.end <= Len(body) => body[v.end] \in Blank)
                      /\ (v.end > 1 => body[v.end - 1] \notin Blank)
       \/ v.start = 2 /\ v.end <= Len(body) /\ body[1] \in Quote /\ body[v.end] \in Quote

LEMMA ValuePlaced ==
    ASSUME NEW body \in Str, NEW v \in ParseValue(body)
    PROVE  Placed(body, v)
<1>0. Len(body) \in Nat
  BY DEF Str
<1>1. CASE \E m, n : Unquoted(body) /\ BareTo(body, m, n) /\ v = BareValue(body, n)
  <2>1. PICK m, n : BareTo(body, m, n) /\ v = BareValue(body, n)
    BY <1>1
  <2>2. /\ m \in 0 .. Len(body) /\ n \in 0 .. m
        /\ n > 0 => body[n] \notin Blank
        /\ \A j \in (n + 1) .. m : body[j] \in Blank
        /\ m < Len(body) => m >= 1 /\ CommentAt(body, m + 1)
    BY <2>1 DEF BareTo, KeptTo
  <2>3. v.start = 1 /\ v.end = 1 + n
    BY <2>1 DEF BareValue
  <2>4. n + 1 <= Len(body) => body[n + 1] \in Blank
    <3>1. CASE n < m
      <4>1. n + 1 \in (n + 1) .. m
        BY <2>2, <3>1
      <4> QED BY <2>2, <4>1
    <3>2. CASE n = m /\ m < Len(body)
      <4>1. m >= 1 /\ body[m] = " "
        <5>1. m >= 1 /\ CommentAt(body, m + 1)
          BY <2>2, <3>2
        <5>2. (m + 1) - 1 = m
          BY <2>2
        <5> QED BY <5>1, <5>2 DEF CommentAt
      <4>2. n > 0
        <5>1. m >= 1 /\ n = m /\ m \in 0 .. Len(body)
          BY <2>2, <3>2
        <5> QED BY ONLY <1>0, <5>1
      <4>3. body[n] \in Blank
        BY <3>2, <4>1, Zenon DEF Blank
      <4> QED BY <2>2, <4>2, <4>3
    <3> QED BY <1>0, <2>2, <3>1, <3>2
  <2>5. /\ 1 \in 1 .. 2 /\ 1 + n \in 1 .. (Len(body) + 1) /\ (1 + n) - 1 = n /\ 1 + n = n + 1
        /\ (1 + n > 1 => n > 0)
    BY <1>0, <2>2
  <2>6. v.end > 1 => body[v.end - 1] \notin Blank
    BY ONLY <2>2, <2>3, <2>5
  <2>7. v.end <= Len(body) => body[v.end] \in Blank
    BY ONLY <2>3, <2>4, <2>5
  <2> QED BY <2>3, <2>5, <2>6, <2>7 DEF Placed
<1>2. CASE \E c : SingleTo(body, c) /\ v = SingleValue(body, c)
  <2>1. PICK c : SingleTo(body, c) /\ v = SingleValue(body, c)
    BY <1>2
  <2>2. c \in 2 .. Len(body) /\ body[1] = "'" /\ First(<<"'">>, body, 2, c) /\ v.start = 2 /\ v.end = c
    BY <2>1 DEF SingleTo, SingleValue
  <2>3. body[c] = "'"
    <3>1. "'" \in Symbol /\ 2 \in Nat \ {0}
      BY DEF Symbol
    <3> QED BY <2>2, <3>1, FirstSymbol
  <2>4. 2 \in 1 .. 2 /\ c \in 2 .. (Len(body) + 1) /\ c <= Len(body)
    BY <1>0, <2>2
  <2> QED BY <2>2, <2>3, <2>4 DEF Placed, Quote
<1>3. CASE \E c : DoubleTo(body, c) /\ v = DoubleValue(body, c)
  <2>1. PICK c : DoubleTo(body, c) /\ v = DoubleValue(body, c)
    BY <1>3
  <2>2. c \in 2 .. Len(body) /\ body[1] = "\"" /\ body[c] = "\"" /\ v.start = 2 /\ v.end = c
    BY <2>1 DEF DoubleTo, DoubleValue, Closes
  <2>3. 2 \in 1 .. 2 /\ c \in 2 .. (Len(body) + 1) /\ c <= Len(body)
    <3>1. c \in 2 .. Len(body)
      BY <2>2
    <3> QED BY ONLY <1>0, <3>1
  <2> QED BY <2>2, <2>3 DEF Placed, Quote
<1> QED BY <1>1, <1>2, <1>3, ValueForms

-----------------------------------------------------------------------------
(* A line whose value is replaced with SEALED: bare values.                *)

(* m is l with what is from s up to d sealed.                              *)
Swapped(l, m, s, d) ==
    /\ s \in 1 .. (Len(l) + 1) /\ d \in s .. (Len(l) + 1)
    /\ Len(m) = Len(l) - (d - s) + 3
    /\ \A j \in 1 .. (s - 1) : m[j] = l[j]
    /\ SealedAt(m, s)
    /\ \A j \in d .. Len(l) : m[j - d + s + 3] = l[j]

LEMMA SwappedNumbers ==
    ASSUME NEW l \in Str, NEW m \in Str, NEW s, NEW d, Swapped(l, m, s, d)
    PROVE  /\ l \in Seq(Symbol) /\ m \in Seq(Symbol) /\ Len(l) \in Nat /\ Len(m) \in Nat
           /\ s \in 1 .. (Len(l) + 1) /\ d \in s .. (Len(l) + 1) /\ s \in Nat /\ d \in Nat
           /\ Len(m) = Len(l) - (d - s) + 3
BY DEF Swapped, Str

LEMMA SwappedRest ==
    ASSUME NEW l \in Str, NEW m \in Str, NEW s, NEW d, Swapped(l, m, s, d),
           NEW k \in d .. (Len(l) + 1), NEW n, n = k - d + s + 3
    PROVE  Rest(m, n) = Rest(l, k)
<1>1. /\ l \in Seq(Symbol) /\ m \in Seq(Symbol) /\ Len(l) \in Nat /\ Len(m) \in Nat
      /\ s \in 1 .. (Len(l) + 1) /\ d \in s .. (Len(l) + 1) /\ s \in Nat /\ d \in Nat
      /\ Len(m) = Len(l) - (d - s) + 3
  BY SwappedNumbers
<1>n. n = k - d + s + 3 /\ k \in d .. (Len(l) + 1)
  OBVIOUS
<1>2. \A j \in d .. Len(l) : m[j - d + s + 3] = l[j]
  BY DEF Swapped
<1>3. k \in 1 .. (Len(l) + 1) /\ n \in 1 .. (Len(m) + 1) /\ k \in Nat /\ n \in Nat
  BY ONLY <1>1, <1>n
<1>x. PICK x : x = Rest(l, k)
  OBVIOUS
<1>y. PICK y : y = Rest(m, n)
  OBVIOUS
<1>4. x \in Seq(Symbol) /\ Len(x) = Len(l) - k + 1 /\ \A j \in 1 .. (Len(l) - k + 1) : x[j] = l[k + j - 1]
  BY ONLY <1>1, <1>3, <1>x, RestIs
<1>5. y \in Seq(Symbol) /\ Len(y) = Len(m) - n + 1 /\ \A j \in 1 .. (Len(m) - n + 1) : y[j] = m[n + j - 1]
  BY ONLY <1>1, <1>3, <1>y, RestIs, ZenonT(40)
<1>6. Len(y) = Len(x)
  <2>1. Len(m) - n + 1 = Len(l) - k + 1
    BY ONLY <1>1, <1>3, <1>n
  <2> QED BY <1>4, <1>5, <2>1
<1>7. ASSUME NEW j \in 1 .. Len(y) PROVE y[j] = x[j]
  <2>0. j \in 1 .. (Len(l) - k + 1) /\ j \in 1 .. (Len(m) - n + 1)
    BY <1>4, <1>5, <1>6
  <2>i. PICK i : i = k + j - 1
    OBVIOUS
  <2>1. i \in d .. Len(l) /\ n + j - 1 = i - d + s + 3
    BY ONLY <1>1, <1>3, <1>n, <2>0, <2>i
  <2>2. m[n + j - 1] = l[i]
    BY <1>2, <2>1
  <2> QED BY <1>4, <1>5, <2>0, <2>2, <2>i
<1> QED BY ONLY <1>4, <1>5, <1>6, <1>7, <1>x, <1>y, SeqEqual

LEMMA SwappedFront ==
    ASSUME NEW l \in Str, NEW m \in Str, NEW s, NEW d, Swapped(l, m, s, d),
           NEW c \in 1 .. s, NEW q \in c .. s
    PROVE  Slice(m, c, q) = Slice(l, c, q)
<1>1. /\ l \in Seq(Symbol) /\ m \in Seq(Symbol) /\ Len(l) \in Nat /\ Len(m) \in Nat
      /\ s \in 1 .. (Len(l) + 1) /\ d \in s .. (Len(l) + 1) /\ s \in Nat /\ d \in Nat
      /\ Len(m) = Len(l) - (d - s) + 3
  BY SwappedNumbers
<1>2. \A j \in 1 .. (s - 1) : m[j] = l[j]
  BY DEF Swapped
<1>3. /\ c \in 1 .. (Len(l) + 1) /\ q \in c .. (Len(l) + 1)
      /\ c \in 1 .. (Len(m) + 1) /\ q \in c .. (Len(m) + 1) /\ c \in Nat /\ q \in Nat
  BY <1>1
<1>x. PICK x : x = Slice(l, c, q)
  OBVIOUS
<1>y. PICK y : y = Slice(m, c, q)
  OBVIOUS
<1>4. x \in Seq(Symbol) /\ Len(x) = q - c /\ \A j \in 1 .. (q - c) : x[j] = l[c + j - 1]
  BY ONLY <1>1, <1>3, <1>x, SliceIs, ZenonT(40)
<1>5. y \in Seq(Symbol) /\ Len(y) = q - c /\ \A j \in 1 .. (q - c) : y[j] = m[c + j - 1]
  BY ONLY <1>1, <1>3, <1>y, SliceIs, ZenonT(40)
<1>6. ASSUME NEW j \in 1 .. Len(y) PROVE y[j] = x[j]
  <2>1. j \in 1 .. (q - c)
    BY <1>5
  <2>2. c + j - 1 \in 1 .. (s - 1)
    BY ONLY <1>1, <2>1, c \in 1 .. s, q \in c .. s
  <2> QED BY <1>2, <1>4, <1>5, <2>1, <2>2
<1>7. Len(x) = Len(y)
  BY <1>4, <1>5
<1> QED BY ONLY <1>4, <1>5, <1>6, <1>7, <1>x, <1>y, SeqEqual

LEMMA SealedSlice ==
    ASSUME NEW m \in Str, NEW s \in 1 .. (Len(m) + 1), s + 3 <= Len(m) + 1, SealedAt(m, s)
    PROVE  Slice(m, s, s + 3) = SEALED
<1>1. m \in Seq(Symbol) /\ Len(m) \in Nat /\ s \in Nat
  BY DEF Str
<1>2. s + 3 \in s .. (Len(m) + 1) /\ (s + 3) - s = 3
  BY <1>1
<1>e. PICK e : e = s + 3
  OBVIOUS
<1>x. PICK x : x = Slice(m, s, e)
  OBVIOUS
<1>3. x \in Seq(Symbol) /\ Len(x) = e - s /\ \A j \in 1 .. (e - s) : x[j] = m[s + j - 1]
  <2>1. e \in s .. (Len(m) + 1) /\ s \in 1 .. (Len(m) + 1)
    BY <1>2, <1>e
  <2> QED BY ONLY <1>1, <2>1, <1>x, SliceIs, ZenonT(40)
<1>4. SEALED \in Seq(Symbol) /\ Len(SEALED) = 3
  BY ONLY SealedIs
<1>5. Len(x) = 3 /\ \A j \in 1 .. Len(x) : x[j] = SEALED[j]
  BY <1>2, <1>3, <1>e DEF SealedAt
<1> QED BY ONLY <1>3, <1>4, <1>5, <1>e, <1>x, SeqEqual

SealedValue(start) == [value |-> SEALED, start |-> start, end |-> start + 3]

LEMMA SealsBare ==
    ASSUME NEW l \in Str, NEW m \in Str, NEW k, NEW n, Unquoted(l), BareTo(l, k, n), n > 0,
           Swapped(l, m, 1, 1 + n)
    PROVE  ParseValue(m) = {SealedValue(1)}
<1>1. /\ l \in Seq(Symbol) /\ m \in Seq(Symbol) /\ Len(l) \in Nat /\ Len(m) \in Nat
      /\ Len(m) = Len(l) - ((1 + n) - 1) + 3
  BY SwappedNumbers
<1>2. /\ k \in 0 .. Len(l) /\ n \in 0 .. k /\ KeptTo(l, k)
      /\ n > 0 => l[n] \notin Blank
      /\ \A j \in (n + 1) .. k : l[j] \in Blank
  BY DEF BareTo, KeptTo
<1>3. n \in Nat /\ k \in Nat /\ n > 0 /\ Len(m) = Len(l) - n + 3 /\ n <= k /\ k <= Len(l)
  BY <1>1, <1>2
<1>4. \A j \in (n + 1) .. Len(l) : m[j - n + 3] = l[j]
  <2>1. \A j \in (1 + n) .. Len(l) : m[j - (1 + n) + 1 + 3] = l[j]
    BY DEF Swapped
  <2>2. \A j \in (n + 1) .. Len(l) : j \in (1 + n) .. Len(l) /\ j - (1 + n) + 1 + 3 = j - n + 3
    BY <1>3
  <2> QED BY <2>1, <2>2
<1>5. m[1] = SEALED[1] /\ m[2] = SEALED[2] /\ m[3] = SEALED[3]
  <2>1. \A j \in 1 .. 3 : m[1 + j - 1] = SEALED[j]
    BY DEF Swapped, SealedAt
  <2>2. 1 \in 1 .. 3 /\ 2 \in 1 .. 3 /\ 3 \in 1 .. 3 /\ 1 + 1 - 1 = 1 /\ 1 + 2 - 1 = 2 /\ 1 + 3 - 1 = 3
    OBVIOUS
  <2> QED BY <2>1, <2>2
<1>6. /\ m[1] \notin Blank \cup Quote /\ m[3] \notin Blank /\ m[3] # " "
      /\ m[2] # "#" /\ m[3] # "#"
  <2>1. 1 \in 1 .. 3 /\ 2 \in 1 .. 3 /\ 3 \in 1 .. 3
    OBVIOUS
  <2>2. " " \in Blank
    BY DEF Blank
  <2> QED BY <1>5, <2>1, <2>2, SealedIs DEF Quote
<1>7. Unquoted(m)
  BY <1>6 DEF Unquoted
<1>p. PICK p : p = k - n + 3
  OBVIOUS
<1>8. p \in 3 .. Len(m) /\ p \in Nat /\ (p < Len(m) <=> k < Len(l))
  BY <1>1, <1>3, <1>p
<1>9. \A i \in 2 .. Len(l) : l[i] = "#" /\ l[i - 1] = " " => CommentAt(l, i)
  BY DEF CommentAt
<1>10. ASSUME NEW i \in 2 .. p, CommentAt(m, i) PROVE FALSE
  <2>1. m[i] = "#" /\ m[i - 1] = " "
    BY <1>10 DEF CommentAt
  <2>2. i # 2 /\ i # 3 /\ i # 4
    <3>1. i = 4 => i - 1 = 3
      OBVIOUS
    <3> QED BY <1>6, <2>1, <3>1
  <2>j. PICK j : j = i - 3 + n
    OBVIOUS
  <2>3. /\ j \in 2 .. k /\ j \in (n + 1) .. Len(l) /\ j - 1 \in (n + 1) .. Len(l)
        /\ j - n + 3 = i /\ (j - 1) - n + 3 = i - 1
    <3>1. i \in 2 .. p /\ i # 2 /\ i # 3 /\ i # 4
      BY <2>2
    <3> QED BY ONLY <1>1, <1>3, <1>8, <1>p, <2>j, <3>1
  <2>4. l[j] = m[i] /\ l[j - 1] = m[i - 1]
    <3>1. m[j - n + 3] = l[j] /\ m[(j - 1) - n + 3] = l[j - 1]
      BY ONLY <1>4, <2>3
    <3> QED BY <2>3, <3>1
  <2>5. CommentAt(l, j)
    BY <2>1, <2>4 DEF CommentAt
  <2>6. ~CommentAt(l, j)
    BY <1>2, <2>3 DEF KeptTo
  <2> QED BY <2>5, <2>6
<1>11. ASSUME p < Len(m) PROVE CommentAt(m, p + 1)
  <2>1. k < Len(l) /\ CommentAt(l, k + 1)
    BY <1>2, <1>8, <1>11 DEF KeptTo
  <2>2. k \in (n + 1) .. Len(l)
    <3>1. k # n
      <4>1. l[(k + 1) - 1] = " "
        BY <2>1 DEF CommentAt
      <4>2. (k + 1) - 1 = k
        BY <1>3
      <4>3. l[k] \in Blank
        BY <4>1, <4>2, Zenon DEF Blank
      <4> QED BY <1>2, <1>3, <4>3
    <3> QED BY <1>3, <3>1
  <2>3. /\ k + 1 \in (n + 1) .. Len(l) /\ (k + 1) - n + 3 = p + 1 /\ k - n + 3 = (p + 1) - 1
        /\ (k + 1) - 1 = k
    <3>1. k < Len(l)
      BY <2>1
    <3> QED BY ONLY <1>1, <1>3, <1>p, <3>1
  <2>4. m[p + 1] = l[k + 1] /\ m[(p + 1) - 1] = l[(k + 1) - 1]
    <3>1. m[(k + 1) - n + 3] = l[k + 1] /\ m[k - n + 3] = l[k]
      BY ONLY <1>4, <2>2, <2>3
    <3> QED BY <2>3, <3>1
  <2> QED BY <2>1, <2>4 DEF CommentAt
<1>12. KeptTo(m, p)
  <2>1. p \in 0 .. Len(m) /\ p >= 1
    BY <1>8
  <2> QED BY <1>10, <1>11, <2>1 DEF KeptTo
<1>13. ASSUME NEW j \in (3 + 1) .. p PROVE m[j] \in Blank
  <2>i. PICK i : i = j - 3 + n
    OBVIOUS
  <2>1. i \in (n + 1) .. k /\ i \in (n + 1) .. Len(l) /\ i - n + 3 = j
    BY <1>1, <1>3, <1>p, <2>i
  <2> QED BY <1>2, <1>4, <2>1
<1>14. BareTo(m, p, 3)
  <2>1. 3 \in 0 .. p
    BY <1>8
  <2> QED BY <1>6, <1>12, <1>13, <2>1 DEF BareTo
<1>15. ParseValue(m) = {BareValue(m, 3)}
  BY <1>7, <1>14, BareForm
<1>16. SubSeq(m, 1, 3) = SEALED
  <2>1. Slice(m, 1, 1 + 3) = SEALED
    <3>1. 1 \in 1 .. (Len(m) + 1) /\ 1 + 3 <= Len(m) + 1
      BY <1>8
    <3>2. SealedAt(m, 1)
      BY DEF Swapped
    <3> QED BY <3>1, <3>2, SealedSlice
  <2>2. (1 + 3) - 1 = 3
    OBVIOUS
  <2> QED BY <2>1, <2>2 DEF Slice
<1> QED BY <1>15, <1>16 DEF BareValue, SealedValue

-----------------------------------------------------------------------------
(* Quoted values.                                                          *)

LEMMA QuotesKnown ==
    /\ "'" \in Symbol
    /\ \A k \in 1 .. 3 : SEALED[k] \notin Quote /\ SEALED[k] # "\\"
<1>1. "'" \in Symbol
  BY DEF Symbol
<1>2. ASSUME NEW k \in 1 .. 3 PROVE SEALED[k] \notin Quote /\ SEALED[k] # "\\"
  BY SealedIs DEF Quote
<1> QED BY <1>1, <1>2

(* What is between the quotes is sealed.                                   *)
LEMMA BetweenQuotes ==
    ASSUME NEW l \in Str, NEW m \in Str, NEW c \in 2 .. Len(l), Swapped(l, m, 2, c)
    PROVE  /\ 5 \in 2 .. Len(m) /\ m[1] = l[1] /\ m[5] = l[c]
           /\ Rest(m, 6) = Rest(l, c + 1) /\ Slice(m, 2, 5) = SEALED /\ SealedAt(m, 2)
           /\ \A j \in 2 .. 4 : m[j] \notin Quote /\ m[j] # "\\"
<1>1. /\ Len(l) \in Nat /\ Len(m) \in Nat /\ c \in Nat /\ c \in 2 .. Len(l)
      /\ Len(m) = Len(l) - (c - 2) + 3
  BY SwappedNumbers, SMTT(40)
<1>2. SealedAt(m, 2)
  BY DEF Swapped
<1>3. 5 \in 2 .. Len(m) /\ 2 \in 1 .. (Len(m) + 1) /\ 2 + 3 <= Len(m) + 1
  BY ONLY <1>1
<1>4. m[1] = l[1] /\ m[5] = l[c]
  <2>1. 1 \in 1 .. (2 - 1) /\ c \in c .. Len(l) /\ c - c + 2 + 3 = 5
    BY ONLY <1>1
  <2>2. /\ \A j \in 1 .. (2 - 1) : m[j] = l[j]
        /\ \A j \in c .. Len(l) : m[j - c + 2 + 3] = l[j]
    BY DEF Swapped
  <2>3. m[c - c + 2 + 3] = l[c]
    BY ONLY <2>1, <2>2
  <2> QED BY <2>1, <2>2, <2>3
<1>5. Rest(m, 6) = Rest(l, c + 1)
  <2>1. c + 1 \in c .. (Len(l) + 1) /\ 6 = (c + 1) - c + 2 + 3
    BY ONLY <1>1
  <2> QED BY <2>1, SwappedRest
<1>6. Slice(m, 2, 5) = SEALED
  <2>1. 2 + 3 = 5
    OBVIOUS
  <2>2. Slice(m, 2, 2 + 3) = SEALED
    BY <1>2, <1>3, SealedSlice
  <2> QED BY <2>1, <2>2
<1>7. ASSUME NEW j \in 2 .. 4 PROVE m[j] \notin Quote /\ m[j] # "\\"
  <2>k. PICK k : k = j - 1
    OBVIOUS
  <2>1. k \in 1 .. 3 /\ 2 + k - 1 = j
    BY <2>k
  <2>2. m[j] = SEALED[k]
    BY <1>2, <2>1 DEF SealedAt
  <2> QED BY <2>1, <2>2, QuotesKnown
<1> QED BY <1>2, <1>3, <1>4, <1>5, <1>6, <1>7

LEMMA SealsSingle ==
    ASSUME NEW l \in Str, NEW m \in Str, NEW c, SingleTo(l, c), Swapped(l, m, 2, c)
    PROVE  ParseValue(m) = {SealedValue(2)}
<1>1. c \in 2 .. Len(l) /\ l[1] = "'" /\ First(<<"'">>, l, 2, c) /\ MayFollow(Rest(l, c + 1))
  BY DEF SingleTo
<1>2. l[c] = "'"
  <2>1. 2 \in Nat \ {0}
    OBVIOUS
  <2> QED BY <1>1, <2>1, QuotesKnown, FirstSymbol
<1>3. /\ 5 \in 2 .. Len(m) /\ m[1] = l[1] /\ m[5] = l[c]
      /\ Rest(m, 6) = Rest(l, c + 1) /\ Slice(m, 2, 5) = SEALED
      /\ \A j \in 2 .. 4 : m[j] \notin Quote
  BY <1>1, BetweenQuotes
<1>4. First(<<"'">>, m, 2, 5)
  <2>1. 5 \in 2 .. Len(m) /\ m[5] = "'" /\ \A j \in 2 .. (5 - 1) : m[j] # "'"
    <3>1. \A j \in 2 .. (5 - 1) : j \in 2 .. 4
      OBVIOUS
    <3> QED BY <1>2, <1>3, <3>1 DEF Quote
  <2>2. 2 \in Nat \ {0}
    OBVIOUS
  <2> QED BY <2>1, <2>2, QuotesKnown, FirstSymbol
<1>5. SingleTo(m, 5)
  <2>1. 5 + 1 = 6
    OBVIOUS
  <2> QED BY <1>1, <1>3, <1>4, <2>1 DEF SingleTo
<1>6. ParseValue(m) = {SingleValue(m, 5)}
  BY <1>5, SingleForm
<1>7. 2 + 3 = 5
  OBVIOUS
<1> QED BY <1>3, <1>6, <1>7 DEF SingleValue, SealedValue

LEMMA SealsDouble ==
    ASSUME NEW l \in Str, NEW m \in Str, NEW c, DoubleTo(l, c), Swapped(l, m, 2, c)
    PROVE  ParseValue(m) = {SealedValue(2)}
<1>1. c \in 2 .. Len(l) /\ l[1] = "\"" /\ l[c] = "\"" /\ MayFollow(Rest(l, c + 1))
  BY DEF DoubleTo, Closes
<1>3. /\ 5 \in 2 .. Len(m) /\ m[1] = l[1] /\ m[5] = l[c]
      /\ Rest(m, 6) = Rest(l, c + 1) /\ SealedAt(m, 2)
      /\ \A j \in 2 .. 4 : m[j] \notin Quote /\ m[j] # "\\"
  BY <1>1, BetweenQuotes
<1>4. ~EscapedIn(m)[5]
  <2>1. Len(m) \in Nat
    BY DEF Str
  <2>2. 5 \in 1 .. Len(m) /\ 5 - 1 = 4 /\ 4 \in 2 .. 4
    BY <1>3, <2>1
  <2>3. EscapedIn(m)[5] = (5 > 2 /\ m[5 - 1] = "\\" /\ ~EscapedIn(m)[5 - 1])
    BY <2>1, <2>2, EscapedIs
  <2>4. m[5 - 1] # "\\"
    BY <1>3, <2>2
  <2> QED BY <2>3, <2>4, Zenon
<1>5. Closes(m, 5)
  <2>1. \A j \in 2 .. (5 - 1) : m[j] # "\""
    <3>1. \A j \in 2 .. (5 - 1) : j \in 2 .. 4
      OBVIOUS
    <3> QED BY <1>3, <3>1 DEF Quote
  <2> QED BY <1>1, <1>3, <1>4, <2>1 DEF Closes
<1>6. DoubleTo(m, 5)
  <2>1. 5 + 1 = 6
    OBVIOUS
  <2> QED BY <1>1, <1>3, <1>5, <2>1 DEF DoubleTo
<1>7. ParseValue(m) = {DoubleValue(m, 5)}
  BY <1>6, DoubleForm
<1>8. Unescaped(m, 5) = SEALED
  <2>1. 5 \in 5 .. Len(m)
    BY <1>3
  <2> QED BY <1>3, <2>1, SealedUnescapes
<1>9. 2 + 3 = 5
  OBVIOUS
<1> QED BY <1>7, <1>8, <1>9 DEF DoubleValue, SealedValue

(* A value that is sealed where it stands reads as the sealed value there. *)
LEMMA SealsValue ==
    ASSUME NEW l \in Str, NEW m \in Str, NEW v \in ParseValue(l), v.value # << >>,
           Swapped(l, m, v.start, v.end)
    PROVE  ParseValue(m) = {SealedValue(v.start)}
<1>1. CASE \E k, n : Unquoted(l) /\ BareTo(l, k, n) /\ v = BareValue(l, n)
  <2>1. PICK k, n : Unquoted(l) /\ BareTo(l, k, n) /\ v = BareValue(l, n)
    BY <1>1
  <2>2. v.start = 1 /\ v.end = 1 + n /\ SubSeq(l, 1, n) # << >>
    BY <2>1 DEF BareValue
  <2>3. n > 0
    <3>1. n \in Nat
      <4>1. n \in 0 .. k /\ k \in 0 .. Len(l)
        BY <2>1 DEF BareTo, KeptTo
      <4> QED BY <4>1
    <3>2. SubSeq(l, 1, 0) = << >>
      BY SubSeqEmpty
    <3> QED BY <2>2, <3>1, <3>2
  <2>4. Swapped(l, m, 1, 1 + n)
    BY <2>2
  <2> QED BY <2>1, <2>2, <2>3, <2>4, SealsBare
<1>2. CASE \E c : SingleTo(l, c) /\ v = SingleValue(l, c)
  <2>1. PICK c : SingleTo(l, c) /\ v = SingleValue(l, c)
    BY <1>2
  <2>2. v.start = 2 /\ v.end = c
    BY <2>1 DEF SingleValue
  <2> QED BY <2>1, <2>2, SealsSingle
<1>3. CASE \E c : DoubleTo(l, c) /\ v = DoubleValue(l, c)
  <2>1. PICK c : DoubleTo(l, c) /\ v = DoubleValue(l, c)
    BY <1>3
  <2>2. v.start = 2 /\ v.end = c
    BY <2>1 DEF DoubleValue
  <2> QED BY <2>1, <2>2, SealsDouble
<1> QED BY <1>1, <1>2, <1>3, ValueForms

-----------------------------------------------------------------------------
(* A whole line.                                                           *)

LEMMA SwappedBody ==
    ASSUME NEW l \in Str, NEW m \in Str, NEW s, NEW d, Swapped(l, m, s, d), NEW b \in 1 .. s
    PROVE  /\ b \in 1 .. (Len(l) + 1) /\ b \in 1 .. (Len(m) + 1)
           /\ Rest(l, b) \in Str /\ Rest(m, b) \in Str
           /\ Swapped(Rest(l, b), Rest(m, b), s - b + 1, d - b + 1)
<1>1. /\ l \in Seq(Symbol) /\ m \in Seq(Symbol) /\ Len(l) \in Nat /\ Len(m) \in Nat
      /\ s \in 1 .. (Len(l) + 1) /\ d \in s .. (Len(l) + 1) /\ s \in Nat /\ d \in Nat
      /\ Len(m) = Len(l) - (d - s) + 3
  BY SwappedNumbers
<1>2. /\ b \in 1 .. (Len(l) + 1) /\ b \in 1 .. (Len(m) + 1) /\ b \in Nat /\ b <= s /\ 1 <= b
  BY <1>1
<1>x. PICK x : x = Rest(l, b)
  OBVIOUS
<1>y. PICK y : y = Rest(m, b)
  OBVIOUS
<1>3. x \in Seq(Symbol) /\ Len(x) = Len(l) - b + 1 /\ \A j \in 1 .. (Len(l) - b + 1) : x[j] = l[b + j - 1]
  BY ONLY <1>1, <1>2, <1>x, RestIs
<1>4. y \in Seq(Symbol) /\ Len(y) = Len(m) - b + 1 /\ \A j \in 1 .. (Len(m) - b + 1) : y[j] = m[b + j - 1]
  BY ONLY <1>1, <1>2, <1>y, RestIs, ZenonT(40)
<1>u. PICK u : u = s - b + 1
  OBVIOUS
<1>w. PICK w : w = d - b + 1
  OBVIOUS
<1>5. /\ u \in 1 .. (Len(x) + 1) /\ w \in u .. (Len(x) + 1) /\ u \in Nat /\ w \in Nat
      /\ Len(y) = Len(x) - (w - u) + 3
  <2>1. Len(x) = Len(l) - b + 1 /\ Len(y) = Len(m) - b + 1
    BY <1>3, <1>4
  <2> QED BY ONLY <1>1, <1>2, <1>u, <1>w, <2>1
<1>6. ASSUME NEW j \in 1 .. (u - 1) PROVE y[j] = x[j]
  <2>1. /\ j \in 1 .. (Len(l) - b + 1) /\ j \in 1 .. (Len(m) - b + 1)
        /\ b + j - 1 \in 1 .. (s - 1)
    <3>1. j \in 1 .. (u - 1)
      OBVIOUS
    <3> QED BY ONLY <1>1, <1>2, <1>u, <3>1
  <2>2. m[b + j - 1] = l[b + j - 1]
    BY <2>1 DEF Swapped
  <2> QED BY <1>3, <1>4, <2>1, <2>2
<1>7. SealedAt(y, u)
  <2> SUFFICES ASSUME NEW k \in 1 .. 3 PROVE y[u + k - 1] = SEALED[k]
    BY DEF SealedAt
  <2>1. u + k - 1 \in 1 .. (Len(m) - b + 1) /\ b + (u + k - 1) - 1 = s + k - 1
    BY ONLY <1>1, <1>2, <1>u, k \in 1 .. 3
  <2>2. m[s + k - 1] = SEALED[k]
    BY DEF Swapped, SealedAt
  <2> QED BY <1>4, <2>1, <2>2
<1>8. ASSUME NEW j \in w .. Len(x) PROVE y[j - w + u + 3] = x[j]
  <2>i. PICK i : i = b + j - 1
    OBVIOUS
  <2>1. /\ j \in 1 .. (Len(l) - b + 1) /\ j - w + u + 3 \in 1 .. (Len(m) - b + 1)
        /\ i \in d .. Len(l) /\ b + (j - w + u + 3) - 1 = i - d + s + 3
    <3>1. j \in w .. Len(x) /\ Len(x) = Len(l) - b + 1
      BY <1>3
    <3> QED BY ONLY <1>1, <1>2, <1>5, <1>u, <1>w, <2>i, <3>1
  <2>2. m[i - d + s + 3] = l[i]
    BY <2>1 DEF Swapped
  <2> QED BY <1>3, <1>4, <2>1, <2>2, <2>i
<1>9. Swapped(x, y, u, w)
  BY <1>5, <1>6, <1>7, <1>8 DEF Swapped
<1> QED BY <1>2, <1>3, <1>4, <1>9, <1>x, <1>y, <1>u, <1>w DEF Str

(* A carriage return behind the value is dropped from both lines.          *)
LEMMA SwappedDropCR ==
    ASSUME NEW l \in Str, NEW m \in Str, NEW s, NEW d, Swapped(l, m, s, d),
           d <= Len(DropCR(l)) + 1
    PROVE  DropCR(l) \in Str /\ DropCR(m) \in Str /\ Swapped(DropCR(l), DropCR(m), s, d)
<1>1. /\ l \in Seq(Symbol) /\ m \in Seq(Symbol) /\ Len(l) \in Nat /\ Len(m) \in Nat
      /\ s \in 1 .. (Len(l) + 1) /\ d \in s .. (Len(l) + 1) /\ s \in Nat /\ d \in Nat
      /\ Len(m) = Len(l) - (d - s) + 3
  BY SwappedNumbers
<1>x. PICK x : x = DropCR(l)
  OBVIOUS
<1>y. PICK y : y = DropCR(m)
  OBVIOUS
<1> DEFINE Ends(z) == Len(z) > 0 /\ z[Len(z)] = "\r"
<1>2. /\ x \in Seq(Symbol) /\ Len(x) = IF Ends(l) THEN Len(l) - 1 ELSE Len(l)
      /\ \A j \in 1 .. Len(x) : x[j] = l[j]
  BY <1>1, <1>x, DropCRIs
<1>3. /\ y \in Seq(Symbol) /\ Len(y) = IF Ends(m) THEN Len(m) - 1 ELSE Len(m)
      /\ \A j \in 1 .. Len(y) : y[j] = m[j]
  BY <1>1, <1>y, DropCRIs
<1>4. Ends(l) <=> Ends(m)
  <2>1. CASE d <= Len(l)
    <3>1. Len(l) \in d .. Len(l) /\ Len(l) - d + s + 3 = Len(m) /\ Len(m) > 0 /\ Len(l) > 0
      BY ONLY <1>1, <2>1
    <3>2. m[Len(l) - d + s + 3] = l[Len(l)]
      BY <3>1 DEF Swapped
    <3> QED BY <3>1, <3>2
  <2>2. CASE ~(d <= Len(l))
    <3>1. d = Len(l) + 1 /\ Len(m) = s + 3 - 1
      BY ONLY <1>1, <2>2
    <3>2. ~Ends(l)
      <4>1. d <= Len(x) + 1
        BY <1>x
      <4>2. Len(x) # Len(l) - 1
        BY <1>1, <3>1, <4>1
      <4> HIDE DEF Ends
      <4> QED BY <1>2, <4>2
    <3>3. ~Ends(m)
      <4>1. m[s + 3 - 1] = SEALED[3]
        BY DEF Swapped, SealedAt
      <4>2. SEALED[3] # "\r"
        BY 3 \in 1 .. 3, SealedIs DEF Blank
      <4> QED BY <3>1, <4>1, <4>2
    <3> QED BY <3>2, <3>3
  <2> QED BY <2>1, <2>2
<1> HIDE DEF Ends
<1>5. /\ Len(x) \in Nat /\ Len(y) \in Nat /\ d <= Len(x) + 1 /\ Len(y) = Len(x) - (d - s) + 3
      /\ Len(x) <= Len(l) /\ Len(y) <= Len(m)
  <2>1. d <= Len(x) + 1
    BY <1>x
  <2>2. (Len(x) = Len(l) /\ Len(y) = Len(m)) \/ (Len(x) = Len(l) - 1 /\ Len(y) = Len(m) - 1)
    BY <1>2, <1>3, <1>4
  <2>3. Len(x) \in Nat /\ Len(y) \in Nat
    BY <1>2, <1>3
  <2> QED BY ONLY <1>1, <2>1, <2>2, <2>3
<1>6. s \in 1 .. (Len(x) + 1) /\ d \in s .. (Len(x) + 1)
  BY ONLY <1>1, <1>5
<1>7. ASSUME NEW j \in 1 .. (s - 1) PROVE y[j] = x[j]
  <2>1. j \in 1 .. (s - 1)
    OBVIOUS
  <2>2. j \in 1 .. Len(x) /\ j \in 1 .. Len(y)
    BY ONLY <1>1, <1>5, <1>6, <2>1
  <2>3. m[j] = l[j]
    BY DEF Swapped
  <2> QED BY <1>2, <1>3, <2>2, <2>3
<1>8. SealedAt(y, s)
  <2> SUFFICES ASSUME NEW k \in 1 .. 3 PROVE y[s + k - 1] = SEALED[k]
    BY DEF SealedAt
  <2>1. s + k - 1 \in 1 .. Len(y)
    BY ONLY <1>1, <1>5, <1>6, k \in 1 .. 3
  <2>2. m[s + k - 1] = SEALED[k]
    BY DEF Swapped, SealedAt
  <2> QED BY <1>3, <2>1, <2>2
<1>9. ASSUME NEW j \in d .. Len(x) PROVE y[j - d + s + 3] = x[j]
  <2>1. j \in d .. Len(x)
    OBVIOUS
  <2>2. j \in 1 .. Len(x) /\ j - d + s + 3 \in 1 .. Len(y) /\ j \in d .. Len(l)
    BY ONLY <1>1, <1>5, <1>6, <2>1
  <2>3. m[j - d + s + 3] = l[j]
    BY <2>2 DEF Swapped
  <2> QED BY <1>2, <1>3, <2>2, <2>3
<1>10. Swapped(x, y, s, d)
  BY <1>5, <1>6, <1>7, <1>8, <1>9 DEF Swapped
<1> QED BY <1>2, <1>3, <1>10, <1>x, <1>y DEF Str

LEMMA ContentKept ==
    ASSUME NEW l \in Str, NEW m \in Str, NEW c, NEW q \in Nat, Content(l, c), c < q,
           q <= Len(l), q <= Len(m), \A j \in 1 .. q : m[j] = l[j]
    PROVE  Content(m, c)
<1>1. Len(l) \in Nat /\ Len(m) \in Nat
  BY DEF Str
<1>2. PICK k : /\ BlanksTo(l, 1, k)
               /\ IF Exported(l, k) THEN BlanksTo(l, k + 1, c) ELSE c = k
  BY DEF Content
<1>3. /\ k \in 1 .. (Len(l) + 1) /\ \A j \in 1 .. (k - 1) : l[j] \in Blank
      /\ k <= Len(l) => l[k] \notin Blank
  BY <1>2 DEF BlanksTo
<1>4. Exported(l, k) => /\ c \in (k + 1) .. (Len(l) + 1) /\ \A j \in (k + 1) .. (c - 1) : l[j] \in Blank
                        /\ c <= Len(l) => l[c] \notin Blank
  BY <1>2 DEF BlanksTo
<1>5. c \in Nat /\ k \in Nat /\ k <= c /\ 1 <= k
  <2>1. CASE Exported(l, k)
    <3>1. c \in (k + 1) .. (Len(l) + 1)
      BY <1>4, <2>1
    <3> QED BY ONLY <1>1, <1>3, <3>1
  <2>2. CASE ~Exported(l, k)
    <3>1. c = k
      BY <1>2, <2>2
    <3> QED BY ONLY <1>1, <1>3, <3>1
  <2> QED BY <2>1, <2>2
<1>q. c < q /\ q \in Nat /\ q <= Len(l) /\ q <= Len(m)
  OBVIOUS
<1>6. /\ k \in 1 .. q /\ k + 1 \in 1 .. q /\ c \in 1 .. q /\ k < Len(l) /\ k < Len(m)
      /\ k \in 1 .. (Len(m) + 1) /\ k <= Len(l) /\ c <= Len(l) /\ c <= Len(m)
      /\ \A j \in 1 .. (k - 1) : j \in 1 .. q
      /\ \A j \in (k + 1) .. (c - 1) : j \in 1 .. q
  BY ONLY <1>1, <1>5, <1>q
<1>7. BlanksTo(m, 1, k)
  BY <1>3, <1>6 DEF BlanksTo
<1>8. Exported(m, k) <=> Exported(l, k)
  <2>1. m[k] = l[k] /\ m[k + 1] = l[k + 1]
    BY <1>6
  <2> QED BY <1>6, <2>1 DEF Exported
<1>9. CASE Exported(l, k)
  <2>1. c \in (k + 1) .. (Len(m) + 1)
    <3>1. c \in (k + 1) .. (Len(l) + 1)
      BY <1>4, <1>9
    <3> QED BY ONLY <1>1, <1>5, <1>6, <3>1
  <2>2. BlanksTo(m, k + 1, c)
    BY <1>4, <1>6, <1>9, <2>1 DEF BlanksTo
  <2> QED BY <1>7, <1>8, <1>9, <2>2 DEF Content
<1>10. CASE ~Exported(l, k)
  BY <1>2, <1>7, <1>8, <1>10 DEF Content
<1> QED BY <1>9, <1>10

(* A line whose value is sealed where it stands assigns the sealed value   *)
(* to the same name.                                                       *)
LEMMA SealsLine ==
    ASSUME NEW l \in Str, NEW m \in Str, NEW c, NEW q, NEW b, Assigns(l, c, q, b),
           NEW v \in ParseValue(Rest(l, b)), v.value # << >>,
           Swapped(l, m, (b - 1) + v.start, (b - 1) + v.end)
    PROVE  /\ Assigns(m, c, q, b) /\ KeyOf(m, c, q) = KeyOf(l, c, q)
           /\ ParseValue(Rest(m, b)) = {SealedValue(v.start)}
<1>s. PICK s : s = (b - 1) + v.start
  OBVIOUS
<1>d. PICK d : d = (b - 1) + v.end
  OBVIOUS
<1>1. Swapped(l, m, s, d)
  BY <1>s, <1>d
<1>2. /\ l \in Seq(Symbol) /\ m \in Seq(Symbol) /\ Len(l) \in Nat /\ Len(m) \in Nat
      /\ s \in 1 .. (Len(l) + 1) /\ d \in s .. (Len(l) + 1) /\ s \in Nat /\ d \in Nat
      /\ Len(m) = Len(l) - (d - s) + 3
  BY <1>1, SwappedNumbers
<1>3. Content(l, c) /\ EqAt(l, c, q) /\ BlanksTo(l, q + 1, b) /\ Named(KeyOf(l, c, q))
  BY DEF Assigns
<1>4. c \in 1 .. (Len(l) + 1)
  BY <1>2, <1>3, ContentReads
<1>5. /\ q \in (c + 1) .. Len(l) /\ l[q] = "=" /\ \A j \in c .. (q - 1) : l[j] # "="
  BY <1>3 DEF EqAt
<1>6. /\ b \in (q + 1) .. (Len(l) + 1) /\ \A j \in (q + 1) .. (b - 1) : l[j] \in Blank
      /\ b <= Len(l) => l[b] \notin Blank
  BY <1>3 DEF BlanksTo
<1>n. /\ c \in Nat /\ q \in Nat /\ b \in Nat /\ 1 <= c /\ c < q /\ q < b /\ b <= Len(l) + 1 /\ q <= Len(l)
  <2>1. q \in (c + 1) .. Len(l)
    BY <1>5
  <2> QED BY ONLY <1>2, <1>4, <1>6, <2>1
<1>7. Rest(l, b) \in Str
  <2>1. b \in 1 .. (Len(l) + 1)
    BY <1>n, <1>2
  <2> QED BY <1>2, <2>1, RestIs DEF Str
<1>8. v.start \in 1 .. 2 /\ v.end \in v.start .. (Len(Rest(l, b)) + 1)
  BY <1>7, ValuePlaced DEF Placed
<1>9. s = b \/ s = b + 1
  BY ONLY <1>s, <1>8, <1>n
<1>10. /\ b \in 1 .. s /\ q < s /\ q <= Len(m) /\ b <= Len(m) /\ s <= Len(m)
       /\ s - b + 1 = v.start
  <2>1. b \in 1 .. s /\ q < s /\ q <= Len(m) /\ b <= Len(m) /\ s <= Len(m)
    <3>1. Len(m) >= s + 2
      BY ONLY <1>2
    <3>2. b <= s
      BY ONLY <1>9, <1>n
    <3> QED BY ONLY <1>2, <1>n, <3>1, <3>2
  <2>a. PICK a : a = v.start
    OBVIOUS
  <2>2. a \in 1 .. 2 /\ s = (b - 1) + a
    BY <1>8, <1>s, <2>a
  <2>3. s - b + 1 = a
    BY ONLY <1>n, <2>2
  <2> QED BY <2>1, <2>3, <2>a
<1>11. \A j \in 1 .. (s - 1) : m[j] = l[j]
  BY <1>1 DEF Swapped
<1>12. \A j \in 1 .. q : j \in 1 .. (s - 1)
  BY ONLY <1>2, <1>10, <1>n
<1>13. Content(m, c)
  BY <1>3, <1>10, <1>11, <1>12, <1>n, ContentKept
<1>14. EqAt(m, c, q)
  <2>1. /\ q \in (c + 1) .. Len(m) /\ q \in 1 .. q
        /\ \A j \in c .. (q - 1) : j \in 1 .. q
    BY ONLY <1>2, <1>10, <1>n
  <2> QED BY <1>5, <1>11, <1>12, <2>1 DEF EqAt
<1>15. BlanksTo(m, q + 1, b)
  <2>1. /\ b \in (q + 1) .. (Len(m) + 1) /\ \A j \in (q + 1) .. (b - 1) : j \in 1 .. (s - 1)
    BY ONLY <1>2, <1>10, <1>n
  <2>2. m[b] \notin Blank
    <3>1. CASE s = b
      <4>1. m[s + 1 - 1] = SEALED[1] /\ 1 \in 1 .. 3 /\ s + 1 - 1 = s
        <5>1. 1 \in 1 .. 3 /\ s + 1 - 1 = s
          BY ONLY <1>2
        <5> QED BY <1>1, <5>1 DEF Swapped, SealedAt
      <4>2. SEALED[1] \notin Blank
        BY <4>1, SealedIs
      <4> QED BY <3>1, <4>1, <4>2
    <3>2. CASE s = b + 1
      <4>1. b \in 1 .. (s - 1) /\ b <= Len(l)
        BY ONLY <1>2, <1>n, <3>2
      <4> QED BY <1>6, <1>11, <4>1
    <3> QED BY <1>9, <3>1, <3>2
  <2> QED BY <1>6, <1>11, <2>1, <2>2 DEF BlanksTo
<1>16. KeyOf(m, c, q) = KeyOf(l, c, q)
  <2>1. c \in 1 .. s /\ q \in c .. s
    BY ONLY <1>2, <1>10, <1>n
  <2>2. Slice(m, c, q) = Slice(l, c, q)
    BY <1>1, <2>1, SwappedFront
  <2> QED BY <2>2 DEF KeyOf
<1>17. ParseValue(Rest(m, b)) = {SealedValue(v.start)}
  <2>1. Rest(m, b) \in Str /\ Swapped(Rest(l, b), Rest(m, b), s - b + 1, d - b + 1)
    BY <1>1, <1>10, SwappedBody
  <2>2. d - b + 1 = v.end
    <3>1. v.end \in Int
      <4>1. Len(Rest(l, b)) \in Nat
        BY <1>7 DEF Str
      <4> QED BY ONLY <1>8, <4>1
    <3> QED BY ONLY <1>d, <1>n, <3>1
  <2>3. Swapped(Rest(l, b), Rest(m, b), v.start, v.end)
    BY <1>10, <2>1, <2>2
  <2> QED BY <1>7, <2>1, <2>3, SealsValue
<1> QED BY <1>3, <1>13, <1>14, <1>15, <1>16, <1>17 DEF Assigns

-----------------------------------------------------------------------------
(* Where lines and entries are in a text.                                  *)

(* A line is what is from its start up to a line end or the text's end.    *)
LinePlace(t, i, l) ==
    /\ l \in Str /\ Len(l) \in Nat /\ i + Len(l) <= Len(t) + 1
    /\ \A j \in 1 .. Len(l) : l[j] = t[i + j - 1]
    /\ i + Len(l) <= Len(t) => t[i + Len(l)] \in Blank

NoBreak(t, i, n) == \A j \in i .. (i + n - 1) : t[j] # "\n"

LEMMA DropCRPlaced ==
    ASSUME NEW t \in Str, NEW i \in 1 .. Len(t), NEW l, LinePlace(t, i, l)
    PROVE  LinePlace(t, i, DropCR(l)) /\ Len(DropCR(l)) <= Len(l)
<1> DEFINE d == DropCR(l)
<1>1. /\ l \in Seq(Symbol) /\ t \in Seq(Symbol) /\ Len(t) \in Nat /\ Len(l) \in Nat
      /\ i + Len(l) <= Len(t) + 1
      /\ \A j \in 1 .. Len(l) : l[j] = t[i + j - 1]
      /\ i + Len(l) <= Len(t) => t[i + Len(l)] \in Blank
    BY LenProperties DEF LinePlace, Str
<1>2. /\ d \in Seq(Symbol)
      /\ Len(d) = IF Len(l) > 0 /\ l[Len(l)] = "\r" THEN Len(l) - 1 ELSE Len(l)
      /\ \A j \in 1 .. Len(d) : d[j] = l[j]
    BY ONLY <1>1, DropCRIs
<1>3. CASE Len(l) > 0 /\ l[Len(l)] = "\r"
  <2>1. Len(d) = Len(l) - 1
      BY <1>2, <1>3, Zenon
  <2>2. Len(l) \in 1 .. Len(l) /\ i + Len(l) - 1 = i + Len(d)
      BY ONLY <1>1, <2>1, Len(l) > 0, <1>3
  <2>3. "\r" \in Blank
      BY Zenon DEF Blank
  <2>4. t[i + Len(d)] \in Blank
      BY <1>1, <1>3, <2>2, <2>3, Zenon
  <2>5. /\ Len(d) \in Nat /\ i + Len(d) <= Len(t) + 1 /\ Len(d) <= Len(l)
        /\ \A j \in 1 .. Len(d) : d[j] = t[i + j - 1]
      BY ONLY <1>1, <1>2, <2>1, <2>2
  <2> QED
      BY <1>2, <2>4, <2>5 DEF LinePlace, Str
<1>4. CASE ~(Len(l) > 0 /\ l[Len(l)] = "\r")
  <2>1. Len(d) = Len(l)
      BY <1>2, <1>4, Zenon
  <2>2. /\ Len(d) \in Nat /\ i + Len(d) <= Len(t) + 1 /\ Len(d) <= Len(l)
        /\ \A j \in 1 .. Len(d) : d[j] = t[i + j - 1]
        /\ i + Len(d) <= Len(t) => t[i + Len(d)] \in Blank
      BY ONLY <1>1, <1>2, <2>1
  <2> QED
      BY <1>2, <2>2 DEF LinePlace, Str
<1> QED
    BY <1>3, <1>4

LEMMA LinePlaced ==
    ASSUME NEW t \in Str, NEW i \in 1 .. Len(t)
    PROVE  /\ LinePlace(t, i, Line(t, i))
           /\ NoBreak(t, i, Len(Line(t, i)))
<1> DEFINE f == LineFrom(t, i)
<1>1. "\n" \in Symbol /\ t \in Seq(Symbol)
    BY Zenon DEF Symbol, Str
<1>2. LET e == i + Len(f)
      IN  /\ e \in i .. (Len(t) + 1)
          /\ f = Slice(t, i, e)
          /\ f \in Seq(Symbol)
          /\ \A j \in i .. (e - 1) : t[j] # "\n"
          /\ e <= Len(t) => t[e] = "\n"
    BY <1>1, LineIs, Zenon
<1> HIDE DEF f
<1>3. Len(t) \in Nat /\ Len(f) \in Nat
    BY <1>1, <1>2, LenProperties
<1>4. PICK e : e = i + Len(f)
    OBVIOUS
<1>5. /\ e \in i .. (Len(t) + 1) /\ f = Slice(t, i, e) /\ f \in Seq(Symbol)
    BY <1>2, <1>4
<1>6. \A j \in i .. (e - 1) : t[j] # "\n"
    BY <1>2, <1>4, Zenon
<1>7. e <= Len(t) => t[e] \in Blank
    BY <1>2, <1>4, Zenon DEF Blank
<1>8. \A j \in 1 .. Len(f) : f[j] = t[i + j - 1]
  <2>1. i \in 1 .. (Len(t) + 1) /\ Len(f) = e - i
      BY ONLY <1>3, <1>4, <1>5, i \in 1 .. Len(t)
  <2>2. \A k \in 1 .. (e - i) : Slice(t, i, e)[k] = t[i + k - 1]
      BY ONLY <2>1, <1>1, <1>5, SliceIs, ZenonT(40)
  <2> QED
      BY <2>1, <2>2, <1>5
<1>9. LinePlace(t, i, f)
    BY <1>3, <1>4, <1>5, <1>7, <1>8 DEF LinePlace, Str
<1>10. LinePlace(t, i, DropCR(f)) /\ Len(DropCR(f)) <= Len(f)
    BY <1>9, DropCRPlaced
<1>11. LinePlace(t, i, DropCR(DropCR(f))) /\ Len(DropCR(DropCR(f))) <= Len(DropCR(f))
    BY <1>10, DropCRPlaced
<1>12. Line(t, i) = DropCR(f) \/ Line(t, i) = DropCR(DropCR(f))
    BY Zenon DEF Line, f
<1>13. PICK l : l = Line(t, i)
    OBVIOUS
<1>14. LinePlace(t, i, l)
    BY <1>10, <1>11, <1>12, <1>13, Zenon
<1>15. Len(DropCR(f)) \in Nat /\ Len(DropCR(DropCR(f))) \in Nat /\ Len(l) \in Nat
    BY <1>10, <1>11, <1>14, Zenon DEF LinePlace
<1>16. Len(DropCR(DropCR(f))) <= Len(f)
    BY ONLY <1>3, <1>10, <1>11, <1>15
<1>17. Len(l) <= Len(f)
    BY <1>10, <1>16, <1>12, <1>13, Zenon
<1>18. \A j \in i .. (i + Len(l) - 1) : j \in i .. (e - 1)
    BY ONLY <1>3, <1>4, <1>15, <1>17, i \in 1 .. Len(t)
<1>19. NoBreak(t, i, Len(l))
    BY <1>6, <1>18, Zenon DEF NoBreak
<1> QED
    BY <1>13, <1>14, <1>19

(* An entry is the assignment of its line.                                 *)
Written(t, i, e, c, q, b, v) ==
    /\ i \in LineStarts(t) /\ ~Ignored(Line(t, i))
    /\ Assigns(Line(t, i), c, q, b)
    /\ v \in ParseValue(Rest(Line(t, i), b))
    /\ e = EntryAt(i, b, KeyOf(Line(t, i), c, q), v)

LEMMA EntryWritten ==
    ASSUME NEW t \in Str, NEW e \in Entries(t)
    PROVE  \E i, c, q, b, v : Written(t, i, e, c, q, b, v)
<1>1. PICK i \in EntryLines(t) : e \in LineEntry(t, i)
    BY Zenon DEF Entries
<1>2. i \in LineStarts(t) /\ ~Ignored(Line(t, i))
    BY <1>1, Zenon DEF EntryLines
<1>3. i \in 1 .. Len(t) /\ Len(t) \in Nat
    BY <1>2 DEF LineStarts, Str
<1>4. Line(t, i) \in Str /\ i \in Nat
    BY <1>3, LinePlaced DEF LinePlace
<1>5. \E c, q, b :
         /\ Assigns(Line(t, i), c, q, b)
         /\ \E v \in ParseValue(Rest(Line(t, i), b)) : e = EntryAt(i, b, KeyOf(Line(t, i), c, q), v)
    BY ONLY <1>1, <1>4, EntryIsRead
<1> QED
    BY <1>2, <1>5, Zenon DEF Written

(* The numbers of an entry: the line, the places in it, and in the text.   *)
WrittenAt(t, i, n, e, c, q, b, v) ==
    /\ Len(t) \in Nat /\ i \in 1 .. Len(t) /\ n \in Nat /\ i + n <= Len(t) + 1
    /\ c \in 1 .. n /\ q \in (c + 1) .. n /\ b \in (q + 1) .. (n + 1)
    /\ v.start \in 1 .. 2 /\ v.end \in v.start .. (n - b + 2)
    /\ e.start = (i - 1) + (b - 1) + v.start /\ e.end = (i - 1) + (b - 1) + v.end

LEMMA WrittenPlaces ==
    ASSUME NEW t \in Str, NEW e, NEW i, NEW c, NEW q, NEW b, NEW v,
           Written(t, i, e, c, q, b, v)
    PROVE  /\ WrittenAt(t, i, Len(Line(t, i)), e, c, q, b, v)
           /\ Line(t, i) \in Str /\ Rest(Line(t, i), b) \in Str
           /\ Placed(Rest(Line(t, i), b), v)
           /\ e.key = KeyOf(Line(t, i), c, q) /\ e.value = v.value
<1> DEFINE l == Line(t, i)
<1>1. i \in 1 .. Len(t) /\ Len(t) \in Nat
    BY DEF Written, LineStarts, Str
<1>2. LinePlace(t, i, l)
    BY <1>1, LinePlaced
<1>3. l \in Str /\ l \in Seq(Symbol) /\ Len(l) \in Nat /\ i + Len(l) <= Len(t) + 1
    BY <1>2 DEF LinePlace, Str
<1>4. /\ Assigns(l, c, q, b) /\ v \in ParseValue(Rest(l, b))
      /\ e = EntryAt(i, b, KeyOf(l, c, q), v)
    BY Zenon DEF Written
<1> HIDE DEF l
<1>5. c \in 1 .. (Len(l) + 1)
    BY <1>3, <1>4, ContentReads, Zenon DEF Assigns
<1>6. q \in (c + 1) .. Len(l) /\ b \in (q + 1) .. (Len(l) + 1)
    BY <1>4, Zenon DEF Assigns, EqAt, BlanksTo
<1>7. b \in 1 .. (Len(l) + 1) /\ c \in 1 .. Len(l)
    BY ONLY <1>3, <1>5, <1>6
<1>8. Rest(l, b) \in Seq(Symbol) /\ Len(Rest(l, b)) = Len(l) - b + 1
    BY ONLY <1>3, <1>7, RestIs
<1>9. Placed(Rest(l, b), v)
    BY <1>8, <1>4, ValuePlaced, Zenon DEF Str
<1>10. v.start \in 1 .. 2 /\ v.end \in v.start .. (Len(Rest(l, b)) + 1)
    BY <1>9, Zenon DEF Placed
<1>11. v.start \in 1 .. 2 /\ v.end \in v.start .. (Len(l) - b + 2)
  <2>1. PICK s, d : s = v.start /\ d = v.end
      OBVIOUS
  <2>2. s \in 1 .. 2 /\ d \in s .. (Len(Rest(l, b)) + 1)
      BY <1>10, <2>1
  <2>3. d \in s .. (Len(l) - b + 2)
      BY ONLY <2>2, <1>8, <1>3, <1>7
  <2> QED
      BY <2>1, <2>2, <2>3
<1>12. /\ e.start = (i - 1) + (b - 1) + v.start /\ e.end = (i - 1) + (b - 1) + v.end
       /\ e.key = KeyOf(l, c, q) /\ e.value = v.value
    BY <1>4 DEF EntryAt
<1> QED
    BY <1>1, <1>3, <1>6, <1>7, <1>8, <1>9, <1>11, <1>12 DEF WrittenAt, Str, l

(* A line has one entry.                                                   *)
LEMMA OneEntry ==
    ASSUME NEW t \in Str, NEW e, NEW i, NEW c, NEW q, NEW b, NEW v,
           Written(t, i, e, c, q, b, v)
    PROVE  LineEntry(t, i) = {e}
<1>1. Line(t, i) \in Str /\ Rest(Line(t, i), b) \in Str /\ i \in Nat
    BY WrittenPlaces DEF WrittenAt
<1>2. /\ Assigns(Line(t, i), c, q, b) /\ v \in ParseValue(Rest(Line(t, i), b))
      /\ e = EntryAt(i, b, KeyOf(Line(t, i), c, q), v)
    BY Zenon DEF Written
<1>3. ParseValue(Rest(Line(t, i), b)) = {v}
    BY <1>1, <1>2, OneValue, Zenon
<1>4. LineEntry(t, i) =
        {EntryAt(i, b, KeyOf(Line(t, i), c, q), w) : w \in ParseValue(Rest(Line(t, i), b))}
    BY ONLY <1>1, <1>2, ReadIsEntry
<1> QED
    BY <1>2, <1>3, <1>4, Zenon

(* Lines are behind one another.                                           *)
LEMMA LinesApart ==
    ASSUME NEW t \in Str, NEW i \in LineStarts(t), NEW j \in LineStarts(t), i < j
    PROVE  i + Len(Line(t, i)) < j
<1>1. i \in 1 .. Len(t) /\ j \in 1 .. Len(t) /\ Len(t) \in Nat
    BY DEF LineStarts, Str
<1>2. j = 1 \/ t[j - 1] = "\n"
    BY Zenon DEF LineStarts
<1>3. NoBreak(t, i, Len(Line(t, i))) /\ Len(Line(t, i)) \in Nat
    BY <1>1, LinePlaced DEF LinePlace
<1>4. PICK n \in Nat : n = Len(Line(t, i))
    BY <1>3
<1>5. ~(j - 1 \in i .. (i + n - 1))
  <2>1. t[j - 1] = "\n"
      BY ONLY <1>1, <1>2, i < j
  <2> QED
      BY <2>1, <1>3, <1>4, Zenon DEF NoBreak
<1>6. i + n < j
    BY ONLY <1>1, <1>4, <1>5, i < j
<1> QED
    BY <1>4, <1>6

(* An entry is in its text, and two entries are apart.                     *)
LEMMA EntryPlaced ==
    ASSUME NEW t \in Str, NEW e \in Entries(t)
    PROVE  e.start \in 3 .. (Len(t) + 1) /\ e.end \in e.start .. (Len(t) + 1)
<1>1. PICK i, c, q, b, v : Written(t, i, e, c, q, b, v)
    BY EntryWritten
<1>2. PICK n : WrittenAt(t, i, n, e, c, q, b, v)
    BY <1>1, WrittenPlaces
<1>3. PICK s, d, x, y, m : s = v.start /\ d = v.end /\ x = e.start /\ y = e.end /\ m = Len(t)
    OBVIOUS
<1>4. /\ m \in Nat /\ i \in 1 .. m /\ n \in Nat /\ i + n <= m + 1
      /\ c \in 1 .. n /\ q \in (c + 1) .. n /\ b \in (q + 1) .. (n + 1)
      /\ s \in 1 .. 2 /\ d \in s .. (n - b + 2)
      /\ x = (i - 1) + (b - 1) + s /\ y = (i - 1) + (b - 1) + d
    BY <1>2, <1>3 DEF WrittenAt
<1>5. x \in 3 .. (m + 1) /\ y \in x .. (m + 1)
    BY ONLY <1>4
<1> QED
    BY <1>3, <1>5

LEMMA EntriesApart ==
    ASSUME NEW t \in Str, NEW e \in Entries(t), NEW f \in Entries(t), e # f
    PROVE  e.end < f.start \/ f.end < e.start
<1>1. PICK i, c, q, b, v : Written(t, i, e, c, q, b, v)
    BY EntryWritten
<1>2. PICK j, c2, q2, b2, v2 : Written(t, j, f, c2, q2, b2, v2)
    BY EntryWritten
<1>3. i # j
  <2> SUFFICES ASSUME i = j PROVE FALSE
      OBVIOUS
  <2>1. LineEntry(t, i) = {e} /\ LineEntry(t, i) = {f}
      BY <1>1, <1>2, OneEntry
  <2> QED
      BY <2>1
<1>4. PICK n, k : n = Len(Line(t, i)) /\ k = Len(Line(t, j))
    OBVIOUS
<1>5. WrittenAt(t, i, n, e, c, q, b, v) /\ WrittenAt(t, j, k, f, c2, q2, b2, v2)
    BY <1>1, <1>2, <1>4, WrittenPlaces
<1>6. PICK s, d, x, y, m, s2, d2, x2, y2 :
        /\ s = v.start /\ d = v.end /\ x = e.start /\ y = e.end /\ m = Len(t)
        /\ s2 = v2.start /\ d2 = v2.end /\ x2 = f.start /\ y2 = f.end
    OBVIOUS
<1>7. /\ m \in Nat /\ i \in 1 .. m /\ n \in Nat /\ i + n <= m + 1
      /\ c \in 1 .. n /\ q \in (c + 1) .. n /\ b \in (q + 1) .. (n + 1)
      /\ s \in 1 .. 2 /\ d \in s .. (n - b + 2)
      /\ x = (i - 1) + (b - 1) + s /\ y = (i - 1) + (b - 1) + d
    BY <1>5, <1>6 DEF WrittenAt
<1>8. /\ j \in 1 .. m /\ k \in Nat /\ j + k <= m + 1
      /\ c2 \in 1 .. k /\ q2 \in (c2 + 1) .. k /\ b2 \in (q2 + 1) .. (k + 1)
      /\ s2 \in 1 .. 2 /\ d2 \in s2 .. (k - b2 + 2)
      /\ x2 = (j - 1) + (b2 - 1) + s2 /\ y2 = (j - 1) + (b2 - 1) + d2
    BY <1>5, <1>6 DEF WrittenAt
<1>9. i \in LineStarts(t) /\ j \in LineStarts(t)
    BY <1>1, <1>2 DEF Written
<1>10. CASE i < j
  <2>1. i + n < j
      BY <1>4, <1>9, <1>10, LinesApart
  <2>2. y < x2
      BY ONLY <2>1, <1>7, <1>8
  <2> QED
      BY <2>2, <1>6
<1>11. CASE j < i
  <2>1. j + k < i
      BY <1>4, <1>9, <1>11, LinesApart
  <2>2. y2 < x
      BY ONLY <2>1, <1>7, <1>8
  <2> QED
      BY <2>2, <1>6
<1>12. i < j \/ j < i
    BY ONLY <1>3, <1>7, <1>8
<1> QED
    BY <1>10, <1>11, <1>12

-----------------------------------------------------------------------------
(* How the new text follows the old one.                                   *)

(* How a new text u follows an old one t up to n, where the spans in W are *)
(* replaced: g is where a place of t is in u. What is not in a span is     *)
(* copied, and SEALED stands for a span.                                   *)
Spans(W, n) ==
    /\ \A e \in W : e.start \in 1 .. n /\ e.end \in (e.start + 1) .. n
    /\ \A e, f \in W : e # f => e.end <= f.start \/ f.end <= e.start

Covered(W, i) == \E e \in W : e.start <= i /\ i < e.end

Edge(W, i) == ~\E e \in W : e.start < i /\ i < e.end

Follows(t, u, W, g, n) ==
    /\ n \in 1 .. (Len(t) + 1) /\ Spans(W, n)
    /\ \A i \in 1 .. n : g[i] \in Nat \ {0}
    /\ g[1] = 1 /\ g[n] = Len(u) + 1
    /\ \A i \in 1 .. (n - 1) : ~Covered(W, i) => g[i + 1] = g[i] + 1 /\ u[g[i]] = t[i] /\ g[i] <= Len(u)
    /\ \A e \in W : g[e.end] = g[e.start] + 3 /\ SealedAt(u, g[e.start]) /\ g[e.start] + 2 <= Len(u)

Agree(g, h, n) == \A i \in 1 .. n : h[i] = g[i]

(* The text before a place is copied.                                      *)
LEMMA FollowsCopy ==
    ASSUME NEW t \in Str, NEW u \in Str, NEW W, NEW g, NEW n, Follows(t, u, W, g, n),
           NEW k \in n .. (Len(t) + 1)
    PROVE  /\ u \o Slice(t, n, k) \in Str
           /\ \E h : Follows(t, u \o Slice(t, n, k), W, h, k) /\ Agree(g, h, n)
<1> DEFINE s == Slice(t, n, k)
<1> DEFINE w == u \o s
<1> DEFINE h == [i \in 1 .. k |-> IF i <= n THEN g[i] ELSE g[n] + (i - n)]
<1>1. /\ t \in Seq(Symbol) /\ u \in Seq(Symbol) /\ Len(t) \in Nat /\ Len(u) \in Nat
      /\ n \in 1 .. (Len(t) + 1) /\ Spans(W, n)
      /\ \A i \in 1 .. n : g[i] \in Nat \ {0}
      /\ g[1] = 1 /\ g[n] = Len(u) + 1
    BY LenProperties DEF Follows, Str
<1>2. \A i \in 1 .. (n - 1) : ~Covered(W, i) => g[i + 1] = g[i] + 1 /\ u[g[i]] = t[i] /\ g[i] <= Len(u)
    BY DEF Follows
<1>3. \A e \in W : g[e.end] = g[e.start] + 3 /\ SealedAt(u, g[e.start]) /\ g[e.start] + 2 <= Len(u)
    BY Zenon DEF Follows
<1>4. s \in Seq(Symbol) /\ Len(s) = k - n /\ \A i \in 1 .. (k - n) : s[i] = t[n + i - 1]
    BY ONLY <1>1, k \in n .. (Len(t) + 1), SliceIs
<1> HIDE DEF s
<1>5. /\ w \in Seq(Symbol) /\ Len(w) = Len(u) + Len(s)
      /\ \A i \in 1 .. Len(u) : w[i] = u[i]
      /\ \A i \in 1 .. Len(s) : w[Len(u) + i] = s[i]
  <2>1. u \in Seq(Symbol) /\ s \in Seq(Symbol)
      BY <1>1, <1>4
  <2> QED
      BY ONLY <2>1, JoinedIs
<1> HIDE DEF w
<1>6. k \in Nat /\ k \in 1 .. (Len(t) + 1) /\ n <= k /\ n \in 1 .. k /\ 1 \in 1 .. k
    BY <1>1
<1>7. Agree(g, h, n)
  <2>1. \A i \in 1 .. n : i \in 1 .. k /\ i <= n
      BY ONLY <1>1, <1>6
  <2> QED
      BY <2>1 DEF Agree
<1>8. \A i \in n .. k : h[i] = g[n] + (i - n)
  <2> SUFFICES ASSUME NEW i \in n .. k PROVE h[i] = g[n] + (i - n)
      OBVIOUS
  <2>1. i \in 1 .. k /\ (i <= n => i = n)
      BY ONLY <1>1, <1>6, i \in n .. k
  <2>2. g[n] + (n - n) = g[n]
      BY ONLY <1>1
  <2> QED
      BY <2>1, <2>2, Zenon
<1> HIDE DEF h
<1>9. Spans(W, k)
  <2>1. \A e \in W : e.start \in 1 .. k /\ e.end \in (e.start + 1) .. k
      BY <1>1, <1>6 DEF Spans
  <2> QED
      BY <2>1, <1>1, Zenon DEF Spans
<1>10. \A i \in 1 .. k : h[i] \in Nat \ {0}
  <2> SUFFICES ASSUME NEW i \in 1 .. k PROVE h[i] \in Nat \ {0}
      OBVIOUS
  <2>1. CASE i <= n
      BY <2>1, <1>1, <1>7 DEF Agree
  <2>2. CASE ~(i <= n)
      BY ONLY <2>2, <1>1, <1>6, <1>8, i \in 1 .. k
  <2> QED
      BY <2>1, <2>2
<1>11. h[1] = 1 /\ h[k] = Len(w) + 1
  <2>1. 1 \in 1 .. n /\ k \in n .. k
      BY ONLY <1>1, <1>6
  <2>2. h[1] = 1
      BY <2>1, <1>7, <1>1 DEF Agree
  <2>3. h[k] = g[n] + (k - n)
      BY <2>1, <1>8
  <2> QED
      BY ONLY <2>2, <2>3, <1>1, <1>4, <1>5, <1>6
<1>12. ASSUME NEW i \in 1 .. (k - 1), ~Covered(W, i)
       PROVE  h[i + 1] = h[i] + 1 /\ w[h[i]] = t[i] /\ h[i] <= Len(w)
  <2>1. CASE i < n
    <3>1. i \in 1 .. (n - 1) /\ i \in 1 .. n /\ i + 1 \in 1 .. n
        BY ONLY <1>1, <2>1, <1>6, i \in 1 .. (k - 1)
    <3>2. h[i] = g[i] /\ h[i + 1] = g[i + 1]
        BY <3>1, <1>7 DEF Agree
    <3>3. g[i + 1] = g[i] + 1 /\ u[g[i]] = t[i] /\ g[i] <= Len(u) /\ g[i] \in Nat \ {0}
        BY <3>1, <1>1, <1>2, <1>12
    <3>4. g[i] \in 1 .. Len(u) /\ g[i] <= Len(w)
      <4>1. PICK x : x = g[i]
          OBVIOUS
      <4>2. x \in Nat \ {0} /\ x <= Len(u)
          BY <3>3, <4>1
      <4>3. x \in 1 .. Len(u) /\ x <= Len(w)
          BY ONLY <4>2, <1>1, <1>4, <1>5, <1>6
      <4> QED
          BY <4>1, <4>3
    <3>5. w[g[i]] = u[g[i]]
        BY <3>4, <1>5
    <3> QED
        BY <3>2, <3>3, <3>4, <3>5
  <2>2. CASE ~(i < n)
    <3>1. i \in n .. k /\ i + 1 \in n .. k
        BY ONLY <1>1, <2>2, <1>6, i \in 1 .. (k - 1)
    <3>2. h[i] = g[n] + (i - n) /\ h[i + 1] = g[n] + ((i + 1) - n)
        BY ONLY <3>1, <1>8, Zenon
    <3>3. /\ h[i] = Len(u) + (i - n + 1) /\ h[i + 1] = h[i] + 1 /\ i - n + 1 \in 1 .. Len(s)
          /\ n + (i - n + 1) - 1 = i
      <4>1. PICK x, y : x = h[i] /\ y = h[i + 1]
          OBVIOUS
      <4>2. x = Len(u) + 1 + (i - n) /\ y = Len(u) + 1 + ((i + 1) - n) /\ i \in n .. k
          BY <3>1, <3>2, <4>1, <1>1
      <4>3. /\ x = Len(u) + (i - n + 1) /\ y = x + 1 /\ i - n + 1 \in 1 .. Len(s)
            /\ n + (i - n + 1) - 1 = i
          BY ONLY <4>2, <1>1, <1>4, <1>6, i \in 1 .. (k - 1)
      <4> QED
          BY <4>1, <4>3
    <3>4. w[Len(u) + (i - n + 1)] = s[i - n + 1]
        BY <3>3, <1>5
    <3>5. s[i - n + 1] = t[n + (i - n + 1) - 1]
        BY <3>3, <1>4
    <3>6. h[i] <= Len(w)
        BY ONLY <3>3, <1>5, <1>1, <1>4, <1>6
    <3> QED
        BY <3>3, <3>4, <3>5, <3>6
  <2> QED
      BY <2>1, <2>2
<1>13. ASSUME NEW e \in W
       PROVE  h[e.end] = h[e.start] + 3 /\ SealedAt(w, h[e.start]) /\ h[e.start] + 2 <= Len(w)
  <2>1. PICK a, b : a = e.start /\ b = e.end
      OBVIOUS
  <2>2. a \in 1 .. n /\ b \in (a + 1) .. n
      BY <2>1, <1>1 DEF Spans
  <2>3. a \in 1 .. n /\ b \in 1 .. n
      BY ONLY <2>2, <1>1
  <2>4. h[a] = g[a] /\ h[b] = g[b] /\ g[a] \in Nat \ {0}
      BY <2>3, <1>1, <1>7 DEF Agree
  <2>5. g[b] = g[a] + 3 /\ SealedAt(u, g[a]) /\ g[a] + 2 <= Len(u)
      BY <2>1, <1>3
  <2>6. PICK x : x = g[a]
      OBVIOUS
  <2>7. x \in Nat \ {0} /\ x + 2 <= Len(u) /\ SealedAt(u, x)
      BY <2>4, <2>5, <2>6
  <2>8. \A j \in 1 .. 3 : w[x + j - 1] = u[x + j - 1]
    <3>1. \A j \in 1 .. 3 : x + j - 1 \in 1 .. Len(u)
        BY ONLY <2>7, <1>1
    <3> QED
        BY <3>1, <1>5
  <2>9. SealedAt(w, x)
      BY <2>7, <2>8, Zenon DEF SealedAt
  <2>10. x + 2 <= Len(w)
      BY ONLY <2>7, <1>1, <1>4, <1>5, <1>6
  <2> QED
      BY <2>1, <2>4, <2>5, <2>6, <2>9, <2>10
<1>14. Follows(t, w, W, h, k)
    BY <1>6, <1>9, <1>10, <1>11, <1>12, <1>13 DEF Follows
<1> QED
    BY <1>5, <1>7, <1>14, Zenon DEF w, s, Str

(* A span is replaced.                                                     *)
LEMMA FollowsSeal ==
    ASSUME NEW t \in Str, NEW u \in Str, NEW W, NEW g, NEW e, Follows(t, u, W, g, e.start),
           e.end \in (e.start + 1) .. (Len(t) + 1)
    PROVE  /\ u \o SEALED \in Str /\ Len(u \o SEALED) = Len(u) + 3
           /\ \E h : Follows(t, u \o SEALED, W \cup {e}, h, e.end) /\ Agree(g, h, e.start)
<1> DEFINE w == u \o SEALED
<1>1. PICK n, k : n = e.start /\ k = e.end
    OBVIOUS
<1> DEFINE h == [i \in 1 .. k |-> IF i <= n THEN g[i] ELSE g[n] + 3]
<1>2. /\ t \in Seq(Symbol) /\ u \in Seq(Symbol) /\ Len(t) \in Nat /\ Len(u) \in Nat
      /\ n \in 1 .. (Len(t) + 1) /\ Spans(W, n) /\ k \in (n + 1) .. (Len(t) + 1)
      /\ \A i \in 1 .. n : g[i] \in Nat \ {0}
      /\ g[1] = 1 /\ g[n] = Len(u) + 1
    BY <1>1, LenProperties DEF Follows, Str
<1>3. \A i \in 1 .. (n - 1) : ~Covered(W, i) => g[i + 1] = g[i] + 1 /\ u[g[i]] = t[i] /\ g[i] <= Len(u)
    BY <1>1 DEF Follows
<1>4. \A f \in W : g[f.end] = g[f.start] + 3 /\ SealedAt(u, g[f.start]) /\ g[f.start] + 2 <= Len(u)
    BY Zenon DEF Follows
<1>5. SEALED \in Seq(Symbol) /\ Len(SEALED) = 3
    BY SealedIs
<1>6. /\ w \in Seq(Symbol) /\ Len(w) = Len(u) + 3
      /\ \A i \in 1 .. Len(u) : w[i] = u[i]
      /\ \A i \in 1 .. 3 : w[Len(u) + i] = SEALED[i]
  <2>1. u \in Seq(Symbol) /\ SEALED \in Seq(Symbol)
      BY <1>2, <1>5
  <2>2. /\ u \o SEALED \in Seq(Symbol) /\ Len(u \o SEALED) = Len(u) + Len(SEALED)
        /\ \A i \in 1 .. Len(u) : (u \o SEALED)[i] = u[i]
        /\ \A i \in 1 .. Len(SEALED) : (u \o SEALED)[Len(u) + i] = SEALED[i]
      BY ONLY <2>1, JoinedIs
  <2> QED
      BY <2>2, <1>5, Zenon
<1> HIDE DEF w
<1>7. k \in Nat /\ n \in Nat /\ k \in 1 .. (Len(t) + 1) /\ n < k /\ n \in 1 .. k /\ 1 \in 1 .. n /\ k \in 1 .. k
      /\ ~(k <= n)
    BY ONLY <1>2
<1>8. Agree(g, h, n) /\ h[n] = g[n] /\ h[k] = g[n] + 3
  <2>1. \A i \in 1 .. n : i \in 1 .. k /\ i <= n
      BY ONLY <1>2, <1>7
  <2>2. n \in 1 .. n
      BY ONLY <1>7, <1>2
  <2> QED
      BY <1>7, <2>1, <2>2 DEF Agree
<1>9. \A i \in 1 .. k : h[i] \in Nat \ {0}
  <2> SUFFICES ASSUME NEW i \in 1 .. k PROVE h[i] \in Nat \ {0}
      OBVIOUS
  <2>1. h[i] = g[i] \/ h[i] = g[n] + 3
      BY Zenon
  <2>2. i <= n => i \in 1 .. n
      BY ONLY <1>7, <1>2, i \in 1 .. k
  <2>3. h[i] = IF i <= n THEN g[i] ELSE g[n] + 3
      OBVIOUS
  <2>4. g[n] + 3 \in Nat \ {0}
      BY ONLY <1>2
  <2> QED
      BY <2>2, <2>3, <2>4, <1>2, Zenon
<1> HIDE DEF h
<1>10. \A f \in W : f.start \in 1 .. n /\ f.end \in (f.start + 1) .. n
    BY <1>2 DEF Spans
<1>11. Spans(W \cup {e}, k)
  <2>1. \A f \in W : f.start \in 1 .. k /\ f.end \in (f.start + 1) .. k
      BY ONLY <1>10, <1>2, <1>7
  <2>2. e.start \in 1 .. k /\ e.end \in (e.start + 1) .. k
      BY <1>1, <1>2, <1>7
  <2>3. \A f \in W : f.end <= e.start
      BY <1>1, <1>10, <1>2
  <2>4. \A f1, f2 \in W : f1 # f2 => f1.end <= f2.start \/ f2.end <= f1.start
      BY <1>2, Zenon DEF Spans
  <2> QED
      BY <2>1, <2>2, <2>3, <2>4, Zenon DEF Spans
<1>12. h[1] = 1 /\ h[k] = Len(w) + 1
  <2>1. h[1] = 1
      BY <1>7, <1>8, <1>2 DEF Agree
  <2> QED
      BY ONLY <2>1, <1>8, <1>6, <1>2
<1>13. ASSUME NEW i \in 1 .. (k - 1), ~Covered(W \cup {e}, i)
       PROVE  h[i + 1] = h[i] + 1 /\ w[h[i]] = t[i] /\ h[i] <= Len(w)
  <2>1. ~Covered(W, i) /\ ~(n <= i /\ i < k)
      BY <1>1, <1>13, Zenon DEF Covered
  <2>2. i \in 1 .. (n - 1) /\ i \in 1 .. n /\ i + 1 \in 1 .. n
      BY ONLY <2>1, <1>2, <1>7, i \in 1 .. (k - 1)
  <2>3. h[i] = g[i] /\ h[i + 1] = g[i + 1]
      BY <2>2, <1>8 DEF Agree
  <2>4. g[i + 1] = g[i] + 1 /\ u[g[i]] = t[i] /\ g[i] <= Len(u) /\ g[i] \in Nat \ {0}
      BY <2>1, <2>2, <1>2, <1>3
  <2>5. g[i] \in 1 .. Len(u) /\ g[i] <= Len(w)
    <3>1. PICK x : x = g[i]
        OBVIOUS
    <3>2. x \in Nat \ {0} /\ x <= Len(u)
        BY <2>4, <3>1
    <3>3. x \in 1 .. Len(u) /\ x <= Len(w)
        BY ONLY <3>2, <1>2, <1>6
    <3> QED
        BY <3>1, <3>3
  <2>6. w[g[i]] = u[g[i]]
      BY <2>5, <1>6
  <2> QED
      BY <2>3, <2>4, <2>5, <2>6
<1>14. ASSUME NEW f \in W
       PROVE  h[f.end] = h[f.start] + 3 /\ SealedAt(w, h[f.start]) /\ h[f.start] + 2 <= Len(w)
  <2>1. PICK a, b : a = f.start /\ b = f.end
      OBVIOUS
  <2>2. a \in 1 .. n /\ b \in (a + 1) .. n
      BY <2>1, <1>10
  <2>3. a \in 1 .. n /\ b \in 1 .. n
      BY ONLY <2>2, <1>2
  <2>4. h[a] = g[a] /\ h[b] = g[b] /\ g[a] \in Nat \ {0}
      BY <2>3, <1>2, <1>8 DEF Agree
  <2>5. g[b] = g[a] + 3 /\ SealedAt(u, g[a]) /\ g[a] + 2 <= Len(u)
      BY <2>1, <1>4
  <2>6. PICK x : x = g[a]
      OBVIOUS
  <2>7. x \in Nat \ {0} /\ x + 2 <= Len(u) /\ SealedAt(u, x)
      BY <2>4, <2>5, <2>6
  <2>8. \A j \in 1 .. 3 : w[x + j - 1] = u[x + j - 1]
    <3>1. \A j \in 1 .. 3 : x + j - 1 \in 1 .. Len(u)
        BY ONLY <2>7, <1>2
    <3> QED
        BY <3>1, <1>6
  <2>9. SealedAt(w, x)
      BY <2>7, <2>8, Zenon DEF SealedAt
  <2>10. x + 2 <= Len(w)
      BY ONLY <2>7, <1>2, <1>6
  <2> QED
      BY <2>1, <2>4, <2>5, <2>6, <2>9, <2>10
<1>15. h[e.end] = h[e.start] + 3 /\ SealedAt(w, h[e.start]) /\ h[e.start] + 2 <= Len(w)
  <2>1. PICK x : x = h[n]
      OBVIOUS
  <2>2. x = Len(u) + 1 /\ h[k] = x + 3
      BY <2>1, <1>2, <1>8
  <2>3. \A j \in 1 .. 3 : x + j - 1 = Len(u) + j
      BY ONLY <2>2, <1>2
  <2>4. SealedAt(w, x)
      BY <2>3, <1>6, Zenon DEF SealedAt
  <2>5. x + 2 <= Len(w)
      BY ONLY <2>2, <1>2, <1>6
  <2> QED
      BY <1>1, <2>1, <2>2, <2>4, <2>5
<1>16. \A f \in W \cup {e} : h[f.end] = h[f.start] + 3 /\ SealedAt(w, h[f.start]) /\ h[f.start] + 2 <= Len(w)
    BY <1>14, <1>15, Zenon
<1>17. Follows(t, w, W \cup {e}, h, k)
    BY <1>7, <1>9, <1>11, <1>12, <1>13, <1>16 DEF Follows
<1> QED
    BY <1>1, <1>6, <1>8, <1>17, Zenon DEF w, Str

-----------------------------------------------------------------------------
(* The order of places, and what the new text consists of.                 *)

LEMMA EdgeFacts ==
    ASSUME NEW W, NEW n \in Nat, Spans(W, n)
    PROVE  /\ \A e \in W : Edge(W, e.start) /\ Edge(W, e.end) /\ e.start \in 1 .. n /\ e.end \in (e.start + 1) .. n
           /\ \A i \in 1 .. n : ~Covered(W, i) => Edge(W, i) /\ Edge(W, i + 1)
           /\ \A i \in 1 .. n : Covered(W, i) /\ Edge(W, i) => \E e \in W : e.start = i
           /\ \A i \in 1 .. n : Covered(W, i) /\ Edge(W, i + 1) => \E e \in W : e.end = i + 1
           /\ Edge(W, 1)
<1>1. /\ \A e \in W : e.start \in 1 .. n /\ e.end \in (e.start + 1) .. n
      /\ \A e, f \in W : e # f => e.end <= f.start \/ f.end <= e.start
    BY Zenon DEF Spans
<1>2. \A e \in W : e.start \in Nat /\ e.end \in Nat /\ e.start >= 1 /\ e.start < e.end /\ e.end <= n
    BY <1>1
<1>3. ASSUME NEW e \in W PROVE Edge(W, e.start) /\ Edge(W, e.end)
  <2>1. ASSUME NEW f \in W PROVE ~(f.start < e.start /\ e.start < f.end) /\ ~(f.start < e.end /\ e.end < f.end)
      BY <1>1, <1>2
  <2> QED
      BY <2>1, Zenon DEF Edge
<1>4. ASSUME NEW i \in 1 .. n, ~Covered(W, i) PROVE Edge(W, i) /\ Edge(W, i + 1)
  <2>1. ASSUME NEW f \in W PROVE ~(f.start < i /\ i < f.end) /\ ~(f.start < i + 1 /\ i + 1 < f.end)
    <3>1. ~(f.start <= i /\ i < f.end)
        BY <1>4, Zenon DEF Covered
    <3>2. PICK a, b : a = f.start /\ b = f.end
        OBVIOUS
    <3>3. a \in Nat /\ b \in Nat /\ ~(a <= i /\ i < b)
        BY <1>2, <3>1, <3>2
    <3>4. ~(a < i /\ i < b) /\ ~(a < i + 1 /\ i + 1 < b)
        BY ONLY <3>3, i \in 1 .. n
    <3> QED
        BY <3>2, <3>4
  <2> QED
      BY <2>1, Zenon DEF Edge
<1>5. ASSUME NEW i \in 1 .. n, Covered(W, i), Edge(W, i) PROVE \E e \in W : e.start = i
  <2>1. PICK e \in W : e.start <= i /\ i < e.end
      BY <1>5, Zenon DEF Covered
  <2>2. ~(e.start < i /\ i < e.end)
      BY <1>5, Zenon DEF Edge
  <2>3. e.start = i
      BY <1>2, <2>1, <2>2
  <2> QED
      BY <2>3
<1>6. ASSUME NEW i \in 1 .. n, Covered(W, i), Edge(W, i + 1) PROVE \E e \in W : e.end = i + 1
  <2>1. PICK e \in W : e.start <= i /\ i < e.end
      BY <1>6, Zenon DEF Covered
  <2>2. ~(e.start < i + 1 /\ i + 1 < e.end)
      BY <1>6, Zenon DEF Edge
  <2>3. e.end = i + 1
      BY <1>2, <2>1, <2>2
  <2> QED
      BY <2>3
<1>7. Edge(W, 1)
    BY <1>2 DEF Edge
<1> QED
    BY <1>1, <1>3, <1>4, <1>5, <1>6, <1>7

(* From one edge of the spans to the next.                                 *)
Copied(t, u, W, g, i) == ~Covered(W, i) /\ g[i + 1] = g[i] + 1 /\ u[g[i]] = t[i]

LEMMA FollowsStep ==
    ASSUME NEW t \in Str, NEW u, NEW W, NEW g, NEW n, Follows(t, u, W, g, n),
           NEW j \in 2 .. n, Edge(W, j)
    PROVE  \/ Edge(W, j - 1) /\ Copied(t, u, W, g, j - 1)
           \/ \E e \in W : /\ e.end = j /\ Edge(W, e.start) /\ e.start \in 1 .. (j - 1)
                           /\ g[j] = g[e.start] + 3
<1>1. n \in 1 .. (Len(t) + 1) /\ Spans(W, n) /\ Len(t) \in Nat
    BY DEF Follows, Str
<1>2. n \in Nat /\ j \in Nat /\ j - 1 \in 1 .. n /\ j - 1 \in 1 .. (n - 1) /\ (j - 1) + 1 = j
    BY ONLY <1>1, j \in 2 .. n
<1>3. /\ \A e \in W : Edge(W, e.start) /\ Edge(W, e.end) /\ e.start \in 1 .. n /\ e.end \in (e.start + 1) .. n
      /\ \A i \in 1 .. n : ~Covered(W, i) => Edge(W, i) /\ Edge(W, i + 1)
      /\ \A i \in 1 .. n : Covered(W, i) /\ Edge(W, i + 1) => \E e \in W : e.end = i + 1
    BY <1>1, <1>2, EdgeFacts
<1>4. CASE ~Covered(W, j - 1)
  <2>1. g[(j - 1) + 1] = g[j - 1] + 1 /\ u[g[j - 1]] = t[j - 1]
      BY <1>2, <1>4 DEF Follows
  <2>2. Edge(W, j - 1)
      BY <1>2, <1>3, <1>4
  <2> QED
      BY <1>4, <2>1, <2>2 DEF Copied
<1>5. CASE Covered(W, j - 1)
  <2>1. PICK e \in W : e.end = j
    <3>1. PICK k : k = j - 1
        OBVIOUS
    <3>2. k \in 1 .. n /\ k + 1 = j /\ Covered(W, k)
        BY <1>2, <1>5, <3>1
    <3> QED
        BY <3>2, <1>3, Zenon
  <2>2. Edge(W, e.start) /\ e.start \in 1 .. n /\ e.end \in (e.start + 1) .. n
      BY <1>3
  <2>3. e.start \in 1 .. (j - 1)
      BY <1>2, <2>1, <2>2
  <2>4. g[j] = g[e.start] + 3
      BY <2>1, Zenon DEF Follows
  <2> QED
      BY <2>1, <2>2, <2>3, <2>4
<1> QED
    BY <1>4, <1>5

(* The edges keep their order.                                             *)
LEMMA FollowsOrder ==
    ASSUME NEW t \in Str, NEW u, NEW W, NEW g, NEW n, Follows(t, u, W, g, n),
           NEW i \in 1 .. n, NEW j \in (i + 1) .. n, Edge(W, i), Edge(W, j)
    PROVE  g[i] < g[j]
<1>1. n \in 1 .. (Len(t) + 1) /\ Spans(W, n) /\ Len(t) \in Nat /\ n \in Nat
    BY DEF Follows, Str
<1>2. \A k \in 1 .. n : g[k] \in Nat
    BY DEF Follows
<1> DEFINE Bad == {k \in (i + 1) .. n : Edge(W, k) /\ ~(g[i] < g[k])}
<1> SUFFICES ASSUME Bad # {} PROVE FALSE
    OBVIOUS
<1>3. PICK m \in Bad : \A k \in Bad : m <= k
  <2>1. Bad \in SUBSET Nat
      BY <1>1
  <2> HIDE DEF Bad
  <2> QED
      BY <2>1, LeastNatural
<1>4. m \in (i + 1) .. n /\ Edge(W, m) /\ ~(g[i] < g[m])
    OBVIOUS
<1>5. \A k \in (i + 1) .. n : k < m /\ Edge(W, k) => g[i] < g[k]
  <2>1. \A k \in (i + 1) .. n : k < m => k \notin Bad
      BY <1>1, <1>3, <1>4
  <2> QED
      BY <2>1
<1> HIDE DEF Bad
<1>6. m \in 2 .. n /\ m \in 1 .. n /\ m - 1 \in i .. n /\ m - 1 < m /\ (m - 1) + 1 = m
    BY ONLY <1>1, <1>4, i \in 1 .. n
<1>7. \A k \in i .. (m - 1) : Edge(W, k) => g[i] <= g[k]
  <2> SUFFICES ASSUME NEW k \in i .. (m - 1), Edge(W, k) PROVE g[i] <= g[k]
      OBVIOUS
  <2>1. k = i \/ (k \in (i + 1) .. n /\ k < m)
      BY ONLY <1>6, <1>1, <1>4, i \in 1 .. n, k \in i .. (m - 1)
  <2>2. k \in 1 .. n
      BY ONLY <1>6, <1>1, <1>4, i \in 1 .. n, k \in i .. (m - 1)
  <2>3. g[i] \in Nat /\ g[k] \in Nat
      BY <1>2, <2>2
  <2>4. k = i => g[i] <= g[k]
      BY <2>3
  <2>5. k \in (i + 1) .. n /\ k < m => g[i] < g[k]
      BY <1>5
  <2>6. PICK x, y : x = g[i] /\ y = g[k]
      OBVIOUS
  <2> QED
      BY <2>1, <2>3, <2>4, <2>5, <2>6
<1>8. CASE Edge(W, m - 1) /\ Copied(t, u, W, g, m - 1)
  <2>1. g[m] = g[m - 1] + 1
      BY <1>6, <1>8 DEF Copied
  <2>2. m - 1 \in 1 .. n /\ m - 1 \in i .. (m - 1)
      BY ONLY <1>6, <1>1, i \in 1 .. n
  <2>3. g[i] <= g[m - 1]
      BY <2>2, <1>7, <1>8
  <2>4. PICK x, y, z : x = g[i] /\ y = g[m - 1] /\ z = g[m]
      OBVIOUS
  <2>5. x \in Nat /\ y \in Nat /\ z = y + 1 /\ x <= y /\ ~(x < z)
      BY <1>2, <1>4, <2>1, <2>2, <2>3, <2>4
  <2> QED
      BY ONLY <2>5
<1>9. ASSUME NEW e \in W, e.end = m, Edge(W, e.start), e.start \in 1 .. (m - 1), g[m] = g[e.start] + 3
      PROVE FALSE
  <2>1. PICK a : a = e.start
      OBVIOUS
  <2>2. a \in i .. (m - 1) /\ a \in 1 .. n
    <3>1. ~(e.start < i /\ i < e.end)
        BY Zenon DEF Edge
    <3>2. a \in 1 .. (m - 1) /\ ~(a < i /\ i < m)
        BY <1>9, <2>1, <3>1
    <3> QED
        BY ONLY <3>2, <1>6, <1>1, <1>4, i \in 1 .. n
  <2>3. g[i] <= g[a]
      BY <1>7, <1>9, <2>1, <2>2
  <2>4. PICK x, y, z : x = g[i] /\ y = g[a] /\ z = g[m]
      OBVIOUS
  <2>5. x \in Nat /\ y \in Nat /\ z = y + 3 /\ x <= y /\ ~(x < z)
      BY <1>2, <1>4, <1>9, <2>1, <2>2, <2>3, <2>4
  <2> QED
      BY ONLY <2>5
<1> QED
    BY <1>4, <1>6, <1>8, <1>9, FollowsStep

(* Every place of the new text is the place of a symbol that was copied or *)
(* in what stands for a span.                                              *)
LEMMA FollowsCovers ==
    ASSUME NEW t \in Str, NEW u \in Str, NEW W, NEW g, NEW n, Follows(t, u, W, g, n),
           NEW p \in 1 .. Len(u)
    PROVE  \/ \E i \in 1 .. (n - 1) : ~Covered(W, i) /\ g[i] = p
           \/ \E e \in W : p \in g[e.start] .. (g[e.start] + 2)
<1>1. n \in 1 .. (Len(t) + 1) /\ Spans(W, n) /\ Len(t) \in Nat /\ n \in Nat /\ Len(u) \in Nat
    BY DEF Follows, Str
<1>2. g[1] = 1 /\ g[n] = Len(u) + 1 /\ \A k \in 1 .. n : g[k] \in Nat
    BY DEF Follows
<1>3. /\ \A e \in W : Edge(W, e.start) /\ Edge(W, e.end) /\ e.start \in 1 .. n /\ e.end \in (e.start + 1) .. n
      /\ \A i \in 1 .. n : ~Covered(W, i) => Edge(W, i) /\ Edge(W, i + 1)
      /\ \A i \in 1 .. n : Covered(W, i) /\ Edge(W, i) => \E e \in W : e.start = i
      /\ Edge(W, 1)
    BY <1>1, EdgeFacts
<1> DEFINE Below == {i \in 1 .. n : Edge(W, i) /\ g[i] <= p}
<1>4. PICK m \in Below : \A k \in Below : k <= m
  <2>1. Below \in SUBSET (0 .. n) /\ Below # {}
    <3>1. 1 \in 1 .. n /\ g[1] <= p
        BY <1>1, <1>2
    <3> QED
        BY <3>1, <1>3, <1>1
  <2> HIDE DEF Below
  <2> QED
      BY <2>1, <1>1, GreatestNatural
<1>5. m \in 1 .. n /\ Edge(W, m) /\ g[m] <= p
    OBVIOUS
<1>6. \A k \in 1 .. n : Edge(W, k) /\ m < k => g[k] > p
  <2> SUFFICES ASSUME NEW k \in 1 .. n, Edge(W, k), m < k PROVE g[k] > p
      OBVIOUS
  <2>1. k \notin Below
      BY <1>1, <1>4, <1>5
  <2>2. ~(g[k] <= p)
      BY <2>1
  <2>3. PICK x : x = g[k]
      OBVIOUS
  <2> QED
      BY <2>2, <2>3, <1>2, <1>1
<1> HIDE DEF Below
<1>7. m # n
    BY <1>1, <1>2, <1>5
<1>8. m \in 1 .. (n - 1) /\ m + 1 \in 1 .. n /\ m < m + 1
    BY ONLY <1>1, <1>5, <1>7
<1>9. CASE ~Covered(W, m)
  <2>1. g[m + 1] = g[m] + 1
      BY <1>8, <1>9 DEF Follows
  <2>2. g[m + 1] > p
      BY <1>3, <1>5, <1>6, <1>8, <1>9
  <2>3. PICK x, y : x = g[m] /\ y = g[m + 1]
      OBVIOUS
  <2>4. x \in Nat /\ y = x + 1 /\ y > p /\ x <= p
      BY <1>2, <1>5, <2>1, <2>2, <2>3
  <2>5. x = p
      BY ONLY <2>4, <1>1, p \in 1 .. Len(u)
  <2> QED
      BY <1>8, <1>9, <2>3, <2>5
<1>10. CASE Covered(W, m)
  <2>1. PICK e \in W : e.start = m
      BY <1>3, <1>5, <1>10
  <2>2. g[e.end] = g[m] + 3
      BY <2>1, Zenon DEF Follows
  <2>3. e.end \in 1 .. n /\ m < e.end /\ Edge(W, e.end)
      BY <1>1, <1>3, <2>1
  <2>4. g[e.end] > p
      BY <2>3, <1>6
  <2>5. PICK x, y : x = g[m] /\ y = g[e.end]
      OBVIOUS
  <2>6. x \in Nat /\ y = x + 3 /\ y > p /\ x <= p
      BY <1>2, <1>5, <2>2, <2>4, <2>5
  <2>7. p \in x .. (x + 2)
      BY ONLY <2>6, <1>1, p \in 1 .. Len(u)
  <2> QED
      BY <2>1, <2>5, <2>7
<1> QED
    BY <1>9, <1>10

-----------------------------------------------------------------------------
(* Both texts with the spans cut out.                                      *)

(* What one more symbol adds to a text without spans.                      *)
Cut(t, spans, i, r) ==
    IF i = 0 THEN << >> ELSE IF Covered(spans, i) THEN r ELSE Append(r, t[i])

CutsTo(t, spans, m, f) ==
    f = [i \in 0 .. m |->
            IF i = 0 THEN << >>
            ELSE IF \E e \in spans : e.start <= i /\ i < e.end THEN f[i - 1]
            ELSE Append(f[i - 1], t[i])]

LEMMA CutsIs ==
    \A t, spans, m, f : CutsTo(t, spans, m, f) <=> f = [i \in 0 .. m |-> Cut(t, spans, i, f[i - 1])]
BY DEF CutsTo, Cut, Covered

LEMMA CutsExtend ==
    ASSUME NEW t, NEW spans, NEW m \in Nat, NEW f, CutsTo(t, spans, m, f)
    PROVE  \E g : CutsTo(t, spans, m + 1, g)
<1> DEFINE new == Cut(t, spans, m + 1, f[m])
           g == [i \in 0 .. (m + 1) |-> IF i = m + 1 THEN new ELSE f[i]]
<1>1. f = [i \in 0 .. m |-> Cut(t, spans, i, f[i - 1])]
    BY CutsIs
<1>2. ASSUME NEW i \in 0 .. (m + 1) PROVE g[i] = Cut(t, spans, i, g[i - 1])
  <2>1. CASE i = m + 1
    <3>1. i - 1 = m /\ m \in 0 .. (m + 1) /\ m # m + 1
        BY <2>1
    <3>2. g[i - 1] = f[m]
        BY <3>1
    <3>3. g[i] = new
        BY <2>1
    <3> HIDE DEF g
    <3> QED
        BY <2>1, <3>2, <3>3
  <2>2. CASE i # m + 1
    <3>1. i \in 0 .. m /\ (i # 0 => i - 1 \in 0 .. (m + 1) /\ i - 1 # m + 1)
        BY <2>2
    <3>2. i # 0 => g[i - 1] = f[i - 1]
        BY <3>1
    <3>3. g[i] = f[i]
        BY <2>2
    <3>4. f[i] = Cut(t, spans, i, f[i - 1])
        BY <1>1, <3>1
    <3> HIDE DEF g
    <3> QED
        BY <3>2, <3>3, <3>4 DEF Cut
  <2> QED
      BY <2>1, <2>2
<1>3. g = [i \in 0 .. (m + 1) |-> Cut(t, spans, i, g[i - 1])]
  <2>1. g = [i \in 0 .. (m + 1) |-> g[i]]
      OBVIOUS
  <2> HIDE DEF g
  <2> QED
      BY <1>2, <2>1
<1> HIDE DEF g
<1> QED
    BY <1>3, CutsIs

LEMMA CutsExist ==
    ASSUME NEW t, NEW spans, NEW n \in Nat
    PROVE  \E f : CutsTo(t, spans, n, f)
<1> DEFINE Some == {m \in 0 .. n : \E f : CutsTo(t, spans, m, f)}
<1>1. 0 \in Some
  <2> DEFINE f == [i \in 0 .. 0 |-> << >>]
  <2>1. \A i \in 0 .. 0 : i = 0 /\ Cut(t, spans, i, f[i - 1]) = << >>
      BY DEF Cut
  <2>2. [i \in 0 .. 0 |-> Cut(t, spans, i, f[i - 1])] = f
      BY <2>1
  <2> HIDE DEF f
  <2>3. CutsTo(t, spans, 0, f)
      BY <2>2, CutsIs
  <2> QED
      BY <2>3
<1>2. PICK m \in Some : \A k \in Some : k <= m
  <2>1. Some \in SUBSET (0 .. n) /\ Some # {}
      BY <1>1
  <2> HIDE DEF Some
  <2> QED
      BY <2>1, GreatestNatural
<1>3. m = n
  <2>1. SUFFICES ASSUME m # n PROVE FALSE
      OBVIOUS
  <2>2. m \in Nat /\ m + 1 \in 0 .. n /\ ~(m + 1 <= m)
      BY <1>2, <2>1
  <2>3. \E f : CutsTo(t, spans, m, f)
      BY <1>2
  <2>4. m + 1 \in Some
      BY <2>2, <2>3, CutsExtend
  <2> QED
      BY <1>2, <2>2, <2>4
<1> QED
    BY <1>2, <1>3

Cuts(t, spans, f) == \A i \in 0 .. Len(t) : f[i] = Cut(t, spans, i, f[i - 1])

LEMMA WithoutIs ==
    ASSUME NEW t \in Str, NEW spans
    PROVE  \E f : Cuts(t, spans, f) /\ Without(t, spans) = f[Len(t)]
<1> DEFINE f == CHOOSE g : CutsTo(t, spans, Len(t), g)
<1>1. Without(t, spans) = f[Len(t)]
    BY DEF Without, CutsTo
<1>2. CutsTo(t, spans, Len(t), f)
  <2>1. Len(t) \in Nat
      BY DEF Str
  <2> QED
      BY <2>1, CutsExist
<1> HIDE DEF f
<1>3. f = [i \in 0 .. Len(t) |-> Cut(t, spans, i, f[i - 1])]
    BY <1>2, CutsIs
<1>4. \A i \in 0 .. Len(t) : f[i] = Cut(t, spans, i, f[i - 1])
    BY <1>3
<1> QED
    BY <1>1, <1>4 DEF Cuts

(* A span adds nothing.                                                    *)
LEMMA CutsSkip ==
    ASSUME NEW t \in Str, NEW spans, NEW f, Cuts(t, spans, f), NEW e \in spans,
           NEW a \in 1 .. (Len(t) + 1), NEW b \in a .. (Len(t) + 1), a = e.start, b = e.end
    PROVE  f[b - 1] = f[a - 1]
<1>1. Len(t) \in Nat /\ a \in Nat /\ b \in Nat /\ a \in 1 .. (Len(t) + 1) /\ b \in a .. (Len(t) + 1)
    BY DEF Str
<1> DEFINE Bad == {k \in (a - 1) .. (b - 1) : f[k] # f[a - 1]}
<1> SUFFICES ASSUME Bad # {} PROVE FALSE
  <2>1. b - 1 \in (a - 1) .. (b - 1)
      BY ONLY <1>1
  <2> QED
      BY <2>1
<1>2. PICK m \in Bad : \A k \in Bad : m <= k
  <2>1. \A k \in (a - 1) .. (b - 1) : k \in Nat
      BY ONLY <1>1
  <2>2. Bad \in SUBSET Nat
      BY <2>1
  <2> HIDE DEF Bad
  <2> QED
      BY <2>2, LeastNatural
<1>3. m \in (a - 1) .. (b - 1) /\ f[m] # f[a - 1]
    OBVIOUS
<1>4. m # a - 1
    BY <1>3
<1>5. m \in 0 .. Len(t) /\ m # 0 /\ a <= m /\ m < b /\ m - 1 \in (a - 1) .. (b - 1) /\ ~(m <= m - 1)
    BY ONLY <1>1, <1>3, <1>4
<1>6. m - 1 \notin Bad
    BY <1>2, <1>5
<1>7. f[m - 1] = f[a - 1]
    BY <1>5, <1>6
<1> HIDE DEF Bad
<1>8. Covered(spans, m)
    BY <1>5, Zenon DEF Covered
<1>9. f[m] = f[m - 1]
    BY <1>5, <1>8, Zenon DEF Cuts, Cut
<1> QED
    BY <1>3, <1>7, <1>9

(* The spans of the new text.                                              *)
Images(W, g, P) ==
    /\ \A p \in P : \E e \in W : p.start = g[e.start] /\ p.end = g[e.start] + 3
    /\ \A e \in W : \E p \in P : p.start = g[e.start] /\ p.end = g[e.start] + 3

LEMMA CopiedUncovered ==
    ASSUME NEW t \in Str, NEW u, NEW W, NEW g, NEW n, Follows(t, u, W, g, n),
           NEW P, Images(W, g, P), NEW i \in 1 .. n, ~Covered(W, i)
    PROVE  ~Covered(P, g[i])
<1> SUFFICES ASSUME Covered(P, g[i]) PROVE FALSE
    OBVIOUS
<1>1. PICK p \in P : p.start <= g[i] /\ g[i] < p.end
    BY Zenon DEF Covered
<1>2. PICK e \in W : p.start = g[e.start] /\ p.end = g[e.start] + 3
    BY Zenon DEF Images
<1>3. n \in 1 .. (Len(t) + 1) /\ Spans(W, n) /\ Len(t) \in Nat /\ n \in Nat
    BY DEF Follows, Str
<1>4. \A k \in 1 .. n : g[k] \in Nat
    BY DEF Follows
<1>5. PICK a, b : a = e.start /\ b = e.end
    OBVIOUS
<1>6. a \in 1 .. n /\ b \in (a + 1) .. n /\ Edge(W, a) /\ Edge(W, b) /\ Edge(W, i)
    BY <1>3, <1>5, EdgeFacts
<1>7. g[b] = g[a] + 3
    BY <1>5, Zenon DEF Follows
<1>8. ~(a <= i /\ i < b)
    BY <1>5, Zenon DEF Covered
<1>9. b \in 1 .. n /\ i < a => a \in (i + 1) .. n
    BY ONLY <1>3, <1>6, i \in 1 .. n
<1>10. b < i => i \in (b + 1) .. n
    BY ONLY <1>3, <1>6, i \in 1 .. n
<1>11. b \in 1 .. n
    BY ONLY <1>3, <1>6, i \in 1 .. n
<1>12. i < a => g[i] < g[a]
    BY <1>6, <1>9, <1>11, FollowsOrder
<1>13. b < i => g[b] < g[i]
    BY <1>6, <1>10, <1>11, FollowsOrder
<1>14. i < a \/ i = b \/ b < i
    BY ONLY <1>3, <1>6, <1>8, i \in 1 .. n
<1>15. PICK x, y, z : x = g[a] /\ y = g[b] /\ z = g[i]
    OBVIOUS
<1>16. /\ x \in Nat /\ z \in Nat /\ y = x + 3 /\ x <= z /\ z < x + 3
       /\ (i < a => z < x)
       /\ (b < i => y < z)
       /\ (i = b => z = y)
    BY <1>1, <1>2, <1>4, <1>5, <1>6, <1>7, <1>12, <1>13, <1>15
<1> QED
    BY ONLY <1>14, <1>16

(* Without their spans the texts are the same.                             *)
LEMMA SameWithout ==
    ASSUME NEW t \in Str, NEW u \in Str, NEW W, NEW g, Follows(t, u, W, g, Len(t) + 1),
           NEW P, Images(W, g, P)
    PROVE  Without(t, W) = Without(u, P)
<1>1. PICK f : Cuts(t, W, f) /\ Without(t, W) = f[Len(t)]
    BY WithoutIs
<1>2. PICK h : Cuts(u, P, h) /\ Without(u, P) = h[Len(u)]
    BY WithoutIs
<1>3. PICK n : n = Len(t) + 1
    OBVIOUS
<1>4. Follows(t, u, W, g, n)
    BY <1>3
<1>5. /\ n \in 1 .. (Len(t) + 1) /\ Spans(W, n) /\ Len(t) \in Nat /\ Len(u) \in Nat /\ n \in Nat
      /\ n = Len(t) + 1
    BY <1>3, <1>4 DEF Follows, Str
<1>6. g[1] = 1 /\ g[n] = Len(u) + 1 /\ \A k \in 1 .. n : g[k] \in Nat \ {0}
    BY <1>4 DEF Follows
<1>7. /\ \A e \in W : Edge(W, e.start) /\ Edge(W, e.end) /\ e.start \in 1 .. n /\ e.end \in (e.start + 1) .. n
      /\ \A i \in 1 .. n : ~Covered(W, i) => Edge(W, i) /\ Edge(W, i + 1)
      /\ Edge(W, 1)
    BY <1>5, EdgeFacts
<1>8. \A k \in 1 .. n : ~Covered(W, k) => ~Covered(P, g[k])
    BY <1>4, CopiedUncovered
<1> DEFINE Bad == {k \in 1 .. n : Edge(W, k) /\ f[k - 1] # h[g[k] - 1]}
<1>9. Bad = {}
  <2> SUFFICES ASSUME Bad # {} PROVE FALSE
      OBVIOUS
  <2>1. PICK m \in Bad : \A k \in Bad : m <= k
    <3>1. Bad \in SUBSET Nat
        BY <1>5
    <3> HIDE DEF Bad
    <3> QED
        BY <3>1, LeastNatural
  <2>2. m \in 1 .. n /\ Edge(W, m) /\ f[m - 1] # h[g[m] - 1]
      OBVIOUS
  <2>3. \A k \in 1 .. n : k < m /\ Edge(W, k) => f[k - 1] = h[g[k] - 1]
    <3>1. \A k \in 1 .. n : k < m => k \notin Bad
        BY <1>5, <2>1, <2>2
    <3> QED
        BY <3>1
  <2> HIDE DEF Bad
  <2>4. f[0] = << >> /\ h[0] = << >>
    <3>1. 0 \in 0 .. Len(t) /\ 0 \in 0 .. Len(u)
        BY <1>5
    <3> QED
        BY <3>1, <1>1, <1>2, Zenon DEF Cuts, Cut
  <2>5. m # 1
      BY <1>6, <2>2, <2>4
  <2>6. m \in 2 .. n
      BY ONLY <1>5, <2>2, <2>5
  <2>7. CASE Edge(W, m - 1) /\ Copied(t, u, W, g, m - 1)
    <3>1. PICK k : k = m - 1
        OBVIOUS
    <3>2. k \in 1 .. n /\ k \in 1 .. (n - 1) /\ k + 1 = m /\ k < m /\ k \in 0 .. Len(t) /\ k # 0
        BY <1>5, <2>2, <2>5, <3>1
    <3>3. Edge(W, k) /\ ~Covered(W, k) /\ g[k + 1] = g[k] + 1 /\ u[g[k]] = t[k]
        BY <2>7, <3>1 DEF Copied
    <3>4. PICK x : x = g[k]
        OBVIOUS
    <3>5. g[m] = x + 1 /\ x \in Nat \ {0} /\ u[x] = t[k]
        BY <1>6, <3>2, <3>3, <3>4
    <3>6. x <= Len(u)
        BY <1>4, <3>2, <3>3, <3>4 DEF Follows
    <3>7. x \in 0 .. Len(u) /\ x # 0 /\ g[m] - 1 = x
        BY ONLY <3>5, <3>6, <1>5
    <3>8. f[k] = Append(f[k - 1], t[k])
        BY <1>1, <3>2, <3>3, Zenon DEF Cuts, Cut
    <3>9. ~Covered(P, x)
        BY <1>8, <3>2, <3>3, <3>4
    <3>10. h[x] = Append(h[x - 1], u[x])
        BY <1>2, <3>7, <3>9, Zenon DEF Cuts, Cut
    <3>11. f[k - 1] = h[x - 1]
        BY <2>3, <3>2, <3>3, <3>4
    <3>12. f[k] = h[x]
        BY <3>5, <3>8, <3>10, <3>11
    <3> QED
        BY <2>2, <3>1, <3>7, <3>12
  <2>8. ASSUME NEW e \in W, e.end = m, Edge(W, e.start), e.start \in 1 .. (m - 1), g[m] = g[e.start] + 3
        PROVE FALSE
    <3>1. PICK a : a = e.start
        OBVIOUS
    <3>2. a \in 1 .. n /\ a < m /\ m \in a .. (Len(t) + 1) /\ a \in 1 .. (Len(t) + 1)
        BY <1>5, <2>2, <2>8, <3>1
    <3>3. f[m - 1] = f[a - 1]
        BY <1>1, <2>8, <3>1, <3>2, CutsSkip
    <3>4. PICK x : x = g[a]
        OBVIOUS
    <3>5. x \in Nat \ {0} /\ g[m] = x + 3
        BY <1>6, <2>8, <3>1, <3>2, <3>4
    <3>6. PICK p \in P : p.start = x /\ p.end = x + 3
        BY <3>1, <3>4, Zenon DEF Images
    <3>7. x + 2 <= Len(u)
        BY <1>4, <2>8, <3>1, <3>4 DEF Follows
    <3>8. x \in 1 .. (Len(u) + 1) /\ x + 3 \in x .. (Len(u) + 1) /\ (x + 3) - 1 = g[m] - 1
        BY ONLY <3>5, <3>7, <1>5
    <3>9. h[(x + 3) - 1] = h[x - 1]
        BY <1>2, <3>6, <3>8, CutsSkip
    <3>10. f[a - 1] = h[x - 1]
        BY <2>3, <2>8, <3>1, <3>2, <3>4
    <3> QED
        BY <2>2, <3>3, <3>8, <3>9, <3>10
  <2> QED
      BY <1>4, <2>2, <2>6, <2>7, <2>8, FollowsStep
<1>10. n \in 1 .. n /\ Edge(W, n)
  <2>1. n \in 1 .. n
      BY <1>5
  <2>2. \A e \in W : ~(n < e.end)
      BY <1>5, <1>7
  <2> QED
      BY <2>1, <2>2 DEF Edge
<1>11. f[n - 1] = h[g[n] - 1]
    BY <1>9, <1>10
<1>12. n - 1 = Len(t) /\ g[n] - 1 = Len(u)
    BY <1>5, <1>6
<1> QED
    BY <1>1, <1>2, <1>11, <1>12

-----------------------------------------------------------------------------
(* The loop.                                                               *)

(* A value that is not empty takes up some of the text.                    *)
LEMMA ValueSpan ==
    ASSUME NEW body \in Str, NEW v \in ParseValue(body), v.value # << >>
    PROVE  v.end \in (v.start + 1) .. (Len(body) + 1)
<1>1. body \in Seq(Symbol) /\ Len(body) \in Nat
    BY DEF Str
<1>2. ASSUME NEW m, NEW n, Unquoted(body), BareTo(body, m, n), v = BareValue(body, n)
      PROVE  v.end \in (v.start + 1) .. (Len(body) + 1)
  <2>1. n \in 0 .. Len(body)
      BY <1>1, <1>2 DEF BareTo, KeptTo
  <2>2. v.value = SubSeq(body, 1, n) /\ v.start = 1 /\ v.end = 1 + n
      BY <1>2 DEF BareValue
  <2>3. n # 0
    <3>1. SubSeq(body, 1, 0) = << >>
        BY <1>1, SubSeqProperties, EmptySeq
    <3> QED
        BY <2>2, <3>1
  <2> QED
      BY <1>1, <2>1, <2>2, <2>3
<1>3. ASSUME NEW c, SingleTo(body, c), v = SingleValue(body, c)
      PROVE  v.end \in (v.start + 1) .. (Len(body) + 1)
  <2>1. c \in 2 .. Len(body)
      BY <1>3 DEF SingleTo
  <2>2. v.value = Slice(body, 2, c) /\ v.start = 2 /\ v.end = c
      BY <1>3 DEF SingleValue
  <2>3. c # 2
    <3>1. Slice(body, 2, 2) = << >>
      <4>1. 2 \in 1 .. (Len(body) + 1) /\ 2 \in 2 .. (Len(body) + 1)
          BY <1>1, <2>1
      <4>2. Slice(body, 2, 2) \in Seq(Symbol) /\ Len(Slice(body, 2, 2)) = 2 - 2
          BY ONLY <4>1, <1>1, SliceIs
      <4> QED
          BY <4>2, EmptySeq
    <3> QED
        BY <2>2, <3>1
  <2> QED
      BY <1>1, <2>1, <2>2, <2>3
<1>4. ASSUME NEW c, DoubleTo(body, c), v = DoubleValue(body, c)
      PROVE  v.end \in (v.start + 1) .. (Len(body) + 1)
  <2>1. c \in 2 .. Len(body)
      BY <1>4 DEF DoubleTo
  <2>2. v.value = Unescaped(body, c) /\ v.start = 2 /\ v.end = c
      BY <1>4 DEF DoubleValue
  <2>3. c # 2
    <3> SUFFICES ASSUME c = 2 PROVE FALSE
        OBVIOUS
    <3>1. PICK f : /\ \A i \in 1 .. (c - 1) : f[i] = Took(body, EscapedIn(body), i, f[i - 1])
                   /\ Unescaped(body, c) = f[c - 1]
        BY <2>1, UnescapedIs
    <3>2. 1 \in 1 .. (c - 1) /\ c - 1 = 1
        OBVIOUS
    <3>3. f[1] = << >>
        BY <3>1, <3>2 DEF Took
    <3> QED
        BY <2>2, <3>1, <3>2, <3>3
  <2> QED
      BY <1>1, <2>1, <2>2, <2>3
<1> QED
    BY <1>2, <1>3, <1>4, ValueForms

LEMMA EntrySpan ==
    ASSUME NEW t \in Str, NEW e \in Entries(t), e.value # << >>
    PROVE  e.end \in (e.start + 1) .. (Len(t) + 1)
<1>1. PICK i, c, q, b, v : Written(t, i, e, c, q, b, v)
    BY EntryWritten
<1>2. PICK n : /\ n = Len(Line(t, i)) /\ WrittenAt(t, i, n, e, c, q, b, v)
               /\ Rest(Line(t, i), b) \in Str /\ e.value = v.value
    BY <1>1, WrittenPlaces
<1>3. v.end \in (v.start + 1) .. (Len(Rest(Line(t, i), b)) + 1)
    BY <1>1, <1>2, ValueSpan, Zenon DEF Written
<1>4. PICK s, d, x, y : s = v.start /\ d = v.end /\ x = e.start /\ y = e.end
    OBVIOUS
<1>5. Len(Rest(Line(t, i), b)) \in Nat
    BY <1>2 DEF Str
<1>6. /\ Len(t) \in Nat /\ i \in 1 .. Len(t) /\ n \in Nat /\ i + n <= Len(t) + 1
      /\ c \in 1 .. n /\ q \in (c + 1) .. n /\ b \in (q + 1) .. (n + 1)
      /\ s \in 1 .. 2 /\ d \in s .. (n - b + 2)
      /\ x = (i - 1) + (b - 1) + s /\ y = (i - 1) + (b - 1) + d /\ d # s
    BY <1>2, <1>3, <1>4, <1>5 DEF WrittenAt
<1>7. y \in (x + 1) .. (Len(t) + 1)
    BY ONLY <1>6
<1> QED
    BY <1>4, <1>7

LEMMA SeqOfMore ==
    ASSUME NEW S, NEW T, S \subseteq T
    PROVE  Seq(S) \subseteq Seq(T)
OBVIOUS

LEMMA TextsAreStrs == Source \subseteq Str
<1>1. STRING \subseteq Symbol
    BY Zenon DEF Symbol
<1>2. Seq(STRING) \subseteq Seq(Symbol)
    BY <1>1, SeqOfMore, Zenon
<1> QED
    BY <1>2, SourceAssumption DEF Str

(* The loop's invariant. What was sealed is what is wanted of the entries  *)
(* dealt with; the rest of the old text up to the cursor, up to its end    *)
(* once the loop is done, is in the new one.                               *)
SealedOf == {e \in dealt : Wanted(e)}

Reached == IF phase = "done" THEN Len(text) + 1 ELSE cursor

PlainOf(W, g) == {[at |-> g[e.start], value |-> e.value] : e \in W}

Followed == \E g : Follows(text, out, SealedOf, g, Reached) /\ plain = PlainOf(SealedOf, g)

Ahead == \A e \in Entries(text) : e \in dealt \/ cursor <= e.start

TypeInv ==
    /\ text \in Str /\ out \in Str /\ all \in BOOLEAN
    /\ dealt \subseteq Entries(text)
    /\ cursor \in 1 .. (Len(text) + 1)
    /\ phase \in {"loop", "done", "failed"}

IInv ==
    /\ TypeInv
    /\ Ahead
    /\ phase # "failed" => Followed
    /\ phase # "failed" => \A e \in dealt : ~Malformed(e)
    /\ phase = "done" => dealt = Entries(text) /\ ~HasPlaceholder(text) /\ ~Refused(text)

LEMMA InitIInv == Init => IInv
<1> SUFFICES ASSUME Init PROVE IInv
    OBVIOUS
<1>1. /\ text \in Str /\ all \in BOOLEAN /\ cursor = 1 /\ dealt = {} /\ plain = {}
      /\ out = << >> /\ phase = "loop"
    BY TextsAreStrs DEF Init
<1>2. out \in Str /\ Len(text) \in Nat /\ Len(out) = 0
    BY <1>1 DEF Str
<1>3. TypeInv
    BY <1>1, <1>2 DEF TypeInv
<1>4. Ahead
  <2>1. \A e \in Entries(text) : e.start \in 3 .. (Len(text) + 1)
      BY <1>1, EntryPlaced
  <2>2. \A e \in Entries(text) : 1 <= e.start
      BY <1>2, <2>1
  <2> QED
      BY <1>1, <2>2 DEF Ahead
<1>5. Followed
  <2> DEFINE g == [i \in 1 .. 1 |-> 1]
  <2>1. SealedOf = {} /\ Reached = 1
      BY <1>1 DEF SealedOf, Reached
  <2>2. plain = PlainOf({}, g)
      BY <1>1 DEF PlainOf
  <2>3. Spans({}, 1)
      BY DEF Spans
  <2>4. Follows(text, out, {}, g, 1)
      BY <1>2, <2>3 DEF Follows
  <2> QED
      BY <2>1, <2>2, <2>4 DEF Followed
<1> QED
    BY <1>1, <1>3, <1>4, <1>5 DEF IInv

LEMMA SealStep == IInv /\ SealEntry => IInv'
<1> SUFFICES ASSUME IInv, SealEntry PROVE IInv'
    OBVIOUS
<1>1. /\ text \in Str /\ out \in Str /\ all \in BOOLEAN /\ dealt \subseteq Entries(text)
      /\ cursor \in 1 .. (Len(text) + 1)
    BY DEF IInv, TypeInv
<1>2. PICK e \in Entries(text) :
        /\ AtEntry(e) /\ ~Malformed(e) /\ Wanted(e)
        /\ dealt' = dealt \cup {e}
        /\ out' = out \o Slice(text, cursor, Span(e).start) \o SEALED
        /\ plain' = plain \cup {[at |-> Len(out') - Len(SEALED) + 1, value |-> e.value]}
        /\ cursor' = Span(e).end
        /\ UNCHANGED <<text, all, phase>>
    BY DEF SealEntry
<1>3. /\ phase = "loop" /\ e \in Entries(text) \ dealt
      /\ \A f \in Entries(text) \ dealt : e.start <= f.start
    BY <1>2 DEF AtEntry, Accepted
<1>4. Span(e).start = e.start /\ Span(e).end = e.end
    BY DEF Span
<1>5. text' = text /\ all' = all /\ phase' = phase
    BY <1>2
<1>6. \A f : (Wanted(f)' <=> Wanted(f)) /\ (Malformed(f)' <=> Malformed(f))
    BY <1>5 DEF Wanted, Malformed
<1>7. e.value # << >>
  <2>1. Fails(TRUE, e.key, e.value) => e.value # << >>
    <3>1. ~Malformed(e)
        BY <1>2
    <3> QED
        BY <3>1, Zenon DEF Malformed, Fails
  <2> QED
      BY <1>2, <2>1, Zenon DEF Wanted
<1>8. PICK a, d : a = e.start /\ d = e.end
    OBVIOUS
<1>9. a \in 3 .. (Len(text) + 1) /\ d \in (a + 1) .. (Len(text) + 1) /\ cursor <= a /\ Len(text) \in Nat
  <2>1. e.start \in 3 .. (Len(text) + 1) /\ e.end \in (e.start + 1) .. (Len(text) + 1)
      BY <1>1, <1>7, EntryPlaced, EntrySpan
  <2>2. cursor <= e.start
      BY <1>3 DEF IInv, Ahead
  <2> QED
      BY <1>1, <1>8, <2>1, <2>2 DEF Str
<1>10. a \in cursor .. (Len(text) + 1) /\ d \in 1 .. (Len(text) + 1)
    BY ONLY <1>9, <1>1
<1>11. SealedOf' = SealedOf \cup {e}
  <2>1. SealedOf' = {f \in dealt' : Wanted(f)'}
      BY DEF SealedOf
  <2> QED
      BY <1>2, <1>6, <2>1 DEF SealedOf
<1>12. PICK g : Follows(text, out, SealedOf, g, cursor) /\ plain = PlainOf(SealedOf, g)
  <2>1. Reached = cursor /\ Followed
      BY <1>3 DEF Reached, IInv
  <2> QED
      BY <2>1 DEF Followed
<1>13. PICK u : u = out \o Slice(text, cursor, a)
    OBVIOUS
<1>14. u \in Str /\ \E h : Follows(text, u, SealedOf, h, a) /\ Agree(g, h, cursor)
    BY <1>1, <1>10, <1>12, <1>13, FollowsCopy
<1>15. PICK h : Follows(text, u, SealedOf, h, a) /\ Agree(g, h, cursor)
    BY <1>14
<1>16. /\ u \o SEALED \in Str /\ Len(u \o SEALED) = Len(u) + 3
       /\ \E k : Follows(text, u \o SEALED, SealedOf \cup {e}, k, d) /\ Agree(h, k, a)
    BY <1>1, <1>8, <1>9, <1>14, <1>15, FollowsSeal
<1>17. PICK k : Follows(text, u \o SEALED, SealedOf \cup {e}, k, d) /\ Agree(h, k, a)
    BY <1>16
<1>18. out' = u \o SEALED /\ cursor' = d
    BY <1>2, <1>4, <1>8, <1>13
<1>19. /\ k[a] = Len(u) + 1 /\ a \in 1 .. a
       /\ \A i \in 1 .. cursor : k[i] = g[i]
  <2>1. a \in 1 .. a /\ 1 \in 1 .. a /\ \A i \in 1 .. cursor : i \in 1 .. a
      BY ONLY <1>9, <1>1
  <2>2. h[a] = Len(u) + 1
      BY <1>15, Zenon DEF Follows
  <2> QED
      BY <1>15, <1>17, <2>1, <2>2 DEF Agree
<1>20. plain' = PlainOf(SealedOf', k)
  <2>1. \A f \in SealedOf : k[f.start] = g[f.start]
    <3>1. \A f \in SealedOf : f.start \in 1 .. cursor
        BY <1>12 DEF Follows, Spans
    <3> QED
        BY <3>1, <1>19
  <2>2. PlainOf(SealedOf, k) = PlainOf(SealedOf, g)
      BY <2>1, Zenon DEF PlainOf
  <2>3. Len(out') - Len(SEALED) + 1 = k[a]
    <3>1. Len(SEALED) = 3 /\ Len(u) \in Nat
      <4>1. Len(SEALED) = 3
          BY SealedIs
      <4>2. u \in Seq(Symbol)
          BY <1>14 DEF Str
      <4>3. Len(u) \in Nat
          BY ONLY <4>2
      <4> QED
          BY <4>1, <4>3
    <3> QED
        BY <1>16, <1>18, <1>19, <3>1
  <2>4. PlainOf(SealedOf \cup {e}, k) = PlainOf(SealedOf, k) \cup {[at |-> k[e.start], value |-> e.value]}
      BY DEF PlainOf
  <2> QED
      BY <1>2, <1>8, <1>11, <1>12, <2>2, <2>3, <2>4
<1>21. Reached' = d
    BY <1>3, <1>5, <1>18 DEF Reached
<1>22. Followed'
    BY <1>5, <1>11, <1>17, <1>18, <1>20, <1>21 DEF Followed
<1>23. TypeInv'
    BY <1>1, <1>2, <1>3, <1>5, <1>10, <1>16, <1>18 DEF TypeInv
<1>24. Ahead'
  <2>1. ASSUME NEW f \in Entries(text), f \notin dealt' PROVE d <= f.start
    <3>1. f # e /\ f \in Entries(text) \ dealt
        BY <1>2, <2>1
    <3>2. e.end < f.start \/ f.end < e.start
        BY <1>1, <3>1, EntriesApart
    <3>3. e.start <= f.start
        BY <1>3, <3>1
    <3>4. f.start \in 3 .. (Len(text) + 1) /\ f.end \in f.start .. (Len(text) + 1)
        BY <1>1, EntryPlaced
    <3>5. PICK x, y : x = f.start /\ y = f.end
        OBVIOUS
    <3>6. (d < x \/ y < a) /\ a <= x /\ x \in 3 .. (Len(text) + 1) /\ y \in x .. (Len(text) + 1)
        BY <1>8, <3>2, <3>3, <3>4, <3>5
    <3>7. d <= x
        BY ONLY <3>6, <1>9
    <3> QED
        BY <3>5, <3>7
  <2> QED
      BY <1>5, <1>18, <2>1 DEF Ahead
<1>25. (phase # "failed" => \A f \in dealt : ~Malformed(f))'
    BY <1>2, <1>3, <1>6 DEF IInv
<1> QED
    BY <1>3, <1>5, <1>22, <1>23, <1>24, <1>25 DEF IInv

LEMMA CopyStep == IInv /\ CopyRest => IInv'
<1> SUFFICES ASSUME IInv, CopyRest PROVE IInv'
    OBVIOUS
<1>1. /\ text \in Str /\ out \in Str /\ all \in BOOLEAN /\ dealt \subseteq Entries(text)
      /\ cursor \in 1 .. (Len(text) + 1)
    BY DEF IInv, TypeInv
<1>2. /\ phase = "loop" /\ ~HasPlaceholder(text) /\ ~Refused(text) /\ Entries(text) \subseteq dealt
      /\ out' = out \o SubSeq(text, cursor, Len(text)) /\ phase' = "done"
      /\ text' = text /\ all' = all /\ cursor' = cursor /\ dealt' = dealt /\ plain' = plain
    BY DEF CopyRest, Accepted
<1>3. \A f : (Wanted(f)' <=> Wanted(f)) /\ (Malformed(f)' <=> Malformed(f))
    BY <1>2 DEF Wanted, Malformed
<1>4. SealedOf' = SealedOf
  <2>1. SealedOf' = {f \in dealt' : Wanted(f)'}
      BY DEF SealedOf
  <2> QED
      BY <1>2, <1>3, <2>1 DEF SealedOf
<1>5. PICK g : Follows(text, out, SealedOf, g, cursor) /\ plain = PlainOf(SealedOf, g)
  <2>1. Reached = cursor /\ Followed
      BY <1>2 DEF Reached, IInv
  <2> QED
      BY <2>1 DEF Followed
<1>6. PICK n : n = Len(text) + 1
    OBVIOUS
<1>7. Len(text) \in Nat /\ n \in cursor .. (Len(text) + 1) /\ n - 1 = Len(text)
    BY <1>1, <1>6 DEF Str
<1>8. /\ out \o Slice(text, cursor, n) \in Str
      /\ \E h : Follows(text, out \o Slice(text, cursor, n), SealedOf, h, n) /\ Agree(g, h, cursor)
    BY <1>1, <1>5, <1>7, FollowsCopy
<1>9. out' = out \o Slice(text, cursor, n)
    BY <1>2, <1>7 DEF Slice
<1>10. PICK h : Follows(text, out', SealedOf, h, n) /\ Agree(g, h, cursor)
    BY <1>8, <1>9
<1>11. plain' = PlainOf(SealedOf, h)
  <2>1. \A f \in SealedOf : h[f.start] = g[f.start]
    <3>1. \A f \in SealedOf : f.start \in 1 .. cursor
        BY <1>5 DEF Follows, Spans
    <3> QED
        BY <3>1, <1>10 DEF Agree
  <2> QED
      BY <1>2, <1>5, <2>1, Zenon DEF PlainOf
<1>12. Reached' = n
    BY <1>2, <1>6 DEF Reached
<1>13. Followed'
    BY <1>2, <1>4, <1>10, <1>11, <1>12 DEF Followed
<1>14. TypeInv'
    BY <1>1, <1>2, <1>8, <1>9 DEF TypeInv
<1>15. Ahead'
    BY <1>2 DEF IInv, Ahead
<1>16. (phase # "failed" => \A f \in dealt : ~Malformed(f))'
    BY <1>2, <1>3 DEF IInv
<1> QED
    BY <1>1, <1>2, <1>13, <1>14, <1>15, <1>16 DEF IInv

LEMMA LeaveStep == IInv /\ LeaveEntry => IInv'
<1> SUFFICES ASSUME IInv, LeaveEntry PROVE IInv'
    OBVIOUS
<1>1. PICK e \in Entries(text) :
        /\ AtEntry(e) /\ ~Malformed(e) /\ ~Wanted(e) /\ dealt' = dealt \cup {e}
    BY DEF LeaveEntry
<1>2. /\ text' = text /\ all' = all /\ cursor' = cursor /\ plain' = plain /\ out' = out
      /\ phase' = phase /\ phase = "loop"
    BY <1>1 DEF LeaveEntry, AtEntry, Accepted
<1>3. \A f : (Wanted(f)' <=> Wanted(f)) /\ (Malformed(f)' <=> Malformed(f))
    BY <1>2 DEF Wanted, Malformed
<1>4. SealedOf' = SealedOf
  <2>1. SealedOf' = {f \in dealt' : Wanted(f)'}
      BY DEF SealedOf
  <2> QED
      BY <1>1, <1>3, <2>1 DEF SealedOf
<1>5. Reached' = Reached
    BY <1>2 DEF Reached
<1>6. Followed'
    BY <1>2, <1>4, <1>5 DEF IInv, Followed
<1>7. TypeInv'
    BY <1>1, <1>2 DEF IInv, TypeInv
<1>8. Ahead'
    BY <1>1, <1>2 DEF IInv, Ahead
<1>9. (phase # "failed" => \A f \in dealt : ~Malformed(f))'
    BY <1>1, <1>2, <1>3 DEF IInv
<1> QED
    BY <1>2, <1>6, <1>7, <1>8, <1>9 DEF IInv

LEMMA FailStep == IInv /\ Fail => IInv'
<1> SUFFICES ASSUME IInv, Fail PROVE IInv'
    OBVIOUS
<1>1. /\ phase' = "failed" /\ out' = << >> /\ text' = text /\ all' = all /\ cursor' = cursor
      /\ dealt' = dealt
    BY DEF Fail
<1>2. << >> \in Str
    BY DEF Str
<1>3. TypeInv' /\ Ahead'
    BY <1>1, <1>2 DEF IInv, TypeInv, Ahead
<1> QED
    BY <1>1, <1>3 DEF IInv

LEMMA StepIInv == IInv /\ [Next]_vars => IInv'
<1> SUFFICES ASSUME IInv, [Next]_vars PROVE IInv'
    OBVIOUS
<1>1. CASE RefuseText \/ RefuseEntry \/ SealFails
    BY <1>1, FailStep DEF RefuseText, RefuseEntry, SealFails
<1>2. CASE LeaveEntry
    BY <1>2, LeaveStep
<1>3. CASE SealEntry
    BY <1>3, SealStep
<1>4. CASE CopyRest
    BY <1>4, CopyStep
<1>5. CASE UNCHANGED vars
  <2>1. /\ text' = text /\ all' = all /\ cursor' = cursor /\ dealt' = dealt /\ plain' = plain
        /\ out' = out /\ phase' = phase
      BY <1>5 DEF vars
  <2>2. \A f : (Wanted(f)' <=> Wanted(f)) /\ (Malformed(f)' <=> Malformed(f))
      BY <2>1 DEF Wanted, Malformed
  <2>3. SealedOf' = SealedOf
    <3>1. SealedOf' = {f \in dealt' : Wanted(f)'}
        BY DEF SealedOf
    <3> QED
        BY <2>1, <2>2, <3>1 DEF SealedOf
  <2> QED
      BY <2>1, <2>2, <2>3 DEF IInv, TypeInv, Ahead, Followed, Reached
<1> QED
    BY <1>1, <1>2, <1>3, <1>4, <1>5 DEF Next

(* After every step of the loop (protect.rs:77-112) the new text follows   *)
(* the old one up to the cursor, and what was sealed is what is wanted.    *)
THEOREM LoopInvariant == Spec => []IInv
<1>1. Init => IInv
    BY InitIInv
<1>2. IInv /\ [Next]_vars => IInv'
    BY StepIInv
<1> QED
    BY <1>1, <1>2, PTL DEF Spec

(* With the sealed values cut out, the old and the new text are the same,  *)
(* and no slice begins behind its end (protect.rs:106, 112), for every     *)
(* text.                                                                   *)
THEOREM OtherBytesKept == Spec => []OnlyValuesChange
<1>1. IInv => OnlyValuesChange
  <2> SUFFICES ASSUME IInv PROVE OnlyValuesChange
      OBVIOUS
  <2>1. \A e \in Entries(text) : e \in dealt \/ cursor <= e.start
      BY DEF IInv, Ahead
  <2>2. ASSUME phase = "done"
        PROVE  Without(text, {e \in Entries(text) : Wanted(e)})
                 = Without(out, {[start |-> p.at, end |-> p.at + Len(SEALED)] : p \in plain})
    <3>1. text \in Str /\ out \in Str /\ dealt = Entries(text) /\ Followed /\ Reached = Len(text) + 1
        BY <2>2 DEF IInv, TypeInv, Reached
    <3>2. PICK g : Follows(text, out, SealedOf, g, Len(text) + 1) /\ plain = PlainOf(SealedOf, g)
        BY <3>1 DEF Followed
    <3> DEFINE P == {[start |-> p.at, end |-> p.at + Len(SEALED)] : p \in plain}
    <3>3. Images(SealedOf, g, P)
      <4>1. Len(SEALED) = 3
          BY SealedIs
      <4>2. P = {[start |-> p.at, end |-> p.at + 3] : p \in plain}
          BY <4>1
      <4>3. ASSUME NEW p \in P
            PROVE  \E e \in SealedOf : p.start = g[e.start] /\ p.end = g[e.start] + 3
        <5>1. PICK r \in plain : p = [start |-> r.at, end |-> r.at + 3]
            BY <4>2
        <5>2. PICK e \in SealedOf : r = [at |-> g[e.start], value |-> e.value]
            BY <3>2 DEF PlainOf
        <5> QED
            BY <5>1, <5>2
      <4>4. ASSUME NEW e \in SealedOf
            PROVE  \E p \in P : p.start = g[e.start] /\ p.end = g[e.start] + 3
        <5>1. PICK r \in plain : r = [at |-> g[e.start], value |-> e.value]
            BY <3>2 DEF PlainOf
        <5>2. PICK p \in P : p = [start |-> r.at, end |-> r.at + 3]
            BY <4>2
        <5> QED
            BY <5>1, <5>2
      <4> HIDE DEF P
      <4> QED
          BY <4>3, <4>4 DEF Images
    <3> HIDE DEF P
    <3>4. Without(text, SealedOf) = Without(out, P)
        BY <3>1, <3>2, <3>3, SameWithout
    <3>5. SealedOf = {e \in Entries(text) : Wanted(e)}
        BY <3>1 DEF SealedOf
    <3> QED
        BY <3>4, <3>5 DEF P
  <2> QED
      BY <2>1, <2>2 DEF OnlyValuesChange
<1> QED
    BY <1>1, LoopInvariant, PTL

-----------------------------------------------------------------------------
(* What the new text has in the place of a value.                          *)

(* What starts with SEALED is a reference.                                 *)
LEMMA SealedReference ==
    ASSUME NEW x \in Str, Len(x) >= 3, \A k \in 1 .. 3 : x[k] = SEALED[k]
    PROVE  IsReference(x)
<1>1. x \in Seq(Symbol) /\ Len(x) \in Nat
    BY DEF Str
<1>2. <<"seal", ":">> \in Seq(Symbol) /\ Len(<<"seal", ":">>) = 2
  <2>1. "seal" \in Symbol /\ ":" \in Symbol
      BY DEF Symbol
  <2> QED
      BY <2>1
<1>3. x[1] = "seal" /\ x[2] = ":"
  <2>1. 1 \in 1 .. 3 /\ 2 \in 1 .. 3
      OBVIOUS
  <2> QED
      BY <2>1, SealedIs
<1>4. PICK w : w = <<"seal", ":">>
    OBVIOUS
<1>5. w[1] = "seal" /\ w[2] = ":"
    BY <1>4
<1>6. w \in Seq(Symbol) /\ Len(w) = 2
    BY <1>2, <1>4
<1>7. 1 + 1 <= Len(x) /\ 1 + 1 = 2 /\ 1 \in Nat \ {0}
    BY <1>1
<1>8. At(w, x, 1) <=> 1 + 1 <= Len(x) /\ x[1] = w[1] /\ x[1 + 1] = w[2]
    BY ONLY <1>1, <1>6, <1>7, PairAt
<1>9. At(w, x, 1)
    BY <1>3, <1>5, <1>7, <1>8
<1> QED
    BY <1>4, <1>9 DEF IsReference

LEMMA SealedBegins ==
    ASSUME NEW body \in Str, NEW v \in ParseValue(body),
           SealedAt(body, v.start), v.start + 2 <= Len(body)
    PROVE  IsReference(v.value)
<1>1. body \in Seq(Symbol) /\ Len(body) \in Nat
    BY DEF Str
<1>2. \A k \in 1 .. 3 : SEALED[k] \notin Blank /\ SEALED[k] \notin Quote /\ SEALED[k] # "#"
  <2>1. \A k \in 1 .. 3 : SEALED[k] \notin Blank /\ SEALED[k] # "#"
      BY SealedIs
  <2> QED
      BY <2>1, QuotesKnown
<1>3. ASSUME NEW m, NEW n, Unquoted(body), BareTo(body, m, n), v = BareValue(body, n)
      PROVE  IsReference(v.value)
  <2>1. v.value = SubSeq(body, 1, n) /\ v.start = 1
      BY <1>3 DEF BareValue
  <2>2. Len(body) >= 3 /\ \A k \in 1 .. 3 : body[k] = SEALED[k]
    <3>1. 1 + 2 <= Len(body) /\ \A k \in 1 .. 3 : body[1 + k - 1] = SEALED[k]
        BY <2>1 DEF SealedAt
    <3>2. \A k \in 1 .. 3 : 1 + k - 1 = k
        OBVIOUS
    <3> QED
        BY <3>1, <3>2, <1>1
  <2>3. /\ m \in 0 .. Len(body) /\ n \in 0 .. m
        /\ m < Len(body) => m >= 1 /\ CommentAt(body, m + 1)
        /\ \A j \in (n + 1) .. m : body[j] \in Blank
      BY <1>3 DEF BareTo, KeptTo
  <2>4. m >= 3
    <3> SUFFICES ASSUME m < 3 PROVE FALSE
        BY <2>3
    <3>1. m < Len(body) /\ m + 1 \in 1 .. 3
        BY ONLY <1>1, <2>2, <2>3, m < 3
    <3>2. body[m + 1] = "#"
        BY <2>3, <3>1 DEF CommentAt
    <3> QED
        BY <1>2, <2>2, <3>1, <3>2
  <2>5. n >= 3
    <3> SUFFICES ASSUME n < 3 PROVE FALSE
        BY <2>3
    <3>1. n + 1 \in (n + 1) .. m /\ n + 1 \in 1 .. 3
        BY ONLY <1>1, <2>3, <2>4, n < 3
    <3> QED
        BY <1>2, <2>2, <2>3, <3>1
  <2>6. PICK x : x = SubSeq(body, 1, n)
      OBVIOUS
  <2>7. n \in 0 .. Len(body) /\ \A k \in 1 .. 3 : k \in 1 .. n
      BY ONLY <1>1, <2>3, <2>5
  <2>8. x \in Seq(Symbol) /\ Len(x) = n /\ \A j \in 1 .. n : x[j] = body[j]
      BY ONLY <1>1, <2>6, <2>7, Divided
  <2>9. \A k \in 1 .. 3 : x[k] = SEALED[k]
      BY <2>2, <2>7, <2>8
  <2>10. x \in Str /\ Len(x) >= 3
      BY <2>5, <2>8 DEF Str
  <2> QED
      BY <2>1, <2>6, <2>9, <2>10, SealedReference
<1>4. ASSUME NEW c \in 2 .. Len(body), v.start = 2, body[c] \in Quote PROVE c \in 5 .. Len(body)
  <2>1. c # 2 /\ c # 3 /\ c # 4
    <3>1. \A k \in 1 .. 3 : body[2 + k - 1] = SEALED[k]
        BY <1>4 DEF SealedAt
    <3>2. 1 \in 1 .. 3 /\ 2 \in 1 .. 3 /\ 3 \in 1 .. 3 /\ 2 + 1 - 1 = 2 /\ 2 + 2 - 1 = 3 /\ 2 + 3 - 1 = 4
        OBVIOUS
    <3>3. body[2] = SEALED[1] /\ body[3] = SEALED[2] /\ body[4] = SEALED[3]
        BY <3>1, <3>2
    <3> QED
        BY <1>2, <1>4, <3>2, <3>3
  <2> QED
      BY <1>1, <2>1
<1>5. ASSUME NEW c, SingleTo(body, c), v = SingleValue(body, c) PROVE IsReference(v.value)
  <2>1. c \in 2 .. Len(body) /\ First(<<"'">>, body, 2, c)
      BY <1>5 DEF SingleTo
  <2>2. v.value = Slice(body, 2, c) /\ v.start = 2
      BY <1>5 DEF SingleValue
  <2>3. body[c] = "'"
    <3>1. "'" \in Symbol /\ 2 \in Nat \ {0}
        BY QuotesKnown
    <3> QED
        BY <2>1, <3>1, FirstSymbol
  <2>4. c \in 5 .. Len(body)
      BY <1>4, <2>1, <2>2, <2>3 DEF Quote
  <2>5. PICK x : x = Slice(body, 2, c)
      OBVIOUS
  <2>6. 2 \in 1 .. (Len(body) + 1) /\ c \in 2 .. (Len(body) + 1) /\ c - 2 >= 3 /\ \A k \in 1 .. 3 : k \in 1 .. (c - 2)
      BY ONLY <1>1, <2>4
  <2>7. x \in Seq(Symbol) /\ Len(x) = c - 2 /\ \A k \in 1 .. (c - 2) : x[k] = body[2 + k - 1]
      BY ONLY <1>1, <2>5, <2>6, SliceIs, ZenonT(40)
  <2>8. \A k \in 1 .. 3 : x[k] = SEALED[k]
      BY <2>2, <2>6, <2>7 DEF SealedAt
  <2>9. x \in Str /\ Len(x) >= 3
      BY <2>6, <2>7 DEF Str
  <2> QED
      BY <2>2, <2>5, <2>8, <2>9, SealedReference
<1>6. ASSUME NEW c, DoubleTo(body, c), v = DoubleValue(body, c) PROVE IsReference(v.value)
  <2>1. c \in 2 .. Len(body) /\ body[c] = "\""
      BY <1>6 DEF DoubleTo, Closes
  <2>2. v.value = Unescaped(body, c) /\ v.start = 2
      BY <1>6 DEF DoubleValue
  <2>3. c \in 5 .. Len(body)
      BY <1>4, <2>1, <2>2 DEF Quote
  <2>4. SealedAt(body, 2)
      BY <2>2
  <2>5. /\ Unescaped(body, c) \in Str /\ Len(Unescaped(body, c)) >= 3
        /\ \A k \in 1 .. 3 : Unescaped(body, c)[k] = SEALED[k]
      BY <2>3, <2>4, SealedUnescapes
  <2> QED
      BY <2>2, <2>5, SealedReference
<1> QED
    BY <1>3, <1>5, <1>6, ValueForms

(* The value's text is in the whole one.                                   *)
InText(t, body, p) ==
    /\ p \in Nat /\ Len(body) \in Nat /\ Len(t) \in Nat /\ p + Len(body) <= Len(t)
    /\ \A j \in 1 .. Len(body) : body[j] = t[p + j]
    /\ p + Len(body) < Len(t) => t[p + Len(body) + 1] \in Blank

LEMMA BodyInText ==
    ASSUME NEW t \in Str, NEW e, NEW i, NEW c, NEW q, NEW b, NEW v,
           Written(t, i, e, c, q, b, v)
    PROVE  InText(t, Rest(Line(t, i), b), (i - 1) + (b - 1))
<1>1. PICK l : l = Line(t, i)
    OBVIOUS
<1>2. WrittenAt(t, i, Len(l), e, c, q, b, v) /\ l \in Seq(Symbol)
    BY <1>1, WrittenPlaces DEF Str
<1>3. /\ Len(t) \in Nat /\ i \in 1 .. Len(t) /\ Len(l) \in Nat /\ i + Len(l) <= Len(t) + 1
      /\ c \in 1 .. Len(l) /\ q \in (c + 1) .. Len(l) /\ b \in (q + 1) .. (Len(l) + 1)
    BY <1>2 DEF WrittenAt
<1>4. LinePlace(t, i, l)
    BY <1>1, <1>3, LinePlaced
<1>5. b \in 1 .. (Len(l) + 1)
    BY ONLY <1>3
<1>6. PICK y : y = Rest(l, b)
    OBVIOUS
<1>7. y \in Seq(Symbol) /\ Len(y) = Len(l) - b + 1 /\ \A n \in 1 .. (Len(l) - b + 1) : y[n] = l[b + n - 1]
    BY ONLY <1>2, <1>5, <1>6, RestIs
<1>8. PICK p : p = (i - 1) + (b - 1)
    OBVIOUS
<1>9. /\ p \in Nat /\ Len(y) \in Nat /\ p + Len(y) <= Len(t) /\ p + Len(y) + 1 = i + Len(l)
      /\ (p + Len(y) < Len(t) => i + Len(l) <= Len(t))
    BY ONLY <1>3, <1>5, <1>7, <1>8
<1>10. ASSUME NEW j \in 1 .. Len(y) PROVE y[j] = t[p + j]
  <2>1. j \in 1 .. (Len(l) - b + 1) /\ b + j - 1 \in 1 .. Len(l) /\ i + (b + j - 1) - 1 = p + j
      BY ONLY <1>3, <1>5, <1>7, <1>8, j \in 1 .. Len(y)
  <2>2. y[j] = l[b + j - 1]
      BY <1>7, <2>1
  <2>3. l[b + j - 1] = t[i + (b + j - 1) - 1]
      BY <1>4, <2>1 DEF LinePlace
  <2> QED
      BY <2>1, <2>2, <2>3
<1>11. p + Len(y) < Len(t) => t[p + Len(y) + 1] \in Blank
    BY <1>4, <1>9 DEF LinePlace
<1> QED
    BY <1>1, <1>3, <1>6, <1>8, <1>9, <1>10, <1>11 DEF InText

(* Where the text already has SEALED, an entry is a reference.             *)
LEMMA EntrySealed ==
    ASSUME NEW t \in Str, NEW e \in Entries(t), SealedAt(t, e.start), e.start + 2 <= Len(t)
    PROVE  IsReference(e.value)
<1>1. PICK i, c, q, b, v : Written(t, i, e, c, q, b, v)
    BY EntryWritten
<1>2. PICK y, p : y = Rest(Line(t, i), b) /\ p = (i - 1) + (b - 1)
    OBVIOUS
<1>3. InText(t, y, p) /\ y \in Str /\ Placed(y, v) /\ e.value = v.value
    BY <1>1, <1>2, BodyInText, WrittenPlaces
<1>4. v \in ParseValue(y) /\ e.start = p + v.start
  <2>1. e = EntryAt(i, b, KeyOf(Line(t, i), c, q), v) /\ v \in ParseValue(Rest(Line(t, i), b))
      BY <1>1, Zenon DEF Written
  <2> QED
      BY <1>2, <2>1 DEF EntryAt
<1>5. PICK s : s = v.start
    OBVIOUS
<1>6. s \in 1 .. 2 /\ s <= Len(y) + 1 /\ e.start = p + s
  <2>1. v.start \in 1 .. 2 /\ v.end \in v.start .. (Len(y) + 1)
      BY <1>3, Zenon DEF Placed
  <2>2. Len(y) \in Nat
      BY <1>3, Zenon DEF InText
  <2> QED
      BY <1>4, <1>5, <2>1, <2>2
<1>7. /\ p \in Nat /\ Len(y) \in Nat /\ Len(t) \in Nat /\ p + Len(y) <= Len(t)
      /\ \A j \in 1 .. Len(y) : y[j] = t[p + j]
      /\ p + Len(y) < Len(t) => t[p + Len(y) + 1] \in Blank
    BY <1>3, Zenon DEF InText
<1>8. \A k \in 1 .. 3 : t[(p + s) + k - 1] = SEALED[k] /\ SEALED[k] \notin Blank
  <2>1. \A k \in 1 .. 3 : SEALED[k] \notin Blank
      BY SealedIs
  <2> QED
      BY <1>6, <2>1 DEF SealedAt
<1>9. (p + s) + 2 <= Len(t)
    BY <1>6
<1>10. s + 2 <= Len(y)
  <2> SUFFICES ASSUME ~(s + 2 <= Len(y)) PROVE FALSE
      OBVIOUS
  <2>1. PICK k : k = Len(y) - s + 2
      OBVIOUS
  <2>2. k \in 1 .. 3 /\ (p + s) + k - 1 = p + Len(y) + 1 /\ p + Len(y) < Len(t)
      BY ONLY <1>6, <1>7, <1>9, <2>1, ~(s + 2 <= Len(y))
  <2>3. t[p + Len(y) + 1] \in Blank
      BY <1>7, <2>2
  <2>4. t[(p + s) + k - 1] = SEALED[k] /\ SEALED[k] \notin Blank
      BY <1>8, <2>2
  <2> QED
      BY <2>2, <2>3, <2>4
<1>11. SealedAt(y, s)
  <2> SUFFICES ASSUME NEW k \in 1 .. 3 PROVE y[s + k - 1] = SEALED[k]
      BY Zenon DEF SealedAt
  <2>1. s + k - 1 \in 1 .. Len(y) /\ p + (s + k - 1) = (p + s) + k - 1
      BY ONLY <1>6, <1>7, <1>10, k \in 1 .. 3
  <2>2. y[s + k - 1] = t[p + (s + k - 1)]
      BY <1>7, <2>1
  <2> QED
      BY <1>8, <2>1, <2>2
<1> QED
    BY <1>3, <1>4, <1>5, <1>10, <1>11, SealedBegins

-----------------------------------------------------------------------------
(* When the text stays as it was.                                          *)

(* Up to the first span a place is where it was.                           *)
LEMMA FollowsFront ==
    ASSUME NEW t \in Str, NEW u, NEW W, NEW g, NEW n, Follows(t, u, W, g, n),
           NEW k \in 1 .. n, \A i \in 1 .. (k - 1) : ~Covered(W, i)
    PROVE  \A i \in 1 .. k : g[i] = i
<1>1. n \in 1 .. (Len(t) + 1) /\ Len(t) \in Nat /\ n \in Nat /\ g[1] = 1
    BY DEF Follows, Str
<1>2. \A i \in 1 .. (n - 1) : ~Covered(W, i) => g[i + 1] = g[i] + 1
    BY DEF Follows
<1> DEFINE Bad == {i \in 1 .. k : g[i] # i}
<1> SUFFICES ASSUME Bad # {} PROVE FALSE
    OBVIOUS
<1>3. PICK m \in Bad : \A i \in Bad : m <= i
  <2>1. Bad \in SUBSET Nat
      BY <1>1
  <2> HIDE DEF Bad
  <2> QED
      BY <2>1, LeastNatural
<1>4. m \in 1 .. k /\ g[m] # m
    OBVIOUS
<1>5. m # 1
    BY <1>1, <1>4
<1>6. PICK j : j = m - 1
    OBVIOUS
<1>7. j \in 1 .. k /\ j \in 1 .. (k - 1) /\ j \in 1 .. (n - 1) /\ j + 1 = m /\ ~(m <= j)
    BY ONLY <1>1, <1>4, <1>5, <1>6, k \in 1 .. n
<1>8. g[j] = j
    BY <1>3, <1>7
<1> HIDE DEF Bad
<1>9. g[j + 1] = g[j] + 1
    BY <1>2, <1>7
<1> QED
    BY <1>4, <1>7, <1>8, <1>9

(* The text stays as it was just when nothing is sealed.                   *)
LEMMA UnchangedText ==
    ASSUME IInv, phase = "done"
    PROVE  (SealedOf = {}) <=> (out = text)
<1>1. text \in Str /\ out \in Str /\ dealt = Entries(text) /\ Followed /\ Reached = Len(text) + 1
    BY DEF IInv, TypeInv, Reached
<1>2. PICK g : Follows(text, out, SealedOf, g, Len(text) + 1)
    BY <1>1 DEF Followed
<1>3. text \in Seq(Symbol) /\ out \in Seq(Symbol) /\ Len(text) \in Nat /\ Len(out) \in Nat
    BY <1>1 DEF Str
<1>4. PICK n : n = Len(text) + 1
    OBVIOUS
<1>5. n \in 1 .. n /\ n \in Nat
    BY <1>3, <1>4
<1>6. ASSUME SealedOf = {} PROVE out = text
  <2>1. \A i \in 1 .. n : ~Covered(SealedOf, i)
      BY <1>6 DEF Covered
  <2>2. \A i \in 1 .. (n - 1) : i \in 1 .. n /\ i \in 1 .. Len(text)
      BY <1>3, <1>4
  <2>3. \A i \in 1 .. n : g[i] = i
      BY <1>1, <1>2, <1>4, <1>5, <2>1, <2>2, FollowsFront
  <2>4. g[n] = Len(out) + 1
      BY <1>2, <1>4 DEF Follows
  <2>5. Len(out) = Len(text)
      BY <1>3, <1>4, <1>5, <2>3, <2>4
  <2>6. \A i \in 1 .. Len(text) : out[i] = text[i]
    <3>1. \A i \in 1 .. (n - 1) : out[g[i]] = text[i]
        BY <1>2, <1>4, <2>1, <2>2 DEF Follows
    <3>2. \A i \in 1 .. Len(text) : i \in 1 .. (n - 1) /\ i \in 1 .. n
        BY <1>3, <1>4
    <3> QED
        BY <3>1, <3>2, <2>3
  <2> QED
      BY ONLY <1>3, <2>5, <2>6, SeqEqual
<1>7. ASSUME SealedOf # {}, out = text PROVE FALSE
  <2>1. \A e \in SealedOf : e.start \in 1 .. n /\ e.end \in (e.start + 1) .. n
      BY <1>2, <1>4 DEF Follows, Spans
  <2> DEFINE S == {e.start : e \in SealedOf}
  <2>2. PICK k \in S : \A i \in S : k <= i
    <3>1. S \in SUBSET Nat /\ S # {}
        BY <1>7, <2>1
    <3> HIDE DEF S
    <3> QED
        BY <3>1, LeastNatural
  <2>3. PICK e \in SealedOf : e.start = k
      OBVIOUS
  <2>4. \A f \in SealedOf : k <= f.start
      BY <2>2
  <2> HIDE DEF S
  <2>5. k \in 1 .. n
      BY <2>1, <2>3
  <2>6. \A i \in 1 .. (k - 1) : ~Covered(SealedOf, i)
    <3>1. \A i \in 1 .. (k - 1) : ~(k <= i)
        BY <1>5, <2>5
    <3>2. ASSUME NEW i \in 1 .. (k - 1), NEW f \in SealedOf, f.start <= i PROVE FALSE
      <4>1. PICK x : x = f.start
          OBVIOUS
      <4>2. x \in 1 .. n /\ k <= x /\ x <= i
          BY <2>1, <2>4, <3>2, <4>1
      <4> QED
          BY ONLY <4>2, <1>5, <2>5, i \in 1 .. (k - 1)
    <3> QED
        BY <3>2, Zenon DEF Covered
  <2>7. \A i \in 1 .. k : g[i] = i
      BY <1>1, <1>2, <1>4, <2>5, <2>6, FollowsFront
  <2>8. g[k] = k
      BY <1>5, <2>5, <2>7
  <2>9. SealedAt(out, k) /\ k + 2 <= Len(out)
      BY <1>2, <2>3, <2>8 DEF Follows
  <2>10. e \in Entries(text) /\ Wanted(e) /\ ~Malformed(e)
      BY <1>1 DEF SealedOf, IInv
  <2>11. IsReference(e.value)
      BY <1>1, <1>7, <2>3, <2>9, <2>10, EntrySealed
  <2> QED
      BY <2>10, <2>11, Zenon DEF Wanted, Malformed
<1> QED
    BY <1>6, <1>7

(* check --require-sealed on a file that protect accepts, whichever way it *)
(* is named, is protect's dry run (README.md:354), for every text.         *)
THEOREM DryRun == Spec => []CheckIsDryRun
<1>1. IInv => CheckIsDryRun
  <2> SUFFICES ASSUME IInv, phase = "done", ~all
               PROVE  /\ (ExitCode(TRUE, {text}, {}) = 0) = (out = text)
                      /\ ~PrivateKeyBlock(text) => (ExitCode(TRUE, {}, {text}) = 0) = (out = text)
      BY DEF CheckIsDryRun
  <2>1. dealt = Entries(text) /\ ~HasPlaceholder(text) /\ ~Refused(text)
      BY DEF IInv
  <2>2. \A e : Wanted(e) <=> Fails(TRUE, e.key, e.value)
      BY Zenon DEF Wanted
  <2>3. (SealedOf = {}) <=> ~\E e \in Entries(text) : Fails(TRUE, e.key, e.value)
      BY <2>1, <2>2 DEF SealedOf
  <2>4. (SealedOf = {}) <=> (out = text)
      BY UnchangedText
  <2>5. (ExitCode(TRUE, {text}, {}) = 0) <=> SealedOf = {}
    <3>1. CASE SealedOf = {}
      <4>1. ExitCode(TRUE, {text}, {}) = 0
          BY <2>1, <2>3, <3>1 DEF ExitCode
      <4> QED
          BY <3>1, <4>1
    <3>2. CASE SealedOf # {}
      <4>1. ExitCode(TRUE, {text}, {}) = 2
        <5>1. ~((\E t \in {text} : Refused(t)) \/ (\E t \in {} : Errs(t)))
            BY <2>1
        <5>2. \/ \E t \in {text} : \E e \in Entries(t) : Fails(TRUE, e.key, e.value)
              \/ \E t \in {} : FileFails(TRUE, t)
            BY <2>3, <3>2, Zenon
        <5> QED
            BY <5>1, <5>2, Zenon DEF ExitCode
      <4>2. 2 # 0
          BY ONLY TRUE
      <4> QED
          BY <3>2, <4>1, <4>2, Zenon
    <3> QED
        BY <3>1, <3>2
  <2>6. ASSUME ~PrivateKeyBlock(text) PROVE (ExitCode(TRUE, {}, {text}) = 0) <=> SealedOf = {}
    <3>1. ~Errs(text)
        BY <2>1 DEF Errs
    <3>2. FileFails(TRUE, text) <=> \E e \in Entries(text) : Fails(TRUE, e.key, e.value)
        BY <2>1, <2>6 DEF FileFails
    <3>3. CASE SealedOf = {}
      <4>1. ~FileFails(TRUE, text)
          BY <2>3, <3>2, <3>3
      <4>2. ExitCode(TRUE, {}, {text}) = 0
          BY <3>1, <4>1 DEF ExitCode
      <4> QED
          BY <3>3, <4>2
    <3>4. CASE SealedOf # {}
      <4>1. FileFails(TRUE, text)
          BY <2>3, <3>2, <3>4
      <4>2. ExitCode(TRUE, {}, {text}) = 2
        <5>1. ~((\E t \in {} : Refused(t)) \/ (\E t \in {text} : Errs(t)))
            BY <3>1
        <5>2. \/ \E t \in {} : \E e \in Entries(t) : Fails(TRUE, e.key, e.value)
              \/ \E t \in {text} : FileFails(TRUE, t)
            BY <4>1, Zenon
        <5> QED
            BY <5>1, <5>2, Zenon DEF ExitCode
      <4>3. 2 # 0
          BY ONLY TRUE
      <4> QED
          BY <3>4, <4>2, <4>3, Zenon
    <3> QED
        BY <3>3, <3>4
  <2> QED
      BY <2>4, <2>5, <2>6
<1> QED
    BY <1>1, LoopInvariant, PTL

-----------------------------------------------------------------------------
(* The lines and entries of a finished text.                               *)

(* The new text of a file, the entries in W sealed.                        *)
Protects(t, u, W, g) ==
    /\ t \in Str /\ u \in Str /\ W \subseteq Entries(t)
    /\ \A e \in W : e.value # << >>
    /\ Follows(t, u, W, g, Len(t) + 1)

LEMMA ProtectsNumbers ==
    ASSUME NEW t, NEW u, NEW W, NEW g, Protects(t, u, W, g)
    PROVE  /\ t \in Str /\ u \in Str /\ t \in Seq(Symbol) /\ u \in Seq(Symbol)
           /\ Len(t) \in Nat /\ Len(u) \in Nat
           /\ \A i \in 1 .. (Len(t) + 1) : g[i] \in Nat \ {0}
           /\ g[1] = 1 /\ g[Len(t) + 1] = Len(u) + 1
           /\ \A i \in 1 .. Len(t) : ~Covered(W, i) => g[i + 1] = g[i] + 1 /\ u[g[i]] = t[i] /\ g[i] <= Len(u)
           /\ \A e \in W : /\ g[e.end] = g[e.start] + 3 /\ SealedAt(u, g[e.start]) /\ g[e.start] + 2 <= Len(u)
                           /\ e.start \in 3 .. Len(t) /\ e.end \in (e.start + 1) .. (Len(t) + 1)
           /\ Spans(W, Len(t) + 1)
<1>1. /\ t \in Str /\ u \in Str /\ t \in Seq(Symbol) /\ u \in Seq(Symbol)
      /\ Len(t) \in Nat /\ Len(u) \in Nat
    BY DEF Protects, Str
<1>2. PICK n : n = Len(t) + 1
    OBVIOUS
<1>3. Follows(t, u, W, g, n)
    BY <1>2 DEF Protects
<1>4. /\ Spans(W, n)
      /\ \A i \in 1 .. n : g[i] \in Nat \ {0}
      /\ g[1] = 1 /\ g[n] = Len(u) + 1
      /\ \A i \in 1 .. (n - 1) : ~Covered(W, i) => g[i + 1] = g[i] + 1 /\ u[g[i]] = t[i] /\ g[i] <= Len(u)
    BY <1>3 DEF Follows
<1>5. n - 1 = Len(t)
    BY <1>1, <1>2
<1>6. \A i \in 1 .. Len(t) : ~Covered(W, i) => g[i + 1] = g[i] + 1 /\ u[g[i]] = t[i] /\ g[i] <= Len(u)
    BY <1>4, <1>5
<1>7. \A e \in W : g[e.end] = g[e.start] + 3 /\ SealedAt(u, g[e.start]) /\ g[e.start] + 2 <= Len(u)
    BY <1>3, Zenon DEF Follows
<1>8. ASSUME NEW e \in W PROVE e.start \in 3 .. Len(t) /\ e.end \in (e.start + 1) .. (Len(t) + 1)
  <2>1. e \in Entries(t) /\ e.value # << >>
      BY Zenon DEF Protects
  <2>2. e.start \in 3 .. (Len(t) + 1) /\ e.end \in (e.start + 1) .. (Len(t) + 1)
      BY <1>1, <2>1, EntryPlaced, EntrySpan
  <2> QED
      BY <1>1, <2>2
<1> QED
    BY <1>1, <1>2, <1>4, <1>6, <1>7, <1>8

(* Where no span is, all places move by the same number.                   *)
LEMMA Shifted ==
    ASSUME NEW t, NEW u, NEW W, NEW g, Protects(t, u, W, g),
           NEW a \in 1 .. (Len(t) + 1), NEW b \in a .. (Len(t) + 1),
           \A i \in a .. (b - 1) : ~Covered(W, i)
    PROVE  /\ \A k \in a .. b : g[k] = g[a] + (k - a)
           /\ \A k \in a .. (b - 1) : u[g[a] + (k - a)] = t[k] /\ g[a] + (k - a) <= Len(u)
<1>1. Len(t) \in Nat /\ \A i \in 1 .. (Len(t) + 1) : g[i] \in Nat \ {0}
    BY ProtectsNumbers
<1>2. \A i \in 1 .. Len(t) : ~Covered(W, i) => g[i + 1] = g[i] + 1 /\ u[g[i]] = t[i] /\ g[i] <= Len(u)
    BY ProtectsNumbers
<1> DEFINE Bad == {k \in a .. b : g[k] # g[a] + (k - a)}
<1>3. Bad = {}
  <2> SUFFICES ASSUME Bad # {} PROVE FALSE
      OBVIOUS
  <2>1. PICK m \in Bad : \A k \in Bad : m <= k
    <3>1. Bad \in SUBSET Nat
        BY <1>1
    <3> HIDE DEF Bad
    <3> QED
        BY <3>1, LeastNatural
  <2>2. m \in a .. b /\ g[m] # g[a] + (m - a)
      OBVIOUS
  <2>3. m # a
    <3>1. g[a] \in Nat
        BY <1>1
    <3>2. g[a] + (a - a) = g[a]
        BY <1>1, <3>1
    <3> QED
        BY <2>2, <3>2
  <2>4. PICK j : j = m - 1
      OBVIOUS
  <2>5. j \in a .. b /\ j \in a .. (b - 1) /\ j \in 1 .. Len(t) /\ j + 1 = m /\ ~(m <= j)
      BY ONLY <1>1, <2>2, <2>3, <2>4, a \in 1 .. (Len(t) + 1), b \in a .. (Len(t) + 1)
  <2>6. g[j] = g[a] + (j - a)
      BY <2>1, <2>5
  <2> HIDE DEF Bad
  <2>7. g[j + 1] = g[j] + 1
      BY <1>2, <2>5
  <2>8. PICK x, y, z : x = g[a] /\ y = g[j] /\ z = g[m]
      OBVIOUS
  <2>9. x \in Nat /\ y = x + (j - a) /\ z = y + 1 /\ z # x + (m - a)
      BY <1>1, <2>2, <2>5, <2>6, <2>7, <2>8
  <2> QED
      BY ONLY <2>9, <2>5, <2>2, <1>1, a \in 1 .. (Len(t) + 1)
<1>4. \A k \in a .. b : g[k] = g[a] + (k - a)
    BY <1>3
<1> HIDE DEF Bad
<1>5. ASSUME NEW k \in a .. (b - 1) PROVE u[g[a] + (k - a)] = t[k] /\ g[a] + (k - a) <= Len(u)
  <2>1. k \in a .. b /\ k \in 1 .. Len(t)
      BY ONLY <1>1, k \in a .. (b - 1), a \in 1 .. (Len(t) + 1), b \in a .. (Len(t) + 1)
  <2> QED
      BY <1>2, <1>4, <2>1
<1> QED
    BY <1>4, <1>5

(* A line ends where its line end is.                                      *)
EndsAt(t, i, E) ==
    /\ E \in i .. (Len(t) + 1)
    /\ \A j \in i .. (E - 1) : t[j] # "\n"
    /\ E <= Len(t) => t[E] = "\n"

LEMMA LineEnds ==
    ASSUME NEW t \in Str, NEW i \in 1 .. Len(t)
    PROVE  EndsAt(t, i, i + Len(LineFrom(t, i)))
<1>1. "\n" \in Symbol /\ t \in Seq(Symbol)
    BY Zenon DEF Symbol, Str
<1> QED
    BY <1>1, LineIs, Zenon DEF EndsAt

LEMMA LineFromIs ==
    ASSUME NEW t \in Str, NEW i \in 1 .. Len(t), NEW E, EndsAt(t, i, E)
    PROVE  /\ LineFrom(t, i) = Slice(t, i, E)
           /\ Absent(<<"\n">>, t, i) <=> E = Len(t) + 1
<1>1. "\n" \in Symbol /\ t \in Seq(Symbol)
    BY Zenon DEF Symbol, Str
<1>2. PICK e : e = i + Len(LineFrom(t, i))
    OBVIOUS
<1>3. LineFrom(t, i) = Slice(t, i, e) /\ EndsAt(t, i, e)
  <2>1. LineFrom(t, i) = Slice(t, i, i + Len(LineFrom(t, i)))
      BY <1>1, LineIs, Zenon
  <2> QED
      BY <1>2, <2>1, LineEnds
<1>4. Len(t) \in Nat
    BY <1>1
<1>5. e \in i .. (Len(t) + 1) /\ E \in i .. (Len(t) + 1)
    BY <1>3 DEF EndsAt
<1>6. ~(e < E) /\ ~(E < e)
  <2>1. e < E => e \in i .. (E - 1) /\ e <= Len(t)
      BY ONLY <1>4, <1>5, i \in 1 .. Len(t)
  <2>2. E < e => E \in i .. (e - 1) /\ E <= Len(t)
      BY ONLY <1>4, <1>5, i \in 1 .. Len(t)
  <2>3. ~(e < E)
      BY <1>3, <2>1, Zenon DEF EndsAt
  <2>4. ~(E < e)
      BY <1>3, <2>2, Zenon DEF EndsAt
  <2> QED
      BY <2>3, <2>4
<1>7. e = E
    BY ONLY <1>4, <1>5, <1>6, i \in 1 .. Len(t)
<1>8. \A j \in i .. Len(t) : At(<<"\n">>, t, j) <=> t[j] = "\n"
  <2>1. PICK w : w = <<"\n">>
      OBVIOUS
  <2>2. w[1] = "\n"
      BY <2>1
  <2>3. w \in Seq(Symbol) /\ Len(w) = 1
      BY <1>1, <2>1
  <2>4. ASSUME NEW j \in i .. Len(t) PROVE At(w, t, j) <=> t[j] = w[1]
    <3>1. j \in Nat \ {0} /\ j <= Len(t)
        BY <1>4
    <3>2. At(w, t, j) <=> j <= Len(t) /\ t[j] = w[1]
        BY ONLY <1>1, <2>3, <3>1, SymbolAt
    <3> QED
        BY <3>1, <3>2
  <2> QED
      BY <2>1, <2>2, <2>4
<1>9. Absent(<<"\n">>, t, i) <=> \A j \in i .. Len(t) : t[j] # "\n"
    BY <1>8, Zenon DEF Absent
<1>10. CASE E = Len(t) + 1
  <2>1. \A j \in i .. Len(t) : j \in i .. (E - 1)
      BY ONLY <1>4, <1>10, i \in 1 .. Len(t)
  <2>2. \A j \in i .. Len(t) : t[j] # "\n"
      BY <2>1, Zenon DEF EndsAt
  <2> QED
      BY <1>3, <1>7, <1>9, <1>10, <2>2
<1>11. CASE E # Len(t) + 1
  <2>1. E \in i .. Len(t) /\ E <= Len(t)
      BY ONLY <1>4, <1>5, <1>11, i \in 1 .. Len(t)
  <2>2. t[E] = "\n"
      BY <2>1, Zenon DEF EndsAt
  <2> QED
      BY <1>3, <1>7, <1>9, <1>11, <2>1, <2>2
<1> QED
    BY <1>10, <1>11

(* The entry e is the line's that starts at i.                             *)
InLine(t, i, e) ==
    /\ i \in EntryLines(t) /\ i \in LineStarts(t) /\ LineEntry(t, i) = {e}
    /\ Len(Line(t, i)) \in Nat
    /\ e.start \in (i + 1) .. (i + Len(Line(t, i))) /\ e.end \in e.start .. (i + Len(Line(t, i)))

LEMMA EntryInLine ==
    ASSUME NEW t \in Str, NEW i, NEW e \in LineEntry(t, i), i \in EntryLines(t)
    PROVE  InLine(t, i, e)
<1>1. i \in LineStarts(t) /\ ~Ignored(Line(t, i))
    BY Zenon DEF EntryLines
<1>2. i \in 1 .. Len(t) /\ Len(t) \in Nat /\ i \in Nat
    BY <1>1 DEF LineStarts, Str
<1>3. Line(t, i) \in Str
    BY <1>2, LinePlaced DEF LinePlace
<1>4. \E c, q, b :
         /\ Assigns(Line(t, i), c, q, b)
         /\ \E v \in ParseValue(Rest(Line(t, i), b)) : e = EntryAt(i, b, KeyOf(Line(t, i), c, q), v)
    BY ONLY <1>2, <1>3, e \in LineEntry(t, i), EntryIsRead
<1>5. PICK c, q, b, v : Written(t, i, e, c, q, b, v)
    BY <1>1, <1>4, Zenon DEF Written
<1>6. LineEntry(t, i) = {e}
    BY <1>5, OneEntry
<1>7. PICK n : n = Len(Line(t, i)) /\ WrittenAt(t, i, n, e, c, q, b, v)
    BY <1>5, WrittenPlaces
<1>8. PICK s, d, x, y, m : s = v.start /\ d = v.end /\ x = e.start /\ y = e.end /\ m = Len(t)
    OBVIOUS
<1>9. /\ m \in Nat /\ i \in 1 .. m /\ n \in Nat /\ i + n <= m + 1
      /\ c \in 1 .. n /\ q \in (c + 1) .. n /\ b \in (q + 1) .. (n + 1)
      /\ s \in 1 .. 2 /\ d \in s .. (n - b + 2)
      /\ x = (i - 1) + (b - 1) + s /\ y = (i - 1) + (b - 1) + d
    BY <1>7, <1>8 DEF WrittenAt
<1>10. n \in Nat /\ x \in (i + 1) .. (i + n) /\ y \in x .. (i + n)
    BY ONLY <1>9
<1> QED
    BY <1>1, <1>6, <1>7, <1>8, <1>10 DEF InLine

LEMMA EntriesInLines ==
    ASSUME NEW t \in Str, NEW e \in Entries(t)
    PROVE  \E i : InLine(t, i, e)
<1>1. PICK i \in EntryLines(t) : e \in LineEntry(t, i)
    BY Zenon DEF Entries
<1> QED
    BY <1>1, EntryInLine

(* What is in the line, between line ends, that an entry covers is the     *)
(* entry's line.                                                           *)
LEMMA CoverIsInLine ==
    ASSUME NEW t \in Str, NEW i \in LineStarts(t), NEW E, EndsAt(t, i, E),
           NEW j, NEW e, InLine(t, j, e), NEW k \in i .. E, e.start <= k, k < e.end
    PROVE  j = i /\ k < E
<1>1. i \in 1 .. Len(t) /\ j \in 1 .. Len(t) /\ Len(t) \in Nat /\ E \in i .. (Len(t) + 1)
    BY DEF LineStarts, InLine, Str, EndsAt
<1>2. PICK n, x, y : n = Len(Line(t, j)) /\ x = e.start /\ y = e.end
    OBVIOUS
<1>3. n \in Nat /\ x \in (j + 1) .. (j + n) /\ y \in x .. (j + n) /\ x <= k /\ k < y
    BY <1>2 DEF InLine
<1>4. NoBreak(t, j, n) /\ LinePlace(t, j, Line(t, j))
    BY <1>1, <1>2, LinePlaced
<1>5. ~(j < i)
  <2> SUFFICES ASSUME j < i PROVE FALSE
      OBVIOUS
  <2>1. j + n < i
      BY <1>2, LinesApart DEF InLine
  <2> QED
      BY ONLY <2>1, <1>1, <1>3, k \in i .. E
<1>6. ~(i < j)
  <2> SUFFICES ASSUME i < j PROVE FALSE
      OBVIOUS
  <2>1. t[j - 1] = "\n"
    <3>1. j = 1 \/ t[j - 1] = "\n"
        BY Zenon DEF InLine, LineStarts
    <3>2. j # 1
        BY ONLY <1>1, i < j
    <3> QED
        BY <3>1, <3>2
  <2>2. j - 1 \in i .. (E - 1)
      BY ONLY <1>1, <1>3, k \in i .. E, i < j
  <2> QED
      BY <2>1, <2>2, Zenon DEF EndsAt
<1>7. j = i
    BY ONLY <1>1, <1>5, <1>6
<1>8. k # E
  <2> SUFFICES ASSUME k = E PROVE FALSE
      OBVIOUS
  <2>0. k <= Len(t)
    <3>1. j + n <= Len(t) + 1
        BY <1>2, <1>4 DEF LinePlace
    <3> QED
        BY ONLY <3>1, <1>1, <1>3, k \in i .. E
  <2>1. t[k] = "\n"
      BY <2>0, k = E, Zenon DEF EndsAt
  <2>2. k \in j .. (j + n - 1)
      BY ONLY <1>1, <1>3, <1>7, k \in i .. E
  <2> QED
      BY <1>4, <2>1, <2>2, Zenon DEF NoBreak
<1> QED
    BY ONLY <1>1, <1>7, <1>8, k \in i .. E

-----------------------------------------------------------------------------
(* Lines without a sealed value.                                           *)

LEMMA LineCovered ==
    ASSUME NEW t, NEW u, NEW W, NEW g, Protects(t, u, W, g),
           NEW i \in LineStarts(t), NEW E, EndsAt(t, i, E), NEW k \in i .. E, Covered(W, k)
    PROVE  k < E /\ \E e \in W : InLine(t, i, e) /\ e.start <= k /\ k < e.end
<1>1. t \in Str /\ W \subseteq Entries(t)
    BY DEF Protects
<1>2. PICK e \in W : e.start <= k /\ k < e.end
    BY Zenon DEF Covered
<1>3. PICK j : InLine(t, j, e)
    BY <1>1, EntriesInLines
<1>4. j = i /\ k < E
    BY <1>1, <1>2, <1>3, CoverIsInLine
<1> QED
    BY <1>2, <1>3, <1>4

LEMMA NewlineUncovered ==
    ASSUME NEW t, NEW u, NEW W, NEW g, Protects(t, u, W, g),
           NEW k \in 1 .. Len(t), t[k] = "\n"
    PROVE  ~Covered(W, k)
<1> SUFFICES ASSUME Covered(W, k) PROVE FALSE
    OBVIOUS
<1>1. t \in Str /\ W \subseteq Entries(t) /\ Len(t) \in Nat
    BY DEF Protects, Str
<1>2. PICK e \in W : e.start <= k /\ k < e.end
    BY Zenon DEF Covered
<1>3. PICK j : InLine(t, j, e)
    BY <1>1, EntriesInLines
<1>4. PICK n, x, y : n = Len(Line(t, j)) /\ x = e.start /\ y = e.end
    OBVIOUS
<1>5. n \in Nat /\ x \in (j + 1) .. (j + n) /\ y \in x .. (j + n) /\ x <= k /\ k < y /\ j \in 1 .. Len(t)
    BY <1>2, <1>3, <1>4 DEF InLine, LineStarts
<1>6. k \in j .. (j + n - 1)
    BY ONLY <1>1, <1>5
<1>7. NoBreak(t, j, n)
    BY <1>1, <1>4, <1>5, LinePlaced
<1> QED
    BY <1>6, <1>7, Zenon DEF NoBreak

(* Lines start where lines started.                                        *)
LEMMA StartsKept ==
    ASSUME NEW t, NEW u, NEW W, NEW g, Protects(t, u, W, g), NEW i \in LineStarts(t)
    PROVE  ~Covered(W, i) /\ g[i] \in LineStarts(u) /\ g[i] \in 1 .. Len(u) /\ i \in 1 .. Len(t)
<1>1. /\ t \in Str /\ Len(t) \in Nat /\ Len(u) \in Nat /\ g[1] = 1
      /\ \A k \in 1 .. (Len(t) + 1) : g[k] \in Nat \ {0}
      /\ \A k \in 1 .. Len(t) : ~Covered(W, k) => g[k + 1] = g[k] + 1 /\ u[g[k]] = t[k] /\ g[k] <= Len(u)
    BY ProtectsNumbers
<1>2. i \in 1 .. Len(t) /\ (i = 1 \/ t[i - 1] = "\n")
    BY Zenon DEF LineStarts
<1>3. PICK E : EndsAt(t, i, E)
    BY <1>1, <1>2, LineEnds
<1>4. ~Covered(W, i)
  <2> SUFFICES ASSUME Covered(W, i) PROVE FALSE
      OBVIOUS
  <2>1. i \in i .. E
    <3>1. E \in i .. (Len(t) + 1)
        BY <1>3, Zenon DEF EndsAt
    <3> QED
        BY ONLY <3>1, <1>1, <1>2
  <2>2. PICK e \in W : InLine(t, i, e) /\ e.start <= i
      BY <1>3, <2>1, LineCovered
  <2>3. PICK n, x : n = Len(Line(t, i)) /\ x = e.start
      OBVIOUS
  <2>4. n \in Nat /\ x \in (i + 1) .. (i + n) /\ x <= i
      BY <2>2, <2>3 DEF InLine
  <2> QED
      BY ONLY <2>4, <1>1, <1>2
<1>5. g[i] \in 1 .. Len(u)
  <2>1. g[i] \in Nat \ {0} /\ g[i] <= Len(u)
      BY <1>1, <1>2, <1>4
  <2> QED
      BY <2>1, <1>1
<1>6. CASE i = 1
    BY <1>1, <1>2, <1>4, <1>5, <1>6 DEF LineStarts
<1>7. CASE i # 1
  <2>1. PICK k : k = i - 1
      OBVIOUS
  <2>2. k \in 1 .. Len(t) /\ k + 1 = i /\ t[k] = "\n"
      BY <1>1, <1>2, <1>7, <2>1
  <2>3. ~Covered(W, k)
      BY <2>2, NewlineUncovered
  <2>4. g[k + 1] = g[k] + 1 /\ u[g[k]] = t[k]
      BY <1>1, <2>2, <2>3
  <2>5. g[i] - 1 = g[k]
    <3>1. PICK x, y : x = g[k] /\ y = g[i]
        OBVIOUS
    <3>2. x \in Nat /\ y = x + 1
        BY <1>1, <2>2, <2>4, <3>1
    <3> QED
        BY <3>1, <3>2
  <2>6. u[g[i] - 1] = "\n"
      BY <2>2, <2>4, <2>5
  <2> QED
      BY <1>2, <1>4, <1>5, <2>6 DEF LineStarts
<1> QED
    BY <1>6, <1>7

LEMMA NoNewlineSealed == \A k \in 1 .. 3 : SEALED[k] # "\n"
<1>1. \A k \in 1 .. 3 : SEALED[k] \notin Blank
    BY SealedIs
<1>2. "\n" \in Blank
    BY Zenon DEF Blank
<1> QED
    BY <1>1, <1>2

(* Each symbol of the new text that is not in a SEALED is an old one.      *)
LEMMA OldSymbol ==
    ASSUME NEW t, NEW u, NEW W, NEW g, Protects(t, u, W, g), NEW p \in 1 .. Len(u)
    PROVE  \/ \E i \in 1 .. Len(t) : ~Covered(W, i) /\ g[i] = p /\ u[p] = t[i]
           \/ \E e \in W, k \in 1 .. 3 : p = g[e.start] + k - 1 /\ u[p] = SEALED[k]
<1>1. /\ t \in Str /\ u \in Str /\ Len(t) \in Nat /\ Len(u) \in Nat
      /\ \A k \in 1 .. (Len(t) + 1) : g[k] \in Nat \ {0}
      /\ \A k \in 1 .. Len(t) : ~Covered(W, k) => u[g[k]] = t[k]
      /\ \A e \in W : SealedAt(u, g[e.start]) /\ e.start \in 3 .. Len(t)
    BY ProtectsNumbers
<1>2. PICK n : n = Len(t) + 1
    OBVIOUS
<1>3. Follows(t, u, W, g, n) /\ n - 1 = Len(t)
    BY <1>1, <1>2 DEF Protects
<1>4. \/ \E i \in 1 .. (n - 1) : ~Covered(W, i) /\ g[i] = p
      \/ \E e \in W : p \in g[e.start] .. (g[e.start] + 2)
    BY <1>1, <1>3, FollowsCovers
<1>5. ASSUME NEW i \in 1 .. (n - 1), ~Covered(W, i), g[i] = p
      PROVE  \E j \in 1 .. Len(t) : ~Covered(W, j) /\ g[j] = p /\ u[p] = t[j]
    BY <1>1, <1>3, <1>5
<1>6. ASSUME NEW e \in W, p \in g[e.start] .. (g[e.start] + 2)
      PROVE  \E k \in 1 .. 3 : p = g[e.start] + k - 1 /\ u[p] = SEALED[k]
  <2>1. PICK x : x = g[e.start]
      OBVIOUS
  <2>2. x \in Nat
    <3>1. e.start \in 1 .. (Len(t) + 1)
        BY <1>1
    <3> QED
        BY <1>1, <2>1, <3>1
  <2>3. PICK k : k = p - x + 1
      OBVIOUS
  <2>4. k \in 1 .. 3 /\ p = x + k - 1
    <3>1. p \in x .. (x + 2)
        BY <1>6, <2>1
    <3> QED
        BY ONLY <3>1, <2>2, <2>3
  <2>5. u[x + k - 1] = SEALED[k]
      BY <1>1, <2>1, <2>4, Zenon DEF SealedAt
  <2> QED
      BY <2>1, <2>4, <2>5
<1> QED
    BY <1>4, <1>5, <1>6

LEMMA StartsFrom ==
    ASSUME NEW t, NEW u, NEW W, NEW g, Protects(t, u, W, g), NEW p \in LineStarts(u)
    PROVE  \E i \in LineStarts(t) : g[i] = p
<1>1. /\ t \in Str /\ Len(t) \in Nat /\ Len(u) \in Nat /\ g[1] = 1 /\ g[Len(t) + 1] = Len(u) + 1
      /\ \A k \in 1 .. (Len(t) + 1) : g[k] \in Nat \ {0}
      /\ \A k \in 1 .. Len(t) : ~Covered(W, k) => g[k + 1] = g[k] + 1
    BY ProtectsNumbers
<1>2. p \in 1 .. Len(u) /\ (p = 1 \/ u[p - 1] = "\n")
    BY Zenon DEF LineStarts
<1>3. CASE p = 1
  <2>1. Len(t) # 0
    <3> SUFFICES ASSUME Len(t) = 0 PROVE FALSE
        OBVIOUS
    <3>1. g[1] = Len(u) + 1
        BY <1>1
    <3> QED
        BY <1>1, <1>2, <3>1
  <2>2. 1 \in 1 .. Len(t)
      BY <1>1, <2>1
  <2>3. 1 \in LineStarts(t)
      BY <2>2 DEF LineStarts
  <2> QED
      BY <1>1, <1>3, <2>3
<1>4. CASE p # 1
  <2>1. PICK r : r = p - 1
      OBVIOUS
  <2>2. r \in 1 .. Len(u) /\ r + 1 = p /\ u[r] = "\n"
      BY <1>1, <1>2, <1>4, <2>1
  <2>3. PICK i \in 1 .. Len(t) : ~Covered(W, i) /\ g[i] = r /\ u[r] = t[i]
      BY <2>2, OldSymbol, NoNewlineSealed
  <2>4. g[i + 1] = p
      BY <1>1, <2>2, <2>3
  <2>5. i # Len(t)
    <3> SUFFICES ASSUME i = Len(t) PROVE FALSE
        OBVIOUS
    <3>1. p = Len(u) + 1
        BY <1>1, <2>4
    <3> QED
        BY <1>1, <1>2, <3>1
  <2>6. i + 1 \in 1 .. Len(t) /\ (i + 1) - 1 = i
      BY ONLY <1>1, <2>5, i \in 1 .. Len(t)
  <2>7. i + 1 \in LineStarts(t)
      BY <2>2, <2>3, <2>6 DEF LineStarts
  <2> QED
      BY <2>4, <2>7
<1> QED
    BY <1>3, <1>4

(* The lines with their line ends.                                         *)
LEMMA EndKept ==
    ASSUME NEW t, NEW u, NEW W, NEW g, Protects(t, u, W, g),
           NEW i \in LineStarts(t), NEW E, EndsAt(t, i, E)
    PROVE  /\ E <= Len(t) => u[g[E]] = "\n" /\ g[E] <= Len(u)
           /\ E > Len(t) => g[E] = Len(u) + 1
           /\ (E = Len(t) + 1) <=> (g[E] = Len(u) + 1)
           /\ E \in i .. (Len(t) + 1) /\ i \in 1 .. Len(t) /\ g[E] \in Nat /\ g[i] \in Nat
<1>1. /\ t \in Str /\ Len(t) \in Nat /\ Len(u) \in Nat /\ g[Len(t) + 1] = Len(u) + 1
      /\ \A k \in 1 .. (Len(t) + 1) : g[k] \in Nat \ {0}
      /\ \A k \in 1 .. Len(t) : ~Covered(W, k) => u[g[k]] = t[k] /\ g[k] <= Len(u)
    BY ProtectsNumbers
<1>2. E \in i .. (Len(t) + 1) /\ i \in 1 .. Len(t)
    BY Zenon DEF EndsAt, LineStarts
<1>3. E \in 1 .. (Len(t) + 1) /\ (E > Len(t) => E = Len(t) + 1) /\ (E <= Len(t) => E \in 1 .. Len(t))
      /\ i \in 1 .. (Len(t) + 1)
    BY ONLY <1>1, <1>2
<1>4. ASSUME E <= Len(t) PROVE u[g[E]] = "\n" /\ g[E] <= Len(u)
  <2>1. t[E] = "\n"
      BY <1>4, Zenon DEF EndsAt
  <2>2. ~Covered(W, E)
      BY <1>3, <1>4, <2>1, NewlineUncovered
  <2> QED
      BY <1>1, <1>3, <1>4, <2>1, <2>2
<1>5. ASSUME E > Len(t) PROVE g[E] = Len(u) + 1
    BY <1>1, <1>3, <1>5
<1>6. (E = Len(t) + 1) <=> (g[E] = Len(u) + 1)
  <2>1. PICK y : y = g[E]
      OBVIOUS
  <2>2. y \in Nat /\ (E <= Len(t) => y <= Len(u)) /\ (E > Len(t) => y = Len(u) + 1)
      BY <1>1, <1>3, <1>4, <1>5, <2>1
  <2>3. (E = Len(t) + 1) <=> (y = Len(u) + 1)
      BY ONLY <2>2, <1>1, <1>3
  <2> QED
      BY <2>1, <2>3
<1> QED
    BY <1>1, <1>2, <1>3, <1>4, <1>5, <1>6

(* A line with no value sealed is as it was.                               *)
LEMMA PlainLineFrom ==
    ASSUME NEW t, NEW u, NEW W, NEW g, Protects(t, u, W, g),
           NEW i \in LineStarts(t), \A e \in W : ~InLine(t, i, e)
    PROVE  /\ LineFrom(u, g[i]) = LineFrom(t, i)
           /\ Absent(<<"\n">>, u, g[i]) <=> Absent(<<"\n">>, t, i)
<1>1. /\ t \in Str /\ u \in Str /\ t \in Seq(Symbol) /\ u \in Seq(Symbol) /\ Len(t) \in Nat /\ Len(u) \in Nat
    BY ProtectsNumbers
<1>2. PICK E : EndsAt(t, i, E)
    BY <1>1, LineEnds DEF LineStarts
<1>3. PICK p, F : p = g[i] /\ F = g[E]
    OBVIOUS
<1>4. /\ E <= Len(t) => u[F] = "\n" /\ F <= Len(u)
      /\ E > Len(t) => F = Len(u) + 1
      /\ (E = Len(t) + 1) <=> (F = Len(u) + 1)
      /\ E \in i .. (Len(t) + 1) /\ i \in 1 .. Len(t) /\ F \in Nat /\ p \in Nat
    BY <1>2, <1>3, EndKept
<1>5. p \in 1 .. Len(u)
    BY <1>3, StartsKept
<1>6. ASSUME NEW k \in i .. (E - 1) PROVE ~Covered(W, k)
  <2>1. k \in i .. E
      BY ONLY <1>1, <1>4, k \in i .. (E - 1)
  <2> QED
      BY <1>2, <2>1, LineCovered
<1>7. i \in 1 .. (Len(t) + 1) /\ E \in i .. E
    BY ONLY <1>1, <1>4
<1>8. /\ \A k \in i .. E : g[k] = p + (k - i)
      /\ \A k \in i .. (E - 1) : u[p + (k - i)] = t[k] /\ p + (k - i) <= Len(u)
    BY <1>3, <1>4, <1>6, <1>7, Shifted
<1>9. F = p + (E - i)
    BY <1>3, <1>7, <1>8
<1>10. F \in p .. (Len(u) + 1)
    BY ONLY <1>1, <1>4, <1>5, <1>9
<1>11. ASSUME NEW j \in p .. (F - 1) PROVE u[j] = t[j - p + i] /\ j - p + i \in i .. (E - 1)
  <2>1. PICK k : k = j - p + i
      OBVIOUS
  <2>2. k \in i .. (E - 1) /\ p + (k - i) = j
      BY ONLY <1>1, <1>4, <1>5, <1>9, <2>1, j \in p .. (F - 1)
  <2>3. u[p + (k - i)] = t[k]
      BY <1>8, <2>2
  <2> QED
      BY <2>1, <2>2, <2>3
<1>12. EndsAt(u, p, F)
  <2>1. \A j \in p .. (F - 1) : u[j] # "\n"
      BY <1>2, <1>11 DEF EndsAt
  <2>2. F <= Len(u) => E <= Len(t)
      BY ONLY <1>1, <1>4
  <2>3. F <= Len(u) => u[F] = "\n"
      BY <1>4, <2>2
  <2> QED
      BY <1>10, <2>1, <2>3 DEF EndsAt
<1>13. LineFrom(t, i) = Slice(t, i, E) /\ (Absent(<<"\n">>, t, i) <=> E = Len(t) + 1)
    BY <1>1, <1>2, <1>4, LineFromIs
<1>14. LineFrom(u, p) = Slice(u, p, F) /\ (Absent(<<"\n">>, u, p) <=> F = Len(u) + 1)
    BY <1>1, <1>5, <1>12, LineFromIs
<1>15. PICK x, y : x = Slice(t, i, E) /\ y = Slice(u, p, F)
    OBVIOUS
<1>16. x \in Seq(Symbol) /\ Len(x) = E - i /\ \A k \in 1 .. (E - i) : x[k] = t[i + k - 1]
    BY ONLY <1>1, <1>4, <1>7, <1>15, SliceIs, ZenonT(40)
<1>17. y \in Seq(Symbol) /\ Len(y) = F - p /\ \A k \in 1 .. (F - p) : y[k] = u[p + k - 1]
  <2>1. p \in 1 .. (Len(u) + 1)
      BY ONLY <1>1, <1>5
  <2> QED
      BY ONLY <1>1, <2>1, <1>10, <1>15, SliceIs, ZenonT(40)
<1>18. Len(x) = Len(y)
    BY ONLY <1>4, <1>1, <1>9, <1>16, <1>17
<1>19. ASSUME NEW k \in 1 .. Len(x) PROVE x[k] = y[k]
  <2>1. k \in 1 .. (E - i) /\ k \in 1 .. (F - p)
      BY <1>16, <1>17, <1>18
  <2>2. p + k - 1 \in p .. (F - 1) /\ (p + k - 1) - p + i = i + k - 1
      BY ONLY <1>4, <1>5, <1>1, <2>1
  <2>3. u[p + k - 1] = t[i + k - 1]
      BY <1>11, <2>2
  <2> QED
      BY <1>16, <1>17, <2>1, <2>3
<1>20. x = y
    BY ONLY <1>16, <1>17, <1>18, <1>19, SeqEqual
<1> QED
    BY <1>3, <1>4, <1>13, <1>14, <1>15, <1>20

LEMMA PlainLine ==
    ASSUME NEW t, NEW u, NEW W, NEW g, Protects(t, u, W, g),
           NEW i \in LineStarts(t), \A e \in W : ~InLine(t, i, e)
    PROVE  Line(u, g[i]) = Line(t, i)
<1>1. /\ LineFrom(u, g[i]) = LineFrom(t, i)
      /\ Absent(<<"\n">>, u, g[i]) <=> Absent(<<"\n">>, t, i)
    BY PlainLineFrom
<1> QED
    BY <1>1, Zenon DEF Line

-----------------------------------------------------------------------------
(* Lines with one.                                                         *)

LEMMA DroppedLength ==
    ASSUME NEW l \in Str
    PROVE  DropCR(l) \in Str /\ Len(l) \in Nat /\ Len(DropCR(l)) \in Nat /\ Len(DropCR(l)) <= Len(l)
<1>1. l \in Seq(Symbol) /\ Len(l) \in Nat
    BY DEF Str
<1>2. /\ DropCR(l) \in Seq(Symbol)
      /\ Len(DropCR(l)) = IF Len(l) > 0 /\ l[Len(l)] = "\r" THEN Len(l) - 1 ELSE Len(l)
    BY ONLY <1>1, DropCRIs
<1>3. Len(DropCR(l)) = Len(l) - 1 \/ Len(DropCR(l)) = Len(l)
    BY <1>2, Zenon
<1>4. Len(DropCR(l)) \in Nat
    BY ONLY <1>2
<1>5. Len(DropCR(l)) <= Len(l)
    BY ONLY <1>1, <1>3, <1>4
<1> QED
    BY <1>1, <1>2, <1>4, <1>5 DEF Str

LEMMA LineDrops ==
    ASSUME NEW t \in Str, NEW i \in 1 .. Len(t)
    PROVE  LET l == LineFrom(t, i)
           IN  /\ l \in Str /\ DropCR(l) \in Str /\ Len(l) \in Nat /\ Len(DropCR(l)) \in Nat
               /\ Len(Line(t, i)) \in Nat
               /\ Len(Line(t, i)) <= Len(DropCR(l)) /\ Len(DropCR(l)) <= Len(l)
<1> DEFINE l == LineFrom(t, i)
<1>1. l \in Str
  <2>1. "\n" \in Symbol /\ t \in Seq(Symbol)
      BY Zenon DEF Symbol, Str
  <2> QED
      BY <2>1, LineIs, Zenon DEF Str
<1>2. Line(t, i) = DropCR(l) \/ Line(t, i) = DropCR(DropCR(l))
    BY Zenon DEF Line
<1> HIDE DEF l
<1>3. DropCR(l) \in Str /\ Len(l) \in Nat /\ Len(DropCR(l)) \in Nat /\ Len(DropCR(l)) <= Len(l)
    BY <1>1, DroppedLength
<1>4. Len(DropCR(DropCR(l))) \in Nat /\ Len(DropCR(DropCR(l))) <= Len(DropCR(l))
    BY <1>3, DroppedLength
<1>5. CASE Line(t, i) = DropCR(l)
    BY <1>1, <1>3, <1>5 DEF l
<1>6. CASE Line(t, i) = DropCR(DropCR(l))
    BY <1>1, <1>3, <1>4, <1>6 DEF l
<1> QED
    BY <1>2, <1>5, <1>6

(* A line with its value sealed, with its line end: place by place.        *)
SealedPlaces(t, u, i, p, a, b, E, F) ==
    /\ F = p + (a - i) + 3 + (E - b)
    /\ \A k \in i .. (a - 1) : u[p + (k - i)] = t[k]
    /\ SealedAt(u, p + (a - i))
    /\ \A k \in b .. (E - 1) : u[p + (a - i) + 3 + (k - b)] = t[k]

LEMMA SealedLinePlaces ==
    ASSUME NEW t, NEW u, NEW W, NEW g, Protects(t, u, W, g),
           NEW i \in LineStarts(t), NEW E, EndsAt(t, i, E), NEW e \in W, InLine(t, i, e)
    PROVE  /\ e.start \in (i + 1) .. E /\ e.end \in (e.start + 1) .. E
           /\ SealedPlaces(t, u, i, g[i], e.start, e.end, E, g[E])
           /\ g[e.start] = g[i] + (e.start - i)
<1>1. /\ t \in Str /\ Len(t) \in Nat /\ Len(u) \in Nat
      /\ \A k \in 1 .. (Len(t) + 1) : g[k] \in Nat \ {0}
      /\ g[e.end] = g[e.start] + 3 /\ SealedAt(u, g[e.start])
      /\ e.start \in 3 .. Len(t) /\ e.end \in (e.start + 1) .. (Len(t) + 1)
    BY ProtectsNumbers
<1>2. E \in i .. (Len(t) + 1) /\ i \in 1 .. Len(t)
    BY Zenon DEF EndsAt, LineStarts
<1>3. PICK a, b, p, F : a = e.start /\ b = e.end /\ p = g[i] /\ F = g[E]
    OBVIOUS
<1>4. PICK n, m : n = Len(Line(t, i)) /\ m = Len(LineFrom(t, i))
    OBVIOUS
<1>5. n \in Nat /\ m \in Nat /\ n <= m
  <2>1. n \in Nat /\ m \in Nat /\ Len(DropCR(LineFrom(t, i))) \in Nat
        /\ n <= Len(DropCR(LineFrom(t, i))) /\ Len(DropCR(LineFrom(t, i))) <= m
      BY <1>1, <1>2, <1>4, LineDrops
  <2> QED
      BY ONLY <2>1
<1>6. E = i + m
  <2>1. LineFrom(t, i) = Slice(t, i, E)
      BY <1>1, <1>2, LineFromIs
  <2>2. t \in Seq(Symbol) /\ i \in 1 .. (Len(t) + 1)
      BY <1>1, <1>2 DEF Str
  <2>3. Len(Slice(t, i, E)) = E - i
      BY ONLY <2>2, <1>2, SliceIs
  <2>4. m = E - i
      BY <1>4, <2>1, <2>3
  <2> QED
      BY ONLY <2>4, <1>1, <1>2
<1>7. a \in (i + 1) .. E /\ b \in (a + 1) .. E
  <2>1. a \in (i + 1) .. (i + n) /\ b \in a .. (i + n) /\ a \in 3 .. Len(t) /\ b \in (a + 1) .. (Len(t) + 1)
      BY <1>1, <1>3, <1>4 DEF InLine
  <2> QED
      BY ONLY <2>1, <1>1, <1>2, <1>5, <1>6
<1>8. ASSUME NEW k \in i .. E, Covered(W, k) PROVE a <= k /\ k < b
  <2>1. PICK f \in W : InLine(t, i, f) /\ f.start <= k /\ k < f.end
      BY <1>8, LineCovered
  <2>2. f = e
    <3>1. LineEntry(t, i) = {e} /\ LineEntry(t, i) = {f}
        BY <2>1, Zenon DEF InLine
    <3> QED
        BY <3>1
  <2> QED
      BY <1>3, <2>1, <2>2
<1>9. ASSUME NEW k \in i .. (a - 1) PROVE ~Covered(W, k)
  <2>1. k \in i .. E /\ ~(a <= k)
      BY ONLY <1>1, <1>2, <1>7, k \in i .. (a - 1)
  <2> QED
      BY <1>8, <2>1
<1>10. ASSUME NEW k \in b .. (E - 1) PROVE ~Covered(W, k)
  <2>1. k \in i .. E /\ ~(k < b)
      BY ONLY <1>1, <1>2, <1>7, k \in b .. (E - 1)
  <2> QED
      BY <1>8, <2>1
<1>11. /\ i \in 1 .. (Len(t) + 1) /\ a \in i .. (Len(t) + 1) /\ b \in 1 .. (Len(t) + 1)
       /\ E \in b .. (Len(t) + 1) /\ a \in i .. a /\ E \in b .. E
    BY ONLY <1>1, <1>2, <1>7
<1>12. /\ \A k \in i .. a : g[k] = p + (k - i)
       /\ \A k \in i .. (a - 1) : u[p + (k - i)] = t[k]
  <2>1. Protects(t, u, W, g) /\ i \in 1 .. (Len(t) + 1) /\ a \in i .. (Len(t) + 1)
      BY <1>11
  <2>2. /\ \A k \in i .. a : g[k] = g[i] + (k - i)
        /\ \A k \in i .. (a - 1) : u[g[i] + (k - i)] = t[k]
      BY ONLY <2>1, <1>9, Shifted
  <2> QED
      BY <2>2, <1>3, Zenon
<1>13. PICK r : r = g[b]
    OBVIOUS
<1>14. /\ \A k \in b .. E : g[k] = r + (k - b)
       /\ \A k \in b .. (E - 1) : u[r + (k - b)] = t[k]
  <2>1. Protects(t, u, W, g) /\ b \in 1 .. (Len(t) + 1) /\ E \in b .. (Len(t) + 1)
      BY <1>11
  <2>2. /\ \A k \in b .. E : g[k] = g[b] + (k - b)
        /\ \A k \in b .. (E - 1) : u[g[b] + (k - b)] = t[k]
      BY ONLY <2>1, <1>10, Shifted
  <2> QED
      BY <2>2, <1>13, Zenon
<1>15. g[a] = p + (a - i) /\ F = r + (E - b) /\ p \in Nat /\ r \in Nat
    BY <1>1, <1>3, <1>11, <1>12, <1>13, <1>14
<1>16. r = p + (a - i) + 3
    BY <1>1, <1>3, <1>13, <1>15
<1>17. F = p + (a - i) + 3 + (E - b)
    BY ONLY <1>15, <1>16
<1>18. SealedAt(u, p + (a - i))
    BY <1>1, <1>3, <1>15
<1>19. SealedPlaces(t, u, i, p, a, b, E, F)
    BY <1>12, <1>14, <1>16, <1>17, <1>18 DEF SealedPlaces
<1> QED
    BY <1>3, <1>7, <1>15, <1>19

LEMMA SealedLineFrom ==
    ASSUME NEW t, NEW u, NEW W, NEW g, Protects(t, u, W, g),
           NEW i \in LineStarts(t), NEW e \in W, InLine(t, i, e)
    PROVE  /\ LineFrom(u, g[i]) \in Str /\ LineFrom(t, i) \in Str
           /\ Swapped(LineFrom(t, i), LineFrom(u, g[i]), e.start - i + 1, e.end - i + 1)
           /\ Absent(<<"\n">>, u, g[i]) <=> Absent(<<"\n">>, t, i)
<1>1. /\ t \in Str /\ u \in Str /\ t \in Seq(Symbol) /\ u \in Seq(Symbol) /\ Len(t) \in Nat /\ Len(u) \in Nat
    BY ProtectsNumbers
<1>2. PICK E : EndsAt(t, i, E)
    BY <1>1, LineEnds DEF LineStarts
<1>3. PICK p, F, a, b : p = g[i] /\ F = g[E] /\ a = e.start /\ b = e.end
    OBVIOUS
<1>4. /\ E <= Len(t) => u[F] = "\n" /\ F <= Len(u)
      /\ E > Len(t) => F = Len(u) + 1
      /\ (E = Len(t) + 1) <=> (F = Len(u) + 1)
      /\ E \in i .. (Len(t) + 1) /\ i \in 1 .. Len(t) /\ F \in Nat /\ p \in Nat
    BY <1>2, <1>3, EndKept
<1>5. p \in 1 .. Len(u)
    BY <1>3, StartsKept
<1>6. a \in (i + 1) .. E /\ b \in (a + 1) .. E /\ SealedPlaces(t, u, i, p, a, b, E, F)
    BY <1>2, <1>3, SealedLinePlaces
<1>7. F = p + (a - i) + 3 + (E - b)
    BY <1>6, Zenon DEF SealedPlaces
<1>8. F \in p .. (Len(u) + 1)
    BY ONLY <1>1, <1>4, <1>5, <1>6, <1>7
<1>9. EndsAt(u, p, F)
  <2>1. ASSUME NEW j \in p .. (F - 1) PROVE u[j] # "\n"
    <3>1. CASE j < p + (a - i)
      <4>1. PICK k : k = j - p + i
          OBVIOUS
      <4>2. k \in i .. (a - 1) /\ k \in i .. (E - 1) /\ p + (k - i) = j
          BY ONLY <1>1, <1>4, <1>5, <1>6, <3>1, <4>1, j \in p .. (F - 1)
      <4>3. u[p + (k - i)] = t[k]
          BY <1>6, <4>2, Zenon DEF SealedPlaces
      <4>4. t[k] # "\n"
          BY <1>2, <4>2, Zenon DEF EndsAt
      <4> QED
          BY <4>2, <4>3, <4>4
    <3>2. CASE p + (a - i) <= j /\ j < p + (a - i) + 3
      <4>1. PICK k : k = j - (p + (a - i)) + 1
          OBVIOUS
      <4>2. k \in 1 .. 3 /\ (p + (a - i)) + k - 1 = j
          BY ONLY <1>1, <1>4, <1>5, <1>6, <3>2, <4>1, j \in p .. (F - 1)
      <4>3. u[(p + (a - i)) + k - 1] = SEALED[k]
          BY <1>6, <4>2, Zenon DEF SealedPlaces, SealedAt
      <4> QED
          BY <4>2, <4>3, NoNewlineSealed
    <3>3. CASE p + (a - i) + 3 <= j
      <4>1. PICK k : k = j - (p + (a - i) + 3) + b
          OBVIOUS
      <4>2. k \in b .. (E - 1) /\ k \in i .. (E - 1) /\ p + (a - i) + 3 + (k - b) = j
          BY ONLY <1>1, <1>4, <1>5, <1>6, <1>7, <3>3, <4>1, j \in p .. (F - 1)
      <4>3. u[p + (a - i) + 3 + (k - b)] = t[k]
          BY <1>6, <4>2, Zenon DEF SealedPlaces
      <4>4. t[k] # "\n"
          BY <1>2, <4>2, Zenon DEF EndsAt
      <4> QED
          BY <4>2, <4>3, <4>4
    <3>4. j < p + (a - i) \/ (p + (a - i) <= j /\ j < p + (a - i) + 3) \/ p + (a - i) + 3 <= j
        BY ONLY <1>1, <1>4, <1>5, <1>6, j \in p .. (F - 1)
    <3> QED
        BY <3>1, <3>2, <3>3, <3>4
  <2>2. F <= Len(u) => E <= Len(t)
      BY ONLY <1>1, <1>4
  <2>3. F <= Len(u) => u[F] = "\n"
      BY <1>4, <2>2
  <2> QED
      BY <1>8, <2>1, <2>3 DEF EndsAt
<1>10. LineFrom(t, i) = Slice(t, i, E) /\ (Absent(<<"\n">>, t, i) <=> E = Len(t) + 1)
    BY <1>1, <1>2, <1>4, LineFromIs
<1>11. LineFrom(u, p) = Slice(u, p, F) /\ (Absent(<<"\n">>, u, p) <=> F = Len(u) + 1)
    BY <1>1, <1>5, <1>9, LineFromIs
<1>12. PICK x, y : x = Slice(t, i, E) /\ y = Slice(u, p, F)
    OBVIOUS
<1>13. x \in Seq(Symbol) /\ Len(x) = E - i /\ \A k \in 1 .. (E - i) : x[k] = t[i + k - 1]
  <2>1. i \in 1 .. (Len(t) + 1)
      BY ONLY <1>1, <1>4
  <2> QED
      BY ONLY <1>1, <2>1, <1>4, <1>12, SliceIs, ZenonT(40)
<1>14. y \in Seq(Symbol) /\ Len(y) = F - p /\ \A k \in 1 .. (F - p) : y[k] = u[p + k - 1]
  <2>1. p \in 1 .. (Len(u) + 1)
      BY ONLY <1>1, <1>5
  <2> QED
      BY ONLY <1>1, <2>1, <1>8, <1>12, SliceIs, ZenonT(40)
<1>15. PICK s, d : s = a - i + 1 /\ d = b - i + 1
    OBVIOUS
<1>16. s \in 1 .. (Len(x) + 1) /\ d \in s .. (Len(x) + 1) /\ Len(y) = Len(x) - (d - s) + 3
    BY ONLY <1>1, <1>4, <1>5, <1>6, <1>7, <1>13, <1>14, <1>15
<1>17. ASSUME NEW j \in 1 .. (s - 1) PROVE y[j] = x[j]
  <2>1. PICK k : k = i + j - 1
      OBVIOUS
  <2>2. /\ j \in 1 .. (F - p) /\ j \in 1 .. (E - i) /\ k \in i .. (a - 1) /\ p + (k - i) = p + j - 1
        /\ i + j - 1 = k
      BY ONLY <1>1, <1>4, <1>5, <1>6, <1>7, <1>15, <2>1, j \in 1 .. (s - 1)
  <2>3. u[p + (k - i)] = t[k]
      BY <1>6, <2>2, Zenon DEF SealedPlaces
  <2> QED
      BY <1>13, <1>14, <2>2, <2>3
<1>18. SealedAt(y, s)
  <2> SUFFICES ASSUME NEW k \in 1 .. 3 PROVE y[s + k - 1] = SEALED[k]
      BY Zenon DEF SealedAt
  <2>1. s + k - 1 \in 1 .. (F - p) /\ p + (s + k - 1) - 1 = (p + (a - i)) + k - 1
      BY ONLY <1>1, <1>4, <1>5, <1>6, <1>7, <1>15, k \in 1 .. 3
  <2>2. u[(p + (a - i)) + k - 1] = SEALED[k]
      BY <1>6, Zenon DEF SealedPlaces, SealedAt
  <2>3. y[s + k - 1] = u[p + (s + k - 1) - 1]
      BY <1>14, <2>1
  <2> QED
      BY <2>1, <2>2, <2>3
<1>19. ASSUME NEW j \in d .. Len(x) PROVE y[j - d + s + 3] = x[j]
  <2>1. PICK k, m : k = i + j - 1 /\ m = j - d + s + 3
      OBVIOUS
  <2>2. /\ m \in 1 .. (F - p) /\ j \in 1 .. (E - i) /\ k \in b .. (E - 1)
        /\ p + m - 1 = p + (a - i) + 3 + (k - b) /\ i + j - 1 = k
    <3>1. j \in d .. (E - i)
        BY <1>13
    <3> QED
        BY ONLY <1>1, <1>4, <1>5, <1>6, <1>7, <1>15, <2>1, <3>1
  <2>3. u[p + (a - i) + 3 + (k - b)] = t[k]
      BY <1>6, <2>2, Zenon DEF SealedPlaces
  <2>4. y[m] = u[p + m - 1] /\ x[j] = t[i + j - 1]
      BY <1>13, <1>14, <2>2
  <2> QED
      BY <2>1, <2>2, <2>3, <2>4
<1>20. Swapped(x, y, s, d)
    BY <1>16, <1>17, <1>18, <1>19 DEF Swapped
<1> QED
    BY <1>3, <1>4, <1>10, <1>11, <1>12, <1>13, <1>14, <1>15, <1>20 DEF Str

(* A line with its value sealed.                                           *)
LEMMA SealedLine ==
    ASSUME NEW t, NEW u, NEW W, NEW g, Protects(t, u, W, g),
           NEW i \in LineStarts(t), NEW e \in W, InLine(t, i, e)
    PROVE  /\ Line(t, i) \in Str /\ Line(u, g[i]) \in Str
           /\ Swapped(Line(t, i), Line(u, g[i]), e.start - i + 1, e.end - i + 1)
<1>1. t \in Str /\ i \in 1 .. Len(t) /\ Len(t) \in Nat
    BY DEF Protects, LineStarts, Str
<1>2. PICK l, m, s, d : l = LineFrom(t, i) /\ m = LineFrom(u, g[i]) /\ s = e.start - i + 1 /\ d = e.end - i + 1
    OBVIOUS
<1>3. l \in Str /\ m \in Str /\ Swapped(l, m, s, d) /\ (Absent(<<"\n">>, u, g[i]) <=> Absent(<<"\n">>, t, i))
    BY <1>2, SealedLineFrom
<1>4. d <= Len(Line(t, i)) + 1
  <2>1. PICK n, x, y : n = Len(Line(t, i)) /\ x = e.start /\ y = e.end
      OBVIOUS
  <2>2. n \in Nat /\ x \in (i + 1) .. (i + n) /\ y \in x .. (i + n) /\ d = y - i + 1
      BY <1>2, <2>1 DEF InLine
  <2>3. d <= n + 1
      BY ONLY <2>2, <1>1
  <2> QED
      BY <2>1, <2>3
<1>5. Len(DropCR(l)) \in Nat /\ Len(Line(t, i)) \in Nat /\ Len(Line(t, i)) <= Len(DropCR(l))
    BY <1>1, <1>2, LineDrops
<1>6. d \in Nat
    BY <1>3, SwappedNumbers
<1>7. d <= Len(DropCR(l)) + 1
    BY ONLY <1>4, <1>5, <1>6
<1>8. DropCR(l) \in Str /\ DropCR(m) \in Str /\ Swapped(DropCR(l), DropCR(m), s, d)
    BY <1>3, <1>7, SwappedDropCR
<1>9. CASE Absent(<<"\n">>, t, i)
  <2>1. Line(t, i) = DropCR(l) /\ Line(u, g[i]) = DropCR(m)
      BY <1>2, <1>3, <1>9, Zenon DEF Line
  <2> QED
      BY <1>2, <1>8, <2>1
<1>10. CASE ~Absent(<<"\n">>, t, i)
  <2>1. Line(t, i) = DropCR(DropCR(l)) /\ Line(u, g[i]) = DropCR(DropCR(m))
      BY <1>2, <1>3, <1>10, Zenon DEF Line
  <2>2. d <= Len(DropCR(DropCR(l))) + 1
      BY <1>4, <2>1
  <2>3. /\ DropCR(DropCR(l)) \in Str /\ DropCR(DropCR(m)) \in Str
        /\ Swapped(DropCR(DropCR(l)), DropCR(DropCR(m)), s, d)
      BY <1>8, <2>2, SwappedDropCR
  <2> QED
      BY <1>2, <2>1, <2>3
<1> QED
    BY <1>9, <1>10

-----------------------------------------------------------------------------
(* The entries of the new text are those of the old one.                   *)

(* A line is ignored if what it starts with is nothing or a comment.       *)
LEMMA IgnoredIs ==
    ASSUME NEW l \in Str, NEW k, BlanksTo(l, 1, k)
    PROVE  Ignored(l) <=> (k > Len(l) \/ l[k] = "#")
<1>1. l \in Seq(Symbol) /\ Len(l) \in Nat
    BY DEF Str
<1>2. k \in 1 .. (Len(l) + 1)
    BY DEF BlanksTo
<1>3. TrimStart(l) = Rest(l, k)
    BY <1>1, TrimStartIs
<1>4. PICK x : x = Rest(l, k)
    OBVIOUS
<1>5. x \in Seq(Symbol) /\ Len(x) = Len(l) - k + 1 /\ \A n \in 1 .. (Len(l) - k + 1) : x[n] = l[k + n - 1]
    BY ONLY <1>1, <1>2, <1>4, RestIs
<1>6. x = << >> <=> k > Len(l)
  <2>1. x = << >> <=> Len(x) = 0
      BY <1>5, EmptySeq
  <2>2. Len(x) = 0 <=> k > Len(l)
      BY ONLY <1>1, <1>2, <1>5
  <2> QED
      BY <2>1, <2>2
<1>7. k <= Len(l) => x[1] = l[k]
  <2>1. k <= Len(l) => 1 \in 1 .. (Len(l) - k + 1) /\ k + 1 - 1 = k
      BY ONLY <1>1, <1>2
  <2> QED
      BY <1>5, <2>1
<1>8. At(<<"#">>, x, 1) <=> 1 <= Len(x) /\ x[1] = "#"
  <2>1. PICK w : w = <<"#">>
      OBVIOUS
  <2>2. w[1] = "#"
      BY <2>1
  <2>3. w \in Seq(Symbol) /\ Len(w) = 1 /\ 1 \in Nat \ {0}
    <3>1. "#" \in Symbol
        BY Zenon DEF Symbol
    <3> QED
        BY <2>1, <3>1
  <2>4. At(w, x, 1) <=> 1 <= Len(x) /\ x[1] = w[1]
      BY ONLY <1>5, <2>3, SymbolAt
  <2> QED
      BY <2>1, <2>2, <2>4
<1>9. 1 <= Len(x) <=> k <= Len(l)
    BY ONLY <1>1, <1>2, <1>5
<1>10. k > Len(l) <=> ~(k <= Len(l))
    BY ONLY <1>1, <1>2
<1> QED
    BY <1>3, <1>4, <1>6, <1>7, <1>8, <1>9, <1>10, Zenon DEF Ignored

(* A line whose value is sealed is no more ignored than it was.            *)
LEMMA SwappedIgnored ==
    ASSUME NEW l \in Str, NEW m \in Str, NEW s, NEW d, Swapped(l, m, s, d),
           NEW k, BlanksTo(l, 1, k), k < s
    PROVE  BlanksTo(m, 1, k) /\ m[k] = l[k] /\ k <= Len(m) /\ k <= Len(l) /\ (Ignored(m) <=> Ignored(l))
<1>1. /\ Len(l) \in Nat /\ Len(m) \in Nat /\ s \in 1 .. (Len(l) + 1) /\ d \in s .. (Len(l) + 1)
      /\ Len(m) = Len(l) - (d - s) + 3
    BY SwappedNumbers
<1>2. k \in 1 .. (Len(l) + 1) /\ \A j \in 1 .. (k - 1) : l[j] \in Blank
    BY Zenon DEF BlanksTo
<1>3. \A j \in 1 .. (s - 1) : m[j] = l[j]
    BY DEF Swapped
<1>4. k \in 1 .. (s - 1) /\ k <= Len(l) /\ k <= Len(m) /\ k \in 1 .. (Len(m) + 1)
    BY ONLY <1>1, <1>2, k < s
<1>5. l[k] \notin Blank
    BY <1>4, Zenon DEF BlanksTo
<1>6. m[k] = l[k]
    BY <1>3, <1>4
<1>7. \A j \in 1 .. (k - 1) : m[j] \in Blank
  <2>1. \A j \in 1 .. (k - 1) : j \in 1 .. (s - 1)
      BY ONLY <1>1, <1>4
  <2> QED
      BY <1>2, <1>3, <2>1
<1>8. BlanksTo(m, 1, k)
    BY <1>4, <1>5, <1>6, <1>7, Zenon DEF BlanksTo
<1>9. (Ignored(m) <=> (k > Len(m) \/ m[k] = "#")) /\ (Ignored(l) <=> (k > Len(l) \/ l[k] = "#"))
    BY <1>8, IgnoredIs
<1>10. ~(k > Len(m)) /\ ~(k > Len(l))
    BY ONLY <1>1, <1>4
<1> QED
    BY <1>4, <1>6, <1>8, <1>9, <1>10, Zenon

(* What an entry of the old text is in the new one.                        *)
Image(W, g, e, f) ==
    /\ f.key = e.key /\ f.start = g[e.start]
    /\ f.value = IF e \in W THEN SEALED ELSE e.value

LEMMA InLineReads ==
    ASSUME NEW t \in Str, NEW i, NEW e, InLine(t, i, e)
    PROVE  /\ Line(t, i) \in Str /\ i \in 1 .. Len(t) /\ i \in Nat
           /\ \E c, q, b, v : Written(t, i, e, c, q, b, v)
<1>1. i \in 1 .. Len(t) /\ Len(t) \in Nat /\ i \in Nat
    BY DEF InLine, LineStarts, Str
<1>2. Line(t, i) \in Str
    BY <1>1, LinePlaced DEF LinePlace
<1>3. i \in LineStarts(t) /\ ~Ignored(Line(t, i)) /\ e \in LineEntry(t, i)
    BY Zenon DEF InLine, EntryLines
<1>4. \E c, q, b :
         /\ Assigns(Line(t, i), c, q, b)
         /\ \E v \in ParseValue(Rest(Line(t, i), b)) : e = EntryAt(i, b, KeyOf(Line(t, i), c, q), v)
    BY ONLY <1>1, <1>2, <1>3, EntryIsRead
<1> QED
    BY <1>1, <1>2, <1>3, <1>4, Zenon DEF Written

LEMMA PlainImage ==
    ASSUME NEW t, NEW u, NEW W, NEW g, Protects(t, u, W, g),
           NEW i, NEW e, InLine(t, i, e), e \notin W
    PROVE  g[i] \in EntryLines(u) /\ \E f : LineEntry(u, g[i]) = {f} /\ Image(W, g, e, f)
<1>1. /\ t \in Str /\ u \in Str /\ Len(t) \in Nat /\ Len(u) \in Nat
      /\ \A k \in 1 .. (Len(t) + 1) : g[k] \in Nat \ {0}
    BY ProtectsNumbers
<1>2. i \in LineStarts(t) /\ i \in EntryLines(t) /\ LineEntry(t, i) = {e}
    BY Zenon DEF InLine
<1>3. ASSUME NEW f \in W PROVE ~InLine(t, i, f)
  <2> SUFFICES ASSUME InLine(t, i, f) PROVE FALSE
      OBVIOUS
  <2>1. LineEntry(t, i) = {f}
      BY Zenon DEF InLine
  <2> QED
      BY <1>2, <2>1
<1>4. Line(u, g[i]) = Line(t, i)
    BY <1>2, <1>3, PlainLine
<1>5. g[i] \in LineStarts(u) /\ g[i] \in 1 .. Len(u) /\ i \in 1 .. Len(t)
    BY <1>2, StartsKept
<1>6. g[i] \in EntryLines(u)
    BY <1>2, <1>4, <1>5, Zenon DEF EntryLines
<1>7. PICK l, p : l = Line(t, i) /\ p = g[i]
    OBVIOUS
<1>8. PICK c, q, b, v : Written(t, i, e, c, q, b, v)
    BY <1>1, InLineReads
<1>9. /\ l \in Str /\ Assigns(l, c, q, b) /\ v \in ParseValue(Rest(l, b))
      /\ e = EntryAt(i, b, KeyOf(l, c, q), v) /\ Rest(l, b) \in Str
  <2>1. Line(t, i) \in Str /\ Rest(Line(t, i), b) \in Str
      BY <1>1, <1>8, WrittenPlaces
  <2> QED
      BY <1>7, <1>8, <2>1, Zenon DEF Written
<1>10. ParseValue(Rest(l, b)) = {v}
    BY <1>9, OneValue
<1>11. p \in Nat /\ Line(u, p) = l
    BY <1>1, <1>4, <1>5, <1>7
<1>12. LineEntry(u, p) = {EntryAt(p, b, KeyOf(Line(u, p), c, q), w) : w \in ParseValue(Rest(Line(u, p), b))}
  <2>1. Line(u, p) \in Str /\ Assigns(Line(u, p), c, q, b)
      BY <1>9, <1>11
  <2> QED
      BY ONLY <1>11, <2>1, ReadIsEntry
<1>13. PICK f : f = EntryAt(p, b, KeyOf(l, c, q), v)
    OBVIOUS
<1>14. LineEntry(u, p) = {f}
    BY <1>10, <1>11, <1>12, <1>13, Zenon
<1>15. g[e.start] = p + (e.start - i)
  <2>1. PICK E : EndsAt(t, i, E)
      BY <1>1, <1>5, LineEnds
  <2>2. E \in i .. (Len(t) + 1)
      BY <2>1, Zenon DEF EndsAt
  <2>3. ASSUME NEW k \in i .. E PROVE ~Covered(W, k)
      BY <1>2, <1>3, <2>1, LineCovered
  <2>4. PICK n, x : n = Len(Line(t, i)) /\ x = e.start
      OBVIOUS
  <2>5. x \in i .. E
    <3>1. n \in Nat /\ x \in (i + 1) .. (i + n)
        BY <2>4 DEF InLine
    <3>2. PICK m, r : m = Len(LineFrom(t, i)) /\ r = Len(DropCR(LineFrom(t, i)))
        OBVIOUS
    <3>3. m \in Nat /\ r \in Nat /\ n <= r /\ r <= m
        BY <1>1, <1>5, <2>4, <3>2, LineDrops
    <3>4. LineFrom(t, i) = Slice(t, i, E)
        BY <1>1, <1>5, <2>1, LineFromIs
    <3>5. t \in Seq(Symbol) /\ i \in 1 .. (Len(t) + 1)
        BY <1>1, <1>5 DEF Str
    <3>6. Len(Slice(t, i, E)) = E - i
        BY ONLY <2>2, <3>5, SliceIs
    <3>7. m = E - i
        BY <3>2, <3>4, <3>6
    <3> QED
        BY ONLY <1>1, <1>5, <2>2, <3>1, <3>3, <3>7
  <2>6. i \in 1 .. (Len(t) + 1) /\ E \in i .. (Len(t) + 1) /\ \A k \in i .. (E - 1) : k \in i .. E
      BY ONLY <1>1, <1>5, <2>2
  <2>7. Protects(t, u, W, g) /\ \A k \in i .. (E - 1) : ~Covered(W, k)
      BY <2>3, <2>6
  <2>8. \A k \in i .. E : g[k] = g[i] + (k - i)
      BY ONLY <2>6, <2>7, Shifted
  <2> QED
      BY <1>7, <2>4, <2>5, <2>8, Zenon
<1>16. Image(W, g, e, f)
  <2>1. e.key = KeyOf(l, c, q) /\ e.value = v.value /\ e.start = (i - 1) + (b - 1) + v.start
      BY <1>9 DEF EntryAt
  <2>2. f.key = KeyOf(l, c, q) /\ f.value = v.value /\ f.start = (p - 1) + (b - 1) + v.start
      BY <1>13 DEF EntryAt
  <2>3. f.start = g[e.start]
    <3>1. WrittenAt(t, i, Len(Line(t, i)), e, c, q, b, v)
        BY <1>1, <1>8, WrittenPlaces
    <3>2. PICK n, s, x, y, z : n = Len(Line(t, i)) /\ s = v.start /\ x = e.start /\ y = f.start /\ z = g[e.start]
        OBVIOUS
    <3>3. /\ n \in Nat /\ c \in 1 .. n /\ q \in (c + 1) .. n /\ b \in (q + 1) .. (n + 1) /\ s \in 1 .. 2
          /\ x = (i - 1) + (b - 1) + s /\ y = (p - 1) + (b - 1) + s /\ z = p + (x - i)
        BY <1>15, <2>1, <2>2, <3>1, <3>2 DEF WrittenAt
    <3>4. y = z
        BY ONLY <1>5, <1>1, <1>11, <3>3
    <3> QED
        BY <3>2, <3>4
  <2> QED
      BY <2>1, <2>2, <2>3, e \notin W, Zenon DEF Image
<1> QED
    BY <1>6, <1>7, <1>14, <1>16

LEMMA SealedImage ==
    ASSUME NEW t, NEW u, NEW W, NEW g, Protects(t, u, W, g),
           NEW i, NEW e \in W, InLine(t, i, e)
    PROVE  g[i] \in EntryLines(u) /\ \E f : LineEntry(u, g[i]) = {f} /\ Image(W, g, e, f)
<1>1. /\ t \in Str /\ u \in Str /\ Len(t) \in Nat /\ Len(u) \in Nat
      /\ \A k \in 1 .. (Len(t) + 1) : g[k] \in Nat \ {0}
    BY ProtectsNumbers
<1>2. i \in LineStarts(t) /\ i \in EntryLines(t) /\ LineEntry(t, i) = {e} /\ ~Ignored(Line(t, i))
    BY Zenon DEF InLine, EntryLines
<1>3. g[i] \in LineStarts(u) /\ g[i] \in 1 .. Len(u) /\ i \in 1 .. Len(t)
    BY <1>2, StartsKept
<1>4. PICK l, m, p, s, d : /\ l = Line(t, i) /\ m = Line(u, g[i]) /\ p = g[i]
                           /\ s = e.start - i + 1 /\ d = e.end - i + 1
    OBVIOUS
<1>5. l \in Str /\ m \in Str /\ Swapped(l, m, s, d)
    BY <1>2, <1>4, SealedLine
<1>6. PICK c, q, b, v : Written(t, i, e, c, q, b, v)
    BY <1>1, InLineReads
<1>7. Assigns(l, c, q, b) /\ v \in ParseValue(Rest(l, b)) /\ e = EntryAt(i, b, KeyOf(l, c, q), v)
    BY <1>4, <1>6, Zenon DEF Written
<1>8. e.key = KeyOf(l, c, q) /\ e.value = v.value /\ e.value # << >>
  <2>1. e.value # << >>
      BY Zenon DEF Protects
  <2> QED
      BY <1>7, <2>1 DEF EntryAt
<1>9. PICK n, x, y, x1, y1 : n = Len(Line(t, i)) /\ x = v.start /\ y = v.end /\ x1 = e.start /\ y1 = e.end
    OBVIOUS
<1>10. /\ n \in Nat /\ c \in 1 .. n /\ q \in (c + 1) .. n /\ b \in (q + 1) .. (n + 1)
       /\ x \in 1 .. 2 /\ y \in x .. (n - b + 2)
       /\ x1 = (i - 1) + (b - 1) + x /\ y1 = (i - 1) + (b - 1) + y
       /\ s = x1 - i + 1 /\ d = y1 - i + 1
  <2>1. WrittenAt(t, i, n, e, c, q, b, v)
      BY <1>1, <1>6, <1>9, WrittenPlaces
  <2> QED
      BY <1>4, <1>9, <2>1 DEF WrittenAt
<1>11. s = (b - 1) + x /\ d = (b - 1) + y /\ p \in Nat
    BY ONLY <1>10, <1>3, <1>1, <1>4
<1>12. Swapped(l, m, (b - 1) + v.start, (b - 1) + v.end)
    BY <1>5, <1>9, <1>11
<1>13. /\ Assigns(m, c, q, b) /\ KeyOf(m, c, q) = KeyOf(l, c, q)
       /\ ParseValue(Rest(m, b)) = {SealedValue(v.start)}
  <2>1. v.value # << >>
      BY <1>8
  <2> QED
      BY <1>5, <1>7, <1>12, <2>1, SealsLine
<1>14. Line(u, p) = m
    BY <1>4
<1>15. LineEntry(u, p) = {EntryAt(p, b, KeyOf(Line(u, p), c, q), w) : w \in ParseValue(Rest(Line(u, p), b))}
  <2>1. Line(u, p) \in Str /\ Assigns(Line(u, p), c, q, b)
      BY <1>5, <1>13, <1>14
  <2> QED
      BY ONLY <1>11, <2>1, ReadIsEntry
<1>16. PICK f : f = EntryAt(p, b, KeyOf(l, c, q), SealedValue(v.start))
    OBVIOUS
<1>17. LineEntry(u, p) = {f}
    BY <1>13, <1>14, <1>15, <1>16, Zenon
<1>18. g[i] \in EntryLines(u)
  <2>1. PICK k : BlanksTo(l, 1, k) /\ (k = c \/ BlanksTo(l, k + 1, c))
      BY <1>7 DEF Assigns, Content
  <2>2. k \in Nat /\ k < s
    <3>1. k \in 1 .. (Len(l) + 1)
        BY <2>1, Zenon DEF BlanksTo
    <3>2. k = c \/ c \in (k + 1) .. (Len(l) + 1)
        BY <2>1, Zenon DEF BlanksTo
    <3>3. Len(l) = n
        BY <1>4, <1>9
    <3> QED
        BY ONLY <3>1, <3>2, <3>3, <1>10, <1>11
  <2>3. Ignored(m) <=> Ignored(l)
      BY <1>5, <2>1, <2>2, SwappedIgnored
  <2> QED
      BY <1>2, <1>3, <1>4, <2>3, Zenon DEF EntryLines
<1>19. Image(W, g, e, f)
  <2>1. f.key = KeyOf(l, c, q) /\ f.value = SEALED /\ f.start = (p - 1) + (b - 1) + v.start
      BY <1>16 DEF EntryAt, SealedValue
  <2>2. f.start = g[e.start]
    <3>1. PICK E : EndsAt(t, i, E)
        BY <1>1, <1>3, LineEnds
    <3>2. g[e.start] = g[i] + (e.start - i)
        BY <1>2, <3>1, SealedLinePlaces
    <3>3. PICK r, z : r = f.start /\ z = g[e.start]
        OBVIOUS
    <3>4. r = (p - 1) + (b - 1) + x /\ z = p + (x1 - i)
        BY <1>4, <1>9, <2>1, <3>2, <3>3
    <3>5. r = z
        BY ONLY <3>4, <1>10, <1>11, <1>3, <1>1
    <3> QED
        BY <3>3, <3>5
  <2> QED
      BY <1>8, <2>1, <2>2, Zenon DEF Image
<1> QED
    BY <1>4, <1>17, <1>18, <1>19

(* The entries of the new text are those of the old one, in their places.  *)
EntriesKept(t, u, W, g) ==
    /\ ~Refused(u)
    /\ \A e \in Entries(t) : \E f \in Entries(u) : Image(W, g, e, f)
    /\ \A f \in Entries(u) : \E e \in Entries(t) : Image(W, g, e, f)

LEMMA EntryImages ==
    ASSUME NEW t, NEW u, NEW W, NEW g, Protects(t, u, W, g), ~Refused(t)
    PROVE  EntriesKept(t, u, W, g)
<1>1. t \in Str /\ u \in Str
    BY DEF Protects
<1>2. ASSUME NEW i, NEW e, InLine(t, i, e)
      PROVE  g[i] \in EntryLines(u) /\ \E f : LineEntry(u, g[i]) = {f} /\ Image(W, g, e, f)
    BY <1>2, PlainImage, SealedImage
<1>3. ASSUME NEW p \in EntryLines(u)
      PROVE  \E i, e : InLine(t, i, e) /\ g[i] = p
  <2>1. p \in LineStarts(u) /\ ~Ignored(Line(u, p))
      BY Zenon DEF EntryLines
  <2>2. PICK i \in LineStarts(t) : g[i] = p
      BY <2>1, StartsFrom
  <2>3. CASE \E e \in W : InLine(t, i, e)
      BY <2>2, <2>3
  <2>4. CASE \A e \in W : ~InLine(t, i, e)
    <3>1. Line(u, g[i]) = Line(t, i)
        BY <2>4, PlainLine
    <3>2. i \in EntryLines(t)
        BY <2>1, <2>2, <3>1, Zenon DEF EntryLines
    <3>3. PICK e : e \in LineEntry(t, i)
        BY <3>2, Zenon DEF Refused
    <3>4. InLine(t, i, e)
        BY <1>1, <3>2, <3>3, EntryInLine
    <3> QED
        BY <2>2, <3>4
  <2> QED
      BY <2>3, <2>4
<1>4. ~Refused(u)
  <2> SUFFICES ASSUME NEW p \in EntryLines(u) PROVE LineEntry(u, p) # {}
      BY Zenon DEF Refused
  <2>1. PICK i, e : InLine(t, i, e) /\ g[i] = p
      BY <1>3
  <2>2. PICK f : LineEntry(u, g[i]) = {f}
      BY <1>2, <2>1
  <2> QED
      BY <2>1, <2>2
<1>5. ASSUME NEW e \in Entries(t) PROVE \E f \in Entries(u) : Image(W, g, e, f)
  <2>1. PICK i : InLine(t, i, e)
      BY <1>1, EntriesInLines
  <2>2. g[i] \in EntryLines(u)
      BY <1>2, <2>1
  <2>3. PICK f : LineEntry(u, g[i]) = {f} /\ Image(W, g, e, f)
      BY <1>2, <2>1
  <2>4. f \in Entries(u)
      BY <2>2, <2>3, Zenon DEF Entries
  <2> QED
      BY <2>3, <2>4
<1>6. ASSUME NEW f \in Entries(u) PROVE \E e \in Entries(t) : Image(W, g, e, f)
  <2>1. PICK p \in EntryLines(u) : f \in LineEntry(u, p)
      BY Zenon DEF Entries
  <2>2. PICK i, e : InLine(t, i, e) /\ g[i] = p
      BY <1>3
  <2>3. PICK h : LineEntry(u, g[i]) = {h} /\ Image(W, g, e, h)
      BY <1>2, <2>2
  <2>4. h = f
      BY <2>1, <2>2, <2>3
  <2>5. e \in Entries(t)
      BY <2>2, Zenon DEF InLine, Entries
  <2> QED
      BY <2>3, <2>4, <2>5
<1> QED
    BY <1>4, <1>5, <1>6 DEF EntriesKept

-----------------------------------------------------------------------------
(* Counting them.                                                          *)

(* Where two entries start tells them apart.                               *)
LEMMA StartsApart ==
    ASSUME NEW t \in Str, NEW e \in Entries(t), NEW f \in Entries(t), e.start = f.start
    PROVE  e = f
<1> SUFFICES ASSUME e # f PROVE FALSE
    OBVIOUS
<1>1. /\ e.start \in 3 .. (Len(t) + 1) /\ e.end \in e.start .. (Len(t) + 1)
      /\ f.start \in 3 .. (Len(t) + 1) /\ f.end \in f.start .. (Len(t) + 1) /\ Len(t) \in Nat
    BY EntryPlaced DEF Str
<1>2. e.end < f.start \/ f.end < e.start
    BY EntriesApart
<1>3. PICK a, b, c, d : a = e.start /\ b = e.end /\ c = f.start /\ d = f.end
    OBVIOUS
<1>4. a \in Nat /\ b \in Nat /\ a <= b /\ c \in Nat /\ d \in Nat /\ c <= d /\ a = c /\ (b < c \/ d < a)
    BY <1>1, <1>2, <1>3
<1> QED
    BY ONLY <1>4

LEMMA EntriesFinite ==
    ASSUME NEW t \in Str
    PROVE  IsFiniteSet(Entries(t))
<1>1. Len(t) \in Nat
    BY DEF Str
<1>2. PICK n : n = Len(t) + 1 /\ n \in Nat
    BY <1>1
<1> DEFINE F == [e \in Entries(t) |-> e.start]
<1>3. \A e \in Entries(t) : e.start \in 1 .. n
  <2>1. \A e \in Entries(t) : e.start \in 3 .. n
      BY <1>2, EntryPlaced
  <2>2. \A i \in 3 .. n : i \in 1 .. n
      BY <1>2
  <2> QED
      BY <2>1, <2>2
<1>4. F \in Injection(Entries(t), 1 .. n)
  <2>1. F \in [Entries(t) -> 1 .. n]
      BY <1>3
  <2>2. \A e, f \in Entries(t) : F[e] = F[f] => e = f
      BY StartsApart
  <2> HIDE DEF F
  <2> QED
      BY <2>1, <2>2 DEF Injection, IsInjective
<1>5. IsFiniteSet(1 .. n)
    BY <1>2, FS_Interval
<1> HIDE DEF F
<1> QED
    BY <1>4, <1>5, FS_Injection

(* A place of an entry is on the edge of what is replaced.                 *)
LEMMA StartsOnEdge ==
    ASSUME NEW t \in Str, NEW W \in SUBSET Entries(t), NEW e \in Entries(t)
    PROVE  Edge(W, e.start)
<1> SUFFICES ASSUME NEW f \in W, f.start < e.start, e.start < f.end PROVE FALSE
    BY DEF Edge
<1>1. f \in Entries(t)
    OBVIOUS
<1>2. /\ e.start \in 3 .. (Len(t) + 1) /\ e.end \in e.start .. (Len(t) + 1)
      /\ f.start \in 3 .. (Len(t) + 1) /\ f.end \in f.start .. (Len(t) + 1) /\ Len(t) \in Nat
    BY <1>1, EntryPlaced DEF Str
<1>3. PICK a, b, c, d : a = e.start /\ b = e.end /\ c = f.start /\ d = f.end
    OBVIOUS
<1>4. a \in Nat /\ b \in Nat /\ a <= b /\ c \in Nat /\ d \in Nat /\ c <= d /\ c < a /\ a < d
    BY <1>2, <1>3
<1>5. e # f
    BY ONLY <1>3, <1>4
<1>6. b < c \/ d < a
    BY <1>1, <1>3, <1>5, EntriesApart
<1> QED
    BY ONLY <1>4, <1>6

(* Entries keep their order.                                               *)
LEMMA StartsInOrder ==
    ASSUME NEW t, NEW u, NEW W, NEW g, Protects(t, u, W, g),
           NEW e \in Entries(t), NEW f \in Entries(t)
    PROVE  /\ g[e.start] \in Nat /\ g[f.start] \in Nat
           /\ e.start < f.start <=> g[e.start] < g[f.start]
           /\ g[e.start] = g[f.start] => e = f
<1>1. t \in Str /\ u \in Str /\ W \in SUBSET Entries(t) /\ Len(t) \in Nat /\ Follows(t, u, W, g, Len(t) + 1)
    BY DEF Protects, Str
<1>2. PICK n : n = Len(t) + 1 /\ n \in Nat
    BY <1>1
<1>3. \A i \in 1 .. n : g[i] \in Nat
    BY <1>1, <1>2 DEF Follows
<1>4. PICK a, b : a = e.start /\ b = f.start
    OBVIOUS
<1>5. a \in 1 .. n /\ b \in 1 .. n
  <2>1. a \in 3 .. n /\ b \in 3 .. n
      BY <1>1, <1>2, <1>4, EntryPlaced
  <2> QED
      BY ONLY <1>2, <2>1
<1>6. Edge(W, a) /\ Edge(W, b)
    BY <1>1, <1>4, StartsOnEdge
<1>7. a < b => g[a] < g[b]
  <2> SUFFICES ASSUME a < b PROVE g[a] < g[b]
      OBVIOUS
  <2>1. b \in (a + 1) .. n
      BY ONLY <1>2, <1>5, a < b
  <2> QED
      BY <1>1, <1>2, <1>5, <1>6, <2>1, FollowsOrder
<1>8. b < a => g[b] < g[a]
  <2> SUFFICES ASSUME b < a PROVE g[b] < g[a]
      OBVIOUS
  <2>1. a \in (b + 1) .. n
      BY ONLY <1>2, <1>5, b < a
  <2> QED
      BY <1>1, <1>2, <1>5, <1>6, <2>1, FollowsOrder
<1>9. a = b => e = f
    BY <1>1, <1>4, StartsApart
<1>10. PICK x, y : x = g[a] /\ y = g[b]
    OBVIOUS
<1>11. x \in Nat /\ y \in Nat /\ (a < b => x < y) /\ (b < a => y < x) /\ (a = b => x = y)
    BY <1>3, <1>5, <1>7, <1>8, <1>10
<1>12. (a < b <=> x < y) /\ (x = y => a = b)
    BY ONLY <1>2, <1>5, <1>11
<1> QED
    BY <1>4, <1>9, <1>10, <1>11, <1>12

(* Entries of the old text and their images are equally many.              *)
LEMMA AsMany ==
    ASSUME NEW t, NEW u, NEW W, NEW g, Protects(t, u, W, g),
           NEW S \in SUBSET Entries(t), NEW T \in SUBSET Entries(u),
           \A e \in S : \E f \in T : f.start = g[e.start],
           \A f \in T : \E e \in S : f.start = g[e.start]
    PROVE  Cardinality(T) = Cardinality(S)
<1>1. t \in Str /\ u \in Str
    BY DEF Protects
<1>2. IsFiniteSet(S)
    BY <1>1, EntriesFinite, FS_Subset
<1> DEFINE F == [e \in S |-> CHOOSE f \in T : f.start = g[e.start]]
<1>3. ASSUME NEW e \in S PROVE F[e] \in T /\ F[e].start = g[e.start]
    OBVIOUS
<1>4. F \in [S -> T]
    BY <1>3
<1> HIDE DEF F
<1>5. \A e, f \in S : F[e] = F[f] => e = f
  <2> SUFFICES ASSUME NEW e \in S, NEW f \in S, F[e] = F[f] PROVE e = f
      OBVIOUS
  <2>1. g[e.start] = g[f.start]
      BY <1>3
  <2>2. e \in Entries(t) /\ f \in Entries(t)
      OBVIOUS
  <2> QED
      BY <2>1, <2>2, StartsInOrder
<1>6. \A f \in T : \E e \in S : F[e] = f
  <2> SUFFICES ASSUME NEW f \in T PROVE \E e \in S : F[e] = f
      OBVIOUS
  <2>1. PICK e \in S : f.start = g[e.start]
      OBVIOUS
  <2>2. F[e] \in Entries(u) /\ f \in Entries(u) /\ F[e].start = f.start
      BY <1>3, <2>1
  <2>3. F[e] = f
      BY <1>1, <2>2, StartsApart
  <2> QED
      BY <2>3
<1>7. F \in Bijection(S, T)
  <2>1. F \in Injection(S, T)
      BY <1>4, <1>5 DEF Injection, IsInjective
  <2>2. F \in Surjection(S, T)
      BY <1>4, <1>6 DEF Surjection
  <2> QED
      BY <2>1, <2>2 DEF Bijection
<1>8. ExistsBijection(S, T)
    BY <1>7 DEF ExistsBijection
<1> QED
    BY <1>2, <1>8, FS_Bijection

(* An entry is as manieth as it was.                                       *)
LEMMA SameRank ==
    ASSUME NEW t, NEW u, NEW W, NEW g, Protects(t, u, W, g), EntriesKept(t, u, W, g),
           NEW e \in Entries(t), NEW f \in Entries(u), Image(W, g, e, f)
    PROVE  Rank(f, u) = Rank(e, t)
<1> DEFINE S == {h \in Entries(t) : h.start < e.start}
<1> DEFINE T == {h \in Entries(u) : h.start < f.start}
<1>1. f.start = g[e.start]
    BY DEF Image
<1>2. ASSUME NEW h \in S PROVE \E k \in T : k.start = g[h.start]
  <2>1. h \in Entries(t) /\ h.start < e.start
      OBVIOUS
  <2>2. PICK k \in Entries(u) : k.start = g[h.start]
      BY <2>1 DEF EntriesKept, Image
  <2>3. g[h.start] < g[e.start]
      BY <2>1, StartsInOrder
  <2>4. k.start < f.start
      BY <1>1, <2>2, <2>3
  <2> QED
      BY <2>2, <2>4
<1>3. ASSUME NEW k \in T PROVE \E h \in S : k.start = g[h.start]
  <2>1. k \in Entries(u) /\ k.start < f.start
      OBVIOUS
  <2>2. PICK h \in Entries(t) : k.start = g[h.start]
      BY <2>1 DEF EntriesKept, Image
  <2>3. g[h.start] < g[e.start]
      BY <1>1, <2>1, <2>2
  <2>4. h.start < e.start
      BY <2>2, <2>3, StartsInOrder
  <2> QED
      BY <2>2, <2>4
<1>4. S \in SUBSET Entries(t) /\ T \in SUBSET Entries(u)
    OBVIOUS
<1> HIDE DEF S, T
<1>5. Cardinality(T) = Cardinality(S)
    BY <1>2, <1>3, <1>4, AsMany
<1> QED
    BY <1>5 DEF S, T, Rank

(* How a finished run protects its text.                                   *)
LEMMA DoneProtects ==
    ASSUME IInv, phase = "done"
    PROVE  /\ ~Refused(text) /\ ~HasPlaceholder(text)
           /\ SealedOf = {e \in Entries(text) : Wanted(e)}
           /\ \A e \in Entries(text) : ~Malformed(e)
           /\ \E g : Protects(text, out, SealedOf, g) /\ plain = PlainOf(SealedOf, g)
<1>1. /\ text \in Str /\ out \in Str /\ dealt = Entries(text) /\ Followed /\ Reached = Len(text) + 1
      /\ ~Refused(text) /\ ~HasPlaceholder(text) /\ \A e \in dealt : ~Malformed(e)
    BY DEF IInv, TypeInv, Reached
<1>2. PICK g : Follows(text, out, SealedOf, g, Len(text) + 1) /\ plain = PlainOf(SealedOf, g)
    BY <1>1 DEF Followed
<1>3. SealedOf = {e \in Entries(text) : Wanted(e)}
    BY <1>1 DEF SealedOf
<1>4. ASSUME NEW e \in SealedOf PROVE e.value # << >>
  <2>1. Wanted(e) /\ ~Malformed(e)
      BY <1>1, <1>3
  <2>2. Fails(TRUE, e.key, e.value) => e.value # << >>
      BY <2>1, Zenon DEF Malformed, Fails
  <2> QED
      BY <2>1, <2>2, Zenon DEF Wanted
<1> QED
    BY <1>1, <1>2, <1>3, <1>4 DEF Protects

LEMMA OpensToOld ==
    ASSUME NEW g, Protects(text, out, SealedOf, g), plain = PlainOf(SealedOf, g),
           NEW e \in Entries(text), NEW f, Image(SealedOf, g, e, f)
    PROVE  Opens(f) = {e.value}
<1> DEFINE sealed == {p \in plain : p.at = f.start}
<1>1. f.start = g[e.start]
    BY DEF Image
<1>2. SealedOf \subseteq Entries(text)
    BY DEF Protects
<1>3. ASSUME NEW p \in sealed PROVE e \in SealedOf /\ p.value = e.value
  <2>1. PICK h \in SealedOf : p = [at |-> g[h.start], value |-> h.value]
      BY DEF PlainOf
  <2>2. g[h.start] = g[e.start] /\ p.value = h.value
      BY <1>1, <2>1
  <2>3. h = e
      BY <1>2, <2>2, StartsInOrder
  <2> QED
      BY <2>2, <2>3
<1>4. CASE e \in SealedOf
  <2>1. PICK p \in plain : p = [at |-> g[e.start], value |-> e.value]
      BY <1>4 DEF PlainOf
  <2>2. p \in sealed /\ p.value = e.value
      BY <1>1, <2>1
  <2> HIDE DEF sealed
  <2>3. {p2.value : p2 \in sealed} = {e.value} /\ sealed # {}
      BY <1>3, <2>2
  <2> QED
      BY <2>3 DEF Opens, sealed
<1>5. CASE e \notin SealedOf
  <2>1. f.value = e.value
      BY <1>5 DEF Image
  <2>2. sealed = {}
      BY <1>3, <1>5
  <2> QED
      BY <2>1, <2>2 DEF Opens
<1> QED
    BY <1>4, <1>5

(* What exec reads from the new file is what it read from the old one: the *)
(* same names in the same order, each value the same or a reference that   *)
(* opens to it (protect.rs:48-52), for every text.                         *)
THEOREM SealsReadBack == Spec => []ReadsBack
<1>1. IInv => ReadsBack
  <2> SUFFICES ASSUME IInv, phase = "done"
               PROVE  /\ ~Refused(out)
                      /\ Cardinality(Entries(out)) = Cardinality(Entries(text))
                      /\ \A e \in Entries(text) : \E f \in Entries(out) :
                          /\ Rank(f, out) = Rank(e, text)
                          /\ f.key = e.key
                          /\ Opens(f) = {e.value}
                          /\ Wanted(e) => f.value = SEALED
      BY DEF ReadsBack
  <2>1. PICK g : Protects(text, out, SealedOf, g) /\ plain = PlainOf(SealedOf, g)
      BY DoneProtects
  <2>2. ~Refused(text) /\ SealedOf = {e \in Entries(text) : Wanted(e)}
      BY DoneProtects
  <2>3. EntriesKept(text, out, SealedOf, g)
      BY <2>1, <2>2, EntryImages
  <2>4. Cardinality(Entries(out)) = Cardinality(Entries(text))
    <3>1. \A e \in Entries(text) : \E f \in Entries(out) : f.start = g[e.start]
        BY <2>3 DEF EntriesKept, Image
    <3>2. \A f \in Entries(out) : \E e \in Entries(text) : f.start = g[e.start]
        BY <2>3 DEF EntriesKept, Image
    <3> QED
        BY <2>1, <3>1, <3>2, AsMany
  <2>5. ASSUME NEW e \in Entries(text)
        PROVE  \E f \in Entries(out) :
                  /\ Rank(f, out) = Rank(e, text)
                  /\ f.key = e.key
                  /\ Opens(f) = {e.value}
                  /\ Wanted(e) => f.value = SEALED
    <3>1. PICK f \in Entries(out) : Image(SealedOf, g, e, f)
        BY <2>3 DEF EntriesKept
    <3>2. Rank(f, out) = Rank(e, text)
        BY <2>1, <2>3, <3>1, SameRank
    <3>3. Opens(f) = {e.value}
        BY <2>1, <3>1, OpensToOld
    <3>4. f.key = e.key /\ (Wanted(e) => f.value = SEALED)
        BY <2>2, <3>1, Zenon DEF Image
    <3> QED
        BY <3>1, <3>2, <3>3, <3>4
  <2> QED
      BY <2>3, <2>4, <2>5 DEF EntriesKept
<1> QED
    BY <1>1, LoopInvariant, PTL

-----------------------------------------------------------------------------
(* What is around a value.                                                 *)

Edged == Blank \cup Quote

Opened == Quote \cup {"="}

(* What is around a value: behind it a blank or a quote, before it a quote *)
(* or "=", blanks in between.                                              *)
LEMMA AroundEntry ==
    ASSUME NEW t \in Str, NEW e \in Entries(t)
    PROVE  /\ e.end <= Len(t) => t[e.end] \in Edged
           /\ \E z \in 1 .. (e.start - 1) :
                 t[z] \in Opened /\ \A j \in (z + 1) .. (e.start - 1) : t[j] \in Blank
<1>1. PICK i, c, q, b, v : Written(t, i, e, c, q, b, v)
    BY EntryWritten
<1>2. PICK l, n : l = Line(t, i) /\ n = Len(Line(t, i))
    OBVIOUS
<1>3. /\ WrittenAt(t, i, n, e, c, q, b, v) /\ l \in Str /\ Rest(l, b) \in Str /\ Placed(Rest(l, b), v)
    BY <1>1, <1>2, WrittenPlaces
<1>4. PICK x, y, x1, y1 : x = v.start /\ y = v.end /\ x1 = e.start /\ y1 = e.end
    OBVIOUS
<1>5. /\ Len(t) \in Nat /\ i \in 1 .. Len(t) /\ n \in Nat /\ i + n <= Len(t) + 1
      /\ c \in 1 .. n /\ q \in (c + 1) .. n /\ b \in (q + 1) .. (n + 1)
      /\ x \in 1 .. 2 /\ y \in x .. (n - b + 2)
      /\ x1 = (i - 1) + (b - 1) + x /\ y1 = (i - 1) + (b - 1) + y
    BY <1>3, <1>4 DEF WrittenAt
<1>6. /\ n = Len(l) /\ \A j \in 1 .. n : l[j] = t[i + j - 1]
      /\ i + n <= Len(t) => t[i + n] \in Blank
  <2>1. LinePlace(t, i, l)
      BY <1>2, <1>5, LinePlaced
  <2> QED
      BY <1>2, <2>1 DEF LinePlace
<1>7. PICK body : body = Rest(l, b)
    OBVIOUS
<1>8. Len(body) = n - b + 1 /\ \A k \in 1 .. (n - b + 1) : body[k] = l[b + k - 1]
  <2>1. l \in Seq(Symbol) /\ Len(l) \in Nat /\ b \in 1 .. (Len(l) + 1)
      BY <1>3, <1>5, <1>6 DEF Str
  <2>2. body \in Seq(Symbol) /\ Len(body) = Len(l) - b + 1 /\ \A k \in 1 .. (Len(l) - b + 1) : body[k] = l[b + k - 1]
      BY ONLY <2>1, <1>7, RestIs
  <2> QED
      BY <1>6, <2>2
<1>9. ASSUME NEW k \in 1 .. (n - b + 1) PROVE body[k] = t[i + b + k - 2]
  <2>1. b + k - 1 \in 1 .. n /\ i + (b + k - 1) - 1 = i + b + k - 2
      BY ONLY <1>5, k \in 1 .. (n - b + 1)
  <2> QED
      BY <1>6, <1>8, <2>1
<1>10. ASSUME y1 <= Len(t) PROVE t[y1] \in Edged
  <2>1. CASE y <= n - b + 1
    <3>1. y \in 1 .. (n - b + 1) /\ i + b + y - 2 = y1
        BY ONLY <2>1, <1>5
    <3>2. body[y] \in Blank \/ body[y] \in Quote
        BY <1>3, <1>4, <1>7, <1>8, <2>1, Zenon DEF Placed
    <3>3. body[y] = t[y1]
        BY <1>9, <3>1
    <3> QED
        BY <3>2, <3>3 DEF Edged
  <2>2. CASE ~(y <= n - b + 1)
    <3>1. y1 = i + n
        BY ONLY <2>2, <1>5
    <3> QED
        BY <1>6, <1>10, <3>1 DEF Edged
  <2> QED
      BY <2>1, <2>2
<1>11. CASE x = 2
  <2>1. 1 \in 1 .. (n - b + 1) /\ i + b + 1 - 2 = x1 - 1
      BY ONLY <1>11, <1>5
  <2>2. body[1] \in Quote
    <3>1. v.start = 2 /\ 2 # 1
        BY <1>4, <1>11
    <3> QED
        BY <1>3, <1>7, <3>1, Zenon DEF Placed
  <2>3. t[x1 - 1] \in Opened
      BY <1>9, <2>1, <2>2 DEF Opened
  <2>4. x1 - 1 \in 1 .. (x1 - 1) /\ \A j \in ((x1 - 1) + 1) .. (x1 - 1) : FALSE
      BY ONLY <1>5, <1>11
  <2> QED
      BY <1>4, <1>10, <2>3, <2>4
<1>12. CASE x = 1
  <2>1. EqAt(l, c, q) /\ BlanksTo(l, q + 1, b)
      BY <1>1, <1>2, Zenon DEF Written, Assigns
  <2>2. l[q] = "=" /\ \A j \in (q + 1) .. (b - 1) : l[j] \in Blank
      BY <2>1, Zenon DEF EqAt, BlanksTo
  <2>3. PICK z : z = i + q - 1
      OBVIOUS
  <2>4. q \in 1 .. n /\ i + q - 1 = z /\ z \in 1 .. (x1 - 1)
      BY ONLY <1>5, <1>12, <2>3
  <2>5. t[z] \in Opened
    <3>1. l[q] = t[z]
        BY <1>6, <2>4
    <3>2. "=" \in Opened
        BY Zenon DEF Opened
    <3> QED
        BY <2>2, <3>1, <3>2
  <2>6. ASSUME NEW j \in (z + 1) .. (x1 - 1) PROVE t[j] \in Blank
    <3>1. PICK k : k = j - i + 1
        OBVIOUS
    <3>2. k \in (q + 1) .. (b - 1) /\ k \in 1 .. n /\ i + k - 1 = j
        BY ONLY <1>5, <1>12, <2>3, <3>1, j \in (z + 1) .. (x1 - 1)
    <3> QED
        BY <1>6, <2>2, <3>2
  <2> QED
      BY <1>4, <1>10, <2>4, <2>5, <2>6
<1> QED
    BY <1>5, <1>11, <1>12

(* No brace is around a value or in SEALED.                                *)
LEMMA BracesApart ==
    /\ "{" \notin Edged /\ "{" \notin Opened /\ "{" \notin Blank
    /\ \A s \in Blank : s \notin Opened
    /\ \A k \in 1 .. 3 : SEALED[k] # "{" /\ SEALED[k] # "}" /\ SEALED[k] \notin Blank
    /\ "seal" \notin Blank /\ "seal" # "{" /\ "seal" # "}" /\ ":" # "}" /\ ":" \notin Blank /\ "}" \notin Blank
    /\ "seal" # ":"
<1>1. /\ "{" \notin Edged /\ "{" \notin Opened /\ "{" \notin Blank
      /\ \A s \in Blank : s \notin Opened
    BY DEF Edged, Opened, Blank, Quote
<1>2. \A k \in 1 .. 3 : SEALED[k] # "{" /\ SEALED[k] # "}" /\ SEALED[k] \notin Blank
    BY SealedIs
<1>3. /\ "seal" \notin Blank /\ "seal" # "{" /\ "seal" # "}" /\ ":" # "}" /\ ":" \notin Blank /\ "}" \notin Blank
      /\ "seal" # ":"
    BY DEF Blank
<1> QED
    BY <1>1, <1>2, <1>3

(* Behind what is copied comes what is copied or SEALED.                   *)
LEMMA NextKept ==
    ASSUME NEW t, NEW u, NEW W, NEW g, Protects(t, u, W, g),
           NEW i \in 1 .. Len(t), ~Covered(W, i), g[i] + 1 <= Len(u)
    PROVE  /\ i + 1 \in 1 .. Len(t) /\ g[i + 1] = g[i] + 1
           /\ \/ ~Covered(W, i + 1) /\ u[g[i] + 1] = t[i + 1]
              \/ \E e \in W : e.start = i + 1 /\ u[g[i] + 1] = SEALED[1]
<1>1. /\ Len(t) \in Nat /\ Len(u) \in Nat /\ g[i + 1] = g[i] + 1 /\ g[Len(t) + 1] = Len(u) + 1
      /\ \A k \in 1 .. Len(t) : ~Covered(W, k) => u[g[k]] = t[k]
      /\ \A e \in W : SealedAt(u, g[e.start]) /\ e.start \in 3 .. Len(t)
    BY ProtectsNumbers
<1>2. i + 1 \in 1 .. Len(t)
  <2> SUFFICES ASSUME i = Len(t) PROVE FALSE
      BY <1>1
  <2>1. g[i] + 1 = Len(u) + 1
      BY <1>1
  <2> QED
      BY <1>1, <2>1
<1>3. ASSUME Covered(W, i + 1) PROVE \E e \in W : e.start = i + 1 /\ u[g[i] + 1] = SEALED[1]
  <2>1. PICK e \in W : e.start <= i + 1 /\ i + 1 < e.end
      BY <1>3 DEF Covered
  <2>2. ~(e.start <= i /\ i < e.end)
      BY DEF Covered
  <2>3. PICK a, d : a = e.start /\ d = e.end
      OBVIOUS
  <2>4. /\ a \in 3 .. Len(t) /\ d \in (a + 1) .. (Len(t) + 1) /\ a <= i + 1 /\ i + 1 < d /\ ~(a <= i /\ i < d)
      BY <2>1, <2>2, <2>3, ProtectsNumbers
  <2>5. a = i + 1
      BY ONLY <2>4, <1>1, i \in 1 .. Len(t)
  <2>6. SealedAt(u, g[i] + 1)
      BY <1>1, <2>3, <2>5
  <2>7. g[i] + 1 + 1 - 1 = g[i] + 1 /\ 1 \in 1 .. 3
    <3>1. g[i] \in Nat
      <4>1. i \in 1 .. (Len(t) + 1)
          BY <1>1
      <4> QED
          BY <4>1, ProtectsNumbers
    <3> QED
        BY <3>1
  <2>8. u[g[i] + 1] = SEALED[1]
      BY <2>6, <2>7 DEF SealedAt
  <2> QED
      BY <2>3, <2>5, <2>8
<1> QED
    BY <1>1, <1>2, <1>3

(* Before a brace that is copied comes what is copied.                     *)
LEMMA BeforeBrace ==
    ASSUME NEW t, NEW u, NEW W, NEW g, Protects(t, u, W, g),
           NEW i \in 2 .. Len(t), ~Covered(W, i), t[i] = "{"
    PROVE  ~Covered(W, i - 1)
<1> SUFFICES ASSUME Covered(W, i - 1) PROVE FALSE
    OBVIOUS
<1>1. t \in Str /\ W \subseteq Entries(t) /\ Len(t) \in Nat
    BY ProtectsNumbers DEF Protects
<1>2. PICK e \in W : e.start <= i - 1 /\ i - 1 < e.end
    BY DEF Covered
<1>3. ~(e.start <= i /\ i < e.end)
    BY DEF Covered
<1>4. PICK a, d : a = e.start /\ d = e.end
    OBVIOUS
<1>5. /\ a \in 3 .. Len(t) /\ d \in (a + 1) .. (Len(t) + 1) /\ a <= i - 1 /\ i - 1 < d /\ ~(a <= i /\ i < d)
    BY <1>2, <1>3, <1>4, ProtectsNumbers
<1>6. d = i /\ d <= Len(t)
    BY ONLY <1>1, <1>5, i \in 2 .. Len(t)
<1>7. t[d] \in Edged
    BY <1>1, <1>4, <1>6, AroundEntry
<1> QED
    BY <1>6, <1>7, BracesApart

-----------------------------------------------------------------------------
(* Placeholders, said of positions.                                        *)

LBrace == "{"
RBrace == "}"
SealMark == "seal"
Colon == ":"

LEMMA MarksAre ==
    /\ LBrace \in Symbol /\ RBrace \in Symbol /\ SealMark \in Symbol /\ Colon \in Symbol
    /\ LBrace \notin Edged /\ LBrace \notin Opened /\ LBrace \notin Blank
    /\ \A s \in Blank : s \notin Opened
    /\ \A k \in 1 .. 3 : SEALED[k] # LBrace /\ SEALED[k] # RBrace /\ SEALED[k] \notin Blank
    /\ SEALED[1] = SealMark /\ SEALED[2] = Colon
    /\ SealMark \notin Blank /\ Colon \notin Blank /\ RBrace \notin Blank
    /\ SealMark # LBrace /\ SealMark # RBrace /\ Colon # RBrace /\ SealMark # Colon
<1>1. /\ LBrace \in Symbol /\ RBrace \in Symbol /\ SealMark \in Symbol /\ Colon \in Symbol
    BY Zenon DEF Symbol, LBrace, RBrace, SealMark, Colon
<1>2. SEALED[1] = SealMark /\ SEALED[2] = Colon
    BY SealedIs DEF SealMark, Colon
<1> QED
    BY <1>1, <1>2, BracesApart DEF LBrace, RBrace, SealMark, Colon

LEMMA WordsAre ==
    /\ OPEN \in Seq(Symbol) /\ Len(OPEN) = 2 /\ OPEN[1] = LBrace /\ OPEN[2] = LBrace
    /\ CLOSE \in Seq(Symbol) /\ Len(CLOSE) = 2 /\ CLOSE[1] = RBrace /\ CLOSE[2] = RBrace
    /\ \E w : /\ \A y : IsReference(y) <=> At(w, y, 1)
              /\ w \in Seq(Symbol) /\ Len(w) = 2 /\ w[1] = SealMark /\ w[2] = Colon
<1>1. OPEN = <<LBrace, LBrace>> /\ CLOSE = <<RBrace, RBrace>>
    BY DEF OPEN, CLOSE, LBrace, RBrace
<1>2. PICK w : w = <<SealMark, Colon>>
    OBVIOUS
<1>3. \A y : IsReference(y) <=> At(w, y, 1)
    BY <1>2, Zenon DEF IsReference, SealMark, Colon
<1>4. w \in Seq(Symbol) /\ Len(w) = 2 /\ w[1] = SealMark /\ w[2] = Colon
    BY <1>2, MarksAre
<1>5. OPEN \in Seq(Symbol) /\ Len(OPEN) = 2 /\ OPEN[1] = LBrace /\ OPEN[2] = LBrace
    BY <1>1, MarksAre
<1>6. CLOSE \in Seq(Symbol) /\ Len(CLOSE) = 2 /\ CLOSE[1] = RBrace /\ CLOSE[2] = RBrace
    BY <1>1, MarksAre
<1> QED
    BY <1>3, <1>4, <1>5, <1>6

LEMMA ReferenceIs ==
    ASSUME NEW y \in Seq(Symbol)
    PROVE  IsReference(y) <=> 2 <= Len(y) /\ y[1] = SealMark /\ y[2] = Colon
<1>1. PICK w : /\ \A z : IsReference(z) <=> At(w, z, 1)
               /\ w \in Seq(Symbol) /\ Len(w) = 2 /\ w[1] = SealMark /\ w[2] = Colon
    BY WordsAre
<1>2. 1 \in Nat \ {0} /\ 1 + 1 = 2
    OBVIOUS
<1>3. At(w, y, 1) <=> 1 + 1 <= Len(y) /\ y[1] = w[1] /\ y[1 + 1] = w[2]
  <2>1. w \in Seq(Symbol) /\ Len(w) = 2 /\ y \in Seq(Symbol)
      BY <1>1
  <2> QED
      BY ONLY <2>1, <1>2, PairAt
<1> QED
    BY <1>1, <1>2, <1>3

(* A reference begins behind the blanks of x.                              *)
RefersAt(x, a) ==
    /\ a \in 1 .. (Len(x) - 1)
    /\ \A j \in 1 .. (a - 1) : x[j] \in Blank
    /\ x[a] = SealMark /\ x[a + 1] = Colon

LEMMA TrimmedReference ==
    ASSUME NEW x \in Seq(Symbol)
    PROVE  IsReference(Trim(x)) <=> \E a : RefersAt(x, a)
<1>1. Len(x) \in Nat /\ 1 \in 1 .. (Len(x) + 1)
    OBVIOUS
<1>2. \/ \A j \in 1 .. Len(x) : x[j] \in Blank
      \/ \E a, b : Core(x, 1, a, b)
    BY ONLY <1>1, x \in Seq(Symbol), CoreOrBlank
<1>3. CASE \A j \in 1 .. Len(x) : x[j] \in Blank
  <2>1. Trim(SubSeq(x, 1, Len(x))) = << >>
      BY ONLY <1>1, <1>3, x \in Seq(Symbol), TrimOfBlank
  <2>2. SubSeq(x, 1, Len(x)) = x
    <3>1. PICK y : y = SubSeq(x, 1, Len(x))
        OBVIOUS
    <3>2. Len(x) \in 0 .. Len(x)
        BY <1>1
    <3>3. y \in Seq(Symbol) /\ Len(y) = Len(x) /\ \A n \in 1 .. Len(x) : y[n] = x[n]
        BY ONLY <3>1, <3>2, x \in Seq(Symbol), Divided
    <3>4. y = x
        BY ONLY <3>3, x \in Seq(Symbol), SeqEqual
    <3> QED
        BY <3>1, <3>4
  <2>3. PICK y : y = Trim(x)
      OBVIOUS
  <2>4. y \in Seq(Symbol) /\ Len(y) = 0
    <3>1. y = << >>
        BY <2>1, <2>2, <2>3
    <3>2. << >> \in Seq(Symbol) /\ Len(<< >>) = 0
        OBVIOUS
    <3> QED
        BY <3>1, <3>2
  <2>5. ~IsReference(y)
    <3>1. ~(2 <= Len(y))
        BY ONLY <2>4
    <3> QED
        BY <2>4, <3>1, ReferenceIs
  <2>6. ASSUME NEW a, RefersAt(x, a) PROVE FALSE
    <3>1. a \in 1 .. (Len(x) - 1) /\ x[a] = SealMark
        BY <2>6 DEF RefersAt
    <3>2. a \in 1 .. Len(x)
        BY ONLY <1>1, <3>1
    <3> QED
        BY <1>3, <3>1, <3>2, MarksAre
  <2> QED
      BY <2>3, <2>5, <2>6
<1>4. CASE \E a, b : Core(x, 1, a, b)
  <2>1. PICK a, b : Core(x, 1, a, b)
      BY <1>4
  <2>2. /\ a \in 1 .. Len(x) /\ b \in a .. Len(x)
        /\ \A j \in 1 .. (a - 1) : x[j] \in Blank
        /\ x[a] \notin Blank /\ \A j \in (b + 1) .. Len(x) : x[j] \in Blank
      BY <2>1 DEF Core
  <2>3. Trim(x) = SubSeq(x, a, b)
      BY <2>1, TrimIsCore
  <2>4. PICK y : y = SubSeq(x, a, b)
      OBVIOUS
  <2>5. y \in Seq(Symbol) /\ Len(y) = b - a + 1 /\ \A n \in 1 .. (b - a + 1) : y[n] = x[a + n - 1]
    <3>1. a \in 1 .. (Len(x) + 1) /\ b + 1 \in a .. (Len(x) + 1) /\ (b + 1) - 1 = b /\ (b + 1) - a = b - a + 1
        BY ONLY <1>1, <2>2
    <3>2. y = Slice(x, a, b + 1)
        BY <2>4, <3>1 DEF Slice
    <3>3. y \in Seq(Symbol) /\ Len(y) = (b + 1) - a /\ \A n \in 1 .. ((b + 1) - a) : y[n] = x[a + n - 1]
        BY ONLY <3>1, <3>2, x \in Seq(Symbol), SliceIs, ZenonT(40)
    <3> QED
        BY <3>1, <3>3
  <2>6. IsReference(y) <=> 2 <= Len(y) /\ y[1] = SealMark /\ y[2] = Colon
      BY <2>5, ReferenceIs
  <2>7. 2 <= Len(y) <=> a + 1 <= b
      BY ONLY <1>1, <2>2, <2>5
  <2>8. a + 1 <= b => y[1] = x[a] /\ y[2] = x[a + 1]
    <3>1. a + 1 <= b => 1 \in 1 .. (b - a + 1) /\ 2 \in 1 .. (b - a + 1)
        BY ONLY <1>1, <2>2
    <3>2. a + 1 - 1 = a /\ a + 2 - 1 = a + 1
        BY ONLY <2>2
    <3> QED
        BY <2>5, <3>1, <3>2
  <2>9. ASSUME IsReference(y) PROVE RefersAt(x, a)
    <3>1. a + 1 <= b /\ x[a] = SealMark /\ x[a + 1] = Colon
        BY <2>6, <2>7, <2>8, <2>9
    <3>2. a \in 1 .. (Len(x) - 1)
        BY ONLY <1>1, <2>2, <3>1
    <3> QED
        BY <2>2, <3>1, <3>2 DEF RefersAt
  <2>10. ASSUME NEW k, RefersAt(x, k) PROVE IsReference(y)
    <3>1. /\ k \in 1 .. (Len(x) - 1) /\ \A j \in 1 .. (k - 1) : x[j] \in Blank
          /\ x[k] = SealMark /\ x[k + 1] = Colon
        BY <2>10 DEF RefersAt
    <3>2. ~(a \in 1 .. (k - 1)) /\ ~(k \in 1 .. (a - 1)) /\ ~(k + 1 \in (b + 1) .. Len(x))
        BY <2>2, <3>1, MarksAre
    <3>3. k = a /\ a + 1 <= b
        BY ONLY <1>1, <2>2, <3>1, <3>2
    <3> QED
        BY <2>6, <2>7, <2>8, <3>1, <3>3
  <2> QED
      BY <2>3, <2>4, <2>9, <2>10
<1> QED
    BY <1>2, <1>3, <1>4

(* A placeholder begins at i, its reference at a, and it closes at E.      *)
OccursAt(t, i, a, E) ==
    /\ i \in Nat \ {0} /\ E \in Nat /\ E + 1 <= Len(t) /\ a \in (i + 2) .. (E - 2)
    /\ t[i] = LBrace /\ t[i + 1] = LBrace
    /\ \A j \in (i + 2) .. (a - 1) : t[j] \in Blank
    /\ t[a] = SealMark /\ t[a + 1] = Colon
    /\ t[E] = RBrace /\ t[E + 1] = RBrace
    /\ \A j \in (i + 2) .. (E - 1) : ~(t[j] = RBrace /\ t[j + 1] = RBrace)

LEMMA ClosesAt ==
    ASSUME NEW t \in Str, NEW i \in Nat \ {0}
    PROVE  /\ At(OPEN, t, i) <=> i + 1 <= Len(t) /\ t[i] = LBrace /\ t[i + 1] = LBrace
           /\ At(CLOSE, t, i) <=> i + 1 <= Len(t) /\ t[i] = RBrace /\ t[i + 1] = RBrace
<1>1. t \in Seq(Symbol)
    BY DEF Str
<1>2. At(OPEN, t, i) <=> i + 1 <= Len(t) /\ t[i] = OPEN[1] /\ t[i + 1] = OPEN[2]
  <2>1. OPEN \in Seq(Symbol) /\ Len(OPEN) = 2
      BY WordsAre
  <2> QED
      BY ONLY <1>1, <2>1, i \in Nat \ {0}, PairAt
<1>3. At(CLOSE, t, i) <=> i + 1 <= Len(t) /\ t[i] = CLOSE[1] /\ t[i + 1] = CLOSE[2]
  <2>1. CLOSE \in Seq(Symbol) /\ Len(CLOSE) = 2
      BY WordsAre
  <2> QED
      BY ONLY <1>1, <2>1, i \in Nat \ {0}, PairAt
<1> QED
    BY <1>2, <1>3, WordsAre

LEMMA OccursIs ==
    ASSUME NEW t \in Str, NEW i \in Nat \ {0}
    PROVE  Occurs(t, i) <=> \E a, E : OccursAt(t, i, a, E)
<1>1. t \in Seq(Symbol) /\ Len(t) \in Nat
    BY DEF Str
<1>2. Occurs(t, i) <=>
        /\ At(OPEN, t, i)
        /\ \E E \in 1 .. Len(t) : First(CLOSE, t, i + 2, E) /\ IsReference(Trim(Slice(t, i + 2, E)))
  <2>1. Len(OPEN) = 2
      BY WordsAre
  <2> QED
      BY <2>1, Zenon DEF Occurs
<1>3. At(OPEN, t, i) <=> i + 1 <= Len(t) /\ t[i] = LBrace /\ t[i + 1] = LBrace
    BY ClosesAt
<1>4. ASSUME NEW j \in (i + 2) .. Len(t)
      PROVE  At(CLOSE, t, j) <=> j + 1 <= Len(t) /\ t[j] = RBrace /\ t[j + 1] = RBrace
  <2>1. j \in Nat \ {0}
      OBVIOUS
  <2> QED
      BY <2>1, ClosesAt
<1>5. ASSUME NEW E \in (i + 2) .. Len(t)
      PROVE  IsReference(Trim(Slice(t, i + 2, E))) <=>
               \E a \in (i + 2) .. (E - 2) :
                  /\ \A j \in (i + 2) .. (a - 1) : t[j] \in Blank
                  /\ t[a] = SealMark /\ t[a + 1] = Colon
  <2>1. PICK x : x = Slice(t, i + 2, E)
      OBVIOUS
  <2>2. i + 2 \in 1 .. (Len(t) + 1) /\ E \in (i + 2) .. (Len(t) + 1)
      BY ONLY <1>1, i \in Nat \ {0}, E \in (i + 2) .. Len(t)
  <2>3. x \in Seq(Symbol) /\ Len(x) = E - (i + 2) /\ \A k \in 1 .. (E - (i + 2)) : x[k] = t[(i + 2) + k - 1]
    <3>1. PICK s : s = i + 2
        OBVIOUS
    <3>2. t \in Seq(Symbol) /\ s \in 1 .. (Len(t) + 1) /\ E \in s .. (Len(t) + 1) /\ x = Slice(t, s, E)
        BY <1>1, <2>1, <2>2, <3>1
    <3>3. x \in Seq(Symbol) /\ Len(x) = E - s /\ \A k \in 1 .. (E - s) : x[k] = t[s + k - 1]
        BY ONLY <3>2, SliceIs, ZenonT(40)
    <3> QED
        BY <3>1, <3>3
  <2>4. IsReference(Trim(x)) <=> \E k : RefersAt(x, k)
      BY <2>3, TrimmedReference
  <2>5. ASSUME NEW k, RefersAt(x, k)
        PROVE  \E a \in (i + 2) .. (E - 2) :
                  /\ \A j \in (i + 2) .. (a - 1) : t[j] \in Blank
                  /\ t[a] = SealMark /\ t[a + 1] = Colon
    <3>1. /\ k \in 1 .. (Len(x) - 1) /\ \A j \in 1 .. (k - 1) : x[j] \in Blank
          /\ x[k] = SealMark /\ x[k + 1] = Colon
        BY <2>5 DEF RefersAt
    <3>2. PICK a : a = i + 1 + k
        OBVIOUS
    <3>3. /\ a \in (i + 2) .. (E - 2) /\ (i + 2) + k - 1 = a /\ (i + 2) + (k + 1) - 1 = a + 1
          /\ k \in 1 .. (E - (i + 2)) /\ k + 1 \in 1 .. (E - (i + 2))
        BY ONLY <2>2, <2>3, <3>1, <3>2, i \in Nat \ {0}, <1>1
    <3>4. ASSUME NEW j \in (i + 2) .. (a - 1) PROVE t[j] \in Blank
      <4>1. PICK m : m = j - i - 1
          OBVIOUS
      <4>2. m \in 1 .. (k - 1) /\ m \in 1 .. (E - (i + 2)) /\ (i + 2) + m - 1 = j
          BY ONLY <4>1, <3>2, <3>3, j \in (i + 2) .. (a - 1), i \in Nat \ {0}, <2>2, <1>1, <3>1, <2>3
      <4> QED
          BY <2>3, <3>1, <4>2
    <3> QED
        BY <2>3, <3>1, <3>3, <3>4
  <2>6. ASSUME NEW a \in (i + 2) .. (E - 2),
               \A j \in (i + 2) .. (a - 1) : t[j] \in Blank, t[a] = SealMark, t[a + 1] = Colon
        PROVE  \E k : RefersAt(x, k)
    <3>1. PICK k : k = a - i - 1
        OBVIOUS
    <3>2. /\ k \in 1 .. (Len(x) - 1) /\ (i + 2) + k - 1 = a /\ (i + 2) + (k + 1) - 1 = a + 1
          /\ k \in 1 .. (E - (i + 2)) /\ k + 1 \in 1 .. (E - (i + 2))
        BY ONLY <1>1, <2>2, <2>3, <3>1, a \in (i + 2) .. (E - 2), i \in Nat \ {0}
    <3>3. x[k] = SealMark /\ x[k + 1] = Colon
        BY <2>3, <2>6, <3>2
    <3>4. ASSUME NEW m \in 1 .. (k - 1) PROVE x[m] \in Blank
      <4>1. (i + 2) + m - 1 \in (i + 2) .. (a - 1) /\ m \in 1 .. (E - (i + 2))
          BY ONLY <1>1, <2>2, <3>1, <3>2, m \in 1 .. (k - 1), i \in Nat \ {0}
      <4> QED
          BY <2>3, <2>6, <4>1
    <3> QED
        BY <3>2, <3>3, <3>4 DEF RefersAt
  <2> QED
      BY <2>1, <2>4, <2>5, <2>6
<1>6. ASSUME NEW E \in 1 .. Len(t), First(CLOSE, t, i + 2, E), At(OPEN, t, i),
             IsReference(Trim(Slice(t, i + 2, E)))
      PROVE  \E a : OccursAt(t, i, a, E)
  <2>1. E \in (i + 2) .. Len(t) /\ At(CLOSE, t, E) /\ \A j \in (i + 2) .. (E - 1) : ~At(CLOSE, t, j)
      BY <1>6 DEF First
  <2>2. E + 1 <= Len(t) /\ t[E] = RBrace /\ t[E + 1] = RBrace
      BY <1>4, <2>1
  <2>3. \A j \in (i + 2) .. (E - 1) : j \in (i + 2) .. Len(t) /\ j + 1 <= Len(t)
      BY ONLY <1>1, <2>1, i \in Nat \ {0}
  <2>4. \A j \in (i + 2) .. (E - 1) : ~(t[j] = RBrace /\ t[j + 1] = RBrace)
      BY <1>4, <2>1, <2>3
  <2>5. PICK a \in (i + 2) .. (E - 2) :
               /\ \A j \in (i + 2) .. (a - 1) : t[j] \in Blank
               /\ t[a] = SealMark /\ t[a + 1] = Colon
      BY <1>5, <1>6, <2>1
  <2>6. E \in Nat
      BY <1>1
  <2> QED
      BY <1>3, <1>6, <2>2, <2>4, <2>5, <2>6 DEF OccursAt
<1>7. ASSUME NEW a, NEW E, OccursAt(t, i, a, E)
      PROVE  /\ At(OPEN, t, i) /\ E \in 1 .. Len(t) /\ First(CLOSE, t, i + 2, E)
             /\ IsReference(Trim(Slice(t, i + 2, E)))
  <2>1. /\ i \in Nat \ {0} /\ E \in Nat /\ E + 1 <= Len(t) /\ a \in (i + 2) .. (E - 2)
        /\ t[i] = LBrace /\ t[i + 1] = LBrace
        /\ \A j \in (i + 2) .. (a - 1) : t[j] \in Blank
        /\ t[a] = SealMark /\ t[a + 1] = Colon
        /\ t[E] = RBrace /\ t[E + 1] = RBrace
        /\ \A j \in (i + 2) .. (E - 1) : ~(t[j] = RBrace /\ t[j + 1] = RBrace)
      BY <1>7 DEF OccursAt
  <2>2. /\ E \in (i + 2) .. Len(t) /\ E \in 1 .. Len(t) /\ i + 1 <= Len(t)
        /\ \A j \in (i + 2) .. (E - 1) : j \in (i + 2) .. Len(t)
      BY ONLY <1>1, <2>1
  <2>3. At(OPEN, t, i) /\ At(CLOSE, t, E)
      BY <1>3, <1>4, <2>1, <2>2
  <2>4. \A j \in (i + 2) .. (E - 1) : ~At(CLOSE, t, j)
      BY <1>4, <2>1, <2>2
  <2>5. IsReference(Trim(Slice(t, i + 2, E)))
      BY <1>5, <2>1, <2>2
  <2> QED
      BY <2>2, <2>3, <2>4, <2>5 DEF First
<1> QED
    BY <1>2, <1>6, <1>7

-----------------------------------------------------------------------------
(* A placeholder of the new text was in the old one.                       *)

(* What is copied is copied in order.                                      *)
LEMMA CopiedOrder ==
    ASSUME NEW t, NEW u, NEW W, NEW g, Protects(t, u, W, g),
           NEW i \in 1 .. Len(t), NEW j \in 1 .. Len(t), ~Covered(W, i), ~Covered(W, j), g[i] < g[j]
    PROVE  i < j
<1>1. t \in Str /\ Len(t) \in Nat /\ Follows(t, u, W, g, Len(t) + 1) /\ Spans(W, Len(t) + 1)
    BY ProtectsNumbers DEF Protects
<1>2. PICK n : n = Len(t) + 1 /\ n \in Nat
    BY <1>1
<1>3. i \in 1 .. n /\ j \in 1 .. n /\ g[i] \in Nat /\ g[j] \in Nat
  <2>1. i \in 1 .. n /\ j \in 1 .. n
      BY ONLY <1>1, <1>2, i \in 1 .. Len(t), j \in 1 .. Len(t)
  <2> QED
      BY <1>2, <2>1, ProtectsNumbers
<1>4. Edge(W, i) /\ Edge(W, j)
    BY <1>1, <1>2, <1>3, EdgeFacts
<1>5. ASSUME j < i PROVE FALSE
  <2>1. i \in (j + 1) .. n
      BY ONLY <1>2, <1>3, <1>5
  <2>2. g[j] < g[i]
      BY <1>1, <1>2, <1>3, <1>4, <2>1, FollowsOrder
  <2> QED
      BY <1>3, <2>2
<1>6. i # j
    BY <1>3
<1> QED
    BY <1>3, <1>5, <1>6

(* A run in which SEALED does not begin is copied.                         *)
LEMMA RunKept ==
    ASSUME NEW t, NEW u, NEW W, NEW g, Protects(t, u, W, g),
           NEW i \in 1 .. Len(t), ~Covered(W, i), NEW n \in Nat, g[i] + n <= Len(u),
           \A k \in 1 .. n : u[g[i] + k] # SEALED[1]
    PROVE  \A k \in 0 .. n : /\ i + k \in 1 .. Len(t) /\ ~Covered(W, i + k)
                             /\ g[i + k] = g[i] + k /\ t[i + k] = u[g[i] + k]
<1> DEFINE Kept(k) == /\ i + k \in 1 .. Len(t) /\ ~Covered(W, i + k)
                      /\ g[i + k] = g[i] + k /\ t[i + k] = u[g[i] + k]
<1> DEFINE Bad == {k \in 0 .. n : ~Kept(k)}
<1> SUFFICES ASSUME Bad # {} PROVE FALSE
    OBVIOUS
<1>1. PICK m \in Bad : \A k \in Bad : m <= k
  <2>1. Bad \in SUBSET Nat
      OBVIOUS
  <2> HIDE DEF Bad
  <2> QED
      BY <2>1, LeastNatural
<1>2. Len(t) \in Nat /\ Len(u) \in Nat /\ g[i] \in Nat /\ u[g[i]] = t[i]
  <2>1. i \in 1 .. (Len(t) + 1) /\ Len(t) \in Nat /\ Len(u) \in Nat
      BY ProtectsNumbers
  <2> QED
      BY <2>1, ProtectsNumbers
<1>3. m \in 0 .. n /\ ~Kept(m)
    OBVIOUS
<1>4. m # 0
  <2>1. i + 0 = i /\ g[i] + 0 = g[i]
      BY ONLY <1>2, i \in 1 .. Len(t)
  <2> QED
      BY <1>2, <1>3, <2>1
<1>5. PICK j : j = m - 1
    OBVIOUS
<1>6. j \in 0 .. n /\ j + 1 = m /\ ~(m <= j) /\ m \in 1 .. n
    BY ONLY <1>3, <1>4, <1>5, n \in Nat
<1>7. Kept(j)
    BY <1>1, <1>6
<1> HIDE DEF Bad
<1>8. PICK x, p : x = i + j /\ p = g[x]
    OBVIOUS
<1>9. /\ x \in 1 .. Len(t) /\ ~Covered(W, x) /\ p = g[i] + j /\ p + 1 <= Len(u)
      /\ x + 1 = i + m /\ p + 1 = g[i] + m
  <2>1. x \in 1 .. Len(t) /\ ~Covered(W, x) /\ p = g[i] + j
      BY <1>7, <1>8
  <2>2. PICK y : y = g[i]
      OBVIOUS
  <2>3. y + n <= Len(u) /\ y \in Nat /\ p = y + j
      BY <1>2, <2>1, <2>2
  <2>4. p + 1 <= Len(u) /\ x + 1 = i + m /\ p + 1 = y + m
      BY ONLY <1>2, <1>6, <1>8, <2>3, n \in Nat, i \in 1 .. Len(t)
  <2> QED
      BY <2>1, <2>2, <2>4
<1>10. /\ x + 1 \in 1 .. Len(t) /\ g[x + 1] = p + 1
       /\ \/ ~Covered(W, x + 1) /\ u[p + 1] = t[x + 1]
          \/ u[p + 1] = SEALED[1]
  <2>1. x \in 1 .. Len(t) /\ ~Covered(W, x) /\ g[x] + 1 <= Len(u)
      BY <1>8, <1>9
  <2>2. /\ x + 1 \in 1 .. Len(t) /\ g[x + 1] = g[x] + 1
        /\ \/ ~Covered(W, x + 1) /\ u[g[x] + 1] = t[x + 1]
           \/ \E e \in W : e.start = x + 1 /\ u[g[x] + 1] = SEALED[1]
      BY <2>1, NextKept
  <2> QED
      BY <1>8, <2>2, Zenon
<1>11. u[p + 1] # SEALED[1]
    BY <1>6, <1>9
<1>12. Kept(m)
    BY <1>9, <1>10, <1>11
<1> QED
    BY <1>3, <1>12

(* A symbol that SEALED has not got is copied.                             *)
LEMMA SymbolFrom ==
    ASSUME NEW t, NEW u, NEW W, NEW g, Protects(t, u, W, g), NEW p \in 1 .. Len(u),
           \A k \in 1 .. 3 : SEALED[k] # u[p]
    PROVE  \E i \in 1 .. Len(t) : ~Covered(W, i) /\ g[i] = p /\ t[i] = u[p]
BY OldSymbol

LEMMA PairFrom ==
    ASSUME NEW t, NEW u, NEW W, NEW g, Protects(t, u, W, g), NEW p \in 1 .. Len(u),
           p + 1 <= Len(u), u[p + 1] = u[p], \A k \in 1 .. 3 : SEALED[k] # u[p]
    PROVE  \E i \in 1 .. Len(t) : /\ ~Covered(W, i) /\ g[i] = p /\ t[i] = u[p]
                                  /\ i + 1 \in 1 .. Len(t) /\ t[i + 1] = u[p]
                                  /\ ~Covered(W, i + 1) /\ g[i + 1] = p + 1
<1>1. PICK i \in 1 .. Len(t) : ~Covered(W, i) /\ g[i] = p /\ t[i] = u[p]
    BY SymbolFrom
<1>2. u[p + 1] # SEALED[1]
    OBVIOUS
<1>3. g[i] + 1 <= Len(u)
    BY <1>1
<1>4. /\ i + 1 \in 1 .. Len(t) /\ g[i + 1] = g[i] + 1
      /\ \/ ~Covered(W, i + 1) /\ u[g[i] + 1] = t[i + 1]
         \/ \E e \in W : e.start = i + 1 /\ u[g[i] + 1] = SEALED[1]
    BY <1>1, <1>3, NextKept
<1> QED
    BY <1>1, <1>2, <1>4

(* A placeholder of the new text is one of the old.                        *)
LEMMA PlaceholderFrom ==
    ASSUME NEW t, NEW u, NEW W, NEW g, Protects(t, u, W, g), NEW p, NEW a, NEW E, OccursAt(u, p, a, E)
    PROVE  \E i \in 1 .. Len(t) : /\ ~Covered(W, i) /\ g[i] = p /\ t[i] = LBrace
                                  /\ \E b, F : OccursAt(t, i, b, F)
<1>1. /\ p \in Nat \ {0} /\ E \in Nat /\ E + 1 <= Len(u) /\ a \in (p + 2) .. (E - 2)
      /\ u[p] = LBrace /\ u[p + 1] = LBrace
      /\ \A j \in (p + 2) .. (a - 1) : u[j] \in Blank
      /\ u[a] = SealMark /\ u[a + 1] = Colon
      /\ u[E] = RBrace /\ u[E + 1] = RBrace
    BY DEF OccursAt
<1>2. Len(t) \in Nat /\ Len(u) \in Nat /\ t \in Str /\ W \subseteq Entries(t)
    BY ProtectsNumbers DEF Protects
<1>3. PICK i \in 1 .. Len(t) : /\ ~Covered(W, i) /\ g[i] = p /\ t[i] = LBrace
                               /\ i + 1 \in 1 .. Len(t) /\ t[i + 1] = LBrace
                               /\ ~Covered(W, i + 1) /\ g[i + 1] = p + 1
  <2>1. p \in 1 .. Len(u) /\ p + 1 <= Len(u)
      BY ONLY <1>1, <1>2
  <2>2. u[p + 1] = u[p] /\ \A k \in 1 .. 3 : SEALED[k] # u[p]
      BY <1>1, MarksAre
  <2>3. \E i \in 1 .. Len(t) : /\ ~Covered(W, i) /\ g[i] = p /\ t[i] = u[p]
                               /\ i + 1 \in 1 .. Len(t) /\ t[i + 1] = u[p]
                               /\ ~Covered(W, i + 1) /\ g[i + 1] = p + 1
      BY <2>1, <2>2, PairFrom
  <2> QED
      BY <1>1, <2>3
<1>4. PICK n : n = a - 1 - p
    OBVIOUS
<1>5. n \in Nat /\ p + n <= Len(u) /\ n >= 1 /\ p + n + 1 = a /\ a + 1 <= Len(u)
    BY ONLY <1>1, <1>2, <1>4
<1>6. ASSUME NEW k \in 1 .. n PROVE u[p + k] # SEALED[1]
  <2>1. CASE k = 1
      BY <1>1, <2>1, MarksAre
  <2>2. CASE k # 1
    <3>1. p + k \in (p + 2) .. (a - 1)
        BY ONLY <1>1, <1>4, <1>5, <2>2, k \in 1 .. n
    <3>2. u[p + k] \in Blank
        BY <1>1, <3>1
    <3> QED
        BY <3>2, MarksAre
  <2> QED
      BY <2>1, <2>2
<1>7. \A k \in 0 .. n : /\ i + k \in 1 .. Len(t) /\ ~Covered(W, i + k)
                        /\ g[i + k] = p + k /\ t[i + k] = u[p + k]
  <2>1. i \in 1 .. Len(t) /\ ~Covered(W, i) /\ g[i] = p
      BY <1>3
  <2>2. n \in Nat /\ g[i] + n <= Len(u) /\ \A k \in 1 .. n : u[g[i] + k] # SEALED[1]
      BY <1>5, <1>6, <2>1
  <2>3. \A k \in 0 .. n : /\ i + k \in 1 .. Len(t) /\ ~Covered(W, i + k)
                          /\ g[i + k] = g[i] + k /\ t[i + k] = u[g[i] + k]
      BY <2>1, <2>2, RunKept
  <2> QED
      BY <2>1, <2>3
<1>8. PICK x, b : x = i + n /\ b = i + n + 1
    OBVIOUS
<1>9. x \in 1 .. Len(t) /\ ~Covered(W, x) /\ g[x] = p + n /\ x + 1 = b
  <2>1. n \in 0 .. n
      BY <1>5
  <2> QED
      BY <1>7, <1>8, <2>1, <1>5
<1>10. \A j \in (i + 2) .. (b - 1) : t[j] \in Blank
  <2> SUFFICES ASSUME NEW j \in (i + 2) .. (b - 1) PROVE t[j] \in Blank
      OBVIOUS
  <2>1. PICK k : k = j - i
      OBVIOUS
  <2>2. k \in 0 .. n /\ i + k = j /\ p + k \in (p + 2) .. (a - 1)
      BY ONLY <1>1, <1>2, <1>4, <1>5, <1>8, <2>1, j \in (i + 2) .. (b - 1), i \in 1 .. Len(t)
  <2> QED
      BY <1>1, <1>7, <2>2
<1>11. ~\E e \in W : e.start = b
  <2> SUFFICES ASSUME NEW e \in W, e.start = b PROVE FALSE
      OBVIOUS
  <2>1. PICK z \in 1 .. (b - 1) : t[z] \in Opened /\ \A j \in (z + 1) .. (b - 1) : t[j] \in Blank
      BY <1>2, AroundEntry
  <2>2. z > i + 1 => z \in (i + 2) .. (b - 1)
      BY ONLY <1>2, <1>5, <1>8, z \in 1 .. (b - 1), i \in 1 .. Len(t)
  <2>3. z < i + 1 => i + 1 \in (z + 1) .. (b - 1)
      BY ONLY <1>2, <1>5, <1>8, z \in 1 .. (b - 1), i \in 1 .. Len(t)
  <2>4. ~(z > i + 1)
      BY <1>10, <2>1, <2>2, MarksAre
  <2>5. ~(z < i + 1)
      BY <1>3, <2>1, <2>3, MarksAre
  <2>6. z = i + 1
      BY ONLY <1>2, <1>5, <1>8, <2>4, <2>5, z \in 1 .. (b - 1), i \in 1 .. Len(t)
  <2> QED
      BY <1>3, <2>1, <2>6, MarksAre
<1>12. b \in 1 .. Len(t) /\ ~Covered(W, b) /\ g[b] = a /\ t[b] = SealMark
  <2>1. g[x] + 1 = a /\ g[x] + 1 <= Len(u)
    <3>1. PICK y : y = g[x]
        OBVIOUS
    <3>2. y = p + n
        BY <1>9, <3>1
    <3>3. y + 1 = a /\ y + 1 <= Len(u)
        BY ONLY <1>1, <1>2, <1>5, <3>2
    <3> QED
        BY <3>1, <3>3
  <2>2. /\ x + 1 \in 1 .. Len(t) /\ g[x + 1] = g[x] + 1
        /\ \/ ~Covered(W, x + 1) /\ u[g[x] + 1] = t[x + 1]
           \/ \E e \in W : e.start = x + 1 /\ u[g[x] + 1] = SEALED[1]
      BY <1>9, <2>1, NextKept
  <2> QED
      BY <1>1, <1>9, <1>11, <2>1, <2>2
<1>13. b + 1 \in 1 .. Len(t) /\ ~Covered(W, b + 1) /\ g[b + 1] = a + 1 /\ t[b + 1] = Colon
  <2>1. g[b] + 1 <= Len(u)
      BY <1>5, <1>12
  <2>2. u[a + 1] # SEALED[1]
      BY <1>1, MarksAre
  <2>3. /\ b + 1 \in 1 .. Len(t) /\ g[b + 1] = g[b] + 1
        /\ \/ ~Covered(W, b + 1) /\ u[g[b] + 1] = t[b + 1]
           \/ \E e \in W : e.start = b + 1 /\ u[g[b] + 1] = SEALED[1]
      BY <1>12, <2>1, NextKept
  <2> QED
      BY <1>1, <1>12, <2>2, <2>3
<1>14. PICK G \in 1 .. Len(t) : /\ ~Covered(W, G) /\ g[G] = E /\ t[G] = RBrace
                                /\ G + 1 \in 1 .. Len(t) /\ t[G + 1] = RBrace
  <2>1. E \in 1 .. Len(u) /\ E + 1 <= Len(u)
      BY ONLY <1>1, <1>2
  <2>2. u[E + 1] = u[E] /\ \A k \in 1 .. 3 : SEALED[k] # u[E]
      BY <1>1, MarksAre
  <2>3. \E G \in 1 .. Len(t) : /\ ~Covered(W, G) /\ g[G] = E /\ t[G] = u[E]
                               /\ G + 1 \in 1 .. Len(t) /\ t[G + 1] = u[E]
                               /\ ~Covered(W, G + 1) /\ g[G + 1] = E + 1
      BY <2>1, <2>2, PairFrom
  <2> QED
      BY <1>1, <2>3
<1>15. b + 1 < G
  <2>1. a + 1 < E
      BY ONLY <1>1
  <2> QED
      BY <1>13, <1>14, <2>1, CopiedOrder
<1> DEFINE Ends == {j \in (i + 2) .. G : t[j] = RBrace /\ t[j + 1] = RBrace}
<1>16. PICK F \in Ends : \A j \in Ends : F <= j
  <2>1. Ends \in SUBSET Nat /\ G \in Ends
    <3>1. G \in (i + 2) .. G
        BY ONLY <1>2, <1>5, <1>8, <1>15, i \in 1 .. Len(t), G \in 1 .. Len(t)
    <3>2. \A j \in (i + 2) .. G : j \in Nat
        BY ONLY i \in 1 .. Len(t), <1>2
    <3> QED
        BY <1>14, <3>1, <3>2
  <2> HIDE DEF Ends
  <2> QED
      BY <2>1, LeastNatural
<1>17. F \in (i + 2) .. G /\ t[F] = RBrace /\ t[F + 1] = RBrace
    OBVIOUS
<1>18. \A j \in (i + 2) .. (F - 1) : ~(t[j] = RBrace /\ t[j + 1] = RBrace)
  <2> SUFFICES ASSUME NEW j \in (i + 2) .. (F - 1), t[j] = RBrace /\ t[j + 1] = RBrace PROVE FALSE
      OBVIOUS
  <2>1. j \in (i + 2) .. G /\ ~(F <= j)
      BY ONLY <1>2, <1>17, j \in (i + 2) .. (F - 1), i \in 1 .. Len(t)
  <2> QED
      BY <1>16, <2>1
<1> HIDE DEF Ends
<1>19. ~(F \in (i + 2) .. (b - 1)) /\ F # b /\ F # b + 1
    BY <1>10, <1>12, <1>13, <1>17, MarksAre
<1>20. i \in Nat \ {0} /\ F \in Nat /\ F + 1 <= Len(t) /\ b \in (i + 2) .. (F - 2)
    BY ONLY <1>2, <1>5, <1>8, <1>14, <1>15, <1>17, <1>19, i \in 1 .. Len(t), G \in 1 .. Len(t)
<1>21. OccursAt(t, i, b, F)
    BY <1>3, <1>10, <1>12, <1>13, <1>17, <1>18, <1>20 DEF OccursAt
<1> QED
    BY <1>3, <1>21

-----------------------------------------------------------------------------
(* So the new text has none.                                               *)

(* A brace that is copied has as many before it as it had.                 *)
LEMMA OddBracesKept ==
    ASSUME NEW t, NEW u, NEW W, NEW g, Protects(t, u, W, g),
           NEW i \in 1 .. Len(t), ~Covered(W, i), t[i] = LBrace, OddBraces(t, i)
    PROVE  OddBraces(u, g[i])
<1>1. PICK n \in 1 .. i : /\ n % 2 = 1
                          /\ \A j \in (i - n) .. (i - 1) : j \in DOMAIN t /\ t[j] = LBrace
                          /\ i - n = 1 \/ t[i - n - 1] # LBrace
    BY Zenon DEF OddBraces, LBrace
<1>2. /\ Len(t) \in Nat /\ Len(u) \in Nat /\ t \in Seq(Symbol) /\ u \in Seq(Symbol) /\ g[1] = 1
      /\ \A k \in 1 .. (Len(t) + 1) : g[k] \in Nat \ {0}
      /\ \A k \in 1 .. Len(t) : ~Covered(W, k) => g[k + 1] = g[k] + 1 /\ u[g[k]] = t[k] /\ g[k] <= Len(u)
    BY ProtectsNumbers
<1>3. PICK a : a = i - n
    OBVIOUS
<1>4. a \in 1 .. (i - 1) /\ a \in Nat /\ n \in Nat
  <2>1. a \in (i - n) .. (i - 1)
      BY ONLY <1>3, n \in 1 .. i, i \in 1 .. Len(t), <1>2
  <2>2. a \in DOMAIN t
      BY <1>1, <2>1
  <2>3. a \in 1 .. Len(t)
      BY <1>2, <2>2
  <2> QED
      BY ONLY <1>2, <1>3, <2>3, n \in 1 .. i, i \in 1 .. Len(t)
<1>5. \A k \in a .. i : t[k] = LBrace /\ k \in 1 .. Len(t)
  <2> SUFFICES ASSUME NEW k \in a .. i PROVE t[k] = LBrace /\ k \in 1 .. Len(t)
      OBVIOUS
  <2>1. k \in 1 .. Len(t) /\ (k = i \/ k \in (i - n) .. (i - 1))
      BY ONLY <1>2, <1>3, <1>4, k \in a .. i, n \in 1 .. i, i \in 1 .. Len(t)
  <2> QED
      BY <1>1, <2>1
<1>6. ASSUME NEW k \in 2 .. Len(t), ~Covered(W, k), t[k] = LBrace PROVE ~Covered(W, k - 1)
  <2>1. t[k] = "{"
      BY <1>6 DEF LBrace
  <2> QED
      BY <1>6, <2>1, BeforeBrace
<1>7. \A k \in 0 .. n : ~Covered(W, i - k)
  <2> DEFINE Bad == {k \in 0 .. n : Covered(W, i - k)}
  <2> SUFFICES ASSUME Bad # {} PROVE FALSE
      OBVIOUS
  <2>1. PICK m \in Bad : \A k \in Bad : m <= k
    <3>1. Bad \in SUBSET Nat
        OBVIOUS
    <3> HIDE DEF Bad
    <3> QED
        BY <3>1, LeastNatural
  <2>2. m \in 0 .. n /\ Covered(W, i - m)
      OBVIOUS
  <2>3. m # 0
    <3>1. i - 0 = i
        OBVIOUS
    <3> QED
        BY <2>2, <3>1
  <2>4. PICK j, x : j = m - 1 /\ x = i - j
      OBVIOUS
  <2>5. j \in 0 .. n /\ ~(m <= j) /\ x \in a .. i /\ x \in 2 .. Len(t) /\ x - 1 = i - m
      BY ONLY <1>2, <1>3, <1>4, <2>2, <2>3, <2>4, i \in 1 .. Len(t), n \in 1 .. i
  <2>6. ~Covered(W, x)
      BY <2>1, <2>4, <2>5
  <2> HIDE DEF Bad
  <2>7. ~Covered(W, x - 1)
      BY <1>5, <1>6, <2>5, <2>6
  <2> QED
      BY <2>2, <2>5, <2>7
<1>8. \A k \in a .. i : ~Covered(W, k)
  <2> SUFFICES ASSUME NEW k \in a .. i PROVE ~Covered(W, k)
      OBVIOUS
  <2>1. i - k \in 0 .. n /\ i - (i - k) = k
      BY ONLY <1>2, <1>3, <1>4, i \in 1 .. Len(t), k \in a .. i, n \in 1 .. i
  <2> QED
      BY <1>7, <2>1
<1>9. /\ \A k \in a .. i : g[k] = g[a] + (k - a)
      /\ \A k \in a .. (i - 1) : u[g[a] + (k - a)] = t[k] /\ g[a] + (k - a) <= Len(u)
  <2>1. a \in 1 .. (Len(t) + 1) /\ i \in a .. (Len(t) + 1) /\ \A k \in a .. (i - 1) : k \in a .. i
      BY ONLY <1>2, <1>4, i \in 1 .. Len(t)
  <2>2. \A k \in a .. (i - 1) : ~Covered(W, k)
      BY <1>8, <2>1
  <2> QED
      BY <2>1, <2>2, Shifted
<1>10. PICK p, x : p = g[i] /\ x = g[a]
    OBVIOUS
<1>11. p = x + n /\ x \in Nat \ {0} /\ p \in Nat
  <2>1. i \in a .. i /\ a \in 1 .. (Len(t) + 1) /\ i - a = n /\ i \in 1 .. (Len(t) + 1)
      BY ONLY <1>2, <1>3, <1>4, i \in 1 .. Len(t), n \in 1 .. i
  <2>2. g[i] = g[a] + (i - a)
      BY <1>9, <2>1
  <2>3. p = x + n
      BY <1>10, <2>1, <2>2
  <2> QED
      BY <1>2, <1>10, <2>1, <2>3
<1>12. ASSUME NEW j \in (p - n) .. (p - 1) PROVE j \in DOMAIN u /\ u[j] = LBrace
  <2>1. PICK k : k = a + (j - x)
      OBVIOUS
  <2>2. k \in a .. (i - 1) /\ k \in a .. i /\ x + (k - a) = j /\ j >= 1 /\ j \in Nat
      BY ONLY <1>2, <1>3, <1>4, <1>11, <2>1, i \in 1 .. Len(t), n \in 1 .. i, j \in (p - n) .. (p - 1)
  <2>3. u[j] = t[k] /\ j <= Len(u)
      BY <1>9, <1>10, <2>2
  <2>4. j \in 1 .. Len(u)
      BY ONLY <1>2, <2>2, <2>3
  <2> QED
      BY <1>2, <1>5, <2>2, <2>3, <2>4
<1>13. p - n = 1 \/ u[p - n - 1] # LBrace
  <2>1. p - n = x
      BY ONLY <1>4, <1>11
  <2>2. CASE a = 1
      BY <1>2, <1>10, <2>1, <2>2
  <2>3. CASE a # 1
    <3>1. a \in 2 .. Len(t) /\ a \in a .. i /\ a - 1 \in 1 .. Len(t) /\ (a - 1) + 1 = a /\ a - 1 = i - n - 1
        BY ONLY <1>2, <1>3, <1>4, <2>3, i \in 1 .. Len(t)
    <3>2. ~Covered(W, a - 1)
        BY <1>5, <1>6, <1>8, <3>1
    <3>3. t[a - 1] # LBrace
        BY <1>1, <1>3, <2>3, <3>1
    <3>4. g[a] = g[a - 1] + 1 /\ u[g[a - 1]] = t[a - 1]
        BY <1>2, <3>1, <3>2
    <3>5. g[a - 1] = x - 1
      <4>1. PICK y : y = g[a - 1]
          OBVIOUS
      <4>2. y \in Nat /\ x = y + 1
        <5>1. a - 1 \in 1 .. (Len(t) + 1)
            BY ONLY <1>2, <3>1
        <5> QED
            BY <1>2, <1>10, <3>4, <4>1, <5>1
      <4>3. y = x - 1
          BY ONLY <4>2
      <4> QED
          BY <4>1, <4>3
    <3>6. u[x - 1] # LBrace
        BY <3>3, <3>4, <3>5
    <3> QED
        BY <2>1, <3>6
  <2> QED
      BY <2>2, <2>3
<1>14. n \in 1 .. p
    BY ONLY <1>4, <1>11, n \in 1 .. i, i \in 1 .. Len(t), <1>2
<1>15. OddBraces(u, p)
    BY <1>1, <1>12, <1>13, <1>14, Zenon DEF OddBraces, LBrace
<1> QED
    BY <1>10, <1>15

(* Sealing makes no placeholder.                                           *)
LEMMA NoNewPlaceholder ==
    ASSUME NEW t, NEW u, NEW W, NEW g, Protects(t, u, W, g), ~HasPlaceholder(t)
    PROVE  ~HasPlaceholder(u)
<1> SUFFICES ASSUME NEW p \in 1 .. Len(u), Occurs(u, p), ~OddBraces(u, p) PROVE FALSE
    BY Zenon DEF HasPlaceholder
<1>1. t \in Str /\ u \in Str /\ Len(t) \in Nat /\ Len(u) \in Nat
    BY ProtectsNumbers
<1>2. p \in Nat \ {0}
    BY <1>1
<1>3. PICK a, E : OccursAt(u, p, a, E)
    BY <1>1, <1>2, OccursIs
<1>4. PICK i \in 1 .. Len(t) : /\ ~Covered(W, i) /\ g[i] = p /\ t[i] = LBrace
                               /\ \E b, F : OccursAt(t, i, b, F)
    BY <1>3, PlaceholderFrom
<1>5. Occurs(t, i)
  <2>1. i \in Nat \ {0}
      BY <1>1
  <2> QED
      BY <1>1, <1>4, <2>1, OccursIs
<1>6. OddBraces(t, i)
    BY <1>5, Zenon DEF HasPlaceholder
<1> QED
    BY <1>4, <1>6, OddBracesKept

-----------------------------------------------------------------------------
(* Private key blocks, and what is left to seal.                           *)

(* The two words by which a private key block is known.                    *)
LEMMA BlockWords ==
    \E b, w : /\ b \in Seq(Symbol) /\ Len(b) = 1
              /\ w \in Seq(Symbol) /\ Len(w) = 3
              /\ \A n, k \in 1 .. 3 : w[n] # SEALED[k]
              /\ \A t : PrivateKeyBlock(t) <=>
                     \E i \in LineStarts(t) : At(b, TrimStart(Line(t, i)), 1) /\ ~Absent(w, Line(t, i), 1)
<1>1. PICK b, w : b = <<"-----BEGIN">> /\ w = <<"PRIVATE", " ", "KEY-----">>
    OBVIOUS
<1>2. "-----BEGIN" \in Symbol /\ "PRIVATE" \in Symbol /\ " " \in Symbol /\ "KEY-----" \in Symbol
    BY Zenon DEF Symbol
<1> DEFINE Begin == "-----BEGIN"
           Private == "PRIVATE"
           Space == " "
           Key == "KEY-----"
<1>8. Begin \in Symbol /\ Private \in Symbol /\ Space \in Symbol /\ Key \in Symbol
    BY <1>2
<1>9. b = <<Begin>> /\ w = <<Private, Space, Key>>
    BY <1>1
<1> HIDE DEF Begin, Private, Space, Key
<1>3. b \in Seq(Symbol) /\ Len(b) = 1
    BY ONLY <1>8, <1>9
<1>10. w \in Seq(Symbol) /\ Len(w) = 3 /\ w[1] = Private /\ w[2] = Space /\ w[3] = Key
    BY ONLY <1>8, <1>9
<1>4. /\ w \in Seq(Symbol) /\ Len(w) = 3
      /\ w[1] = "PRIVATE" /\ w[2] = " " /\ w[3] = "KEY-----"
    BY <1>10, Zenon DEF Private, Space, Key
<1>5. SEALED[1] = "seal" /\ SEALED[2] = ":" /\ SEALED[3] = "v1"
    BY DEF SEALED
<1>6. \A n, k \in 1 .. 3 : w[n] # SEALED[k]
  <2>1. \A n \in 1 .. 3 : n = 1 \/ n = 2 \/ n = 3
      OBVIOUS
  <2> QED
      BY <1>4, <1>5, <2>1
<1>7. \A t : PrivateKeyBlock(t) <=>
               \E i \in LineStarts(t) : At(b, TrimStart(Line(t, i)), 1) /\ ~Absent(w, Line(t, i), 1)
    BY <1>1, Zenon DEF PrivateKeyBlock
<1> QED
    BY <1>3, <1>4, <1>6, <1>7

LEMMA BeginsIs ==
    ASSUME NEW l \in Str, NEW k, BlanksTo(l, 1, k), NEW b \in Seq(Symbol), Len(b) = 1
    PROVE  At(b, TrimStart(l), 1) <=> (k <= Len(l) /\ l[k] = b[1])
<1>1. l \in Seq(Symbol) /\ Len(l) \in Nat
    BY DEF Str
<1>2. k \in 1 .. (Len(l) + 1)
    BY DEF BlanksTo
<1>3. TrimStart(l) = Rest(l, k)
    BY <1>1, TrimStartIs
<1>4. PICK x : x = Rest(l, k)
    OBVIOUS
<1>5. x \in Seq(Symbol) /\ Len(x) = Len(l) - k + 1 /\ \A n \in 1 .. (Len(l) - k + 1) : x[n] = l[k + n - 1]
    BY ONLY <1>1, <1>2, <1>4, RestIs, ZenonT(40)
<1>6. k <= Len(l) => x[1] = l[k]
  <2>1. k <= Len(l) => 1 \in 1 .. (Len(l) - k + 1) /\ k + 1 - 1 = k
      BY ONLY <1>1, <1>2
  <2> QED
      BY <1>5, <2>1
<1>7. At(b, x, 1) <=> 1 <= Len(x) /\ x[1] = b[1]
  <2>1. 1 \in Nat \ {0}
      OBVIOUS
  <2> QED
      BY ONLY <1>5, <2>1, b \in Seq(Symbol), Len(b) = 1, SymbolAt
<1>8. 1 <= Len(x) <=> k <= Len(l)
    BY ONLY <1>1, <1>2, <1>5
<1> QED
    BY <1>3, <1>4, <1>6, <1>7, <1>8

(* A word that shares no symbol with SEALED was there before.              *)
LEMMA WordWasThere ==
    ASSUME NEW l \in Str, NEW m \in Str, NEW s, NEW d, Swapped(l, m, s, d),
           NEW w \in Seq(Symbol), Len(w) = 3, \A n, k \in 1 .. 3 : w[n] # SEALED[k],
           ~Absent(w, m, 1)
    PROVE  ~Absent(w, l, 1)
<1>1. /\ l \in Seq(Symbol) /\ m \in Seq(Symbol) /\ Len(l) \in Nat /\ Len(m) \in Nat
      /\ s \in 1 .. (Len(l) + 1) /\ d \in s .. (Len(l) + 1) /\ s \in Nat /\ d \in Nat
      /\ Len(m) = Len(l) - (d - s) + 3
    BY SwappedNumbers
<1>2. /\ \A j \in 1 .. (s - 1) : m[j] = l[j]
      /\ \A k \in 1 .. 3 : m[s + k - 1] = SEALED[k]
      /\ \A j \in d .. Len(l) : m[j - d + s + 3] = l[j]
    BY DEF Swapped, SealedAt
<1>3. PICK j \in 1 .. Len(m) : At(w, m, j)
    BY DEF Absent
<1>4. j + 3 <= Len(m) + 1 /\ \A n \in 1 .. 3 : m[j + n - 1] = w[n]
  <2>1. j \in Nat \ {0}
      BY <1>1
  <2>2. At(w, m, j) <=> j + Len(w) <= Len(m) + 1 /\ \A n \in 1 .. Len(w) : m[j + n - 1] = w[n]
      BY ONLY <1>1, <2>1, w \in Seq(Symbol), AtSymbols
  <2> QED
      BY <1>3, <2>2, Len(w) = 3
<1>5. ASSUME NEW n \in 1 .. 3, NEW k \in 1 .. 3, j + n - 1 = s + k - 1 PROVE FALSE
  <2>1. m[j + n - 1] = w[n] /\ m[s + k - 1] = SEALED[k]
      BY <1>2, <1>4
  <2>2. w[n] = SEALED[k]
      BY <1>5, <2>1
  <2> QED
      BY <2>2
<1>6. j + 2 < s \/ j >= s + 3
  <2> SUFFICES ASSUME ~(j + 2 < s), ~(j >= s + 3) PROVE FALSE
      BY <1>1
  <2>1. CASE j >= s
    <3>1. PICK k : k = j - s + 1
        OBVIOUS
    <3>2. k \in 1 .. 3 /\ 1 \in 1 .. 3 /\ j + 1 - 1 = s + k - 1
        BY ONLY <1>1, <2>1, <3>1, ~(j >= s + 3), j \in 1 .. Len(m)
    <3> QED
        BY <1>5, <3>2
  <2>2. CASE ~(j >= s)
    <3>1. PICK n : n = s - j + 1
        OBVIOUS
    <3>2. n \in 1 .. 3 /\ 1 \in 1 .. 3 /\ j + n - 1 = s + 1 - 1
        BY ONLY <1>1, <2>2, <3>1, ~(j + 2 < s), j \in 1 .. Len(m)
    <3> QED
        BY <1>5, <3>2
  <2> QED
      BY <2>1, <2>2
<1>7. \E i \in 1 .. Len(l) : i + 3 <= Len(l) + 1 /\ \A n \in 1 .. 3 : l[i + n - 1] = w[n]
  <2>1. CASE j + 2 < s
    <3>1. j \in 1 .. Len(l) /\ j + 3 <= Len(l) + 1 /\ \A n \in 1 .. 3 : j + n - 1 \in 1 .. (s - 1)
        BY ONLY <1>1, <2>1, j \in 1 .. Len(m)
    <3>2. ASSUME NEW n \in 1 .. 3 PROVE l[j + n - 1] = w[n]
      <4>1. m[j + n - 1] = l[j + n - 1]
          BY <1>2, <3>1
      <4> QED
          BY <1>4, <4>1
    <3> QED
        BY <3>1, <3>2
  <2>2. CASE j >= s + 3
    <3>1. PICK i : i = j - s - 3 + d
        OBVIOUS
    <3>2. i \in 1 .. Len(l) /\ i + 3 <= Len(l) + 1
        BY ONLY <1>1, <1>4, <2>2, <3>1, j \in 1 .. Len(m)
    <3>3. ASSUME NEW n \in 1 .. 3 PROVE l[i + n - 1] = w[n]
      <4>1. i + n - 1 \in d .. Len(l) /\ (i + n - 1) - d + s + 3 = j + n - 1
        <5>1. i + n - 1 \in d .. Len(l)
            BY ONLY <1>1, <2>2, <3>1, <3>2, j \in 1 .. Len(m), n \in 1 .. 3
        <5>2. (i + n - 1) - d + s + 3 = j + n - 1
            BY ONLY <1>1, <3>1, j \in 1 .. Len(m), n \in 1 .. 3
        <5> QED
            BY <5>1, <5>2
      <4>2. m[(i + n - 1) - d + s + 3] = l[i + n - 1]
          BY <1>2, <4>1
      <4> QED
          BY <1>4, <4>1, <4>2
    <3> QED
        BY <3>2, <3>3
  <2> QED
      BY <1>6, <2>1, <2>2
<1>8. PICK i \in 1 .. Len(l) : i + 3 <= Len(l) + 1 /\ \A n \in 1 .. 3 : l[i + n - 1] = w[n]
    BY <1>7
<1>9. At(w, l, i)
  <2>1. i \in Nat \ {0}
      BY <1>1
  <2>2. At(w, l, i) <=> i + Len(w) <= Len(l) + 1 /\ \A n \in 1 .. Len(w) : l[i + n - 1] = w[n]
      BY ONLY <1>1, <2>1, w \in Seq(Symbol), AtSymbols
  <2> QED
      BY <1>8, <2>2, Len(w) = 3
<1> QED
    BY <1>9 DEF Absent

(* Sealing makes no private key block.                                     *)
LEMMA NoNewBlock ==
    ASSUME NEW t, NEW u, NEW W, NEW g, Protects(t, u, W, g), PrivateKeyBlock(u)
    PROVE  PrivateKeyBlock(t)
<1>1. PICK b, w : /\ b \in Seq(Symbol) /\ Len(b) = 1
                  /\ w \in Seq(Symbol) /\ Len(w) = 3
                  /\ \A n, k \in 1 .. 3 : w[n] # SEALED[k]
                  /\ \A x : PrivateKeyBlock(x) <=>
                        \E i \in LineStarts(x) : At(b, TrimStart(Line(x, i)), 1) /\ ~Absent(w, Line(x, i), 1)
    BY BlockWords
<1>2. PICK p \in LineStarts(u) : At(b, TrimStart(Line(u, p)), 1) /\ ~Absent(w, Line(u, p), 1)
    BY <1>1
<1>3. PICK i \in LineStarts(t) : g[i] = p
    BY StartsFrom
<1>4. CASE \A e \in W : ~InLine(t, i, e)
  <2>1. Line(u, g[i]) = Line(t, i)
      BY <1>4, PlainLine
  <2> QED
      BY <1>1, <1>2, <1>3, <2>1
<1>5. CASE \E e \in W : InLine(t, i, e)
  <2>1. PICK e \in W : InLine(t, i, e)
      BY <1>5
  <2>2. PICK l, m, s, d : l = Line(t, i) /\ m = Line(u, g[i]) /\ s = e.start - i + 1 /\ d = e.end - i + 1
      OBVIOUS
  <2>3. l \in Str /\ m \in Str /\ Swapped(l, m, s, d)
      BY <2>1, <2>2, SealedLine
  <2>4. ~Absent(w, l, 1)
    <3>1. ~Absent(w, m, 1)
        BY <1>2, <1>3, <2>2
    <3> QED
        BY <1>1, <2>3, <3>1, WordWasThere
  <2>5. PICK c, q, h, v : Written(t, i, e, c, q, h, v)
    <3>1. t \in Str
        BY DEF Protects
    <3> QED
        BY <2>1, <3>1, InLineReads
  <2>6. PICK k : BlanksTo(l, 1, k) /\ (k = c \/ BlanksTo(l, k + 1, c))
      BY <2>2, <2>5, Zenon DEF Written, Assigns, Content
  <2>7. PICK x1 : x1 = e.start
      OBVIOUS
  <2>8. k \in Nat /\ k < s
    <3>1. PICK n, x, y : n = Len(Line(t, i)) /\ x = v.start /\ y = v.end
        OBVIOUS
    <3>2. WrittenAt(t, i, n, e, c, q, h, v)
      <4>1. t \in Str
          BY DEF Protects
      <4> QED
          BY <2>5, <3>1, <4>1, WrittenPlaces
    <3>3. /\ i \in 1 .. Len(t) /\ n \in Nat /\ c \in 1 .. n /\ q \in (c + 1) .. n /\ h \in (q + 1) .. (n + 1)
          /\ x \in 1 .. 2 /\ x1 = (i - 1) + (h - 1) + x /\ Len(t) \in Nat /\ s = x1 - i + 1
        BY <2>2, <2>7, <3>1, <3>2 DEF WrittenAt
    <3>4. k \in 1 .. (Len(l) + 1) /\ (k = c \/ c \in (k + 1) .. (Len(l) + 1)) /\ Len(l) = n
        BY <2>2, <2>6, <3>1, Zenon DEF BlanksTo
    <3> QED
        BY ONLY <3>3, <3>4
  <2>9. BlanksTo(m, 1, k) /\ m[k] = l[k] /\ k <= Len(m) /\ k <= Len(l)
      BY <2>3, <2>6, <2>8, SwappedIgnored
  <2>10. At(b, TrimStart(l), 1)
    <3>1. At(b, TrimStart(m), 1)
        BY <1>2, <1>3, <2>2
    <3>2. At(b, TrimStart(m), 1) <=> (k <= Len(m) /\ m[k] = b[1])
        BY <1>1, <2>3, <2>9, BeginsIs
    <3>3. At(b, TrimStart(l), 1) <=> (k <= Len(l) /\ l[k] = b[1])
        BY <1>1, <2>3, <2>6, BeginsIs
    <3> QED
        BY <2>9, <3>1, <3>2, <3>3
  <2> QED
      BY <1>1, <2>2, <2>4, <2>10
<1> QED
    BY <1>4, <1>5

(* Nothing is left to seal, and what is sealed parses.                     *)
LEMMA NothingLeft ==
    ASSUME IInv, phase = "done"
    PROVE  /\ ~Refused(out)
           /\ \A f \in Entries(out) : ~Wanted(f) /\ ~Malformed(f) /\ ~Fails(TRUE, f.key, f.value)
<1>1. /\ ~Refused(text) /\ SealedOf = {e \in Entries(text) : Wanted(e)}
      /\ \A e \in Entries(text) : ~Malformed(e)
    BY DoneProtects
<1>2. PICK g : Protects(text, out, SealedOf, g)
    BY DoneProtects
<1>3. EntriesKept(text, out, SealedOf, g)
    BY <1>1, <1>2, EntryImages
<1>4. IsReference(SEALED) /\ Parses(SEALED)
  <2>1. PICK x : x = SEALED
      OBVIOUS
  <2>4. x \in Str /\ Len(x) = 3
      BY <2>1, SealedIs
  <2>5. Len(x) >= 3 /\ \A k \in 1 .. 3 : x[k] = SEALED[k]
      BY <2>1, <2>4
  <2>2. IsReference(SEALED)
      BY <2>1, <2>4, <2>5, SealedReference
  <2>3. Parses(SEALED)
      BY Zenon DEF Parses
  <2> QED
      BY <2>2, <2>3
<1>5. ASSUME NEW f \in Entries(out)
      PROVE  ~Wanted(f) /\ ~Malformed(f) /\ ~Fails(TRUE, f.key, f.value)
  <2>1. PICK e \in Entries(text) : Image(SealedOf, g, e, f)
      BY <1>3, Zenon DEF EntriesKept
  <2>2. CASE e \in SealedOf
    <3>1. f.value = SEALED
        BY <2>1, <2>2, Zenon DEF Image
    <3>2. IsReference(f.value) /\ Parses(f.value)
        BY <1>4, <3>1
    <3>3. ~Fails(TRUE, f.key, f.value)
        BY <3>2, Zenon DEF Fails
    <3> QED
        BY <3>2, <3>3, Zenon DEF Wanted, Malformed
  <2>3. CASE e \notin SealedOf
    <3>1. f.key = e.key /\ f.value = e.value
        BY <2>1, <2>3, Zenon DEF Image
    <3>2. ~Wanted(e) /\ ~Malformed(e)
        BY <1>1, <2>3
    <3>3. ~Wanted(f) /\ ~Malformed(f)
        BY <3>1, <3>2, Zenon DEF Wanted, Malformed
    <3> QED
        BY <3>3, Zenon DEF Wanted
  <2> QED
      BY <2>2, <2>3
<1> QED
    BY <1>3, <1>5, Zenon DEF EntriesKept

(* A protected file passes check --require-sealed, raw private key blocks  *)
(* apart (protect.rs:3-4), holds no placeholder, and has nothing left that *)
(* protect would seal or refuse (README.md:355-356), for every text.       *)
THEOREM ProtectedFilePasses == Spec => []ProtectedPasses
<1>1. IInv => ProtectedPasses
  <2> SUFFICES ASSUME IInv, phase = "done"
               PROVE  /\ \/ ExitCode(TRUE, {}, {out}) = 0
                         \/ ExitCode(TRUE, {}, {out}) = 2 /\ PrivateKeyBlock(text)
                      /\ ~HasPlaceholder(out)
                      /\ \A e \in Entries(out) : ~Wanted(e) /\ ~Malformed(e)
      BY Zenon DEF ProtectedPasses
  <2>1. /\ ~Refused(out)
        /\ \A f \in Entries(out) : ~Wanted(f) /\ ~Malformed(f) /\ ~Fails(TRUE, f.key, f.value)
      BY NothingLeft
  <2>2. PICK g : Protects(text, out, SealedOf, g)
      BY DoneProtects
  <2>3. ~HasPlaceholder(out)
      BY <2>2, DoneProtects, NoNewPlaceholder
  <2>4. PrivateKeyBlock(out) => PrivateKeyBlock(text)
      BY <2>2, NoNewBlock
  <2>5. ~((\E t \in {} : Refused(t)) \/ (\E t \in {out} : Errs(t)))
      BY <2>1, Zenon DEF Errs
  <2>6. FileFails(TRUE, out) <=> PrivateKeyBlock(out)
      BY <2>1, <2>3, Zenon DEF FileFails
  <2>7. CASE PrivateKeyBlock(out)
    <3>1. \/ \E t \in {} : \E e \in Entries(t) : Fails(TRUE, e.key, e.value)
          \/ \E t \in {out} : FileFails(TRUE, t)
        BY <2>6, <2>7, Zenon
    <3>2. ExitCode(TRUE, {}, {out}) = 2
        BY <2>5, <3>1, Zenon DEF ExitCode
    <3> QED
        BY <2>1, <2>3, <2>4, <2>7, <3>2, Zenon
  <2>8. CASE ~PrivateKeyBlock(out)
    <3>1. ~(\/ \E t \in {} : \E e \in Entries(t) : Fails(TRUE, e.key, e.value)
            \/ \E t \in {out} : FileFails(TRUE, t))
        BY <2>6, <2>8, Zenon
    <3>2. ExitCode(TRUE, {}, {out}) = 0
        BY <2>5, <3>1, Zenon DEF ExitCode
    <3> QED
        BY <2>1, <2>3, <3>2, Zenon
  <2> QED
      BY <2>7, <2>8
<1> QED
    BY <1>1, LoopInvariant, PTL
=============================================================================
