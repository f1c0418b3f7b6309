--------------------------- MODULE TemplateProofs ---------------------------
(***************************************************************************)
(* Proofs about Templates, for texts, references and values of any length: *)
(* the scan overlooks no placeholder and no token, every byte that is no   *)
(* part of one is copied, and rewrap leaves none under the retired kid.    *)
(***************************************************************************)
EXTENDS Templates, TextProofs

(* Every literal is a string, which the provers do not know: the ones that  *)
(* rewriting looks for or writes are named.                                *)
Symbol == STRING \cup {"{", "}", "seal", ":", "v1"}

Str == Seq(Symbol)

Span == [start : Nat, end : Nat] \cup [start : Nat, end : Nat, kid : Str]

Shapes ==
    /\ command \in {"render", "rewrap"}
    /\ text \in Str
    /\ cursor \in 1 .. (Len(text) + 1)
    /\ copied \in 1 .. (Len(text) + 1)
    /\ found \in Seq(Span)
    /\ values \in Seq(Str)
    /\ out \in Str
    /\ phase \in {"scan", "write", "done", "failed"}
    /\ Len(values) <= Len(found)
    /\ phase = "scan" => values = << >> /\ out = << >> /\ copied = 1

(* The ranges lie in the text behind one another, and before the cursor.   *)
InOrder ==
    /\ \A n \in 1 .. Len(found) :
        /\ 1 <= found[n].start /\ found[n].start < found[n].end
        /\ found[n].end <= cursor
    /\ \A n \in 2 .. Len(found) : found[n - 1].end <= found[n].start

-----------------------------------------------------------------------------
(* What has been written so far. sums[n] is the new text up to the range   *)
(* behind the n-th.                                                        *)
StartOf(n) == IF n > Len(found) THEN Len(text) + 1 ELSE found[n].start

EndOf(n) == IF n = 0 THEN 1 ELSE found[n].end

AddUp(sums, parts) ==
    /\ sums[0] = GapBefore(1)
    /\ \A n \in 1 .. Len(parts) : sums[n] = sums[n - 1] \o parts[n] \o GapBefore(n + 1)

Kept ==
    command = "rewrap" => \A n \in 1 .. Len(values) :
        found[n].kid # From => values[n] = Slice(text, found[n].start, found[n].end)

OutSoFar ==
    /\ phase = "write" =>
        /\ copied <= EndOf(Len(values))
        /\ \E sums \in [0 .. Len(values) -> Str] :
            /\ AddUp(sums, values)
            /\ sums[Len(values)] = out \o Slice(text, copied, StartOf(Len(values) + 1))
    /\ phase = "done" =>
        /\ Len(values) = Len(found)
        /\ \E sums \in [0 .. Len(values) -> Str] :
            AddUp(sums, values) /\ sums[Len(values)] = out

CopyInv == Shapes /\ InOrder /\ Kept /\ OutSoFar

-----------------------------------------------------------------------------
LEMMA TextsAreStrs == Text \subseteq Str
<1> SUFFICES ASSUME NEW t \in Seq(STRING) PROVE t \in Seq(Symbol)
  BY DEF Text, Str
<1>1. Len(t) \in Nat /\ t \in [1 .. Len(t) -> STRING]
  OBVIOUS
<1>2. STRING \subseteq Symbol
  BY DEF Symbol
<1>3. t \in [1 .. Len(t) -> Symbol]
  BY <1>1, <1>2
<1> QED BY <1>1, <1>3

LEMMA CopyInit == Init => CopyInv
<1> SUFFICES ASSUME Init PROVE CopyInv
  OBVIOUS
<1>1. text \in Str /\ command \in {"render", "rewrap"}
  BY TemplateAssumption, TextsAreStrs DEF Init
<1>2. /\ cursor = 1 /\ found = << >> /\ values = << >> /\ copied = 1 /\ out = << >>
      /\ phase = "scan"
  BY DEF Init
<1>3. << >> \in Seq(Span) /\ << >> \in Seq(Str) /\ << >> \in Str /\ Len(<< >>) = 0
  BY DEF Str
<1>4. Len(text) \in Nat /\ 1 \in 1 .. (Len(text) + 1)
  BY <1>1 DEF Str
<1>5. Shapes
  BY <1>1, <1>2, <1>3, <1>4 DEF Shapes
<1>6. InOrder /\ Kept /\ OutSoFar
  BY <1>2, <1>3 DEF InOrder, Kept, OutSoFar
<1> QED BY <1>5, <1>6 DEF CopyInv

LEMMA Numbers ==
    ASSUME Shapes
    PROVE  /\ Len(text) \in Nat /\ Len(found) \in Nat /\ Len(values) \in Nat
           /\ cursor \in Nat /\ copied \in Nat
           /\ DOMAIN found = 1 .. Len(found) /\ DOMAIN values = 1 .. Len(values)
           /\ \A n \in 1 .. Len(found) : found[n].start \in Nat /\ found[n].end \in Nat
           /\ \A n \in 1 .. Len(values) : values[n] \in Str
<1>1. /\ text \in Seq(Symbol) /\ found \in Seq(Span) /\ values \in Seq(Str)
      /\ cursor \in 1 .. (Len(text) + 1) /\ copied \in 1 .. (Len(text) + 1)
  BY DEF Shapes, Str
<1>2. \A n \in 1 .. Len(found) : found[n] \in Span
  BY <1>1
<1>3. \A r \in Span : r.start \in Nat /\ r.end \in Nat
  BY DEF Span
<1> QED BY <1>1, <1>2, <1>3

(* A step of a scan adds at most a range behind the cursor.                *)
LEMMA ScanStep ==
    ASSUME CopyInv, phase = "scan", NEW c \in Nat,
           cursor <= c, c <= Len(text) + 1,
           \/ Scanned(found, c)
           \/ \E r \in Span :
                /\ cursor <= r.start /\ r.start < r.end /\ r.end <= c
                /\ Scanned(Append(found, r), c)
    PROVE  CopyInv'
<1>0. Shapes /\ InOrder
  BY DEF CopyInv
<1>1. /\ UNCHANGED <<command, text, values, copied, out, phase>> /\ cursor' = c
      /\ values = << >> /\ out = << >> /\ copied = 1
  BY <1>0 DEF Scanned, Shapes
<1>2. c \in 1 .. (Len(text) + 1) /\ cursor <= cursor'
  BY <1>0, <1>1, Numbers DEF Shapes
<1>3. /\ found' \in Seq(Span) /\ Len(values) <= Len(found')
      /\ InOrder'
  <2>1. CASE found' = found
    BY <1>0, <1>1, <1>2, <2>1, Numbers DEF Shapes, InOrder
  <2>2. CASE \E r \in Span : /\ cursor <= r.start /\ r.start < r.end /\ r.end <= c
                              /\ found' = Append(found, r)
    <3>1. PICK r \in Span : /\ cursor <= r.start /\ r.start < r.end /\ r.end <= c
                             /\ found' = Append(found, r)
      BY <2>2
    <3>2. found \in Seq(Span)
      BY <1>0 DEF Shapes
    <3>3. /\ found' \in Seq(Span) /\ Len(found') = Len(found) + 1
          /\ \A n \in 1 .. Len(found) : found'[n] = found[n]
          /\ found'[Len(found) + 1] = r
      BY <3>1, <3>2, AppendProperties
    <3>4. r.start \in Nat /\ r.end \in Nat /\ 1 <= cursor
      BY <1>0 DEF Span, Shapes
    <3>5. ASSUME NEW n \in 1 .. Len(found')
          PROVE  /\ 1 <= found'[n].start /\ found'[n].start < found'[n].end
                 /\ found'[n].end <= cursor'
      <4>1. CASE n \in 1 .. Len(found)
        BY <1>0, <1>1, <1>2, <3>3, <4>1, Numbers DEF InOrder
      <4>2. CASE n = Len(found) + 1
        BY <1>0, <1>1, <3>1, <3>3, <3>4, <4>2, Numbers
      <4> QED BY <1>0, <3>3, <4>1, <4>2, Numbers
    <3>6. ASSUME NEW n \in 2 .. Len(found')
          PROVE  found'[n - 1].end <= found'[n].start
      <4>1. n - 1 \in 1 .. Len(found) /\ found'[n - 1] = found[n - 1]
        BY <1>0, <3>3, Numbers
      <4>2. CASE n \in 1 .. Len(found)
        BY <1>0, <3>3, <4>1, <4>2 DEF InOrder
      <4>3. CASE n = Len(found) + 1
        <5>1. found[n - 1].end <= cursor /\ found[n - 1].end \in Nat /\ cursor \in Nat
          BY <1>0, <4>1, Numbers DEF InOrder
        <5> QED BY <3>1, <3>3, <3>4, <4>1, <4>3, <5>1
      <4> QED BY <1>0, <3>3, <4>2, <4>3, Numbers
    <3>7. InOrder'
      BY <3>5, <3>6 DEF InOrder
    <3>8. Len(values) <= Len(found')
      BY <1>0, <3>3, Numbers DEF Shapes
    <3> QED BY <3>3, <3>7, <3>8
  <2> QED BY <2>1, <2>2 DEF Scanned
<1>4. Shapes'
  BY <1>0, <1>1, <1>2, <1>3 DEF Shapes
<1>5. Kept' /\ OutSoFar'
  BY <1>1 DEF Kept, OutSoFar
<1> QED BY <1>3, <1>4, <1>5 DEF CopyInv

-----------------------------------------------------------------------------
(* What lies between the ranges.                                           *)
LEMMA GapIs ==
    ASSUME Shapes, InOrder, NEW n \in 0 .. Len(found)
    PROVE  /\ EndOf(n) \in 1 .. (Len(text) + 1)
           /\ StartOf(n + 1) \in EndOf(n) .. (Len(text) + 1)
           /\ GapBefore(n + 1) = Slice(text, EndOf(n), StartOf(n + 1))
           /\ GapBefore(n + 1) \in Str
<1>1. EndOf(n) \in 1 .. (Len(text) + 1)
  <2>1. CASE n = 0
    BY <2>1, Numbers DEF EndOf
  <2>2. CASE n \in 1 .. Len(found)
    <3>1. /\ 1 <= found[n].start /\ found[n].start < found[n].end /\ found[n].end <= cursor
          /\ cursor <= Len(text) + 1
      BY <2>2, Numbers DEF InOrder, Shapes
    <3>2. found[n].start \in Nat /\ found[n].end \in Nat /\ cursor \in Nat /\ Len(text) \in Nat
      BY <2>2, Numbers
    <3> QED BY <2>2, <3>1, <3>2 DEF EndOf
  <2> QED BY <2>1, <2>2, Numbers
<1>2. StartOf(n + 1) \in EndOf(n) .. (Len(text) + 1)
  <2>1. CASE n = Len(found)
    BY <1>1, <2>1, Numbers DEF StartOf
  <2>2. CASE n < Len(found)
    <3>1. n + 1 \in 1 .. Len(found) /\ ~(n + 1 > Len(found))
      BY <2>2, Numbers
    <3>2. /\ 1 <= found[n + 1].start /\ found[n + 1].start < found[n + 1].end
          /\ found[n + 1].end <= cursor /\ cursor <= Len(text) + 1
      BY <3>1, Numbers DEF InOrder, Shapes
    <3>3. /\ found[n + 1].start \in Nat /\ found[n + 1].end \in Nat /\ cursor \in Nat
          /\ Len(text) \in Nat
      BY <3>1, Numbers
    <3>4. StartOf(n + 1) = found[n + 1].start
      BY <3>1 DEF StartOf
    <3>5. n = 0 \/ found[n].end <= found[n + 1].start
      <4>1. n # 0 => n + 1 \in 2 .. Len(found) /\ (n + 1) - 1 = n
        BY <3>1
      <4> QED BY <4>1 DEF InOrder
    <3>6. EndOf(n) <= found[n + 1].start
      BY <3>2, <3>5 DEF EndOf
    <3> QED BY <1>1, <3>2, <3>3, <3>4, <3>6
  <2>3. n = Len(found) \/ n < Len(found)
    <3>1. Len(found) \in Nat
      BY Numbers
    <3>2. n \in Nat /\ n <= Len(found)
      BY ONLY <3>1, n \in 0 .. Len(found)
    <3> QED BY ONLY <3>1, <3>2
  <2> QED BY <2>1, <2>2, <2>3
<1>3. GapBefore(n + 1) = Slice(text, EndOf(n), StartOf(n + 1))
  <2>1. (n + 1 = 1 <=> n = 0) /\ (n + 1) - 1 = n
    OBVIOUS
  <2> QED BY <2>1 DEF GapBefore, EndOf, StartOf
<1>4. GapBefore(n + 1) \in Str
  <2>1. text \in Seq(Symbol)
    BY DEF Shapes, Str
  <2> QED BY <1>1, <1>2, <1>3, <2>1, SliceIs DEF Str
<1> QED BY <1>1, <1>2, <1>3, <1>4

LEMMA TextsJoin ==
    ASSUME NEW s \in Str, NEW t \in Str
    PROVE  s \o t \in Str
BY ConcatProperties DEF Str

LEMMA TextsRegroup ==
    ASSUME NEW r \in Str, NEW s \in Str, NEW t \in Str, NEW u \in Str
    PROVE  ((r \o s) \o t) \o u = r \o ((s \o t) \o u)
<1> DEFINE st == s \o t
<1>1. st \in Str
  BY TextsJoin
<1>2. (r \o s) \o t = r \o st
  BY ConcatAssociative DEF Str
<1> HIDE DEF st
<1>3. (r \o st) \o u = r \o (st \o u)
  <2>1. r \in Seq(Symbol) /\ st \in Seq(Symbol) /\ u \in Seq(Symbol)
    BY <1>1 DEF Str
  <2> QED BY <2>1, ConcatAssociative
<1> QED BY <1>2, <1>3 DEF st

(* One more value.                                                         *)
LEMMA SumsExtend ==
    ASSUME Shapes, InOrder, Len(values) < Len(found), NEW value \in Str,
           values' = Append(values, value), UNCHANGED <<text, found>>,
           NEW sums \in [0 .. Len(values) -> Str], AddUp(sums, values)
    PROVE  /\ Len(values') = Len(values) + 1
           /\ \A n \in 1 .. Len(values) : values'[n] = values[n]
           /\ values'[Len(values) + 1] = value
           /\ values' \in Seq(Str)
           /\ \E more \in [0 .. Len(values') -> Str] :
                /\ AddUp(more, values')
                /\ more[Len(values')] = sums[Len(values)] \o value \o GapBefore(Len(values) + 2)
<1> DEFINE k == Len(values)
<1>1. k \in Nat /\ k + 1 \in 0 .. Len(found) /\ (k + 1) + 1 = k + 2 /\ k \in 0 .. k
  BY Numbers
<1>2. values \in Seq(Str)
  BY DEF Shapes
<1>3. /\ values' \in Seq(Str) /\ Len(values') = k + 1
      /\ \A n \in 1 .. k : values'[n] = values[n]
      /\ values'[k + 1] = value
  BY <1>2, AppendProperties
<1>4. GapBefore(k + 2) \in Str
  BY <1>1, GapIs
<1> DEFINE new == sums[k] \o value \o GapBefore(k + 2)
           more == [n \in 0 .. (k + 1) |-> IF n <= k THEN sums[n] ELSE new]
<1>5. new \in Str
  <2>1. sums[k] \in Str
    BY <1>1
  <2> QED BY <1>4, <2>1, TextsJoin
<1> HIDE DEF new
<1>6. more \in [0 .. (k + 1) -> Str]
  BY <1>1, <1>5
<1>7. more[0] = GapBefore(1)
  BY <1>1 DEF AddUp
<1>8. ASSUME NEW n \in 1 .. (k + 1)
      PROVE  more[n] = more[n - 1] \o values'[n] \o GapBefore(n + 1)
  <2>1. CASE n \in 1 .. k
    <3>1. more[n] = sums[n] /\ more[n - 1] = sums[n - 1] /\ values'[n] = values[n]
      BY <1>1, <1>3, <2>1
    <3> QED BY <2>1, <3>1 DEF AddUp
  <2>2. CASE n = k + 1
    <3>1. more[n] = new /\ more[n - 1] = sums[k] /\ n + 1 = k + 2
      BY <1>1, <2>2
    <3> QED BY <1>3, <2>2, <3>1 DEF new
  <2> QED BY <1>1, <2>1, <2>2, SMTT(40)
<1>10. more[k + 1] = new
  BY <1>1
<1> HIDE DEF more, k
<1>11. AddUp(more, values')
  BY <1>3, <1>7, <1>8 DEF AddUp
<1>12. /\ more \in [0 .. Len(values') -> Str]
       /\ AddUp(more, values')
       /\ more[Len(values')] = new
  BY <1>3, <1>6, <1>10, <1>11
<1> QED BY <1>3, <1>12 DEF k, new

LEMMA CurrentIs ==
    ASSUME Shapes, InOrder, Len(values) < Len(found)
    PROVE  /\ Current = found[Len(values) + 1]
           /\ Current.start = StartOf(Len(values) + 1)
           /\ Current.end = EndOf(Len(values) + 1)
           /\ Current.start \in EndOf(Len(values)) .. (Len(text) + 1)
           /\ Current.end \in Current.start .. (Len(text) + 1)
           /\ EndOf(Len(values)) \in 1 .. (Len(text) + 1)
<1> DEFINE k == Len(values)
<1>1. k \in Nat /\ k + 1 \in 1 .. Len(found) /\ k \in 0 .. Len(found)
      /\ ~(k + 1 > Len(found)) /\ k + 1 # 0
  BY Numbers
<1>2. /\ Current = found[k + 1] /\ Current.start = StartOf(k + 1) /\ Current.end = EndOf(k + 1)
  BY <1>1 DEF Current, StartOf, EndOf
<1>3. /\ StartOf(k + 1) \in EndOf(k) .. (Len(text) + 1) /\ EndOf(k) \in 1 .. (Len(text) + 1)
      /\ EndOf(k + 1) \in 1 .. (Len(text) + 1)
  BY <1>1, GapIs
<1>4. Current.start < Current.end
  BY <1>1, <1>2 DEF InOrder
<1>5. Current.start \in Nat /\ Current.end \in Nat
  BY <1>1, <1>2, Numbers
<1> QED BY <1>2, <1>3, <1>4, <1>5

LEMMA WriteKeeps ==
    ASSUME CopyInv, phase = "write", Len(values) < Len(found), NEW value \in Str, Write(value),
           command = "rewrap" => Current.kid = From
    PROVE  CopyInv'
<1> DEFINE k == Len(values)
<1>0. Shapes /\ InOrder /\ Kept /\ OutSoFar
  BY DEF CopyInv
<1>1. /\ values' = Append(values, value) /\ copied' = Current.end
      /\ out' = out \o Slice(text, copied, Current.start) \o value
      /\ UNCHANGED <<command, text, cursor, found, phase>>
  BY DEF Write, Rest
<1>2. copied <= EndOf(k)
  BY <1>0 DEF OutSoFar
<1>3. PICK sums \in [0 .. k -> Str] :
        AddUp(sums, values) /\ sums[k] = out \o Slice(text, copied, StartOf(k + 1))
  BY <1>0 DEF OutSoFar
<1>4. /\ Len(values') = k + 1
      /\ \A n \in 1 .. k : values'[n] = values[n]
      /\ values'[k + 1] = value
      /\ values' \in Seq(Str)
      /\ \E more \in [0 .. Len(values') -> Str] :
            /\ AddUp(more, values')
            /\ more[Len(values')] = sums[k] \o value \o GapBefore(k + 2)
  BY <1>0, <1>1, <1>3, SumsExtend
<1>5. /\ Current = found[k + 1] /\ Current.start = StartOf(k + 1) /\ Current.end = EndOf(k + 1)
      /\ Current.start \in EndOf(k) .. (Len(text) + 1)
      /\ Current.end \in Current.start .. (Len(text) + 1)
      /\ EndOf(k) \in 1 .. (Len(text) + 1)
  BY <1>0, CurrentIs
<1>6. k \in Nat /\ k + 1 \in 0 .. Len(found) /\ (k + 1) + 1 = k + 2 /\ Len(text) \in Nat
  BY <1>0, Numbers
<1>7. out' = sums[k] \o value
  BY <1>1, <1>3, <1>5
<1>8. GapBefore(k + 2) = Slice(text, copied', StartOf(k + 2))
  BY <1>0, <1>1, <1>5, <1>6, GapIs
<1>9. /\ (StartOf(Len(values) + 1))' = StartOf(Len(values') + 1)
       /\ (EndOf(Len(values)))' = EndOf(Len(values'))
       /\ \A f : (AddUp(f, values))' = AddUp(f, values')
  BY <1>1 DEF StartOf, EndOf, AddUp, GapBefore
<1>10. OutSoFar'
  <2>1. PICK more \in [0 .. Len(values') -> Str] :
            /\ AddUp(more, values')
            /\ more[Len(values')] = sums[k] \o value \o GapBefore(k + 2)
    BY <1>4
  <2>2. more[Len(values')] = out' \o Slice(text, copied', StartOf(Len(values') + 1))
    BY <1>1, <1>4, <1>6, <1>7, <1>8, <2>1
  <2>3. copied' <= EndOf(Len(values'))
    BY <1>1, <1>4, <1>5, <1>6
  <2>4. phase' = "write"
    BY <1>1
  <2> QED BY <1>1, <1>9, <2>1, <2>2, <2>3, <2>4 DEF OutSoFar
<1>11. Shapes'
  <2>1. copied' \in 1 .. (Len(text) + 1)
    BY <1>1, <1>5, <1>6
  <2>2. out' \in Str
    <3>0. k \in 0 .. k
      BY <1>6
    <3>1. sums[k] \in Str
      BY <3>0
    <3> QED BY <1>7, <3>1, TextsJoin
  <2>3. Len(values') <= Len(found')
    BY <1>1, <1>4, <1>6
  <2> QED BY <1>0, <1>1, <1>4, <2>1, <2>2, <2>3 DEF Shapes
<1>12. InOrder'
  BY <1>0, <1>1 DEF InOrder
<1>13. Kept'
  <2> SUFFICES ASSUME command = "rewrap", NEW n \in 1 .. (k + 1), found[n].kid # From
               PROVE  values'[n] = Slice(text, found[n].start, found[n].end)
    BY <1>1, <1>4 DEF Kept
  <2>1. n \in 1 .. k
    BY <1>5, <1>6
  <2> QED BY <1>0, <1>4, <2>1 DEF Kept
<1> QED BY <1>10, <1>11, <1>12, <1>13 DEF CopyInv

LEMMA KeepKeeps ==
    ASSUME CopyInv, Keep
    PROVE  CopyInv'
<1> DEFINE k == Len(values)
           value == Slice(text, Current.start, Current.end)
<1>0. Shapes /\ InOrder /\ Kept /\ OutSoFar /\ phase = "write" /\ k < Len(found)
  BY DEF CopyInv, Keep, Writing
<1>1. /\ values' = Append(values, value)
      /\ UNCHANGED <<command, text, cursor, found, copied, out, phase>>
  BY DEF Keep
<1>2. copied <= EndOf(k)
  BY <1>0 DEF OutSoFar
<1>3. PICK sums \in [0 .. k -> Str] :
        AddUp(sums, values) /\ sums[k] = out \o Slice(text, copied, StartOf(k + 1))
  BY <1>0 DEF OutSoFar
<1>4. /\ Current = found[k + 1] /\ Current.start = StartOf(k + 1) /\ Current.end = EndOf(k + 1)
      /\ Current.start \in EndOf(k) .. (Len(text) + 1)
      /\ Current.end \in Current.start .. (Len(text) + 1)
      /\ EndOf(k) \in 1 .. (Len(text) + 1)
  BY <1>0, CurrentIs
<1>5. /\ k \in Nat /\ k + 1 \in 0 .. Len(found) /\ (k + 1) + 1 = k + 2 /\ Len(text) \in Nat
      /\ text \in Seq(Symbol) /\ out \in Seq(Symbol) /\ copied \in 1 .. (Len(text) + 1)
  BY <1>0, Numbers DEF Shapes, Str
<1>6. /\ StartOf(k + 2) \in Current.end .. (Len(text) + 1)
      /\ GapBefore(k + 2) = Slice(text, Current.end, StartOf(k + 2))
  BY <1>0, <1>4, <1>5, GapIs
<1> DEFINE a == Slice(text, copied, Current.start)
           c == Slice(text, Current.end, StartOf(k + 2))
<1>7. /\ copied \in Nat /\ Current.start \in copied .. (Len(text) + 1)
      /\ Current.start \in 1 .. (Len(text) + 1) /\ Current.end \in 1 .. (Len(text) + 1)
      /\ Current.end \in copied .. (Len(text) + 1)
  BY <1>2, <1>4, <1>5
<1>8. a \in Seq(Symbol) /\ value \in Seq(Symbol) /\ c \in Seq(Symbol)
  BY <1>4, <1>5, <1>6, <1>7, SliceIs
<1>9. a \o value = Slice(text, copied, Current.end)
  BY <1>4, <1>5, <1>7, SlicesJoin
<1>10. (a \o value) \o c = Slice(text, copied, StartOf(k + 2))
  BY <1>5, <1>6, <1>7, <1>9, SlicesJoin
<1>11. ((out \o a) \o value) \o c = out \o ((a \o value) \o c)
  <2>1. a \in Seq(Symbol) /\ value \in Seq(Symbol) /\ c \in Seq(Symbol) /\ out \in Seq(Symbol)
    BY <1>5, <1>8
  <2> DEFINE av == a \o value
  <2> HIDE DEF a, value, c, av
  <2>2. (out \o a) \o value = out \o (a \o value)
    BY ONLY <2>1, ConcatAssociative, SMTT(40)
  <2>3. av \in Seq(Symbol)
    BY <2>1, ConcatProperties DEF av
  <2>4. (out \o av) \o c = out \o (av \o c)
    BY <2>1, <2>3, ConcatAssociative, SMTT(30)
  <2> QED BY <2>2, <2>4 DEF av
<1>12. /\ Len(values') = k + 1
       /\ \A n \in 1 .. k : values'[n] = values[n]
       /\ values'[k + 1] = value
       /\ values' \in Seq(Str)
       /\ \E more \in [0 .. Len(values') -> Str] :
            /\ AddUp(more, values')
            /\ more[Len(values')] = sums[k] \o value \o GapBefore(k + 2)
  <2>1. value \in Str
    BY <1>8 DEF Str
  <2> HIDE DEF value
  <2> QED BY <1>0, <1>1, <1>3, <2>1, SumsExtend
<1>13. /\ (StartOf(Len(values) + 1))' = StartOf(Len(values') + 1)
       /\ (EndOf(Len(values)))' = EndOf(Len(values'))
       /\ \A f : (AddUp(f, values))' = AddUp(f, values')
  BY <1>1 DEF StartOf, EndOf, AddUp, GapBefore
<1>14. OutSoFar'
  <2>1. PICK more \in [0 .. Len(values') -> Str] :
            /\ AddUp(more, values')
            /\ more[Len(values')] = sums[k] \o value \o GapBefore(k + 2)
    BY <1>12
  <2>2. sums[k] \o value \o GapBefore(k + 2) = out \o Slice(text, copied, StartOf(k + 2))
    BY <1>3, <1>4, <1>6, <1>10, <1>11
  <2>3. more[Len(values')] = out' \o Slice(text, copied', StartOf(Len(values') + 1))
    BY <1>1, <1>5, <1>12, <2>1, <2>2
  <2>4. copied' <= EndOf(Len(values'))
    BY <1>1, <1>4, <1>7, <1>12
  <2>5. phase' = "write"
    BY <1>0, <1>1
  <2> QED BY <1>1, <1>13, <2>1, <2>3, <2>4, <2>5 DEF OutSoFar
<1>15. Shapes'
  <2>1. Len(values') <= Len(found')
    BY <1>1, <1>5, <1>12
  <2> QED BY <1>0, <1>1, <1>12, <2>1 DEF Shapes
<1>16. InOrder'
  BY <1>0, <1>1 DEF InOrder
<1>17. Kept'
  <2> SUFFICES ASSUME command = "rewrap", NEW n \in 1 .. (k + 1), found[n].kid # From
               PROVE  values'[n] = Slice(text, found[n].start, found[n].end)
    BY <1>1, <1>12 DEF Kept
  <2>1. CASE n \in 1 .. k
    BY <1>0, <1>12, <2>1 DEF Kept
  <2>2. CASE n = k + 1
    BY <1>4, <1>12, <2>2
  <2> QED BY <1>5, <2>1, <2>2
<1> QED BY <1>14, <1>15, <1>16, <1>17 DEF CopyInv

LEMMA ScanEndKeeps ==
    ASSUME CopyInv, ScanEnds
    PROVE  CopyInv'
<1>0. Shapes /\ InOrder /\ phase = "scan"
  BY DEF CopyInv, ScanEnds
<1>1. /\ phase' = "write" /\ UNCHANGED <<command, text, cursor, found, values, copied, out>>
      /\ values = << >> /\ out = << >> /\ copied = 1 /\ Len(values) = 0
  BY <1>0 DEF ScanEnds, Shapes
<1>2. Shapes' /\ InOrder' /\ Kept'
  <2>1. Shapes'
    BY <1>0, <1>1 DEF Shapes
  <2>2. InOrder'
    BY <1>0, <1>1 DEF InOrder
  <2>3. Kept'
    BY <1>1 DEF Kept
  <2> QED BY <2>1, <2>2, <2>3
<1> DEFINE gap == GapBefore(1)
<1>3. gap \in Str /\ gap = Slice(text, 1, StartOf(1)) /\ EndOf(0) = 1
  <2>1. 0 \in 0 .. Len(found) /\ 0 + 1 = 1
    BY <1>0, Numbers
  <2> QED BY <1>0, <2>1, GapIs DEF EndOf
<1>4. gap = out \o Slice(text, copied, StartOf(1))
  <2>1. Slice(text, 1, StartOf(1)) \in Seq(Symbol)
    BY <1>3 DEF Str
  <2> HIDE DEF gap
  <2>2. << >> \o gap = gap
    BY <1>3, ConcatSimplifications DEF Str
  <2> QED BY <1>1, <1>3, <2>2
<1> DEFINE sums == [n \in 0 .. 0 |-> gap]
<1>5. sums \in [0 .. 0 -> Str] /\ sums[0] = gap /\ AddUp(sums, << >>)
  BY <1>3 DEF AddUp
<1>6. OutSoFar'
  <2>1. /\ (StartOf(Len(values) + 1))' = StartOf(1) /\ (EndOf(Len(values)))' = EndOf(0)
        /\ \A f : (AddUp(f, values))' = AddUp(f, << >>)
    BY <1>1 DEF StartOf, EndOf, AddUp, GapBefore
  <2> HIDE DEF sums, gap
  <2>2. \E f \in [0 .. 0 -> Str] :
            AddUp(f, << >>) /\ f[0] = out \o Slice(text, copied, StartOf(1))
    BY <1>4, <1>5
  <2> QED BY <1>1, <1>3, <2>1, <2>2 DEF OutSoFar
<1> QED BY <1>2, <1>6 DEF CopyInv

LEMMA RefuseKeeps ==
    ASSUME CopyInv, Refuse
    PROVE  CopyInv'
<1>1. /\ phase' = "failed" /\ out' = << >> /\ UNCHANGED <<command, text, cursor, found, values, copied>>
      /\ << >> \in Str
  BY DEF Refuse, Str
<1>2. Shapes' /\ InOrder'
  BY <1>1 DEF CopyInv, Shapes, InOrder
<1>3. Kept' /\ OutSoFar'
  BY <1>1 DEF CopyInv, Kept, OutSoFar
<1> QED BY <1>2, <1>3 DEF CopyInv

LEMMA CopyRestKeeps ==
    ASSUME CopyInv, CopyRest
    PROVE  CopyInv'
<1>0. Shapes /\ InOrder /\ Kept /\ OutSoFar
  BY DEF CopyInv
<1>1. /\ phase = "write" /\ Len(values) = Len(found)
      /\ out' = out \o Slice(text, copied, Len(text) + 1) /\ phase' = "done"
      /\ UNCHANGED <<command, text, cursor, found, values, copied>>
  BY DEF CopyRest
<1>2. StartOf(Len(values) + 1) = Len(text) + 1 /\ Len(values) \in 0 .. Len(values)
  BY <1>0, <1>1, Numbers DEF StartOf
<1>3. PICK sums \in [0 .. Len(values) -> Str] :
        AddUp(sums, values) /\ sums[Len(values)] = out'
  BY <1>0, <1>1, <1>2 DEF OutSoFar
<1>4. out' \in Str
  BY <1>2, <1>3
<1>5. Shapes'
  BY <1>0, <1>1, <1>4 DEF Shapes
<1>6. InOrder' /\ Kept'
  BY <1>0, <1>1 DEF InOrder, Kept
<1>7. OutSoFar'
  <2>1. \A f : (AddUp(f, values))' = AddUp(f, values')
    BY <1>1 DEF AddUp, GapBefore
  <2> QED BY <1>1, <1>3, <2>1 DEF OutSoFar
<1> QED BY <1>5, <1>6, <1>7 DEF CopyInv

-----------------------------------------------------------------------------
(* The scans stay in the text.                                             *)
Brace == "{"

EndBrace == "}"

LEMMA BracesAt ==
    ASSUME NEW t \in Str, NEW i \in Nat \ {0}
    PROVE  /\ At(OPEN, t, i) <=> i + 1 <= Len(t) /\ t[i] = Brace /\ t[i + 1] = Brace
           /\ At(CLOSE, t, i) <=> i + 1 <= Len(t) /\ t[i] = EndBrace /\ t[i + 1] = EndBrace
<1>1. t \in Seq(Symbol) /\ Brace \in Symbol /\ EndBrace \in Symbol
  BY DEF Str, Symbol, Brace, EndBrace
<1>2. OPEN = <<Brace, Brace>> /\ CLOSE = <<EndBrace, EndBrace>>
  BY DEF OPEN, CLOSE, Brace, EndBrace
<1>3. OPEN \in Seq(Symbol) /\ CLOSE \in Seq(Symbol)
  <2>1. \A x \in Symbol : <<x, x>> \in Seq(Symbol)
    OBVIOUS
  <2> QED BY <1>1, <1>2, <2>1
<1>4. /\ Len(OPEN) = 2 /\ OPEN[1] = Brace /\ OPEN[2] = Brace
      /\ Len(CLOSE) = 2 /\ CLOSE[1] = EndBrace /\ CLOSE[2] = EndBrace
  BY <1>2
<1>5. /\ At(OPEN, t, i) <=> i + 1 <= Len(t) /\ t[i] = OPEN[1] /\ t[i + 1] = OPEN[2]
      /\ At(CLOSE, t, i) <=> i + 1 <= Len(t) /\ t[i] = CLOSE[1] /\ t[i + 1] = CLOSE[2]
  BY <1>1, <1>3, <1>4, PairAt
<1> QED BY <1>4, <1>5

LEMMA GroupIs ==
    ASSUME Shapes, NEW start \in 1 .. Len(text), NEW end \in 1 .. Len(text), Group(start, end)
    PROVE  /\ cursor <= start /\ start + 1 <= Len(text)
           /\ text[start] = Brace /\ text[start + 1] = Brace
           /\ \A j \in cursor .. (start - 1) : ~At(OPEN, text, j)
           /\ start + 2 <= end /\ end + 1 <= Len(text)
           /\ text[end] = EndBrace /\ text[end + 1] = EndBrace
           /\ \A j \in (start + 2) .. (end - 1) : ~At(CLOSE, text, j)
           /\ First(CLOSE, text, start + 2, end)
<1>1. Len(OPEN) = 2
  BY DEF OPEN
<1>2. text \in Str /\ Len(text) \in Nat /\ cursor \in Nat
  BY Numbers DEF Shapes
<1>3. /\ start \in cursor .. Len(text) /\ At(OPEN, text, start)
      /\ \A j \in cursor .. (start - 1) : ~At(OPEN, text, j)
      /\ end \in (start + 2) .. Len(text) /\ At(CLOSE, text, end)
      /\ \A j \in (start + 2) .. (end - 1) : ~At(CLOSE, text, j)
      /\ First(CLOSE, text, start + 2, end)
  BY <1>1 DEF Group, First
<1>4. start \in Nat \ {0} /\ end \in Nat \ {0}
  OBVIOUS
<1>5. /\ start + 1 <= Len(text) /\ text[start] = Brace /\ text[start + 1] = Brace
      /\ end + 1 <= Len(text) /\ text[end] = EndBrace /\ text[end + 1] = EndBrace
  BY <1>2, <1>3, <1>4, BracesAt
<1>6. cursor <= start /\ start + 2 <= end
  BY <1>2, <1>3
<1> QED BY <1>3, <1>5, <1>6

LEMMA PlaceholderKeeps ==
    ASSUME CopyInv, FindPlaceholder \/ PassOver
    PROVE  CopyInv'
<1>0. Shapes /\ phase = "scan" /\ Len(text) \in Nat /\ cursor \in Nat
  BY Numbers DEF CopyInv, FindPlaceholder, PassOver, Scanning
<1>1. Len(OPEN) = 2 /\ Len(CLOSE) = 2
  BY DEF OPEN, CLOSE
<1>2. CASE FindPlaceholder
  <2>1. PICK start \in 1 .. Len(text), end \in 1 .. Len(text) :
            /\ Group(start, end)
            /\ Scanned(Append(found, [start |-> start, end |-> end + 2]), end + 2)
    BY <1>1, <1>2 DEF FindPlaceholder, Behind
  <2> DEFINE r == [start |-> start, end |-> end + 2]
  <2>2. cursor <= start /\ start + 2 <= end /\ end + 1 <= Len(text)
    BY <1>0, <2>1, GroupIs
  <2>3. /\ r \in Span /\ end + 2 \in Nat /\ cursor <= end + 2 /\ end + 2 <= Len(text) + 1
        /\ cursor <= r.start /\ r.start < r.end /\ r.end <= end + 2
    BY <1>0, <2>2 DEF Span
  <2>4. Scanned(Append(found, r), end + 2)
    BY <2>1
  <2> HIDE DEF r
  <2> QED BY <1>0, <2>3, <2>4, ScanStep
<1>3. CASE PassOver
  <2>1. PICK start \in 1 .. Len(text), end \in 1 .. Len(text) :
            Group(start, end) /\ Scanned(found, start + 2)
    BY <1>1, <1>3 DEF PassOver, Within
  <2>2. cursor <= start /\ start + 1 <= Len(text)
    BY <1>0, <2>1, GroupIs
  <2>3. start + 2 \in Nat /\ cursor <= start + 2 /\ start + 2 <= Len(text) + 1
    BY <1>0, <2>2
  <2> QED BY <1>0, <2>1, <2>3, ScanStep
<1> QED BY <1>2, <1>3

LEMMA MarkerIs ==
    ASSUME NEW t \in Str, NEW i \in Nat \ {0}, At(MARKER, t, i)
    PROVE  Len(MARKER) = 4 /\ i + 4 <= Len(t) + 1
<1>1. Len(MARKER) = 4
  BY DEF MARKER
<1> QED BY <1>1 DEF At

LEMMA TokenIs ==
    ASSUME Shapes, NEW start \in 1 .. Len(text), First(MARKER, text, cursor, start), HasToken(start)
    PROVE  /\ KidEnd(start) \in (start + 5) .. Len(text)
           /\ BlobEnd(start) \in (KidEnd(start) + 2) .. (Len(text) + 1)
           /\ Slice(text, start + 4, KidEnd(start)) \in Str
<1>1. text \in Seq(Symbol) /\ text \in Str /\ Len(text) \in Nat /\ start \in Nat \ {0}
  BY DEF Shapes, Str
<1>2. Len(MARKER) = 4 /\ start + 4 <= Len(text) + 1
  BY <1>1, MarkerIs DEF First
<1> DEFINE k == KidEnd(start)
           b == BlobEnd(start)
<1>3. k \in (start + 4) .. (Len(text) + 1)
  <2>1. start + 4 \in 1 .. (Len(text) + 1)
    BY <1>1, <1>2
  <2> QED BY <1>1, <1>2, <2>1, RunEnds DEF KidEnd
<1>4. start + 4 < k /\ At(<<":">>, text, k) /\ k + 1 < b
  BY <1>2 DEF HasToken
<1>5. k \in Nat /\ k \in (start + 5) .. (Len(text) + 1)
  <2> HIDE DEF k
  <2> QED BY <1>1, <1>3, <1>4
<1>6. k <= Len(text)
  <2>1. Len(<<":">>) = 1
    OBVIOUS
  <2> HIDE DEF k
  <2>2. k + 1 <= Len(text) + 1
    BY <1>4, <2>1 DEF At
  <2> QED BY <1>1, <1>5, <2>2
<1>7. b \in (k + 1) .. (Len(text) + 1)
  <2>0. b = RunEnd(Base64Url, text, k + 1)
    BY DEF BlobEnd
  <2> HIDE DEF k, b
  <2>1. k + 1 \in 1 .. (Len(text) + 1)
    BY <1>1, <1>5, <1>6
  <2> QED BY <1>1, <2>0, <2>1, RunEnds
<1>8. Slice(text, start + 4, k) \in Str
  <2> HIDE DEF k
  <2>1. start + 4 \in 1 .. (Len(text) + 1) /\ k \in (start + 4) .. (Len(text) + 1)
    BY <1>1, <1>2, <1>3
  <2> QED BY <1>1, <2>1, SliceIs DEF Str
<1>9. k \in (start + 5) .. Len(text) /\ b \in (k + 2) .. (Len(text) + 1)
  <2> HIDE DEF k, b
  <2> QED BY <1>1, <1>4, <1>5, <1>6, <1>7
<1> QED BY <1>8, <1>9

LEMMA TokenKeeps ==
    ASSUME CopyInv, FindToken \/ SkipMarker
    PROVE  CopyInv'
<1>0. Shapes /\ phase = "scan" /\ Len(text) \in Nat /\ cursor \in Nat /\ text \in Str
  BY Numbers DEF CopyInv, FindToken, SkipMarker, Scanning, Shapes
<1>1. Len(MARKER) = 4
  BY DEF MARKER
<1>2. CASE FindToken
  <2>1. PICK start \in 1 .. Len(text) :
            /\ First(MARKER, text, cursor, start) /\ HasToken(start)
            /\ Scanned(Append(found, Token(text, start, KidEnd(start), BlobEnd(start))),
                       BlobEnd(start))
    BY <1>2 DEF FindToken
  <2> DEFINE r == Token(text, start, KidEnd(start), BlobEnd(start))
             b == BlobEnd(start)
  <2>2. cursor <= start
    BY <2>1 DEF First
  <2>3. /\ KidEnd(start) \in (start + 5) .. Len(text)
        /\ b \in (KidEnd(start) + 2) .. (Len(text) + 1)
        /\ Slice(text, start + 4, KidEnd(start)) \in Str
    BY <1>0, <2>1, TokenIs
  <2>4. r.start = start /\ r.end = b
    BY DEF Token
  <2>5. b \in Nat /\ start < b /\ b <= Len(text) + 1
    <3> HIDE DEF b
    <3> QED BY <1>0, <2>3
  <2>6. r \in Span
    <3>1. r = [start |-> start, end |-> b, kid |-> Slice(text, start + 4, KidEnd(start))]
      BY <1>1 DEF Token
    <3> HIDE DEF r, b
    <3> QED BY <2>3, <2>5, <3>1 DEF Span
  <2>7. Scanned(Append(found, r), b)
    BY <2>1
  <2> HIDE DEF r, b
  <2>8. cursor <= b /\ cursor <= r.start /\ r.start < r.end /\ r.end <= b
    BY <1>0, <2>2, <2>4, <2>5
  <2> QED BY <1>0, <2>5, <2>6, <2>7, <2>8, ScanStep
<1>3. CASE SkipMarker
  <2>1. PICK start \in 1 .. Len(text) :
            First(MARKER, text, cursor, start) /\ Scanned(found, start + 4)
    BY <1>1, <1>3 DEF SkipMarker, BehindMarker
  <2>2. cursor <= start /\ start + 4 <= Len(text) + 1
    BY <1>0, <2>1, MarkerIs DEF First
  <2>3. start + 4 \in Nat /\ cursor <= start + 4
    BY <1>0, <2>2
  <2> QED BY <1>0, <2>1, <2>2, <2>3, ScanStep
<1> QED BY <1>2, <1>3

LEMMA ReplacementIs ==
    ASSUME NEW blob \in Blob
    PROVE  MARKER \o To \o <<":">> \o blob \in Str
<1>1. To \in Str /\ blob \in Str
  BY TemplateAssumption, TextsAreStrs
<1>2. MARKER \in Str /\ <<":">> \in Str
  <2>1. "seal" \in Symbol /\ ":" \in Symbol /\ "v1" \in Symbol
    BY DEF Symbol
  <2>2. \A x, y, z \in Symbol : <<x, y, z, y>> \in Seq(Symbol) /\ <<y>> \in Seq(Symbol)
    OBVIOUS
  <2>3. MARKER = <<"seal", ":", "v1", ":">>
    BY DEF MARKER
  <2> QED BY <2>1, <2>2, <2>3 DEF Str
<1> DEFINE colon == <<":">>
           first == MARKER \o To
           second == first \o colon
<1> HIDE DEF colon
<1>3. first \in Str
  BY <1>1, <1>2, TextsJoin
<1> HIDE DEF first
<1>4. second \in Str
  BY <1>2, <1>3, TextsJoin DEF colon
<1> HIDE DEF second
<1>5. second \o blob \in Str
  BY <1>1, <1>4, TextsJoin
<1> QED BY <1>5 DEF second, first, colon

LEMMA CopyNext == CopyInv /\ [Next]_vars => CopyInv'
<1> SUFFICES ASSUME CopyInv, [Next]_vars PROVE CopyInv'
  OBVIOUS
<1>1. CASE FindPlaceholder \/ PassOver
  BY <1>1, PlaceholderKeeps
<1>2. CASE FindToken \/ SkipMarker
  BY <1>2, TokenKeeps
<1>3. CASE ScanEnds
  BY <1>3, ScanEndKeeps
<1>4. CASE Substitute
  <2>1. PICK value \in Answer : Write(value)
    BY <1>4 DEF Substitute
  <2>2. value \in Str
    BY TemplateAssumption, TextsAreStrs
  <2>3. command = "render" /\ phase = "write" /\ Len(values) < Len(found)
    BY <1>4 DEF Substitute, Writing
  <2>4. command # "rewrap"
    BY <2>3
  <2> QED BY <2>1, <2>2, <2>3, <2>4, WriteKeeps
<1>5. CASE Replace
  <2>1. PICK blob \in Blob : Write(MARKER \o To \o <<":">> \o blob)
    BY <1>5 DEF Replace
  <2> DEFINE value == MARKER \o To \o <<":">> \o blob
  <2>2. value \in Str /\ Write(value)
    BY <2>1, ReplacementIs
  <2>3. phase = "write" /\ Len(values) < Len(found) /\ Current.kid = From
    BY <1>5 DEF Replace, Writing, Due
  <2> HIDE DEF value
  <2> QED BY <2>2, <2>3, WriteKeeps
<1>6. CASE Keep
  BY <1>6, KeepKeeps
<1>7. CASE Refuse
  BY <1>7, RefuseKeeps
<1>8. CASE CopyRest
  BY <1>8, CopyRestKeeps
<1>9. CASE UNCHANGED vars
  BY <1>9, ZenonT(60) DEF vars, CopyInv, Shapes, InOrder, Kept, OutSoFar, AddUp, StartOf, EndOf, GapBefore
<1> QED BY <1>1, <1>2, <1>3, <1>4, <1>5, <1>6, <1>7, <1>8, <1>9 DEF Next

-----------------------------------------------------------------------------
(* Sums that add up are the recursive definition's.                        *)
LEMMA SumsAreRewritten ==
    ASSUME Shapes, Len(values) = Len(found),
           NEW sums \in [0 .. Len(values) -> Str], AddUp(sums, values)
    PROVE  Rewritten = sums[Len(found)]
<1> DEFINE k == Len(found)
           Step(g) == [n \in 0 .. k |-> IF n = 0 THEN GapBefore(1)
                                        ELSE g[n - 1] \o values[n] \o GapBefore(n + 1)]
           upTo == CHOOSE g : g = Step(g)
<1>0. k \in Nat
  BY Numbers
<1>1. Rewritten = upTo[k]
  BY DEF Rewritten
<1>2. sums = Step(sums)
  <2>1. ASSUME NEW n \in 0 .. k
        PROVE  sums[n] = IF n = 0 THEN GapBefore(1)
                         ELSE sums[n - 1] \o values[n] \o GapBefore(n + 1)
    <3>1. CASE n = 0
      BY <3>1 DEF AddUp
    <3>2. CASE n # 0
      <4>1. n \in 1 .. Len(values)
        BY <1>0, <3>2
      <4> QED BY <3>2, <4>1 DEF AddUp
    <3> QED BY <3>1, <3>2
  <2> QED BY <2>1
<1>3. upTo = Step(upTo)
  <2> HIDE DEF Step
  <2> QED BY <1>2
<1>4. ASSUME NEW n \in 0 .. k PROVE upTo[n] = sums[n]
  <2> HIDE DEF upTo
  <2> DEFINE Wrong == {m \in 0 .. k : upTo[m] # sums[m]}
  <2>1. SUFFICES ASSUME Wrong # {} PROVE FALSE
    BY DEF Wrong
  <2>2. PICK m \in Wrong : \A j \in Wrong : m <= j
    <3>1. Wrong \in SUBSET Nat
      BY <1>0
    <3> HIDE DEF Wrong
    <3> QED BY <2>1, <3>1, LeastNatural
  <2>3. CASE m = 0
    <3>1. upTo[0] = GapBefore(1)
      <4>1. Step(upTo)[0] = GapBefore(1)
        BY <1>0
      <4> HIDE DEF Step
      <4> QED BY <1>3, <4>1
    <3> QED BY <2>2, <2>3, <3>1 DEF AddUp
  <2>4. CASE m # 0
    <3>1. m \in 1 .. k /\ m - 1 \in 0 .. k /\ m - 1 \notin Wrong
      BY <1>0, <2>2, <2>4
    <3>2. upTo[m - 1] = sums[m - 1]
      BY <3>1
    <3>3. upTo[m] = upTo[m - 1] \o values[m] \o GapBefore(m + 1)
      <4>1. Step(upTo)[m] = upTo[m - 1] \o values[m] \o GapBefore(m + 1)
        BY <1>0, <3>1
      <4> HIDE DEF Step
      <4> QED BY <1>3, <4>1
    <3>4. sums[m] = sums[m - 1] \o values[m] \o GapBefore(m + 1)
      BY <3>1 DEF AddUp
    <3>5. upTo[m] = sums[m]
      BY <3>2, <3>3, <3>4
    <3> QED BY <2>2, <3>5
  <2> QED BY <2>3, <2>4
<1>5. upTo[k] = sums[k]
  <2>1. k \in 0 .. k
    BY <1>0
  <2> HIDE DEF upTo, k
  <2> QED BY <1>4, <2>1
<1> QED BY <1>1, <1>5

LEMMA CopyImplies == CopyInv => OtherBytesUntouched
<1> SUFFICES ASSUME CopyInv PROVE OtherBytesUntouched
  OBVIOUS
<1>0. Shapes /\ InOrder /\ Kept /\ OutSoFar
  BY DEF CopyInv
<1>1. cursor \in 1 .. (Len(text) + 1) /\ copied \in 1 .. (Len(text) + 1)
      /\ command \in {"render", "rewrap"}
  BY <1>0 DEF Shapes
<1>2. ASSUME NEW n \in DOMAIN found
      PROVE  found[n].start < found[n].end /\ found[n].end <= Len(text) + 1
  <2>1. n \in 1 .. Len(found) /\ found[n].end \in Nat /\ cursor \in Nat /\ Len(text) \in Nat
    BY <1>0, Numbers
  <2>2. found[n].start < found[n].end /\ found[n].end <= cursor
    BY <1>0, <2>1 DEF InOrder
  <2> QED BY <1>1, <2>1, <2>2
<1>3. ASSUME phase = "done" PROVE out = Rewritten
  <2>1. PICK sums \in [0 .. Len(values) -> Str] :
            AddUp(sums, values) /\ sums[Len(values)] = out
    BY <1>0, <1>3 DEF OutSoFar
  <2>2. Len(values) = Len(found)
    BY <1>0, <1>3 DEF OutSoFar
  <2> QED BY <1>0, <2>1, <2>2, SumsAreRewritten
<1>4. ASSUME phase = "done", command = "rewrap", NEW n \in DOMAIN found, found[n].kid # From
      PROVE  values[n] = Slice(text, found[n].start, found[n].end)
  <2>1. n \in 1 .. Len(values)
    BY <1>0, <1>4, Numbers DEF OutSoFar
  <2> QED BY <1>0, <1>4, <2>1 DEF Kept
<1> QED BY <1>1, <1>2, <1>3, <1>4 DEF OtherBytesUntouched

(* What render and rewrap return is the text with the values put in for    *)
(* what was found and every other byte as it was, and no slice of the two  *)
(* loops goes beyond the text (template.rs:68-85, 153-173).                *)
THEOREM TemplateCopies == Spec => []OtherBytesUntouched
<1>1. Init => CopyInv
  BY CopyInit
<1>2. CopyInv /\ [Next]_vars => CopyInv'
  BY CopyNext
<1>3. CopyInv => OtherBytesUntouched
  BY CopyImplies
<1> QED BY <1>1, <1>2, <1>3, PTL DEF Spec

-----------------------------------------------------------------------------
(* Runs of braces, or of any other symbol.                                 *)
OddRun(x, t, i) ==
    \E n \in 1 .. i :
        /\ n % 2 = 1
        /\ \A j \in (i - n) .. (i - 1) : j \in DOMAIN t /\ t[j] = x
        /\ i - n = 1 \/ t[i - n - 1] # x

LEMMA BraceRuns == \A t, i : OddBraces(t, i) <=> OddRun("{", t, i)
BY DEF OddBraces, OddRun

LEMMA NoBraceBefore ==
    ASSUME NEW x, NEW t, NEW i \in Nat, i = 1 \/ t[i - 1] # x, Len(t) \in Nat, DOMAIN t = 1 .. Len(t)
    PROVE  ~OddRun(x, t, i)
<1> SUFFICES ASSUME NEW n \in 1 .. i, n % 2 = 1,
                    \A j \in (i - n) .. (i - 1) : j \in DOMAIN t /\ t[j] = x
             PROVE  FALSE
  BY DEF OddRun
<1>1. i - 1 \in (i - n) .. (i - 1)
  OBVIOUS
<1>2. i - 1 \in 1 .. Len(t) /\ t[i - 1] = x
  BY <1>1
<1> QED BY <1>2

LEMMA TwoBracesOn ==
    ASSUME NEW x, NEW t, NEW i \in Nat \ {0}, t[i] = x, t[i + 1] = x, OddRun(x, t, i + 2)
    PROVE  OddRun(x, t, i)
<1>1. PICK n \in 1 .. (i + 2) :
        /\ n % 2 = 1
        /\ \A j \in ((i + 2) - n) .. ((i + 2) - 1) : j \in DOMAIN t /\ t[j] = x
        /\ (i + 2) - n = 1 \/ t[(i + 2) - n - 1] # x
  BY DEF OddRun
<1>2. n # 1
  <2>1. (i + 2) - 1 - 1 = i /\ (i + 2) - 1 # 1
    OBVIOUS
  <2> QED BY <1>1, <2>1
<1>3. n # 2
  <2>1. 2 % 2 = 0
    OBVIOUS
  <2> QED BY <1>1, <2>1
<1>4. n - 2 \in 1 .. i /\ i - (n - 2) = (i + 2) - n
  BY <1>2, <1>3
<1>5. (n - 2) % 2 = 1
  BY <1>1
<1>6. \A j \in (i - (n - 2)) .. (i - 1) : j \in DOMAIN t /\ t[j] = x
  BY <1>1, <1>4
<1> QED BY <1>1, <1>4, <1>5, <1>6 DEF OddRun

LEMMA OneBraceOn ==
    ASSUME NEW x, NEW S, NEW t \in Seq(S), NEW i \in 1 .. Len(t), t[i] = x, ~OddRun(x, t, i)
    PROVE  OddRun(x, t, i + 1)
<1> DEFINE Runs == {b \in 1 .. i : \A j \in b .. (i - 1) : t[j] = x}
<1>1. Len(t) \in Nat /\ i \in Nat /\ DOMAIN t = 1 .. Len(t)
  OBVIOUS
<1>2. PICK b \in Runs : \A k \in Runs : b <= k
  <2>1. Runs \in SUBSET Nat /\ i \in Runs
    BY <1>1
  <2> HIDE DEF Runs
  <2> QED BY <2>1, LeastNatural
<1>3. b = 1 \/ t[b - 1] # x
  <2> SUFFICES ASSUME b # 1, t[b - 1] = x PROVE FALSE
    OBVIOUS
  <2>1. b - 1 \in Runs
    BY <1>1, <1>2
  <2>2. b \in Nat
    BY <1>1, <1>2
  <2> HIDE DEF Runs
  <2>3. b <= b - 1
    BY <1>2, <2>1
  <2> QED BY <2>2, <2>3
<1>4. b \in 1 .. i /\ \A j \in b .. (i - 1) : t[j] = x
  BY <1>2
<1> DEFINE m == i - b
<1>5. m \in Nat /\ m <= i /\ i - m = b /\ (i + 1) - (m + 1) = b
  BY <1>1, <1>4
<1>6. m % 2 # 1
  <2> SUFFICES ASSUME m % 2 = 1 PROVE FALSE
    OBVIOUS
  <2>1. m # 0
    OBVIOUS
  <2>2. m \in 1 .. i
    BY <1>1, <1>5, <2>1
  <2>3. \A j \in (i - m) .. (i - 1) : j \in DOMAIN t /\ t[j] = x
    BY <1>1, <1>4, <1>5
  <2> HIDE DEF m
  <2>4. i - m = 1 \/ t[i - m - 1] # x
    BY <1>3, <1>5
  <2> QED BY <2>2, <2>3, <2>4 DEF OddRun
<1>7. (m + 1) % 2 = 1
  <2> HIDE DEF m
  <2> QED BY <1>5, <1>6
<1>8. \A j \in ((i + 1) - (m + 1)) .. ((i + 1) - 1) : j \in DOMAIN t /\ t[j] = x
  BY <1>1, <1>4, <1>5
<1>9. m + 1 \in 1 .. (i + 1)
  BY <1>1, <1>5
<1> HIDE DEF m
<1>10. (i + 1) - (m + 1) = 1 \/ t[(i + 1) - (m + 1) - 1] # x
  BY <1>3, <1>5
<1> QED BY <1>7, <1>8, <1>9, <1>10 DEF OddRun

-----------------------------------------------------------------------------
(* The scan for placeholders. Before the cursor every one is accounted for *)
(* and the cursor is not behind an odd run of braces, from which on the    *)
(* pairs would be counted differently.                                     *)
Accounted(i) ==
    \/ \E n \in DOMAIN found : found[n].start = i \/ Inside(i, found[n])
    \/ OddBraces(text, i)

IsPlaceholder(range) ==
    /\ Occurs(text, range.start) /\ ~OddBraces(text, range.start)
    /\ range.end - 2 \in range.start + 2 .. Len(text)
    /\ At(CLOSE, text, range.end - 2)
    /\ \A j \in (range.start + 2) .. (range.end - 3) : ~At(CLOSE, text, j)

ScanInv ==
    command = "render" =>
        /\ \A n \in 1 .. Len(found) : IsPlaceholder(found[n])
        /\ phase = "scan" =>
            /\ ~OddBraces(text, cursor)
            /\ \A i \in 1 .. Len(text) : Occurs(text, i) /\ i < cursor => Accounted(i)
        /\ phase # "scan" => \A i \in 1 .. Len(text) : Occurs(text, i) => Accounted(i)

(* Where the next group starts the run of braces is even.                  *)
LEMMA GroupStart ==
    ASSUME Shapes, ~OddBraces(text, cursor),
           NEW start \in 1 .. Len(text), NEW end \in 1 .. Len(text), Group(start, end)
    PROVE  ~OddBraces(text, start)
<1>1. /\ text \in Str /\ Len(text) \in Nat /\ cursor \in Nat /\ cursor >= 1
      /\ DOMAIN text = 1 .. Len(text)
  BY Numbers DEF Shapes, Str
<1>2. /\ cursor <= start /\ start + 1 <= Len(text) /\ text[start] = Brace
      /\ \A j \in cursor .. (start - 1) : ~At(OPEN, text, j)
  BY GroupIs
<1>3. CASE start = cursor
  BY <1>3
<1>4. CASE start # cursor
  <2>1. start - 1 \in cursor .. (start - 1) /\ start - 1 \in Nat \ {0} /\ (start - 1) + 1 = start
    BY <1>1, <1>2, <1>4
  <2>2. ~At(OPEN, text, start - 1) /\ start <= Len(text)
    BY <1>2, <2>1
  <2>3. text[start - 1] # Brace
    BY <1>1, <1>2, <2>1, <2>2, BracesAt
  <2>4. ~OddRun(Brace, text, start)
    BY <1>1, <2>3, NoBraceBefore
  <2> QED BY <2>4, BraceRuns DEF Brace
<1> QED BY <1>3, <1>4

(* A placeholder before what is behind the opening braces.                 *)
LEMMA UpToGroup ==
    ASSUME Shapes, ScanInv, command = "render", phase = "scan",
           NEW start \in 1 .. Len(text), NEW end \in 1 .. Len(text), Group(start, end),
           NEW i \in 1 .. Len(text), Occurs(text, i), i <= start + 1, i # start
    PROVE  Accounted(i)
<1>1. text \in Str /\ Len(text) \in Nat /\ cursor \in Nat /\ start \in Nat
  BY Numbers DEF Shapes
<1>2. /\ cursor <= start /\ start + 1 <= Len(text) /\ text[start] = Brace
      /\ \A j \in cursor .. (start - 1) : ~At(OPEN, text, j)
  BY GroupIs
<1>3. CASE i < cursor
  BY <1>3 DEF ScanInv
<1>4. CASE cursor <= i /\ i < start
  <2>1. i \in cursor .. (start - 1)
    BY <1>1, <1>4
  <2> QED BY <1>2, <2>1 DEF Occurs
<1>5. CASE i = start + 1
  <2>1. ~OddBraces(text, start)
    BY GroupStart DEF ScanInv
  <2>2. text \in Seq(Symbol) /\ text[start] = Brace /\ ~OddRun(Brace, text, start)
    BY <1>1, <1>2, <2>1, BraceRuns DEF Str, Brace
  <2>3. OddRun(Brace, text, start + 1)
    BY <2>2, OneBraceOn
  <2> QED BY <1>5, <2>3, BraceRuns DEF Brace, Accounted
<1> QED BY <1>1, <1>3, <1>4, <1>5

(* What the scan has found stays accounted for.                            *)
LEMMA StaysAccounted ==
    ASSUME UNCHANGED text, DOMAIN found \subseteq DOMAIN found',
           \A n \in DOMAIN found : found'[n] = found[n], NEW i, Accounted(i)
    PROVE  Accounted(i)'
BY DEF Accounted, Inside

LEMMA FoundInOrder ==
    ASSUME Shapes, NEW r
    PROVE  /\ DOMAIN found = 1 .. Len(found)
           /\ DOMAIN Append(found, r) = 1 .. (Len(found) + 1)
           /\ \A n \in 1 .. Len(found) : Append(found, r)[n] = found[n]
           /\ Append(found, r)[Len(found) + 1] = r
           /\ Len(found) \in Nat /\ Len(Append(found, r)) = Len(found) + 1
<1>1. found \in Seq(Span \cup {r}) /\ r \in Span \cup {r}
  <2>1. found \in Seq(Span)
    BY DEF Shapes
  <2>2. Len(found) \in Nat /\ found \in [1 .. Len(found) -> Span]
    BY <2>1
  <2>3. found \in [1 .. Len(found) -> Span \cup {r}]
    BY <2>2
  <2> QED BY <2>2, <2>3
<1> QED BY <1>1, AppendProperties

LEMMA FoundKeeps ==
    ASSUME Shapes, InOrder, ScanInv, FindPlaceholder
    PROVE  ScanInv'
<1>0. /\ command = "render" /\ phase = "scan" /\ Len(text) \in Nat /\ cursor \in Nat
      /\ text \in Str /\ DOMAIN text = 1 .. Len(text)
  BY Numbers DEF FindPlaceholder, Scanning, Shapes, Str
<1>1. Len(OPEN) = 2 /\ Len(CLOSE) = 2
  BY DEF OPEN, CLOSE
<1>2. PICK start \in 1 .. Len(text), end \in 1 .. Len(text) :
        /\ Group(start, end)
        /\ IsReference(Inner(start, end))
        /\ Scanned(Append(found, [start |-> start, end |-> end + 2]), end + 2)
  BY <1>1 DEF FindPlaceholder, Behind
<1> DEFINE r == [start |-> start, end |-> end + 2]
<1>3. /\ UNCHANGED <<command, text, phase>> /\ cursor' = end + 2 /\ found' = Append(found, r)
  BY <1>2 DEF Scanned
<1>4. r.start = start /\ r.end = end + 2
  OBVIOUS
<1> HIDE DEF r
<1>5. /\ DOMAIN found = 1 .. Len(found) /\ DOMAIN found' = 1 .. (Len(found) + 1)
      /\ \A n \in 1 .. Len(found) : found'[n] = found[n]
      /\ found'[Len(found) + 1] = r /\ Len(found) \in Nat /\ Len(found') = Len(found) + 1
  BY <1>3, FoundInOrder
<1>6. /\ cursor <= start /\ start + 1 <= Len(text) /\ start + 2 <= end /\ end + 1 <= Len(text)
      /\ text[end + 1] = EndBrace
      /\ \A j \in (start + 2) .. (end - 1) : ~At(CLOSE, text, j)
      /\ First(CLOSE, text, start + 2, end)
      /\ At(OPEN, text, start)
  BY <1>2, GroupIs DEF Group, First
<1>7. ~OddBraces(text, cursor) /\ ~OddBraces(text, start)
  <2>1. ~OddBraces(text, cursor)
    BY <1>0 DEF ScanInv
  <2> QED BY <1>2, <2>1, GroupStart
<1>8. Occurs(text, start)
  BY <1>1, <1>2, <1>6 DEF Occurs, Inner
<1>9. IsPlaceholder(r)
  <2>1. r.end - 2 = end /\ r.end - 3 = end - 1 /\ r.end - 2 \in (r.start + 2) .. Len(text)
    BY <1>4, <1>6
  <2>2. At(CLOSE, text, end)
    BY <1>6 DEF First
  <2> QED BY <1>4, <1>6, <1>7, <1>8, <2>1, <2>2 DEF IsPlaceholder
<1>10. ASSUME NEW n \in 1 .. Len(found') PROVE IsPlaceholder(found'[n])
  <2>1. CASE n \in 1 .. Len(found)
    BY <1>0, <1>5, <2>1 DEF ScanInv
  <2>2. CASE n = Len(found) + 1
    BY <1>5, <1>9, <2>2
  <2> QED BY <1>5, <2>1, <2>2
<1>11. ~OddBraces(text, end + 2)
  <2>1. EndBrace # Brace
    BY DEF EndBrace, Brace
  <2>2. (end + 2) - 1 = end + 1 /\ end + 2 \in Nat
    OBVIOUS
  <2>3. ~OddRun(Brace, text, end + 2)
    BY <1>0, <1>6, <2>1, <2>2, NoBraceBefore
  <2> QED BY <2>3, BraceRuns DEF Brace
<1>12. ASSUME NEW i \in 1 .. Len(text), Occurs(text, i), i < end + 2
       PROVE  Accounted(i)'
  <2>1. CASE i = start
    BY <1>4, <1>5, <2>1 DEF Accounted
  <2>2. CASE start < i
    <3>1. Inside(i, r)
      BY <1>4, <1>12, <2>2 DEF Inside
    <3>2. Len(found) + 1 \in DOMAIN found' /\ Inside(i, found'[Len(found) + 1])
      BY <1>5, <3>1
    <3> QED BY <3>2 DEF Accounted, Inside
  <2>3. CASE i < start
    <3>1. i <= start + 1 /\ i # start
      BY <2>3
    <3>2. Accounted(i)
      BY <1>0, <1>2, <1>12, <3>1, UpToGroup
    <3> QED BY <1>3, <1>5, <3>2, StaysAccounted
  <2> QED BY <2>1, <2>2, <2>3
<1>13. \A n \in 1 .. Len(found') : IsPlaceholder(found[n])'
  BY <1>3, <1>10 DEF IsPlaceholder
<1> QED BY <1>0, <1>3, <1>11, <1>12, <1>13 DEF ScanInv

LEMMA PassKeeps ==
    ASSUME Shapes, InOrder, ScanInv, PassOver
    PROVE  ScanInv'
<1>0. /\ command = "render" /\ phase = "scan" /\ Len(text) \in Nat /\ cursor \in Nat
      /\ text \in Str
  BY Numbers DEF PassOver, Scanning, Shapes
<1>1. Len(OPEN) = 2 /\ Len(CLOSE) = 2
  BY DEF OPEN, CLOSE
<1>2. PICK start \in 1 .. Len(text), end \in 1 .. Len(text) :
        /\ Group(start, end)
        /\ ~IsReference(Inner(start, end))
        /\ Scanned(found, start + 2)
  BY <1>1 DEF PassOver, Within
<1>3. UNCHANGED <<command, text, phase, found>> /\ cursor' = start + 2
  BY <1>2 DEF Scanned
<1>4. /\ text[start] = Brace /\ text[start + 1] = Brace /\ First(CLOSE, text, start + 2, end)
  BY <1>2, GroupIs
<1>5. ~OddBraces(text, start)
  BY <1>0, <1>2, GroupStart DEF ScanInv
<1>6. ~OddBraces(text, start + 2)
  <2>1. ~OddRun(Brace, text, start)
    BY <1>5, BraceRuns DEF Brace
  <2>2. ~OddRun(Brace, text, start + 2)
    <3>1. start \in Nat \ {0}
      OBVIOUS
    <3> QED BY <1>4, <2>1, <3>1, TwoBracesOn
  <2> QED BY <2>2, BraceRuns DEF Brace
<1>7. ~Occurs(text, start)
  <2> SUFFICES ASSUME NEW e \in 1 .. Len(text), First(CLOSE, text, start + 2, e),
                      IsReference(Trim(Slice(text, start + 2, e)))
               PROVE  FALSE
    BY <1>1 DEF Occurs
  <2>1. e = end
    BY <1>0, <1>4, FirstIsOne
  <2> QED BY <1>1, <1>2, <2>1 DEF Inner
<1>8. ASSUME NEW i \in 1 .. Len(text), Occurs(text, i), i < start + 2
      PROVE  Accounted(i)
  <2>1. i # start /\ i <= start + 1
    BY <1>7, <1>8
  <2> QED BY <1>0, <1>2, <1>8, <2>1, UpToGroup
<1>9. \A i : Accounted(i)' = Accounted(i)
  BY <1>3 DEF Accounted, Inside
<1>10. \A range : IsPlaceholder(range)' = IsPlaceholder(range)
  BY <1>3 DEF IsPlaceholder
<1> QED BY <1>0, <1>3, <1>6, <1>8, <1>9, <1>10 DEF ScanInv

(* No group is left behind the cursor.                                     *)
LEMMA ScanEndKeepsIt ==
    ASSUME Shapes, ScanInv, ScanEnds
    PROVE  ScanInv'
<1>0. /\ phase = "scan" /\ phase' = "write" /\ UNCHANGED <<command, text, cursor, found>>
      /\ Len(text) \in Nat /\ cursor \in Nat
  BY Numbers DEF ScanEnds
<1>1. Len(OPEN) = 2
  BY DEF OPEN
<1>2. ASSUME command = "render", NEW i \in 1 .. Len(text), Occurs(text, i), cursor <= i
      PROVE  FALSE
  <2>1. /\ At(OPEN, text, i)
        /\ \E end \in 1 .. Len(text) : First(CLOSE, text, i + 2, end)
    BY <1>1, <1>2 DEF Occurs
  <2>2. PICK e \in 1 .. Len(text) : First(CLOSE, text, i + 2, e)
    BY <2>1
  <2>3. e \in (i + 2) .. Len(text) /\ At(CLOSE, text, e)
    BY <2>2 DEF First
  <2>4. i \in cursor .. Len(text)
    BY <1>0, <1>2
  <2>5. ~Absent(OPEN, text, cursor)
    BY <2>1, <2>4 DEF Absent
  <2>6. PICK start \in 1 .. Len(text) :
            First(OPEN, text, cursor, start) /\ Absent(CLOSE, text, start + 2)
    BY <1>1, <1>2, <2>5 DEF ScanEnds, NoGroup
  <2>7. \A j \in cursor .. (start - 1) : ~At(OPEN, text, j)
    BY <2>6 DEF First
  <2>8. start <= i
    BY <1>0, <1>2, <2>1, <2>7
  <2>9. e \in (start + 2) .. Len(text)
    BY <2>3, <2>8
  <2> QED BY <2>3, <2>6, <2>9 DEF Absent
<1>3. ASSUME command = "render", NEW i \in 1 .. Len(text), Occurs(text, i)
      PROVE  Accounted(i)
  <2>1. i < cursor
    BY <1>0, <1>2, <1>3
  <2> QED BY <1>0, <1>3, <2>1 DEF ScanInv
<1>4. \A i : Accounted(i)' = Accounted(i)
  BY <1>0 DEF Accounted, Inside
<1>5. \A range : IsPlaceholder(range)' = IsPlaceholder(range)
  BY <1>0 DEF IsPlaceholder
<1> QED BY <1>0, <1>3, <1>4, <1>5 DEF ScanInv

LEMMA ScanNext == CopyInv /\ ScanInv /\ [Next]_vars => ScanInv'
<1> SUFFICES ASSUME CopyInv, ScanInv, [Next]_vars PROVE ScanInv'
  OBVIOUS
<1>0. Shapes /\ InOrder
  BY DEF CopyInv
<1>1. CASE FindPlaceholder
  BY <1>0, <1>1, FoundKeeps
<1>2. CASE PassOver
  BY <1>0, <1>2, PassKeeps
<1>3. CASE FindToken \/ SkipMarker
  <2>1. command = "rewrap" /\ command' = command
    BY <1>3 DEF FindToken, SkipMarker, Scanning, Scanned
  <2>2. command' # "render"
    BY <2>1
  <2> QED BY <2>2 DEF ScanInv
<1>4. CASE ScanEnds
  BY <1>0, <1>4, ScanEndKeepsIt
<1>5. CASE Substitute \/ Replace \/ Keep \/ Refuse \/ CopyRest
  <2>1. phase # "scan" /\ phase' # "scan" /\ UNCHANGED <<command, text, found>>
    BY <1>5 DEF Substitute, Replace, Keep, Refuse, CopyRest, Writing, Write
  <2> QED BY <2>1 DEF ScanInv, Accounted, Inside, IsPlaceholder
<1>6. CASE UNCHANGED vars
  BY <1>6 DEF vars, ScanInv, Accounted, Inside, IsPlaceholder
<1> QED BY <1>1, <1>2, <1>3, <1>4, <1>5, <1>6 DEF Next

LEMMA ScanInit == Init => ScanInv
<1> SUFFICES ASSUME Init PROVE ScanInv
  OBVIOUS
<1>1. /\ cursor = 1 /\ found = << >> /\ phase = "scan" /\ text \in Str /\ Len(found) = 0
  BY TemplateAssumption, TextsAreStrs DEF Init
<1>2. Len(text) \in Nat /\ DOMAIN text = 1 .. Len(text) /\ 1 \in Nat
  BY <1>1 DEF Str
<1>3. ~OddRun(Brace, text, 1)
  BY <1>2, NoBraceBefore
<1>4. ~OddBraces(text, cursor)
  BY <1>1, <1>3, BraceRuns DEF Brace
<1>5. \A i \in 1 .. Len(text) : ~(i < cursor)
  BY <1>1
<1>6. 1 .. Len(found) = {}
  BY <1>1
<1> QED BY <1>1, <1>4, <1>5, <1>6 DEF ScanInv

(* A range that ends behind its first closing braces.                      *)
LEMMA NoneInside ==
    ASSUME Shapes, NEW range, range.start \in Nat \ {0}, range.end \in 1 .. (Len(text) + 1),
           IsPlaceholder(range)
    PROVE  Absent(CLOSE, Slice(text, 1, range.end - 1), range.start + Len(OPEN))
<1> DEFINE e == range.end - 2
           from == range.start + 2
           front == Slice(text, 1, range.end - 1)
<1>1. text \in Str /\ text \in Seq(Symbol) /\ Len(text) \in Nat /\ Len(OPEN) = 2
  BY DEF Shapes, Str, OPEN
<1>2. e \in from .. Len(text) /\ \A j \in from .. (range.end - 3) : ~At(CLOSE, text, j)
  BY DEF IsPlaceholder
<1>3. e \in Nat /\ from \in Nat \ {0} /\ e = (range.end - 1) - 1 /\ range.end - 1 = e + 1
      /\ range.end - 1 \in 1 .. (Len(text) + 1) /\ range.end - 3 = e - 1
  BY <1>1, <1>2, SMTT(40)
<1>4. front \in Str /\ Len(front) = e /\ \A k \in 1 .. e : front[k] = text[k]
  <2>1. \A i \in 1 .. (Len(text) + 1) : \A j \in i .. (Len(text) + 1) :
            /\ Slice(text, i, j) \in Seq(Symbol) /\ Len(Slice(text, i, j)) = j - i
            /\ \A k \in 1 .. (j - i) : Slice(text, i, j)[k] = text[i + k - 1]
    BY <1>1, SliceIs
  <2>2. 1 \in 1 .. (Len(text) + 1)
    BY <1>1
  <2>3. /\ front \in Seq(Symbol) /\ Len(front) = (range.end - 1) - 1
        /\ \A k \in 1 .. ((range.end - 1) - 1) : front[k] = text[1 + k - 1]
    BY <1>3, <2>1, <2>2
  <2> HIDE DEF front
  <2>4. \A k \in 1 .. e : 1 + k - 1 = k
    OBVIOUS
  <2> QED BY <1>3, <2>3, <2>4 DEF Str
<1> HIDE DEF e, from, front
<1>5. ASSUME NEW j \in from .. e, At(CLOSE, front, j) PROVE FALSE
  <2>1. j \in Nat \ {0}
    BY <1>3
  <2>2. j + 1 <= e /\ front[j] = EndBrace /\ front[j + 1] = EndBrace
    BY <1>4, <1>5, <2>1, BracesAt
  <2>3. j \in 1 .. e /\ j + 1 \in 1 .. e /\ j + 1 <= Len(text) /\ j \in from .. (e - 1)
    BY <1>1, <1>2, <1>3, <2>1, <2>2, SMTT(30)
  <2>4. At(CLOSE, text, j)
    BY <1>1, <1>4, <2>1, <2>2, <2>3, BracesAt
  <2> QED BY <1>2, <1>3, <2>3, <2>4
<1>6. Absent(CLOSE, front, from)
  BY <1>4, <1>5 DEF Absent
<1> QED BY <1>1, <1>6 DEF front, from

LEMMA ScanImplies == CopyInv /\ ScanInv => EveryPlaceholderFound
<1> SUFFICES ASSUME CopyInv, ScanInv, command = "render", phase # "scan"
             PROVE  EveryPlaceholderFound
  BY DEF EveryPlaceholderFound
<1>0. /\ Shapes /\ InOrder /\ DOMAIN found = 1 .. Len(found) /\ Len(found) \in Nat
      /\ Len(text) \in Nat /\ cursor \in 1 .. (Len(text) + 1) /\ found \in Seq(Span)
      /\ DOMAIN text = 1 .. Len(text)
  BY Numbers DEF CopyInv, Shapes, Str
<1>1. ASSUME NEW n \in DOMAIN found
      PROVE  /\ IsPlaceholder(found[n]) /\ found[n].start \in 1 .. Len(text)
             /\ Occurs(text, found[n].start) /\ ~OddBraces(text, found[n].start)
             /\ At(CLOSE, text, found[n].end - 2)
             /\ Absent(CLOSE, Slice(text, 1, found[n].end - 1), found[n].start + Len(OPEN))
             /\ n > 1 => found[n - 1].end <= found[n].start
  <2>1. n \in 1 .. Len(found)
    BY <1>0
  <2>2. IsPlaceholder(found[n])
    BY <1>0, <2>1 DEF ScanInv
  <2>3. /\ found[n].start \in Nat /\ found[n].end \in Nat /\ 1 <= found[n].start
        /\ found[n].start < found[n].end /\ found[n].end <= cursor
    BY <1>0, <2>1, Numbers DEF InOrder
  <2>4. /\ found[n].start \in Nat \ {0} /\ found[n].end \in 1 .. (Len(text) + 1)
        /\ found[n].start \in 1 .. Len(text)
    BY <1>0, <2>3
  <2>5. Absent(CLOSE, Slice(text, 1, found[n].end - 1), found[n].start + Len(OPEN))
    BY <1>0, <2>2, <2>4, NoneInside
  <2>6. n > 1 => found[n - 1].end <= found[n].start
    BY <2>1 DEF CopyInv, InOrder
  <2> QED BY <2>2, <2>4, <2>5, <2>6 DEF IsPlaceholder
<1>2. \A i \in 1 .. Len(text) : Occurs(text, i) => Accounted(i)
  BY DEF ScanInv
<1>3. Len(CLOSE) = 2
  BY DEF CLOSE
<1>4. ASSUME NEW i \in 1 .. Len(text), Occurs(text, i), ~BehindBrace(text, i)
      PROVE  \E n \in DOMAIN found : found[n].start = i \/ Inside(i, found[n])
  <2>1. Accounted(i)
    BY <1>2, <1>4
  <2>2. i = 1 \/ text[i - 1] # Brace
    BY <1>4, Zenon DEF BehindBrace, Brace
  <2>3. ~OddRun(Brace, text, i)
    BY <1>0, <1>4, <2>2, NoBraceBefore
  <2>4. ~OddBraces(text, i)
    BY <2>3, BraceRuns DEF Brace
  <2> QED BY <2>1, <2>4 DEF Accounted
<1> QED BY <1>1, <1>3, <1>4 DEF EveryPlaceholderFound

LEMMA KindIsFound ==
    ASSUME CopyInv, ScanInv, command = "render", phase # "scan"
    PROVE  (found # << >>) = HasPlaceholder(text)
<1>0. DOMAIN found = 1 .. Len(found) /\ Len(found) \in Nat /\ found \in Seq(Span)
  BY Numbers DEF CopyInv, Shapes
<1>1. ASSUME found # << >> PROVE HasPlaceholder(text)
  <2>1. 1 \in 1 .. Len(found)
    BY <1>0, <1>1
  <2>2. IsPlaceholder(found[1])
    BY <2>1 DEF ScanInv
  <2>3. found[1].start \in 1 .. Len(text)
    BY <1>0, <2>1, Numbers DEF CopyInv, Shapes, InOrder
  <2> QED BY <2>2, <2>3 DEF IsPlaceholder, HasPlaceholder
<1>2. ASSUME HasPlaceholder(text) PROVE found # << >>
  <2>1. PICK i \in 1 .. Len(text) : Occurs(text, i) /\ ~OddBraces(text, i)
    BY <1>2 DEF HasPlaceholder
  <2>2. PICK n \in DOMAIN found : TRUE
    BY <2>1 DEF ScanInv, Accounted
  <2> QED BY <1>0, <2>2
<1>3. HasPlaceholder(text) \in BOOLEAN
  BY DEF HasPlaceholder
<1> QED BY <1>1, <1>2, <1>3

(* The scan for placeholders overlooks none and takes nothing else, in a   *)
(* text of any length, so that a text is a template just when one is found *)
(* (template.rs:31-57).                                                    *)
THEOREM TemplateScan == Spec => []EveryPlaceholderFound
<1>1. Init => CopyInv /\ ScanInv
  BY CopyInit, ScanInit
<1>2. CopyInv /\ ScanInv /\ [Next]_vars => CopyInv' /\ ScanInv'
  BY CopyNext, ScanNext
<1>3. CopyInv /\ ScanInv => EveryPlaceholderFound
  BY ScanImplies
<1> QED BY <1>1, <1>2, <1>3, PTL DEF Spec

(* check and protect ask whether a text is a template by HasPlaceholder:   *)
(* that is what the scan comes to, in a text of any length, what it        *)
(* overlooks behind an odd number of braces included (check.rs:150,        *)
(* protect.rs:60, template.rs:55).                                         *)
THEOREM TemplateKind ==
    Spec => [](command = "render" /\ phase # "scan" => (found # << >>) = HasPlaceholder(text))
<1>1. Init => CopyInv /\ ScanInv
  BY CopyInit, ScanInit
<1>2. CopyInv /\ ScanInv /\ [Next]_vars => CopyInv' /\ ScanInv'
  BY CopyNext, ScanNext
<1>3. CopyInv /\ ScanInv
        => (command = "render" /\ phase # "scan" => (found # << >>) = HasPlaceholder(text))
  BY KindIsFound
<1> QED BY <1>1, <1>2, <1>3, PTL DEF Spec

-----------------------------------------------------------------------------
(* The tokens of a text. Two markers do not overlap, and what the scan     *)
(* takes behind one is the longest reference that parses there.            *)
LEMMA MarkerSymbols ==
    /\ MARKER \in Seq(Symbol) /\ Len(MARKER) = 4
    /\ MARKER[1] # MARKER[2] /\ MARKER[1] # MARKER[3] /\ MARKER[1] # MARKER[4]
<1>1. MARKER = <<"seal", ":", "v1", ":">>
  BY DEF MARKER
<1>2. MARKER \in Seq(Symbol)
  <2>1. "seal" \in Symbol /\ ":" \in Symbol /\ "v1" \in Symbol
    BY DEF Symbol
  <2>2. \A x, y, z \in Symbol : <<x, y, z, y>> \in Seq(Symbol)
    OBVIOUS
  <2> QED BY <1>1, <2>1, <2>2
<1>3. /\ Len(MARKER) = 4 /\ MARKER[1] = "seal" /\ MARKER[2] = ":" /\ MARKER[3] = "v1"
      /\ MARKER[4] = ":"
  BY <1>1
<1> QED BY <1>2, <1>3

LEMMA MarkersApart ==
    ASSUME NEW t \in Str, NEW i \in Nat \ {0}, At(MARKER, t, i), NEW j \in (i + 1) .. (i + 3)
    PROVE  ~At(MARKER, t, j)
<1>1. t \in Seq(Symbol) /\ j \in Nat \ {0}
  BY DEF Str
<1>2. \A n \in Nat \ {0} : At(MARKER, t, n) <=>
          n + Len(MARKER) <= Len(t) + 1 /\ \A k \in 1 .. Len(MARKER) : t[n + k - 1] = MARKER[k]
  <2>1. t \in Seq(Symbol) /\ MARKER \in Seq(Symbol)
    BY <1>1, MarkerSymbols
  <2> QED BY ONLY <2>1, AtSymbols
<1>3. SUFFICES ASSUME At(MARKER, t, j) PROVE FALSE
  OBVIOUS
<1>4. t[j] = MARKER[1]
  <2>1. 1 \in 1 .. 4 /\ j + 1 - 1 = j
    BY <1>1
  <2> QED BY <1>1, <1>2, <1>3, <2>1, MarkerSymbols
<1>5. t[i + 1] = MARKER[2] /\ t[i + 2] = MARKER[3] /\ t[i + 3] = MARKER[4]
  <2>1. /\ 2 \in 1 .. 4 /\ 3 \in 1 .. 4 /\ 4 \in 1 .. 4
        /\ i + 2 - 1 = i + 1 /\ i + 3 - 1 = i + 2 /\ i + 4 - 1 = i + 3
    OBVIOUS
  <2> QED BY <1>2, <2>1, MarkerSymbols
<1>6. j = i + 1 \/ j = i + 2 \/ j = i + 3
  OBVIOUS
<1> QED BY <1>4, <1>5, <1>6, MarkerSymbols

LEMMA Classes ==
    /\ KidByte = {"seal", "v1", "k", "o", "n", "."}
    /\ Base64Url = {"seal", "v1", "k", "o", "n"}
    /\ ":" \notin KidByte
BY DEF KidByte, Base64Url

Colon == ":"

LEMMA ColonAt ==
    ASSUME NEW t \in Str, NEW i \in Nat \ {0}
    PROVE  At(<<":">>, t, i) <=> i <= Len(t) /\ t[i] = Colon
<1> DEFINE word == <<Colon>>
<1>1. t \in Seq(Symbol) /\ Colon \in Symbol
  BY DEF Str, Symbol, Colon
<1>2. word \in Seq(Symbol) /\ Len(word) = 1 /\ word[1] = Colon
  BY <1>1
<1>3. <<":">> = word
  BY DEF Colon
<1> HIDE DEF word
<1> QED BY <1>1, <1>2, <1>3, SymbolAt

(* A reference that parses at i is what the scan takes there, or a         *)
(* beginning of it.                                                        *)
LEMMA ParsedIsTaken ==
    ASSUME Shapes, NEW i \in 1 .. Len(text),
           NEW colon \in i .. Len(text), NEW e \in 1 .. (Len(text) + 1), Parses(text, i, colon, e)
    PROVE  HasToken(i) /\ colon = KidEnd(i) /\ e <= BlobEnd(i)
<1> DEFINE kid == Slice(text, i + 4, colon)
           blob == Slice(text, colon + 1, e)
<1>1. /\ text \in Str /\ text \in Seq(Symbol) /\ Len(text) \in Nat /\ Len(MARKER) = 4
      /\ i \in Nat \ {0} /\ colon \in Nat \ {0}
  BY MarkerSymbols DEF Shapes, Str
<1>2. /\ At(MARKER, text, i) /\ colon < Len(text) /\ text[colon] = Colon
      /\ kid # << >> /\ \A n \in DOMAIN kid : kid[n] \in KidByte
      /\ blob # << >> /\ \A n \in DOMAIN blob : blob[n] \in Base64Url
  BY <1>1, Classes DEF Parses, Colon
<1>3. i + 4 <= Len(text) + 1
  BY <1>1, <1>2, MarkerIs
<1>4. i + 4 < colon
  <2> SUFFICES ASSUME colon <= i + 4 PROVE FALSE
    BY <1>1
  <2>1. i + 4 \in Int /\ colon - 1 \in Int /\ ~(i + 4 <= colon - 1)
    BY <1>1
  <2>2. SubSeq(text, i + 4, colon - 1) = << >>
    BY <1>1, <2>1, SubSeqEmpty
  <2> QED BY <1>2, <2>2 DEF Slice
<1>5. colon + 1 < e
  <2> SUFFICES ASSUME e <= colon + 1 PROVE FALSE
    BY <1>1
  <2>1. colon + 1 \in Int /\ e - 1 \in Int /\ ~(colon + 1 <= e - 1)
    BY <1>1
  <2>2. SubSeq(text, colon + 1, e - 1) = << >>
    BY <1>1, <2>1, SubSeqEmpty
  <2> QED BY <1>2, <2>2 DEF Slice
<1>6. \A a \in 1 .. (Len(text) + 1) : \A b \in a .. (Len(text) + 1) :
          /\ Slice(text, a, b) \in Seq(Symbol) /\ Len(Slice(text, a, b)) = b - a
          /\ \A k \in 1 .. (b - a) : Slice(text, a, b)[k] = text[a + k - 1]
  BY <1>1, SliceIs
<1>7. ASSUME NEW j \in (i + 4) .. (colon - 1) PROVE text[j] \in KidByte
  <2>1. i + 4 \in 1 .. (Len(text) + 1) /\ colon \in (i + 4) .. (Len(text) + 1)
    BY <1>1, <1>3, <1>4
  <2>2. /\ kid \in Seq(Symbol) /\ Len(kid) = colon - (i + 4)
        /\ \A k \in 1 .. (colon - (i + 4)) : kid[k] = text[(i + 4) + k - 1]
    BY <1>6, <2>1
  <2> HIDE DEF kid
  <2>3. j - (i + 4) + 1 \in 1 .. (colon - (i + 4)) /\ (i + 4) + (j - (i + 4) + 1) - 1 = j
    BY <1>1
  <2>4. j - (i + 4) + 1 \in DOMAIN kid
    BY <2>2, <2>3
  <2> QED BY <1>2, <2>2, <2>3, <2>4
<1>8. ASSUME NEW j \in (colon + 1) .. (e - 1) PROVE text[j] \in Base64Url
  <2>1. colon + 1 \in 1 .. (Len(text) + 1) /\ e \in (colon + 1) .. (Len(text) + 1)
    BY <1>1, <1>2, <1>5
  <2>2. /\ blob \in Seq(Symbol) /\ Len(blob) = e - (colon + 1)
        /\ \A k \in 1 .. (e - (colon + 1)) : blob[k] = text[(colon + 1) + k - 1]
    BY <1>6, <2>1
  <2> HIDE DEF blob
  <2>3. j - (colon + 1) + 1 \in 1 .. (e - (colon + 1)) /\ (colon + 1) + (j - (colon + 1) + 1) - 1 = j
    BY <1>1
  <2>4. j - (colon + 1) + 1 \in DOMAIN blob
    BY <2>2, <2>3
  <2> QED BY <1>2, <2>2, <2>3, <2>4
<1> HIDE DEF kid, blob
<1>9. KidEnd(i) = colon
  <2>1. text[colon] \notin KidByte
    BY <1>2, Classes DEF Colon
  <2>2. i + 4 \in Nat /\ colon \in (i + 4) .. (Len(text) + 1)
    BY <1>1, <1>4
  <2>3. RunEnd(KidByte, text, i + 4) = colon
    BY <1>1, <1>7, <2>1, <2>2, RunEndIs
  <2> QED BY <1>1, <2>3 DEF KidEnd
<1> DEFINE b == BlobEnd(i)
<1>10. /\ b \in (colon + 1) .. (Len(text) + 1)
       /\ b <= Len(text) => text[b] \notin Base64Url
  <2>1. b = RunEnd(Base64Url, text, colon + 1)
    BY <1>9 DEF BlobEnd
  <2>2. colon + 1 \in 1 .. (Len(text) + 1)
    BY <1>1, <1>2
  <2> HIDE DEF b
  <2> QED BY <1>1, <2>1, <2>2, RunEnds
<1> HIDE DEF b
<1>11. e <= b
  <2> SUFFICES ASSUME b < e PROVE FALSE
    BY <1>1, <1>10
  <2>1. b \in (colon + 1) .. (e - 1) /\ b <= Len(text)
    BY <1>1, <1>10
  <2> QED BY <1>8, <1>10, <2>1
<1>12. At(<<":">>, text, colon)
  BY <1>1, <1>2, ColonAt
<1>13. colon + 1 < b
  BY <1>1, <1>5, <1>10, <1>11
<1>14. HasToken(i)
  BY <1>1, <1>4, <1>9, <1>12, <1>13 DEF HasToken, b
<1> QED BY <1>9, <1>11, <1>14 DEF b

LEMMA TakenParses ==
    ASSUME Shapes, NEW i \in 1 .. Len(text), At(MARKER, text, i), HasToken(i)
    PROVE  /\ Parses(text, i, KidEnd(i), BlobEnd(i))
           /\ KidEnd(i) \in (i + 5) .. Len(text)
           /\ BlobEnd(i) \in (KidEnd(i) + 2) .. (Len(text) + 1)
<1> DEFINE k == KidEnd(i)
           b == BlobEnd(i)
           kid == Slice(text, i + 4, k)
           blob == Slice(text, k + 1, b)
<1>1. /\ text \in Str /\ text \in Seq(Symbol) /\ Len(text) \in Nat /\ Len(MARKER) = 4
      /\ i \in Nat \ {0} /\ i + 4 <= Len(text) + 1
  <2>1. text \in Str /\ text \in Seq(Symbol) /\ Len(text) \in Nat /\ i \in Nat \ {0}
    BY DEF Shapes, Str
  <2> QED BY <2>1, MarkerIs
<1>2. /\ k \in (i + 4) .. (Len(text) + 1)
      /\ \A j \in (i + 4) .. (k - 1) : text[j] \in KidByte
  <2>1. i + 4 \in 1 .. (Len(text) + 1) /\ k = RunEnd(KidByte, text, i + 4)
    BY <1>1 DEF KidEnd
  <2> HIDE DEF k
  <2> QED BY <1>1, <2>1, RunEnds
<1>3. i + 4 < k /\ At(<<":">>, text, k) /\ k + 1 < b
  BY <1>1 DEF HasToken
<1>4. k \in Nat \ {0} /\ k <= Len(text) /\ text[k] = Colon
  <2>1. k \in Nat \ {0}
    BY <1>1, <1>2
  <2> HIDE DEF k
  <2> QED BY <1>1, <1>3, <2>1, ColonAt
<1>5. /\ b \in (k + 1) .. (Len(text) + 1)
      /\ \A j \in (k + 1) .. (b - 1) : text[j] \in Base64Url
  <2>1. k + 1 \in 1 .. (Len(text) + 1) /\ b = RunEnd(Base64Url, text, k + 1)
    BY <1>1, <1>4 DEF BlobEnd
  <2> HIDE DEF k, b
  <2> QED BY <1>1, <2>1, RunEnds
<1> HIDE DEF k, b
<1>6. \A x \in 1 .. (Len(text) + 1) : \A y \in x .. (Len(text) + 1) :
          /\ Slice(text, x, y) \in Seq(Symbol) /\ Len(Slice(text, x, y)) = y - x
          /\ \A n \in 1 .. (y - x) : Slice(text, x, y)[n] = text[x + n - 1]
  BY <1>1, SliceIs
<1>7. kid # << >> /\ \A n \in DOMAIN kid : kid[n] \in KidByte
  <2>1. i + 4 \in 1 .. (Len(text) + 1) /\ k \in (i + 4) .. (Len(text) + 1)
    BY <1>1, <1>2
  <2>2. /\ kid \in Seq(Symbol) /\ Len(kid) = k - (i + 4)
        /\ \A n \in 1 .. (k - (i + 4)) : kid[n] = text[(i + 4) + n - 1]
    BY <1>6, <2>1
  <2> HIDE DEF kid
  <2>3. kid # << >>
    BY <1>1, <1>3, <1>4, <2>2
  <2>4. ASSUME NEW n \in DOMAIN kid PROVE kid[n] \in KidByte
    <3>1. n \in 1 .. (k - (i + 4)) /\ (i + 4) + n - 1 \in (i + 4) .. (k - 1)
      BY <1>1, <1>4, <2>2, SMTT(30)
    <3> QED BY <1>2, <2>2, <3>1
  <2> QED BY <2>3, <2>4
<1>8. blob # << >> /\ \A n \in DOMAIN blob : blob[n] \in Base64Url
  <2>1. k + 1 \in 1 .. (Len(text) + 1) /\ b \in (k + 1) .. (Len(text) + 1) /\ b \in Nat
    BY <1>1, <1>4, <1>5
  <2>2. /\ blob \in Seq(Symbol) /\ Len(blob) = b - (k + 1)
        /\ \A n \in 1 .. (b - (k + 1)) : blob[n] = text[(k + 1) + n - 1]
    BY <1>6, <2>1
  <2> HIDE DEF blob
  <2>3. blob # << >>
    BY <1>3, <1>4, <2>1, <2>2
  <2>4. ASSUME NEW n \in DOMAIN blob PROVE blob[n] \in Base64Url
    <3>1. n \in 1 .. (b - (k + 1)) /\ (k + 1) + n - 1 \in (k + 1) .. (b - 1)
      BY <1>4, <2>1, <2>2, SMTT(30)
    <3> QED BY <1>5, <2>2, <3>1
  <2> QED BY <2>3, <2>4
<1>9. k \in (i + 5) .. Len(text) /\ b \in (k + 2) .. (Len(text) + 1)
  BY <1>1, <1>3, <1>4, <1>5
<1>10. k < Len(text)
  BY <1>1, <1>9
<1> HIDE DEF kid, blob
<1>11. Parses(text, i, k, b)
  <2>1. text[k] = ":"
    BY <1>4 DEF Colon
  <2>2. /\ \A n \in DOMAIN kid : kid[n] \in {"seal", "v1", "k", "o", "n", "."}
        /\ \A n \in DOMAIN blob : blob[n] \in {"seal", "v1", "k", "o", "n"}
    BY <1>7, <1>8, Classes
  <2> QED BY <1>1, <1>7, <1>8, <1>10, <2>1, <2>2 DEF Parses, kid, blob
<1> QED BY <1>9, <1>11 DEF k, b

(* What TokensOf asks of a position.                                       *)
LEMMA LongestIsTaken ==
    ASSUME Shapes, NEW i \in 1 .. Len(text)
    PROVE  /\ At(MARKER, text, i) /\ EndsAt(text, i) # {} <=> At(MARKER, text, i) /\ HasToken(i)
           /\ At(MARKER, text, i) /\ HasToken(i) =>
                /\ EndAt(text, i) = BlobEnd(i)
                /\ \A c \in i .. Len(text) : Parses(text, i, c, BlobEnd(i)) <=> c = KidEnd(i)
<1>1. Len(text) \in Nat /\ i \in Nat /\ Len(MARKER) = 4
  BY Numbers, MarkerSymbols
<1>2. ASSUME NEW e \in EndsAt(text, i) PROVE HasToken(i) /\ e <= BlobEnd(i) /\ e \in Nat
  <2>1. /\ e \in (i + 7) .. (Len(text) + 1)
        /\ \E colon \in (i + 5) .. (e - 2) : Parses(text, i, colon, e)
    BY <1>1 DEF EndsAt
  <2>2. PICK colon \in (i + 5) .. (e - 2) : Parses(text, i, colon, e)
    BY <2>1
  <2>3. colon \in i .. Len(text) /\ e \in 1 .. (Len(text) + 1)
    BY <1>1, <2>1
  <2> QED BY <2>2, <2>3, ParsedIsTaken
<1>3. ASSUME At(MARKER, text, i), HasToken(i)
      PROVE  /\ BlobEnd(i) \in EndsAt(text, i) /\ BlobEnd(i) \in 1 .. (Len(text) + 1)
             /\ KidEnd(i) \in i .. Len(text)
             /\ Parses(text, i, KidEnd(i), BlobEnd(i))
  <2>1. /\ Parses(text, i, KidEnd(i), BlobEnd(i))
        /\ KidEnd(i) \in (i + 5) .. Len(text)
        /\ BlobEnd(i) \in (KidEnd(i) + 2) .. (Len(text) + 1)
    BY <1>3, TakenParses
  <2>2. KidEnd(i) \in (i + 5) .. (BlobEnd(i) - 2) /\ BlobEnd(i) \in (i + 7) .. (Len(text) + 1)
    BY <1>1, <2>1
  <2>3. BlobEnd(i) \in EndsAt(text, i)
    BY <1>1, <2>1, <2>2 DEF EndsAt
  <2> QED BY <1>1, <2>1, <2>2, <2>3
<1>4. ASSUME At(MARKER, text, i), HasToken(i) PROVE EndAt(text, i) = BlobEnd(i)
  <2>1. BlobEnd(i) \in EndsAt(text, i) /\ \A f \in EndsAt(text, i) : f <= BlobEnd(i) /\ f \in Nat
    BY <1>2, <1>3, <1>4
  <2>2. \A e \in EndsAt(text, i) : (\A f \in EndsAt(text, i) : f <= e) => e = BlobEnd(i)
    BY <2>1
  <2> QED BY <2>1, <2>2 DEF EndAt
<1>5. ASSUME At(MARKER, text, i), HasToken(i), NEW c \in i .. Len(text),
             Parses(text, i, c, BlobEnd(i))
      PROVE  c = KidEnd(i)
  BY <1>3, <1>5, ParsedIsTaken
<1> QED BY <1>2, <1>3, <1>4, <1>5

(* The scan for tokens. A token that starts before the cursor is found, or *)
(* starts inside one that is.                                              *)
StartsAt(i) == At(MARKER, text, i) /\ HasToken(i)

Covered(i) == \E n \in 1 .. Len(found) : found[n].start <= i /\ i < found[n].end

IsToken(range) ==
    /\ range.start \in 1 .. Len(text) /\ StartsAt(range.start)
    /\ range = Token(text, range.start, KidEnd(range.start), BlobEnd(range.start))

TokenInv ==
    command = "rewrap" =>
        /\ \A n \in 1 .. Len(found) : IsToken(found[n])
        /\ \A m, n \in 1 .. Len(found) : m < n => found[m].end <= found[n].start
        /\ \A i \in 1 .. Len(text) :
            StartsAt(i) /\ (phase = "scan" => i < cursor) => Covered(i)

LEMMA TokenInit == Init => TokenInv
<1> SUFFICES ASSUME Init PROVE TokenInv
  OBVIOUS
<1>1. cursor = 1 /\ found = << >> /\ phase = "scan" /\ Len(found) = 0
  BY DEF Init
<1>2. 1 .. Len(found) = {} /\ \A i \in 1 .. Len(text) : ~(i < cursor)
  BY <1>1
<1> QED BY <1>1, <1>2 DEF TokenInv

LEMMA SameTokens ==
    ASSUME UNCHANGED text
    PROVE  /\ \A i : StartsAt(i)' <=> StartsAt(i)
           /\ \A i : KidEnd(i)' = KidEnd(i) /\ BlobEnd(i)' = BlobEnd(i)
BY DEF StartsAt, HasToken, KidEnd, BlobEnd

LEMMA FindKeepsTokens ==
    ASSUME Shapes, InOrder, TokenInv, FindToken
    PROVE  TokenInv'
<1>0. /\ command = "rewrap" /\ phase = "scan" /\ Len(text) \in Nat /\ cursor \in Nat
      /\ text \in Str /\ Len(MARKER) = 4
  BY Numbers, MarkerSymbols DEF FindToken, Scanning, Shapes
<1>1. PICK start \in 1 .. Len(text) :
        /\ First(MARKER, text, cursor, start) /\ HasToken(start)
        /\ Scanned(Append(found, Token(text, start, KidEnd(start), BlobEnd(start))),
                   BlobEnd(start))
  BY DEF FindToken
<1> DEFINE r == Token(text, start, KidEnd(start), BlobEnd(start))
           b == BlobEnd(start)
<1>2. /\ UNCHANGED <<command, text, phase>> /\ cursor' = b /\ found' = Append(found, r)
  BY <1>1 DEF Scanned
<1>3. r.start = start /\ r.end = b
  BY DEF Token
<1>4. b \in Nat /\ start < b /\ cursor <= start /\ start \in Nat
  <2>1. /\ KidEnd(start) \in (start + 5) .. Len(text)
        /\ b \in (KidEnd(start) + 2) .. (Len(text) + 1)
    BY <1>0, <1>1, TokenIs
  <2>2. cursor <= start
    BY <1>1 DEF First
  <2> HIDE DEF b
  <2> QED BY <1>0, <2>1, <2>2
<1>5. StartsAt(start) /\ \A j \in cursor .. (start - 1) : ~At(MARKER, text, j)
  BY <1>1 DEF StartsAt, First
<1>6. IsToken(r)
  BY <1>3, <1>5 DEF IsToken
<1> HIDE DEF r, b
<1>7. /\ \A n \in 1 .. Len(found) : found'[n] = found[n]
      /\ found'[Len(found) + 1] = r /\ Len(found) \in Nat /\ Len(found') = Len(found) + 1
  BY <1>2, FoundInOrder
<1>8. ASSUME NEW n \in 1 .. Len(found') PROVE IsToken(found'[n])
  <2>1. CASE n \in 1 .. Len(found)
    BY <1>0, <1>7, <2>1 DEF TokenInv
  <2>2. CASE n = Len(found) + 1
    BY <1>6, <1>7, <2>2
  <2> QED BY <1>7, <2>1, <2>2
<1>9. \A n \in 1 .. Len(found') : IsToken(found[n])'
  BY <1>2, <1>8, SameTokens DEF IsToken, Token
<1>10. ASSUME NEW m \in 1 .. Len(found'), NEW n \in 1 .. Len(found'), m < n
       PROVE  found'[m].end <= found'[n].start
  <2>1. m \in 1 .. Len(found) /\ found'[m] = found[m]
    BY <1>7, <1>10
  <2>2. CASE n \in 1 .. Len(found)
    BY <1>0, <1>7, <1>10, <2>1, <2>2 DEF TokenInv
  <2>3. CASE n = Len(found) + 1
    <3>1. found[m].end <= cursor /\ found[m].end \in Nat
      BY <2>1, Numbers DEF InOrder
    <3> QED BY <1>0, <1>3, <1>4, <1>7, <2>1, <2>3, <3>1
  <2> QED BY <1>7, <2>2, <2>3
<1>11. ASSUME NEW i \in 1 .. Len(text), StartsAt(i), i < b
       PROVE  \E n \in 1 .. Len(found') : found'[n].start <= i /\ i < found'[n].end
  <2>1. CASE i < cursor
    <3>1. PICK n \in 1 .. Len(found) : found[n].start <= i /\ i < found[n].end
      BY <1>0, <1>11, <2>1 DEF TokenInv, Covered
    <3> QED BY <1>7, <3>1
  <2>2. CASE cursor <= i /\ i < start
    <3>1. i \in cursor .. (start - 1)
      BY <1>0, <1>4, <2>2
    <3> QED BY <1>5, <1>11, <3>1 DEF StartsAt
  <2>3. CASE start <= i
    BY <1>3, <1>7, <1>11, <2>3
  <2> QED BY <1>0, <1>4, <2>1, <2>2, <2>3
<1>12. \A i \in 1 .. Len(text) :
          StartsAt(i) /\ i < b =>
              \E n \in 1 .. Len(found') : found'[n].start <= i /\ i < found'[n].end
  BY <1>11
<1>13. \A i : StartsAt(i)' <=> StartsAt(i)
  BY <1>2, SameTokens
<1> QED BY <1>0, <1>2, <1>9, <1>10, <1>12, <1>13 DEF TokenInv, Covered

LEMMA SkipKeepsTokens ==
    ASSUME Shapes, InOrder, TokenInv, SkipMarker
    PROVE  TokenInv'
<1>0. /\ command = "rewrap" /\ phase = "scan" /\ Len(text) \in Nat /\ cursor \in Nat
      /\ text \in Str /\ Len(MARKER) = 4
  BY Numbers, MarkerSymbols DEF SkipMarker, Scanning, Shapes
<1>1. PICK start \in 1 .. Len(text) :
        /\ First(MARKER, text, cursor, start) /\ ~HasToken(start)
        /\ Scanned(found, start + 4)
  BY <1>0 DEF SkipMarker, BehindMarker
<1>2. UNCHANGED <<command, text, phase, found>> /\ cursor' = start + 4
  BY <1>1 DEF Scanned
<1>3. /\ At(MARKER, text, start) /\ \A j \in cursor .. (start - 1) : ~At(MARKER, text, j)
      /\ start \in Nat \ {0}
  BY <1>1 DEF First
<1>4. ASSUME NEW i \in 1 .. Len(text), StartsAt(i), i < start + 4 PROVE Covered(i)
  <2>1. CASE i < cursor
    BY <1>0, <1>4, <2>1 DEF TokenInv
  <2>2. CASE cursor <= i /\ i < start
    <3>1. i \in cursor .. (start - 1)
      BY <1>0, <1>3, <2>2
    <3> QED BY <1>3, <1>4, <3>1 DEF StartsAt
  <2>3. CASE i = start
    BY <1>1, <1>4, <2>3 DEF StartsAt
  <2>4. CASE i \in (start + 1) .. (start + 3)
    BY <1>0, <1>3, <1>4, <2>4, MarkersApart DEF StartsAt
  <2> QED BY <1>0, <1>3, <1>4, <2>1, <2>2, <2>3, <2>4
<1>5. \A i : StartsAt(i)' <=> StartsAt(i)
  BY <1>2, SameTokens
<1>6. \A i : Covered(i)' <=> Covered(i)
  BY <1>2 DEF Covered
<1>7. \A n \in 1 .. Len(found) : IsToken(found[n])'
  <2>1. \A n \in 1 .. Len(found) : IsToken(found[n])
    BY <1>0 DEF TokenInv
  <2> QED BY <1>2, <2>1, SameTokens DEF IsToken, Token
<1>8. \A m, n \in 1 .. Len(found) : m < n => found[m].end <= found[n].start
  BY <1>0 DEF TokenInv
<1> QED BY <1>0, <1>2, <1>4, <1>5, <1>6, <1>7, <1>8 DEF TokenInv

LEMMA TokenEndKeepsIt ==
    ASSUME Shapes, TokenInv, ScanEnds
    PROVE  TokenInv'
<1>1. /\ phase = "scan" /\ phase' = "write" /\ UNCHANGED <<command, text, cursor, found>>
      /\ Len(text) \in Nat /\ cursor \in Nat
      /\ command = "rewrap" => Absent(MARKER, text, cursor)
  BY Numbers DEF ScanEnds
<1>2. ASSUME command = "rewrap", NEW i \in 1 .. Len(text), StartsAt(i) PROVE Covered(i)
  <2>1. i < cursor
    <3>1. ~(i \in cursor .. Len(text))
      BY <1>1, <1>2 DEF Absent, StartsAt
    <3> QED BY <1>1, <3>1
  <2> QED BY <1>2, <2>1 DEF TokenInv
<1>3. \A i : StartsAt(i)' <=> StartsAt(i)
  BY <1>1, SameTokens
<1>4. \A i : Covered(i)' <=> Covered(i)
  BY <1>1 DEF Covered
<1>5. command = "rewrap" => \A n \in 1 .. Len(found) : IsToken(found[n])'
  <2>1. command = "rewrap" => \A n \in 1 .. Len(found) : IsToken(found[n])
    BY DEF TokenInv
  <2> QED BY <1>1, <2>1, SameTokens DEF IsToken, Token
<1>6. command = "rewrap" =>
          \A m, n \in 1 .. Len(found) : m < n => found[m].end <= found[n].start
  BY DEF TokenInv
<1> QED BY <1>1, <1>2, <1>3, <1>4, <1>5, <1>6 DEF TokenInv

LEMMA TokenNext == CopyInv /\ TokenInv /\ [Next]_vars => TokenInv'
<1> SUFFICES ASSUME CopyInv, TokenInv, [Next]_vars PROVE TokenInv'
  OBVIOUS
<1>0. Shapes /\ InOrder
  BY DEF CopyInv
<1>1. CASE FindToken
  BY <1>0, <1>1, FindKeepsTokens
<1>2. CASE SkipMarker
  BY <1>0, <1>2, SkipKeepsTokens
<1>3. CASE FindPlaceholder \/ PassOver
  <2>1. command = "render" /\ command' = command
    BY <1>3 DEF FindPlaceholder, PassOver, Scanning, Scanned
  <2>2. command' # "rewrap"
    BY <2>1
  <2> QED BY <2>2 DEF TokenInv
<1>4. CASE ScanEnds
  BY <1>0, <1>4, TokenEndKeepsIt
<1>5. CASE (Substitute \/ Replace \/ Keep \/ Refuse \/ CopyRest) \/ UNCHANGED vars
  <2>1. /\ (phase = "scan") <=> (phase' = "scan")
        /\ UNCHANGED <<command, text, cursor, found>>
    BY <1>5 DEF Substitute, Replace, Keep, Refuse, CopyRest, Writing, Write, vars
  <2>2. \A i : StartsAt(i)' <=> StartsAt(i)
    BY <2>1, SameTokens
  <2>3. \A i : Covered(i)' <=> Covered(i)
    BY <2>1 DEF Covered
  <2>4. command = "rewrap" => \A n \in 1 .. Len(found) : IsToken(found[n])'
    <3>1. command = "rewrap" => \A n \in 1 .. Len(found) : IsToken(found[n])
      BY DEF TokenInv
    <3> QED BY <2>1, <3>1, SameTokens DEF IsToken, Token
  <2> QED BY <2>1, <2>2, <2>3, <2>4 DEF TokenInv
<1> QED BY <1>1, <1>2, <1>3, <1>4, <1>5 DEF Next

(* Where a token is found, and only there, the definition lets one begin.  *)
Begins(t, g, i) ==
    /\ At(MARKER, t, i)
    /\ EndsAt(t, i) # {}
    /\ \A j \in 1 .. (i - 1) : g[j] => EndAt(t, j) <= i

FoundAt(i) == \E n \in 1 .. Len(found) : found[n].start = i

LEMMA FoundBegin ==
    ASSUME Shapes, InOrder, TokenInv, command = "rewrap", phase # "scan",
           NEW g, NEW i \in 1 .. Len(text),
           \A j \in 1 .. (i - 1) : g[j] <=> FoundAt(j)
    PROVE  FoundAt(i) <=> Begins(text, g, i)
<1>1. Len(text) \in Nat /\ Len(found) \in Nat /\ i \in Nat
  BY Numbers
<1>2. \A n \in 1 .. Len(found) : /\ found[n].start \in 1 .. Len(text) /\ StartsAt(found[n].start)
                                 /\ found[n].end = BlobEnd(found[n].start)
                                 /\ found[n].start < found[n].end
                                 /\ found[n].end \in Nat
  BY Numbers DEF TokenInv, IsToken, Token, InOrder
<1>3. \A m, n \in 1 .. Len(found) : m < n => found[m].end <= found[n].start
  BY DEF TokenInv
<1>4. \A j \in 1 .. Len(text) :
          /\ At(MARKER, text, j) /\ EndsAt(text, j) # {} <=> StartsAt(j)
          /\ StartsAt(j) => EndAt(text, j) = BlobEnd(j)
  BY LongestIsTaken DEF StartsAt
<1>5. ASSUME FoundAt(i) PROVE Begins(text, g, i)
  <2>1. PICK n \in 1 .. Len(found) : found[n].start = i
    BY <1>5 DEF FoundAt
  <2>2. StartsAt(i)
    BY <1>2, <2>1
  <2>3. ASSUME NEW j \in 1 .. (i - 1), g[j] PROVE EndAt(text, j) <= i
    <3>1. PICK m \in 1 .. Len(found) : found[m].start = j
      BY <2>3 DEF FoundAt
    <3>2. found[m].end = EndAt(text, j)
      <4>1. j \in 1 .. Len(text) /\ StartsAt(j) /\ found[m].end = BlobEnd(j)
        BY <1>2, <3>1
      <4> QED BY <1>4, <4>1
    <3>3. m < n
      <4>1. m # n /\ j < i
        BY <1>1, <2>1, <3>1
      <4>2. ~(n < m)
        <5> SUFFICES ASSUME n < m PROVE FALSE
          OBVIOUS
        <5>1. found[n].end <= found[m].start /\ found[n].start < found[n].end /\ found[n].end \in Nat
          BY <1>2, <1>3
        <5> QED BY <1>1, <2>1, <3>1, <4>1, <5>1
      <4> QED BY <1>1, <4>1, <4>2
    <3> QED BY <1>3, <2>1, <3>2, <3>3
  <2> QED BY <1>4, <2>2, <2>3 DEF Begins
<1>6. ASSUME Begins(text, g, i) PROVE FoundAt(i)
  <2>1. StartsAt(i)
    BY <1>4, <1>6 DEF Begins
  <2>2. PICK n \in 1 .. Len(found) : found[n].start <= i /\ i < found[n].end
    BY <2>1 DEF TokenInv, Covered
  <2>3. CASE found[n].start = i
    BY <2>3 DEF FoundAt
  <2>4. CASE found[n].start # i
    <3> DEFINE j == found[n].start
    <3>1. j \in 1 .. Len(text) /\ StartsAt(j) /\ found[n].end = BlobEnd(j)
      BY <1>2
    <3>2. j \in 1 .. (i - 1) /\ FoundAt(j)
      BY <1>1, <2>2, <2>4, <3>1 DEF FoundAt
    <3> HIDE DEF j
    <3>3. EndAt(text, j) <= i /\ EndAt(text, j) = found[n].end
      BY <1>4, <1>6, <3>1, <3>2 DEF Begins
    <3>4. found[n].end \in Nat
      BY <1>2
    <3> QED BY <1>1, <2>2, <3>3, <3>4
  <2> QED BY <2>3, <2>4
<1> QED BY <1>5, <1>6

LEMMA TokensAreFound ==
    ASSUME Shapes, InOrder, TokenInv, command = "rewrap", phase # "scan"
    PROVE  {found[n] : n \in DOMAIN found} = TokensOf(text)
<1> DEFINE Step(g) == [i \in 1 .. Len(text) |-> Begins(text, g, i)]
           begins == CHOOSE g : g = Step(g)
           where == [i \in 1 .. Len(text) |-> FoundAt(i)]
<1>1. Len(text) \in Nat /\ DOMAIN found = 1 .. Len(found) /\ Len(found) \in Nat
  BY Numbers
<1>2. TokensOf(text) =
        UNION {{Token(text, i, colon, EndAt(text, i)) :
                    colon \in {c \in i .. Len(text) : Parses(text, i, c, EndAt(text, i))}} :
                i \in {j \in 1 .. Len(text) : begins[j]}}
  BY DEF TokensOf, Begins
<1>3. where = Step(where)
  <2>1. ASSUME NEW i \in 1 .. Len(text) PROVE FoundAt(i) = Begins(text, where, i)
    <3>1. \A j \in 1 .. (i - 1) : where[j] <=> FoundAt(j)
      BY <1>1
    <3> HIDE DEF where
    <3>2. FoundAt(i) <=> Begins(text, where, i)
      BY <3>1, FoundBegin
    <3>3. FoundAt(i) \in BOOLEAN /\ Begins(text, where, i) \in BOOLEAN
      BY DEF FoundAt, Begins
    <3> QED BY <3>2, <3>3
  <2> QED BY <2>1
<1>4. begins = Step(begins)
  <2> HIDE DEF Step, where
  <2> QED BY <1>3
<1> HIDE DEF begins
<1>5. \A i \in 1 .. Len(text) : begins[i] = Begins(text, begins, i)
  BY <1>4
<1>6. ASSUME NEW i \in 1 .. Len(text) PROVE begins[i] <=> FoundAt(i)
  <2> DEFINE Wrong == {j \in 1 .. Len(text) : ~(begins[j] <=> FoundAt(j))}
  <2>1. SUFFICES ASSUME Wrong # {} PROVE FALSE
    BY DEF Wrong
  <2>2. PICK m \in Wrong : \A j \in Wrong : m <= j
    <3>1. Wrong \in SUBSET Nat
      BY <1>1
    <3> HIDE DEF Wrong
    <3> QED BY <2>1, <3>1, LeastNatural
  <2>3. m \in 1 .. Len(text) /\ ~(begins[m] <=> FoundAt(m))
    BY <2>2
  <2>4. ASSUME NEW j \in 1 .. (m - 1) PROVE begins[j] <=> FoundAt(j)
    <3>1. j \in 1 .. Len(text) /\ ~(m <= j)
      BY <1>1, <2>3
    <3> QED BY <2>2, <3>1
  <2>5. FoundAt(m) <=> Begins(text, begins, m)
    BY <2>3, <2>4, FoundBegin
  <2>6. begins[m] = Begins(text, begins, m)
    BY <1>5, <2>3
  <2> QED BY <2>3, <2>5, <2>6
<1>7. ASSUME NEW n \in 1 .. Len(found) PROVE found[n] \in TokensOf(text)
  <2> DEFINE i == found[n].start
  <2>1. /\ i \in 1 .. Len(text) /\ StartsAt(i)
        /\ found[n] = Token(text, i, KidEnd(i), BlobEnd(i))
    BY DEF TokenInv, IsToken
  <2>2. begins[i]
    BY <1>6, <2>1 DEF FoundAt
  <2>3. /\ EndAt(text, i) = BlobEnd(i)
        /\ KidEnd(i) \in i .. Len(text) /\ Parses(text, i, KidEnd(i), EndAt(text, i))
    <3> HIDE DEF i
    <3>1. /\ Parses(text, i, KidEnd(i), BlobEnd(i)) /\ KidEnd(i) \in (i + 5) .. Len(text)
          /\ EndAt(text, i) = BlobEnd(i)
      BY <2>1, TakenParses, LongestIsTaken DEF StartsAt
    <3> QED BY <1>1, <2>1, <3>1
  <2> HIDE DEF i
  <2> QED BY <1>2, <2>1, <2>2, <2>3
<1>8. ASSUME NEW x \in TokensOf(text) PROVE \E n \in 1 .. Len(found) : x = found[n]
  <2>0. PICK i \in 1 .. Len(text) :
            /\ begins[i]
            /\ \E c \in i .. Len(text) : /\ Parses(text, i, c, EndAt(text, i))
                                        /\ x = Token(text, i, c, EndAt(text, i))
    BY <1>2
  <2>1. PICK c \in i .. Len(text) :
            /\ begins[i] /\ Parses(text, i, c, EndAt(text, i))
            /\ x = Token(text, i, c, EndAt(text, i))
    BY <2>0
  <2>2. PICK n \in 1 .. Len(found) : found[n].start = i
    BY <1>6, <2>1 DEF FoundAt
  <2>3. StartsAt(i) /\ found[n] = Token(text, i, KidEnd(i), BlobEnd(i))
    BY <2>2 DEF TokenInv, IsToken
  <2>4. EndAt(text, i) = BlobEnd(i) /\ c = KidEnd(i)
    BY <2>1, <2>3, LongestIsTaken DEF StartsAt
  <2> QED BY <2>1, <2>3, <2>4
<1> QED BY <1>1, <1>7, <1>8

(* The scan for tokens finds, in a text of any length, what a reader takes *)
(* who looks for the longest reference at every position, leftmost first   *)
(* (template.rs:100-138).                                                  *)
THEOREM TemplateTokens == Spec => []EveryTokenFound
<1>1. Init => CopyInv /\ TokenInv
  BY CopyInit, TokenInit
<1>2. CopyInv /\ TokenInv /\ [Next]_vars => CopyInv' /\ TokenInv'
  BY CopyNext, TokenNext
<1>3. CopyInv /\ TokenInv => EveryTokenFound
  <2> SUFFICES ASSUME CopyInv, TokenInv, command = "rewrap", phase = "write"
               PROVE  /\ {found[n] : n \in DOMAIN found} = TokensOf(text)
                      /\ \A n \in 2 .. Len(found) : found[n - 1].start < found[n].start
    BY DEF EveryTokenFound
  <2>1. Shapes /\ InOrder /\ phase # "scan"
    BY DEF CopyInv
  <2>2. {found[n] : n \in DOMAIN found} = TokensOf(text)
    BY <2>1, TokensAreFound
  <2>3. ASSUME NEW n \in 2 .. Len(found) PROVE found[n - 1].start < found[n].start
    <3>1. n - 1 \in 1 .. Len(found) /\ n \in 1 .. Len(found)
      BY <2>1, Numbers
    <3>2. /\ found[n - 1].start \in Nat /\ found[n - 1].end \in Nat /\ found[n].start \in Nat
          /\ found[n - 1].start < found[n - 1].end /\ found[n - 1].end <= found[n].start
      BY <2>1, <3>1, Numbers DEF InOrder
    <3> QED BY <3>2
  <2> QED BY <2>2, <2>3
<1> QED BY <1>1, <1>2, <1>3, PTL DEF Spec
-----------------------------------------------------------------------------
(* The tokens of the new text.                                             *)
(* A reference in t, symbol by symbol.                                     *)
ReadsAt(t, i, c, e) ==
    /\ i + 4 < c /\ c + 1 < e /\ e <= Len(t) + 1
    /\ \A k \in 1 .. 4 : t[i + k - 1] = MARKER[k]
    /\ t[c] = Colon
    /\ \A j \in (i + 4) .. (c - 1) : t[j] \in KidByte
    /\ \A j \in (c + 1) .. (e - 1) : t[j] \in Base64Url

LEMMA Alphabet ==
    /\ Colon = MARKER[2] /\ Colon \notin KidByte /\ Colon \notin Base64Url
    /\ MARKER[1] \in Base64Url /\ MARKER[1] # Colon
    /\ Base64Url \subseteq KidByte
BY DEF MARKER, Colon, KidByte, Base64Url

LEMMA MarkerReads ==
    ASSUME NEW t \in Str, NEW i \in Nat \ {0}
    PROVE  At(MARKER, t, i) <=> i + 4 <= Len(t) + 1 /\ \A k \in 1 .. 4 : t[i + k - 1] = MARKER[k]
<1>1. t \in Seq(Symbol) /\ MARKER \in Seq(Symbol) /\ Len(MARKER) = 4
  BY MarkerSymbols DEF Str
<1>2. \A n \in Nat \ {0} : At(MARKER, t, n) <=>
          n + Len(MARKER) <= Len(t) + 1 /\ \A k \in 1 .. Len(MARKER) : t[n + k - 1] = MARKER[k]
  <2>1. t \in Seq(Symbol) /\ MARKER \in Seq(Symbol)
    BY <1>1
  <2> QED BY ONLY <2>1, AtSymbols
<1> QED BY <1>1, <1>2

(* What a run of symbols behind a position is, said of a slice.            *)
LEMMA SliceOver ==
    ASSUME NEW t \in Str, NEW a \in 1 .. (Len(t) + 1), NEW b \in 1 .. (Len(t) + 1), NEW Class
    PROVE  /\ Slice(t, a, b) # << >> <=> a < b
           /\ a < b => ((\A n \in DOMAIN Slice(t, a, b) : Slice(t, a, b)[n] \in Class)
                           <=> \A j \in a .. (b - 1) : t[j] \in Class)
<1>1. t \in Seq(Symbol) /\ Len(t) \in Nat /\ a \in Nat /\ b \in Nat
  BY DEF Str
<1>2. CASE b <= a
  <2>1. a \in Int /\ b - 1 \in Int /\ ~(a <= b - 1)
    BY <1>1, <1>2
  <2>2. SubSeq(t, a, b - 1) = << >>
    BY <1>1, <2>1, SubSeqEmpty
  <2> QED BY <1>1, <1>2, <2>2 DEF Slice
<1>3. CASE a < b
  <2> DEFINE s == Slice(t, a, b)
  <2>1. b \in a .. (Len(t) + 1)
    BY <1>1, <1>3
  <2>2. /\ s \in Seq(Symbol) /\ Len(s) = b - a
        /\ \A k \in 1 .. (b - a) : s[k] = t[a + k - 1]
    BY <1>1, <2>1, SliceIs
  <2> HIDE DEF s
  <2>3. DOMAIN s = 1 .. (b - a) /\ s # << >>
    BY <1>1, <1>3, <2>2
  <2>4. ASSUME \A n \in DOMAIN s : s[n] \in Class, NEW j \in a .. (b - 1) PROVE t[j] \in Class
    <3>1. j - a + 1 \in 1 .. (b - a) /\ a + (j - a + 1) - 1 = j
      BY <1>1
    <3> QED BY <2>2, <2>3, <2>4, <3>1
  <2>5. ASSUME \A j \in a .. (b - 1) : t[j] \in Class, NEW n \in DOMAIN s PROVE s[n] \in Class
    <3>1. n \in 1 .. (b - a) /\ a + n - 1 \in a .. (b - 1)
      BY <1>1, <2>3
    <3> QED BY <2>2, <2>5, <3>1
  <2> QED BY <1>3, <2>3, <2>4, <2>5 DEF s
<1> QED BY <1>1, <1>2, <1>3

LEMMA ParsesIsReading ==
    ASSUME NEW t \in Str, NEW i \in 1 .. Len(t), NEW c \in i .. Len(t), NEW e \in 1 .. (Len(t) + 1)
    PROVE  Parses(t, i, c, e) <=> ReadsAt(t, i, c, e)
<1> DEFINE kid == Slice(t, i + 4, c)
           blob == Slice(t, c + 1, e)
<1>1. /\ Len(t) \in Nat /\ i \in Nat \ {0} /\ c \in Nat \ {0} /\ e \in Nat /\ Len(MARKER) = 4
      /\ c <= Len(t) /\ e <= Len(t) + 1
  BY MarkerSymbols DEF Str
<1>2. Parses(t, i, c, e) <=>
        /\ At(MARKER, t, i)
        /\ c < Len(t) /\ t[c] = Colon
        /\ kid # << >> /\ \A n \in DOMAIN kid : kid[n] \in KidByte
        /\ blob # << >> /\ \A n \in DOMAIN blob : blob[n] \in Base64Url
  BY <1>1, Classes DEF Parses, Colon
<1>3. At(MARKER, t, i) <=> i + 4 <= Len(t) + 1 /\ \A k \in 1 .. 4 : t[i + k - 1] = MARKER[k]
  BY <1>1, MarkerReads
<1>4. i + 4 <= Len(t) + 1 =>
        /\ kid # << >> <=> i + 4 < c
        /\ i + 4 < c => ((\A n \in DOMAIN kid : kid[n] \in KidByte)
                            <=> \A j \in (i + 4) .. (c - 1) : t[j] \in KidByte)
  <2> SUFFICES ASSUME i + 4 <= Len(t) + 1
               PROVE  /\ kid # << >> <=> i + 4 < c
                      /\ i + 4 < c => ((\A n \in DOMAIN kid : kid[n] \in KidByte)
                            <=> \A j \in (i + 4) .. (c - 1) : t[j] \in KidByte)
    OBVIOUS
  <2>1. i + 4 \in 1 .. (Len(t) + 1) /\ c \in 1 .. (Len(t) + 1)
    BY <1>1
  <2> QED BY <2>1, SliceOver
<1>5. /\ blob # << >> <=> c + 1 < e
      /\ c + 1 < e => ((\A n \in DOMAIN blob : blob[n] \in Base64Url)
                            <=> \A j \in (c + 1) .. (e - 1) : t[j] \in Base64Url)
  <2>1. c + 1 \in 1 .. (Len(t) + 1)
    BY <1>1
  <2> QED BY <2>1, SliceOver
<1> HIDE DEF kid, blob
<1>6. ASSUME Parses(t, i, c, e) PROVE ReadsAt(t, i, c, e)
  BY <1>1, <1>2, <1>3, <1>4, <1>5, <1>6 DEF ReadsAt
<1>7. ASSUME ReadsAt(t, i, c, e) PROVE Parses(t, i, c, e)
  <2>1. c < Len(t) /\ i + 4 <= Len(t) + 1
    BY <1>1, <1>7 DEF ReadsAt
  <2> QED BY <1>2, <1>3, <1>4, <1>5, <1>7, <2>1 DEF ReadsAt
<1> QED BY <1>6, <1>7

LEMMA ReadWithin ==
    ASSUME NEW t \in Str, NEW i \in Nat \ {0}, NEW c \in Nat, NEW e \in Nat, ReadsAt(t, i, c, e)
    PROVE  /\ i \in 1 .. Len(t) /\ c \in i .. Len(t) /\ e \in 1 .. (Len(t) + 1)
           /\ c \in (i + 5) .. (e - 2) /\ e \in (i + 7) .. (Len(t) + 1)
           /\ ReadsAt(t, i, c, c + 2)
<1>1. Len(t) \in Nat
  BY DEF Str
<1>2. i + 4 < c /\ c + 1 < e /\ e <= Len(t) + 1
  BY DEF ReadsAt
<1>3. /\ i \in 1 .. Len(t) /\ c \in i .. Len(t) /\ e \in 1 .. (Len(t) + 1)
      /\ c \in (i + 5) .. (e - 2) /\ e \in (i + 7) .. (Len(t) + 1)
      /\ c + 2 <= Len(t) + 1 /\ c + 1 < c + 2
  BY ONLY <1>1, <1>2, i \in Nat \ {0}, c \in Nat, e \in Nat
<1>4. \A j \in (c + 1) .. ((c + 2) - 1) : j \in (c + 1) .. (e - 1)
  BY ONLY <1>1, <1>2, c \in Nat, e \in Nat
<1> QED BY <1>2, <1>3, <1>4 DEF ReadsAt

LEMMA OneColon ==
    ASSUME NEW t, NEW i \in Nat, NEW c \in Nat, NEW d \in Nat, NEW e, NEW f,
           ReadsAt(t, i, c, e), ReadsAt(t, i, d, f)
    PROVE  c = d
<1>1. ~(c < d)
  <2> SUFFICES ASSUME c < d PROVE FALSE
    OBVIOUS
  <2>1. c \in (i + 4) .. (d - 1) /\ t[c] = Colon
    BY DEF ReadsAt
  <2> QED BY <2>1, Alphabet DEF ReadsAt
<1>2. ~(d < c)
  <2> SUFFICES ASSUME d < c PROVE FALSE
    OBVIOUS
  <2>1. d \in (i + 4) .. (c - 1) /\ t[d] = Colon
    BY DEF ReadsAt
  <2> QED BY <2>1, Alphabet DEF ReadsAt
<1> QED BY <1>1, <1>2

(* A reference is read where its symbols stand.                            *)
LEMMA ReadElsewhere ==
    ASSUME NEW t, NEW u, NEW i \in Nat, NEW x \in Nat, NEW c \in Nat, NEW e \in Nat,
           ReadsAt(t, i, c, e), x + (e - i) <= Len(u) + 1,
           \A k \in 0 .. (e - i - 1) : u[x + k] = t[i + k]
    PROVE  ReadsAt(u, x, x + (c - i), x + (e - i))
<1>1. i + 4 < c /\ c + 1 < e
  BY DEF ReadsAt
<1>2. ASSUME NEW k \in 1 .. 4 PROVE u[x + k - 1] = MARKER[k]
  <2>1. k - 1 \in 0 .. (e - i - 1) /\ x + (k - 1) = x + k - 1 /\ i + (k - 1) = i + k - 1
    BY ONLY <1>1, k \in 1 .. 4, i \in Nat, x \in Nat, c \in Nat, e \in Nat
  <2>2. u[x + k - 1] = t[i + k - 1]
    BY <2>1
  <2> QED BY <2>2 DEF ReadsAt
<1>3. u[x + (c - i)] = Colon
  <2>1. c - i \in 0 .. (e - i - 1) /\ i + (c - i) = c
    BY ONLY <1>1, i \in Nat, c \in Nat, e \in Nat
  <2> QED BY <2>1 DEF ReadsAt
<1>4. ASSUME NEW j \in (x + 4) .. ((x + (c - i)) - 1) PROVE u[j] \in KidByte
  <2> DEFINE k == j - x
  <2>1. /\ k \in 0 .. (e - i - 1) /\ x + k = j /\ i + k \in (i + 4) .. (c - 1)
    BY ONLY <1>1, j \in (x + 4) .. ((x + (c - i)) - 1), i \in Nat, x \in Nat, c \in Nat, e \in Nat
  <2> HIDE DEF k
  <2> QED BY <2>1 DEF ReadsAt
<1>5. ASSUME NEW j \in ((x + (c - i)) + 1) .. ((x + (e - i)) - 1) PROVE u[j] \in Base64Url
  <2> DEFINE k == j - x
  <2>1. /\ k \in 0 .. (e - i - 1) /\ x + k = j /\ i + k \in (c + 1) .. (e - 1)
    BY ONLY <1>1, j \in ((x + (c - i)) + 1) .. ((x + (e - i)) - 1), i \in Nat, x \in Nat, c \in Nat, e \in Nat
  <2> HIDE DEF k
  <2> QED BY <2>1 DEF ReadsAt
<1>6. x + 4 < x + (c - i) /\ (x + (c - i)) + 1 < x + (e - i)
  BY ONLY <1>1, i \in Nat, x \in Nat, c \in Nat, e \in Nat
<1> QED BY <1>2, <1>3, <1>4, <1>5, <1>6 DEF ReadsAt

(* Where the gaps and the values are in the new text: the n-th value from  *)
(* S[n] up to E[n], and the gap behind it up to S[n + 1].                  *)
Layout(S, E) ==
    /\ S \in [1 .. (Len(found) + 1) -> Nat] /\ E \in [0 .. Len(found) -> Nat]
    /\ E[0] = 1 /\ S[Len(found) + 1] = Len(out) + 1
    /\ \A n \in 0 .. Len(found) :
        /\ 1 <= E[n] /\ S[n + 1] = E[n] + (StartOf(n + 1) - EndOf(n)) /\ S[n + 1] <= Len(out) + 1
        /\ \A k \in 0 .. (StartOf(n + 1) - EndOf(n) - 1) : out[E[n] + k] = text[EndOf(n) + k]
    /\ \A n \in 1 .. Len(found) :
        /\ E[n] = S[n] + Len(values[n])
        /\ \A k \in 1 .. Len(values[n]) : out[S[n] + k - 1] = values[n][k]

(* What is put in is one reference, under another kid than From.           *)
IsValue(v) == \E c \in Nat : ReadsAt(v, 1, c, Len(v) + 1) /\ Slice(v, 5, c) # From

(* The facts the lemmas below start from.                                  *)
Written(S, E) ==
    /\ Shapes /\ InOrder /\ TokenInv /\ command = "rewrap" /\ phase # "scan"
    /\ Len(values) = Len(found) /\ \A n \in 1 .. Len(found) : IsValue(values[n])
    /\ Layout(S, E)

LEMMA Bounds ==
    ASSUME NEW S, NEW E, Written(S, E)
    PROVE  /\ Len(out) \in Nat /\ Len(text) \in Nat /\ Len(found) \in Nat
           /\ out \in Str /\ text \in Str
           /\ \A n \in 0 .. Len(found) :
                /\ E[n] \in Nat \ {0} /\ S[n + 1] \in Nat /\ E[n] <= S[n + 1]
                /\ EndOf(n) \in 1 .. (Len(text) + 1) /\ StartOf(n + 1) \in EndOf(n) .. (Len(text) + 1)
                /\ S[n + 1] = E[n] + (StartOf(n + 1) - EndOf(n))
                /\ S[n + 1] <= Len(out) + 1
           /\ \A n \in 1 .. Len(found) :
                /\ values[n] \in Str /\ Len(values[n]) \in Nat
                /\ S[n] \in Nat \ {0} /\ E[n] = S[n] + Len(values[n]) /\ S[n] + 7 <= E[n]
<1>0. Shapes /\ InOrder /\ Layout(S, E) /\ Len(values) = Len(found)
  BY DEF Written
<1>1. /\ Len(out) \in Nat /\ Len(text) \in Nat /\ Len(found) \in Nat
      /\ out \in Str /\ text \in Str
  BY <1>0, Numbers DEF Shapes, Str
<1>2. ASSUME NEW n \in 0 .. Len(found)
      PROVE  /\ E[n] \in Nat \ {0} /\ S[n + 1] \in Nat /\ E[n] <= S[n + 1]
             /\ EndOf(n) \in 1 .. (Len(text) + 1) /\ StartOf(n + 1) \in EndOf(n) .. (Len(text) + 1)
             /\ S[n + 1] = E[n] + (StartOf(n + 1) - EndOf(n))
             /\ S[n + 1] <= Len(out) + 1
  <2>1. EndOf(n) \in 1 .. (Len(text) + 1) /\ StartOf(n + 1) \in EndOf(n) .. (Len(text) + 1)
    BY <1>0, GapIs
  <2>2. /\ E[n] \in Nat /\ 1 <= E[n] /\ S[n + 1] = E[n] + (StartOf(n + 1) - EndOf(n))
        /\ S[n + 1] <= Len(out) + 1 /\ S[n + 1] \in Nat
    <3>1. n \in 0 .. Len(found) /\ n + 1 \in 1 .. (Len(found) + 1)
      BY <1>1
    <3>2. /\ S \in [1 .. (Len(found) + 1) -> Nat] /\ E \in [0 .. Len(found) -> Nat]
          /\ 1 <= E[n] /\ S[n + 1] = E[n] + (StartOf(n + 1) - EndOf(n))
          /\ S[n + 1] <= Len(out) + 1
      BY ONLY <1>0, n \in 0 .. Len(found) DEF Layout
    <3> QED BY ONLY <3>1, <3>2
  <2> QED BY <1>1, <2>1, <2>2
<1>3. ASSUME NEW n \in 1 .. Len(found)
      PROVE  /\ values[n] \in Str /\ Len(values[n]) \in Nat
             /\ S[n] \in Nat \ {0} /\ E[n] = S[n] + Len(values[n]) /\ S[n] + 7 <= E[n]
  <2>1. values[n] \in Str /\ Len(values[n]) \in Nat
    BY <1>0, Numbers DEF Str
  <2>2. E[n] = S[n] + Len(values[n])
    BY <1>0 DEF Layout
  <2>3. S[n] \in Nat \ {0}
    <3>1. n - 1 \in 0 .. Len(found) /\ (n - 1) + 1 = n
      BY <1>1
    <3>2. E[n - 1] \in Nat \ {0} /\ S[(n - 1) + 1] \in Nat /\ E[n - 1] <= S[(n - 1) + 1]
      BY <1>2, <3>1
    <3> QED BY <3>1, <3>2
  <2>4. 7 <= Len(values[n])
    <3>1. PICK c \in Nat : ReadsAt(values[n], 1, c, Len(values[n]) + 1)
      BY DEF Written, IsValue
    <3> QED BY <2>1, <3>1 DEF ReadsAt
  <2> QED BY <2>1, <2>2, <2>3, <2>4
<1> QED BY <1>1, <1>2, <1>3

LEMMA ValuesInOrder ==
    ASSUME NEW S, NEW E, Written(S, E), NEW m \in 1 .. Len(found), NEW n \in 1 .. Len(found), m < n
    PROVE  E[m] <= S[n]
<1> DEFINE Wrong == {k \in (m + 1) .. Len(found) : ~(E[m] <= S[k])}
<1>0. Len(found) \in Nat /\ m \in Nat /\ n \in Nat /\ n \in (m + 1) .. Len(found)
  BY Bounds
<1>1. SUFFICES ASSUME Wrong # {} PROVE FALSE
  BY <1>0
<1>2. PICK k \in Wrong : \A j \in Wrong : k <= j
  <2>1. Wrong \in SUBSET Nat
    BY <1>0
  <2> HIDE DEF Wrong
  <2> QED BY <1>1, <2>1, LeastNatural
<1>3. k \in (m + 1) .. Len(found) /\ ~(E[m] <= S[k])
  BY <1>2
<1>4. k - 1 \in 0 .. Len(found) /\ (k - 1) + 1 = k /\ k \in Nat /\ m \in 0 .. Len(found)
  BY <1>0, <1>3
<1>5. E[k - 1] \in Nat /\ S[k] \in Nat /\ E[k - 1] <= S[k] /\ E[m] \in Nat
  <2>1. E[k - 1] \in Nat /\ S[(k - 1) + 1] \in Nat /\ E[k - 1] <= S[(k - 1) + 1]
    BY <1>4, Bounds
  <2>2. E[m] \in Nat
    BY <1>4, Bounds
  <2> QED BY <1>4, <2>1, <2>2
<1>6. CASE k = m + 1
  <2>1. k - 1 = m
    BY <1>0, <1>6
  <2> QED BY <1>3, <1>5, <2>1
<1>7. CASE k # m + 1
  <2>1. k - 1 \in (m + 1) .. Len(found) /\ ~(k <= k - 1) /\ k - 1 \in 1 .. Len(found)
    BY <1>0, <1>3, <1>4, <1>7
  <2>2. E[m] <= S[k - 1]
    BY <1>2, <2>1
  <2>3. S[k - 1] \in Nat /\ S[k - 1] + 7 <= E[k - 1]
    BY <2>1, Bounds
  <2> QED BY <1>3, <1>5, <2>2, <2>3
<1> QED BY <1>6, <1>7

(* Every position of the new text is in a gap or in a value.               *)
LEMMA GapOrValue ==
    ASSUME NEW S, NEW E, Written(S, E), NEW i \in 1 .. Len(out)
    PROVE  \/ \E n \in 0 .. Len(found) : E[n] <= i /\ i < S[n + 1]
           \/ \E n \in 1 .. Len(found) : S[n] <= i /\ i < E[n]
<1> DEFINE Before == {n \in 0 .. Len(found) : i < S[n + 1]}
<1>0. Len(found) \in Nat /\ Len(out) \in Nat /\ i \in Nat
  BY Bounds
<1>1. Len(found) \in Before
  <2>1. S[Len(found) + 1] = Len(out) + 1 /\ Len(found) \in 0 .. Len(found) /\ i < Len(out) + 1
    BY <1>0 DEF Written, Layout
  <2> QED BY <2>1
<1>2. PICK n \in Before : \A j \in Before : n <= j
  <2>1. Before \in SUBSET Nat
    BY <1>0
  <2> HIDE DEF Before
  <2> QED BY <1>1, <2>1, LeastNatural
<1>3. n \in 0 .. Len(found) /\ i < S[n + 1] /\ E[n] \in Nat
  BY <1>2, Bounds
<1>4. CASE n = 0
  <2>1. E[0] = 1 /\ 1 <= i
    BY <1>0 DEF Written, Layout
  <2> QED BY <1>3, <1>4, <2>1
<1>5. CASE n # 0
  <2>1. n - 1 \in 0 .. Len(found) /\ (n - 1) + 1 = n /\ ~(n <= n - 1) /\ n \in 1 .. Len(found)
    BY <1>0, <1>3, <1>5
  <2>2. ~(i < S[(n - 1) + 1])
    BY <1>2, <2>1
  <2>3. ~(i < S[n]) /\ S[n] \in Nat
    BY <2>1, <2>2, Bounds
  <2>4. S[n] <= i
    BY <1>0, <2>3
  <2> QED BY <1>0, <1>3, <2>1, <2>4
<1> QED BY <1>4, <1>5

(* A token of the old text lies between the gaps.                          *)
LEMMA GapHoldsNoToken ==
    ASSUME Shapes, InOrder, TokenInv, command = "rewrap", phase # "scan",
           NEW n \in 0 .. Len(found), NEW i \in EndOf(n) .. (StartOf(n + 1) - 1)
    PROVE  ~Covered(i)
<1>0. Len(found) \in Nat /\ Len(text) \in Nat /\ n \in Nat
  BY Numbers
<1>1. /\ EndOf(n) \in 1 .. (Len(text) + 1) /\ StartOf(n + 1) \in EndOf(n) .. (Len(text) + 1)
      /\ i \in Nat /\ EndOf(n) <= i /\ i < StartOf(n + 1)
  <2>1. EndOf(n) \in 1 .. (Len(text) + 1) /\ StartOf(n + 1) \in EndOf(n) .. (Len(text) + 1)
    BY GapIs
  <2> QED BY <1>0, <2>1
<1>2. SUFFICES ASSUME NEW m \in 1 .. Len(found), found[m].start <= i, i < found[m].end PROVE FALSE
  BY DEF Covered
<1>3. \A k \in 1 .. Len(found) : found[k].start \in Nat /\ found[k].end \in Nat
                                  /\ found[k].start < found[k].end
  BY Numbers DEF InOrder
<1>4. \A j, k \in 1 .. Len(found) : j < k => found[j].end <= found[k].start
  BY DEF TokenInv
<1>5. CASE m <= n
  <2>1. n \in 1 .. Len(found) /\ EndOf(n) = found[n].end
    BY <1>0, <1>5 DEF EndOf
  <2>2. found[m].end <= found[n].end
    <3>1. CASE m = n
      BY <1>3, <3>1
    <3>2. CASE m < n
      <4>1. found[m].end <= found[n].start
        BY <1>4, <2>1, <3>2
      <4> QED BY <1>3, <2>1, <4>1
    <3> QED BY <1>0, <1>5, <3>1, <3>2
  <2> QED BY <1>1, <1>2, <1>3, <2>1, <2>2, SMTT(40)
<1>6. CASE n < m
  <2>1. n + 1 \in 1 .. Len(found) /\ ~(n + 1 > Len(found))
    BY <1>0, <1>6
  <2>2. StartOf(n + 1) = found[n + 1].start
    BY <2>1 DEF StartOf
  <2>3. found[n + 1].start <= found[m].start
    <3>1. CASE m = n + 1
      BY <1>3, <3>1
    <3>2. CASE n + 1 < m
      <4>1. found[n + 1].end <= found[m].start
        BY <1>4, <2>1, <3>2
      <4> QED BY <1>3, <2>1, <4>1
    <3> QED BY <1>0, <1>6, <3>1, <3>2
  <2> QED BY <1>1, <1>2, <1>3, <2>1, <2>2, <2>3
<1> QED BY <1>0, <1>5, <1>6

(* A token of the old text is taken where it is read.                      *)
LEMMA ReadIsCovered ==
    ASSUME Shapes, TokenInv, command = "rewrap", phase # "scan",
           NEW i \in Nat \ {0}, NEW c \in Nat, NEW e \in Nat, ReadsAt(text, i, c, e)
    PROVE  Covered(i)
<1>1. text \in Str /\ i \in 1 .. Len(text)
  BY ReadWithin DEF Shapes
<1>2. c \in i .. Len(text) /\ e \in 1 .. (Len(text) + 1)
  BY <1>1, ReadWithin
<1>3. Parses(text, i, c, e)
  BY <1>1, <1>2, ParsesIsReading
<1>4. HasToken(i) /\ At(MARKER, text, i)
  BY <1>1, <1>2, <1>3, ParsedIsTaken DEF Parses
<1> QED BY <1>1, <1>4 DEF TokenInv, StartsAt

LEMMA FoundReads ==
    ASSUME Shapes, TokenInv, command = "rewrap", NEW n \in 1 .. Len(found)
    PROVE  LET k == KidEnd(found[n].start)
           IN  /\ found[n].start \in Nat \ {0} /\ found[n].end \in Nat /\ k \in Nat
               /\ ReadsAt(text, found[n].start, k, found[n].end)
               /\ found[n].kid = Slice(text, found[n].start + 4, k)
               /\ found[n].end <= Len(text) => text[found[n].end] \notin Base64Url
<1> DEFINE i == found[n].start
           k == KidEnd(i)
           b == BlobEnd(i)
<1>1. /\ i \in 1 .. Len(text) /\ StartsAt(i) /\ found[n] = Token(text, i, k, b)
  BY DEF TokenInv, IsToken
<1>2. text \in Str /\ text \in Seq(Symbol) /\ Len(text) \in Nat /\ Len(MARKER) = 4
  BY MarkerSymbols DEF Shapes, Str
<1>3. found[n].end = b /\ found[n].kid = Slice(text, i + 4, k)
  <2>1. \A a, d, f : Token(text, a, d, f).end = f /\ Token(text, a, d, f).kid = Slice(text, a + 4, d)
    BY <1>2 DEF Token
  <2> HIDE DEF i, k, b
  <2> QED BY <1>1, <2>1
<1> HIDE DEF i
<1>4. /\ Parses(text, i, k, b) /\ k \in (i + 5) .. Len(text) /\ b \in (k + 2) .. (Len(text) + 1)
  BY <1>1, TakenParses DEF StartsAt
<1>5. k + 1 \in 1 .. (Len(text) + 1) /\ b = RunEnd(Base64Url, text, k + 1)
  <2>1. b = RunEnd(Base64Url, text, k + 1)
    BY DEF BlobEnd
  <2> HIDE DEF k, b
  <2> QED BY <1>1, <1>2, <1>4, <2>1
<1> HIDE DEF k, b
<1>6. b <= Len(text) => text[b] \notin Base64Url
  BY <1>2, <1>5, RunEnds
<1>7. /\ i \in Nat \ {0} /\ k \in i .. Len(text) /\ k \in Nat /\ b \in Nat
      /\ b \in 1 .. (Len(text) + 1)
  BY <1>1, <1>2, <1>4
<1>8. ReadsAt(text, i, k, b)
  BY <1>1, <1>2, <1>4, <1>7, ParsesIsReading
<1> QED BY <1>3, <1>6, <1>7, <1>8 DEF i, k

(* A gap of the new text holds no reference, because that gap of the old   *)
(* one holds none and what is read behind it is the same: another text     *)
(* starts like the token it stands for.                                    *)
LEMMA NoneInGap ==
    ASSUME NEW S, NEW E, Written(S, E), NEW n \in 0 .. Len(found),
           NEW i \in Nat, E[n] <= i, i < S[n + 1], NEW c \in Nat, NEW e \in Nat
    PROVE  ~ReadsAt(out, i, c, e)
<1>1. SUFFICES ASSUME ReadsAt(out, i, c, e) PROVE FALSE
  OBVIOUS
<1>p. PICK p : p = E[n]
  OBVIOUS
<1>q. PICK q : q = S[n + 1]
  OBVIOUS
<1>a. PICK a : a = EndOf(n)
  OBVIOUS
<1>b. PICK b : b = StartOf(n + 1)
  OBVIOUS
<1>2. /\ Len(out) \in Nat /\ Len(text) \in Nat /\ Len(found) \in Nat /\ n \in Nat
      /\ p \in Nat \ {0} /\ q \in Nat /\ a \in Nat \ {0} /\ b \in Nat
      /\ q = p + (b - a) /\ b <= Len(text) + 1 /\ p <= i /\ i < q
  <2>1. /\ Len(out) \in Nat /\ Len(text) \in Nat /\ Len(found) \in Nat
        /\ E[n] \in Nat \ {0} /\ S[n + 1] \in Nat
        /\ EndOf(n) \in 1 .. (Len(text) + 1) /\ StartOf(n + 1) \in EndOf(n) .. (Len(text) + 1)
        /\ S[n + 1] = E[n] + (StartOf(n + 1) - EndOf(n))
    BY Bounds
  <2> QED BY <1>p, <1>q, <1>a, <1>b, <2>1
<1>x. PICK x : x = a + (i - p)
  OBVIOUS
<1>w. PICK w : w = q - i
  OBVIOUS
<1>3. /\ x \in Nat \ {0} /\ w \in Nat \ {0} /\ x \in a .. (b - 1)
      /\ x + w = b /\ i + w = q
  BY ONLY <1>2, <1>x, <1>w, i \in Nat
<1>4. ASSUME NEW k \in 0 .. (w - 1) PROVE out[i + k] = text[x + k]
  <2>1. /\ (i - p) + k \in 0 .. (b - a - 1)
        /\ p + ((i - p) + k) = i + k /\ a + ((i - p) + k) = x + k
    BY ONLY <1>2, <1>x, <1>w, i \in Nat, k \in 0 .. (w - 1)
  <2>2. \A j \in 0 .. (StartOf(n + 1) - EndOf(n) - 1) : out[E[n] + j] = text[EndOf(n) + j]
    BY DEF Written, Layout
  <2>3. \A j \in 0 .. (b - a - 1) : out[p + j] = text[a + j]
    BY <1>p, <1>a, <1>b, <2>2
  <2>4. out[p + ((i - p) + k)] = text[a + ((i - p) + k)]
    BY <2>1, <2>3
  <2> QED BY <2>1, <2>4
<1>5. ~Covered(x)
  <2>1. x \in EndOf(n) .. (StartOf(n + 1) - 1)
    BY <1>3, <1>a, <1>b
  <2> QED BY <2>1, GapHoldsNoToken DEF Written
<1>6. ~\E d, f \in Nat : ReadsAt(text, x, d, f)
  BY <1>3, <1>5, ReadIsCovered DEF Written
<1>7. i + 4 < c /\ c + 1 < e /\ e <= Len(out) + 1 /\ ReadsAt(out, i, c, c + 2)
  <2>1. i + 4 < c /\ c + 1 < e /\ e <= Len(out) + 1
    BY <1>1 DEF ReadsAt
  <2>2. out \in Str /\ i \in Nat \ {0}
    BY <1>2, Bounds
  <2> QED BY <1>1, <2>1, <2>2, ReadWithin
<1>8. ASSUME NEW l \in Nat, c + 2 - i <= l, x + l <= Len(text) + 1,
             \A k \in 0 .. (l - 1) : out[i + k] = text[x + k]
      PROVE  FALSE
  <2>1. \A k \in 0 .. (c + 2 - i - 1) : text[x + k] = out[i + k]
    <3>1. \A k \in 0 .. (c + 2 - i - 1) : k \in 0 .. (l - 1)
      BY <1>8
    <3> QED BY <1>8, <3>1
  <2>2. c + 2 \in Nat /\ x + (c + 2 - i) <= Len(text) + 1
    BY <1>2, <1>3, <1>7, <1>8
  <2>3. ReadsAt(text, x, x + (c - i), x + (c + 2 - i))
    <3> DEFINE f == c + 2
    <3>1. f \in Nat /\ ReadsAt(out, i, c, f) /\ x + (f - i) <= Len(text) + 1
      BY <1>7, <2>2
    <3>2. \A k \in 0 .. (f - i - 1) : text[x + k] = out[i + k]
      BY <2>1
    <3> HIDE DEF f
    <3>3. ReadsAt(text, x, x + (c - i), x + (f - i))
      BY <1>3, <3>1, <3>2, ReadElsewhere
    <3> QED BY <3>3 DEF f
  <2>4. x + (c - i) \in Nat /\ x + (c + 2 - i) \in Nat
    BY <1>3, <1>7
  <2> QED BY <1>6, <2>3, <2>4
<1>9. CASE n = Len(found)
  <2>1. q = Len(out) + 1
    BY <1>9, <1>q DEF Written, Layout
  <2>2. c + 2 - i <= w /\ x + w <= Len(text) + 1
    BY <1>2, <1>3, <1>7, <2>1, SMTT(40)
  <2> QED BY <1>3, <1>4, <1>8, <2>2
<1>10. CASE n # Len(found)
  <2>m. PICK m : m = n + 1
    OBVIOUS
  <2>1. m \in 1 .. Len(found) /\ b = found[m].start /\ q = S[m]
    <3>1. n + 1 \in 1 .. Len(found) /\ ~(n + 1 > Len(found))
      BY <1>2, <1>10
    <3> QED BY <2>m, <3>1, <1>b, <1>q DEF StartOf
  <2>2. /\ b + 7 <= Len(text) + 1
        /\ \A k \in 1 .. 4 : text[b + k - 1] = MARKER[k]
    <3>1. /\ found[m].end \in Nat /\ KidEnd(found[m].start) \in Nat
          /\ ReadsAt(text, found[m].start, KidEnd(found[m].start), found[m].end)
      BY <2>1, FoundReads DEF Written
    <3>2. PICK f : f = found[m].end
      OBVIOUS
    <3>3. PICK g : g = KidEnd(found[m].start)
      OBVIOUS
    <3>4. ReadsAt(text, b, g, f) /\ g \in Nat /\ f \in Nat
      BY <2>1, <3>1, <3>2, <3>3
    <3> QED BY <1>2, <3>4 DEF ReadsAt
  <2>3. \A k \in 1 .. 4 : out[q + k - 1] = MARKER[k]
    <3>1. PICK d \in Nat : ReadsAt(values[m], 1, d, Len(values[m]) + 1)
      BY <2>1 DEF Written, IsValue
    <3>2. Len(values[m]) \in Nat
      BY <2>1, Bounds
    <3>3. \A k \in 1 .. 4 : k \in 1 .. Len(values[m])
      <4>1. 1 + 4 < d /\ d + 1 < Len(values[m]) + 1
        BY <3>1 DEF ReadsAt
      <4> QED BY ONLY <3>2, <4>1, d \in Nat
    <3>4. \A k \in 1 .. Len(values[m]) : out[q + k - 1] = values[m][k]
      BY <2>1 DEF Written, Layout
    <3>5. \A k \in 1 .. 4 : values[m][k] = MARKER[k]
      <4>1. \A k \in 1 .. 4 : values[m][1 + k - 1] = MARKER[k] /\ 1 + k - 1 = k
        BY <3>1 DEF ReadsAt
      <4> QED BY <4>1
    <3> QED BY <2>1, <3>3, <3>4, <3>5
  <2>4. \A k \in 0 .. ((w + 4) - 1) : out[i + k] = text[x + k]
    <3> SUFFICES ASSUME NEW k \in 0 .. ((w + 4) - 1) PROVE out[i + k] = text[x + k]
      OBVIOUS
    <3>1. CASE k \in 0 .. (w - 1)
      BY <1>4, <3>1
    <3>2. CASE k \notin 0 .. (w - 1)
      <4>1. /\ k - w + 1 \in 1 .. 4 /\ q + (k - w + 1) - 1 = i + k
            /\ b + (k - w + 1) - 1 = x + k
        BY ONLY <1>2, <1>3, <3>2, k \in 0 .. ((w + 4) - 1), i \in Nat
      <4>2. /\ out[q + (k - w + 1) - 1] = MARKER[k - w + 1]
            /\ text[b + (k - w + 1) - 1] = MARKER[k - w + 1]
        BY <2>2, <2>3, <4>1
      <4> QED BY <4>1, <4>2
    <3> QED BY <3>1, <3>2
  <2>5. c + 2 - i <= w + 4
    <3> SUFFICES ASSUME w + 4 < c + 2 - i PROVE FALSE
      BY <1>2, <1>3, <1>7
    <3>1. q + 2 < c
      BY <1>2, <1>3
    <3>2. out[q] = MARKER[1] /\ out[q + 1] = MARKER[2]
      <4>1. 1 \in 1 .. 4 /\ 2 \in 1 .. 4 /\ q + 1 - 1 = q /\ q + 2 - 1 = q + 1
        BY <1>2
      <4> QED BY <2>3, <4>1
    <3>3. out[i + 1] = MARKER[2] /\ out[i + 2] = MARKER[3]
      <4>1. \A k \in 1 .. 4 : out[i + k - 1] = MARKER[k]
        BY <1>1 DEF ReadsAt
      <4>2. 2 \in 1 .. 4 /\ 3 \in 1 .. 4 /\ i + 2 - 1 = i + 1 /\ i + 3 - 1 = i + 2
        OBVIOUS
      <4> QED BY <4>1, <4>2
    <3>4. CASE i + 4 <= q + 1
      <4>1. q + 1 \in (i + 4) .. (c - 1)
        BY ONLY <1>2, <3>1, <3>4, i \in Nat, c \in Nat
      <4>2. out[q + 1] \in KidByte
        BY <1>1, <4>1 DEF ReadsAt
      <4> QED BY <3>2, <4>2, Alphabet
    <3>5. CASE ~(i + 4 <= q + 1)
      <4>1. q = i + 1 \/ q = i + 2
        BY ONLY <1>2, <3>5, i \in Nat
      <4> QED BY <3>2, <3>3, <4>1, MarkerSymbols
    <3> QED BY <3>4, <3>5
  <2>6. x + (w + 4) <= Len(text) + 1 /\ w + 4 \in Nat
    BY <1>2, <1>3, <2>2
  <2> QED BY <1>8, <2>4, <2>5, <2>6
<1> QED BY <1>9, <1>10

(* A value is read in the new text where it stands, and no further.        *)
LEMMA ValueReads ==
    ASSUME NEW S, NEW E, Written(S, E), NEW n \in 1 .. Len(found)
    PROVE  \E c \in Nat :
              /\ ReadsAt(out, S[n], c, E[n])
              /\ Slice(out, S[n] + 4, c) # From
              /\ E[n] <= Len(out) => out[E[n]] \notin Base64Url
<1>p. PICK p : p = S[n]
  OBVIOUS
<1>q. PICK q : q = E[n]
  OBVIOUS
<1>v. PICK v : v = values[n]
  OBVIOUS
<1>1. /\ p \in Nat \ {0} /\ q \in Nat /\ Len(v) \in Nat /\ v \in Str /\ q = p + Len(v)
      /\ q <= Len(out) + 1 /\ out \in Str /\ Len(out) \in Nat
  <2>1. n \in 0 .. Len(found) /\ Len(found) \in Nat
    BY Bounds
  <2>2. E[n] \in Nat \ {0} /\ E[n] <= S[n + 1] /\ S[n + 1] \in Nat /\ S[n + 1] <= Len(out) + 1
    BY <2>1, Bounds
  <2>3. /\ values[n] \in Str /\ Len(values[n]) \in Nat
        /\ S[n] \in Nat \ {0} /\ E[n] = S[n] + Len(values[n]) /\ out \in Str /\ Len(out) \in Nat
    BY Bounds
  <2> QED BY <1>p, <1>q, <1>v, <2>2, <2>3
<1>2. PICK c \in Nat : ReadsAt(v, 1, c, Len(v) + 1) /\ Slice(v, 5, c) # From
  BY <1>v DEF Written, IsValue
<1>3. ASSUME NEW k \in 1 .. Len(v) PROVE out[p + k - 1] = v[k]
  <2>1. \A j \in 1 .. Len(values[n]) : out[S[n] + j - 1] = values[n][j]
    BY DEF Written, Layout
  <2> QED BY <1>p, <1>v, <2>1
<1>4. ReadsAt(out, p, p + (c - 1), q)
  <2> DEFINE f == Len(v) + 1
  <2>1. f \in Nat /\ ReadsAt(v, 1, c, f) /\ p + (f - 1) = q /\ p + (f - 1) <= Len(out) + 1
    BY <1>1, <1>2
  <2>2. \A k \in 0 .. (f - 1 - 1) : out[p + k] = v[1 + k]
    <3> SUFFICES ASSUME NEW k \in 0 .. (f - 1 - 1) PROVE out[p + k] = v[1 + k]
      OBVIOUS
    <3>1. k + 1 \in 1 .. Len(v) /\ p + (k + 1) - 1 = p + k /\ k + 1 = 1 + k
      BY <1>1
    <3>2. out[p + (k + 1) - 1] = v[k + 1]
      BY <1>3, <3>1
    <3> QED BY <3>1, <3>2
  <2> HIDE DEF f
  <2>3. ReadsAt(out, p, p + (c - 1), p + (f - 1))
    BY <1>1, <2>1, <2>2, ReadElsewhere
  <2> QED BY <2>1, <2>3
<1>5. 5 < c /\ c < Len(v)
  BY <1>1, <1>2 DEF ReadsAt
<1>d. PICK d : d = p + (c - 1)
  OBVIOUS
<1>6. d \in Nat
  BY <1>1, <1>5, <1>d
<1>7. Slice(out, p + 4, d) = Slice(v, 5, c)
  <2>x. PICK x : x = Slice(out, p + 4, d)
    OBVIOUS
  <2>y. PICK y : y = Slice(v, 5, c)
    OBVIOUS
  <2>1. out \in Seq(Symbol) /\ v \in Seq(Symbol)
    BY <1>1 DEF Str
  <2>2. /\ p + 4 \in 1 .. (Len(out) + 1) /\ d \in (p + 4) .. (Len(out) + 1)
        /\ 5 \in 1 .. (Len(v) + 1) /\ c \in 5 .. (Len(v) + 1) /\ d - (p + 4) = c - 5
    BY <1>1, <1>5, <1>d
  <2>3. x \in Seq(Symbol) /\ Len(x) = c - 5 /\ \A k \in 1 .. (c - 5) : x[k] = out[(p + 4) + k - 1]
    <3>1. /\ x \in Seq(Symbol) /\ Len(x) = d - (p + 4)
          /\ \A k \in 1 .. (d - (p + 4)) : x[k] = out[(p + 4) + k - 1]
      BY <2>x, <2>1, <2>2, SliceIs, ZenonT(60)
    <3> QED BY <2>2, <3>1
  <2>4. y \in Seq(Symbol) /\ Len(y) = c - 5 /\ \A k \in 1 .. (c - 5) : y[k] = v[5 + k - 1]
    BY <2>y, <2>1, <2>2, SliceIs, ZenonT(60)
  <2>5. ASSUME NEW k \in 1 .. (c - 5) PROVE x[k] = y[k]
    <3>1. 5 + k - 1 \in 1 .. Len(v) /\ p + (5 + k - 1) - 1 = (p + 4) + k - 1
      BY <1>1, <1>5
    <3>2. out[p + (5 + k - 1) - 1] = v[5 + k - 1]
      BY <1>3, <3>1
    <3> QED BY <2>3, <2>4, <3>1, <3>2
  <2>6. x = y
    <3>1. Len(x) = Len(y) /\ \A k \in 1 .. Len(x) : x[k] = y[k]
      BY <2>3, <2>4, <2>5
    <3> QED BY <2>3, <2>4, <3>1, SeqEqual
  <2> QED BY <2>x, <2>y, <2>6
<1>8. ASSUME q <= Len(out) PROVE out[q] \notin Base64Url
  <2>s. PICK s : s = S[n + 1]
    OBVIOUS
  <2>a. PICK a : a = EndOf(n)
    OBVIOUS
  <2>b. PICK b : b = StartOf(n + 1)
    OBVIOUS
  <2>1. n \in 0 .. Len(found) /\ Len(found) \in Nat /\ n \in Nat /\ n # 0
    BY Bounds
  <2>2. /\ s \in Nat /\ s = q + (b - a) /\ a \in 1 .. (Len(text) + 1) /\ b \in a .. (Len(text) + 1)
        /\ Len(text) \in Nat
    <3>1. /\ S[n + 1] \in Nat
          /\ EndOf(n) \in 1 .. (Len(text) + 1) /\ StartOf(n + 1) \in EndOf(n) .. (Len(text) + 1)
          /\ S[n + 1] = E[n] + (StartOf(n + 1) - EndOf(n)) /\ Len(text) \in Nat
      BY <2>1, Bounds
    <3> QED BY <1>q, <2>s, <2>a, <2>b, <3>1
  <2>3. a = found[n].end /\ (a <= Len(text) => text[a] \notin Base64Url)
    <3>1. found[n].end <= Len(text) => text[found[n].end] \notin Base64Url
      BY FoundReads DEF Written
    <3> QED BY <2>a, <2>1, <3>1 DEF EndOf
  <2>4. CASE a < b
    <3>1. 0 \in 0 .. (b - a - 1) /\ q + 0 = q /\ a + 0 = a /\ a <= Len(text)
      BY <1>1, <2>2, <2>4
    <3>2. \A k \in 0 .. (StartOf(n + 1) - EndOf(n) - 1) : out[E[n] + k] = text[EndOf(n) + k]
      BY <2>1 DEF Written, Layout
    <3>3. out[q + 0] = text[a + 0]
      BY <1>q, <2>a, <2>b, <3>1, <3>2
    <3> QED BY <2>3, <3>1, <3>3
  <2>5. CASE ~(a < b)
    <3>1. a = b /\ s = q
      BY <1>1, <2>2, <2>5
    <3>2. n # Len(found)
      <4> SUFFICES ASSUME n = Len(found) PROVE FALSE
        OBVIOUS
      <4>1. s = Len(out) + 1
        BY <2>s DEF Written, Layout
      <4> QED BY <1>1, <1>8, <3>1, <4>1
    <3>3. n + 1 \in 1 .. Len(found) /\ b = found[n + 1].start
      <4>1. n + 1 \in 1 .. Len(found) /\ ~(n + 1 > Len(found))
        BY <2>1, <3>2
      <4> QED BY <2>b, <4>1 DEF StartOf
    <3>g. PICK g : g = KidEnd(found[n + 1].start)
      OBVIOUS
    <3>f. PICK f : f = found[n + 1].end
      OBVIOUS
    <3>4. ReadsAt(text, b, g, f) /\ g \in Nat /\ f \in Nat
      <4>1. /\ found[n + 1].end \in Nat /\ KidEnd(found[n + 1].start) \in Nat
            /\ ReadsAt(text, found[n + 1].start, KidEnd(found[n + 1].start), found[n + 1].end)
        BY <3>3, FoundReads DEF Written
      <4> QED BY <3>3, <3>g, <3>f, <4>1
    <3>5. text[b] = MARKER[1] /\ b <= Len(text)
      <4>1. 1 \in 1 .. 4 /\ b + 1 - 1 = b
        BY <2>2
      <4> QED BY <2>2, <3>4, <4>1, SMTT(40) DEF ReadsAt
    <3> QED BY <2>3, <3>1, <3>5, Alphabet
  <2> QED BY <2>4, <2>5
<1>9. ReadsAt(out, p, d, q) /\ Slice(out, p + 4, d) # From
  BY <1>2, <1>4, <1>7, <1>d
<1> QED BY <1>p, <1>q, <1>6, <1>8, <1>9

(* The longest reference there.                                            *)
LEMMA LongestRead ==
    ASSUME NEW t \in Str, NEW i \in Nat \ {0}, NEW c \in Nat, NEW e \in Nat, ReadsAt(t, i, c, e),
           e <= Len(t) => t[e] \notin Base64Url
    PROVE  /\ At(MARKER, t, i) /\ EndsAt(t, i) # {} /\ EndAt(t, i) = e
           /\ \A d \in i .. Len(t) : Parses(t, i, d, e) => d = c
<1>1. /\ Len(t) \in Nat /\ Len(MARKER) = 4
      /\ i \in 1 .. Len(t) /\ c \in i .. Len(t) /\ e \in 1 .. (Len(t) + 1)
      /\ c \in (i + 5) .. (e - 2) /\ e \in (i + 7) .. (Len(t) + 1)
  BY ReadWithin, MarkerSymbols DEF Str
<1>2. Parses(t, i, c, e)
  BY <1>1, ParsesIsReading
<1>3. e \in EndsAt(t, i)
  BY <1>1, <1>2 DEF EndsAt
<1>4. ASSUME NEW f \in EndsAt(t, i) PROVE f <= e /\ f \in Nat
  <2>1. f \in (i + 7) .. (Len(t) + 1) /\ \E d \in (i + 5) .. (f - 2) : Parses(t, i, d, f)
    BY <1>1, <1>4 DEF EndsAt
  <2>2. PICK d \in (i + 5) .. (f - 2) : Parses(t, i, d, f)
    BY <2>1
  <2>3. f \in 1 .. (Len(t) + 1) /\ d \in i .. Len(t) /\ d \in Nat /\ f \in Nat /\ i \in Nat
    BY ONLY <1>1, <2>1, d \in (i + 5) .. (f - 2)
  <2>4. ReadsAt(t, i, d, f)
    BY <1>1, <2>2, <2>3, ParsesIsReading
  <2>5. d = c
    BY <2>3, <2>4, OneColon
  <2> SUFFICES ASSUME e < f PROVE FALSE
    BY <2>3
  <2>6. e \in (c + 1) .. (f - 1) /\ e <= Len(t)
    BY ONLY <1>1, <2>3, e < f, c \in Nat, e \in Nat
  <2> QED BY <2>4, <2>5, <2>6 DEF ReadsAt
<1>5. EndAt(t, i) = e
  <2>1. \A x \in EndsAt(t, i) : (\A f \in EndsAt(t, i) : f <= x) => x = e
    BY <1>3, <1>4
  <2> QED BY <1>3, <1>4, <2>1 DEF EndAt
<1>6. ASSUME NEW d \in i .. Len(t), Parses(t, i, d, e) PROVE d = c
  <2>1. ReadsAt(t, i, d, e) /\ d \in Nat /\ i \in Nat
    BY <1>1, <1>6, ParsesIsReading
  <2> QED BY <2>1, OneColon
<1> QED BY <1>2, <1>3, <1>5, <1>6 DEF Parses

ValueAt(S, i) == \E n \in 1 .. Len(found) : S[n] = i

LEMMA ValueBegins ==
    ASSUME NEW S, NEW E, Written(S, E), NEW g, NEW i \in 1 .. Len(out),
           \A j \in 1 .. (i - 1) : g[j] <=> ValueAt(S, j)
    PROVE  ValueAt(S, i) <=> Begins(out, g, i)
<1>1. /\ Len(out) \in Nat /\ Len(found) \in Nat /\ i \in Nat \ {0} /\ out \in Str
      /\ \A n \in 1 .. Len(found) : S[n] \in Nat \ {0} /\ E[n] \in Nat /\ S[n] < E[n]
  <2>1. Len(out) \in Nat /\ Len(found) \in Nat /\ i \in Nat \ {0} /\ out \in Str
    BY Bounds
  <2>2. ASSUME NEW n \in 1 .. Len(found) PROVE S[n] \in Nat \ {0} /\ E[n] \in Nat /\ S[n] < E[n]
    <3>1. S[n] \in Nat \ {0} /\ S[n] + 7 <= E[n] /\ n \in 0 .. Len(found)
      BY Bounds
    <3>2. E[n] \in Nat
      BY <3>1, Bounds
    <3> QED BY <3>1, <3>2
  <2> QED BY <2>1, <2>2
<1>2. ASSUME NEW n \in 1 .. Len(found)
      PROVE  At(MARKER, out, S[n]) /\ EndsAt(out, S[n]) # {} /\ EndAt(out, S[n]) = E[n]
  <2>p. PICK p : p = S[n]
    OBVIOUS
  <2>q. PICK q : q = E[n]
    OBVIOUS
  <2>1. p \in Nat \ {0} /\ q \in Nat
    BY <1>1, <2>p, <2>q
  <2>2. PICK c \in Nat : ReadsAt(out, p, c, q) /\ (q <= Len(out) => out[q] \notin Base64Url)
    BY <2>p, <2>q, ValueReads
  <2>3. At(MARKER, out, p) /\ EndsAt(out, p) # {} /\ EndAt(out, p) = q
    BY <1>1, <2>1, <2>2, LongestRead
  <2> QED BY <2>p, <2>q, <2>3
<1>3. ASSUME ValueAt(S, i) PROVE Begins(out, g, i)
  <2>1. PICK n \in 1 .. Len(found) : S[n] = i
    BY <1>3 DEF ValueAt
  <2>2. ASSUME NEW j \in 1 .. (i - 1), g[j] PROVE EndAt(out, j) <= i
    <3>1. PICK m \in 1 .. Len(found) : S[m] = j
      BY <2>2 DEF ValueAt
    <3>2. EndAt(out, j) = E[m]
      BY <1>2, <3>1
    <3>3. ~(n < m) /\ n # m
      <4>1. j < i
        BY <1>1
      <4>2. ASSUME n < m PROVE FALSE
        <5>1. E[n] <= S[m]
          BY <4>2, ValuesInOrder
        <5> QED BY <1>1, <2>1, <3>1, <4>1, <5>1
      <4> QED BY <1>1, <2>1, <3>1, <4>1, <4>2
    <3>4. m < n
      BY <1>1, <3>3
    <3>5. E[m] <= S[n]
      BY <3>4, ValuesInOrder
    <3> QED BY <2>1, <3>2, <3>5
  <2> QED BY <1>2, <2>1, <2>2 DEF Begins
<1>4. ASSUME Begins(out, g, i) PROVE ValueAt(S, i)
  <2>1. PICK e \in EndsAt(out, i) : TRUE
    BY <1>4 DEF Begins
  <2>2. /\ Len(MARKER) = 4 /\ e \in (i + 7) .. (Len(out) + 1)
        /\ \E d \in (i + 5) .. (e - 2) : Parses(out, i, d, e)
    BY <2>1, MarkerSymbols DEF EndsAt
  <2>3. PICK d \in (i + 5) .. (e - 2) : Parses(out, i, d, e)
    BY <2>2
  <2>4. d \in i .. Len(out) /\ e \in 1 .. (Len(out) + 1) /\ d \in Nat /\ e \in Nat
    BY ONLY <1>1, <2>2, d \in (i + 5) .. (e - 2), i \in 1 .. Len(out)
  <2>5. ReadsAt(out, i, d, e)
    BY <1>1, <2>3, <2>4, ParsesIsReading
  <2>6. ~\E n \in 0 .. Len(found) : E[n] <= i /\ i < S[n + 1]
    BY <1>1, <2>4, <2>5, NoneInGap
  <2>7. PICK n \in 1 .. Len(found) : S[n] <= i /\ i < E[n]
    BY <2>6, GapOrValue
  <2>8. CASE S[n] = i
    BY <2>8 DEF ValueAt
  <2>9. CASE S[n] # i
    <3>1. S[n] \in 1 .. (i - 1)
      BY <1>1, <2>7, <2>9
    <3>2. g[S[n]]
      BY <3>1 DEF ValueAt
    <3>3. EndAt(out, S[n]) <= i
      BY <1>4, <3>1, <3>2 DEF Begins
    <3> QED BY <1>1, <1>2, <2>7, <3>3
  <2> QED BY <2>8, <2>9
<1> QED BY <1>3, <1>4

(* Every token of the new text is one of the values.                       *)
LEMMA OnlyValuesRead ==
    ASSUME NEW S, NEW E, Written(S, E), NEW token \in TokensOf(out)
    PROVE  token.kid # From
<1> DEFINE Step(g) == [i \in 1 .. Len(out) |-> Begins(out, g, i)]
           begins == CHOOSE g : g = Step(g)
           where == [i \in 1 .. Len(out) |-> ValueAt(S, i)]
<1>1. Len(out) \in Nat /\ Len(found) \in Nat /\ out \in Str
  BY Bounds
<1>2. TokensOf(out) =
        UNION {{Token(out, i, colon, EndAt(out, i)) :
                    colon \in {c \in i .. Len(out) : Parses(out, i, c, EndAt(out, i))}} :
                i \in {j \in 1 .. Len(out) : begins[j]}}
  BY DEF TokensOf, Begins
<1>3. where = Step(where)
  <2>1. ASSUME NEW i \in 1 .. Len(out) PROVE ValueAt(S, i) = Begins(out, where, i)
    <3>1. \A j \in 1 .. (i - 1) : where[j] <=> ValueAt(S, j)
      BY <1>1
    <3> HIDE DEF where
    <3>2. ValueAt(S, i) <=> Begins(out, where, i)
      BY <3>1, ValueBegins
    <3>3. ValueAt(S, i) \in BOOLEAN /\ Begins(out, where, i) \in BOOLEAN
      BY DEF ValueAt, Begins
    <3> QED BY <3>2, <3>3
  <2> QED BY <2>1
<1>4. begins = Step(begins)
  <2> HIDE DEF Step, where
  <2> QED BY <1>3
<1> HIDE DEF begins
<1>5. \A i \in 1 .. Len(out) : begins[i] = Begins(out, begins, i)
  BY <1>4
<1>6. ASSUME NEW i \in 1 .. Len(out) PROVE begins[i] <=> ValueAt(S, i)
  <2> DEFINE Wrong == {j \in 1 .. Len(out) : ~(begins[j] <=> ValueAt(S, j))}
  <2>1. SUFFICES ASSUME Wrong # {} PROVE FALSE
    BY DEF Wrong
  <2>2. PICK m \in Wrong : \A j \in Wrong : m <= j
    <3>1. Wrong \in SUBSET Nat
      BY <1>1
    <3> HIDE DEF Wrong
    <3> QED BY <2>1, <3>1, LeastNatural
  <2>3. m \in 1 .. Len(out) /\ ~(begins[m] <=> ValueAt(S, m))
    BY <2>2
  <2>4. ASSUME NEW j \in 1 .. (m - 1) PROVE begins[j] <=> ValueAt(S, j)
    <3>1. j \in 1 .. Len(out) /\ ~(m <= j)
      BY <1>1, <2>3
    <3> QED BY <2>2, <3>1
  <2>5. ValueAt(S, m) <=> Begins(out, begins, m)
    BY <2>3, <2>4, ValueBegins
  <2>6. begins[m] = Begins(out, begins, m)
    BY <1>5, <2>3
  <2> QED BY <2>3, <2>5, <2>6
<1>7. PICK i \in 1 .. Len(out) :
            /\ begins[i]
            /\ \E c \in i .. Len(out) : /\ Parses(out, i, c, EndAt(out, i))
                                       /\ token = Token(out, i, c, EndAt(out, i))
  BY <1>2
<1>8. PICK c \in i .. Len(out) :
            /\ Parses(out, i, c, EndAt(out, i)) /\ token = Token(out, i, c, EndAt(out, i))
  BY <1>7
<1>9. PICK n \in 1 .. Len(found) : S[n] = i
  BY <1>6, <1>7 DEF ValueAt
<1>10. PICK d \in Nat : /\ ReadsAt(out, i, d, E[n]) /\ Slice(out, i + 4, d) # From
                        /\ (E[n] <= Len(out) => out[E[n]] \notin Base64Url)
  BY <1>9, ValueReads
<1>q. PICK q : q = E[n]
  OBVIOUS
<1>11. q \in Nat
  <2>1. n \in 0 .. Len(found)
    BY <1>1
  <2> QED BY <1>q, <2>1, Bounds
<1>12. EndAt(out, i) = q /\ c = d
  <2>1. i \in Nat \ {0} /\ ReadsAt(out, i, d, q) /\ (q <= Len(out) => out[q] \notin Base64Url)
    BY <1>1, <1>10, <1>q
  <2>2. EndAt(out, i) = q /\ \A x \in i .. Len(out) : Parses(out, i, x, q) => x = d
    BY <1>1, <1>11, <2>1, LongestRead
  <2> QED BY <1>8, <2>2
<1>13. token.kid = Slice(out, i + 4, c)
  <2>1. Len(MARKER) = 4
    BY MarkerSymbols
  <2> QED BY <1>8, <2>1 DEF Token
<1> QED BY <1>10, <1>12, <1>13

ValuesInv ==
    command = "rewrap" /\ From # To => \A n \in 1 .. Len(values) : IsValue(values[n])

(* What Replace writes is a reference under To.                            *)
LEMMA ReplacementReads ==
    ASSUME NEW blob \in Blob, From # To
    PROVE  IsValue(MARKER \o To \o <<":">> \o blob)
<1>colon. PICK colon : colon = <<":">>
  OBVIOUS
<1>one. PICK one : one = MARKER \o To
  OBVIOUS
<1>two. PICK two : two = one \o colon
  OBVIOUS
<1>v. PICK v : v = two \o blob
  OBVIOUS
<1>1. /\ To \in Seq(Symbol) /\ blob \in Seq(Symbol) /\ MARKER \in Seq(Symbol) /\ Len(MARKER) = 4
      /\ Len(To) \in Nat /\ Len(blob) \in Nat /\ DOMAIN To = 1 .. Len(To)
      /\ DOMAIN blob = 1 .. Len(blob)
  BY TemplateAssumption, TextsAreStrs, MarkerSymbols DEF Str
<1>2. colon \in Seq(Symbol) /\ Len(colon) = 1 /\ colon[1] = Colon
  <2>1. colon = <<Colon>> /\ Colon \in Symbol
    BY <1>colon DEF Colon, Symbol
  <2> QED BY ONLY <2>1
<1>3. /\ one \in Seq(Symbol) /\ Len(one) = 4 + Len(To)
      /\ \A k \in 1 .. 4 : one[k] = MARKER[k]
      /\ \A k \in 1 .. Len(To) : one[4 + k] = To[k]
  <2>1. /\ one \in Seq(Symbol) /\ Len(one) = Len(MARKER) + Len(To)
        /\ \A k \in 1 .. Len(MARKER) : one[k] = MARKER[k]
        /\ \A k \in 1 .. Len(To) : one[Len(MARKER) + k] = To[k]
    <3>1. MARKER \in Seq(Symbol) /\ To \in Seq(Symbol)
      BY <1>1
    <3> QED BY ONLY <3>1, <1>one, JoinedIs
  <2> QED BY ONLY <1>1, <2>1
<1>4. /\ two \in Seq(Symbol) /\ Len(two) = 5 + Len(To)
      /\ \A k \in 1 .. (4 + Len(To)) : two[k] = one[k]
      /\ two[4 + Len(To) + 1] = Colon
  <2>1. /\ two \in Seq(Symbol) /\ Len(two) = Len(one) + Len(colon)
        /\ \A k \in 1 .. Len(one) : two[k] = one[k]
        /\ \A k \in 1 .. Len(colon) : two[Len(one) + k] = colon[k]
    <3>1. one \in Seq(Symbol) /\ colon \in Seq(Symbol)
      BY <1>2, <1>3
    <3> QED BY ONLY <3>1, <1>two, JoinedIs
  <2>2. two[Len(one) + 1] = Colon /\ Len(two) = Len(one) + 1
    BY <1>2, <2>1
  <2> QED BY ONLY <1>1, <1>3, <2>1, <2>2
<1>5. /\ v \in Seq(Symbol) /\ Len(v) = 5 + Len(To) + Len(blob)
      /\ \A k \in 1 .. (5 + Len(To)) : v[k] = two[k]
      /\ \A k \in 1 .. Len(blob) : v[(5 + Len(To)) + k] = blob[k]
  <2>1. /\ v \in Seq(Symbol) /\ Len(v) = Len(two) + Len(blob)
        /\ \A k \in 1 .. Len(two) : v[k] = two[k]
        /\ \A k \in 1 .. Len(blob) : v[Len(two) + k] = blob[k]
    <3>1. two \in Seq(Symbol) /\ blob \in Seq(Symbol)
      BY <1>1, <1>4
    <3> QED BY ONLY <3>1, <1>v, JoinedIs
  <2> QED BY ONLY <1>4, <2>1
<1>c. PICK c : c = 5 + Len(To)
  OBVIOUS
<1>6. c \in Nat /\ Len(v) = c + Len(blob) /\ Len(v) \in Nat
  BY <1>1, <1>5, <1>c
<1>7. /\ Len(To) >= 1 /\ \A k \in 1 .. Len(To) : To[k] \in KidByte
      /\ Len(blob) >= 1 /\ \A k \in 1 .. Len(blob) : blob[k] \in Base64Url
  <2>1. To \in Seq(KidByte) /\ To # << >> /\ blob \in Seq(Base64Url) /\ blob # << >>
    BY AlphabetAssumption DEF KidByte
  <2> QED BY <1>1, <2>1, EmptySeq
<1>8. ASSUME NEW k \in 1 .. 4 PROVE v[k] = MARKER[k]
  <2>1. k \in 1 .. (5 + Len(To)) /\ k \in 1 .. (4 + Len(To))
    BY <1>1
  <2> QED BY <1>3, <1>4, <1>5, <2>1
<1>9. ASSUME NEW k \in 1 .. Len(To) PROVE v[4 + k] = To[k]
  <2>1. 4 + k \in 1 .. (5 + Len(To)) /\ 4 + k \in 1 .. (4 + Len(To))
    BY <1>1
  <2> QED BY <1>3, <1>4, <1>5, <2>1
<1>10. v[c] = Colon
  <2>1. c \in 1 .. (5 + Len(To)) /\ c = 4 + Len(To) + 1
    BY <1>1, <1>c
  <2> QED BY <1>4, <1>5, <2>1
<1>11. ReadsAt(v, 1, c, Len(v) + 1)
  <2>1. 1 + 4 < c /\ c + 1 < Len(v) + 1
    BY <1>1, <1>6, <1>7, <1>c
  <2>2. \A k \in 1 .. 4 : v[1 + k - 1] = MARKER[k]
    <3>1. \A k \in 1 .. 4 : 1 + k - 1 = k
      OBVIOUS
    <3> QED BY <1>8, <3>1
  <2>3. ASSUME NEW j \in (1 + 4) .. (c - 1) PROVE v[j] \in KidByte
    <3>1. j - 4 \in 1 .. Len(To) /\ 4 + (j - 4) = j
      BY <1>1, <1>6, <1>c
    <3> QED BY <1>7, <1>9, <3>1
  <2>4. ASSUME NEW j \in (c + 1) .. ((Len(v) + 1) - 1) PROVE v[j] \in Base64Url
    <3>1. j - c \in 1 .. Len(blob) /\ (5 + Len(To)) + (j - c) = j
      BY <1>1, <1>6, <1>c
    <3> QED BY <1>5, <1>7, <3>1
  <2>5. Len(v) + 1 <= Len(v) + 1
    BY <1>6
  <2> QED BY <1>10, <2>1, <2>2, <2>3, <2>4, <2>5 DEF ReadsAt
<1>12. Slice(v, 5, c) = To
  <2>x. PICK x : x = Slice(v, 5, c)
    OBVIOUS
  <2>1. v \in Seq(Symbol) /\ 5 \in 1 .. (Len(v) + 1) /\ c \in 5 .. (Len(v) + 1) /\ c - 5 = Len(To)
    BY <1>1, <1>5, <1>6, <1>c
  <2>2. x \in Seq(Symbol) /\ Len(x) = c - 5 /\ \A k \in 1 .. (c - 5) : x[k] = v[5 + k - 1]
    BY <2>x, <2>1, SliceIs
  <2>3. ASSUME NEW k \in 1 .. Len(To) PROVE x[k] = To[k]
    <3>1. 5 + k - 1 = 4 + k
      BY <1>1
    <3> QED BY <1>9, <2>1, <2>2, <3>1
  <2>4. Len(x) = Len(To) /\ \A k \in 1 .. Len(x) : x[k] = To[k]
    BY <2>1, <2>2, <2>3
  <2>5. x = To
    BY <1>1, <2>2, <2>4, SeqEqual
  <2> QED BY <2>x, <2>5
<1>13. IsValue(v)
  BY <1>6, <1>11, <1>12 DEF IsValue
<1> QED BY <1>13, <1>v, <1>two, <1>one, <1>colon

(* What Keep copies is the reference that was found.                       *)
LEMMA KeptReads ==
    ASSUME Shapes, TokenInv, command = "rewrap", NEW n \in 1 .. Len(found), found[n].kid # From
    PROVE  IsValue(Slice(text, found[n].start, found[n].end))
<1>i. PICK i : i = found[n].start
  OBVIOUS
<1>e. PICK e : e = found[n].end
  OBVIOUS
<1>k. PICK k : k = KidEnd(found[n].start)
  OBVIOUS
<1>v. PICK v : v = Slice(text, i, e)
  OBVIOUS
<1>1. /\ i \in Nat \ {0} /\ e \in Nat /\ k \in Nat /\ ReadsAt(text, i, k, e)
      /\ Slice(text, i + 4, k) # From
  <2>1. /\ found[n].start \in Nat \ {0} /\ found[n].end \in Nat /\ KidEnd(found[n].start) \in Nat
        /\ ReadsAt(text, found[n].start, KidEnd(found[n].start), found[n].end)
        /\ found[n].kid = Slice(text, found[n].start + 4, KidEnd(found[n].start))
    BY FoundReads
  <2> QED BY <1>i, <1>e, <1>k, <2>1
<1>2. text \in Str /\ text \in Seq(Symbol) /\ Len(text) \in Nat
  BY DEF Shapes, Str
<1>3. i + 4 < k /\ k + 1 < e /\ e <= Len(text) + 1
  BY <1>1 DEF ReadsAt
<1>4. /\ i \in 1 .. (Len(text) + 1) /\ e \in i .. (Len(text) + 1)
      /\ i + 4 \in 1 .. (Len(text) + 1) /\ k \in (i + 4) .. (Len(text) + 1)
  BY ONLY <1>1, <1>2, <1>3
<1>5. v \in Seq(Symbol) /\ Len(v) = e - i /\ \A j \in 1 .. (e - i) : v[j] = text[i + j - 1]
  <2>1. text \in Seq(Symbol)
    BY <1>2
  <2> QED BY ONLY <2>1, <1>v, <1>4, SliceIs, ZenonT(60)
<1>c. PICK c : c = 1 + (k - i)
  OBVIOUS
<1>6. c \in Nat /\ Len(v) \in Nat /\ Len(v) + 1 = 1 + (e - i) /\ 5 < c /\ c < Len(v)
  BY <1>1, <1>3, <1>5, <1>c
<1>7. ReadsAt(v, 1, c, Len(v) + 1)
  <2>1. \A j \in 0 .. (e - i - 1) : v[1 + j] = text[i + j]
    <3> SUFFICES ASSUME NEW j \in 0 .. (e - i - 1) PROVE v[1 + j] = text[i + j]
      OBVIOUS
    <3>1. 1 + j \in 1 .. (e - i) /\ i + (1 + j) - 1 = i + j
      BY <1>1, <1>3
    <3> QED BY <1>5, <3>1
  <2>2. 1 + (e - i) <= Len(v) + 1
    BY <1>6
  <2>3. ReadsAt(v, 1, 1 + (k - i), 1 + (e - i))
    BY <1>1, <2>1, <2>2, ReadElsewhere
  <2> QED BY <1>6, <1>c, <2>3
<1>8. Slice(v, 5, c) = Slice(text, i + 4, k)
  <2>x. PICK x : x = Slice(v, 5, c)
    OBVIOUS
  <2>y. PICK y : y = Slice(text, i + 4, k)
    OBVIOUS
  <2>1. 5 \in 1 .. (Len(v) + 1) /\ c \in 5 .. (Len(v) + 1) /\ c - 5 = k - (i + 4)
    BY <1>1, <1>6, <1>c
  <2>2. x \in Seq(Symbol) /\ Len(x) = c - 5 /\ \A j \in 1 .. (c - 5) : x[j] = v[5 + j - 1]
    <3>1. v \in Seq(Symbol)
      BY <1>5
    <3> QED BY ONLY <3>1, <2>x, <2>1, SliceIs, ZenonT(60)
  <2>3. /\ y \in Seq(Symbol) /\ Len(y) = k - (i + 4)
        /\ \A j \in 1 .. (k - (i + 4)) : y[j] = text[(i + 4) + j - 1]
    <3>1. text \in Seq(Symbol)
      BY <1>2
    <3> QED BY ONLY <3>1, <1>4, <2>y, SliceIs, ZenonT(60)
  <2>4. ASSUME NEW j \in 1 .. (c - 5) PROVE x[j] = y[j]
    <3>1. 5 + j - 1 \in 1 .. (e - i) /\ i + (5 + j - 1) - 1 = (i + 4) + j - 1
      BY <1>1, <1>3, <2>1
    <3>2. v[5 + j - 1] = text[(i + 4) + j - 1]
      BY <1>5, <3>1
    <3> QED BY <2>1, <2>2, <2>3, <3>2
  <2>5. Len(x) = Len(y) /\ \A j \in 1 .. Len(x) : x[j] = y[j]
    BY <2>1, <2>2, <2>3, <2>4
  <2>6. x = y
    BY <2>2, <2>3, <2>5, SeqEqual
  <2> QED BY <2>x, <2>y, <2>6
<1>9. IsValue(v)
  BY <1>1, <1>6, <1>7, <1>8 DEF IsValue
<1> QED BY <1>i, <1>e, <1>v, <1>9

LEMMA ValuesNext == CopyInv /\ TokenInv /\ ValuesInv /\ [Next]_vars => ValuesInv'
<1> SUFFICES ASSUME CopyInv, TokenInv, ValuesInv, [Next]_vars, command' = "rewrap", From # To
             PROVE  \A n \in 1 .. Len(values') : IsValue(values'[n])
  BY DEF ValuesInv
<1>1. Shapes /\ values \in Seq(Str) /\ Len(values) \in Nat
  BY Numbers DEF CopyInv, Shapes
<1>2. command = "rewrap"
  BY DEF Next, FindPlaceholder, PassOver, FindToken, SkipMarker, ScanEnds, Substitute, Replace,
         Keep, Refuse, CopyRest, Write, Scanned, vars
<1>3. \A n \in 1 .. Len(values) : IsValue(values[n])
  BY <1>2 DEF ValuesInv
<1>4. ASSUME NEW value \in Str, IsValue(value), values' = Append(values, value)
      PROVE  \A n \in 1 .. Len(values') : IsValue(values'[n])
  <2>1. /\ Len(values') = Len(values) + 1 /\ values'[Len(values) + 1] = value
        /\ \A n \in 1 .. Len(values) : values'[n] = values[n]
    BY <1>1, <1>4, AppendProperties
  <2> SUFFICES ASSUME NEW n \in 1 .. Len(values') PROVE IsValue(values'[n])
    OBVIOUS
  <2>2. n \in 1 .. Len(values) \/ n = Len(values) + 1
    BY <1>1, <2>1
  <2> QED BY <1>3, <1>4, <2>1, <2>2
<1>5. CASE UNCHANGED values
  BY <1>3, <1>5
<1>6. CASE Replace
  <2>1. PICK blob \in Blob : Write(MARKER \o To \o <<":">> \o blob)
    BY <1>6 DEF Replace
  <2>v. PICK v : v = MARKER \o To \o <<":">> \o blob
    OBVIOUS
  <2>2. v \in Str /\ IsValue(v)
    BY <2>v, ReplacementIs, ReplacementReads
  <2>3. values' = Append(values, v)
    BY <2>1, <2>v DEF Write
  <2> QED BY <1>4, <2>2, <2>3
<1>7. CASE Keep
  <2>n. PICK n : n = Len(values) + 1
    OBVIOUS
  <2>1. /\ n \in 1 .. Len(found) /\ found[n].kid # From
        /\ values' = Append(values, Slice(text, found[n].start, found[n].end))
    <3>1. Len(values) < Len(found) /\ Len(found) \in Nat
      BY <1>1, <1>7, Numbers DEF Keep, Writing
    <3>2. n \in 1 .. Len(found)
      BY <1>1, <2>n, <3>1
    <3> QED BY <1>7, <2>n, <3>2 DEF Keep, Due, Current
  <2>v. PICK v : v = Slice(text, found[n].start, found[n].end)
    OBVIOUS
  <2>2. IsValue(v)
    BY <1>1, <1>2, <2>1, <2>v, KeptReads
  <2>3. v \in Str
    <3>1. found[n].start \in Nat \ {0} /\ found[n].end \in Nat
      BY <1>1, <1>2, <2>1, FoundReads
    <3>2. /\ 1 <= found[n].start /\ found[n].start < found[n].end /\ found[n].end <= cursor
          /\ cursor <= Len(text) + 1 /\ cursor \in Nat /\ Len(text) \in Nat /\ text \in Seq(Symbol)
      BY <1>1, <2>1, Numbers DEF CopyInv, InOrder, Shapes, Str
    <3>3. found[n].start \in 1 .. (Len(text) + 1) /\ found[n].end \in found[n].start .. (Len(text) + 1)
      BY <3>1, <3>2
    <3> QED BY <2>v, <3>2, <3>3, SliceIs DEF Str
  <2> QED BY <1>4, <2>1, <2>2, <2>3, <2>v
<1>8. UNCHANGED values \/ Replace \/ Keep
  <2>1. ~Substitute
    BY <1>2 DEF Substitute, Writing
  <2> QED BY <2>1 DEF Next, FindPlaceholder, PassOver, FindToken, SkipMarker, ScanEnds,
               Refuse, CopyRest, Scanned, vars
<1> QED BY <1>5, <1>6, <1>7, <1>8

(* What has been added up is how the whole begins.                         *)
LEMMA SumsBegin ==
    ASSUME Shapes, InOrder, Len(values) = Len(found),
           NEW sums \in [0 .. Len(values) -> Str], AddUp(sums, values), sums[Len(values)] = out,
           NEW n \in 0 .. Len(found)
    PROVE  Len(sums[n]) <= Len(out) /\ \A j \in 1 .. Len(sums[n]) : out[j] = sums[n][j]
<1> DEFINE Begin(k) == Len(sums[k]) <= Len(out) /\ \A j \in 1 .. Len(sums[k]) : out[j] = sums[k][j]
           Wrong == {k \in 0 .. Len(found) : ~Begin(k)}
<1>0. /\ Len(found) \in Nat /\ Len(values) \in Nat /\ Len(out) \in Nat
      /\ \A k \in 0 .. Len(found) : sums[k] \in Str /\ Len(sums[k]) \in Nat
  <2>1. Len(found) \in Nat /\ Len(values) \in Nat
    BY Numbers
  <2>2. Len(out) \in Nat
    BY DEF Shapes, Str
  <2>3. \A t \in Str : Len(t) \in Nat
    BY DEF Str
  <2>4. \A k \in 0 .. Len(found) : sums[k] \in Str
    OBVIOUS
  <2> QED BY <2>1, <2>2, <2>3, <2>4
<1>1. SUFFICES ASSUME Wrong # {} PROVE FALSE
  OBVIOUS
<1>2. PICK k \in Wrong : \A j \in Wrong : j <= k
  <2>1. Wrong \in SUBSET (0 .. Len(found))
    OBVIOUS
  <2> HIDE DEF Wrong
  <2> QED BY <1>0, <1>1, <2>1, GreatestNatural
<1>3. k \in 0 .. Len(found) /\ ~Begin(k)
  BY <1>2
<1>4. k # Len(found)
  <2>1. Begin(Len(found))
    BY <1>0
  <2> QED BY <1>3, <2>1
<1>5. /\ k + 1 \in 0 .. Len(found) /\ k + 1 \in 1 .. Len(values) /\ ~(k + 1 <= k) /\ (k + 1) - 1 = k
      /\ k + 1 \in 0 .. Len(values)
  BY <1>0, <1>3, <1>4
<1>6. Begin(k + 1)
  <2>1. k + 1 \notin Wrong
    BY <1>2, <1>5
  <2> QED BY <1>5, <2>1
<1>7. sums[k + 1] = sums[k] \o values[k + 1] \o GapBefore((k + 1) + 1)
  BY <1>5 DEF AddUp
<1>8. GapBefore((k + 1) + 1) \in Str /\ values[k + 1] \in Str /\ sums[k] \in Str /\ Len(sums[k]) \in Nat
  BY <1>0, <1>3, <1>5, GapIs, Numbers
<1>9. Len(sums[k]) <= Len(sums[k + 1]) /\ \A j \in 1 .. Len(sums[k]) : sums[k + 1][j] = sums[k][j]
  <2>r. PICK r : r = sums[k]
    OBVIOUS
  <2>v. PICK v : v = values[k + 1]
    OBVIOUS
  <2>g. PICK g : g = GapBefore((k + 1) + 1)
    OBVIOUS
  <2>1. r \in Seq(Symbol) /\ v \in Seq(Symbol) /\ g \in Seq(Symbol)
    BY <1>8, <2>r, <2>v, <2>g DEF Str
  <2>m. PICK m : m = r \o v
    OBVIOUS
  <2>2. m \in Seq(Symbol) /\ Len(m) = Len(r) + Len(v) /\ \A j \in 1 .. Len(r) : m[j] = r[j]
    BY <2>1, <2>m, JoinedIs
  <2>w. PICK w : w = m \o g
    OBVIOUS
  <2>3. w \in Seq(Symbol) /\ Len(w) = Len(m) + Len(g) /\ \A j \in 1 .. Len(m) : w[j] = m[j]
    BY <2>1, <2>2, <2>w, JoinedIs
  <2>4. Len(r) \in Nat /\ Len(v) \in Nat /\ Len(g) \in Nat
    BY <2>1
  <2>5. Len(r) <= Len(w)
    BY <2>2, <2>3, <2>4
  <2>6. \A j \in 1 .. Len(r) : w[j] = r[j]
    <3>1. \A j \in 1 .. Len(r) : j \in 1 .. Len(m)
      BY <2>2, <2>4
    <3> QED BY <2>2, <2>3, <3>1
  <2>7. w = sums[k + 1]
    BY <1>7, <2>r, <2>v, <2>g, <2>m, <2>w
  <2> QED BY <2>5, <2>6, <2>7, <2>r
<1>10. Begin(k)
  <2>1. Len(sums[k + 1]) \in Nat
    BY <1>0, <1>5
  <2>2. Len(sums[k]) <= Len(out)
    BY <1>0, <1>6, <1>8, <1>9, <2>1
  <2>3. ASSUME NEW j \in 1 .. Len(sums[k]) PROVE out[j] = sums[k][j]
    <3>1. j \in 1 .. Len(sums[k + 1])
      BY <1>8, <1>9, <2>1
    <3> QED BY <1>6, <1>9, <3>1
  <2> QED BY <2>2, <2>3
<1> QED BY <1>3, <1>10

LEMMA LaidOut ==
    ASSUME Shapes, InOrder, Len(values) = Len(found),
           NEW sums \in [0 .. Len(values) -> Str], AddUp(sums, values), sums[Len(values)] = out
    PROVE  \E S, E : Layout(S, E)
<1> DEFINE S == [n \in 1 .. (Len(found) + 1) |-> Len(sums[n - 1]) + 1]
           E == [n \in 0 .. Len(found) |->
                    IF n = 0 THEN 1 ELSE Len(sums[n - 1]) + Len(values[n]) + 1]
<1>0. /\ Len(found) \in Nat /\ Len(out) \in Nat /\ Len(text) \in Nat /\ text \in Seq(Symbol)
      /\ \A k \in 0 .. Len(found) : sums[k] \in Seq(Symbol) /\ Len(sums[k]) \in Nat
      /\ \A k \in 1 .. Len(found) : values[k] \in Seq(Symbol) /\ Len(values[k]) \in Nat
  <2>1. Len(found) \in Nat /\ Len(text) \in Nat
    BY Numbers
  <2>2. Len(out) \in Nat /\ text \in Seq(Symbol)
    BY DEF Shapes, Str
  <2>3. \A t \in Str : t \in Seq(Symbol) /\ Len(t) \in Nat
    BY DEF Str
  <2>4. /\ \A k \in 0 .. Len(found) : sums[k] \in Str
        /\ \A k \in 1 .. Len(found) : values[k] \in Str
    BY Numbers
  <2> QED BY <2>1, <2>2, <2>3, <2>4
<1>1. S \in [1 .. (Len(found) + 1) -> Nat] /\ E \in [0 .. Len(found) -> Nat]
  <2>1. ASSUME NEW n \in 1 .. (Len(found) + 1) PROVE Len(sums[n - 1]) + 1 \in Nat
    <3>1. n - 1 \in 0 .. Len(found)
      BY <1>0
    <3> QED BY <1>0, <3>1
  <2>2. ASSUME NEW n \in 0 .. Len(found), n # 0 PROVE Len(sums[n - 1]) + Len(values[n]) + 1 \in Nat
    <3>1. n - 1 \in 0 .. Len(found) /\ n \in 1 .. Len(found)
      BY <1>0, <2>2
    <3>2. Len(sums[n - 1]) \in Nat /\ Len(values[n]) \in Nat
      BY <1>0, <3>1
    <3> QED BY ONLY <3>2
  <2> QED BY <2>1, <2>2
<1>2. E[0] = 1 /\ S[Len(found) + 1] = Len(out) + 1
  BY <1>0
<1>3. \A n \in 0 .. Len(found) : S[n + 1] = Len(sums[n]) + 1
  BY <1>0
<1>4. \A n \in 1 .. Len(found) : S[n] = Len(sums[n - 1]) + 1 /\ E[n] = S[n] + Len(values[n])
  <2> SUFFICES ASSUME NEW n \in 1 .. Len(found)
               PROVE  S[n] = Len(sums[n - 1]) + 1 /\ E[n] = S[n] + Len(values[n])
    OBVIOUS
  <2>1. /\ n \in 1 .. (Len(found) + 1) /\ n \in 0 .. Len(found) /\ n # 0
        /\ n - 1 \in 0 .. Len(found)
    BY <1>0
  <2>2. S[n] = Len(sums[n - 1]) + 1 /\ E[n] = Len(sums[n - 1]) + Len(values[n]) + 1
    BY <2>1
  <2> HIDE DEF S, E
  <2>3. Len(sums[n - 1]) \in Nat /\ Len(values[n]) \in Nat
    BY <1>0, <2>1
  <2> QED BY ONLY <2>2, <2>3
<1> HIDE DEF S, E
<1>5. ASSUME NEW n \in 0 .. Len(found)
      PROVE  /\ Len(sums[n]) <= Len(out) /\ \A j \in 1 .. Len(sums[n]) : out[j] = sums[n][j]
             /\ GapBefore(n + 1) \in Seq(Symbol)
             /\ Len(GapBefore(n + 1)) = StartOf(n + 1) - EndOf(n)
             /\ \A k \in 1 .. (StartOf(n + 1) - EndOf(n)) :
                    GapBefore(n + 1)[k] = text[EndOf(n) + k - 1]
             /\ StartOf(n + 1) \in Nat /\ EndOf(n) \in Nat /\ StartOf(n + 1) - EndOf(n) \in Nat
  <2>1. Len(sums[n]) <= Len(out) /\ \A j \in 1 .. Len(sums[n]) : out[j] = sums[n][j]
    BY SumsBegin
  <2>2. /\ EndOf(n) \in 1 .. (Len(text) + 1)
        /\ StartOf(n + 1) \in EndOf(n) .. (Len(text) + 1)
        /\ GapBefore(n + 1) = Slice(text, EndOf(n), StartOf(n + 1))
    BY GapIs
  <2>3. /\ StartOf(n + 1) \in Nat /\ EndOf(n) \in Nat /\ StartOf(n + 1) - EndOf(n) \in Nat
    BY <1>0, <2>2
  <2>4. /\ Slice(text, EndOf(n), StartOf(n + 1)) \in Seq(Symbol)
        /\ Len(Slice(text, EndOf(n), StartOf(n + 1))) = StartOf(n + 1) - EndOf(n)
        /\ \A k \in 1 .. (StartOf(n + 1) - EndOf(n)) :
              Slice(text, EndOf(n), StartOf(n + 1))[k] = text[EndOf(n) + k - 1]
    BY <1>0, <2>2, SliceIs
  <2> QED BY <2>1, <2>2, <2>3, <2>4
(* The n-th gap stands behind x symbols, of which the last are the value.   *)
<1>6. ASSUME NEW n \in 0 .. Len(found), NEW x \in Nat, E[n] = x + 1,
             Len(sums[n]) = x + (StartOf(n + 1) - EndOf(n)),
             \A k \in 1 .. (StartOf(n + 1) - EndOf(n)) : sums[n][x + k] = GapBefore(n + 1)[k]
      PROVE  /\ 1 <= E[n] /\ S[n + 1] = E[n] + (StartOf(n + 1) - EndOf(n)) /\ S[n + 1] <= Len(out) + 1
             /\ \A k \in 0 .. (StartOf(n + 1) - EndOf(n) - 1) : out[E[n] + k] = text[EndOf(n) + k]
  <2>l. PICK l : l = StartOf(n + 1) - EndOf(n)
    OBVIOUS
  <2>b. PICK b : b = EndOf(n)
    OBVIOUS
  <2>s. PICK s : s = sums[n]
    OBVIOUS
  <2>g. PICK g : g = GapBefore(n + 1)
    OBVIOUS
  <2>1. /\ l \in Nat /\ b \in Nat /\ Len(s) \in Nat /\ Len(s) = x + l /\ Len(s) <= Len(out)
        /\ S[n + 1] = Len(s) + 1
        /\ \A k \in 1 .. l : s[x + k] = g[k]
        /\ \A k \in 1 .. l : g[k] = text[b + k - 1]
        /\ \A j \in 1 .. Len(s) : out[j] = s[j]
    BY <1>0, <1>3, <1>5, <1>6, <2>l, <2>b, <2>s, <2>g
  <2>2. 1 <= E[n] /\ S[n + 1] = E[n] + l /\ S[n + 1] <= Len(out) + 1
    BY <1>0, <1>6, <2>1
  <2>3. ASSUME NEW k \in 0 .. (l - 1) PROVE out[E[n] + k] = text[b + k]
    <3>1. /\ k + 1 \in 1 .. l /\ x + (k + 1) = E[n] + k /\ b + (k + 1) - 1 = b + k
          /\ x + (k + 1) \in 1 .. Len(s)
      BY <1>6, <2>1
    <3>2. out[x + (k + 1)] = s[x + (k + 1)] /\ s[x + (k + 1)] = g[k + 1] /\ g[k + 1] = text[b + (k + 1) - 1]
      BY <2>1, <3>1
    <3> QED BY <3>1, <3>2
  <2> QED BY <2>2, <2>3, <2>l, <2>b
<1>7. /\ 1 <= E[0] /\ S[0 + 1] = E[0] + (StartOf(0 + 1) - EndOf(0)) /\ S[0 + 1] <= Len(out) + 1
      /\ \A k \in 0 .. (StartOf(0 + 1) - EndOf(0) - 1) : out[E[0] + k] = text[EndOf(0) + k]
  <2>1. 0 \in 0 .. Len(found) /\ sums[0] = GapBefore(0 + 1)
    BY <1>0 DEF AddUp
  <2>2. /\ Len(sums[0]) = 0 + (StartOf(0 + 1) - EndOf(0))
        /\ \A k \in 1 .. (StartOf(0 + 1) - EndOf(0)) : sums[0][0 + k] = GapBefore(0 + 1)[k]
    <3>1. Len(GapBefore(0 + 1)) = StartOf(0 + 1) - EndOf(0) /\ StartOf(0 + 1) - EndOf(0) \in Nat
      BY <1>5, <2>1
    <3>2. \A k \in 1 .. (StartOf(0 + 1) - EndOf(0)) : 0 + k = k
      BY <3>1
    <3> QED BY <2>1, <3>1, <3>2
  <2>3. 0 \in Nat /\ E[0] = 0 + 1
    BY <1>2
  <2> QED BY <1>6, <2>1, <2>2, <2>3
<1>8. ASSUME NEW n \in 1 .. Len(found)
      PROVE  /\ 1 <= E[n] /\ S[n + 1] = E[n] + (StartOf(n + 1) - EndOf(n)) /\ S[n + 1] <= Len(out) + 1
             /\ \A k \in 0 .. (StartOf(n + 1) - EndOf(n) - 1) : out[E[n] + k] = text[EndOf(n) + k]
             /\ \A k \in 1 .. Len(values[n]) : out[S[n] + k - 1] = values[n][k]
  <2>r. PICK r : r = sums[n - 1]
    OBVIOUS
  <2>v. PICK v : v = values[n]
    OBVIOUS
  <2>g. PICK g : g = GapBefore(n + 1)
    OBVIOUS
  <2>s. PICK s : s = sums[n]
    OBVIOUS
  <2>0. n \in 0 .. Len(found) /\ n - 1 \in 0 .. Len(found)
    BY <1>0
  <2>1. /\ r \in Seq(Symbol) /\ v \in Seq(Symbol) /\ g \in Seq(Symbol) /\ s = r \o v \o g
        /\ Len(r) \in Nat /\ Len(v) \in Nat /\ Len(g) \in Nat
    <3>1. r \in Seq(Symbol) /\ v \in Seq(Symbol) /\ g \in Seq(Symbol)
      BY <1>0, <1>5, <2>0, <2>r, <2>v, <2>g
    <3>2. n \in 1 .. Len(values)
      OBVIOUS
    <3>3. s = r \o v \o g
      BY <3>2, <2>r, <2>v, <2>g, <2>s DEF AddUp
    <3> QED BY <3>1, <3>3
  <2>m. PICK m : m = r \o v
    OBVIOUS
  <2>2. /\ m \in Seq(Symbol) /\ Len(m) = Len(r) + Len(v)
        /\ \A j \in 1 .. Len(v) : m[Len(r) + j] = v[j]
    BY <2>1, <2>m, JoinedIs
  <2>3. /\ Len(s) = Len(m) + Len(g) /\ \A j \in 1 .. Len(m) : s[j] = m[j]
        /\ \A j \in 1 .. Len(g) : s[Len(m) + j] = g[j]
    <3>1. s = m \o g /\ m \in Seq(Symbol) /\ g \in Seq(Symbol)
      BY <2>1, <2>2, <2>m
    <3> QED BY ONLY <3>1, JoinedIs
  <2>4. E[n] = Len(m) + 1 /\ Len(m) \in Nat /\ S[n] = Len(r) + 1
    <3>1. S[n] = Len(r) + 1 /\ E[n] = S[n] + Len(v)
      BY <1>4, <2>r, <2>v
    <3>2. Len(m) = Len(r) + Len(v) /\ Len(r) \in Nat /\ Len(v) \in Nat
      BY <2>1, <2>2
    <3> QED BY ONLY <3>1, <3>2
  <2>5. /\ 1 <= E[n] /\ S[n + 1] = E[n] + (StartOf(n + 1) - EndOf(n)) /\ S[n + 1] <= Len(out) + 1
        /\ \A k \in 0 .. (StartOf(n + 1) - EndOf(n) - 1) : out[E[n] + k] = text[EndOf(n) + k]
    <3>1. Len(g) = StartOf(n + 1) - EndOf(n)
      BY <1>5, <2>0, <2>g
    <3>2. /\ Len(sums[n]) = Len(m) + (StartOf(n + 1) - EndOf(n))
          /\ \A k \in 1 .. (StartOf(n + 1) - EndOf(n)) : sums[n][Len(m) + k] = GapBefore(n + 1)[k]
      BY <2>3, <2>s, <2>g, <3>1
    <3> QED BY <1>6, <2>0, <2>4, <3>2
  <2>6. ASSUME NEW k \in 1 .. Len(v) PROVE out[S[n] + k - 1] = v[k]
    <3>1. /\ S[n] + k - 1 = Len(r) + k /\ Len(r) + k \in 1 .. Len(m) /\ Len(r) + k \in 1 .. Len(s)
      BY <2>1, <2>2, <2>3, <2>4
    <3>2. \A j \in 1 .. Len(s) : out[j] = s[j]
      BY <1>5, <2>0, <2>s
    <3> QED BY <2>2, <2>3, <3>1, <3>2
  <2> QED BY <2>5, <2>6, <2>v
<1>9. ASSUME NEW n \in 0 .. Len(found)
      PROVE  /\ 1 <= E[n] /\ S[n + 1] = E[n] + (StartOf(n + 1) - EndOf(n)) /\ S[n + 1] <= Len(out) + 1
             /\ \A k \in 0 .. (StartOf(n + 1) - EndOf(n) - 1) : out[E[n] + k] = text[EndOf(n) + k]
  <2>1. n = 0 \/ n \in 1 .. Len(found)
    BY <1>0
  <2> QED BY <1>7, <1>8, <2>1
<1>10. Layout(S, E)
  BY <1>1, <1>2, <1>4, <1>8, <1>9 DEF Layout
<1> QED BY <1>10

(* The scan finds every reference there is, and what is put in for one, or *)
(* left, is read under its own kid and runs into nothing beside it: in the *)
(* new text none begins in a gap. So in a file of any length none is left  *)
(* under the retired kid (template.rs:100-177, main.rs:396-420).           *)
THEOREM TemplateRotates == Spec => []NoneLeftBehind
<1>1. Init => CopyInv /\ TokenInv /\ ValuesInv
  <2>1. Init => ValuesInv
    <3>1. Init => values = << >>
      BY DEF Init
    <3> QED BY <3>1 DEF ValuesInv
  <2> QED BY <2>1, CopyInit, TokenInit
<1>2. CopyInv /\ TokenInv /\ ValuesInv /\ [Next]_vars => CopyInv' /\ TokenInv' /\ ValuesInv'
  BY CopyNext, TokenNext, ValuesNext
<1>3. CopyInv /\ TokenInv /\ ValuesInv => NoneLeftBehind
  <2> SUFFICES ASSUME CopyInv, TokenInv, ValuesInv, command = "rewrap", phase = "done", From # To,
                      NEW token \in TokensOf(out)
               PROVE  token.kid # From
    BY DEF NoneLeftBehind
  <2>1. /\ Shapes /\ InOrder /\ Len(values) = Len(found) /\ phase # "scan"
        /\ \E sums \in [0 .. Len(values) -> Str] : AddUp(sums, values) /\ sums[Len(values)] = out
    BY DEF CopyInv, OutSoFar
  <2>2. PICK S, E : Layout(S, E)
    BY <2>1, LaidOut
  <2>3. \A n \in 1 .. Len(found) : IsValue(values[n])
    BY <2>1 DEF ValuesInv
  <2>4. Written(S, E)
    BY <2>1, <2>2, <2>3 DEF Written
  <2> QED BY <2>4, OnlyValuesRead
<1> QED BY <1>1, <1>2, <1>3, PTL DEF Spec
=============================================================================
