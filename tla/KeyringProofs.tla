--------------------------- MODULE KeyringProofs ----------------------------
(***************************************************************************)
(* Proofs about KeyringText, for a keyring of any length: a ring holds a   *)
(* key for every line of its text that is not a comment, or it is refused. *)
(***************************************************************************)
EXTENDS KeyringText, TextProofs

(* Every literal is a string, which the provers do not know: the end of a  *)
(* line is named.                                                          *)
Symbol == STRING \cup {"\n"}

Str == Seq(Symbol)

Key == UNION {KeysIn(line) : line \in Str}

(* The lines with a key that the loop has passed.                          *)
Behind == {i \in Lines(Delivered) : i < next}

(* Where the keys are from: the lines behind the loop, each of them once   *)
(* and in their order.                                                     *)
From(at) ==
    /\ \A n \in 1 .. Len(keys) : KeysIn(LineFrom(Delivered, at[n])) = {keys[n]}
    /\ \A i \in Behind : \E n \in 1 .. Len(keys) : at[n] = i
    /\ \A m, n \in 1 .. Len(keys) : m < n => at[m] < at[n]

RingInv ==
    /\ text \in Str /\ inline \in BOOLEAN /\ keys \in Seq(Key) /\ next \in Nat \ {0}
    /\ next <= Len(text) => next \in LineStarts(Delivered)
    /\ phase # "refused" =>
        /\ \E at \in [1 .. Len(keys) -> Behind] : From(at)
        /\ \A m, n \in 1 .. Len(keys) : m # n => keys[m].kid # keys[n].kid
    /\ phase = "parsed" => next > Len(text) /\ keys # << >>

-----------------------------------------------------------------------------
LEMMA TextsAreStrs == Seq(STRING) \subseteq Str
<1> SUFFICES ASSUME NEW t \in Seq(STRING) PROVE t \in Seq(Symbol)
  BY DEF Str
<1>1. Len(t) \in Nat /\ t \in [1 .. Len(t) -> STRING]
  OBVIOUS
<1>2. STRING \subseteq Symbol
  BY DEF Symbol
<1>3. t \in [1 .. Len(t) -> Symbol]
  BY <1>1, <1>2
<1> QED BY <1>1, <1>3

LEMMA DeliveredShape ==
    ASSUME NEW t \in Str, NEW flag
    PROVE  LET d == IF flag THEN [i \in DOMAIN t |-> IF t[i] = ";" THEN "\n" ELSE t[i]] ELSE t
           IN  d \in Str /\ Len(d) = Len(t) /\ Len(t) \in Nat
<1>1. Len(t) \in Nat /\ DOMAIN t = 1 .. Len(t) /\ \A i \in 1 .. Len(t) : t[i] \in Symbol
  BY DEF Str
<1> DEFINE nl == "\n"
           changed == [i \in DOMAIN t |-> IF t[i] = ";" THEN nl ELSE t[i]]
<1>2. nl \in Symbol
  BY DEF Symbol
<1>3. \A i \in 1 .. Len(t) : changed[i] \in Symbol
  <2> HIDE DEF nl
  <2> QED BY <1>1, <1>2
<1>4. changed \in Seq(Symbol) /\ Len(changed) = Len(t)
  <2>1. changed \in [1 .. Len(t) -> Symbol]
    BY <1>1, <1>3
  <2> HIDE DEF changed
  <2> QED BY <1>1, <2>1
<1> QED BY <1>1, <1>4 DEF Str

LEMMA DeliveredIs ==
    ASSUME text \in Str
    PROVE  Delivered \in Str /\ Len(Delivered) = Len(text) /\ Len(text) \in Nat
BY DeliveredShape DEF Delivered

(* A line holds one key at most: its kid ends at the first blank.          *)
LEMMA OneKey ==
    ASSUME NEW line, Len(Trim(line)) \in Nat, NEW x \in KeysIn(line), NEW y \in KeysIn(line)
    PROVE  x = y
<1> DEFINE t == Trim(line)
           Blanks == {b \in 2 .. Len(t) :
                        /\ t[b] \in Blank
                        /\ \A j \in 1 .. (b - 1) : t[j] \notin Blank}
           kid(b) == Slice(t, 1, b)
           rest(b) == Trim(SubSeq(t, b, Len(t)))
           random(b) == [kid |-> kid(b), form |-> "random", secret |-> rest(b)]
           phrase(b) == [kid |-> kid(b), form |-> "argon2id", secret |-> Tail(rest(b))]
           Of(b) == CASE \E i \in DOMAIN kid(b) : kid(b)[i] \notin Kid \cup Random -> {}
                      [] \E r \in Random : rest(b) = <<r>> -> {random(b)}
                      [] HasPassphrase(rest(b)) -> {phrase(b)}
                      [] OTHER -> {}
<1>1. KeysIn(line) = UNION {Of(b) : b \in Blanks}
  BY DEF KeysIn
<1>2. \A b, c \in Blanks : b = c
  <2> SUFFICES ASSUME NEW b \in Blanks, NEW c \in Blanks, b < c PROVE FALSE
    OBVIOUS
  <2>1. b \in 1 .. (c - 1)
    OBVIOUS
  <2> QED BY <2>1
<1>3. ASSUME NEW b \in Blanks PROVE \A u, v \in Of(b) : u = v
  <2> HIDE DEF kid, rest, random, phrase, Blanks
  <2> QED OBVIOUS
<1> HIDE DEF Blanks, Of
<1> QED BY <1>1, <1>2, <1>3

-----------------------------------------------------------------------------
(* From one line the loop goes on to the next.                             *)
LEMMA LineStep ==
    ASSUME RingInv, AtLine, next' = next + Len(Line) + 1, UNCHANGED <<text, inline>>
    PROVE  /\ Delivered' = Delivered /\ Line \in Str
           /\ next' \in Nat \ {0} /\ next < next'
           /\ next' <= Len(text') => next' \in LineStarts(Delivered')
           /\ Behind' = IF Ignored(Line) THEN Behind ELSE Behind \cup {next}
<1> DEFINE d == Delivered
           nl == "\n"
           e == next + Len(Line)
<1>1. Delivered' = d
  BY DEF Delivered
<1>2. d \in Seq(Symbol) /\ Len(d) = Len(text) /\ Len(text) \in Nat
  BY DeliveredIs DEF RingInv, Str
<1>3. next \in 1 .. Len(d) /\ next \in LineStarts(d)
  BY <1>2 DEF RingInv, AtLine
<1>4. nl \in Symbol /\ Line = LineFrom(d, next)
  BY DEF Symbol, Line
<1>5. /\ e \in next .. (Len(d) + 1) /\ Line \in Seq(Symbol)
      /\ \A j \in next .. (e - 1) : d[j] # nl
      /\ e <= Len(d) => d[e] = nl
  <2> HIDE DEF d
  <2>1. LET x == next + Len(LineFrom(d, next))
        IN  /\ x \in next .. (Len(d) + 1)
            /\ LineFrom(d, next) \in Seq(Symbol)
            /\ \A j \in next .. (x - 1) : d[j] # "\n"
            /\ x <= Len(d) => d[x] = "\n"
    BY <1>2, <1>3, <1>4, LineIs
  <2> QED BY <1>4, <2>1
<1>6. next' = e + 1
  OBVIOUS
<1>7. \A i : i \in LineStarts(d) <=> i \in 1 .. Len(d) /\ (i = 1 \/ d[i - 1] = nl)
  BY DEF LineStarts
<1> HIDE DEF d, nl, e
<1>8. next' \in Nat \ {0} /\ next < next'
  BY <1>2, <1>3, <1>5, <1>6
<1>9. ASSUME next' <= Len(d) PROVE next' \in LineStarts(d)
  <2>1. next' \in 1 .. Len(d) /\ next' - 1 = e /\ e <= Len(d)
    BY <1>2, <1>3, <1>5, <1>6, <1>9
  <2> QED BY <1>5, <1>7, <2>1
<1>10. ASSUME NEW i \in LineStarts(d) PROVE i < next' <=> i < next \/ i = next
  <2>1. i \in 1 .. Len(d) /\ (i = 1 \/ d[i - 1] = nl)
    BY <1>7
  <2>2. ASSUME i < next', ~(i < next), i # next PROVE FALSE
    <3>1. i # 1 /\ i - 1 \in next .. (e - 1)
      BY <1>2, <1>3, <1>5, <1>6, <2>1, <2>2
    <3> QED BY <1>5, <2>1, <3>1
  <2> QED BY <1>3, <1>8, <2>1, <2>2
<1>11. Behind' = {i \in Lines(d) : i < next'} /\ Behind = {i \in Lines(d) : i < next}
  BY <1>1 DEF Behind, d
<1>12. \A i : i \in Lines(d) <=> i \in LineStarts(d) /\ ~Ignored(LineFrom(d, i))
  BY DEF Lines
<1>13. Behind' = IF Ignored(Line) THEN Behind ELSE Behind \cup {next}
  BY <1>3, <1>4, <1>10, <1>11, <1>12
<1>14. text' = text /\ Line \in Str
  BY <1>5 DEF Str
<1> QED BY <1>1, <1>2, <1>8, <1>9, <1>13, <1>14 DEF d

LEMMA SkipKeeps == ASSUME RingInv, SkipLine PROVE RingInv'
<1>1. /\ AtLine /\ Ignored(Line) /\ next' = next + Len(Line) + 1
      /\ UNCHANGED <<text, inline, keys, edit, phase>> /\ phase = "lines"
  BY DEF SkipLine, AtLine
<1>2. /\ Delivered' = Delivered /\ next' \in Nat \ {0}
      /\ next' <= Len(text') => next' \in LineStarts(Delivered')
      /\ Behind' = Behind
  BY <1>1, LineStep
<1>3. PICK at \in [1 .. Len(keys) -> Behind] : From(at)
  BY <1>1 DEF RingInv
<1>4. at \in [1 .. Len(keys') -> Behind'] /\ From(at)'
  BY <1>1, <1>2, <1>3 DEF From
<1> QED BY <1>1, <1>2, <1>4 DEF RingInv

LEMMA TakeKeeps == ASSUME RingInv, TakeKey PROVE RingInv'
<1>1. /\ AtLine /\ ~Ignored(Line) /\ next' = next + Len(Line) + 1
      /\ UNCHANGED <<text, inline, edit, phase>> /\ phase = "lines"
  BY DEF TakeKey, AtLine
<1>2. /\ Delivered' = Delivered /\ Line \in Str /\ next' \in Nat \ {0} /\ next < next'
      /\ next' <= Len(text') => next' \in LineStarts(Delivered')
      /\ Behind' = Behind \cup {next}
  BY <1>1, LineStep
<1>3. PICK key \in KeysIn(Line) : ~Taken(keys, key.kid) /\ keys' = Append(keys, key)
  BY DEF TakeKey, Pushed
<1>4. PICK at \in [1 .. Len(keys) -> Behind] : From(at)
  BY <1>1 DEF RingInv
<1> DEFINE k == Len(keys)
           more == [n \in 1 .. (k + 1) |-> IF n <= k THEN at[n] ELSE next]
<1>5. keys \in Seq(Key) /\ k \in Nat /\ DOMAIN keys = 1 .. k /\ key \in Key
  BY <1>2 DEF RingInv, Key
<1>6. /\ keys' \in Seq(Key) /\ Len(keys') = k + 1 /\ keys'[k + 1] = key
      /\ \A n \in 1 .. k : keys'[n] = keys[n]
  BY <1>3, <1>5, AppendProperties
<1>7. KeysIn(LineFrom(Delivered, next)) = {key}
  <2>1. Len(Trim(Line)) \in Nat
    BY <1>2, TrimIsText DEF Str
  <2>2. KeysIn(Line) = {key}
    BY <1>3, <2>1, OneKey
  <2> QED BY <2>2 DEF Line
<1>8. \A i \in Behind : i < next /\ i \in Nat
  BY DeliveredIs DEF Behind, Lines, LineStarts, RingInv
<1>9. next \in Nat
  BY DEF RingInv
<1>10. more \in [1 .. (k + 1) -> Behind']
  BY <1>2, <1>4, <1>5
<1>11. /\ \A n \in 1 .. k : more[n] = at[n] /\ n \in 1 .. (k + 1)
       /\ more[k + 1] = next /\ k + 1 \in 1 .. (k + 1)
       /\ \A n \in 1 .. (k + 1) : n \in 1 .. k \/ n = k + 1
  BY <1>5
<1> HIDE DEF k, more
<1>12. ASSUME NEW n \in 1 .. (k + 1) PROVE KeysIn(LineFrom(Delivered, more[n])) = {keys'[n]}
  <2>1. CASE n \in 1 .. k
    BY <1>4, <1>6, <1>11, <2>1 DEF From, k
  <2> QED BY <1>6, <1>7, <1>11, <2>1
<1>13. ASSUME NEW i \in Behind' PROVE \E n \in 1 .. (k + 1) : more[n] = i
  <2>1. CASE i \in Behind
    <3>1. PICK n \in 1 .. k : at[n] = i
      BY <1>4, <2>1 DEF From, k
    <3> QED BY <1>11, <3>1
  <2> QED BY <1>2, <1>11, <2>1
<1>14. ASSUME NEW m \in 1 .. (k + 1), NEW n \in 1 .. (k + 1), m < n PROVE more[m] < more[n]
  <2>1. m \in 1 .. k
    BY <1>5, <1>14
  <2>2. CASE n \in 1 .. k
    BY <1>4, <1>11, <1>14, <2>1, <2>2 DEF From, k
  <2>3. CASE n = k + 1
    <3>1. at[m] \in Behind
      BY <1>4, <2>1 DEF k
    <3> QED BY <1>8, <1>11, <2>1, <2>3, <3>1
  <2> QED BY <1>11, <2>2, <2>3
<1>15. PICK f : f = more
  OBVIOUS
<1>16. f \in [1 .. Len(keys') -> Behind'] /\ From(f)'
  BY <1>2, <1>6, <1>10, <1>12, <1>13, <1>14, <1>15 DEF From
<1>17. ASSUME NEW m \in 1 .. (k + 1), NEW n \in 1 .. (k + 1), m # n
       PROVE  keys'[m].kid # keys'[n].kid
  <2>1. \A i \in 1 .. k : keys[i].kid # key.kid
    BY <1>3, <1>5 DEF Taken
  <2>2. \A i, j \in 1 .. k : i # j => keys[i].kid # keys[j].kid
    BY <1>1 DEF RingInv, k
  <2> QED BY <1>6, <1>11, <1>17, <2>1, <2>2
<1> QED BY <1>1, <1>2, <1>6, <1>16, <1>17 DEF RingInv

LEMMA RefuseKeeps == ASSUME RingInv, RefuseLine PROVE RingInv'
<1>1. /\ keys' = << >> /\ phase' = "refused" /\ UNCHANGED <<text, inline, next>>
      /\ Delivered' = Delivered
  BY DEF RefuseLine, Delivered
<1>2. << >> \in Seq(Key)
  OBVIOUS
<1> QED BY <1>1, <1>2 DEF RingInv

LEMMA EndKeeps == ASSUME RingInv, EndOfText PROVE RingInv'
<1>1. /\ phase = "lines" /\ next > Len(text) /\ (keys = << >> => phase' = "refused")
      /\ UNCHANGED <<text, inline, next, keys, edit>>
      /\ Delivered' = Delivered /\ Behind' = Behind
  BY DEF EndOfText, Delivered, Behind
<1>2. PICK at \in [1 .. Len(keys) -> Behind] : From(at)
  BY <1>1 DEF RingInv
<1>3. at \in [1 .. Len(keys') -> Behind'] /\ From(at)'
  BY <1>1, <1>2 DEF From
<1> QED BY <1>1, <1>3 DEF RingInv

(* A load starts at the first line without a key.                          *)
LEMMA LoadStarts ==
    ASSUME text' \in Str, inline' \in BOOLEAN, next' = 1, keys' = << >>, phase' = "lines"
    PROVE  RingInv'
<1>1. Delivered' \in Str /\ Len(Delivered') = Len(text') /\ Len(text') \in Nat
  BY DeliveredShape DEF Delivered
<1>2. \A i \in LineStarts(Delivered') : i \in 1 .. Len(text')
  BY <1>1 DEF LineStarts
<1>3. Behind' = {}
  BY <1>1, <1>2 DEF Behind, Lines
<1>4. 1 <= Len(text') => 1 \in LineStarts(Delivered')
  BY <1>1 DEF LineStarts
<1>5. << >> \in Seq(Key) /\ Len(<< >>) = 0 /\ 1 .. 0 = {}
  OBVIOUS
<1>6. PICK at : at = [n \in {} |-> n]
  OBVIOUS
<1>7. at \in [1 .. Len(keys') -> Behind'] /\ From(at)'
  BY <1>3, <1>5, <1>6 DEF From
<1>8. \A m, n \in 1 .. Len(keys') : m # n => keys'[m].kid # keys'[n].kid
  BY <1>5
<1>9. next' \in Nat \ {0} /\ keys' \in Seq(Key) /\ (next' <= Len(text') => next' \in LineStarts(Delivered'))
  BY <1>4, <1>5
<1>10. phase' # "parsed"
  OBVIOUS
<1> QED BY <1>7, <1>8, <1>9, <1>10 DEF RingInv

LEMMA ChangeKeeps ==
    ASSUME RingInv, NEW what, NEW line, NEW newText \in Str, Changed(what, line, newText)
    PROVE  RingInv'
BY LoadStarts DEF RingInv, Changed

LEMMA AddedIs == ASSUME RingInv, NEW line \in Fresh
    PROVE  /\ text \o line \o <<"\n">> \in Str
           /\ line \o <<"\n">> \o text \in Str
<1> DEFINE end == <<"\n">>
<1>1. end \in Seq(Symbol) /\ line \in Seq(Symbol) /\ text \in Seq(Symbol)
  <2>1. line \in Seq(STRING)
    BY KeyringAssumption
  <2> QED BY <2>1, TextsAreStrs DEF Symbol, Str, RingInv
<1> HIDE DEF end
<1>2. (text \o line) \o end \in Seq(Symbol) /\ (line \o end) \o text \in Seq(Symbol)
  BY <1>1, ConcatProperties
<1> QED BY <1>2 DEF end, Str

LEMMA RestIs == ASSUME RingInv, NEW i \in LineStarts(text)
    PROVE  SubSeq(text, 1, i - 1) \o SubSeq(text, i + Len(LineFrom(text, i)) + 1, Len(text)) \in Str
<1> DEFINE e == i + Len(LineFrom(text, i))
<1>1. /\ text \in Seq(Symbol) /\ Len(text) \in Nat /\ i \in 1 .. Len(text)
      /\ \A j \in 1 .. Len(text) : text[j] \in Symbol
  BY DEF RingInv, Str, LineStarts
<1>2. e \in i .. (Len(text) + 1)
  <2>1. "\n" \in Symbol
    BY DEF Symbol
  <2> QED BY <1>1, <2>1, LineIs
<1> HIDE DEF e
<1>3. /\ e + 1 \in Int /\ i - 1 \in Int
      /\ \A j \in 1 .. (i - 1) : text[j] \in Symbol
      /\ \A j \in (e + 1) .. Len(text) : text[j] \in Symbol
  BY <1>1, <1>2
<1>4. SubSeq(text, 1, i - 1) \in Seq(Symbol) /\ SubSeq(text, e + 1, Len(text)) \in Seq(Symbol)
  BY <1>1, <1>3, SubSeqProperties
<1>5. SubSeq(text, 1, i - 1) \o SubSeq(text, e + 1, Len(text)) \in Seq(Symbol)
  BY <1>4, ConcatProperties
<1> QED BY <1>5 DEF e, Str

-----------------------------------------------------------------------------
LEMMA RingInit == Init => RingInv
<1> SUFFICES ASSUME Init PROVE RingInv
  OBVIOUS
<1>1. /\ text \in Str /\ inline \in BOOLEAN /\ next = 1 /\ keys = << >> /\ phase = "lines"
  BY KeyringAssumption, TextsAreStrs DEF Init
<1>2. Delivered \in Str /\ Len(Delivered) = Len(text) /\ Len(text) \in Nat
  BY <1>1, DeliveredIs
<1>3. Behind = {} /\ (1 <= Len(text) => 1 \in LineStarts(Delivered))
  BY <1>1, <1>2 DEF Behind, Lines, LineStarts
<1>4. << >> \in Seq(Key) /\ Len(<< >>) = 0 /\ 1 .. 0 = {}
  OBVIOUS
<1>5. PICK at : at = [n \in {} |-> n]
  OBVIOUS
<1>6. at \in [1 .. Len(keys) -> Behind] /\ From(at)
  BY <1>1, <1>3, <1>4, <1>5 DEF From
<1>7. \A m, n \in 1 .. Len(keys) : m # n => keys[m].kid # keys[n].kid
  BY <1>1, <1>4
<1>8. next \in Nat \ {0} /\ keys \in Seq(Key) /\ (next <= Len(text) => next \in LineStarts(Delivered))
  BY <1>1, <1>3, <1>4
<1>9. phase # "parsed"
  BY <1>1
<1> QED BY <1>1, <1>6, <1>7, <1>8, <1>9 DEF RingInv

LEMMA RingNext == RingInv /\ [Next]_vars => RingInv'
<1> SUFFICES ASSUME RingInv, [Next]_vars PROVE RingInv'
  OBVIOUS
<1>1. CASE SkipLine
  BY <1>1, SkipKeeps
<1>2. CASE TakeKey
  BY <1>2, TakeKeeps
<1>3. CASE RefuseLine
  BY <1>3, RefuseKeeps
<1>4. CASE EndOfText
  BY <1>4, EndKeeps
<1>5. CASE AppendKey
  BY <1>5, AddedIs, ChangeKeeps DEF AppendKey
<1>6. CASE PrependKey
  BY <1>6, AddedIs, ChangeKeeps DEF PrependKey
<1>7. CASE RemoveKey
  BY <1>7, RestIs, ChangeKeeps DEF RemoveKey
<1>8. CASE UNCHANGED vars
  <2>1. Delivered' = Delivered /\ Behind' = Behind /\ UNCHANGED <<text, inline, next, keys, phase>>
    BY <1>8 DEF vars, Behind, Delivered
  <2>2. ASSUME phase # "refused" PROVE \E at \in [1 .. Len(keys') -> Behind'] : From(at)'
    <3>1. PICK at \in [1 .. Len(keys) -> Behind] : From(at)
      BY <2>2 DEF RingInv
    <3>2. at \in [1 .. Len(keys') -> Behind'] /\ From(at)'
      BY <2>1, <3>1 DEF From
    <3> QED BY <3>2
  <2> QED BY <2>1, <2>2 DEF RingInv
<1> QED BY <1>1, <1>2, <1>3, <1>4, <1>5, <1>6, <1>7, <1>8 DEF Next

(* Two counts of a sequence whose elements differ.                         *)
LEMMA CountOnto ==
    ASSUME NEW k \in Nat, NEW T, NEW f \in [1 .. k -> T],
           \A m, n \in 1 .. k : f[m] = f[n] => m = n,
           \A x \in T : \E n \in 1 .. k : f[n] = x
    PROVE  Cardinality(T) = k
<1>1. f \in Bijection(1 .. k, T)
  BY DEF Bijection, Injection, Surjection, IsInjective
<1>2. IsFiniteSet(1 .. k) /\ Cardinality(1 .. k) = k
  BY FS_Interval
<1>3. ExistsBijection(1 .. k, T)
  BY <1>1 DEF ExistsBijection
<1> QED BY <1>2, <1>3, FS_Bijection

LEMMA RingIsWhole == RingInv => WholeRing
<1> SUFFICES ASSUME RingInv, phase = "parsed" PROVE
        /\ keys # << >>
        /\ Len(keys) = Cardinality(Lines(Delivered))
        /\ Cardinality({keys[n].kid : n \in DOMAIN keys}) = Len(keys)
        /\ \E i \in Lines(Delivered) :
            /\ \A j \in Lines(Delivered) : i <= j
            /\ KeysIn(LineFrom(Delivered, i)) = {keys[1]}
  BY DEF WholeRing
<1> DEFINE k == Len(keys)
           T == Lines(Delivered)
           Kids == {keys[n].kid : n \in DOMAIN keys}
<1>1. /\ keys \in Seq(Key) /\ keys # << >> /\ next > Len(text) /\ next \in Nat
      /\ text \in Str
      /\ \A m, n \in 1 .. k : m # n => keys[m].kid # keys[n].kid
  BY DEF RingInv
<1>2. k \in Nat /\ k # 0 /\ 1 \in 1 .. k /\ DOMAIN keys = 1 .. k
  BY <1>1
<1>3. Behind = T /\ \A i \in T : i \in Nat
  <2>1. Len(Delivered) = Len(text) /\ Len(text) \in Nat
    BY <1>1, DeliveredIs
  <2>2. \A i \in T : i \in 1 .. Len(text)
    BY <2>1 DEF Lines, LineStarts
  <2> QED BY <1>1, <2>1, <2>2 DEF Behind
<1>4. PICK at \in [1 .. k -> T] : From(at)
  BY <1>3 DEF RingInv
<1>5. /\ \A n \in 1 .. k : KeysIn(LineFrom(Delivered, at[n])) = {keys[n]} /\ at[n] \in T
      /\ \A i \in T : \E n \in 1 .. k : at[n] = i
      /\ \A m, n \in 1 .. k : m < n => at[m] < at[n]
  BY <1>3, <1>4 DEF From
<1> HIDE DEF k, T, Kids
<1>6. Cardinality(T) = k
  <2>1. \A m, n \in 1 .. k : at[m] = at[n] => m = n
    <3> SUFFICES ASSUME NEW m \in 1 .. k, NEW n \in 1 .. k, at[m] = at[n] PROVE m = n
      OBVIOUS
    <3>1. at[m] \in Nat /\ at[n] \in Nat /\ m \in Nat /\ n \in Nat
      BY <1>2, <1>3, <1>5
    <3>2. ~(m < n) /\ ~(n < m)
      BY <1>5, <3>1
    <3> QED BY <3>1, <3>2
  <2> QED BY <1>2, <1>4, <1>5, <2>1, CountOnto
<1>7. Cardinality(Kids) = k
  <2> DEFINE f == [n \in 1 .. k |-> keys[n].kid]
  <2>1. f \in [1 .. k -> Kids] /\ \A x \in Kids : \E n \in 1 .. k : f[n] = x
    BY <1>2 DEF Kids
  <2>2. \A m, n \in 1 .. k : f[m] = f[n] => m = n
    BY <1>1 DEF k
  <2> HIDE DEF f
  <2> QED BY <1>2, <2>1, <2>2, CountOnto
<1>8. at[1] \in T /\ (\A j \in T : at[1] <= j) /\ KeysIn(LineFrom(Delivered, at[1])) = {keys[1]}
  <2>1. ASSUME NEW j \in T PROVE at[1] <= j
    <3>1. PICK n \in 1 .. k : at[n] = j
      BY <1>5
    <3>2. at[1] \in Nat /\ at[n] \in Nat /\ (n = 1 \/ 1 < n)
      BY <1>2, <1>3, <1>5
    <3> QED BY <1>2, <1>5, <3>1, <3>2
  <2> QED BY <1>2, <1>5, <2>1
<1> QED BY <1>1, <1>6, <1>7, <1>8 DEF k, T, Kids

(* A keyring is every line of its text or none (keyring.rs Keyring::parse):*)
(* one key for each line that is not a comment, each under a kid of its    *)
(* own, and the first line's is the one that default_key takes.            *)
THEOREM KeyringWhole == Spec => []WholeRing
<1>1. Spec => []RingInv
  BY RingInit, RingNext, PTL DEF Spec
<1> QED BY <1>1, RingIsWhole, PTL

-----------------------------------------------------------------------------
(* The ring of a text, said without a loop.                                *)
Reads(at, d, ring) ==
    /\ \A n \in 1 .. Len(ring) : KeysIn(LineFrom(d, at[n])) = {ring[n]}
    /\ \A i \in Lines(d) : \E n \in 1 .. Len(ring) : at[n] = i
    /\ \A m, n \in 1 .. Len(ring) : m < n => at[m] < at[n]

Whole(d, ring) ==
    ring \in Seq(Key) /\ \E at \in [1 .. Len(ring) -> Lines(d)] : Reads(at, d, ring)

Distinct(ring) == \A m, n \in 1 .. Len(ring) : m # n => ring[m].kid # ring[n].kid

(* The last line of a text has an end, if there is one.                    *)
Newline == "\n"

Closed(t) == t = << >> \/ t[Len(t)] = Newline

(* Lines by their symbols.                                                 *)
LEMMA StartsAre ==
    ASSUME NEW t \in Str
    PROVE  /\ Newline \in Symbol /\ Len(t) \in Nat
           /\ \A i : i \in LineStarts(t) <=> i \in 1 .. Len(t) /\ (i = 1 \/ t[i - 1] = Newline)
           /\ \A i : i \in Lines(t) <=> i \in LineStarts(t) /\ ~Ignored(LineFrom(t, i))
BY DEF Str, Symbol, Newline, LineStarts, Lines

LEMMA LineEnds ==
    ASSUME NEW t \in Str, NEW i \in 1 .. Len(t)
    PROVE  \E e \in i .. (Len(t) + 1) :
             /\ LineFrom(t, i) = Slice(t, i, e) /\ LineFrom(t, i) \in Str
             /\ Len(LineFrom(t, i)) = e - i
             /\ \A j \in i .. (e - 1) : t[j] # Newline
             /\ e <= Len(t) => t[e] = Newline
<1> DEFINE line == LineFrom(t, i)
           e == i + Len(line)
<1>1. /\ e \in i .. (Len(t) + 1) /\ line = Slice(t, i, e) /\ line \in Seq(Symbol)
      /\ \A j \in i .. (e - 1) : t[j] # "\n"
      /\ e <= Len(t) => t[e] = "\n"
  <2>1. "\n" \in Symbol /\ t \in Seq(Symbol)
    BY DEF Symbol, Str
  <2> QED BY <2>1, LineIs
<1>2. Len(line) = e - i
  BY <1>1
<1> HIDE DEF line, e
<1>3. \E x \in i .. (Len(t) + 1) :
        /\ line = Slice(t, i, x) /\ line \in Str /\ Len(line) = x - i
        /\ \A j \in i .. (x - 1) : t[j] # Newline
        /\ x <= Len(t) => t[x] = Newline
  BY <1>1, <1>2 DEF Newline, Str
<1> QED BY <1>3 DEF line

LEMMA LineThere ==
    ASSUME NEW t \in Str, NEW i \in 1 .. Len(t), NEW e \in i .. (Len(t) + 1),
           \A j \in i .. (e - 1) : t[j] # Newline,
           e <= Len(t) => t[e] = Newline
    PROVE  LineFrom(t, i) = Slice(t, i, e)
<1>1. PICK f \in i .. (Len(t) + 1) :
        /\ LineFrom(t, i) = Slice(t, i, f)
        /\ \A j \in i .. (f - 1) : t[j] # Newline
        /\ f <= Len(t) => t[f] = Newline
  BY LineEnds
<1>2. Len(t) \in Nat
  BY StartsAre
<1>3. ~(e < f) /\ ~(f < e)
  BY <1>1, <1>2
<1>4. e = f
  BY <1>2, <1>3
<1> QED BY <1>1, <1>4

(* Two texts behind one another have the lines of both, if the first one   *)
(* ends its last line.                                                     *)
LEMMA Joined ==
    ASSUME NEW a \in Str, NEW b \in Str
    PROVE  /\ a \o b \in Str /\ Len(a \o b) = Len(a) + Len(b)
           /\ Len(a) \in Nat /\ Len(b) \in Nat
           /\ \A i \in 1 .. Len(a) : (a \o b)[i] = a[i] /\ a[i] \in Symbol
           /\ \A j \in 1 .. Len(b) : (a \o b)[Len(a) + j] = b[j] /\ b[j] \in Symbol
<1>1. a \in Seq(Symbol) /\ b \in Seq(Symbol)
  BY DEF Str
<1>2. /\ a \o b \in Seq(Symbol) /\ Len(a \o b) = Len(a) + Len(b)
      /\ \A i \in 1 .. Len(a) + Len(b) : (a \o b)[i] = IF i <= Len(a) THEN a[i] ELSE b[i - Len(a)]
  BY <1>1, ConcatProperties
<1>3. Len(a) \in Nat /\ Len(b) \in Nat
  BY <1>1
<1> DEFINE c == a \o b
<1> HIDE DEF c
<1>4. ASSUME NEW j \in 1 .. Len(b) PROVE c[Len(a) + j] = b[j]
  <2>1. Len(a) + j \in 1 .. Len(a) + Len(b) /\ ~(Len(a) + j <= Len(a)) /\ (Len(a) + j) - Len(a) = j
    BY <1>3
  <2> QED BY <1>2, <2>1 DEF c
<1>5. \A i \in 1 .. Len(a) : i \in 1 .. Len(a) + Len(b) /\ i <= Len(a)
  BY <1>3
<1> QED BY <1>1, <1>2, <1>3, <1>4, <1>5 DEF Str, c

LEMMA LineInFirst ==
    ASSUME NEW a \in Str, NEW b \in Str, Closed(a), NEW i \in 1 .. Len(a)
    PROVE  LineFrom(a \o b, i) = LineFrom(a, i)
<1> DEFINE c == a \o b
<1>1. /\ c \in Str /\ Len(c) = Len(a) + Len(b) /\ Len(a) \in Nat /\ Len(b) \in Nat
      /\ \A k \in 1 .. Len(a) : c[k] = a[k]
  BY Joined
<1> HIDE DEF c
<1>2. PICK e \in i .. (Len(a) + 1) :
        /\ LineFrom(a, i) = Slice(a, i, e)
        /\ \A j \in i .. (e - 1) : a[j] # Newline
        /\ e <= Len(a) => a[e] = Newline
  BY LineEnds
<1>3. a[Len(a)] = Newline
  BY <1>1 DEF Closed
<1>4. e <= Len(a)
  <2>1. ~(e <= Len(a)) => Len(a) \in i .. (e - 1)
    BY <1>1
  <2> QED BY <1>2, <1>3, <2>1
<1>5. /\ i \in 1 .. Len(c) /\ e \in i .. (Len(c) + 1) /\ e \in 1 .. Len(a)
      /\ \A j \in i .. (e - 1) : j \in 1 .. Len(a)
  BY <1>1, <1>4
<1>6. LineFrom(c, i) = Slice(c, i, e)
  BY <1>1, <1>2, <1>4, <1>5, LineThere
<1>7. Slice(c, i, e) = Slice(a, i, e)
  <2>1. /\ c \in Seq(Symbol) /\ a \in Seq(Symbol)
        /\ i \in 1 .. (Len(c) + 1) /\ i \in 1 .. (Len(a) + 1)
    BY <1>1, <1>5 DEF Str
  <2>2. /\ Slice(c, i, e) \in Seq(Symbol) /\ Len(Slice(c, i, e)) = e - i
        /\ \A k \in 1 .. (e - i) : Slice(c, i, e)[k] = c[i + k - 1]
    BY <1>5, <2>1, SliceIs
  <2>3. /\ Slice(a, i, e) \in Seq(Symbol) /\ Len(Slice(a, i, e)) = e - i
        /\ \A k \in 1 .. (e - i) : Slice(a, i, e)[k] = a[i + k - 1]
    BY <2>1, SliceIs
  <2>4. \A k \in 1 .. (e - i) : c[i + k - 1] = a[i + k - 1]
    <3>1. \A k \in 1 .. (e - i) : i + k - 1 \in 1 .. Len(a)
      BY <1>1, <1>5
    <3> QED BY <1>1, <3>1
  <2> QED BY <2>2, <2>3, <2>4, SeqEqual
<1> QED BY <1>2, <1>6, <1>7 DEF c

LEMMA LineInSecond ==
    ASSUME NEW a \in Str, NEW b \in Str, NEW i \in 1 .. Len(b)
    PROVE  LineFrom(a \o b, Len(a) + i) = LineFrom(b, i)
<1> DEFINE c == a \o b
           n == Len(a)
<1>1. /\ c \in Str /\ Len(c) = n + Len(b) /\ n \in Nat /\ Len(b) \in Nat
      /\ \A k \in 1 .. Len(b) : c[n + k] = b[k]
  BY Joined
<1> HIDE DEF c, n
<1>2. PICK e \in i .. (Len(b) + 1) :
        /\ LineFrom(b, i) = Slice(b, i, e)
        /\ \A j \in i .. (e - 1) : b[j] # Newline
        /\ e <= Len(b) => b[e] = Newline
  BY LineEnds
<1>3. n + i \in 1 .. Len(c) /\ n + e \in (n + i) .. (Len(c) + 1) /\ (n + e <= Len(c) <=> e <= Len(b))
  BY <1>1
<1>4. ASSUME NEW j \in (n + i) .. ((n + e) - 1) PROVE c[j] # Newline
  <2>1. j - n \in i .. (e - 1) /\ j - n \in 1 .. Len(b) /\ n + (j - n) = j
    BY <1>1, <1>2
  <2> QED BY <1>1, <1>2, <2>1
<1>5. n + e <= Len(c) => c[n + e] = Newline
  <2>1. e <= Len(b) => e \in 1 .. Len(b)
    BY <1>1
  <2> QED BY <1>1, <1>2, <1>3, <2>1
<1>6. LineFrom(c, n + i) = Slice(c, n + i, n + e)
  <2> DEFINE x == n + i
             y == n + e
  <2>1. x \in 1 .. Len(c) /\ y \in x .. (Len(c) + 1)
        /\ (\A j \in x .. (y - 1) : c[j] # Newline) /\ (y <= Len(c) => c[y] = Newline)
    BY <1>3, <1>4, <1>5
  <2> HIDE DEF x, y
  <2>2. LineFrom(c, x) = Slice(c, x, y)
    BY <1>1, <2>1, LineThere
  <2> QED BY <2>2 DEF x, y
<1>7. Slice(c, n + i, n + e) = Slice(b, i, e)
  <2> DEFINE x == n + i
             y == n + e
  <2>1. /\ c \in Seq(Symbol) /\ b \in Seq(Symbol)
        /\ x \in 1 .. (Len(c) + 1) /\ y \in x .. (Len(c) + 1) /\ i \in 1 .. (Len(b) + 1)
        /\ y - x = e - i
    BY <1>1, <1>3 DEF Str
  <2>2. \A k \in 1 .. (e - i) : c[x + k - 1] = b[i + k - 1]
    <3> SUFFICES ASSUME NEW k \in 1 .. (e - i) PROVE c[x + k - 1] = b[i + k - 1]
      OBVIOUS
    <3>1. i + k - 1 \in 1 .. Len(b) /\ n + (i + k - 1) = x + k - 1
      BY <1>1
    <3> QED BY <1>1, <3>1
  <2> HIDE DEF x, y
  <2>3. /\ Slice(c, x, y) \in Seq(Symbol) /\ Len(Slice(c, x, y)) = y - x
        /\ \A k \in 1 .. (y - x) : Slice(c, x, y)[k] = c[x + k - 1]
    BY <2>1, SliceIs
  <2>4. /\ Slice(b, i, e) \in Seq(Symbol) /\ Len(Slice(b, i, e)) = e - i
        /\ \A k \in 1 .. (e - i) : Slice(b, i, e)[k] = b[i + k - 1]
    BY <2>1, SliceIs
  <2> DEFINE u == Slice(c, x, y)
             v == Slice(b, i, e)
  <2>5. /\ u \in Seq(Symbol) /\ v \in Seq(Symbol) /\ Len(u) = Len(v)
        /\ \A k \in 1 .. Len(u) : u[k] = v[k]
    BY <2>1, <2>2, <2>3, <2>4
  <2>6. u = v
    <3> HIDE DEF u, v
    <3> QED BY <2>5, SeqEqual
  <2> QED BY <2>6 DEF x, y
<1> QED BY <1>2, <1>6, <1>7 DEF c, n

LEMMA LinesJoin ==
    ASSUME NEW a \in Str, NEW b \in Str, Closed(a)
    PROVE  \A i : i \in Lines(a \o b) <=> i \in Lines(a) \/ (i \in Nat /\ i - Len(a) \in Lines(b))
<1> DEFINE c == a \o b
           n == Len(a)
<1>1. /\ c \in Str /\ Len(c) = n + Len(b) /\ n \in Nat /\ Len(b) \in Nat
      /\ \A k \in 1 .. n : c[k] = a[k]
      /\ \A k \in 1 .. Len(b) : c[n + k] = b[k]
  BY Joined
<1>2. n = 0 \/ a[n] = Newline
  BY DEF Closed
<1>3. \A i \in 1 .. n : LineFrom(c, i) = LineFrom(a, i)
  BY LineInFirst
<1>4. \A i \in 1 .. Len(b) : LineFrom(c, n + i) = LineFrom(b, i)
  BY LineInSecond
<1> HIDE DEF c, n
<1>5. /\ \A i : i \in Lines(c) <=> i \in 1 .. Len(c) /\ (i = 1 \/ c[i - 1] = Newline)
                                     /\ ~Ignored(LineFrom(c, i))
      /\ \A i : i \in Lines(b) <=> i \in 1 .. Len(b) /\ (i = 1 \/ b[i - 1] = Newline)
                                     /\ ~Ignored(LineFrom(b, i))
      /\ \A i : i \in Lines(a) <=> i \in 1 .. n /\ (i = 1 \/ a[i - 1] = Newline)
                                     /\ ~Ignored(LineFrom(a, i))
  BY <1>1, StartsAre DEF n
<1>6. ASSUME NEW i \in 1 .. n PROVE i \in Lines(c) <=> i \in Lines(a)
  <2>1. i \in 1 .. Len(c) /\ (i # 1 => i - 1 \in 1 .. n)
    BY <1>1
  <2> QED BY <1>1, <1>3, <1>5, <2>1
<1>7. ASSUME NEW j \in 1 .. Len(b) PROVE n + j \in Lines(c) <=> j \in Lines(b)
  <2>1. n + j \in 1 .. Len(c)
    BY <1>1
  <2>2. CASE j = 1
    <3>1. (n + j) - 1 = n /\ (n = 0 => n + j = 1) /\ (n # 0 => n \in 1 .. n)
      BY <1>1, <2>2
    <3> QED BY <1>1, <1>2, <1>4, <1>5, <2>1, <2>2, <3>1
  <2>3. CASE j # 1
    <3>1. (n + j) - 1 = n + (j - 1) /\ j - 1 \in 1 .. Len(b) /\ n + j # 1
      BY <1>1, <2>3
    <3> QED BY <1>1, <1>4, <1>5, <2>1, <2>3, <3>1, ZenonT(60)
  <2> QED BY <2>2, <2>3
<1>8. ASSUME NEW i PROVE i \in Lines(c) <=> i \in Lines(a) \/ (i \in Nat /\ i - n \in Lines(b))
  <2>1. CASE i \in 1 .. n
    <3>1. i - n \notin 1 .. Len(b)
      BY <1>1, <2>1
    <3> QED BY <1>5, <1>6, <2>1, <3>1
  <2>2. CASE i \in (n + 1) .. (n + Len(b))
    <3>1. i - n \in 1 .. Len(b) /\ n + (i - n) = i /\ i \notin 1 .. n /\ i \in Nat
      BY <1>1, <2>2
    <3> QED BY <1>5, <1>7, <3>1
  <2>3. CASE i \notin 1 .. n /\ i \notin (n + 1) .. (n + Len(b))
    <3>1. i \notin 1 .. Len(c) /\ (i \in Nat => i - n \notin 1 .. Len(b))
      BY <1>1, <2>3
    <3> QED BY <1>5, <2>3, <3>1
  <2> QED BY <2>1, <2>2, <2>3
<1> QED BY <1>8 DEF c, n

-----------------------------------------------------------------------------
(* There is one way to enumerate a set of numbers in their order.          *)
LEMMA SameOrder ==
    ASSUME NEW k \in Nat, NEW T \in SUBSET Nat, NEW f \in [1 .. k -> T], NEW g \in [1 .. k -> T],
           \A m, n \in 1 .. k : m < n => f[m] < f[n],
           \A m, n \in 1 .. k : m < n => g[m] < g[n],
           \A x \in T : \E n \in 1 .. k : f[n] = x,
           \A x \in T : \E n \in 1 .. k : g[n] = x
    PROVE  \A n \in 1 .. k : f[n] = g[n]
<1>1. \A n \in 1 .. k : n \in Nat /\ f[n] \in T /\ g[n] \in T /\ f[n] \in Nat /\ g[n] \in Nat
  <2> SUFFICES ASSUME NEW n \in 1 .. k
               PROVE  n \in Nat /\ f[n] \in T /\ g[n] \in T /\ f[n] \in Nat /\ g[n] \in Nat
    OBVIOUS
  <2>1. f[n] \in T /\ g[n] \in T
    OBVIOUS
  <2>2. f[n] \in Nat /\ g[n] \in Nat
    BY <2>1, Zenon
  <2>3. n \in Nat
    OBVIOUS
  <2> QED BY ONLY <2>1, <2>2, <2>3
<1> DEFINE Bad == {n \in 1 .. k : f[n] # g[n]}
<1>2. SUFFICES ASSUME Bad # {} PROVE FALSE
  OBVIOUS
<1>3. PICK m \in Bad : \A n \in Bad : m <= n
  <2>1. Bad \in SUBSET Nat
    BY <1>1
  <2> HIDE DEF Bad
  <2> QED BY <1>2, <2>1, LeastNatural
<1>4. m \in 1 .. k /\ f[m] # g[m] /\ \A n \in 1 .. k : n < m => f[n] = g[n]
  BY <1>1, <1>3
<1> HIDE DEF Bad
<1>5. ~(f[m] < g[m])
  <2> SUFFICES ASSUME f[m] < g[m] PROVE FALSE
    OBVIOUS
  <2>1. PICK j \in 1 .. k : g[j] = f[m]
    BY <1>1, <1>4
  <2>2. ~(j < m)
    BY <1>1, <1>4, <2>1
  <2>3. ~(m < j)
    BY <1>1, <1>4, <2>1
  <2> QED BY <1>1, <1>4, <2>1, <2>2, <2>3
<1>6. ~(g[m] < f[m])
  <2> SUFFICES ASSUME g[m] < f[m] PROVE FALSE
    OBVIOUS
  <2>1. PICK j \in 1 .. k : f[j] = g[m]
    BY <1>1, <1>4
  <2>2. ~(j < m)
    BY <1>1, <1>4, <2>1
  <2>3. ~(m < j)
    BY <1>1, <1>4, <2>1
  <2> QED BY <1>1, <1>4, <2>1, <2>2, <2>3
<1> QED BY <1>1, <1>4, <1>5, <1>6

LEMMA WholeParts ==
    ASSUME NEW d \in Str, NEW ring, Whole(d, ring)
    PROVE  /\ ring \in Seq(Key) /\ Len(ring) \in Nat /\ Lines(d) \in SUBSET Nat
           /\ Cardinality(Lines(d)) = Len(ring)
           /\ \E at : /\ at \in [1 .. Len(ring) -> Lines(d)]
                      /\ \A n \in 1 .. Len(ring) : at[n] \in 1 .. Len(d)
                      /\ \A n \in 1 .. Len(ring) : KeysIn(LineFrom(d, at[n])) = {ring[n]}
                      /\ \A i \in Lines(d) : \E n \in 1 .. Len(ring) : at[n] = i
                      /\ \A m, n \in 1 .. Len(ring) : m < n => at[m] < at[n]
<1>1. ring \in Seq(Key) /\ Len(ring) \in Nat
  BY DEF Whole
<1>2. PICK at \in [1 .. Len(ring) -> Lines(d)] : Reads(at, d, ring)
  BY DEF Whole
<1> DEFINE k == Len(ring)
           T == Lines(d)
<1>3. \A i \in T : i \in 1 .. Len(d)
  BY StartsAre
<1>4. T \in SUBSET Nat /\ Len(d) \in Nat
  BY <1>3, StartsAre
<1>5. /\ \A n \in 1 .. k : KeysIn(LineFrom(d, at[n])) = {ring[n]}
      /\ \A i \in T : \E n \in 1 .. k : at[n] = i
      /\ \A m, n \in 1 .. k : m < n => at[m] < at[n]
  BY <1>2 DEF Reads
<1>6. at \in [1 .. k -> T] /\ k \in Nat
  BY <1>1
<1> HIDE DEF k, T
<1>7. \A n \in 1 .. k : n \in Nat /\ at[n] \in T /\ at[n] \in Nat /\ at[n] \in 1 .. Len(d)
  <2>1. \A n \in 1 .. k : at[n] \in T
    BY ONLY <1>6
  <2>2. \A x \in T : x \in Nat
    BY <1>4
  <2> QED BY <1>3, <2>1, <2>2
<1>8. \A m, n \in 1 .. k : at[m] = at[n] => m = n
  <2> SUFFICES ASSUME NEW m \in 1 .. k, NEW n \in 1 .. k, at[m] = at[n] PROVE m = n
    OBVIOUS
  <2>1. ~(m < n) /\ ~(n < m)
    BY <1>5, <1>7
  <2> QED BY <1>7, <2>1
<1>9. Cardinality(T) = k
  BY <1>5, <1>6, <1>8, CountOnto
<1> QED BY <1>1, <1>4, <1>5, <1>6, <1>7, <1>9 DEF k, T

LEMMA WholeUnique ==
    ASSUME NEW d \in Str, NEW r, NEW s, Whole(d, r), Whole(d, s)
    PROVE  r = s
<1>1. PICK at : /\ at \in [1 .. Len(r) -> Lines(d)]
                /\ \A n \in 1 .. Len(r) : KeysIn(LineFrom(d, at[n])) = {r[n]}
                /\ \A i \in Lines(d) : \E n \in 1 .. Len(r) : at[n] = i
                /\ \A m, n \in 1 .. Len(r) : m < n => at[m] < at[n]
  BY WholeParts
<1>2. PICK bt : /\ bt \in [1 .. Len(s) -> Lines(d)]
                /\ \A n \in 1 .. Len(s) : KeysIn(LineFrom(d, bt[n])) = {s[n]}
                /\ \A i \in Lines(d) : \E n \in 1 .. Len(s) : bt[n] = i
                /\ \A m, n \in 1 .. Len(s) : m < n => bt[m] < bt[n]
  BY WholeParts
<1>3. /\ r \in Seq(Key) /\ s \in Seq(Key) /\ Len(r) \in Nat /\ Lines(d) \in SUBSET Nat
      /\ Len(s) = Len(r)
  <2>1. r \in Seq(Key) /\ Len(r) \in Nat /\ Lines(d) \in SUBSET Nat /\ Cardinality(Lines(d)) = Len(r)
    BY WholeParts
  <2>2. s \in Seq(Key) /\ Cardinality(Lines(d)) = Len(s)
    BY WholeParts
  <2> QED BY <2>1, <2>2
<1> DEFINE k == Len(r)
           T == Lines(d)
<1>4. /\ k \in Nat /\ T \in SUBSET Nat /\ at \in [1 .. k -> T] /\ bt \in [1 .. k -> T]
      /\ \A m, n \in 1 .. k : m < n => at[m] < at[n]
      /\ \A m, n \in 1 .. k : m < n => bt[m] < bt[n]
      /\ \A x \in T : \E n \in 1 .. k : at[n] = x
      /\ \A x \in T : \E n \in 1 .. k : bt[n] = x
  BY <1>1, <1>2, <1>3
<1>5. \A n \in 1 .. k : KeysIn(LineFrom(d, at[n])) = {r[n]} /\ KeysIn(LineFrom(d, bt[n])) = {s[n]}
  BY <1>1, <1>2, <1>3
<1> HIDE DEF k, T
<1>6. \A n \in 1 .. k : at[n] = bt[n]
  BY <1>4, SameOrder, SMTT(60)
<1>7. \A n \in 1 .. k : r[n] = s[n]
  <2> SUFFICES ASSUME NEW n \in 1 .. k PROVE r[n] = s[n]
    OBVIOUS
  <2>1. {r[n]} = {s[n]}
    BY <1>5, <1>6
  <2> QED BY <2>1
<1>8. k = Len(r)
  BY DEF k
<1> QED BY <1>3, <1>7, <1>8, SeqEqual

(* The ring of two texts behind one another.                               *)
LEMMA RingsJoin ==
    ASSUME NEW a \in Str, NEW b \in Str, Closed(a), NEW r, NEW s, Whole(a, r), Whole(b, s)
    PROVE  Whole(a \o b, r \o s)
<1>1. r \in Seq(Key) /\ s \in Seq(Key) /\ Len(r) \in Nat /\ Len(s) \in Nat
  BY WholeParts
<1>2. PICK at : /\ at \in [1 .. Len(r) -> Lines(a)]
                /\ \A n \in 1 .. Len(r) : at[n] \in 1 .. Len(a)
                /\ \A n \in 1 .. Len(r) : KeysIn(LineFrom(a, at[n])) = {r[n]}
                /\ \A i \in Lines(a) : \E n \in 1 .. Len(r) : at[n] = i
                /\ \A m, n \in 1 .. Len(r) : m < n => at[m] < at[n]
  BY WholeParts
<1>3. PICK bt : /\ bt \in [1 .. Len(s) -> Lines(b)]
                /\ \A n \in 1 .. Len(s) : bt[n] \in 1 .. Len(b)
                /\ \A n \in 1 .. Len(s) : KeysIn(LineFrom(b, bt[n])) = {s[n]}
                /\ \A i \in Lines(b) : \E n \in 1 .. Len(s) : bt[n] = i
                /\ \A m, n \in 1 .. Len(s) : m < n => bt[m] < bt[n]
  BY WholeParts
<1> DEFINE c == a \o b
           w == Len(a)
           k == Len(r)
           l == Len(s)
           ring == r \o s
           ct == [n \in 1 .. (k + l) |-> IF n <= k THEN at[n] ELSE w + bt[n - k]]
<1>4. /\ k \in Nat
      /\ \A n \in 1 .. k : at[n] \in Lines(a) /\ at[n] \in 1 .. w /\ KeysIn(LineFrom(a, at[n])) = {r[n]}
      /\ \A i \in Lines(a) : \E n \in 1 .. k : at[n] = i
      /\ \A m, n \in 1 .. k : m < n => at[m] < at[n]
  BY <1>1, <1>2
<1>5. /\ l \in Nat
      /\ \A n \in 1 .. l : bt[n] \in Lines(b) /\ bt[n] \in 1 .. Len(b) /\ KeysIn(LineFrom(b, bt[n])) = {s[n]}
      /\ \A i \in Lines(b) : \E n \in 1 .. l : bt[n] = i
      /\ \A m, n \in 1 .. l : m < n => bt[m] < bt[n]
  BY <1>1, <1>3
<1>6. /\ ring \in Seq(Key) /\ Len(ring) = k + l
      /\ \A n \in 1 .. (k + l) : ring[n] = IF n <= k THEN r[n] ELSE s[n - k]
  BY <1>1, ConcatProperties
<1>7. c \in Str /\ w \in Nat /\ Len(b) \in Nat
  BY Joined
<1>8. \A i : i \in Lines(c) <=> i \in Lines(a) \/ (i \in Nat /\ i - w \in Lines(b))
  BY LinesJoin
<1>9. \A i \in 1 .. w : LineFrom(c, i) = LineFrom(a, i)
  BY LineInFirst
<1>10. \A i \in 1 .. Len(b) : LineFrom(c, w + i) = LineFrom(b, i)
  BY LineInSecond
<1>11. /\ \A n \in 1 .. k : n \in 1 .. (k + l) /\ ct[n] = at[n] /\ ring[n] = r[n]
       /\ \A n \in 1 .. l : k + n \in 1 .. (k + l) /\ ct[k + n] = w + bt[n] /\ ring[k + n] = s[n]
       /\ \A n \in 1 .. (k + l) : n \in 1 .. k \/ (n - k \in 1 .. l /\ k + (n - k) = n)
  <2>1. \A n \in 1 .. k : n \in 1 .. (k + l) /\ n <= k
    BY <1>4, <1>5
  <2>2. \A n \in 1 .. l : k + n \in 1 .. (k + l) /\ ~(k + n <= k) /\ (k + n) - k = n
    BY <1>4, <1>5
  <2>3. \A n \in 1 .. (k + l) : n \in 1 .. k \/ (n - k \in 1 .. l /\ k + (n - k) = n)
    BY <1>4, <1>5
  <2> HIDE DEF ring
  <2> QED BY <1>6, <2>1, <2>2, <2>3
<1>12. DOMAIN ct = 1 .. (k + l) /\ ct = [n \in 1 .. (k + l) |-> ct[n]]
  OBVIOUS
<1> HIDE DEF c, w, k, l, ring, ct
<1>13. ASSUME NEW n \in 1 .. k PROVE ct[n] \in Lines(c) /\ ct[n] \in 1 .. w /\ KeysIn(LineFrom(c, ct[n])) = {ring[n]}
  BY <1>4, <1>8, <1>9, <1>11
<1>14. ASSUME NEW n \in 1 .. l
       PROVE  ct[k + n] \in Lines(c) /\ ~(ct[k + n] <= w) /\ ct[k + n] \in Nat
              /\ KeysIn(LineFrom(c, ct[k + n])) = {ring[k + n]}
  <2>1. bt[n] \in 1 .. Len(b) /\ bt[n] \in Lines(b) /\ KeysIn(LineFrom(b, bt[n])) = {s[n]}
    BY <1>5
  <2>2. ct[k + n] = w + bt[n] /\ ring[k + n] = s[n] /\ w + bt[n] \in Nat /\ (w + bt[n]) - w = bt[n]
        /\ ~(w + bt[n] <= w)
    BY <1>7, <1>11, <2>1
  <2> QED BY <1>8, <1>10, <2>1, <2>2
<1>15. \A n \in 1 .. (k + l) : ct[n] \in Lines(c) /\ KeysIn(LineFrom(c, ct[n])) = {ring[n]}
  <2> SUFFICES ASSUME NEW n \in 1 .. (k + l) PROVE ct[n] \in Lines(c) /\ KeysIn(LineFrom(c, ct[n])) = {ring[n]}
    OBVIOUS
  <2>1. CASE n \in 1 .. k
    BY <1>13, <2>1
  <2>2. CASE n - k \in 1 .. l /\ k + (n - k) = n
    BY <1>14, <2>2
  <2> QED BY <1>11, <2>1, <2>2
<1>16. ASSUME NEW i \in Lines(c) PROVE \E n \in 1 .. (k + l) : ct[n] = i
  <2>1. CASE i \in Lines(a)
    BY <1>4, <1>11, <2>1
  <2>2. CASE i \in Nat /\ i - w \in Lines(b)
    <3>1. PICK n \in 1 .. l : bt[n] = i - w
      BY <1>5, <2>2
    <3>2. ct[k + n] = i /\ k + n \in 1 .. (k + l)
      BY <1>7, <1>11, <2>2, <3>1
    <3> QED BY <3>2
  <2> QED BY <1>8, <2>1, <2>2
<1>17. ASSUME NEW m \in 1 .. (k + l), NEW n \in 1 .. (k + l), m < n PROVE ct[m] < ct[n]
  <2>1. CASE n \in 1 .. k
    <3>1. m \in 1 .. k
      BY <1>4, <1>5, <1>17, <2>1
    <3> QED BY <1>4, <1>11, <1>17, <2>1, <3>1
  <2>2. CASE m \in 1 .. k /\ n - k \in 1 .. l /\ k + (n - k) = n
    <3>1. ct[m] \in 1 .. w /\ ct[n] \in Nat /\ ~(ct[n] <= w)
      BY <1>13, <1>14, <2>2
    <3> QED BY <1>7, <3>1
  <2>3. CASE m - k \in 1 .. l /\ k + (m - k) = m /\ n - k \in 1 .. l /\ k + (n - k) = n
    <3>1. m - k < n - k
      BY <1>4, <1>5, <1>17
    <3>2. bt[m - k] < bt[n - k] /\ bt[m - k] \in 1 .. Len(b) /\ bt[n - k] \in 1 .. Len(b)
      BY <1>5, <2>3, <3>1
    <3>3. ct[m] = w + bt[m - k] /\ ct[n] = w + bt[n - k]
      BY <1>11, <2>3
    <3> QED BY <1>7, <3>2, <3>3
  <2> QED BY <1>11, <2>1, <2>2, <2>3
<1>18. ct \in [1 .. Len(ring) -> Lines(c)] /\ Reads(ct, c, ring)
  BY <1>6, <1>12, <1>15, <1>16, <1>17 DEF Reads
<1> QED BY <1>6, <1>18 DEF Whole, c, ring

(* And the ring of two such texts is the rings of both.                    *)
LEMMA RingSplits ==
    ASSUME NEW a \in Str, NEW b \in Str, Closed(a), NEW ring, Whole(a \o b, ring)
    PROVE  \E r, s : Whole(a, r) /\ Whole(b, s) /\ ring = r \o s
<1>0. a \o b \in Str
  BY Joined
<1>1. PICK ct : /\ ct \in [1 .. Len(ring) -> Lines(a \o b)]
                /\ \A n \in 1 .. Len(ring) : ct[n] \in 1 .. Len(a \o b)
                /\ \A n \in 1 .. Len(ring) : KeysIn(LineFrom(a \o b, ct[n])) = {ring[n]}
                /\ \A i \in Lines(a \o b) : \E n \in 1 .. Len(ring) : ct[n] = i
                /\ \A m, n \in 1 .. Len(ring) : m < n => ct[m] < ct[n]
  BY <1>0, WholeParts
<1>2. ring \in Seq(Key) /\ Len(ring) \in Nat
  BY <1>0, WholeParts
<1> DEFINE c == a \o b
           w == Len(a)
           l == Len(ring)
<1>3. /\ ring \in Seq(Key) /\ l \in Nat
      /\ \A n \in 1 .. l : ct[n] \in Lines(c) /\ ct[n] \in 1 .. Len(c)
                           /\ KeysIn(LineFrom(c, ct[n])) = {ring[n]}
      /\ \A i \in Lines(c) : \E n \in 1 .. l : ct[n] = i
      /\ \A m, n \in 1 .. l : m < n => ct[m] < ct[n]
  BY <1>1, <1>2
<1>4. w \in Nat /\ Len(b) \in Nat /\ Len(c) = w + Len(b)
  BY Joined
<1>5. \A i : i \in Lines(c) <=> i \in Lines(a) \/ (i \in Nat /\ i - w \in Lines(b))
  BY LinesJoin
<1>6. \A i \in 1 .. w : LineFrom(c, i) = LineFrom(a, i)
  BY LineInFirst
<1>7. \A i \in 1 .. Len(b) : LineFrom(c, w + i) = LineFrom(b, i)
  BY LineInSecond
<1>8. (\A i \in Lines(a) : i \in 1 .. w) /\ (\A i \in Lines(b) : i \in 1 .. Len(b))
  BY StartsAre
<1> HIDE DEF c, w, l
<1> DEFINE Short == {k \in 0 .. l : \A m \in 1 .. k : ct[m] <= w}
<1>9. PICK k \in Short : \A m \in Short : m <= k
  <2>1. 0 \in Short /\ Short \in SUBSET (0 .. l)
    BY <1>3
  <2> HIDE DEF Short
  <2> QED BY <1>3, <2>1, GreatestNatural
<1>10. k \in Nat /\ k <= l /\ (\A m \in 1 .. k : m \in 1 .. l /\ ct[m] <= w /\ ct[m] \in Nat)
  BY <1>3
<1>11. ASSUME NEW m \in (k + 1) .. l PROVE ct[m] > w /\ ct[m] \in Nat
  <2>1. k + 1 \in 0 .. l /\ k + 1 \in 1 .. l /\ m \in 1 .. l
    BY <1>3, <1>10
  <2>2. ct[m] \in Nat /\ ct[k + 1] \in Nat
    BY <1>3, <2>1
  <2>3. ~(ct[k + 1] <= w)
    <3>1. SUFFICES ASSUME ct[k + 1] <= w PROVE FALSE
      OBVIOUS
    <3>2. \A n \in 1 .. (k + 1) : n \in 1 .. k \/ n = k + 1
      BY <1>10
    <3>3. k + 1 \in Short
      BY <1>10, <2>1, <3>1, <3>2
    <3>4. k + 1 <= k
      BY <1>9, <3>3
    <3> QED BY <1>10, <3>4
  <2>4. m = k + 1 \/ k + 1 < m
    BY <1>10
  <2>5. ct[k + 1] <= ct[m]
    BY <1>3, <2>1, <2>2, <2>4
  <2> QED BY <1>4, <2>2, <2>3, <2>5
<1> HIDE DEF Short
<1> DEFINE g == l - k
<1>12. k \in 0 .. Len(ring)
  BY <1>3, <1>10 DEF l
<1> DEFINE r == SubSeq(ring, 1, k)
           s == SubSeq(ring, k + 1, Len(ring))
<1>13. r \in Seq(Key) /\ Len(r) = k /\ \A n \in 1 .. k : r[n] = ring[n]
  BY <1>3, <1>12, Divided
<1>14. s \in Seq(Key) /\ Len(s) = g /\ \A n \in 1 .. g : s[n] = ring[k + n]
  BY <1>3, <1>12, Divided DEF l
<1>15. ring = r \o s
  BY <1>3, <1>12, Divided
<1> DEFINE at == [n \in 1 .. k |-> ct[n]]
           bt == [n \in 1 .. g |-> ct[k + n] - w]
<1>16. \A n \in 1 .. g : k + n \in 1 .. l /\ k + n \in (k + 1) .. l /\ n \in Nat
  BY <1>3, <1>10
<1>17. \A m \in 1 .. l : m \in 1 .. k \/ (m - k \in 1 .. g /\ k + (m - k) = m)
  BY <1>3, <1>10
<1>18. /\ at \in [1 .. k -> {ct[n] : n \in 1 .. k}] /\ \A n \in 1 .. k : at[n] = ct[n]
       /\ DOMAIN at = 1 .. k /\ at = [n \in 1 .. k |-> at[n]]
       /\ DOMAIN bt = 1 .. g /\ bt = [n \in 1 .. g |-> bt[n]]
       /\ \A n \in 1 .. g : bt[n] = ct[k + n] - w
  <2> HIDE DEF g
  <2> QED OBVIOUS
<1> HIDE DEF r, s, g, at, bt
<1>19. ASSUME NEW n \in 1 .. k PROVE at[n] \in Lines(a) /\ KeysIn(LineFrom(a, at[n])) = {r[n]}
  <2>1. ct[n] \in Lines(c) /\ ct[n] <= w /\ ct[n] \in Nat /\ n \in 1 .. l
    BY <1>3, <1>10
  <2>2. ct[n] \in Lines(a)
    <3>1. ct[n] - w \notin 1 .. Len(b)
      BY <1>4, <2>1
    <3> QED BY <1>5, <1>8, <2>1, <3>1
  <2>3. LineFrom(c, ct[n]) = LineFrom(a, ct[n])
    BY <1>6, <1>8, <2>2
  <2> QED BY <1>3, <1>13, <1>18, <2>1, <2>2, <2>3
<1>20. ASSUME NEW n \in 1 .. g PROVE bt[n] \in Lines(b) /\ KeysIn(LineFrom(b, bt[n])) = {s[n]}
  <2>1. ct[k + n] \in Lines(c) /\ ct[k + n] > w /\ ct[k + n] \in Nat /\ k + n \in 1 .. l
    BY <1>3, <1>11, <1>16
  <2>2. ct[k + n] - w \in Lines(b)
    <3>1. ct[k + n] \notin 1 .. w
      BY <1>4, <2>1
    <3> QED BY <1>5, <1>8, <2>1, <3>1
  <2>3. w + (ct[k + n] - w) = ct[k + n]
    BY <1>4, <2>1
  <2>4. LineFrom(c, ct[k + n]) = LineFrom(b, ct[k + n] - w)
    BY <1>7, <1>8, <2>2, <2>3
  <2>5. bt[n] = ct[k + n] - w /\ s[n] = ring[k + n]
    BY <1>14, <1>18
  <2>6. KeysIn(LineFrom(c, ct[k + n])) = {ring[k + n]}
    BY <1>3, <2>1
  <2> QED BY ONLY <2>2, <2>4, <2>5, <2>6
<1>21. \A i \in Lines(a) : \E n \in 1 .. k : at[n] = i
  <2> SUFFICES ASSUME NEW i \in Lines(a) PROVE \E n \in 1 .. k : at[n] = i
    OBVIOUS
  <2>1. PICK n \in 1 .. l : ct[n] = i
    BY <1>3, <1>5
  <2>2. i <= w
    BY <1>4, <1>8
  <2>3. n \in 1 .. k
    <3>1. ~(n - k \in 1 .. g /\ k + (n - k) = n)
      BY <1>4, <1>11, <1>16, <2>1, <2>2
    <3> QED BY <1>17, <3>1
  <2> QED BY <1>18, <2>1, <2>3
<1>22. \A i \in Lines(b) : \E n \in 1 .. g : bt[n] = i
  <2> SUFFICES ASSUME NEW i \in Lines(b) PROVE \E n \in 1 .. g : bt[n] = i
    OBVIOUS
  <2>1. i \in 1 .. Len(b) /\ w + i \in Nat /\ (w + i) - w = i /\ w + i > w
    BY <1>4, <1>8
  <2>2. PICK n \in 1 .. l : ct[n] = w + i
    BY <1>3, <1>5, <2>1
  <2>3. n \notin 1 .. k
    BY <1>4, <1>10, <2>1, <2>2
  <2> QED BY <1>17, <1>18, <2>1, <2>2, <2>3
<1>23. \A m, n \in 1 .. k : m < n => at[m] < at[n]
  BY <1>3, <1>10, <1>18
<1>24. \A m, n \in 1 .. g : m < n => bt[m] < bt[n]
  <2> SUFFICES ASSUME NEW m \in 1 .. g, NEW n \in 1 .. g, m < n PROVE bt[m] < bt[n]
    OBVIOUS
  <2>1. k + m \in 1 .. l /\ k + n \in 1 .. l /\ k + m < k + n
    BY <1>10, <1>16
  <2>2. ct[k + m] < ct[k + n] /\ ct[k + m] \in Nat /\ ct[k + n] \in Nat
    BY <1>3, <2>1
  <2> QED BY <1>4, <1>18, <2>2
<1>25. at \in [1 .. Len(r) -> Lines(a)] /\ Reads(at, a, r)
  BY <1>13, <1>18, <1>19, <1>21, <1>23 DEF Reads
<1>26. bt \in [1 .. Len(s) -> Lines(b)] /\ Reads(bt, b, s)
  BY <1>14, <1>18, <1>20, <1>22, <1>24 DEF Reads
<1> QED BY <1>13, <1>14, <1>15, <1>25, <1>26 DEF Whole

-----------------------------------------------------------------------------
(* What is delivered of a text, symbol by symbol.                          *)
Semicolon == ";"

DeliveredOf(flag, t) ==
    IF flag THEN [i \in DOMAIN t |-> IF t[i] = Semicolon THEN Newline ELSE t[i]] ELSE t

LEMMA DeliveredOfText == Delivered = DeliveredOf(inline, text)
BY DEF Delivered, DeliveredOf, Semicolon, Newline

LEMMA DeliveredSymbols ==
    ASSUME NEW t \in Str, NEW flag
    PROVE  /\ DeliveredOf(flag, t) \in Str /\ Len(DeliveredOf(flag, t)) = Len(t) /\ Len(t) \in Nat
           /\ \A i \in 1 .. Len(t) : DeliveredOf(flag, t)[i] =
                  IF flag /\ t[i] = Semicolon THEN Newline ELSE t[i]
<1>1. Len(t) \in Nat /\ DOMAIN t = 1 .. Len(t) /\ t \in Seq(Symbol) /\ \A i \in 1 .. Len(t) : t[i] \in Symbol
  BY DEF Str
<1>2. Newline \in Symbol
  BY StartsAre
<1> DEFINE changed == [i \in DOMAIN t |-> IF t[i] = Semicolon THEN Newline ELSE t[i]]
<1>3. changed \in [1 .. Len(t) -> Symbol]
  BY <1>1, <1>2
<1>4. \A i \in 1 .. Len(t) : changed[i] = IF t[i] = Semicolon THEN Newline ELSE t[i]
  BY <1>1
<1>5. changed \in Seq(Symbol) /\ Len(changed) = Len(t)
  <2> HIDE DEF changed
  <2> QED BY <1>1, <1>3
<1>6. DeliveredOf(flag, t) = IF flag THEN changed ELSE t
  BY DEF DeliveredOf
<1> HIDE DEF changed
<1> QED BY <1>1, <1>4, <1>5, <1>6 DEF Str

LEMMA DeliveredJoins ==
    ASSUME NEW a \in Str, NEW b \in Str, NEW flag
    PROVE  DeliveredOf(flag, a \o b) = DeliveredOf(flag, a) \o DeliveredOf(flag, b)
<1> DEFINE c == a \o b
           x == DeliveredOf(flag, a)
           y == DeliveredOf(flag, b)
           u == DeliveredOf(flag, c)
           v == x \o y
<1>1. /\ c \in Str /\ Len(c) = Len(a) + Len(b) /\ Len(a) \in Nat /\ Len(b) \in Nat
      /\ \A i \in 1 .. Len(a) : c[i] = a[i]
      /\ \A j \in 1 .. Len(b) : c[Len(a) + j] = b[j]
  BY Joined
<1>2. x \in Str /\ Len(x) = Len(a)
      /\ \A i \in 1 .. Len(a) : x[i] = IF flag /\ a[i] = Semicolon THEN Newline ELSE a[i]
  BY DeliveredSymbols
<1>3. y \in Str /\ Len(y) = Len(b)
      /\ \A i \in 1 .. Len(b) : y[i] = IF flag /\ b[i] = Semicolon THEN Newline ELSE b[i]
  BY DeliveredSymbols
<1> HIDE DEF c, x, y
<1>4. u \in Str /\ Len(u) = Len(c)
      /\ \A i \in 1 .. Len(c) : u[i] = IF flag /\ c[i] = Semicolon THEN Newline ELSE c[i]
  BY <1>1, DeliveredSymbols
<1>5. /\ v \in Str /\ Len(v) = Len(x) + Len(y)
      /\ \A i \in 1 .. Len(x) : v[i] = x[i]
      /\ \A j \in 1 .. Len(y) : v[Len(x) + j] = y[j]
  BY <1>2, <1>3, Joined, ZenonT(60)
<1> HIDE DEF u, v
<1>6. ASSUME NEW n \in 1 .. Len(u) PROVE u[n] = v[n]
  <2>1. CASE n \in 1 .. Len(a)
    BY <1>1, <1>2, <1>4, <1>5, <2>1
  <2>2. CASE n \notin 1 .. Len(a)
    <3>1. n - Len(a) \in 1 .. Len(b) /\ Len(a) + (n - Len(a)) = n /\ n \in 1 .. Len(c)
      BY <1>1, <1>4, <2>2
    <3> DEFINE j == n - Len(a)
    <3>2. j \in 1 .. Len(b) /\ n = Len(a) + j
      BY <3>1
    <3> HIDE DEF j
    <3>3. c[n] = b[j] /\ v[n] = y[j]
      BY <1>1, <1>2, <1>3, <1>5, <3>2
    <3> QED BY <1>3, <1>4, <3>1, <3>2, <3>3
  <2> QED BY <2>1, <2>2
<1>7. u \in Seq(Symbol) /\ v \in Seq(Symbol) /\ Len(u) = Len(v)
  BY <1>1, <1>2, <1>3, <1>4, <1>5 DEF Str
<1>8. u = v
  BY <1>6, <1>7, SeqEqual
<1> QED BY <1>8 DEF u, v, c, x, y

LEMMA DeliveredCloses ==
    ASSUME NEW a \in Str, NEW flag, Closed(a)
    PROVE  Closed(DeliveredOf(flag, a))
<1> DEFINE x == DeliveredOf(flag, a)
<1>1. x \in Str /\ Len(x) = Len(a) /\ Len(a) \in Nat
      /\ \A i \in 1 .. Len(a) : x[i] = IF flag /\ a[i] = Semicolon THEN Newline ELSE a[i]
  BY DeliveredSymbols
<1> HIDE DEF x
<1>2. CASE Len(a) = 0
  <2>1. x = << >>
    BY <1>1, <1>2 DEF Str
  <2> QED BY <2>1 DEF Closed, x
<1>3. CASE Len(a) # 0
  <2>1. a # << >> /\ Len(a) \in 1 .. Len(a)
    BY <1>1, <1>3
  <2>2. a[Len(a)] = Newline
    BY <2>1 DEF Closed
  <2>3. x[Len(x)] = Newline
    BY <1>1, <2>1, <2>2
  <2> QED BY <2>3 DEF Closed, x
<1> QED BY <1>2, <1>3

-----------------------------------------------------------------------------
(* A text that has a newline at its end only is one line.                  *)
LEMMA OneLine ==
    ASSUME NEW m \in Str, Len(m) # 0, \A i \in 1 .. (Len(m) - 1) : m[i] # Newline
    PROVE  \A i : i \in Lines(m) <=> i = 1 /\ ~Ignored(LineFrom(m, 1))
<1>1. /\ Len(m) \in Nat
      /\ \A i : i \in Lines(m) <=> i \in 1 .. Len(m) /\ (i = 1 \/ m[i - 1] = Newline)
                                     /\ ~Ignored(LineFrom(m, i))
  BY StartsAre
<1>2. \A i \in 1 .. Len(m) : i # 1 => i - 1 \in 1 .. (Len(m) - 1)
  BY <1>1
<1>3. 1 \in 1 .. Len(m)
  BY <1>1
<1> QED BY <1>1, <1>2, <1>3

LEMMA OneLineOneKey ==
    ASSUME NEW m \in Str, Len(m) # 0, \A i \in 1 .. (Len(m) - 1) : m[i] # Newline,
           ~Ignored(LineFrom(m, 1)), NEW ring, Whole(m, ring)
    PROVE  Len(ring) = 1 /\ KeysIn(LineFrom(m, 1)) = {ring[1]}
<1>1. Lines(m) = {1}
  BY OneLine
<1>2. Cardinality({1}) = 1
  BY FS_Singleton
<1>3. Cardinality(Lines(m)) = Len(ring)
  BY WholeParts
<1>4. Len(ring) = 1
  BY <1>1, <1>2, <1>3
<1>5. PICK at \in [1 .. Len(ring) -> Lines(m)] : Reads(at, m, ring)
  BY DEF Whole
<1>6. 1 \in 1 .. Len(ring) /\ at[1] = 1
  BY <1>1, <1>4, <1>5
<1> QED BY <1>4, <1>5, <1>6 DEF Reads

(* The line that keygen prints.                                            *)
LEMMA FreshIsWhole ==
    ASSUME NEW line \in Fresh, NEW flag
    PROVE  LET t == line \o <<Newline>>
           IN  /\ t \in Str /\ Closed(t) /\ DeliveredOf(flag, t) = t
               /\ \E key \in KeysIn(line) : Whole(t, <<key>>)
<1> DEFINE end == <<Newline>>
           t == line \o end
           l == Len(line)
<1>1. /\ line \in Str /\ ~Ignored(line) /\ KeysIn(line) # {}
      /\ \A i \in DOMAIN line : line[i] # Newline /\ line[i] # Semicolon
  BY KeyringAssumption, TextsAreStrs DEF Newline, Semicolon
<1>2. end \in Str /\ Len(end) = 1 /\ end[1] = Newline
  <2>1. Newline \in Symbol
    BY <1>1, StartsAre
  <2>2. end \in Seq(Symbol)
    BY <2>1
  <2> QED BY <2>2 DEF Str
<1> HIDE DEF end
<1>3. /\ t \in Str /\ Len(t) = l + Len(end) /\ l \in Nat
      /\ \A i \in 1 .. l : t[i] = line[i]
      /\ \A j \in 1 .. Len(end) : t[l + j] = end[j]
  BY <1>1, <1>2, Joined
<1>4. DOMAIN line = 1 .. l
  BY <1>1 DEF Str
<1> HIDE DEF t, l
<1>5. Len(t) = l + 1 /\ t[l + 1] = Newline /\ \A i \in 1 .. l : t[i] = line[i] /\ t[i] # Newline /\ t[i] # Semicolon
  BY <1>1, <1>2, <1>3, <1>4
<1>6. Closed(t)
  BY <1>5 DEF Closed
<1>7. DeliveredOf(flag, t) = t
  <2> DEFINE u == DeliveredOf(flag, t)
  <2>1. u \in Str /\ Len(u) = Len(t)
        /\ \A i \in 1 .. Len(t) : u[i] = IF flag /\ t[i] = Semicolon THEN Newline ELSE t[i]
    BY <1>3, DeliveredSymbols
  <2> HIDE DEF u
  <2>2. \A i \in 1 .. Len(t) : i \in 1 .. l \/ i = l + 1
    BY <1>3, <1>5
  <2>3. \A i \in 1 .. Len(u) : u[i] = t[i]
    <3> SUFFICES ASSUME NEW i \in 1 .. Len(u) PROVE u[i] = t[i]
      OBVIOUS
    <3>1. i \in 1 .. l \/ i = l + 1
      BY <2>1, <2>2
    <3> QED BY <1>5, <2>1, <3>1
  <2>4. u = t
    BY <1>3, <2>1, <2>3, SeqEqual DEF Str
  <2> QED BY <2>4 DEF u
<1>8. LineFrom(t, 1) = line
  <2>1. 1 \in 1 .. Len(t) /\ l + 1 \in 1 .. (Len(t) + 1) /\ (l + 1) - 1 = l /\ 1 \in 1 .. (Len(t) + 1)
    BY <1>3, <1>5
  <2>2. LineFrom(t, 1) = Slice(t, 1, l + 1)
    BY <1>3, <1>5, <2>1, LineThere
  <2> DEFINE u == Slice(t, 1, l + 1)
  <2>3. u = SubSeq(t, 1, l)
    BY <2>1 DEF Slice
  <2>4. l \in 0 .. Len(t) /\ t \in Seq(Symbol)
    BY <1>3, <1>5 DEF Str
  <2>5. SubSeq(t, 1, l) \in Seq(Symbol) /\ Len(SubSeq(t, 1, l)) = l /\ \A n \in 1 .. l : SubSeq(t, 1, l)[n] = t[n]
    BY <2>4, Divided
  <2>6. SubSeq(t, 1, l) = line
    BY <1>1, <1>5, <2>5, SeqEqual DEF Str, l
  <2> QED BY <2>2, <2>3, <2>6
<1>9. \A i : i \in Lines(t) <=> i = 1
  <2>1. Len(t) # 0 /\ \A i \in 1 .. (Len(t) - 1) : t[i] # Newline
    BY <1>3, <1>5
  <2> QED BY <1>1, <1>3, <1>8, <2>1, OneLine
<1>10. PICK key \in KeysIn(line) : TRUE
  BY <1>1
<1>11. KeysIn(line) = {key} /\ key \in Key
  <2>1. Len(Trim(line)) \in Nat
    BY <1>1, TrimIsText DEF Str
  <2> QED BY <1>1, <2>1, OneKey DEF Key
<1> DEFINE ring == <<key>>
           at == [n \in 1 .. 1 |-> 1]
<1>12. ring \in Seq(Key) /\ Len(ring) = 1 /\ ring[1] = key
  BY <1>11
<1>13. at \in [1 .. 1 -> Lines(t)] /\ at[1] = 1 /\ 1 \in 1 .. 1 /\ \A n \in 1 .. 1 : n = 1
  BY <1>9
<1> HIDE DEF ring, at
<1>14. Whole(t, ring)
  <2>1. \A n \in 1 .. 1 : KeysIn(LineFrom(t, at[n])) = {ring[n]}
    BY <1>8, <1>11, <1>12, <1>13
  <2>2. \A i \in Lines(t) : \E n \in 1 .. 1 : at[n] = i
    BY <1>9, <1>13
  <2>3. \A m, n \in 1 .. 1 : m < n => at[m] < at[n]
    BY <1>13
  <2>4. Reads(at, t, ring)
    BY <1>12, <2>1, <2>2, <2>3 DEF Reads
  <2> QED BY <1>12, <1>13, <2>4 DEF Whole
<1> QED BY <1>3, <1>6, <1>7, <1>14 DEF t, end, ring

(* A part behind which there is nothing need not end its last line.        *)
LEMMA EmptyIsWhole == << >> \in Str /\ Whole(<< >>, << >>)
<1>1. << >> \in Str /\ << >> \in Seq(Key) /\ Len(<< >>) = 0 /\ 1 .. 0 = {}
  BY DEF Str
<1>2. Lines(<< >>) = {}
  BY <1>1, StartsAre
<1>3. PICK at : at = [n \in {} |-> n]
  OBVIOUS
<1>4. at \in [1 .. Len(<< >>) -> Lines(<< >>)] /\ Reads(at, << >>, << >>)
  BY <1>1, <1>2, <1>3 DEF Reads
<1> QED BY <1>1, <1>4 DEF Whole

LEMMA RingCuts ==
    ASSUME NEW a \in Str, NEW b \in Str, Closed(a) \/ b = << >>, NEW ring, Whole(a \o b, ring)
    PROVE  \E r, s : Whole(a, r) /\ Whole(b, s) /\ ring = r \o s
<1>1. CASE Closed(a)
  BY <1>1, RingSplits
<1>2. CASE b = << >>
  <2>1. a \o b = a
    BY <1>2, ConcatEmptySeq DEF Str
  <2>2. Whole(a, ring) /\ Whole(b, << >>)
    BY <1>2, <2>1, EmptyIsWhole
  <2>3. ring \in Seq(Key)
    BY <2>2, WholeParts
  <2>4. ring = ring \o << >>
    BY <2>3, ConcatEmptySeq
  <2> QED BY <2>2, <2>4
<1> QED BY <1>1, <1>2

WithoutLine(t, i) == SubSeq(t, 1, i - 1) \o SubSeq(t, i + Len(LineFrom(t, i)) + 1, Len(t))

(* What removing a line leaves of a text, and what it takes away.          *)
LEMMA RemovedIs ==
    ASSUME NEW t \in Str, NEW i \in LineStarts(t), ~Ignored(LineFrom(t, i))
    PROVE  \E a, m, b \in Str :
             /\ t = a \o (m \o b) /\ Closed(a) /\ (Closed(m) \/ b = << >>)
             /\ Len(m) # 0 /\ \A k \in 1 .. (Len(m) - 1) : m[k] # Newline
             /\ ~Ignored(LineFrom(m, 1)) /\ LineFrom(m, 1) = LineFrom(t, i)
             /\ WithoutLine(t, i) = a \o b
<1>1. t \in Seq(Symbol) /\ Len(t) \in Nat /\ i \in 1 .. Len(t) /\ (i = 1 \/ t[i - 1] = Newline)
  BY StartsAre DEF Str
<1>2. PICK e \in i .. (Len(t) + 1) :
        /\ Len(LineFrom(t, i)) = e - i
        /\ \A j \in i .. (e - 1) : t[j] # Newline
        /\ e <= Len(t) => t[e] = Newline
  BY <1>1, LineEnds
<1>3. i + Len(LineFrom(t, i)) + 1 = e + 1
  BY <1>1, <1>2
<1> DEFINE k == i - 1
           a == SubSeq(t, 1, k)
           rest == SubSeq(t, k + 1, Len(t))
<1>4. k \in 0 .. Len(t) /\ k \in Nat /\ k + 1 = i
  BY <1>1
<1> HIDE DEF k
<1>5. /\ a \in Seq(Symbol) /\ Len(a) = k /\ \A n \in 1 .. k : a[n] = t[n]
      /\ rest \in Seq(Symbol) /\ Len(rest) = Len(t) - k /\ \A n \in 1 .. (Len(t) - k) : rest[n] = t[k + n]
      /\ t = a \o rest
  BY <1>1, <1>4, Divided, ZenonT(60)
<1> HIDE DEF a, rest
<1>6. PICK x \in 1 .. Len(rest) :
        (e <= Len(t) => x = e - k) /\ (e = Len(t) + 1 => x = Len(rest))
  <2>1. CASE e <= Len(t)
    <3>1. e - k \in 1 .. Len(rest) /\ e # Len(t) + 1
      BY <1>1, <1>4, <1>5, <2>1
    <3> QED BY <3>1
  <2>2. CASE ~(e <= Len(t))
    <3>1. Len(rest) \in 1 .. Len(rest)
      BY <1>1, <1>4, <1>5
    <3> QED BY <2>2, <3>1
  <2> QED BY <2>1, <2>2
<1>7. x \in 0 .. Len(rest) /\ x \in Nat /\ x # 0 /\ Len(rest) \in Nat
  BY <1>1, <1>4, <1>5
<1>8. e \in Nat /\ (e <= Len(t) \/ e = Len(t) + 1)
  BY <1>1
<1>9. PICK m, b : m = SubSeq(rest, 1, x) /\ b = SubSeq(rest, x + 1, Len(rest))
  OBVIOUS
<1>10. /\ m \in Seq(Symbol) /\ Len(m) = x /\ \A n \in 1 .. x : m[n] = rest[n]
       /\ b \in Seq(Symbol) /\ Len(b) = Len(rest) - x /\ \A n \in 1 .. (Len(rest) - x) : b[n] = rest[x + n]
       /\ rest = m \o b
  BY <1>5, <1>7, <1>9, Divided, ZenonT(60)
<1>11. a \in Str /\ m \in Str /\ b \in Str /\ rest \in Str
  BY <1>5, <1>10 DEF Str
<1>12. Closed(a)
  <2>1. CASE i = 1
    <3>1. Len(a) = 0
      BY <1>4, <1>5, <2>1
    <3> QED BY <1>5, <3>1, EmptySeq DEF Closed
  <2>2. CASE i # 1
    <3>1. k \in 1 .. k /\ k = i - 1
      BY <1>1, <1>4, <2>2
    <3> QED BY <1>1, <1>5, <2>2, <3>1 DEF Closed
  <2> QED BY <2>1, <2>2
<1>13. ASSUME NEW n \in 1 .. x PROVE m[n] = t[k + n]
  <2>1. n \in 1 .. (Len(t) - k)
    BY <1>1, <1>4, <1>5, <1>7
  <2> QED BY <1>5, <1>10, <2>1
<1>14. ASSUME NEW n \in 1 .. (Len(m) - 1) PROVE m[n] # Newline
  <2>1. n \in 1 .. x /\ k + n \in i .. (e - 1)
    BY <1>1, <1>4, <1>5, <1>6, <1>7, <1>8, <1>10
  <2> QED BY <1>2, <1>13, <2>1
<1>15. Closed(m) \/ b = << >>
  <2>1. CASE e <= Len(t)
    <3>1. x \in 1 .. x /\ k + x = e
      BY <1>1, <1>4, <1>6, <1>7, <1>8, <2>1
    <3>2. m[Len(m)] = Newline
      BY <1>2, <1>10, <1>13, <2>1, <3>1
    <3> QED BY <3>2 DEF Closed
  <2>2. CASE e = Len(t) + 1
    <3>1. Len(b) = 0
      <4>1. x = Len(rest)
        BY <1>6, <2>2
      <4>2. Len(b) = Len(rest) - x
        BY <1>10
      <4> QED BY <1>7, <4>1, <4>2
    <3> QED BY <1>10, <3>1, EmptySeq
  <2> QED BY <1>8, <2>1, <2>2
<1>16. LineFrom(m, 1) = LineFrom(t, i)
  <2>1. 1 \in 1 .. Len(rest) /\ 1 \in 1 .. Len(m)
    BY <1>1, <1>5, <1>7, <1>10
  <2>2. LineFrom(a \o rest, Len(a) + 1) = LineFrom(rest, 1)
    BY <1>11, <2>1, LineInSecond
  <2>3. LineFrom(t, i) = LineFrom(rest, 1)
    BY <1>4, <1>5, <2>2
  <2>4. CASE Closed(m)
    <3>1. LineFrom(m \o b, 1) = LineFrom(m, 1)
      BY <1>11, <2>1, <2>4, LineInFirst
    <3> QED BY <1>10, <2>3, <3>1
  <2>5. CASE b = << >>
    <3>1. rest = m
      BY <1>10, <2>5, ConcatEmptySeq
    <3> QED BY <2>3, <3>1
  <2> QED BY <1>15, <2>4, <2>5
<1>17. SubSeq(t, e + 1, Len(t)) = b
  <2>1. CASE e <= Len(t)
    <3>1. e \in 0 .. Len(t) /\ e \in Nat
      BY <1>1, <2>1
    <3> PICK u : u = SubSeq(t, e + 1, Len(t))
      OBVIOUS
    <3>2. u \in Seq(Symbol) /\ Len(u) = Len(t) - e /\ \A n \in 1 .. (Len(t) - e) : u[n] = t[e + n]
      BY <1>1, <3>1, Divided
    <3>3. Len(u) = Len(b)
      <4>1. Len(rest) = Len(t) - k /\ Len(b) = Len(rest) - x /\ x = e - k /\ Len(u) = Len(t) - e
        BY <1>5, <1>6, <1>10, <2>1, <3>2
      <4> QED BY <1>1, <1>4, <3>1, <4>1
    <3>4. ASSUME NEW n \in 1 .. Len(u) PROVE u[n] = b[n]
      <4>1. n \in 1 .. (Len(t) - e) /\ n \in 1 .. (Len(rest) - x) /\ x + n \in 1 .. (Len(t) - k)
            /\ k + (x + n) = e + n
        BY <1>1, <1>4, <1>5, <1>6, <1>7, <1>10, <2>1, <3>1, <3>2, <3>3
      <4>2. u[n] = t[e + n] /\ b[n] = rest[x + n] /\ rest[x + n] = t[k + (x + n)]
        BY <1>5, <1>10, <3>2, <4>1
      <4> QED BY <4>1, <4>2
    <3>5. u = b
      BY <1>10, <3>2, <3>3, <3>4, SeqEqual
    <3> QED BY <3>5
  <2>2. CASE e = Len(t) + 1
    <3>1. Len(b) = 0
      <4>1. x = Len(rest)
        BY <1>6, <2>2
      <4>2. Len(b) = Len(rest) - x
        BY <1>10
      <4> QED BY <1>7, <4>1, <4>2
    <3>2. e + 1 \in Int /\ Len(t) \in Int /\ Len(t) < e + 1
      BY <1>1, <2>2
    <3>3. SubSeq(t, e + 1, Len(t)) = << >>
      BY <3>2, SubSeqEmpty
    <3>4. b = << >>
      BY <1>10, <3>1, EmptySeq
    <3> QED BY <3>3, <3>4
  <2> QED BY <1>8, <2>1, <2>2
<1>18. SubSeq(t, 1, i - 1) = a
  BY DEF a, k
<1>19. t = a \o (m \o b) /\ Len(m) # 0
  BY <1>5, <1>7, <1>10
<1>20. ~Ignored(LineFrom(m, 1))
  BY <1>16
<1>21. WithoutLine(t, i) = a \o b
  BY <1>3, <1>17, <1>18 DEF WithoutLine
<1> QED BY <1>11, <1>12, <1>14, <1>15, <1>16, <1>19, <1>20, <1>21

(* A ring without one of its keys.                                         *)
LEMMA WithoutIs ==
    ASSUME NEW S, NEW ring \in Seq(S), NEW n \in 1 .. Len(ring)
    PROVE  /\ Without(ring, n) \in Seq(S) /\ Len(Without(ring, n)) = Len(ring) - 1
           /\ \A k \in 1 .. (Len(ring) - 1) :
                 Without(ring, n)[k] = IF k < n THEN ring[k] ELSE ring[k + 1]
<1> DEFINE p == n - 1
           a == SubSeq(ring, 1, p)
           b == SubSeq(ring, n + 1, Len(ring))
           u == a \o b
<1>1. Len(ring) \in Nat /\ n \in 0 .. Len(ring) /\ p \in 0 .. Len(ring) /\ p + 1 = n
  OBVIOUS
<1>2. a \in Seq(S) /\ Len(a) = p /\ \A k \in 1 .. p : a[k] = ring[k]
  <2> HIDE DEF p
  <2> QED BY <1>1, Divided
<1>3. b \in Seq(S) /\ Len(b) = Len(ring) - n /\ \A k \in 1 .. (Len(ring) - n) : b[k] = ring[n + k]
  BY <1>1, Divided
<1> HIDE DEF a, b
<1>4. /\ u \in Seq(S) /\ Len(u) = Len(a) + Len(b)
      /\ \A k \in 1 .. Len(a) + Len(b) : u[k] = IF k <= Len(a) THEN a[k] ELSE b[k - Len(a)]
  BY <1>2, <1>3, ConcatProperties
<1> HIDE DEF u
<1>5. Len(u) = Len(ring) - 1 /\ Len(a) + Len(b) = Len(ring) - 1
  BY <1>1, <1>2, <1>3, <1>4
<1>6. ASSUME NEW k \in 1 .. (Len(ring) - 1) PROVE u[k] = IF k < n THEN ring[k] ELSE ring[k + 1]
  <2>1. CASE k < n
    <3>1. k \in 1 .. p /\ k <= Len(a)
      BY <1>1, <1>2, <2>1
    <3> QED BY <1>2, <1>4, <1>5, <2>1, <3>1
  <2>2. CASE ~(k < n)
    <3>1. ~(k <= Len(a)) /\ k - Len(a) \in 1 .. (Len(ring) - n) /\ n + (k - Len(a)) = k + 1
      BY <1>1, <1>2, <2>2
    <3> QED BY <1>3, <1>4, <1>5, <2>2, <3>1
  <2> QED BY <2>1, <2>2
<1>7. Without(ring, n) = u
  BY DEF Without, u, a, b
<1> QED BY <1>4, <1>5, <1>6, <1>7

Parts(t, a, b) == t = a \o b

(* What is left of three parts without the second.                         *)
LEMMA LessIs ==
    ASSUME NEW r \in Seq(Key), NEW p \in Seq(Key), NEW s \in Seq(Key),
           NEW q, Parts(q, p, s), NEW u, Parts(u, r, s), NEW ring, Parts(ring, r, q)
    PROVE  /\ \A n \in 1 .. Len(u) : \E m \in 1 .. Len(ring) : u[n] = ring[m]
           /\ Len(p) = 1 => \E n \in 1 .. Len(ring) : ring[n] = p[1] /\ u = Without(ring, n)
<1>1. q = p \o s /\ u = r \o s /\ ring = r \o q
  BY DEF Parts
<1>2. /\ q \in Seq(Key) /\ Len(q) = Len(p) + Len(s) /\ Len(p) \in Nat
      /\ \A n \in 1 .. Len(s) : q[Len(p) + n] = s[n]
  BY <1>1, JoinedIs
<1>3. /\ u \in Seq(Key) /\ Len(u) = Len(r) + Len(s) /\ Len(r) \in Nat /\ Len(s) \in Nat
      /\ \A n \in 1 .. Len(r) : u[n] = r[n]
      /\ \A n \in 1 .. Len(s) : u[Len(r) + n] = s[n]
  BY <1>1, JoinedIs
<1>4. /\ ring \in Seq(Key) /\ Len(ring) = Len(r) + Len(q)
      /\ \A n \in 1 .. Len(r) : ring[n] = r[n]
      /\ \A n \in 1 .. Len(q) : ring[Len(r) + n] = q[n]
  BY <1>1, <1>2, JoinedIs
<1>5. ASSUME NEW n \in 1 .. Len(s)
      PROVE  /\ Len(r) + (Len(p) + n) \in 1 .. Len(ring)
             /\ ring[Len(r) + (Len(p) + n)] = s[n]
  <2>1. Len(p) + n \in 1 .. Len(q) /\ Len(r) + (Len(p) + n) \in 1 .. Len(ring)
    <3>1. Len(q) = Len(p) + Len(s) /\ Len(ring) = Len(r) + Len(q)
      BY <1>2, <1>4
    <3> QED BY <1>2, <1>3, <3>1
  <2> QED BY <1>2, <1>4, <2>1
<1>6. \A n \in 1 .. Len(u) : n \in 1 .. Len(r) \/ (n - Len(r) \in 1 .. Len(s) /\ Len(r) + (n - Len(r)) = n)
  <2>1. Len(u) = Len(r) + Len(s)
    BY <1>3
  <2> QED BY <1>3, <2>1
<1>7. ASSUME NEW n \in 1 .. Len(r) PROVE n \in 1 .. Len(ring) /\ u[n] = ring[n]
  <2>1. Len(ring) = Len(r) + Len(q) /\ Len(q) = Len(p) + Len(s)
    BY <1>2, <1>4
  <2>2. n \in 1 .. Len(ring)
    BY <1>2, <1>3, <2>1
  <2> QED BY <1>3, <1>4, <2>2
<1>8. ASSUME NEW n \in 1 .. Len(u) PROVE \E m \in 1 .. Len(ring) : u[n] = ring[m]
  <2>1. CASE n \in 1 .. Len(r)
    BY <1>7, <2>1
  <2>2. CASE n - Len(r) \in 1 .. Len(s) /\ Len(r) + (n - Len(r)) = n
    <3>1. u[n] = s[n - Len(r)]
      BY <1>3, <2>2
    <3> QED BY <1>5, <2>2, <3>1
  <2> QED BY <1>6, <2>1, <2>2
<1>9. ASSUME Len(p) = 1
      PROVE  \E n \in 1 .. Len(ring) : ring[n] = p[1] /\ u = Without(ring, n)
  <2>1. PICK c : c = Len(r) + 1
    OBVIOUS
  <2>2. Len(ring) = Len(r) + 1 + Len(s) /\ Len(u) = Len(ring) - 1
    BY <1>2, <1>3, <1>4, <1>9
  <2>3. c \in 1 .. Len(ring)
    BY <1>3, <2>1, <2>2
  <2>4. PICK w : w = Without(ring, c)
    OBVIOUS
  <2>5. /\ w \in Seq(Key) /\ Len(w) = Len(ring) - 1
        /\ \A k \in 1 .. (Len(ring) - 1) : w[k] = IF k < c THEN ring[k] ELSE ring[k + 1]
    BY <1>4, <2>3, <2>4, WithoutIs
  <2>6. ASSUME NEW n \in 1 .. Len(u) PROVE u[n] = w[n]
    <3>1. n \in 1 .. (Len(ring) - 1)
      BY <2>2
    <3>2. CASE n \in 1 .. Len(r)
      <4>1. n < c
        BY <1>3, <2>1, <3>2
      <4> QED BY <1>7, <2>5, <3>1, <3>2, <4>1
    <3>3. CASE n - Len(r) \in 1 .. Len(s) /\ Len(r) + (n - Len(r)) = n
      <4>1. PICK j \in 1 .. Len(s) : n = Len(r) + j
        BY <3>3
      <4>2. ~(n < c) /\ n + 1 = Len(r) + (Len(p) + j)
        BY <1>3, <1>9, <2>1, <4>1
      <4>3. u[n] = s[j] /\ ring[n + 1] = s[j]
        BY <1>3, <1>5, <4>1, <4>2
      <4> QED BY <2>5, <3>1, <4>2, <4>3
    <3> QED BY <1>6, <3>2, <3>3
  <2>7. Len(u) = Len(w)
    BY <2>2, <2>5
  <2>8. u = w
    BY <1>3, <2>5, <2>6, <2>7, SeqEqual
  <2>9. ring[c] = p[1]
    <3>1. 1 \in 1 .. Len(p) /\ 1 \in 1 .. Len(q)
      BY <1>2, <1>3, <1>9
    <3>2. q[1] = p[1]
      BY <1>1, <3>1, JoinedIs
    <3> QED BY <1>4, <2>1, <3>1, <3>2
  <2> QED BY <2>3, <2>4, <2>8, <2>9
<1> QED BY <1>8, <1>9

(* Without the line of a key, its key is gone and the others are there. In *)
(* SEALREF_KEY an operator's line may hold several.                        *)
LEMMA RingWithoutLine ==
    ASSUME NEW t \in Str, NEW flag, NEW i \in LineStarts(t), ~Ignored(LineFrom(t, i)),
           NEW ring, Whole(DeliveredOf(flag, t), ring),
           NEW short, short = WithoutLine(t, i)
    PROVE  \E less :
             /\ Whole(DeliveredOf(flag, short), less)
             /\ \A n \in 1 .. Len(less) : \E m \in 1 .. Len(ring) : less[n] = ring[m]
             /\ ~flag => \E n \in 1 .. Len(ring) :
                   KeysIn(LineFrom(t, i)) = {ring[n]} /\ less = Without(ring, n)
<1>1. PICK a, m, b \in Str :
        /\ t = a \o (m \o b) /\ Closed(a) /\ (Closed(m) \/ b = << >>)
        /\ Len(m) # 0 /\ \A k \in 1 .. (Len(m) - 1) : m[k] # Newline
        /\ ~Ignored(LineFrom(m, 1)) /\ LineFrom(m, 1) = LineFrom(t, i)
        /\ WithoutLine(t, i) = a \o b
  BY RemovedIs
<1>2. PICK x, y, z, d : /\ x = DeliveredOf(flag, a) /\ y = DeliveredOf(flag, m)
                        /\ z = DeliveredOf(flag, b) /\ d = y \o z
  OBVIOUS
<1>3. x \in Str /\ y \in Str /\ z \in Str /\ d \in Str
  <2>1. x \in Str /\ y \in Str /\ z \in Str
    BY <1>2, DeliveredSymbols
  <2> QED BY <1>2, <2>1, Joined
<1>4. Whole(x \o d, ring) /\ DeliveredOf(flag, short) = x \o z
  <2>1. PICK v \in Str : v = m \o b
    BY Joined
  <2>2. DeliveredOf(flag, v) = d
    BY <1>2, <2>1, DeliveredJoins, ZenonT(60)
  <2>3. DeliveredOf(flag, a \o v) = x \o d
    <3>1. DeliveredOf(flag, a \o v) = DeliveredOf(flag, a) \o DeliveredOf(flag, v)
      BY <2>1, DeliveredJoins, ZenonT(60)
    <3> QED BY <1>2, <2>2, <3>1
  <2>4. DeliveredOf(flag, a \o b) = x \o z
    BY <1>2, DeliveredJoins, ZenonT(60)
  <2>5. short = a \o b /\ t = a \o v
    BY <1>1, <2>1
  <2> QED BY <2>3, <2>4, <2>5
<1>5. Closed(x) /\ (Closed(y) \/ z = << >>)
  <2>1. b = << >> => z = << >>
    <3> SUFFICES ASSUME b = << >> PROVE z = << >>
      OBVIOUS
    <3>1. z \in Str /\ Len(z) = Len(b) /\ Len(b) = 0
      BY <1>2, DeliveredSymbols, EmptySeq
    <3> QED BY <3>1, EmptySeq DEF Str
  <2> QED BY <1>1, <1>2, <2>1, DeliveredCloses
<1>6. PICK r, q : Whole(x, r) /\ Whole(d, q) /\ ring = r \o q
  <2>1. x \in Str /\ d \in Str /\ (Closed(x) \/ d = << >>) /\ Whole(x \o d, ring)
    BY <1>3, <1>4, <1>5
  <2> QED BY ONLY <2>1, RingCuts
<1>7. PICK p, s : Whole(y, p) /\ Whole(z, s) /\ q = p \o s
  <2>1. y \in Str /\ z \in Str /\ (Closed(y) \/ z = << >>) /\ Whole(y \o z, q)
    BY <1>2, <1>3, <1>5, <1>6
  <2> QED BY ONLY <2>1, RingCuts
<1>8. r \in Seq(Key) /\ p \in Seq(Key) /\ s \in Seq(Key)
  BY <1>3, <1>6, <1>7, WholeParts
<1>9. PICK less : less = r \o s
  OBVIOUS
<1>10. Whole(DeliveredOf(flag, short), less)
  <2>1. Whole(x \o z, r \o s)
    BY <1>3, <1>5, <1>6, <1>7, RingsJoin
  <2> QED BY <1>4, <1>9, <2>1
<1>11. Parts(q, p, s) /\ Parts(less, r, s) /\ Parts(ring, r, q)
  BY <1>6, <1>7, <1>9 DEF Parts
<1>12. /\ \A n \in 1 .. Len(less) : \E k \in 1 .. Len(ring) : less[n] = ring[k]
       /\ Len(p) = 1 => \E n \in 1 .. Len(ring) : ring[n] = p[1] /\ less = Without(ring, n)
  BY <1>8, <1>11, LessIs
<1>13. ASSUME ~flag
       PROVE  \E n \in 1 .. Len(ring) : KeysIn(LineFrom(t, i)) = {ring[n]} /\ less = Without(ring, n)
  <2>1. y = m
    BY <1>2, <1>13 DEF DeliveredOf
  <2>2. Len(p) = 1 /\ KeysIn(LineFrom(t, i)) = {p[1]}
    BY <1>1, <1>7, <2>1, OneLineOneKey
  <2> QED BY <1>12, <2>2
<1> QED BY <1>10, <1>12, <1>13

-----------------------------------------------------------------------------
(* All keys but the last are in lines that are ended.                      *)
AllButLast(old, new) == \A n \in 1 .. (Len(old) - 1) : n \in 1 .. Len(new) /\ new[n] = old[n]

LEMMA LastKeySplits ==
    ASSUME NEW d \in Str, NEW ring, Whole(d, ring), ring # << >>
    PROVE  \E a, b \in Str : \E r : d = a \o b /\ Closed(a) /\ Whole(a, r) /\ AllButLast(ring, r)
<1>1. ring \in Seq(Key) /\ Len(ring) \in Nat /\ Len(ring) # 0
  BY WholeParts, EmptySeq
<1>2. PICK at : /\ at \in [1 .. Len(ring) -> Lines(d)]
                /\ \A n \in 1 .. Len(ring) : at[n] \in 1 .. Len(d)
                /\ \A i \in Lines(d) : \E n \in 1 .. Len(ring) : at[n] = i
                /\ \A m, n \in 1 .. Len(ring) : m < n => at[m] < at[n]
  BY WholeParts
<1>3. PICK i : i = at[Len(ring)]
  OBVIOUS
<1>4. Len(ring) \in 1 .. Len(ring)
  BY <1>1
<1>5. i \in Lines(d) /\ i \in 1 .. Len(d)
  BY <1>2, <1>3, <1>4
<1>6. ASSUME NEW j \in Lines(d) PROVE j <= i
  <2>1. PICK n \in 1 .. Len(ring) : at[n] = j
    BY <1>2
  <2>2. n < Len(ring) \/ n = Len(ring)
    BY <1>1
  <2> QED BY <1>2, <1>3, <1>4, <1>5, <2>1, <2>2
<1>7. d \in Seq(Symbol) /\ Len(d) \in Nat /\ (i = 1 \/ d[i - 1] = Newline)
  BY <1>5, StartsAre DEF Str
<1>8. PICK k, a, b : k = i - 1 /\ a = SubSeq(d, 1, k) /\ b = SubSeq(d, k + 1, Len(d))
  OBVIOUS
<1>9. k \in 0 .. Len(d) /\ k \in Nat
  BY <1>5, <1>7, <1>8
<1>10. /\ a \in Seq(Symbol) /\ Len(a) = k /\ \A n \in 1 .. k : a[n] = d[n]
       /\ b \in Seq(Symbol) /\ d = a \o b
  BY <1>7, <1>8, <1>9, Divided, ZenonT(60)
<1>11. a \in Str /\ b \in Str
  BY <1>10 DEF Str
<1>12. Closed(a)
  <2>1. CASE i = 1
    <3>1. Len(a) = 0
      BY <1>8, <1>10, <2>1
    <3> QED BY <1>10, <3>1, EmptySeq DEF Closed
  <2>2. CASE i # 1
    <3>1. k \in 1 .. k /\ k = i - 1
      BY <1>5, <1>7, <1>8, <2>2
    <3> QED BY <1>7, <1>10, <2>2, <3>1 DEF Closed
  <2> QED BY <2>1, <2>2
<1>13. PICK r, q : Whole(a, r) /\ Whole(b, q) /\ ring = r \o q
  <2>1. Whole(a \o b, ring)
    BY <1>10
  <2> QED BY <1>11, <1>12, <2>1, RingSplits
<1>14. r \in Seq(Key) /\ q \in Seq(Key) /\ Cardinality(Lines(b)) = Len(q)
  BY <1>11, <1>13, WholeParts
<1>15. Lines(b) \in SUBSET {1}
  <2>1. ASSUME NEW j \in Lines(b) PROVE j = 1
    <3>1. j \in 1 .. Len(b) /\ Len(b) \in Nat
      BY <1>11, StartsAre
    <3>2. k + j \in Nat /\ (k + j) - Len(a) = j
      BY <1>9, <1>10, <3>1
    <3>3. k + j \in Lines(a \o b)
      BY <1>11, <1>12, <2>1, <3>2, LinesJoin
    <3>4. k + j <= i
      BY <1>6, <1>10, <3>3
    <3> QED BY <1>5, <1>7, <1>8, <1>9, <3>1, <3>4
  <2> QED BY <2>1
<1>16. Len(q) <= 1
  <2>1. IsFiniteSet({1}) /\ Cardinality({1}) = 1
    BY FS_Singleton
  <2>2. Cardinality(Lines(b)) <= Cardinality({1})
    BY <1>15, <2>1, FS_Subset
  <2> QED BY <1>14, <2>1, <2>2
<1>17. /\ Len(ring) = Len(r) + Len(q) /\ Len(r) \in Nat /\ Len(q) \in Nat
       /\ \A n \in 1 .. Len(r) : ring[n] = r[n]
  BY <1>13, <1>14, JoinedIs
<1>18. ASSUME NEW n \in 1 .. (Len(ring) - 1) PROVE n \in 1 .. Len(r)
  BY <1>16, <1>17
<1>19. AllButLast(ring, r)
  BY <1>17, <1>18 DEF AllButLast
<1> QED BY <1>10, <1>11, <1>12, <1>13, <1>19

-----------------------------------------------------------------------------
(* What a rotation step makes of a ring: the line's key behind it or in    *)
(* front of it, all but the line's, or, where a line may hold several,     *)
(* some of it.                                                             *)
Follows(step, flag, new) ==
    \/ step.is = "last" /\ \E key \in KeysIn(step.line) : key \in Key /\ new = Append(step.ring, key)
    \/ step.is = "first" /\ \E key \in KeysIn(step.line) : key \in Key /\ new = <<key>> \o step.ring
    \/ /\ step.is = "removed"
       /\ \A n \in 1 .. Len(new) : \E m \in 1 .. Len(step.ring) : new[n] = step.ring[m]
       /\ ~flag => \E n \in 1 .. Len(step.ring) :
             KeysIn(step.line) = {step.ring[n]} /\ new = Without(step.ring, n)

(* Behind a line that is not ended: the keys of the lines before it.       *)
Unended(step) == step.is = "last" /\ ~step.closed

Begins(old, d) ==
    \E a, b \in Str : \E r : d = a \o b /\ Closed(a) /\ Whole(a, r) /\ AllButLast(old, r)

(* The text that is loaded after a step has the ring that the step makes.  *)
EditInv ==
    edit.is # "none" =>
        /\ edit.is \in {"last", "first", "removed"}
        /\ edit.ring \in Seq(Key) /\ edit.ring # << >> /\ Distinct(edit.ring)
        /\ Unended(edit) => Begins(edit.ring, Delivered)
        /\ ~Unended(edit) => \E ring : Whole(Delivered, ring) /\ Follows(edit, inline, ring)

(* A text that is refused has no ring, an empty one, or a kid twice.       *)
RefusedInv ==
    phase = "refused" =>
        \A ring : Whole(Delivered, ring) => ring = << >> \/ ~Distinct(ring)

RotationInv == RingInv /\ EditInv /\ RefusedInv

-----------------------------------------------------------------------------
(* What the loop has when it is through is the ring of the text.           *)
LEMMA LoadedIsWhole ==
    ASSUME RingInv, phase # "refused", next > Len(text)
    PROVE  Delivered \in Str /\ Whole(Delivered, keys) /\ Distinct(keys)
<1>1. Delivered \in Str /\ Len(Delivered) = Len(text) /\ Len(text) \in Nat /\ next \in Nat
  BY DeliveredIs DEF RingInv
<1>2. \A i \in Lines(Delivered) : i < next
  <2>1. \A i \in Lines(Delivered) : i \in 1 .. Len(text)
    BY <1>1, StartsAre
  <2> QED BY <1>1, <2>1
<1>3. Behind = Lines(Delivered)
  BY <1>2 DEF Behind
<1>4. PICK at \in [1 .. Len(keys) -> Behind] : From(at)
  BY DEF RingInv
<1>5. Reads(at, Delivered, keys)
  BY <1>3, <1>4 DEF Reads, From
<1>6. keys \in Seq(Key) /\ Distinct(keys)
  BY DEF RingInv, Distinct
<1> QED BY <1>1, <1>3, <1>4, <1>5, <1>6 DEF Whole

LEMMA RefusalIs == ASSUME RingInv, RefuseLine PROVE RefusedInv'
<1> SUFFICES ASSUME NEW ring, Whole(Delivered, ring) PROVE ~Distinct(ring)
  <2>1. Delivered' = Delivered
    BY DEF RefuseLine, Delivered
  <2> QED BY <2>1 DEF RefusedInv
<1>1. /\ phase = "lines" /\ next <= Len(text) /\ ~Ignored(Line)
      /\ \A key \in KeysIn(Line) : Taken(keys, key.kid)
  BY DEF RefuseLine, AtLine
<1>2. /\ Delivered \in Str /\ next \in Nat /\ next \in LineStarts(Delivered)
      /\ keys \in Seq(Key) /\ DOMAIN keys = 1 .. Len(keys)
  <2>1. keys \in Seq(Key) /\ Delivered \in Str
    BY DeliveredIs DEF RingInv
  <2> QED BY <1>1, <2>1 DEF RingInv
<1>3. next \in Lines(Delivered) /\ Line = LineFrom(Delivered, next)
  BY <1>1, <1>2, StartsAre DEF Line
<1>4. PICK at : /\ at \in [1 .. Len(ring) -> Lines(Delivered)]
                /\ \A n \in 1 .. Len(ring) : KeysIn(LineFrom(Delivered, at[n])) = {ring[n]}
                /\ \A i \in Lines(Delivered) : \E n \in 1 .. Len(ring) : at[n] = i
  <2>1. PICK at \in [1 .. Len(ring) -> Lines(Delivered)] : Reads(at, Delivered, ring)
    BY DEF Whole
  <2> QED BY <2>1 DEF Reads
<1>5. PICK n \in 1 .. Len(ring) : at[n] = next
  BY <1>3, <1>4
<1>6. PICK m \in 1 .. Len(keys) : keys[m].kid = ring[n].kid
  <2>1. ring[n] \in KeysIn(Line)
    BY <1>3, <1>4, <1>5
  <2> QED BY <1>1, <1>2, <2>1 DEF Taken
<1>7. PICK bt \in [1 .. Len(keys) -> Behind] : From(bt)
  BY <1>1 DEF RingInv
<1>8. bt[m] \in Behind /\ KeysIn(LineFrom(Delivered, bt[m])) = {keys[m]}
  BY <1>6, <1>7 DEF From
<1>9. bt[m] \in Lines(Delivered) /\ bt[m] < next
  BY <1>8 DEF Behind
<1>10. PICK p \in 1 .. Len(ring) : at[p] = bt[m]
  BY <1>4, <1>9
<1>11. {ring[p]} = {keys[m]}
  BY <1>4, <1>8, <1>10
<1>12. p # n
  <2>1. bt[m] # next
    BY <1>2, <1>9
  <2> QED BY <1>5, <1>10, <2>1
<1>13. ring[p].kid = ring[n].kid
  <2>1. ring[p] = keys[m]
    BY <1>11
  <2> QED BY <1>6, <2>1
<1> QED BY <1>5, <1>10, <1>12, <1>13 DEF Distinct

LEMMA EndIs == ASSUME RingInv, EndOfText PROVE RefusedInv'
<1>1. phase = "lines" /\ next > Len(text) /\ Delivered' = Delivered
      /\ (phase' = "refused" => keys = << >>)
  BY DEF EndOfText, Delivered
<1>2. Delivered \in Str /\ Whole(Delivered, keys)
  BY <1>1, LoadedIsWhole
<1>3. ASSUME phase' = "refused", NEW ring, Whole(Delivered', ring) PROVE ring = << >>
  BY <1>1, <1>2, <1>3, WholeUnique
<1> QED BY <1>3 DEF RefusedInv

-----------------------------------------------------------------------------
LEMMA ChangedIs ==
    ASSUME RingInv, NEW what \in {"last", "first", "removed"}, NEW line, NEW newText,
           Changed(what, line, newText),
           NEW step, step = [is |-> what, line |-> line, ring |-> keys, closed |-> text[Len(text)] = "\n"],
           Unended(step) => Begins(keys, DeliveredOf(inline, newText)),
           ~Unended(step) => \E ring : Whole(DeliveredOf(inline, newText), ring) /\ Follows(step, inline, ring)
    PROVE  EditInv' /\ RefusedInv'
<1>1. /\ phase = "parsed" /\ text' = newText /\ inline' = inline /\ phase' = "lines" /\ edit' = step
  BY DEF Changed
<1>2. edit'.is = what /\ edit'.ring = keys
  BY <1>1
<1>3. keys \in Seq(Key) /\ keys # << >> /\ Distinct(keys)
  BY <1>1 DEF RingInv, Distinct
<1>4. Delivered' = DeliveredOf(inline, newText)
  BY <1>1 DEF Delivered, DeliveredOf, Newline, Semicolon
<1>5. phase' # "refused"
  BY <1>1
<1>6. Unended(edit') => Begins(edit'.ring, Delivered')
  BY <1>1, <1>2, <1>4
<1>7. ~Unended(edit') => \E ring : Whole(Delivered', ring) /\ Follows(edit', inline', ring)
  BY <1>1, <1>4
<1>8. EditInv'
  BY <1>2, <1>3, <1>6, <1>7 DEF EditInv
<1> QED BY <1>5, <1>8 DEF RefusedInv

LEMMA AppendIs == ASSUME RingInv, AppendKey PROVE EditInv' /\ RefusedInv'
<1>1. PICK line \in Fresh : Changed("last", line, text \o line \o <<"\n">>)
  BY DEF AppendKey
<1>2. text \in Str /\ phase = "parsed" /\ next > Len(text) /\ keys # << >>
  BY <1>1 DEF RingInv, Changed
<1>3. PICK t : t = line \o <<Newline>>
  OBVIOUS
<1>4. PICK key \in KeysIn(line) : t \in Str /\ Closed(t) /\ DeliveredOf(inline, t) = t /\ Whole(t, <<key>>)
  BY <1>3, FreshIsWhole
<1>5. text \o line \o <<"\n">> = text \o t
  <2>1. line \in Seq(Symbol) /\ text \in Seq(Symbol) /\ <<Newline>> \in Seq(Symbol)
    <3>1. line \in Seq(STRING)
      BY KeyringAssumption
    <3>2. line \in Str
      BY <3>1, TextsAreStrs
    <3>3. Newline \in Symbol
      BY <1>2, StartsAre
    <3> QED BY <1>2, <3>2, <3>3 DEF Str
  <2>2. (text \o line) \o <<Newline>> = text \o (line \o <<Newline>>)
    BY <2>1, ConcatAssociative
  <2> QED BY <1>3, <2>2 DEF Newline
<1>6. PICK d : d = Delivered
  OBVIOUS
<1>7. d \in Str /\ Whole(d, keys) /\ DeliveredOf(inline, text) = d
  BY <1>2, <1>6, LoadedIsWhole, DeliveredOfText
<1>8. DeliveredOf(inline, text \o t) = d \o t
  <2>1. DeliveredOf(inline, text \o t) = DeliveredOf(inline, text) \o DeliveredOf(inline, t)
    BY <1>2, <1>4, DeliveredJoins
  <2> QED BY <1>4, <1>7, <2>1
<1>9. key \in Key /\ keys \in Seq(Key)
  <2>1. <<key>> \in Seq(Key)
    BY <1>4, WholeParts
  <2> QED BY <2>1 DEF RingInv
<1> DEFINE step == [is |-> "last", line |-> line, ring |-> keys, closed |-> text[Len(text)] = "\n"]
<1>10. ASSUME ~Unended(step)
       PROVE  \E ring : Whole(DeliveredOf(inline, text \o t), ring) /\ Follows(step, inline, ring)
  <2>0. Closed(text)
    BY <1>10 DEF Unended, Closed, Newline
  <2>1. Closed(d)
    BY <1>2, <1>7, <2>0, DeliveredCloses
  <2>2. Whole(d \o t, keys \o <<key>>)
    BY <1>4, <1>7, <2>1, RingsJoin
  <2>3. Append(keys, key) = keys \o <<key>>
    BY <1>9, AppendIsConcat
  <2>4. Follows(step, inline, Append(keys, key))
    BY <1>4, <1>9 DEF Follows
  <2> QED BY <1>8, <2>2, <2>3, <2>4
<1>11. Begins(keys, DeliveredOf(inline, text \o t))
  <2>0. PICK a \in Str, b \in Str : \E r : d = a \o b /\ Closed(a) /\ Whole(a, r) /\ AllButLast(keys, r)
    BY <1>2, <1>7, LastKeySplits
  <2>1. PICK r : d = a \o b /\ Closed(a) /\ Whole(a, r) /\ AllButLast(keys, r)
    BY <2>0
  <2>2. d \o t = a \o (b \o t)
    <3>1. a \in Seq(Symbol) /\ b \in Seq(Symbol) /\ t \in Seq(Symbol)
      BY <1>4, <2>1 DEF Str
    <3>2. (a \o b) \o t = a \o (b \o t)
      BY <3>1, ConcatAssociative
    <3> QED BY <2>1, <3>2
  <2>3. b \o t \in Str
    BY <1>4, <2>1, Joined
  <2> QED BY <1>8, <2>1, <2>2, <2>3 DEF Begins
<1>12. PICK st : st = step
  OBVIOUS
<1> HIDE DEF step
<1>13. Changed("last", line, text \o t)
  BY <1>1, <1>5
<1>14. /\ Unended(st) => Begins(keys, DeliveredOf(inline, text \o t))
       /\ ~Unended(st) => \E ring : Whole(DeliveredOf(inline, text \o t), ring) /\ Follows(st, inline, ring)
  BY <1>10, <1>11, <1>12
<1> QED BY <1>12, <1>13, <1>14, ChangedIs DEF step

LEMMA PrependIs == ASSUME RingInv, PrependKey PROVE EditInv' /\ RefusedInv'
<1>1. PICK line \in Fresh : Changed("first", line, line \o <<"\n">> \o text)
  BY DEF PrependKey
<1>2. text \in Str /\ phase = "parsed" /\ next > Len(text)
  BY <1>1 DEF RingInv, Changed
<1>3. PICK t : t = line \o <<Newline>>
  OBVIOUS
<1>4. PICK key \in KeysIn(line) : t \in Str /\ Closed(t) /\ DeliveredOf(inline, t) = t /\ Whole(t, <<key>>)
  BY <1>3, FreshIsWhole
<1>5. line \o <<"\n">> \o text = t \o text
  BY <1>3 DEF Newline
<1>6. PICK d : d = Delivered
  OBVIOUS
<1>7. d \in Str /\ Whole(d, keys) /\ DeliveredOf(inline, text) = d
  BY <1>2, <1>6, LoadedIsWhole, DeliveredOfText
<1>8. DeliveredOf(inline, t \o text) = t \o d
  <2>1. DeliveredOf(inline, t \o text) = DeliveredOf(inline, t) \o DeliveredOf(inline, text)
    BY <1>2, <1>4, DeliveredJoins
  <2> QED BY <1>4, <1>7, <2>1
<1>9. key \in Key
  <2>1. <<key>> \in Seq(Key)
    BY <1>4, WholeParts
  <2> QED BY <2>1
<1> DEFINE step == [is |-> "first", line |-> line, ring |-> keys, closed |-> text[Len(text)] = "\n"]
<1>10. ~Unended(step) /\ \E ring : Whole(DeliveredOf(inline, t \o text), ring) /\ Follows(step, inline, ring)
  <2>1. Whole(t \o d, <<key>> \o keys)
    BY <1>4, <1>7, RingsJoin
  <2>2. Follows(step, inline, <<key>> \o keys)
    BY <1>4, <1>9 DEF Follows
  <2>3. ~Unended(step)
    BY DEF Unended
  <2> QED BY <1>8, <2>1, <2>2, <2>3
<1>11. PICK st : st = step
  OBVIOUS
<1> HIDE DEF step
<1>12. Changed("first", line, t \o text)
  BY <1>1, <1>5
<1>13. ~Unended(st) /\ \E ring : Whole(DeliveredOf(inline, t \o text), ring) /\ Follows(st, inline, ring)
  BY <1>10, <1>11
<1> QED BY <1>11, <1>12, <1>13, ChangedIs DEF step

LEMMA RemoveIs == ASSUME RingInv, RemoveKey PROVE EditInv' /\ RefusedInv'
<1>1. PICK i \in LineStarts(text) :
        ~Ignored(LineFrom(text, i)) /\ Changed("removed", LineFrom(text, i), WithoutLine(text, i))
  BY DEF RemoveKey, WithoutLine
<1>2. PICK short, line : short = WithoutLine(text, i) /\ line = LineFrom(text, i)
  OBVIOUS
<1>3. text \in Str /\ phase = "parsed" /\ next > Len(text)
  BY <1>1 DEF RingInv, Changed
<1>4. Whole(DeliveredOf(inline, text), keys)
  BY <1>3, LoadedIsWhole, DeliveredOfText
<1>5. PICK less :
        /\ Whole(DeliveredOf(inline, short), less)
        /\ \A n \in 1 .. Len(less) : \E m \in 1 .. Len(keys) : less[n] = keys[m]
        /\ ~inline => \E n \in 1 .. Len(keys) : KeysIn(line) = {keys[n]} /\ less = Without(keys, n)
  BY <1>1, <1>2, <1>3, <1>4, RingWithoutLine
<1> DEFINE step == [is |-> "removed", line |-> line, ring |-> keys, closed |-> text[Len(text)] = "\n"]
<1>6. ~Unended(step) /\ Follows(step, inline, less)
  BY <1>5 DEF Follows, Unended
<1>7. PICK st : st = step
  OBVIOUS
<1> HIDE DEF step
<1>8. Changed("removed", line, short)
  BY <1>1, <1>2
<1>9. ~Unended(st) /\ \E ring : Whole(DeliveredOf(inline, short), ring) /\ Follows(st, inline, ring)
  BY <1>5, <1>6, <1>7
<1> QED BY <1>7, <1>8, <1>9, ChangedIs DEF step

-----------------------------------------------------------------------------
LEMMA RotationInit == Init => RotationInv
<1> SUFFICES ASSUME Init PROVE RotationInv
  OBVIOUS
<1>1. edit = [is |-> "none"] /\ phase = "lines"
  BY DEF Init
<1>2. edit.is = "none" /\ phase # "refused"
  BY <1>1
<1> QED BY <1>2, RingInit DEF RotationInv, EditInv, RefusedInv

LEMMA RotationNext == RotationInv /\ [Next]_vars => RotationInv'
<1> SUFFICES ASSUME RotationInv, [Next]_vars PROVE EditInv' /\ RefusedInv'
  BY RingNext DEF RotationInv
<1> USE DEF RotationInv
<1>1. ASSUME UNCHANGED <<text, inline, edit>> PROVE EditInv'
  <2>1. Delivered' = Delivered
    BY <1>1 DEF Delivered
  <2> QED BY <1>1, <2>1 DEF EditInv
<1>2. CASE SkipLine
  <2>1. UNCHANGED <<text, inline, edit, phase>> /\ phase = "lines"
    BY <1>2 DEF SkipLine, AtLine
  <2> QED BY <1>1, <2>1 DEF RefusedInv
<1>3. CASE TakeKey
  <2>1. UNCHANGED <<text, inline, edit, phase>> /\ phase = "lines"
    BY <1>3 DEF TakeKey, AtLine
  <2> QED BY <1>1, <2>1 DEF RefusedInv
<1>4. CASE RefuseLine
  <2>1. UNCHANGED <<text, inline, edit>>
    BY <1>4 DEF RefuseLine
  <2> QED BY <1>1, <1>4, <2>1, RefusalIs
<1>5. CASE EndOfText
  <2>1. UNCHANGED <<text, inline, edit>>
    BY <1>5 DEF EndOfText
  <2> QED BY <1>1, <1>5, <2>1, EndIs
<1>6. CASE AppendKey
  BY <1>6, AppendIs
<1>7. CASE PrependKey
  BY <1>7, PrependIs
<1>8. CASE RemoveKey
  BY <1>8, RemoveIs
<1>9. CASE UNCHANGED vars
  <2>1. UNCHANGED <<text, inline, edit, phase>>
    BY <1>9 DEF vars
  <2>2. Delivered' = Delivered
    BY <2>1 DEF Delivered
  <2> QED BY <1>1, <2>1, <2>2 DEF RefusedInv
<1> QED BY <1>2, <1>3, <1>4, <1>5, <1>6, <1>7, <1>8, <1>9 DEF Next

(* A ring that loses a key has no kid twice if it had none twice.          *)
LEMMA WithoutDistinct ==
    ASSUME NEW ring \in Seq(Key), NEW n \in 1 .. Len(ring), Distinct(ring)
    PROVE  Distinct(Without(ring, n))
<1>1. PICK w : w = Without(ring, n)
  OBVIOUS
<1>2. /\ Len(w) = Len(ring) - 1 /\ Len(ring) \in Nat
      /\ \A k \in 1 .. (Len(ring) - 1) : w[k] = IF k < n THEN ring[k] ELSE ring[k + 1]
  BY <1>1, WithoutIs, SMTT(60)
<1> DEFINE was(k) == IF k < n THEN k ELSE k + 1
<1>3. \A k \in 1 .. Len(w) : was(k) \in 1 .. Len(ring) /\ w[k] = ring[was(k)]
  BY <1>2
<1>4. \A j, k \in 1 .. Len(w) : j # k => was(j) # was(k)
  BY <1>2
<1> HIDE DEF was
<1>5. ASSUME NEW j \in 1 .. Len(w), NEW k \in 1 .. Len(w), j # k PROVE w[j].kid # w[k].kid
  BY <1>3, <1>4, <1>5 DEF Distinct
<1> QED BY <1>1, <1>5 DEF Distinct

(* A key that makes a ring have a kid twice has the kid of a key of it.    *)
LEMMA TakenIs ==
    ASSUME NEW old \in Seq(Key), Distinct(old), NEW key \in Key,
           ~Distinct(Append(old, key)) \/ ~Distinct(<<key>> \o old)
    PROVE  Taken(old, key.kid)
<1> SUFFICES ASSUME \A n \in 1 .. Len(old) : old[n].kid # key.kid PROVE FALSE
  BY DEF Taken
<1>1. Len(old) \in Nat /\ \A m, n \in 1 .. Len(old) : m # n => old[m].kid # old[n].kid
  BY SMTT(60) DEF Distinct
<1>2. PICK l, r : l = Append(old, key) /\ r = <<key>> \o old
  OBVIOUS
<1>3. Len(l) = Len(old) + 1 /\ (\A n \in 1 .. Len(old) : l[n] = old[n]) /\ l[Len(old) + 1] = key
  BY <1>2, AppendProperties
<1>4. Len(r) = Len(old) + 1 /\ r[1] = key /\ \A n \in 1 .. Len(old) : r[n + 1] = old[n]
  <2>1. PICK one : one = <<key>>
    OBVIOUS
  <2>2. one \in Seq(Key) /\ Len(one) = 1 /\ one[1] = key
    BY <2>1
  <2>3. /\ Len(r) = Len(one) + Len(old)
        /\ \A n \in 1 .. Len(one) : r[n] = one[n]
        /\ \A n \in 1 .. Len(old) : r[Len(one) + n] = old[n]
    BY <1>2, <2>1, <2>2, JoinedIs
  <2>4. 1 \in 1 .. 1 /\ \A n \in 1 .. Len(old) : 1 + n = n + 1
    BY <1>1
  <2> QED BY <1>1, <2>2, <2>3, <2>4
<1>5. Distinct(l)
  <2>1. \A n \in 1 .. Len(l) : n \in 1 .. Len(old) \/ n = Len(old) + 1
    BY <1>1, <1>3
  <2> QED BY <1>1, <1>3, <2>1 DEF Distinct
<1>6. Distinct(r)
  <2>1. \A n \in 1 .. Len(r) : n = 1 \/ (n - 1 \in 1 .. Len(old) /\ (n - 1) + 1 = n)
    BY <1>1, <1>4
  <2>2. \A n \in 1 .. Len(r) : n = 1 \/ (n - 1 \in 1 .. Len(old) /\ r[n] = old[n - 1])
    BY <1>4, <2>1
  <2>3. \A m, n \in 1 .. Len(r) : m # n => m - 1 # n - 1
    BY <1>1, <1>4
  <2>4. ASSUME NEW m \in 1 .. Len(r), NEW n \in 1 .. Len(r), m # n PROVE r[m].kid # r[n].kid
    <3>1. CASE m = 1
      BY <1>4, <2>2, <2>4, <3>1
    <3>2. CASE n = 1
      BY <1>4, <2>2, <2>4, <3>2
    <3>3. CASE m # 1 /\ n # 1
      BY <1>1, <2>2, <2>3, <2>4, <3>3
    <3> QED BY <3>1, <3>2, <3>3
  <2> QED BY <2>4 DEF Distinct
<1> QED BY <1>2, <1>5, <1>6

(* What loads of a text starts with what its closed first part holds.      *)
LEMMA FirstPartLoads ==
    ASSUME NEW a \in Str, NEW b \in Str, Closed(a), NEW r, Whole(a, r),
           NEW ring, Whole(a \o b, ring), NEW n \in 1 .. Len(r)
    PROVE  n \in 1 .. Len(ring) /\ ring[n] = r[n]
<1>1. PICK k, l : Whole(a, k) /\ Whole(b, l) /\ ring = k \o l
  BY RingSplits
<1>2. k = r
  BY <1>1, WholeUnique
<1>3. k \in Seq(Key) /\ l \in Seq(Key)
  BY <1>1, WholeParts
<1>4. /\ Len(ring) = Len(k) + Len(l) /\ Len(k) \in Nat /\ Len(l) \in Nat
      /\ \A m \in 1 .. Len(k) : ring[m] = k[m]
  BY <1>1, <1>3, JoinedIs
<1> QED BY <1>2, <1>4

LEMMA RotationIsKept == RotationInv => RotationKeepsKeys
<1> SUFFICES ASSUME RotationInv, edit.is # "none"
             PROVE  AddsItsKey /\ OthersStay /\ TakesItsKey /\ AddsNone
  <2>1. CASE edit.is = "none"
    BY <2>1 DEF RotationKeepsKeys, AddsItsKey, OthersStay, TakesItsKey, AddsNone
  <2> QED BY <2>1 DEF RotationKeepsKeys
<1>1. PICK old : old = edit.ring
  OBVIOUS
<1>2. /\ edit.is \in {"last", "first", "removed"}
      /\ old \in Seq(Key) /\ old # << >> /\ Distinct(old)
      /\ Unended(edit) => Begins(old, Delivered)
      /\ ~Unended(edit) => \E ring : Whole(Delivered, ring) /\ Follows(edit, inline, ring)
  BY <1>1 DEF RotationInv, EditInv
<1>3. Len(old) \in Nat /\ Len(old) # 0 /\ DOMAIN old = 1 .. Len(old)
  BY <1>2, EmptySeq
<1>4. Delivered \in Str
  BY DeliveredIs DEF RotationInv, RingInv
<1>5. ASSUME phase = "parsed"
      PROVE  keys \in Seq(Key) /\ Whole(Delivered, keys) /\ DOMAIN keys = 1 .. Len(keys)
  <2>1. next > Len(text) /\ keys \in Seq(Key)
    BY <1>5 DEF RotationInv, RingInv
  <2> QED BY <1>5, <2>1, LoadedIsWhole DEF RotationInv
<1>6. CASE Unended(edit)
  <2>0. PICK a \in Str, b \in Str : \E r : Delivered = a \o b /\ Closed(a) /\ Whole(a, r) /\ AllButLast(old, r)
    BY <1>2, <1>6 DEF Begins
  <2>1. PICK r : Delivered = a \o b /\ Closed(a) /\ Whole(a, r) /\ AllButLast(old, r)
    BY <2>0
  <2>2. ASSUME phase = "parsed", NEW n \in 1 .. (Len(old) - 1)
        PROVE  n \in DOMAIN keys /\ keys[n] = old[n]
    <3>1. Whole(a \o b, keys)
      BY <1>5, <2>1, <2>2
    <3>2. n \in 1 .. Len(r) /\ r[n] = old[n]
      BY <2>1, <2>2 DEF AllButLast
    <3>3. n \in 1 .. Len(keys) /\ keys[n] = r[n]
      BY <2>1, <3>1, <3>2, FirstPartLoads
    <3> QED BY <1>5, <2>2, <3>2, <3>3
  <2>3. OthersStay
    BY <1>1, <2>2 DEF OthersStay
  <2> QED BY <1>6, <2>3 DEF Unended, AddsItsKey, TakesItsKey, AddsNone
<1>7. CASE ~Unended(edit)
  <2>1. PICK ring : Whole(Delivered, ring) /\ Follows(edit, inline, ring)
    BY <1>2, <1>7
  <2>2. ASSUME phase = "parsed" PROVE keys = ring
    BY <1>4, <1>5, <2>1, <2>2, WholeUnique
  <2>3. ASSUME phase = "refused" PROVE ring = << >> \/ ~Distinct(ring)
    BY <2>1, <2>3 DEF RotationInv, RefusedInv
  <2>4. ring \in Seq(Key) /\ DOMAIN ring = 1 .. Len(ring)
    <3>1. ring \in Seq(Key)
      BY <1>4, <2>1, WholeParts
    <3> QED BY <3>1
  <2>5. CASE edit.is = "last"
    <3>1. PICK key \in KeysIn(edit.line) : key \in Key /\ ring = Append(old, key)
      BY <1>1, <2>1, <2>5 DEF Follows
    <3>2. ring # << >> /\ \A n \in 1 .. Len(old) : ring[n] = old[n] /\ n \in 1 .. Len(ring)
      BY <1>2, <1>3, <3>1, AppendProperties
    <3>3. phase = "refused" => Taken(old, key.kid)
      BY <1>2, <2>3, <3>1, <3>2, TakenIs
    <3>4. AddsItsKey
      BY <1>1, <2>2, <2>5, <3>1, <3>3 DEF AddsItsKey
    <3>5. \A n \in 1 .. (Len(old) - 1) : n \in 1 .. Len(old)
      BY <1>3
    <3>6. OthersStay
      BY <1>1, <2>2, <2>4, <3>2, <3>5 DEF OthersStay
    <3> QED BY <2>5, <3>4, <3>6 DEF TakesItsKey, AddsNone
  <2>6. CASE edit.is = "first"
    <3>1. PICK key \in KeysIn(edit.line) : key \in Key /\ ring = <<key>> \o old
      BY <1>1, <2>1, <2>6 DEF Follows
    <3>2. ring # << >>
      <4>1. PICK one : one = <<key>>
        OBVIOUS
      <4>2. one \in Seq(Key) /\ Len(one) = 1
        BY <3>1, <4>1
      <4>3. Len(ring) = Len(one) + Len(old)
        BY <1>2, <3>1, <4>1, <4>2, JoinedIs
      <4>4. Len(ring) # 0
        BY <1>3, <4>2, <4>3
      <4> QED BY <2>4, <4>4
    <3>3. phase = "refused" => Taken(old, key.kid)
      BY <1>2, <2>3, <3>1, <3>2, TakenIs
    <3>4. AddsItsKey
      BY <1>1, <2>2, <2>6, <3>1, <3>3 DEF AddsItsKey
    <3> QED BY <2>6, <3>4 DEF OthersStay, TakesItsKey, AddsNone
  <2>7. CASE edit.is = "removed"
    <3>1. \A n \in 1 .. Len(ring) : \E m \in 1 .. Len(old) : ring[n] = old[m]
      BY <1>1, <2>1, <2>7 DEF Follows
    <3>2. AddsNone
      BY <1>1, <1>3, <2>2, <2>4, <3>1 DEF AddsNone
    <3>3. ASSUME ~inline
          PROVE  \E n \in DOMAIN old :
                   /\ KeysIn(edit.line) = {old[n]}
                   /\ phase = "parsed" => keys = Without(old, n)
                   /\ phase = "refused" => Len(old) = 1
      <4>1. PICK n \in 1 .. Len(old) : KeysIn(edit.line) = {old[n]} /\ ring = Without(old, n)
        BY <1>1, <2>1, <2>7, <3>3 DEF Follows
      <4>2. Distinct(ring) /\ Len(ring) = Len(old) - 1
        BY <1>2, <4>1, WithoutDistinct, WithoutIs
      <4>3. ASSUME phase = "refused" PROVE Len(old) = 1
        <5>1. Len(ring) = 0
          BY <2>3, <4>2, <4>3, EmptySeq
        <5>2. Len(old) \in Nat /\ Len(ring) = Len(old) - 1
          BY <1>3, <4>2
        <5> QED BY ONLY <5>1, <5>2
      <4> QED BY <1>3, <2>2, <4>1, <4>3
    <3>4. TakesItsKey
      BY <1>1, <3>3 DEF TakesItsKey
    <3> QED BY <2>7, <3>2, <3>4 DEF AddsItsKey, OthersStay
  <2> QED BY <1>2, <2>5, <2>6, <2>7
<1> QED BY <1>6, <1>7

(* What the README says of a rotation holds for a keyring of any length    *)
(* (README.md:481-482): a line that keygen prints adds its key behind or   *)
(* in front and changes no other, a line removed takes its own key away    *)
(* and leaves the others, and the changed ring is refused only for a kid   *)
(* that it has already, or because its last key is gone. Behind a line     *)
(* that is not ended, every key but the last is what it was.               *)
THEOREM KeyringRotation == Spec => []RotationKeepsKeys
<1>1. Spec => []RotationInv
  BY RotationInit, RotationNext, PTL DEF Spec
<1> QED BY <1>1, RotationIsKept, PTL
=============================================================================
