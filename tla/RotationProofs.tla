--------------------------- MODULE RotationProofs ---------------------------
(***************************************************************************)
(* What holds of a life with a keyring for any number of shells, kids,     *)
(* entries and scenes, and any number of edits: info agrees with seal; a   *)
(* reference keeps its secret and its key, and opens.                      *)
(***************************************************************************)
EXTENDS Rotation, SequenceTheorems, TLAPS

Stage == {"idle", "detect", "load", "work", "write", "done"}

RefOrNone == Ref \cup {NoRef}

Shapes ==
    /\ scene \in Scenes
    /\ given \in scene.given
    /\ there \in BOOLEAN
    /\ lines \in [KeySource -> Seq(KeyLine)]
    /\ edits \in Nat
    /\ keygens \in Nat
    /\ file \in [Slot -> RefOrNone]
    /\ DOMAIN meant = Slot
    /\ job \in [Shell -> Job]
    /\ at \in [Shell -> Stage]
    /\ source \in [Shell -> KeySource \cup {"none"}]
    /\ ring \in [Shell -> Seq(KeyLine)]
    /\ seen \in [Shell -> [Slot -> RefOrNone]]
    /\ began \in [Shell -> Nat]
    /\ DOMAIN out = Shell

Running(p) == at[p] \in {"detect", "load", "work", "write"}

(* A command is one that its shell is there for.                           *)
OnDuty(p) ==
    /\ began[p] <= edits
    /\ at[p] # "idle" => job[p] \in scene.duty[p]
    /\ at[p] = "write" => job[p].cmd = "rewrap"
    /\ at[p] = "load" => source[p] \in KeySource
    /\ at[p] = "work" => ring[p] # << >>
    /\ at[p] # "idle" /\ job[p].cmd = "unseal" => seen[p][job[p].slot] # NoRef

(* What the first source present gives, and what info makes of it.         *)
Loaded == Parsed(Head(Present))

Report ==
    IF Present = << >>
    THEN [exit |-> 0, source |-> "none", ignored |-> << >>, keys |-> << >>]
    ELSE [exit |-> IF Loaded = << >> THEN 2 ELSE 0, source |-> Head(Present),
          ignored |-> Tail(Present), keys |-> Loaded]

ByDefault(p) ==
    IF Present = << >> THEN source[p] = "none" /\ out[p].exit = 1
    ELSE /\ source[p] = Head(Present)
         /\ IF Loaded = << >> THEN out[p].exit = 1
            ELSE out[p].exit = 0 /\ out[p].ref.kid = Loaded[1].kid

Opened(p) ==
    LET ref == seen[p][job[p].slot]
    IN  \/ out[p].exit = 0 /\ out[p].text = ref.text
        \/ ref.text \in Binary
        \/ TwoWithOneKid(lines[source[p]])

(* Who has seen no edit since the start sees the keyring as it is.         *)
Undisturbed(p) ==
    began[p] = edits =>
        /\ at[p] = "detect" => source[p] = "none"
        /\ at[p] \in {"load", "work"} =>
              /\ Present # << >>
              /\ source[p] = Head(Present)
              /\ out[p] = [exit |-> 0, ignored |-> Tail(Present)]
        /\ at[p] = "work" => ring[p] = Loaded /\ Loaded # << >>
        /\ at[p] = "done" =>
              /\ job[p].cmd = "info" => out[p] = Report
              /\ job[p].cmd = "seal" /\ job[p].default => ByDefault(p)
              /\ job[p].cmd = "unseal" => "default" \in scene.moves \/ Opened(p)

KeyOf(ref) == [kid |-> ref.kid, key |-> ref.key]

(* The keyring that is used has the line, and no older one with its kid:   *)
(* the line is not the one that goes when two have one kid.                *)
Among(line, keys) == \E n \in DOMAIN keys : keys[n] = line

Eldest(line, keys) ==
    /\ Among(line, keys)
    /\ \A n \in DOMAIN keys : keys[n].kid = line.kid => line.key <= keys[n].key

Holds(line) == Present # << >> /\ Eldest(line, lines[Head(Present)])

(* No line is younger than the last keygen.                                *)
Numbered == \A s \in KeySource : \A n \in DOMAIN lines[s] : lines[s][n].key <= keygens

(* Whoever runs has loaded, and seen, nothing that has left the keyring.   *)
Backed(p) ==
    /\ at[p] \in {"load", "work", "write"} => Present # << >> /\ source[p] = Head(Present)
    /\ \A n \in DOMAIN ring[p] : at[p] \in {"work", "write"} => Holds(ring[p][n])
    /\ Running(p) => \A s \in Slot : seen[p][s] # NoRef => Holds(KeyOf(seen[p][s]))

InKeyring == \A s \in Slot : file[s] # NoRef => Holds(KeyOf(file[s]))

KeysKept == "default" \notin scene.moves => ~there /\ InKeyring /\ \A p \in Shell : Backed(p)

TextsKept ==
    /\ \A s \in Slot : file[s] # NoRef => file[s].text = meant[s]
    /\ \A p \in Shell : at[p] = "write" => seen[p] = file

RotationInv ==
    /\ Shapes
    /\ \A p \in Shell : OnDuty(p) /\ Undisturbed(p)
    /\ Numbered
    /\ KeysKept
    /\ OneEditor => TextsKept

-----------------------------------------------------------------------------
(* Of the commands and of the sources.                                     *)
LEMMA JobFields ==
    ASSUME NEW j \in Job
    PROVE  /\ j.cmd \in {"seal", "unseal", "rewrap", "info"}
           /\ j.cmd \in {"seal", "unseal"} => j.slot \in Slot
           /\ j.cmd = "seal" => j.text \in Plaintext
  BY DEF Job

LEMMA PresentSeq ==
    /\ Present \in Seq(KeySource)
    /\ ~there => Present \in Seq(KeySource \ {"default"})
<1>1. ASSUME NEW S, NEW s, NEW b, b => s \in S
      PROVE  Listed(s, b) \in Seq(S)
  <2>1. << >> \in Seq(S) /\ (b => <<s>> \in Seq(S))
    BY <1>1
  <2>2. Listed(s, b) = IF b THEN <<s>> ELSE << >>
    BY DEF Listed
  <2> QED BY <2>1, <2>2, Zenon
<1>2. ASSUME NEW S, NEW s \in Seq(S), NEW t \in Seq(S)
      PROVE  s \o t \in Seq(S)
  BY ConcatProperties
<1>3. ASSUME NEW S, "fd" \in S, "file" \in S, there => "default" \in S, "inline" \in S
      PROVE  Present \in Seq(S)
  <2>1. /\ Listed("fd", "fd" \in given) \in Seq(S)
        /\ Listed("file", "file" \in given) \in Seq(S)
        /\ Listed("default", there) \in Seq(S)
        /\ Listed("inline", "inline" \in given) \in Seq(S)
    BY <1>1, <1>3, Zenon
  <2> QED BY <1>2, <2>1, Zenon DEF Present
<1>4. {"fd", "file", "default", "inline"} = KeySource
  BY DEF KeySource
<1>5. Present \in Seq(KeySource)
  BY <1>3, <1>4
<1>6. ASSUME ~there PROVE Present \in Seq(KeySource \ {"default"})
  <2>1. PICK S : S = KeySource \ {"default"}
    OBVIOUS
  <2>2. "fd" \in S /\ "file" \in S /\ "inline" \in S
    BY <1>4, <2>1
  <2> QED BY <1>3, <1>6, <2>1, <2>2
<1> QED BY <1>5, <1>6

LEMMA FirstPresent ==
    ASSUME Present # << >>
    PROVE  /\ Head(Present) \in KeySource
           /\ ~there => Head(Present) # "default"
           /\ \A n \in DOMAIN Present :
                 \/ Present[n] = Head(Present)
                 \/ \E m \in DOMAIN Tail(Present) : Tail(Present)[m] = Present[n]
<1> DEFINE s == Present
<1>1. s \in Seq(KeySource) /\ s # << >>
  BY PresentSeq
<1> HIDE DEF s
<1>2. /\ Head(s) \in KeySource
      /\ Tail(s) \in Seq(KeySource)
      /\ Len(Tail(s)) = Len(s) - 1
      /\ \A i \in 1 .. Len(Tail(s)) : Tail(s)[i] = s[i + 1]
  BY <1>1, HeadTailProperties
<1>3. Head(s) = s[1]
  BY <1>1
<1>4. ASSUME NEW n \in DOMAIN s
      PROVE  s[n] = Head(s) \/ \E m \in DOMAIN Tail(s) : Tail(s)[m] = s[n]
  <2>1. n \in 1 .. Len(s) /\ Len(s) \in Nat /\ DOMAIN Tail(s) = 1 .. Len(Tail(s))
    BY <1>1, <1>2, <1>4, LenProperties
  <2>2. CASE n = 1
    BY <2>2, <1>3
  <2>3. CASE n # 1
    <3>1. n - 1 \in DOMAIN Tail(s) /\ Tail(s)[n - 1] = s[n]
      BY <2>1, <2>3, <1>2
    <3> QED BY <3>1
  <2> QED BY <2>2, <2>3
<1>5. ~there => Head(Present) # "default"
  <2>1. ~there => Present \in Seq(KeySource \ {"default"})
    BY PresentSeq
  <2> QED BY <2>1
<1> QED BY <1>2, <1>4, <1>5 DEF s

(* What loads is the lines of the source, all of them, under kids that     *)
(* differ, or nothing.                                                     *)
LEMMA ParsedLines ==
    ASSUME Shapes, NEW s \in KeySource
    PROVE  /\ Parsed(s) \in Seq(KeyLine)
           /\ Parsed(s) = << >> \/ Parsed(s) = lines[s]
           /\ \A i, j \in DOMAIN Parsed(s) : Parsed(s)[i].kid = Parsed(s)[j].kid => i = j
<1>1. lines[s] \in Seq(KeyLine)
  BY DEF Shapes
<1>2. << >> \in Seq(KeyLine)
  OBVIOUS
<1>3. CASE Parsed(s) = << >>
  BY <1>2, <1>3
<1>4. CASE Parsed(s) # << >>
  BY <1>1, <1>4 DEF Parsed, TwoWithOneKid
<1> QED BY <1>3, <1>4

LEMMA ParsedEldest ==
    ASSUME Shapes, NEW s \in KeySource, NEW n \in DOMAIN Parsed(s)
    PROVE  Eldest(Parsed(s)[n], Parsed(s))
<1>1. PICK keys : keys = Parsed(s)
  OBVIOUS
<1>2. keys \in Seq(KeyLine) /\ \A i, j \in DOMAIN keys : keys[i].kid = keys[j].kid => i = j
  BY <1>1, ParsedLines
<1>3. n \in DOMAIN keys /\ keys[n] \in KeyLine
  BY <1>1, <1>2
<1>4. keys[n].key \in Nat
  BY <1>3 DEF KeyLine
<1>5. \A m \in DOMAIN keys : keys[m].kid = keys[n].kid => keys[n].key <= keys[m].key
  BY <1>2, <1>3, <1>4
<1> QED BY <1>1, <1>3, <1>5 DEF Eldest, Among

(* A line that stays, where none is added, stays the oldest one.           *)
LEMMA EldestStays ==
    ASSUME NEW keys, NEW newKeys, NEW line, Eldest(line, keys), Among(line, newKeys),
           \A n \in DOMAIN newKeys : Among(newKeys[n], keys)
    PROVE  Eldest(line, newKeys)
  BY DEF Eldest, Among

-----------------------------------------------------------------------------
(* A command changes its own shell's state, and none of the keyring's.     *)
Elsewhere(p) ==
    \A q \in Shell : q # p =>
        /\ at'[q] = at[q] /\ job'[q] = job[q] /\ source'[q] = source[q]
        /\ ring'[q] = ring[q] /\ seen'[q] = seen[q] /\ began'[q] = began[q]
        /\ out'[q] = out[q]

LEMMA ExitShapes ==
    ASSUME Shapes, NEW p \in Shell, NEW r, Exit(p, r)
    PROVE  /\ at' \in [Shell -> Stage] /\ ring' \in [Shell -> Seq(KeyLine)] /\ DOMAIN out' = Shell
           /\ at'[p] = "done" /\ ring'[p] = << >> /\ out'[p] = r
           /\ \A q \in Shell : q # p => at'[q] = at[q] /\ ring'[q] = ring[q] /\ out'[q] = out[q]
<1>1. at \in [Shell -> Stage] /\ ring \in [Shell -> Seq(KeyLine)] /\ DOMAIN out = Shell
  BY DEF Shapes
<1>2. << >> \in Seq(KeyLine) /\ "done" \in Stage
  BY DEF Stage
<1>3. /\ at' = [at EXCEPT ![p] = "done"] /\ ring' = [ring EXCEPT ![p] = << >>]
      /\ out' = [out EXCEPT ![p] = r]
  BY DEF Exit, Set
<1> QED BY <1>1, <1>2, <1>3

LEMMA ElsewhereSame ==
    ASSUME Shapes, NEW p \in Shell, Command(p)
    PROVE  Elsewhere(p) /\ UNCHANGED world
<1> USE DEF Elsewhere
<1>1. /\ at \in [Shell -> Stage] /\ job \in [Shell -> Job] /\ ring \in [Shell -> Seq(KeyLine)]
      /\ source \in [Shell -> KeySource \cup {"none"}]
      /\ seen \in [Shell -> [Slot -> RefOrNone]] /\ began \in [Shell -> Nat]
      /\ DOMAIN out = Shell
  BY DEF Shapes
<1>2. ASSUME NEW j, Run(p, j) PROVE Elsewhere(p) /\ UNCHANGED world
  BY <1>1, <1>2 DEF Run, Set
<1>3. CASE Detect(p)
  <2>1. CASE \E r : Exit(p, r) /\ UNCHANGED source
    BY <1>1, <1>3, <2>1, ExitShapes DEF Detect
  <2>2. CASE ~\E r : Exit(p, r) /\ UNCHANGED source
    BY <1>1, <1>3, <2>2 DEF Detect, Set
  <2> QED BY <2>1, <2>2
<1>4. CASE Load(p)
  <2>1. CASE \E r : Exit(p, r)
    BY <1>1, <1>4, <2>1, ExitShapes DEF Load
  <2>2. CASE ~\E r : Exit(p, r)
    BY <1>1, <1>4, <2>2 DEF Load, Set
  <2> QED BY <2>1, <2>2
<1>5. CASE Info(p)
  BY <1>5, ExitShapes DEF Info
<1>6. CASE Seal(p)
  BY <1>6, ExitShapes DEF Seal, Fail
<1>7. CASE Unseal(p)
  BY <1>7, ExitShapes DEF Unseal, Fail
<1>8. CASE Rewrap(p)
  <2>1. CASE \E r : Exit(p, r)
    BY <1>1, <1>8, <2>1, ExitShapes DEF Rewrap, Set
  <2>2. CASE ~\E r : Exit(p, r)
    BY <1>1, <1>8, <2>2 DEF Rewrap, Set, Fail
  <2> QED BY <2>1, <2>2
<1>9. CASE Write(p)
  BY <1>9, ExitShapes DEF Write
<1> QED BY <1>2, <1>3, <1>4, <1>5, <1>6, <1>7, <1>8, <1>9 DEF Command

(* While nobody edits the keyring, it is the one that it was.              *)
LEMMA SameWorld ==
    ASSUME UNCHANGED world
    PROVE  /\ Present' = Present /\ Loaded' = Loaded /\ Report' = Report
           /\ \A s : Parsed(s)' = Parsed(s)
           /\ \A line : Holds(line)' = Holds(line)
<1>1. Present' = Present
  BY DEF Present, world
<1>2. \A s : Parsed(s)' = Parsed(s)
  BY DEF Parsed, TwoWithOneKid, world
<1>3. Loaded' = Loaded
  BY <1>1, <1>2 DEF Loaded, Parsed, TwoWithOneKid, world
<1>4. Report' = Report
  BY <1>1, <1>3 DEF Report
<1>5. \A line : Holds(line)' = Holds(line)
  BY <1>1 DEF Holds, world
<1> QED BY <1>1, <1>2, <1>3, <1>4, <1>5

(* So the other shells are where they were.                                *)
LEMMA OthersKept ==
    ASSUME Shapes, NEW p \in Shell, Command(p), NEW q \in Shell, q # p
    PROVE  /\ OnDuty(q) => OnDuty(q)'
           /\ Undisturbed(q) => Undisturbed(q)'
           /\ Backed(q) => Backed(q)'
<1>1. /\ at'[q] = at[q] /\ job'[q] = job[q] /\ source'[q] = source[q]
      /\ ring'[q] = ring[q] /\ seen'[q] = seen[q] /\ began'[q] = began[q]
      /\ out'[q] = out[q] /\ scene' = scene /\ edits' = edits /\ UNCHANGED world
  BY ElsewhereSame DEF Elsewhere, world
<1>2. /\ Present' = Present /\ Loaded' = Loaded /\ Report' = Report
      /\ \A s : Parsed(s)' = Parsed(s)
      /\ \A line : Holds(line)' = Holds(line)
  BY <1>1, SameWorld
<1>3. OnDuty(q) => OnDuty(q)'
  BY <1>1 DEF OnDuty, Running
<1>4. ByDefault(q)' = ByDefault(q)
  BY <1>1, <1>2 DEF ByDefault
<1>5. Opened(q)' = Opened(q)
  BY <1>1, <1>2 DEF Opened, TwoWithOneKid, world
<1>6. Undisturbed(q) => Undisturbed(q)'
  BY <1>1, <1>2, <1>4, <1>5 DEF Undisturbed
<1>7. Backed(q) => Backed(q)'
  <2>1. lines' = lines
    BY <1>1 DEF world
  <2>2. (\A n \in DOMAIN ring[q] : at[q] \in {"work", "write"} => Holds(ring[q][n]))
           => (\A n \in DOMAIN ring[q] : at[q] \in {"work", "write"} => Holds(ring[q][n]))'
    BY <1>1, <1>2, <2>1 DEF Holds
  <2>3. (Running(q) => \A s \in Slot : seen[q][s] # NoRef => Holds(KeyOf(seen[q][s])))
           => (Running(q) => \A s \in Slot : seen[q][s] # NoRef => Holds(KeyOf(seen[q][s])))'
    BY <1>1, <1>2, <2>1 DEF Holds, KeyOf, Running
  <2>4. (at[q] \in {"load", "work", "write"} => Present # << >> /\ source[q] = Head(Present))
           => (at[q] \in {"load", "work", "write"} => Present # << >> /\ source[q] = Head(Present))'
    BY <1>1, <1>2, Zenon
  <2> QED BY <2>2, <2>3, <2>4, Zenon DEF Backed
<1> QED BY <1>3, <1>6, <1>7

-----------------------------------------------------------------------------
(* And the one that has taken the step is as far as its stage says.        *)
Own(p) ==
    /\ OnDuty(p)
    /\ Undisturbed(p)
    /\ "default" \notin scene.moves => Backed(p)

LEMMA StageFacts ==
    ASSUME Shapes, NEW p \in Shell
    PROVE  /\ job[p] \in Job /\ ring[p] \in Seq(KeyLine) /\ began[p] \in Nat /\ edits \in Nat
           /\ seen[p] \in [Slot -> RefOrNone] /\ file \in [Slot -> RefOrNone]
           /\ source[p] \in KeySource \cup {"none"}
  BY DEF Shapes

LEMMA RunStep ==
    ASSUME Shapes, KeysKept, NEW p \in Shell, NEW j \in scene.duty[p], Run(p, j)
    PROVE  Shapes' /\ Own(p)'
<1>1. UNCHANGED <<scene, given, there, lines, edits, keygens, file, meant, ring>>
  BY DEF Run, world, contents
<1>2. /\ job' = [job EXCEPT ![p] = j]
      /\ seen' = [seen EXCEPT ![p] = IF j.cmd = "unseal" THEN file ELSE NoFile]
      /\ at' = [at EXCEPT ![p] = "detect"] /\ source' = [source EXCEPT ![p] = "none"]
      /\ out' = [out EXCEPT ![p] = Nothing] /\ began' = [began EXCEPT ![p] = edits]
      /\ j.cmd = "unseal" => file[j.slot] # NoRef
  BY DEF Run, Set
<1>3. j \in Job
  BY RotationAssumption DEF Shapes
<1>4. NoFile \in [Slot -> RefOrNone] /\ \A s \in Slot : NoFile[s] = NoRef
  BY DEF NoFile, RefOrNone
<1>5. Shapes'
  <2>1. job' \in [Shell -> Job] /\ seen' \in [Shell -> [Slot -> RefOrNone]]
    BY <1>2, <1>3, <1>4 DEF Shapes
  <2>2. at' \in [Shell -> Stage] /\ source' \in [Shell -> KeySource \cup {"none"}]
    BY <1>2 DEF Shapes, Stage
  <2>3. DOMAIN out' = Shell /\ began' \in [Shell -> Nat]
    BY <1>2 DEF Shapes
  <2> QED BY <1>1, <2>1, <2>2, <2>3 DEF Shapes
<1>6. /\ at'[p] = "detect" /\ job'[p] = j /\ source'[p] = "none" /\ began'[p] = edits
      /\ seen'[p] = IF j.cmd = "unseal" THEN file ELSE NoFile
  BY <1>2 DEF Shapes
<1>7. OnDuty(p)'
  BY <1>1, <1>2, <1>6, StageFacts DEF OnDuty, Running
<1>8. Undisturbed(p)'
  BY <1>6 DEF Undisturbed
<1>9. ASSUME "default" \notin scene.moves PROVE Backed(p)'
  <2>1. lines' = lines /\ Present' = Present
    BY <1>1 DEF Present
  <2>2. \A s \in Slot : seen'[p][s] # NoRef =>
            Present # << >> /\ Eldest(KeyOf(seen'[p][s]), lines[Head(Present)])
    BY <1>4, <1>6, <1>9 DEF KeysKept, InKeyring, Holds
  <2> QED BY <1>6, <2>1, <2>2 DEF Backed, Holds
<1> QED BY <1>1, <1>5, <1>7, <1>8, <1>9 DEF Own

LEMMA DetectStep ==
    ASSUME Shapes, KeysKept, NEW p \in Shell, Own(p), Detect(p)
    PROVE  Shapes' /\ Own(p)' /\ at'[p] # "write" /\ UNCHANGED contents
<1>1. UNCHANGED <<world, contents, job, seen, began>> /\ at[p] = "detect"
  BY DEF Detect
<1>2. UNCHANGED <<scene, given, there, lines, edits, keygens, file, meant>>
  BY <1>1 DEF world, contents
<1>3. /\ Present' = Present /\ Loaded' = Loaded /\ Report' = Report
      /\ \A s : Parsed(s)' = Parsed(s)
  BY <1>1, SameWorld
<1>4. CASE Present = << >>
  <2>1. PICK r : /\ Exit(p, r) /\ UNCHANGED source
                 /\ r = IF job[p].cmd = "info"
                        THEN [exit |-> 0, source |-> "none", ignored |-> << >>, keys |-> << >>]
                        ELSE [exit |-> 1]
    BY <1>4 DEF Detect
  <2>2. /\ at' \in [Shell -> Stage] /\ ring' \in [Shell -> Seq(KeyLine)] /\ DOMAIN out' = Shell
        /\ at'[p] = "done" /\ ring'[p] = << >> /\ out'[p] = r
    BY <2>1, ExitShapes
  <2>3. Shapes'
    BY <1>1, <1>2, <2>1, <2>2 DEF Shapes
  <2>4. OnDuty(p)' /\ ("default" \notin scene.moves => Backed(p)')
    BY <1>1, <1>2, <2>1, <2>2 DEF Own, OnDuty, Running, Backed
  <2>5. ASSUME began'[p] = edits' PROVE Undisturbed(p)'
    <3>1. source[p] = "none"
      BY <1>1, <1>2, <2>5 DEF Own, Undisturbed
    <3>2. r.exit = 1 \/ job[p].cmd = "info"
      BY <2>1
    <3>3. job[p].cmd = "info" => out'[p] = Report
      BY <1>4, <2>1, <2>2 DEF Report
    <3>4. job[p].cmd = "seal" => ByDefault(p)'
      BY <1>3, <1>4, <2>1, <2>2, <3>1, <3>2 DEF ByDefault
    <3>5. job[p].cmd = "unseal" => "default" \in scene.moves
      <4> SUFFICES ASSUME job[p].cmd = "unseal", "default" \notin scene.moves PROVE FALSE
        OBVIOUS
      <4>1. Running(p)
        BY <1>1 DEF Running
      <4>2. seen[p][job[p].slot] # NoRef /\ job[p].slot \in Slot
        BY <1>1, StageFacts, JobFields DEF Own, OnDuty
      <4>3. Holds(KeyOf(seen[p][job[p].slot]))
        BY <4>1, <4>2 DEF Own, Backed
      <4> QED BY <1>4, <4>3 DEF Holds
    <3> QED BY <1>1, <1>2, <1>3, <2>2, <3>3, <3>4, <3>5 DEF Undisturbed
  <2> QED BY <1>1, <1>2, <2>2, <2>3, <2>4, <2>5 DEF Own, Undisturbed
<1>5. CASE Present # << >>
  <2>1. /\ source' = [source EXCEPT ![p] = Head(Present)] /\ at' = [at EXCEPT ![p] = "load"]
        /\ out' = [out EXCEPT ![p] = [exit |-> 0, ignored |-> Tail(Present)]]
        /\ UNCHANGED ring
    BY <1>5 DEF Detect, Set
  <2>2. Head(Present) \in KeySource
    BY <1>5, FirstPresent
  <2>3. /\ source'[p] = Head(Present) /\ at'[p] = "load"
        /\ out'[p] = [exit |-> 0, ignored |-> Tail(Present)]
    BY <2>1 DEF Shapes
  <2>4. Shapes'
    <3>1. source' \in [Shell -> KeySource \cup {"none"}] /\ at' \in [Shell -> Stage] /\ DOMAIN out' = Shell
      BY <2>1, <2>2 DEF Shapes, Stage
    <3> QED BY <1>1, <1>2, <2>1, <3>1 DEF Shapes
  <2>5. OnDuty(p)'
    BY <1>1, <1>2, <2>1, <2>2, <2>3 DEF Own, OnDuty, Running
  <2>6. Undisturbed(p)'
    BY <1>3, <1>5, <2>3 DEF Undisturbed
  <2>7. ASSUME "default" \notin scene.moves PROVE Backed(p)'
    <3>1. Running(p) /\ at'[p] = "load"
      BY <1>1, <2>3 DEF Running
    <3> QED BY <1>1, <1>2, <1>3, <1>5, <2>3, <2>7, <3>1 DEF Own, Backed, Holds
  <2> QED BY <1>1, <1>2, <2>3, <2>4, <2>5, <2>6, <2>7 DEF Own
<1> QED BY <1>4, <1>5

LEMMA LoadStep ==
    ASSUME Shapes, KeysKept, NEW p \in Shell, Own(p), Load(p)
    PROVE  Shapes' /\ Own(p)' /\ at'[p] # "write" /\ UNCHANGED contents
<1>1. UNCHANGED <<world, contents, job, source, seen, began>> /\ at[p] = "load"
  BY DEF Load
<1>2. UNCHANGED <<scene, given, there, lines, edits, keygens, file, meant>>
  BY <1>1 DEF world, contents
<1>3. /\ Present' = Present /\ Loaded' = Loaded /\ Report' = Report
      /\ \A s : Parsed(s)' = Parsed(s)
  BY <1>1, SameWorld
<1>4. source[p] \in KeySource
  BY <1>1 DEF Own, OnDuty
<1>5. ASSUME began[p] = edits
      PROVE  /\ Present # << >> /\ source[p] = Head(Present)
             /\ out[p].ignored = Tail(Present) /\ Parsed(source[p]) = Loaded
  BY <1>1, <1>5 DEF Own, Undisturbed, Loaded
<1>6. CASE Parsed(source[p]) = << >>
  <2>1. PICK r : /\ Exit(p, r)
                 /\ r = IF job[p].cmd = "info"
                        THEN [exit |-> 2, source |-> source[p], ignored |-> out[p].ignored, keys |-> << >>]
                        ELSE [exit |-> 1]
    BY <1>6 DEF Load
  <2>2. /\ at' \in [Shell -> Stage] /\ ring' \in [Shell -> Seq(KeyLine)] /\ DOMAIN out' = Shell
        /\ at'[p] = "done" /\ ring'[p] = << >> /\ out'[p] = r
    BY <2>1, ExitShapes
  <2>3. Shapes'
    BY <1>1, <1>2, <2>2 DEF Shapes
  <2>4. OnDuty(p)' /\ ("default" \notin scene.moves => Backed(p)')
    BY <1>1, <1>2, <2>1, <2>2 DEF Own, OnDuty, Running, Backed
  <2>5. ASSUME began[p] = edits PROVE Undisturbed(p)'
    <3>1. r.exit = 1 \/ job[p].cmd = "info"
      BY <2>1
    <3>2. job[p].cmd = "info" => out'[p] = Report
      BY <1>5, <1>6, <2>1, <2>2, <2>5 DEF Report
    <3>3. job[p].cmd = "seal" => ByDefault(p)'
      BY <1>1, <1>3, <1>5, <1>6, <2>2, <2>5, <3>1 DEF ByDefault
    <3>4. ASSUME job[p].cmd = "unseal", "default" \notin scene.moves PROVE Opened(p)'
      <4>1. Backed(p) /\ ~there /\ Running(p)
        BY <1>1, <3>4 DEF Own, KeysKept, Running
      <4>2. Present # << >> /\ source[p] = Head(Present)
        BY <1>1, <4>1 DEF Backed
      <4>3. source[p] # "default"
        BY <4>1, <4>2, FirstPresent
      <4>4. Parsed(source[p]) = IF TwoWithOneKid(lines[source[p]]) THEN << >> ELSE lines[source[p]]
        BY <4>3 DEF Parsed
      <4>5. job[p].slot \in Slot /\ seen[p][job[p].slot] # NoRef
        BY <1>1, <3>4, StageFacts, JobFields DEF Own, OnDuty
      <4>6. Among(KeyOf(seen[p][job[p].slot]), lines[source[p]])
        BY <4>1, <4>2, <4>5 DEF Backed, Holds, Eldest
      <4>7. lines[source[p]] # << >>
        BY <4>6 DEF Among
      <4>8. TwoWithOneKid(lines[source[p]])
        BY <1>6, <4>4, <4>7
      <4> QED BY <1>1, <1>2, <4>8 DEF Opened, TwoWithOneKid
    <3> QED BY <1>1, <1>2, <1>3, <2>2, <3>2, <3>3, <3>4 DEF Undisturbed
  <2> QED BY <1>1, <1>2, <2>2, <2>3, <2>4, <2>5 DEF Own, Undisturbed
<1>7. CASE Parsed(source[p]) # << >>
  <2>1. /\ ring' = [ring EXCEPT ![p] = Parsed(source[p])] /\ at' = [at EXCEPT ![p] = "work"]
        /\ UNCHANGED out
    BY <1>7 DEF Load, Set
  <2>2. Parsed(source[p]) \in Seq(KeyLine) /\ Parsed(source[p]) = lines[source[p]]
    BY <1>4, <1>7, ParsedLines
  <2>3. ring'[p] = Parsed(source[p]) /\ at'[p] = "work" /\ out'[p] = out[p]
    BY <2>1 DEF Shapes
  <2>4. Shapes'
    <3>1. ring' \in [Shell -> Seq(KeyLine)] /\ at' \in [Shell -> Stage]
      BY <2>1, <2>2 DEF Shapes, Stage
    <3> QED BY <1>1, <1>2, <2>1, <3>1 DEF Shapes
  <2>5. OnDuty(p)'
    BY <1>1, <1>2, <1>7, <2>3 DEF Own, OnDuty, Running
  <2>6. Undisturbed(p)'
    BY <1>1, <1>2, <1>3, <1>5, <1>7, <2>3 DEF Undisturbed, Own
  <2>7. ASSUME "default" \notin scene.moves PROVE Backed(p)'
    <3>1. Running(p) /\ Present # << >> /\ source[p] = Head(Present)
      BY <1>1, <2>7 DEF Running, Own, Backed
    <3>2. \A n \in DOMAIN ring'[p] : Eldest(ring'[p][n], lines[Head(Present)])
      BY <1>4, <2>2, <2>3, <3>1, ParsedEldest
    <3> QED BY <1>1, <1>2, <1>3, <2>3, <2>7, <3>1, <3>2 DEF Own, Backed, Holds
  <2> QED BY <1>1, <1>2, <2>3, <2>4, <2>5, <2>6, <2>7 DEF Own
<1> QED BY <1>6, <1>7

LEMMA InfoStep ==
    ASSUME Shapes, KeysKept, NEW p \in Shell, Own(p), Info(p)
    PROVE  Shapes' /\ Own(p)' /\ at'[p] # "write" /\ UNCHANGED contents
<1>1. /\ UNCHANGED <<world, contents, job, source, seen, began>> /\ at[p] = "work" /\ job[p].cmd = "info"
      /\ Exit(p, [exit |-> 0, source |-> source[p], ignored |-> out[p].ignored, keys |-> ring[p]])
  BY DEF Info
<1>2. UNCHANGED <<scene, given, there, lines, edits, keygens, file, meant>>
  BY <1>1 DEF world, contents
<1>3. /\ at' \in [Shell -> Stage] /\ ring' \in [Shell -> Seq(KeyLine)] /\ DOMAIN out' = Shell
      /\ at'[p] = "done" /\ ring'[p] = << >>
      /\ out'[p] = [exit |-> 0, source |-> source[p], ignored |-> out[p].ignored, keys |-> ring[p]]
  BY <1>1, ExitShapes
<1>4. Shapes'
  BY <1>1, <1>2, <1>3 DEF Shapes
<1>5. OnDuty(p)' /\ ("default" \notin scene.moves => Backed(p)')
  BY <1>1, <1>2, <1>3 DEF Own, OnDuty, Running, Backed
<1>6. ASSUME began[p] = edits PROVE out'[p] = Report'
  <2>1. Report' = Report
    BY <1>1, SameWorld
  <2>2. /\ Present # << >> /\ source[p] = Head(Present)
        /\ out[p] = [exit |-> 0, ignored |-> Tail(Present)] /\ ring[p] = Loaded /\ Loaded # << >>
    BY <1>1, <1>6 DEF Own, Undisturbed
  <2> QED BY <1>3, <2>1, <2>2 DEF Report
<1>7. Undisturbed(p)'
  BY <1>1, <1>2, <1>3, <1>6 DEF Undisturbed
<1> QED BY <1>1, <1>2, <1>3, <1>4, <1>5, <1>7 DEF Own

(* The lines a command may take are lines it has loaded.                   *)
LEMMA FoundLines ==
    ASSUME Shapes, NEW p \in Shell, NEW kid, NEW line,
           \/ line \in Found(ring[p], kid)
           \/ line \in DefaultKey(ring[p]) /\ ring[p] # << >>
    PROVE  line \in KeyLine /\ \E n \in DOMAIN ring[p] : ring[p][n] = line
<1>1. ring[p] \in Seq(KeyLine)
  BY DEF Shapes
<1>2. \E n \in DOMAIN ring[p] : ring[p][n] = line
  <2>1. CASE line \in Found(ring[p], kid)
    BY <2>1 DEF Found
  <2>2. CASE line \in DefaultKey(ring[p]) /\ ring[p] # << >>
    <3>1. line = ring[p][1] /\ 1 \in DOMAIN ring[p]
      BY <1>1, <2>2 DEF DefaultKey
    <3> QED BY <3>1
  <2> QED BY <2>1, <2>2
<1> QED BY <1>1, <1>2

LEMMA SealStep ==
    ASSUME Shapes, KeysKept, NEW p \in Shell, Own(p), Seal(p)
    PROVE  /\ Shapes' /\ Own(p)' /\ at'[p] = "done"
           /\ "default" \notin scene.moves => InKeyring'
           /\ \A s \in Slot :
                 file'[s].text = meant'[s] \/ (file'[s] = file[s] /\ meant'[s] = meant[s])
<1>1. /\ UNCHANGED <<world, job, source, seen, began>> /\ at[p] = "work" /\ job[p].cmd = "seal"
  BY DEF Seal
<1>2. UNCHANGED <<scene, given, there, lines, edits, keygens>>
  BY <1>1 DEF world
<1>3. /\ Present' = Present /\ Loaded' = Loaded
  BY <1>1, SameWorld
<1>4. job[p].slot \in Slot /\ job[p].text \in Plaintext /\ ring[p] # << >>
  BY <1>1, StageFacts, JobFields DEF Own, OnDuty
<1>5. ASSUME began[p] = edits
      PROVE  /\ Present # << >> /\ source[p] = Head(Present)
             /\ ring[p] = Loaded /\ Loaded # << >>
  BY <1>1, <1>5 DEF Own, Undisturbed
<1>6. ASSUME NEW r, Exit(p, r), file' \in [Slot -> RefOrNone], DOMAIN meant' = Slot,
             job[p].default /\ began[p] = edits => r.exit = 0 /\ r.ref.kid = Loaded[1].kid
      PROVE  Shapes' /\ Own(p)' /\ at'[p] = "done"
  <2>1. /\ at' \in [Shell -> Stage] /\ ring' \in [Shell -> Seq(KeyLine)] /\ DOMAIN out' = Shell
        /\ at'[p] = "done" /\ ring'[p] = << >> /\ out'[p] = r
    BY <1>6, ExitShapes
  <2>2. Shapes'
    BY <1>1, <1>2, <1>6, <2>1 DEF Shapes
  <2>3. OnDuty(p)' /\ ("default" \notin scene.moves => Backed(p)')
    BY <1>1, <1>2, <2>1 DEF Own, OnDuty, Running, Backed
  <2>4. ASSUME began[p] = edits, job[p].default PROVE ByDefault(p)'
    BY <1>1, <1>3, <1>5, <1>6, <2>1, <2>4 DEF ByDefault
  <2>5. Undisturbed(p)'
    BY <1>1, <1>2, <2>1, <2>4 DEF Undisturbed
  <2> QED BY <1>2, <2>1, <2>2, <2>3, <2>5 DEF Own
<1>7. CASE /\ (IF job[p].default THEN DefaultKey(ring[p]) ELSE Found(ring[p], job[p].kid)) = {}
           /\ Fail(p) /\ UNCHANGED contents
  <2>1. ~job[p].default
    BY <1>7 DEF DefaultKey
  <2>2. file' = file /\ meant' = meant
    BY <1>7 DEF contents
  <2>3. file' \in [Slot -> RefOrNone] /\ DOMAIN meant' = Slot
    BY <2>2 DEF Shapes
  <2>4. Shapes' /\ Own(p)' /\ at'[p] = "done"
    BY <1>6, <1>7, <2>1, <2>3 DEF Fail
  <2>5. "default" \notin scene.moves => InKeyring'
    BY <1>2, <1>3, <2>2 DEF KeysKept, InKeyring, Holds
  <2> QED BY <2>2, <2>4, <2>5
<1>8. ASSUME NEW line \in IF job[p].default THEN DefaultKey(ring[p]) ELSE Found(ring[p], job[p].kid),
             NEW plain \in Plaintext, NEW ref, ref = [kid |-> line.kid, key |-> line.key, text |-> plain],
             Exit(p, [exit |-> 0, ref |-> ref]),
             file' = [file EXCEPT ![job[p].slot] = ref],
             meant' = [meant EXCEPT ![job[p].slot] = plain]
      PROVE  /\ Shapes' /\ Own(p)' /\ at'[p] = "done"
             /\ "default" \notin scene.moves => InKeyring'
             /\ \A s \in Slot : file'[s].text = meant'[s] \/ (file'[s] = file[s] /\ meant'[s] = meant[s])
  <2>1. line \in KeyLine /\ \E n \in DOMAIN ring[p] : ring[p][n] = line
    BY <1>4, <1>8, FoundLines
  <2>2. ref \in RefOrNone /\ ref.text = plain /\ KeyOf(ref) = line
    BY <1>8, <2>1 DEF KeyLine, Ref, RefOrNone, KeyOf
  <2>3. file' \in [Slot -> RefOrNone] /\ DOMAIN meant' = Slot
    BY <1>4, <1>8, <2>2 DEF Shapes
  <2>4. job[p].default => line = ring[p][1]
    BY <1>8 DEF DefaultKey
  <2>5. Shapes' /\ Own(p)' /\ at'[p] = "done"
    <3> DEFINE r == [exit |-> 0, ref |-> ref]
    <3>1. Exit(p, r) /\ r.exit = 0 /\ r.ref = ref
      BY <1>8
    <3>2. job[p].default /\ began[p] = edits => r.ref.kid = Loaded[1].kid
      BY <1>5, <1>8, <2>4
    <3> HIDE DEF r
    <3> QED BY <1>6, <2>3, <3>1, <3>2
  <2>6. ASSUME "default" \notin scene.moves, NEW s \in Slot, file'[s] # NoRef
        PROVE  Present # << >> /\ Eldest(KeyOf(file'[s]), lines[Head(Present)])
    <3>1. CASE s = job[p].slot
      <4>1. file'[s] = ref
        BY <1>4, <1>8, <3>1 DEF Shapes
      <4>2. Holds(line)
        BY <1>1, <2>1, <2>6 DEF Own, Backed
      <4> QED BY <2>2, <4>1, <4>2 DEF Holds
    <3>2. CASE s # job[p].slot
      <4>1. file'[s] = file[s]
        BY <1>8, <3>2 DEF Shapes
      <4> QED BY <2>6, <4>1 DEF KeysKept, InKeyring, Holds
    <3> QED BY <3>1, <3>2
  <2>7. "default" \notin scene.moves => InKeyring'
    BY <1>2, <1>3, <2>6 DEF InKeyring, Holds
  <2>8. \A s \in Slot : file'[s].text = meant'[s] \/ (file'[s] = file[s] /\ meant'[s] = meant[s])
    BY <1>4, <1>8, <2>2 DEF Shapes
  <2> QED BY <2>5, <2>7, <2>8
<1>9. \A t \in Plaintext : Trimmed(t) \in Plaintext
  BY RotationAssumption
<1> DEFINE plain == IF job[p].trim THEN Trimmed(job[p].text) ELSE job[p].text
<1>10. plain \in Plaintext
  BY <1>4, <1>9
<1>11. \/ /\ (IF job[p].default THEN DefaultKey(ring[p]) ELSE Found(ring[p], job[p].kid)) = {}
          /\ Fail(p) /\ UNCHANGED contents
       \/ \E line \in IF job[p].default THEN DefaultKey(ring[p]) ELSE Found(ring[p], job[p].kid) :
            LET ref == [kid |-> line.kid, key |-> line.key, text |-> plain]
            IN  /\ Exit(p, [exit |-> 0, ref |-> ref])
                /\ file' = [file EXCEPT ![job[p].slot] = ref]
                /\ meant' = [meant EXCEPT ![job[p].slot] = plain]
  BY Zenon DEF Seal
<1> HIDE DEF plain
<1> QED BY <1>7, <1>8, <1>10, <1>11

LEMMA UnsealStep ==
    ASSUME Shapes, KeysKept, NEW p \in Shell, Own(p), Unseal(p)
    PROVE  Shapes' /\ Own(p)' /\ at'[p] # "write" /\ UNCHANGED contents
<1>1. /\ UNCHANGED <<world, contents, job, source, seen, began>> /\ at[p] = "work" /\ job[p].cmd = "unseal"
  BY DEF Unseal
<1>2. UNCHANGED <<scene, given, there, lines, edits, keygens, file, meant>>
  BY <1>1 DEF world, contents
<1> DEFINE ref == seen[p][job[p].slot]
<1>3. job[p].slot \in Slot /\ ref # NoRef /\ Running(p)
  BY <1>1, StageFacts, JobFields DEF Own, OnDuty, Running
<1>4. PICK r : /\ Exit(p, r)
               /\ \/ r.exit = 0 /\ r.text = ref.text
                  \/ \A line \in Found(ring[p], ref.kid) : ~Opens(ref, line.key)
                  \/ ref.text \in Binary
  <2> DEFINE done == [exit |-> 0, ref |-> ref, text |-> ref.text]
  <2>1. done.exit = 0 /\ done.text = ref.text
    OBVIOUS
  <2>2. \/ Exit(p, done)
        \/ /\ Fail(p)
           /\ \/ \A line \in Found(ring[p], ref.kid) : ~Opens(ref, line.key)
              \/ ref.text \in Binary
    BY DEF Unseal
  <2> HIDE DEF done
  <2> QED BY <2>1, <2>2 DEF Fail
<1> HIDE DEF ref
<1>5. /\ at' \in [Shell -> Stage] /\ ring' \in [Shell -> Seq(KeyLine)] /\ DOMAIN out' = Shell
      /\ at'[p] = "done" /\ ring'[p] = << >> /\ out'[p] = r
  BY <1>4, ExitShapes
<1>6. Shapes'
  BY <1>1, <1>2, <1>5 DEF Shapes
<1>7. OnDuty(p)' /\ ("default" \notin scene.moves => Backed(p)')
  BY <1>1, <1>2, <1>5 DEF Own, OnDuty, Running, Backed
<1>8. ASSUME began[p] = edits, "default" \notin scene.moves PROVE Opened(p)'
  <2>1. Present # << >> /\ ring[p] = Loaded /\ Loaded # << >>
    BY <1>1, <1>8 DEF Own, Undisturbed
  <2>2. ring[p] = lines[Head(Present)]
    BY <2>1, FirstPresent, ParsedLines DEF Loaded
  <2>3. Holds(KeyOf(ref))
    BY <1>3, <1>8 DEF Own, Backed, ref
  <2>4. PICK n \in DOMAIN ring[p] : ring[p][n] = [kid |-> ref.kid, key |-> ref.key]
    BY <2>2, <2>3 DEF Holds, Eldest, Among, KeyOf
  <2>5. ring[p][n] \in Found(ring[p], ref.kid) /\ Opens(ref, ring[p][n].key)
    BY <2>4 DEF Found, Opens
  <2>6. (r.exit = 0 /\ r.text = ref.text) \/ ref.text \in Binary
    <3>1. \E line \in Found(ring[p], ref.kid) : Opens(ref, line.key)
      BY <2>5
    <3> QED BY <1>4, <3>1
  <2>7. out'[p] = r /\ ref = seen'[p][job'[p].slot]
    BY <1>1, <1>5 DEF ref
  <2> QED BY <2>6, <2>7 DEF Opened
<1>9. Undisturbed(p)'
  BY <1>1, <1>2, <1>5, <1>8 DEF Undisturbed
<1> QED BY <1>1, <1>2, <1>5, <1>6, <1>7, <1>9 DEF Own

LEMMA RewrapStep ==
    ASSUME Shapes, KeysKept, NEW p \in Shell, Own(p), Rewrap(p)
    PROVE  Shapes' /\ Own(p)' /\ UNCHANGED contents /\ seen'[p] = file
<1>1. /\ UNCHANGED <<world, contents, job, source, began>> /\ at[p] = "work" /\ job[p].cmd = "rewrap"
      /\ seen' = [seen EXCEPT ![p] = file]
  BY DEF Rewrap, Set
<1>2. UNCHANGED <<scene, given, there, lines, edits, keygens, file, meant>>
  BY <1>1 DEF world, contents
<1>3. seen' \in [Shell -> [Slot -> RefOrNone]] /\ seen'[p] = file
  BY <1>1 DEF Shapes
<1>4. CASE \E r : Exit(p, r)
  <2>1. /\ at' \in [Shell -> Stage] /\ ring' \in [Shell -> Seq(KeyLine)] /\ DOMAIN out' = Shell
        /\ at'[p] = "done" /\ ring'[p] = << >>
    BY <1>4, ExitShapes
  <2>2. Shapes'
    BY <1>1, <1>2, <1>3, <2>1 DEF Shapes
  <2>3. OnDuty(p)' /\ ("default" \notin scene.moves => Backed(p)')
    BY <1>1, <1>2, <2>1 DEF Own, OnDuty, Running, Backed
  <2>4. Undisturbed(p)'
    BY <1>1, <2>1 DEF Undisturbed
  <2> QED BY <1>1, <1>2, <1>3, <2>2, <2>3, <2>4 DEF Own
<1>5. CASE ~\E r : Exit(p, r)
  <2>1. at' = [at EXCEPT ![p] = "write"] /\ UNCHANGED <<ring, out>>
    BY <1>5 DEF Rewrap, Set, Fail
  <2>2. at' \in [Shell -> Stage] /\ at'[p] = "write"
    BY <2>1 DEF Shapes, Stage
  <2>3. Shapes'
    BY <1>1, <1>2, <1>3, <2>1, <2>2 DEF Shapes
  <2>4. OnDuty(p)'
    BY <1>1, <1>2, <2>1, <2>2 DEF Own, OnDuty, Running
  <2>5. Undisturbed(p)'
    BY <2>2 DEF Undisturbed
  <2>6. ASSUME "default" \notin scene.moves PROVE Backed(p)'
    <3>1. Present' = Present /\ lines' = lines
      BY <1>1, <1>2, SameWorld
    <3>2. Present # << >> /\ source[p] = Head(Present)
      BY <1>1, <2>6 DEF Own, Backed
    <3>3. \A n \in DOMAIN ring'[p] : Eldest(ring'[p][n], lines[Head(Present)])
      BY <1>1, <2>1, <2>6 DEF Own, Backed, Holds
    <3>4. \A s \in Slot : seen'[p][s] # NoRef => Eldest(KeyOf(seen'[p][s]), lines[Head(Present)])
      BY <1>3, <2>6 DEF KeysKept, InKeyring, Holds
    <3> QED BY <1>1, <3>1, <3>2, <3>3, <3>4 DEF Backed, Holds
  <2> QED BY <1>1, <1>2, <1>3, <2>3, <2>4, <2>5, <2>6 DEF Own
<1> QED BY <1>4, <1>5

LEMMA WriteStep ==
    ASSUME Shapes, KeysKept, NEW p \in Shell, Own(p), Write(p)
    PROVE  /\ Shapes' /\ Own(p)' /\ at'[p] = "done" /\ meant' = meant
           /\ "default" \notin scene.moves => InKeyring'
           /\ \A s \in Slot : \/ file'[s] = seen[p][s]
                               \/ (seen[p][s] # NoRef /\ file'[s].text = seen[p][s].text)
<1>1. /\ UNCHANGED <<world, meant, job, source, seen, began>> /\ at[p] = "write"
      /\ Exit(p, Nothing)
  BY DEF Write
<1>2. UNCHANGED <<scene, given, there, lines, edits, keygens>>
  BY <1>1 DEF world
<1>3. PICK line \in Found(ring[p], job[p].new) :
        file' = [s \in Slot |->
                    IF Due(seen[p][s], job[p].old) THEN Rewrapped(seen[p][s], line)
                    ELSE seen[p][s]]
  BY DEF Write
<1>4. line \in KeyLine /\ \E n \in DOMAIN ring[p] : ring[p][n] = line
  BY <1>3, FoundLines
<1>5. ASSUME NEW s \in Slot
      PROVE  \/ file'[s] = seen[p][s]
             \/ /\ seen[p][s] # NoRef /\ file'[s] \in Ref
                /\ file'[s].text = seen[p][s].text /\ KeyOf(file'[s]) = line
  <2>1. seen[p][s] \in RefOrNone
    BY DEF Shapes
  <2>2. CASE ~Due(seen[p][s], job[p].old)
    BY <1>3, <2>2
  <2>3. CASE Due(seen[p][s], job[p].old)
    <3>1. seen[p][s] \in Ref /\ seen[p][s] # NoRef
      BY <2>1, <2>3 DEF RefOrNone, Due
    <3>2. file'[s] = [seen[p][s] EXCEPT !.kid = line.kid, !.key = line.key]
      BY <1>3, <2>3 DEF Rewrapped
    <3>3. \A ref \in Ref : LET new == [ref EXCEPT !.kid = line.kid, !.key = line.key]
                          IN  new \in Ref /\ new.text = ref.text /\ KeyOf(new) = line
      BY <1>4 DEF Ref, KeyOf, KeyLine
    <3> QED BY <3>1, <3>2, <3>3
  <2> QED BY <2>2, <2>3
<1>6. file' \in [Slot -> RefOrNone]
  <2>1. \A s \in Slot : file'[s] \in RefOrNone
    BY <1>5 DEF Shapes, RefOrNone
  <2>2. file' = [s \in Slot |-> file'[s]]
    BY <1>3
  <2> QED BY <2>1, <2>2
<1>7. /\ at' \in [Shell -> Stage] /\ ring' \in [Shell -> Seq(KeyLine)] /\ DOMAIN out' = Shell
      /\ at'[p] = "done" /\ ring'[p] = << >>
  BY <1>1, ExitShapes
<1>8. Shapes'
  BY <1>1, <1>2, <1>6, <1>7 DEF Shapes
<1>9. OnDuty(p)' /\ ("default" \notin scene.moves => Backed(p)')
  BY <1>1, <1>2, <1>7 DEF Own, OnDuty, Running, Backed
<1>10. Undisturbed(p)'
  BY <1>1, <1>7 DEF Undisturbed, Own, OnDuty
<1>11. ASSUME "default" \notin scene.moves PROVE InKeyring'
  <2>1. Present' = Present /\ lines' = lines
    BY <1>1, <1>2, SameWorld
  <2>2. Backed(p) /\ Running(p)
    BY <1>1, <1>11 DEF Own, Running
  <2>3. Present # << >> /\ Eldest(line, lines[Head(Present)])
    BY <1>1, <1>4, <2>2 DEF Backed, Holds
  <2>4. \A s \in Slot : seen[p][s] # NoRef => Eldest(KeyOf(seen[p][s]), lines[Head(Present)])
    BY <2>2 DEF Backed, Holds
  <2>5. \A s \in Slot : file'[s] # NoRef => Eldest(KeyOf(file'[s]), lines[Head(Present)])
    BY <1>5, <2>3, <2>4
  <2> QED BY <2>1, <2>3, <2>5 DEF InKeyring, Holds
<1> QED BY <1>1, <1>2, <1>5, <1>7, <1>8, <1>9, <1>10, <1>11 DEF Own

-----------------------------------------------------------------------------
(* The operator. What an edit takes away, nobody has or names, or it was   *)
(* not the oldest line of its kid; and new lines are younger.              *)
LEMMA EditKeeps ==
    ASSUME RotationInv, NEW s \in KeySource, NEW newLines \in Seq(KeyLine), Edited(s, newLines),
           there' \in BOOLEAN, keygens' \in Nat,
           there' = there \/ "default" \in scene.moves,
           keygens <= keygens', \A n \in DOMAIN newLines : newLines[n].key <= keygens',
           \A line : Eldest(line, lines[s]) =>
              \/ Eldest(line, newLines)
              \/ /\ \A p \in Shell : ~Running(p)
                 /\ \A e \in Slot : file[e] # NoRef => KeyOf(file[e]) # line
    PROVE  RotationInv'
<1>1. /\ UNCHANGED <<scene, given, file, meant, job, at, source, ring, seen, began, out>>
      /\ edits' = edits + 1 /\ lines' = [lines EXCEPT ![s] = newLines]
  BY DEF Edited, contents, shells
<1>2. Shapes /\ lines \in [KeySource -> Seq(KeyLine)] /\ edits \in Nat
  BY DEF RotationInv, Shapes
<1>3. lines' \in [KeySource -> Seq(KeyLine)] /\ edits' \in Nat
  BY <1>1, <1>2
<1>4. Shapes'
  BY <1>1, <1>2, <1>3 DEF Shapes
<1>5. ASSUME NEW p \in Shell PROVE OnDuty(p)' /\ Undisturbed(p)'
  <2>1. OnDuty(p) /\ began[p] \in Nat
    BY DEF RotationInv, Shapes
  <2>2. began'[p] < edits'
    BY <1>1, <1>2, <2>1 DEF OnDuty
  <2>3. OnDuty(p)'
    BY <1>1, <2>1, <2>2 DEF OnDuty, Running
  <2>4. began'[p] # edits'
    BY <1>1, <1>3, <2>1, <2>2
  <2> QED BY <2>3, <2>4 DEF Undisturbed
<1>6. ASSUME "default" \notin scene.moves
      PROVE  ~there' /\ InKeyring' /\ \A p \in Shell : Backed(p)'
  <2>1. ~there /\ there' = there /\ InKeyring /\ \A p \in Shell : Backed(p)
    BY <1>6 DEF RotationInv, KeysKept
  <2>2. Present' = Present
    BY <1>1, <2>1 DEF Present
  <2>3. ASSUME NEW line, Holds(line)
        PROVE  \/ Eldest(line, lines'[Head(Present)])
               \/ /\ \A p \in Shell : ~Running(p)
                  /\ \A e \in Slot : file[e] # NoRef => KeyOf(file[e]) # line
    <3>1. Head(Present) \in KeySource /\ Eldest(line, lines[Head(Present)])
      BY <2>3, FirstPresent DEF Holds
    <3>2. CASE Head(Present) # s
      BY <1>1, <1>2, <3>1, <3>2
    <3>3. CASE Head(Present) = s
      <4>1. lines'[s] = newLines
        BY <1>1, <1>2
      <4> QED BY <3>1, <3>3, <4>1
    <3> QED BY <3>2, <3>3
  <2>4. InKeyring'
    <3>1. ASSUME NEW e \in Slot, file[e] # NoRef
          PROVE  Present # << >> /\ Eldest(KeyOf(file[e]), lines'[Head(Present)])
      <4>1. Holds(KeyOf(file[e]))
        BY <2>1, <3>1 DEF InKeyring
      <4>2. Present # << >>
        BY <4>1 DEF Holds
      <4> QED BY <2>3, <3>1, <4>1, <4>2
    <3> QED BY <1>1, <2>2, <3>1 DEF InKeyring, Holds
  <2>5. ASSUME NEW p \in Shell PROVE Backed(p)'
    <3>1. Backed(p) /\ at[p] \in Stage
      BY <1>2, <2>1 DEF Shapes
    <3>2. Running(p) => \A line : Holds(line) => Eldest(line, lines'[Head(Present)])
      BY <2>3
    <3>3. at[p] \in {"load", "work", "write"} => Running(p)
      BY DEF Running
    <3>4. \A n \in DOMAIN ring[p] : at[p] \in {"work", "write"} =>
              Present # << >> /\ Eldest(ring[p][n], lines'[Head(Present)])
      BY <3>1, <3>2, <3>3 DEF Backed, Holds
    <3>5. Running(p) => \A e \in Slot : seen[p][e] # NoRef =>
              Present # << >> /\ Eldest(KeyOf(seen[p][e]), lines'[Head(Present)])
      BY <3>1, <3>2 DEF Backed, Holds
    <3>6. at[p] \in {"load", "work", "write"} => Present # << >> /\ source[p] = Head(Present)
      BY <3>1 DEF Backed
    <3>7. (\A n \in DOMAIN ring[p] : at[p] \in {"work", "write"} => Holds(ring[p][n]))'
      BY <1>1, <2>2, <3>4 DEF Holds
    <3>8. (Running(p) => \A e \in Slot : seen[p][e] # NoRef => Holds(KeyOf(seen[p][e])))'
      BY <1>1, <2>2, <3>5 DEF Holds, Running
    <3> QED BY <1>1, <2>2, <3>6, <3>7, <3>8 DEF Backed
  <2> QED BY <2>1, <2>4, <2>5
<1>7. KeysKept'
  BY <1>1, <1>6 DEF KeysKept
<1>8. TextsKept => TextsKept'
  BY <1>1 DEF TextsKept
<1>9. Numbered'
  <2>1. ASSUME NEW t \in KeySource, NEW n \in DOMAIN lines'[t] PROVE lines'[t][n].key <= keygens'
    <3>1. CASE t = s
      BY <1>1, <1>2, <3>1
    <3>2. CASE t # s
      <4>1. lines'[t] = lines[t]
        BY <1>1, <1>2, <3>2
      <4>2. lines[t][n] \in KeyLine
        BY <1>2, <4>1
      <4>3. lines[t][n].key \in Nat /\ lines[t][n].key <= keygens /\ keygens \in Nat
        BY <1>2, <4>1, <4>2 DEF KeyLine, RotationInv, Numbered, Shapes
      <4> QED BY <4>1, <4>3
    <3> QED BY <3>1, <3>2
  <2> QED BY <2>1 DEF Numbered
<1> QED BY <1>4, <1>5, <1>7, <1>8, <1>9 DEF RotationInv

LEMMA AppendKeeps ==
    ASSUME RotationInv, NEW s \in KeySource, NEW k \in KeyId, AppendLine(s, k)
    PROVE  RotationInv'
<1> DEFINE new == [kid |-> k, key |-> keygens + 1]
<1>1. lines[s] \in Seq(KeyLine) /\ keygens \in Nat /\ there \in BOOLEAN
  BY DEF RotationInv, Shapes
<1>2. new \in KeyLine
  BY <1>1 DEF KeyLine
<1>3. /\ Edited(s, Append(lines[s], new)) /\ keygens' = keygens + 1 /\ there' = there
  BY DEF AppendLine
<1> HIDE DEF new
<1>4. /\ Append(lines[s], new) \in Seq(KeyLine)
      /\ Len(Append(lines[s], new)) = Len(lines[s]) + 1
      /\ \A i \in 1 .. Len(lines[s]) : Append(lines[s], new)[i] = lines[s][i]
  BY <1>1, <1>2, AppendProperties
<1>5. ASSUME NEW line, Among(line, lines[s]) PROVE Among(line, Append(lines[s], new))
  <2>1. PICK i \in 1 .. Len(lines[s]) : lines[s][i] = line
    BY <1>1, <1>5 DEF Among
  <2>2. i \in DOMAIN Append(lines[s], new)
    BY <1>1, <1>4
  <2> QED BY <1>4, <2>1, <2>2 DEF Among
<1>6. there' \in BOOLEAN /\ keygens' \in Nat
  BY <1>1, <1>3
<1> DEFINE longer == Append(lines[s], new)
<1>7. /\ longer \in Seq(KeyLine) /\ Edited(s, longer)
      /\ \A line : Among(line, lines[s]) => Among(line, longer)
      /\ \A n \in DOMAIN longer : longer[n] = new \/ (n \in DOMAIN lines[s] /\ longer[n] = lines[s][n])
  <2>1. /\ DOMAIN longer = 1 .. Len(lines[s]) + 1 /\ DOMAIN lines[s] = 1 .. Len(lines[s])
        /\ longer[Len(lines[s]) + 1] = new /\ Len(lines[s]) \in Nat
    BY <1>1, <1>2, <1>4, AppendProperties
  <2> QED BY <1>3, <1>4, <1>5, <2>1
<1> HIDE DEF longer
<1>8. \A n \in DOMAIN lines[s] : lines[s][n].key \in Nat /\ lines[s][n].key <= keygens
  <2>1. \A n \in DOMAIN lines[s] : lines[s][n] \in KeyLine
    BY <1>1
  <2> QED BY <2>1 DEF RotationInv, Numbered, KeyLine
<1>9. new.key = keygens + 1
  BY DEF new
<1>10. \A n \in DOMAIN longer : longer[n].key <= keygens'
  BY <1>1, <1>3, <1>7, <1>8, <1>9
<1>11. ASSUME NEW line, Eldest(line, lines[s]) PROVE Eldest(line, longer)
  <2>1. Among(line, longer) /\ line.key \in Nat /\ line.key <= keygens
    BY <1>7, <1>8, <1>11 DEF Eldest, Among
  <2>2. ASSUME NEW n \in DOMAIN longer, longer[n].kid = line.kid PROVE line.key <= longer[n].key
    <3>1. CASE longer[n] = new
      BY <1>1, <1>9, <2>1, <3>1
    <3>2. CASE n \in DOMAIN lines[s] /\ longer[n] = lines[s][n]
      BY <1>11, <2>2, <3>2 DEF Eldest
    <3> QED BY <1>7, <3>1, <3>2
  <2> QED BY <2>1, <2>2 DEF Eldest
<1>12. keygens <= keygens'
  BY <1>1, <1>3
<1> QED BY <1>3, <1>6, <1>7, <1>10, <1>11, <1>12, EditKeeps

LEMMA PromoteKeeps ==
    ASSUME RotationInv, NEW s \in KeySource, Promote(s)
    PROVE  RotationInv'
<1> DEFINE keys == lines[s]
           front == <<keys[Len(keys)]>>
           rest == SubSeq(keys, 1, Len(keys) - 1)
<1>1. keys \in Seq(KeyLine) /\ keygens \in Nat /\ there \in BOOLEAN /\ Len(keys) \in Nat
  BY DEF RotationInv, Shapes
<1>2. Len(keys) > 1 /\ Edited(s, front \o rest) /\ keygens' = keygens /\ there' = there
  BY DEF Promote
<1> HIDE DEF keys
<1>3. keys[Len(keys)] \in KeyLine /\ \A i \in 1 .. Len(keys) - 1 : keys[i] \in KeyLine
  BY <1>1, <1>2
<1>4. front \in Seq(KeyLine) /\ Len(front) = 1 /\ front[1] = keys[Len(keys)]
  BY <1>3
<1>5. /\ rest \in Seq(KeyLine) /\ Len(rest) = Len(keys) - 1
      /\ \A i \in 1 .. Len(keys) - 1 : rest[i] = keys[i]
  BY <1>1, <1>2, <1>3, SubSeqProperties
<1> HIDE DEF front, rest
<1>6. /\ front \o rest \in Seq(KeyLine) /\ Len(front \o rest) = Len(keys)
      /\ \A i \in 1 .. Len(keys) : (front \o rest)[i] = IF i <= 1 THEN front[i] ELSE rest[i - 1]
  <2>1. /\ front \o rest \in Seq(KeyLine) /\ Len(front \o rest) = Len(front) + Len(rest)
        /\ \A i \in 1 .. Len(front) + Len(rest) :
              (front \o rest)[i] = IF i <= Len(front) THEN front[i] ELSE rest[i - Len(front)]
    BY <1>4, <1>5, ConcatProperties
  <2>2. Len(front) = 1 /\ Len(front) + Len(rest) = Len(keys)
    BY <1>1, <1>2, <1>4, <1>5
  <2> QED BY <2>1, <2>2
<1>7. ASSUME NEW line, Among(line, keys) PROVE Among(line, front \o rest)
  <2>1. PICK i \in 1 .. Len(keys) : keys[i] = line
    BY <1>1, <1>7 DEF Among
  <2>2. DOMAIN (front \o rest) = 1 .. Len(keys)
    BY <1>6
  <2>3. CASE i = Len(keys)
    <3>1. (front \o rest)[1] = line
      BY <1>1, <1>2, <1>4, <1>6, <2>1, <2>3
    <3> QED BY <1>1, <1>2, <2>2, <3>1 DEF Among
  <2>4. CASE i # Len(keys)
    <3>1. i + 1 \in 1 .. Len(keys) /\ i \in 1 .. Len(keys) - 1 /\ ~(i + 1 <= 1) /\ i + 1 - 1 = i
      BY <1>1, <2>1, <2>4
    <3>2. (front \o rest)[i + 1] = line
      BY <1>5, <1>6, <2>1, <3>1
    <3> QED BY <2>2, <3>1, <3>2 DEF Among
  <2> QED BY <2>3, <2>4
<1>8. \A n \in DOMAIN (front \o rest) : Among((front \o rest)[n], keys)
  <2>1. \A n \in 1 .. Len(keys) : n = 1 \/ (n - 1 \in 1 .. Len(keys) - 1 /\ ~(n <= 1))
    BY <1>1
  <2>2. 1 .. Len(keys) - 1 \subseteq DOMAIN keys /\ Len(keys) \in DOMAIN keys
    BY <1>1, <1>2
  <2>3. DOMAIN (front \o rest) = 1 .. Len(keys)
    BY <1>6
  <2>4. ASSUME NEW n \in 1 .. Len(keys) PROVE Among((front \o rest)[n], keys)
    <3>1. CASE n = 1
      BY <1>4, <1>6, <2>2, <3>1 DEF Among
    <3>2. CASE n # 1
      BY <1>5, <1>6, <2>1, <2>2, <3>2 DEF Among
    <3> QED BY <3>1, <3>2
  <2> QED BY <2>3, <2>4
<1>9. PICK turned : turned = front \o rest
  OBVIOUS
<1>10. \A line : Eldest(line, keys) => Eldest(line, turned)
  BY <1>7, <1>8, <1>9, EldestStays DEF Eldest
<1>11. \A n \in DOMAIN turned : turned[n].key <= keygens
  BY <1>8, <1>9 DEF Among, RotationInv, Numbered, keys
<1>12. /\ turned \in Seq(KeyLine) /\ Edited(s, turned)
       /\ keygens <= keygens' /\ \A n \in DOMAIN turned : turned[n].key <= keygens'
  BY <1>1, <1>2, <1>6, <1>9, <1>11
<1>13. \A line : Eldest(line, lines[s]) => Eldest(line, turned)
  BY <1>10 DEF keys
<1> QED BY <1>1, <1>2, <1>12, <1>13, EditKeeps

LEMMA DropKeeps ==
    ASSUME RotationInv, NEW s \in KeySource, NEW n \in DOMAIN lines[s], Drop(s, n)
    PROVE  RotationInv'
<1> DEFINE keys == lines[s]
           front == SubSeq(keys, 1, n - 1)
           rest == SubSeq(keys, n + 1, Len(keys))
           shorter == front \o rest
<1>1. keys \in Seq(KeyLine) /\ keygens \in Nat /\ there \in BOOLEAN /\ Len(keys) \in Nat
  BY DEF RotationInv, Shapes
<1>2. n \in 1 .. Len(keys)
  BY <1>1
<1>3. /\ Edited(s, shorter) /\ keygens' = keygens /\ there' = there
      /\ Retired(keys[n]) \/ Newer(keys[n], keys)
  BY DEF Drop, LinesWithout
<1> HIDE DEF keys
<1>4. /\ front \in Seq(KeyLine) /\ Len(front) = n - 1
      /\ \A i \in 1 .. n - 1 : front[i] = keys[i]
  <2>1. \A i \in 1 .. n - 1 : keys[i] \in KeyLine
    BY <1>1, <1>2
  <2>2. /\ front \in Seq(KeyLine) /\ Len(front) = IF 1 <= n - 1 THEN n - 1 - 1 + 1 ELSE 0
        /\ \A i \in 1 .. n - 1 - 1 + 1 : front[i] = keys[1 + i - 1]
    BY <1>2, <2>1, SubSeqProperties
  <2>3. \A i \in Int : 1 + i - 1 = i
    OBVIOUS
  <2>4. n - 1 - 1 + 1 = n - 1 /\ (~(1 <= n - 1) => n - 1 = 0)
    BY <1>2
  <2> QED BY <2>2, <2>3, <2>4
<1>5. /\ rest \in Seq(KeyLine) /\ Len(rest) = Len(keys) - n
      /\ \A i \in n + 1 .. Len(keys) : rest[i - n] = keys[i]
  <2>1. \A i \in n + 1 .. Len(keys) : keys[i] \in KeyLine
    BY <1>1, <1>2
  <2>2. /\ rest \in Seq(KeyLine) /\ Len(rest) = IF n + 1 <= Len(keys) THEN Len(keys) - (n + 1) + 1 ELSE 0
        /\ \A i \in 1 .. Len(keys) - (n + 1) + 1 : rest[i] = keys[n + 1 + i - 1]
    BY <1>1, <1>2, <2>1, SubSeqProperties
  <2>3. Len(rest) = Len(keys) - n
    BY <1>1, <1>2, <2>2
  <2>4. ASSUME NEW i \in n + 1 .. Len(keys) PROVE rest[i - n] = keys[i]
    <3>1. i - n \in 1 .. Len(keys) - (n + 1) + 1 /\ n + 1 + (i - n) - 1 = i
      BY <1>1, <1>2
    <3> QED BY <2>2, <3>1
  <2> QED BY <2>2, <2>3, <2>4
<1> HIDE DEF front, rest
<1>6. /\ shorter \in Seq(KeyLine) /\ Len(shorter) = Len(front) + Len(rest)
      /\ \A i \in 1 .. Len(front) + Len(rest) :
            shorter[i] = IF i <= Len(front) THEN front[i] ELSE rest[i - Len(front)]
  BY <1>4, <1>5, ConcatProperties
<1> HIDE DEF shorter
<1>7. DOMAIN shorter = 1 .. Len(keys) - 1
  <2>1. Len(front) + Len(rest) = Len(keys) - 1
    BY <1>1, <1>2, <1>4, <1>5
  <2> QED BY <1>6, <2>1
<1>8. ASSUME NEW i \in 1 .. Len(keys), i # n PROVE Among(keys[i], shorter)
  <2>1. CASE i < n
    <3>1. i \in 1 .. n - 1 /\ i \in 1 .. Len(keys) - 1 /\ i <= Len(front) /\ i \in 1 .. Len(front) + Len(rest)
      BY <1>1, <1>2, <1>4, <1>5, <2>1
    <3>2. shorter[i] = keys[i]
      BY <1>4, <1>6, <3>1
    <3> QED BY <1>7, <3>1, <3>2 DEF Among
  <2>2. CASE i > n
    <3>1. /\ i \in n + 1 .. Len(keys) /\ i - 1 \in 1 .. Len(keys) - 1 /\ ~(i - 1 <= Len(front))
          /\ i - 1 \in 1 .. Len(front) + Len(rest) /\ i - 1 - Len(front) = i - n
      BY <1>1, <1>2, <1>4, <1>5, <2>2
    <3>2. shorter[i - 1] = rest[i - n]
      BY <1>6, <3>1
    <3>3. rest[i - n] = keys[i]
      BY <1>5, <3>1
    <3> QED BY <1>7, <3>1, <3>2, <3>3 DEF Among
  <2> QED BY <1>2, <1>8, <2>1, <2>2
<1>9. \A i \in DOMAIN shorter : Among(shorter[i], keys)
  <2>1. DOMAIN keys = 1 .. Len(keys) /\ Len(front) + Len(rest) = Len(keys) - 1
    BY <1>1, <1>2, <1>4, <1>5
  <2>2. ASSUME NEW i \in 1 .. Len(keys) - 1 PROVE Among(shorter[i], keys)
    <3>1. CASE i < n
      <4>1. i \in 1 .. n - 1 /\ i <= Len(front) /\ i \in 1 .. Len(front) + Len(rest) /\ i \in 1 .. Len(keys)
        BY <1>1, <1>2, <1>4, <2>1, <3>1
      <4>2. shorter[i] = keys[i]
        BY <1>4, <1>6, <4>1
      <4> QED BY <2>1, <4>1, <4>2 DEF Among
    <3>2. CASE ~(i < n)
      <4>1. /\ i + 1 \in n + 1 .. Len(keys) /\ i + 1 \in 1 .. Len(keys) /\ ~(i <= Len(front))
            /\ i \in 1 .. Len(front) + Len(rest) /\ i - Len(front) = (i + 1) - n
        BY <1>1, <1>2, <1>4, <2>1, <3>2
      <4>2. shorter[i] = rest[(i + 1) - n]
        BY <1>6, <4>1
      <4>3. rest[(i + 1) - n] = keys[i + 1]
        BY <1>5, <4>1
      <4> QED BY <2>1, <4>1, <4>2, <4>3 DEF Among
    <3> QED BY <3>1, <3>2
  <2> QED BY <1>7, <2>2
<1>10. ASSUME NEW line, Eldest(line, keys), ~Eldest(line, shorter)
       PROVE  /\ \A p \in Shell : ~Running(p)
              /\ \A e \in Slot : file[e] # NoRef => KeyOf(file[e]) # line
  <2>1. ~Among(line, shorter) /\ Among(line, keys)
    BY <1>9, <1>10, EldestStays DEF Eldest
  <2>2. line = keys[n]
    BY <1>1, <1>8, <2>1 DEF Among
  <2>3. \A m \in DOMAIN keys : keys[m].key \in Nat
    <3>1. \A m \in DOMAIN keys : keys[m] \in KeyLine
      BY <1>1
    <3> QED BY <3>1 DEF KeyLine
  <2>4. ~Newer(keys[n], keys)
    BY <1>1, <1>2, <1>10, <2>2, <2>3 DEF Newer, Eldest
  <2>5. /\ \A p \in Shell : at[p] \in {"idle", "done"}
        /\ \A e \in Slot : file[e].kid # line.kid
    BY <1>3, <2>2, <2>4 DEF Retired
  <2>6. \A p \in Shell : ~Running(p)
    BY <2>5 DEF Running
  <2>7. \A e \in Slot : KeyOf(file[e]).kid = file[e].kid
    BY DEF KeyOf
  <2> QED BY <2>5, <2>6, <2>7
<1>11. there' \in BOOLEAN /\ keygens' \in Nat /\ keygens <= keygens'
  BY <1>1, <1>3
<1>12. \A i \in DOMAIN shorter : shorter[i].key <= keygens'
  BY <1>3, <1>9 DEF Among, RotationInv, Numbered, keys
<1>13. \A line : Eldest(line, lines[s]) =>
          \/ Eldest(line, shorter)
          \/ /\ \A p \in Shell : ~Running(p)
             /\ \A e \in Slot : file[e] # NoRef => KeyOf(file[e]) # line
  BY <1>10 DEF keys
<1> QED BY <1>3, <1>6, <1>11, <1>12, <1>13, EditKeeps

LEMMA MountKeeps ==
    ASSUME RotationInv, MountDefault
    PROVE  RotationInv'
<1>1. /\ "default" \in scene.moves /\ Edited("default", lines["default"])
      /\ there' = ~there /\ keygens' = keygens
  BY DEF MountDefault
<1>2. "default" \in KeySource
  BY DEF KeySource
<1>3. lines["default"] \in Seq(KeyLine) /\ there' \in BOOLEAN /\ keygens' \in Nat
  BY <1>1, <1>2 DEF RotationInv, Shapes
<1>4. keygens <= keygens' /\ \A n \in DOMAIN lines["default"] : lines["default"][n].key <= keygens'
  BY <1>1, <1>2 DEF RotationInv, Numbered, Shapes
<1> QED BY <1>1, <1>2, <1>3, <1>4, EditKeeps

LEMMA OperatorKeeps ==
    ASSUME RotationInv, Operator
    PROVE  RotationInv'
<1>1. "file" \in KeySource /\ "default" \in KeySource
  BY DEF KeySource
<1> QED BY <1>1, AppendKeeps, PromoteKeeps, DropKeeps, MountKeeps DEF Operator

-----------------------------------------------------------------------------
(* A step of a command keeps the parts that all shells share.              *)
LEMMA TextsStay ==
    ASSUME Shapes, TextsKept, NEW p \in Shell, Elsewhere(p), UNCHANGED contents,
           at'[p] = "write" => seen'[p] = file
    PROVE  TextsKept'
<1>1. file' = file /\ meant' = meant
  BY DEF contents
<1>2. ASSUME NEW q \in Shell, at'[q] = "write" PROVE seen'[q] = file
  BY <1>2 DEF Elsewhere, TextsKept
<1> QED BY <1>1, <1>2 DEF TextsKept

LEMMA EditsAlone ==
    ASSUME RotationInv, OneEditor, NEW p \in Shell, at[p] # "idle", job[p].cmd \in {"seal", "rewrap"},
           NEW q \in Shell, at[q] = "write"
    PROVE  q = p
<1>1. /\ job[p] \in scene.duty[p] /\ job[q] \in scene.duty[q] /\ job[q].cmd = "rewrap"
  BY DEF RotationInv, OnDuty
<1>2. scene \in Scenes
  BY DEF RotationInv, Shapes
<1> QED BY <1>1, <1>2 DEF OneEditor

LEMMA CommandKeeps ==
    ASSUME RotationInv, NEW p \in Shell, Command(p)
    PROVE  RotationInv'
<1>1. Shapes /\ KeysKept /\ Own(p)
  BY DEF RotationInv, Own, KeysKept
<1>2. Elsewhere(p) /\ UNCHANGED world
  BY <1>1, ElsewhereSame
<1>3. scene' = scene /\ there' = there /\ lines' = lines /\ Present' = Present
  BY <1>2, SameWorld DEF world
<1> DEFINE Stays == /\ Shapes' /\ Own(p)'
                    /\ "default" \notin scene.moves => InKeyring'
                    /\ OneEditor => TextsKept'
<1>4. ASSUME UNCHANGED contents, Shapes', Own(p)', at'[p] = "write" => seen'[p] = file
      PROVE  Stays
  <2>1. file' = file
    BY <1>4 DEF contents
  <2>2. "default" \notin scene.moves => InKeyring'
    BY <1>1, <1>3, <2>1 DEF KeysKept, InKeyring, Holds
  <2>3. OneEditor => TextsKept'
    BY <1>1, <1>2, <1>4, TextsStay DEF RotationInv
  <2> QED BY <1>4, <2>2, <2>3
<1>5. ASSUME NEW j \in scene.duty[p], Run(p, j) PROVE Stays
  <2>1. UNCHANGED contents /\ at'[p] = "detect"
    BY <1>1, <1>5 DEF Run, Set, Shapes
  <2> QED BY <1>1, <1>4, <1>5, <2>1, RunStep
<1>6. ASSUME Detect(p) PROVE Stays
  BY <1>1, <1>4, <1>6, DetectStep
<1>7. ASSUME Load(p) PROVE Stays
  BY <1>1, <1>4, <1>7, LoadStep
<1>8. ASSUME Info(p) PROVE Stays
  BY <1>1, <1>4, <1>8, InfoStep
<1>9. ASSUME Unseal(p) PROVE Stays
  BY <1>1, <1>4, <1>9, UnsealStep
<1>10. ASSUME Rewrap(p) PROVE Stays
  BY <1>1, <1>4, <1>10, RewrapStep
<1>11. ASSUME Seal(p) PROVE Stays
  <2>1. /\ Shapes' /\ Own(p)' /\ at'[p] = "done"
        /\ "default" \notin scene.moves => InKeyring'
        /\ \A s \in Slot :
              file'[s].text = meant'[s] \/ (file'[s] = file[s] /\ meant'[s] = meant[s])
    BY <1>1, <1>11, SealStep
  <2>2. at[p] = "work" /\ job[p].cmd = "seal"
    BY <1>11 DEF Seal
  <2>3. ASSUME OneEditor PROVE TextsKept'
    <3>1. \A q \in Shell : at[q] # "write"
      BY <2>2, <2>3, EditsAlone
    <3>2. \A q \in Shell : at'[q] # "write"
      BY <1>2, <2>1, <3>1 DEF Elsewhere
    <3>3. \A s \in Slot : file'[s] # NoRef => file'[s].text = meant'[s]
      BY <2>1, <2>3 DEF RotationInv, TextsKept
    <3> QED BY <3>2, <3>3 DEF TextsKept
  <2> QED BY <2>1, <2>3
<1>12. ASSUME Write(p) PROVE Stays
  <2>1. /\ Shapes' /\ Own(p)' /\ at'[p] = "done" /\ meant' = meant
        /\ "default" \notin scene.moves => InKeyring'
        /\ \A s \in Slot : \/ file'[s] = seen[p][s]
                            \/ (seen[p][s] # NoRef /\ file'[s].text = seen[p][s].text)
    BY <1>1, <1>12, WriteStep
  <2>2. at[p] = "write" /\ job[p].cmd = "rewrap"
    BY <1>1, <1>12 DEF Write, Own, OnDuty
  <2>3. ASSUME OneEditor PROVE TextsKept'
    <3>1. \A q \in Shell : at[q] = "write" => q = p
      BY <2>2, <2>3, EditsAlone
    <3>2. \A q \in Shell : at'[q] # "write"
      BY <1>2, <2>1, <3>1 DEF Elsewhere
    <3>3. seen[p] = file /\ \A s \in Slot : file[s] # NoRef => file[s].text = meant[s]
      BY <2>2, <2>3 DEF RotationInv, TextsKept
    <3>4. \A s \in Slot : file'[s] # NoRef => file'[s].text = meant'[s]
      BY <2>1, <3>3
    <3> QED BY <3>2, <3>4 DEF TextsKept
  <2> QED BY <2>1, <2>3
<1>13. Stays
  BY <1>5, <1>6, <1>7, <1>8, <1>9, <1>10, <1>11, <1>12 DEF Command
<1>14. ASSUME NEW q \in Shell
       PROVE  OnDuty(q)' /\ Undisturbed(q)' /\ ("default" \notin scene.moves => Backed(q)')
  <2>1. CASE q = p
    BY <1>3, <1>13, <2>1 DEF Own
  <2>2. CASE q # p
    BY <1>1, <2>2, OthersKept DEF RotationInv, KeysKept
  <2> QED BY <2>1, <2>2
<1>15. KeysKept'
  BY <1>1, <1>3, <1>13, <1>14 DEF KeysKept
<1>16. Numbered'
  BY <1>2 DEF RotationInv, Numbered, world
<1> QED BY <1>13, <1>14, <1>15, <1>16 DEF RotationInv

LEMMA RotationStarts == RotationInit => RotationInv
<1> SUFFICES ASSUME RotationInit PROVE RotationInv
  OBVIOUS
<1>1. /\ scene \in Scenes /\ given \in scene.given /\ edits = 0 /\ keygens = 1 /\ file = NoFile
      /\ meant = [s \in Slot |-> "none"]
      /\ job = [p \in Shell |-> [cmd |-> "info"]]
      /\ at = [p \in Shell |-> "idle"]
      /\ source = [p \in Shell |-> "none"]
      /\ ring = [p \in Shell |-> << >>]
      /\ seen = [p \in Shell |-> NoFile]
      /\ began = [p \in Shell |-> 0]
      /\ out = [p \in Shell |-> Nothing]
  BY DEF RotationInit
<1>2. there \in BOOLEAN /\ ("default" \notin scene.moves => ~there)
  BY DEF RotationInit
<1>3. lines \in [KeySource -> Seq(KeyLine)] /\ Numbered
  <2>1. PICK k \in KeyId : lines = [s \in KeySource |-> <<[kid |-> k, key |-> 1]>>]
    BY DEF RotationInit
  <2>2. <<[kid |-> k, key |-> 1]>> \in Seq(KeyLine)
    BY DEF KeyLine
  <2>3. lines \in [KeySource -> Seq(KeyLine)]
    BY <2>1, <2>2
  <2>4. Numbered
    BY <1>1, <2>1 DEF Numbered
  <2> QED BY <2>3, <2>4
<1>4. NoFile \in [Slot -> RefOrNone] /\ \A s \in Slot : NoFile[s] = NoRef
  BY DEF NoFile, RefOrNone
<1>5. [cmd |-> "info"] \in Job /\ "idle" \in Stage
  BY DEF Job, Stage
<1>6. << >> \in Seq(KeyLine)
  OBVIOUS
<1>7. Shapes
  <2>1. job \in [Shell -> Job] /\ at \in [Shell -> Stage] /\ ring \in [Shell -> Seq(KeyLine)]
    BY <1>1, <1>5, <1>6
  <2>2. /\ file \in [Slot -> RefOrNone] /\ seen \in [Shell -> [Slot -> RefOrNone]] /\ DOMAIN meant = Slot
    BY <1>1, <1>4
  <2>3. source \in [Shell -> KeySource \cup {"none"}] /\ began \in [Shell -> Nat] /\ DOMAIN out = Shell
    BY <1>1
  <2>4. edits \in Nat /\ keygens \in Nat
    BY <1>1
  <2> QED BY <1>1, <1>2, <1>3, <2>1, <2>2, <2>3, <2>4 DEF Shapes
<1>8. ASSUME NEW p \in Shell PROVE OnDuty(p) /\ Undisturbed(p) /\ Backed(p)
  <2>1. at[p] = "idle" /\ began[p] = 0 /\ edits = 0 /\ ~Running(p)
    BY <1>1 DEF Running
  <2> QED BY <2>1 DEF OnDuty, Undisturbed, Backed
<1>9. InKeyring /\ TextsKept
  BY <1>1, <1>4 DEF InKeyring, TextsKept
<1> QED BY <1>2, <1>3, <1>7, <1>8, <1>9 DEF RotationInv, KeysKept

(* The inductive invariant: what a shell holds goes with the keyring as    *)
(* long as it is not edited, or only where nobody needs the line or an     *)
(* older one with its kid stays: nobody has ever loaded, or sealed with,   *)
(* the younger of two lines that are there together.                       *)
THEOREM RotationInvariant == RotationSpec => []RotationInv
<1>1. RotationInv /\ [RotationNext]_rotationVars => RotationInv'
  <2> SUFFICES ASSUME RotationInv, [RotationNext]_rotationVars PROVE RotationInv'
    OBVIOUS
  <2>1. CASE RotationNext
    BY <2>1, OperatorKeeps, CommandKeeps DEF RotationNext
  <2>2. CASE UNCHANGED rotationVars
    <3>1. UNCHANGED <<world, contents, shells>>
      BY <2>2 DEF rotationVars
    <3>2. /\ UNCHANGED <<scene, given, there, lines, edits, keygens, file, meant>>
          /\ UNCHANGED <<job, at, source, ring, seen, began, out>>
      BY <3>1 DEF world, contents, shells
    <3>3. /\ Present' = Present /\ Loaded' = Loaded /\ Report' = Report
          /\ \A s : Parsed(s)' = Parsed(s)
      BY <3>1, SameWorld
    <3>4. Shapes' /\ Numbered' /\ TextsKept' = TextsKept
      BY <3>2 DEF Shapes, Numbered, TextsKept, RotationInv
    <3>5. ASSUME NEW p \in Shell PROVE OnDuty(p)' /\ Undisturbed(p)'
      <4>1. ByDefault(p)' = ByDefault(p) /\ Opened(p)' = Opened(p)
        BY <3>2, <3>3 DEF ByDefault, Opened, TwoWithOneKid
      <4> QED BY <3>2, <3>3, <4>1 DEF RotationInv, OnDuty, Running, Undisturbed
    <3>6. KeysKept'
      BY <3>2, <3>3 DEF RotationInv, KeysKept, InKeyring, Backed, Running, Holds
    <3> QED BY <3>4, <3>5, <3>6 DEF RotationInv
  <2> QED BY <2>1, <2>2
<1> QED BY <1>1, RotationStarts, PTL DEF RotationSpec

(* What info says of the keyring is what seal does with it (info.rs,       *)
(* main.rs seal), whoever else is at work, as long as it is not edited.    *)
THEOREM RotationInfoAgrees == RotationSpec => []InfoAgrees
<1>1. ASSUME RotationInv PROVE InfoAgrees
  <2> SUFFICES ASSUME NEW p \in Shell, NEW q \in Shell,
                      at[p] = "done", job[p].cmd = "info", began[p] = edits,
                      at[q] = "done", job[q].cmd = "seal", job[q].default, began[q] = edits
               PROVE  /\ out[p].source = source[q]
                      /\ out[q].exit = 1 <=> out[p].exit = 2 \/ out[p].source = "none"
                      /\ out[q].exit = 0 => out[q].ref.kid = out[p].keys[1].kid
                      /\ \A n \in DOMAIN Present :
                            \/ Present[n] = out[p].source
                            \/ \E m \in DOMAIN out[p].ignored : out[p].ignored[m] = Present[n]
    BY DEF InfoAgrees
  <2>1. out[p] = Report /\ ByDefault(q)
    BY <1>1 DEF RotationInv, Undisturbed
  <2>2. CASE Present = << >>
    BY <2>1, <2>2 DEF Report, ByDefault
  <2>3. CASE Present # << >>
    <3>1. Head(Present) # "none"
      BY <2>3, FirstPresent DEF KeySource
    <3>2. /\ out[p].source = Head(Present) /\ out[p].ignored = Tail(Present) /\ out[p].keys = Loaded
          /\ out[p].exit = IF Loaded = << >> THEN 2 ELSE 0
      BY <2>1, <2>3 DEF Report
    <3>3. /\ source[q] = Head(Present)
          /\ Loaded = << >> => out[q].exit = 1
          /\ Loaded # << >> => out[q].exit = 0 /\ out[q].ref.kid = Loaded[1].kid
      BY <2>1, <2>3 DEF ByDefault
    <3>4. \A n \in DOMAIN Present :
             \/ Present[n] = Head(Present)
             \/ \E m \in DOMAIN Tail(Present) : Tail(Present)[m] = Present[n]
      BY <2>3, FirstPresent
    <3> QED BY <3>1, <3>2, <3>3, <3>4
  <2> QED BY <2>2, <2>3
<1> QED BY <1>1, RotationInvariant, PTL

(* Every reference in the file says what was last piped into seal for its  *)
(* entry, under a key that is in the keyring still; if one shell at most   *)
(* changes what is there already.                                          *)
THEOREM RotationSecrets ==
    ASSUME OneEditor
    PROVE  RotationSpec => []RotationKeepsSecrets
<1>1. ASSUME RotationInv PROVE RotationKeepsSecrets
  <2> SUFFICES ASSUME NEW s \in Slot, file[s] # NoRef
               PROVE  /\ file[s].text = meant[s]
                      /\ \/ "default" \in scene.moves
                         \/ \E n \in DOMAIN lines[Head(Present)] :
                               lines[Head(Present)][n] = [kid |-> file[s].kid, key |-> file[s].key]
    BY DEF RotationKeepsSecrets
  <2>1. file[s].text = meant[s]
    BY <1>1 DEF RotationInv, TextsKept
  <2>2. "default" \notin scene.moves => Holds(KeyOf(file[s]))
    BY <1>1 DEF RotationInv, KeysKept, InKeyring
  <2> QED BY <2>1, <2>2 DEF Holds, Eldest, Among, KeyOf
<1> QED BY <1>1, RotationInvariant, PTL

(* A reference opens at every point of a rotation, to what was sealed, but *)
(* while two lines have one kid, or if what was sealed was never UTF-8.    *)
THEOREM RotationOpens ==
    ASSUME OneEditor, OpenedWhereItIs
    PROVE  RotationSpec => []OldReferencesOpen
<1>1. ASSUME RotationInv PROVE OldReferencesOpen
  <2> SUFFICES ASSUME NEW p \in Shell, at[p] = "done", job[p].cmd = "unseal", began[p] = edits,
                      seen[p][job[p].slot] = file[job[p].slot]
               PROVE  \/ out[p].exit = 0 /\ out[p].text = meant[job[p].slot]
                      \/ meant[job[p].slot] \in Binary
                      \/ TwoWithOneKid(lines[source[p]])
    BY DEF OldReferencesOpen
  <2>1. /\ job[p] \in scene.duty[p] /\ seen[p][job[p].slot] # NoRef
        /\ Undisturbed(p) /\ scene \in Scenes /\ job[p] \in Job
    BY <1>1 DEF RotationInv, OnDuty, Shapes
  <2>2. "default" \notin scene.moves
    BY <2>1 DEF OpenedWhereItIs
  <2>3. Opened(p)
    BY <2>1, <2>2 DEF Undisturbed
  <2>4. job[p].slot \in Slot
    BY <2>1, JobFields
  <2>5. seen[p][job[p].slot].text = meant[job[p].slot]
    BY <1>1, <2>1, <2>4 DEF RotationInv, TextsKept
  <2> QED BY <2>3, <2>5 DEF Opened
<1> QED BY <1>1, RotationInvariant, PTL
=============================================================================
