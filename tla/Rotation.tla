------------------------------ MODULE Rotation ------------------------------
(***************************************************************************)
(* Life with a keyring: shells run seal, unseal, info and rewrap (main.rs),*)
(* each a process that finds the keyring's source, then loads it, then     *)
(* works with it, while an operator adds, moves and removes keyring lines  *)
(* as src/README.md, "Key rotation", has it, and the references that seal  *)
(* prints go into a file. How a keyring's text is parsed is KeyringText;   *)
(* how a file is replaced, in one step for who looks at it, is Rewrite.    *)
(***************************************************************************)
EXTENDS Naturals, Sequences

CONSTANTS
    Shell,       \* who runs commands, one at a time each
    KeyId,
    Slot,        \* the entries of the file
    Plaintext,   \* what is piped into seal
    Binary,      \* which of it is not UTF-8
    Scenes       \* who does what, records of
                 \*   duty   [Shell -> the commands of theirs that are looked at]
                 \*   moves  what the operator does: some of "append", "promote", "drop", "default"
                 \*   given  sources that the environment may name: sets of "fd", "file", "inline"
                 \*   edits  bound: moves of the operator

KeySource == {"fd", "file", "default", "inline"}

(* A key is the number of the keygen that made it.                         *)
KeyLine == [kid : KeyId, key : Nat]

(* A ciphertext with its kid and the key and plaintext it was made of.     *)
Ref == [kid : KeyId, key : Nat, text : Plaintext]

NoRef == [kid |-> "none"]

NoFile == [s \in Slot |-> NoRef]

Job == [cmd : {"seal"}, default : {TRUE}, slot : Slot, text : Plaintext, trim : BOOLEAN]
         \cup [cmd : {"seal"}, default : {FALSE}, kid : KeyId, slot : Slot, text : Plaintext, trim : BOOLEAN]
         \cup [cmd : {"unseal"}, slot : Slot]
         \cup [cmd : {"rewrap"}, old : KeyId, new : KeyId]
         \cup [cmd : {"info"}]

(* A line end at the end of what is piped in.                              *)
Trimmed(t) == IF t = "p\n" THEN "p" ELSE t

ASSUME RotationAssumption ==
    /\ Binary \subseteq Plaintext
    /\ \A t \in Plaintext : Trimmed(t) \in Plaintext
    /\ \A s \in Scenes :
        /\ s.duty \in [Shell -> SUBSET Job]
        /\ s.moves \subseteq {"append", "promote", "drop", "default"}
        /\ s.given \subseteq SUBSET {"fd", "file", "inline"}
        /\ s.edits \in Nat

VARIABLES
    scene,      \* one of Scenes
    given,      \* the key variables that are set
    there,      \* the file at the default path exists
    lines,      \* what each source holds
    edits,      \* moves so far
    keygens,    \* keys so far
    file,       \* the references in the file
    meant,      \* what was last piped into seal for each
    job,        \* the command of each shell, or its last one
    at,         \* "idle", "detect", "load", "work", "write", or "done"
    source,     \* the source it found, or "none"
    ring,       \* the keys it loaded
    seen,       \* the file, as rewrap has read it
    began,      \* edits when it was started
    out         \* what it printed, and its exit code

world == <<scene, given, there, lines, edits, keygens>>
contents == <<file, meant>>
shells == <<job, at, source, ring, seen, began, out>>
rotationVars == <<world, contents, shells>>

Nothing == [exit |-> 0]

RotationInit ==
    /\ scene \in Scenes
    /\ given \in scene.given
    /\ there \in IF "default" \in scene.moves THEN BOOLEAN ELSE {FALSE}
    /\ \E k \in KeyId : lines = [s \in KeySource |-> <<[kid |-> k, key |-> 1]>>]
    /\ edits = 0
    /\ keygens = 1
    /\ file = NoFile
    /\ meant = [s \in Slot |-> "none"]
    /\ job = [p \in Shell |-> [cmd |-> "info"]]
    /\ at = [p \in Shell |-> "idle"]
    /\ source = [p \in Shell |-> "none"]
    /\ ring = [p \in Shell |-> << >>]
    /\ seen = [p \in Shell |-> NoFile]
    /\ began = [p \in Shell |-> 0]
    /\ out = [p \in Shell |-> Nothing]

-----------------------------------------------------------------------------
(* The sources present, the first one first (keyring.rs present_sources).  *)
Listed(s, present) == IF present THEN <<s>> ELSE << >>

Present ==
    Listed("fd", "fd" \in given) \o Listed("file", "file" \in given)
        \o Listed("default", there) \o Listed("inline", "inline" \in given)

TwoWithOneKid(keys) == \E i, j \in DOMAIN keys : i # j /\ keys[i].kid = keys[j].kid

(* Slip: a kid that is there already is taken once more.                   *)
ParsedTwice(s) == IF s = "default" /\ ~there THEN << >> ELSE lines[s]

(* What Keyring::parse makes of a source: nothing when it has no line or a *)
(* kid twice, or cannot be read.                                           *)
Parsed(s) ==
    IF TwoWithOneKid(lines[s]) \/ (s = "default" /\ ~there) THEN << >> ELSE lines[s]

Set(f, p, v) == [f EXCEPT ![p] = v]

Exit(p, result) ==
    /\ at' = Set(at, p, "done")
    /\ ring' = Set(ring, p, << >>)
    /\ out' = Set(out, p, result)

Fail(p) == Exit(p, [exit |-> 1])

(* A command line; unseal, or resolve, is given a reference from the file. *)
Run(p, j) ==
    /\ at[p] \in {"idle", "done"}
    /\ j.cmd = "unseal" => file[j.slot] # NoRef
    /\ job' = Set(job, p, j)
    /\ seen' = Set(seen, p, IF j.cmd = "unseal" THEN file ELSE NoFile)
    /\ at' = Set(at, p, "detect")
    /\ source' = Set(source, p, "none")
    /\ out' = Set(out, p, Nothing)
    /\ began' = Set(began, p, edits)
    /\ UNCHANGED <<world, contents, ring>>

(* detect_source. Without one, info says so and succeeds.                  *)
Detect(p) ==
    /\ at[p] = "detect"
    /\ IF Present = << >>
       THEN /\ Exit(p, IF job[p].cmd = "info"
                       THEN [exit |-> 0, source |-> "none", ignored |-> << >>, keys |-> << >>]
                       ELSE [exit |-> 1])
            /\ UNCHANGED source
       ELSE /\ source' = Set(source, p, Head(Present))
            /\ at' = Set(at, p, "load")
            /\ out' = Set(out, p, [exit |-> 0, ignored |-> Tail(Present)])
            /\ UNCHANGED ring
    /\ UNCHANGED <<world, contents, job, seen, began>>

(* load_from. A source that does not load is exit code 2 of info.          *)
Load(p) ==
    /\ at[p] = "load"
    /\ IF Parsed(source[p]) = << >>
       THEN Exit(p, IF job[p].cmd = "info"
                    THEN [exit |-> 2, source |-> source[p], ignored |-> out[p].ignored, keys |-> << >>]
                    ELSE [exit |-> 1])
       ELSE /\ ring' = Set(ring, p, Parsed(source[p]))
            /\ at' = Set(at, p, "work")
            /\ UNCHANGED out
    /\ UNCHANGED <<world, contents, job, source, seen, began>>

Info(p) ==
    /\ at[p] = "work" /\ job[p].cmd = "info"
    /\ Exit(p, [exit |-> 0, source |-> source[p], ignored |-> out[p].ignored, keys |-> ring[p]])
    /\ UNCHANGED <<world, contents, job, source, seen, began>>

(* Slip: the kid is not looked at.                                         *)
AnyLine(r, kid) == {r[n] : n \in {1} \cap DOMAIN r}

(* get(kid): the line with that kid. It is the only one.                   *)
Found(r, kid) == {r[n] : n \in {m \in DOMAIN r : r[m].kid = kid}}

(* Slip: the newest line is the default.                                   *)
LastKey(r) == {r[Len(r)]}

DefaultKey(r) == {r[1]}

(* seal prints the reference, and who ran it puts it into the file.        *)
Seal(p) ==
    /\ at[p] = "work" /\ job[p].cmd = "seal"
    /\ LET j == job[p]
           plain == IF j.trim THEN Trimmed(j.text) ELSE j.text
           keys == IF j.default THEN DefaultKey(ring[p]) ELSE Found(ring[p], j.kid)
       IN  \/ /\ keys = {}
              /\ Fail(p)
              /\ UNCHANGED contents
           \/ \E line \in keys :
              LET ref == [kid |-> line.kid, key |-> line.key, text |-> plain]
              IN  /\ Exit(p, [exit |-> 0, ref |-> ref])
                  /\ file' = [file EXCEPT ![j.slot] = ref]
                  /\ meant' = [meant EXCEPT ![j.slot] = plain]
    /\ UNCHANGED <<world, job, source, seen, began>>

(* crypto::open: the kid is associated data, so the key must be the one    *)
(* that sealed it; and a value that is printed must be UTF-8.              *)
Opens(ref, key) == ref.key = key

Unseal(p) ==
    /\ at[p] = "work" /\ job[p].cmd = "unseal"
    /\ LET ref == seen[p][job[p].slot]
       IN  \/ /\ \E line \in Found(ring[p], ref.kid) : Opens(ref, line.key)
              /\ ref.text \notin Binary
              /\ Exit(p, [exit |-> 0, ref |-> ref, text |-> ref.text])
           \/ /\ \/ \A line \in Found(ring[p], ref.kid) : ~Opens(ref, line.key)
                 \/ ref.text \in Binary
              /\ Fail(p)
    /\ UNCHANGED <<world, contents, job, source, seen, began>>

Due(ref, kid) == ref # NoRef /\ ref.kid = kid

(* rewrap: the two keys, then the file, all of whose references under the  *)
(* old kid must open; then the file is replaced, if there was one.         *)
Rewrap(p) ==
    /\ at[p] = "work" /\ job[p].cmd = "rewrap"
    /\ seen' = Set(seen, p, file)
    /\ LET j == job[p]
           due == {s \in Slot : Due(file[s], j.old)}
       IN  IF \/ Found(ring[p], j.old) = {} \/ Found(ring[p], j.new) = {}
              \/ \E s \in due : \A line \in Found(ring[p], j.old) : ~Opens(file[s], line.key)
           THEN Fail(p)
           ELSE IF due = {} THEN Exit(p, Nothing)
           ELSE at' = Set(at, p, "write") /\ UNCHANGED <<ring, out>>
    /\ UNCHANGED <<world, contents, job, source, began>>

(* Slip: the new kid in front of the old ciphertext.                       *)
Renamed(ref, line) == [ref EXCEPT !.kid = line.kid]

Rewrapped(ref, line) == [ref EXCEPT !.kid = line.kid, !.key = line.key]

Write(p) ==
    /\ at[p] = "write"
    /\ \E line \in Found(ring[p], job[p].new) :
        file' = [s \in Slot |->
                    IF Due(seen[p][s], job[p].old) THEN Rewrapped(seen[p][s], line)
                    ELSE seen[p][s]]
    /\ Exit(p, Nothing)
    /\ UNCHANGED <<world, meant, job, source, seen, began>>

-----------------------------------------------------------------------------
(* The operator, at the file that holds the keyring.                       *)
Edited(s, newLines) ==
    /\ s \in given \/ "default" \in scene.moves
    /\ edits < scene.edits
    /\ edits' = edits + 1
    /\ lines' = [lines EXCEPT ![s] = newLines]
    /\ UNCHANGED <<scene, given, contents, shells>>

(* `sealref keygen --kid k >> sealref.key`; keygen does not look at what   *)
(* is in the keyring already.                                              *)
AppendLine(s, k) ==
    /\ "append" \in scene.moves
    /\ Edited(s, Append(lines[s], [kid |-> k, key |-> keygens + 1]))
    /\ keygens' = keygens + 1
    /\ UNCHANGED there

(* The new line first makes it the default.                                *)
Promote(s) ==
    /\ "promote" \in scene.moves /\ Len(lines[s]) > 1
    /\ Edited(s, <<lines[s][Len(lines[s])]>> \o SubSeq(lines[s], 1, Len(lines[s]) - 1))
    /\ UNCHANGED <<there, keygens>>

(* "Confirm that nothing still names the old key", then remove its line,   *)
(* with no command of one's own under way. And of two lines with one kid,  *)
(* for which every command is refused, the newer is to go: at any moment,  *)
(* whatever is under way and names the kid.                                *)
LinesWithout(keys, n) == SubSeq(keys, 1, n - 1) \o SubSeq(keys, n + 1, Len(keys))

Retired(line) ==
    /\ \A p \in Shell : at[p] \in {"idle", "done"}
    /\ \A e \in Slot : file[e].kid # line.kid

Newer(line, keys) == \E n \in DOMAIN keys : keys[n].kid = line.kid /\ keys[n].key < line.key

Drop(s, n) ==
    /\ "drop" \in scene.moves
    /\ Retired(lines[s][n]) \/ Newer(lines[s][n], lines[s])
    /\ Edited(s, LinesWithout(lines[s], n))
    /\ UNCHANGED <<there, keygens>>

(* The file at the default path comes or goes.                             *)
MountDefault ==
    /\ "default" \in scene.moves
    /\ Edited("default", lines["default"])
    /\ there' = ~there
    /\ UNCHANGED keygens

Operator ==
    \/ \E s \in {"file", "default"} :
          \/ \E k \in KeyId : AppendLine(s, k)
          \/ \E n \in DOMAIN lines[s] : Drop(s, n)
          \/ Promote(s)
    \/ MountDefault

Command(p) ==
    \/ \E j \in scene.duty[p] : Run(p, j)
    \/ Detect(p) \/ Load(p)
    \/ Info(p) \/ Seal(p) \/ Unseal(p) \/ Rewrap(p) \/ Write(p)

RotationNext == Operator \/ \E p \in Shell : Command(p)

RotationSpec == RotationInit /\ [][RotationNext]_rotationVars

-----------------------------------------------------------------------------
(* info explains what the other commands do (README.md, "sealref info"):   *)
(* while nobody touches the keyring, the source it names is the one that   *)
(* seal reads, "default for seal" is the key that seal takes, it exits     *)
(* with 2, or says there is none, exactly when seal fails for the keyring, *)
(* and a source that is present is the one used or among the ignored ones. *)
InfoAgrees ==
    \A p, q \in Shell :
        /\ at[p] = "done" /\ job[p].cmd = "info" /\ began[p] = edits
        /\ at[q] = "done" /\ job[q].cmd = "seal" /\ job[q].default /\ began[q] = edits
        => /\ out[p].source = source[q]
           /\ out[q].exit = 1 <=> out[p].exit = 2 \/ out[p].source = "none"
           /\ out[q].exit = 0 => out[q].ref.kid = out[p].keys[1].kid
           /\ \A n \in DOMAIN Present :
                Present[n] = out[p].source \/ \E m \in DOMAIN out[p].ignored : out[p].ignored[m] = Present[n]

(* One shell at most changes what is in the file already.                  *)
OneEditor ==
    \A s \in Scenes, p, q \in Shell :
        /\ \E j \in s.duty[p] : j.cmd = "rewrap"
        /\ \E j \in s.duty[q] : j.cmd \in {"seal", "rewrap"}
        => p = q

(* Who opens references has the keyring where it is.                       *)
OpenedWhereItIs ==
    \A s \in Scenes, p \in Shell :
        (\E j \in s.duty[p] : j.cmd = "unseal") => "default" \notin s.moves

(* Key ids make a rotation routine (README.md:479-502): in whatever order  *)
(* lines are added, put first, and removed when nothing names them, a kid  *)
(* that was generated twice gets rid of its newer line, whichever of the   *)
(* two came first in between, and references are sealed and rewrapped by   *)
(* commands that loaded the ring before or after, what is in the file is   *)
(* what was last piped into seal for that entry, under a key that is still *)
(* in the keyring, if the operator only edits it.                          *)
RotationKeepsSecrets ==
    \A s \in Slot : file[s] # NoRef =>
        /\ file[s].text = meant[s]
        /\ \/ "default" \in scene.moves
           \/ \E n \in DOMAIN lines[Head(Present)] :
                 lines[Head(Present)][n] = [kid |-> file[s].kid, key |-> file[s].key]

(* And a reference opens, to those bytes, at every point of a rotation,    *)
(* unless two lines have one kid, for as long as they do (keyring.rs:163), *)
(* or what was sealed was never UTF-8.                                     *)
OldReferencesOpen ==
    \A p \in Shell :
        /\ at[p] = "done" /\ job[p].cmd = "unseal" /\ began[p] = edits
        /\ seen[p][job[p].slot] = file[job[p].slot]
        => \/ out[p].exit = 0 /\ out[p].text = meant[job[p].slot]
           \/ meant[job[p].slot] \in Binary
           \/ TwoWithOneKid(lines[source[p]])
=============================================================================
