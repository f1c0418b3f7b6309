---------------------------- MODULE KeyringText -----------------------------
(***************************************************************************)
(* The text of a keyring: its parser (keyring.rs Keyring::parse), a line a *)
(* step, for a text that comes from a file or from SEALREF_KEY, and what   *)
(* an operator does to that text to rotate a key (src/README.md, "Key      *)
(* rotation"). A kid and 32 base64url bytes are a symbol each.             *)
(***************************************************************************)
EXTENDS Texts, FiniteSets

CONSTANTS
    Source,      \* the texts considered
    Kid,         \* symbols that kids are made of
    Random,      \* symbols that are 32 bytes in base64url
    Fresh        \* what keygen may print, without the end of its line

VARIABLES
    text,        \* the keyring as the operator wrote it
    inline,      \* it is in SEALREF_KEY and not in a file
    next,        \* the loop's next line starts here
    keys,        \* the keys so far
    edit,        \* what the operator did last, and to which ring
    phase        \* "lines", or how it ended: "parsed", "refused"

vars == <<text, inline, next, keys, edit, phase>>

(* load_from: in SEALREF_KEY a ';' may end a line.                         *)
Delivered ==
    IF inline THEN [i \in DOMAIN text |-> IF text[i] = ";" THEN "\n" ELSE text[i]] ELSE text

Ignored(line) == Trim(line) = << >> \/ At(<<"#">>, Trim(line), 1)

HasPassphrase(rest) == At(<<"argon2id:">>, rest, 1) /\ Len(rest) > 1

(* split_once(char::is_whitespace): what is before the first blank, if it  *)
(* has one, and what is behind it.                                         *)
KeysIn(line) ==
    UNION {LET kid  == Slice(Trim(line), 1, blank)
               rest == Trim(SubSeq(Trim(line), blank, Len(Trim(line))))
           IN  CASE \E i \in DOMAIN kid : kid[i] \notin Kid \cup Random -> {}
                 [] \E r \in Random : rest = <<r>> ->
                        {[kid |-> kid, form |-> "random", secret |-> rest]}
                 [] HasPassphrase(rest) ->
                        {[kid |-> kid, form |-> "argon2id", secret |-> Tail(rest)]}
                 [] OTHER -> {} :
           blank \in {b \in 2..Len(Trim(line)) :
                        /\ Trim(line)[b] \in Blank
                        /\ \A j \in 1..(b - 1) : Trim(line)[j] \notin Blank}}

(* What keygen prints is one line with one key.                            *)
ASSUME KeyringAssumption ==
    /\ Source \subseteq Seq(STRING) /\ Fresh \subseteq Seq(STRING)
    /\ \A line \in Fresh :
        /\ ~Ignored(line) /\ KeysIn(line) # {}
        /\ \A i \in DOMAIN line : line[i] \notin {"\n", ";"}

(* Slip: the last of several lines with one kid counts.                    *)
NeverTaken(ring, kid) == FALSE

Taken(ring, kid) == \E n \in DOMAIN ring : ring[n].kid = kid

Init ==
    /\ text \in Source
    /\ inline \in BOOLEAN
    /\ next = 1
    /\ keys = << >>
    /\ edit = [is |-> "none"]
    /\ phase = "lines"

Line == LineFrom(Delivered, next)

AtLine == phase = "lines" /\ next <= Len(text)

SkipLine ==
    /\ AtLine
    /\ Ignored(Line)
    /\ next' = next + Len(Line) + 1
    /\ UNCHANGED <<text, inline, keys, edit, phase>>

(* Slip: the newest key comes first.                                       *)
PushedFront(ring, key) == <<key>> \o ring

Pushed(ring, key) == Append(ring, key)

TakeKey ==
    /\ AtLine
    /\ ~Ignored(Line)
    /\ \E key \in KeysIn(Line) :
        /\ ~Taken(keys, key.kid)
        /\ keys' = Pushed(keys, key)
    /\ next' = next + Len(Line) + 1
    /\ UNCHANGED <<text, inline, edit, phase>>

RefuseLine ==
    /\ AtLine
    /\ ~Ignored(Line)
    /\ \A key \in KeysIn(Line) : Taken(keys, key.kid)
    /\ keys' = << >>
    /\ phase' = "refused"
    /\ UNCHANGED <<text, inline, next, edit>>

(* A keyring without keys is refused too.                                  *)
EndOfText ==
    /\ phase = "lines"
    /\ next > Len(text)
    /\ phase' = IF keys = << >> THEN "refused" ELSE "parsed"
    /\ UNCHANGED <<text, inline, next, keys, edit>>

(* The operator changes the text of a ring that was good, and it is loaded *)
(* again: keygen's line at the end or in front, or a key's line removed.   *)
Changed(what, line, newText) ==
    /\ phase = "parsed" /\ edit.is = "none"
    /\ text' = newText
    /\ edit' = [is |-> what, line |-> line, ring |-> keys, closed |-> text[Len(text)] = "\n"]
    /\ next' = 1
    /\ keys' = << >>
    /\ phase' = "lines"
    /\ UNCHANGED inline

AppendKey == \E line \in Fresh : Changed("last", line, text \o line \o <<"\n">>)

PrependKey == \E line \in Fresh : Changed("first", line, line \o <<"\n">> \o text)

RemoveKey ==
    \E i \in LineStarts(text) :
        /\ ~Ignored(LineFrom(text, i))
        /\ Changed("removed", LineFrom(text, i),
                   SubSeq(text, 1, i - 1) \o SubSeq(text, i + Len(LineFrom(text, i)) + 1, Len(text)))

Next ==
    \/ SkipLine \/ TakeKey \/ RefuseLine \/ EndOfText
    \/ AppendKey \/ PrependKey \/ RemoveKey

Spec == Init /\ [][Next]_vars

-----------------------------------------------------------------------------
Lines(t) == {i \in LineStarts(t) : ~Ignored(LineFrom(t, i))}

(* A ring is every line or none: one key for each line that is not a       *)
(* comment, no two with one kid, the key of the first line in front, where *)
(* default_key takes it from (keyring.rs:163, 188-191, 204).               *)
WholeRing ==
    phase = "parsed" =>
        /\ keys # << >>
        /\ Len(keys) = Cardinality(Lines(Delivered))
        /\ Cardinality({keys[n].kid : n \in DOMAIN keys}) = Len(keys)
        /\ \E i \in Lines(Delivered) :
            /\ \A j \in Lines(Delivered) : i <= j
            /\ KeysIn(LineFrom(Delivered, i)) = {keys[1]}

(* A rotation step is what the README says of it: "Keep the old line:      *)
(* SealRef can open references under either key" (README.md:481). keygen's *)
(* line, behind a text that ends its last one or in front of any, adds its *)
(* own key and leaves every other what it was, or the ring is refused, for *)
(* that kid, which it has. A line removed takes its own key away, and the  *)
(* ring is refused when that was the last; in SEALREF_KEY, where one line  *)
(* of the text may be several of the keyring, it may take more. Behind a   *)
(* line that is not ended, only the last key can be another than before.   *)
Without(ring, n) == SubSeq(ring, 1, n - 1) \o SubSeq(ring, n + 1, Len(ring))

AddsItsKey ==
    edit.is = "first" \/ (edit.is = "last" /\ edit.closed) =>
        \E key \in KeysIn(edit.line) :
            /\ phase = "parsed" =>
                  keys = IF edit.is = "last" THEN Append(edit.ring, key) ELSE <<key>> \o edit.ring
            /\ phase = "refused" => Taken(edit.ring, key.kid)

OthersStay ==
    edit.is = "last" /\ phase = "parsed" =>
        \A n \in 1..(Len(edit.ring) - 1) : n \in DOMAIN keys /\ keys[n] = edit.ring[n]

TakesItsKey ==
    edit.is = "removed" /\ ~inline =>
        \E n \in DOMAIN edit.ring :
            /\ KeysIn(edit.line) = {edit.ring[n]}
            /\ phase = "parsed" => keys = Without(edit.ring, n)
            /\ phase = "refused" => Len(edit.ring) = 1

AddsNone ==
    edit.is = "removed" /\ phase = "parsed" =>
        \A n \in DOMAIN keys : \E m \in DOMAIN edit.ring : keys[n] = edit.ring[m]

RotationKeepsKeys == AddsItsKey /\ OthersStay /\ TakesItsKey /\ AddsNone
=============================================================================
