----------------------------- MODULE Templates ------------------------------
(***************************************************************************)
(* Rewriting one text (template.rs): render scans for {{seal:...}} and     *)
(* puts values in, rewrap_text scans for seal:v1:<kid>:<ciphertext>        *)
(* wherever it sits and re-encrypts. Both scan to the end first, one       *)
(* iteration of the loop a step, and then copy what lies between.          *)
(***************************************************************************)
EXTENDS Braces

CONSTANTS
    Source,      \* the texts considered, for "render" and for "rewrap"
    Answer,      \* the values a reference may resolve to, texts as well
    From,        \* the retired kid, a text
    To,          \* the kid that replaces it
    Blob         \* the ciphertexts rewrap may make, texts as well

Text == Seq(STRING)

ASSUME TemplateAssumption ==
    /\ Source["render"] \subseteq Text /\ Source["rewrap"] \subseteq Text
    /\ Answer \subseteq Text /\ Blob \subseteq Text
    /\ From \in Text /\ To \in Text

VARIABLES
    command,     \* "render" or "rewrap"
    text,        \* the template, or the file
    cursor,      \* the cursor of the scan
    found,       \* the ranges found so far, with the kid if tokens
    values,      \* what stands for each of them that the loop is past
    copied,      \* what is before it has been copied or replaced
    out,         \* the new text so far
    phase        \* "scan", "write", or how it ended: "done", "failed"

vars == <<command, text, cursor, found, values, copied, out, phase>>

Init ==
    /\ command \in {"render", "rewrap"}
    /\ text \in Source[command]
    /\ cursor = 1
    /\ found = << >>
    /\ values = << >>
    /\ copied = 1
    /\ out = << >>
    /\ phase = "scan"

Scanning(c) == command = c /\ phase = "scan"

Scanned(newFound, newCursor) ==
    /\ found' = newFound
    /\ cursor' = newCursor
    /\ UNCHANGED <<command, text, values, copied, out, phase>>

-----------------------------------------------------------------------------
(* placeholders: a group whose contents are a reference, and one that is   *)
(* another tool's.                                                         *)
Group(start, end) ==
    /\ First(OPEN, text, cursor, start)
    /\ First(CLOSE, text, start + Len(OPEN), end)

Inner(start, end) == Trim(Slice(text, start + Len(OPEN), end))

Behind(end) == end + Len(CLOSE)

(* Slip: a foreign group is passed over whole.                             *)
WholeGroup(start, end) == Behind(end)

Within(start, end) == start + Len(OPEN)

FindPlaceholder ==
    /\ Scanning("render")
    /\ \E start, end \in 1..Len(text) :
        /\ Group(start, end)
        /\ IsReference(Inner(start, end))
        /\ Scanned(Append(found, [start |-> start, end |-> Behind(end)]), Behind(end))

PassOver ==
    /\ Scanning("render")
    /\ \E start, end \in 1..Len(text) :
        /\ Group(start, end)
        /\ ~IsReference(Inner(start, end))
        /\ Scanned(found, Within(start, end))

NoGroup ==
    \/ Absent(OPEN, text, cursor)
    \/ \E start \in 1..Len(text) :
        First(OPEN, text, cursor, start) /\ Absent(CLOSE, text, start + Len(OPEN))

-----------------------------------------------------------------------------
MARKER == <<"seal", ":", "v1", ":">>

(* is_base64url_byte, is_kid_byte: the words of the marker are letters and *)
(* digits too.                                                             *)
Base64Url == {"seal", "v1", "k", "o", "n"}

(* Slip: the dot is forgotten.                                             *)
KidWithoutDot == Base64Url

KidByte == Base64Url \cup {"."}

(* is_valid_kid (crypto.rs:22, keyring.rs:156) and what format_v1 encodes: *)
(* a new token is spelt in these symbols.                                  *)
ASSUME AlphabetAssumption ==
    /\ To \in Seq(Base64Url \cup {"."}) /\ To # << >>
    /\ Blob \subseteq Seq(Base64Url) /\ << >> \notin Blob

(* v1_tokens, behind a marker: where the kid ends, where the ciphertext    *)
(* behind the colon ends, and whether all three are there.                 *)
KidEnd(start) == RunEnd(KidByte, text, start + Len(MARKER))

BlobEnd(start) == RunEnd(Base64Url, text, KidEnd(start) + 1)

HasToken(start) ==
    /\ KidEnd(start) > start + Len(MARKER)
    /\ At(<<":">>, text, KidEnd(start))
    /\ BlobEnd(start) > KidEnd(start) + 1

Token(t, start, colon, end) ==
    [start |-> start, end |-> end, kid |-> Slice(t, start + Len(MARKER), colon)]

FindToken ==
    /\ Scanning("rewrap")
    /\ \E start \in 1..Len(text) :
        /\ First(MARKER, text, cursor, start)
        /\ HasToken(start)
        /\ Scanned(Append(found, Token(text, start, KidEnd(start), BlobEnd(start))), BlobEnd(start))

(* Slip: the scan starts again where it is.                                *)
SameMarker(start) == start

BehindMarker(start) == start + Len(MARKER)

SkipMarker ==
    /\ Scanning("rewrap")
    /\ \E start \in 1..Len(text) :
        /\ First(MARKER, text, cursor, start)
        /\ ~HasToken(start)
        /\ Scanned(found, BehindMarker(start))

ScanEnds ==
    /\ phase = "scan"
    /\ IF command = "render" THEN NoGroup ELSE Absent(MARKER, text, cursor)
    /\ phase' = "write"
    /\ UNCHANGED <<command, text, cursor, found, values, copied, out>>

-----------------------------------------------------------------------------
(* The two loops over what was found.                                      *)
Current == found[Len(values) + 1]

Writing(c) == command = c /\ phase = "write" /\ Len(values) < Len(found)

(* Slip: what follows is copied from the start of what was replaced.       *)
FromStart(range) == range.start

Rest(range) == range.end

Write(value) ==
    /\ values' = Append(values, value)
    /\ out' = out \o Slice(text, copied, Current.start) \o value
    /\ copied' = Rest(Current)
    /\ UNCHANGED <<command, text, cursor, found, phase>>

Substitute == Writing("render") /\ \E value \in Answer : Write(value)

(* Slip: only the first token is looked at.                                *)
DueAtFirst(token) == token.kid = From /\ values = << >>

Due(token) == token.kid = From

Replace ==
    /\ Writing("rewrap") /\ Due(Current)
    /\ \E blob \in Blob : Write(MARKER \o To \o <<":">> \o blob)

Keep ==
    /\ Writing("rewrap") /\ ~Due(Current)
    /\ values' = Append(values, Slice(text, Current.start, Current.end))
    /\ UNCHANGED <<command, text, cursor, found, copied, out, phase>>

(* A reference does not parse, resolve or open: nothing is returned.       *)
Refuse ==
    /\ Writing("render") \/ (Writing("rewrap") /\ Due(Current))
    /\ phase' = "failed"
    /\ out' = << >>
    /\ UNCHANGED <<command, text, cursor, found, values, copied>>

CopyRest ==
    /\ phase = "write" /\ Len(values) = Len(found)
    /\ out' = out \o Slice(text, copied, Len(text) + 1)
    /\ phase' = "done"
    /\ UNCHANGED <<command, text, cursor, found, values, copied>>

Next ==
    \/ FindPlaceholder \/ PassOver \/ FindToken \/ SkipMarker \/ ScanEnds
    \/ Substitute \/ Replace \/ Keep \/ Refuse \/ CopyRest

Spec == Init /\ [][Next]_vars /\ WF_vars(Next)

-----------------------------------------------------------------------------
(* placeholders returns ranges that each hold {{...}} with one reference   *)
(* inside, in source order and without overlap, and overlooks none, groups *)
(* of other tools before it or around it or not (template.rs:31-57): one   *)
(* that is not found begins inside one that is. This is said of those that *)
(* do not stand right behind a brace; see EveryOccurrenceReplaced.         *)
Inside(i, p) == p.start < i /\ i < p.end

BehindBrace(t, i) == i # 1 /\ t[i - 1] = "{"

EveryPlaceholderFound ==
    command = "render" /\ phase # "scan" =>
        /\ \A n \in DOMAIN found :
            /\ Occurs(text, found[n].start)
            /\ At(CLOSE, text, found[n].end - Len(CLOSE))
            /\ Absent(CLOSE, Slice(text, 1, found[n].end - 1), found[n].start + Len(OPEN))
            /\ n > 1 => found[n - 1].end <= found[n].start
        /\ \A i \in 1..Len(text) :
            Occurs(text, i) /\ ~BehindBrace(text, i) =>
                \E n \in DOMAIN found : found[n].start = i \/ Inside(i, found[n])

(* "Replaces every {{seal:...}} occurrence in a file with its resolved     *)
(* value", and "an unresolved reference is an error" (README.md:298-301):  *)
(* when render succeeds, none is left as it was. The cursor moves over two *)
(* braces of what is not a reference (template.rs:55), and with them over  *)
(* the one that starts an occurrence behind a single brace.                *)
EveryOccurrenceReplaced ==
    command = "render" /\ phase = "done" =>
        \A i \in 1..Len(text) :
            Occurs(text, i) =>
                \E n \in DOMAIN found : found[n].start = i \/ Inside(i, found[n])

(* The tokens of a text, said without a cursor: the longest reference that *)
(* begins at a position, leftmost first. reference.rs parse_v1 takes       *)
(* t[i..e] for a reference under the kid before colon (one that is too     *)
(* short or does not open is refused by every command).                    *)
Parses(t, i, colon, e) ==
    LET kid == Slice(t, i + Len(MARKER), colon)
        blob == Slice(t, colon + 1, e)
    IN  /\ At(MARKER, t, i)
        /\ colon < Len(t) /\ t[colon] = ":"
        /\ kid # << >> /\ \A n \in DOMAIN kid : kid[n] \in {"seal", "v1", "k", "o", "n", "."}
        /\ blob # << >> /\ \A n \in DOMAIN blob : blob[n] \in {"seal", "v1", "k", "o", "n"}

EndsAt(t, i) ==
    {e \in (i + Len(MARKER) + 3)..(Len(t) + 1) :
        \E colon \in (i + Len(MARKER) + 1)..(e - 2) : Parses(t, i, colon, e)}

EndAt(t, i) == CHOOSE e \in EndsAt(t, i) : \A f \in EndsAt(t, i) : f <= e

TokensOf(t) ==
    LET begins[i \in 1..Len(t)] ==
            /\ At(MARKER, t, i)
            /\ EndsAt(t, i) # {}
            /\ \A j \in 1..(i - 1) : begins[j] => EndAt(t, j) <= i
    IN  UNION {{Token(t, i, colon, EndAt(t, i)) :
                    colon \in {c \in i..Len(t) : Parses(t, i, c, EndAt(t, i))}} :
                i \in {j \in 1..Len(t) : begins[j]}}

(* The scan finds what the parser would take, all of it and nothing else,  *)
(* in quotes, in braces, cut off by the end or run together with another   *)
(* (template.rs:100-138).                                                  *)
EveryTokenFound ==
    command = "rewrap" /\ phase = "write" =>
        /\ {found[n] : n \in DOMAIN found} = TokensOf(text)
        /\ \A n \in 2..Len(found) : found[n - 1].start < found[n].start

(* After a rotation no reference under the retired kid is left, so that    *)
(* its key can be removed from the keyring (main.rs:396-420).              *)
NoneLeftBehind ==
    command = "rewrap" /\ phase = "done" /\ From # To =>
        \A token \in TokensOf(out) : token.kid # From

(* "Leaving all other bytes untouched" (template.rs:149): everything that  *)
(* is not a placeholder, or a token under the retired kid, is copied byte  *)
(* for byte, and a value is put in as it is, braces included. And no slice *)
(* goes beyond the text, of which one would panic (template.rs:43, 79,     *)
(* 109, 166, 171).                                                         *)
GapBefore(n) ==
    Slice(text, IF n = 1 THEN 1 ELSE found[n - 1].end,
                IF n > Len(found) THEN Len(text) + 1 ELSE found[n].start)

Rewritten ==
    LET upTo[n \in 0..Len(found)] ==
            IF n = 0 THEN GapBefore(1) ELSE upTo[n - 1] \o values[n] \o GapBefore(n + 1)
    IN  upTo[Len(found)]

OtherBytesUntouched ==
    /\ cursor \in 1..(Len(text) + 1) /\ copied \in 1..(Len(text) + 1)
    /\ \A n \in DOMAIN found : found[n].start < found[n].end /\ found[n].end <= Len(text) + 1
    /\ phase = "done" =>
        /\ out = Rewritten
        /\ command = "rewrap" => \A n \in DOMAIN found :
            found[n].kid # From => values[n] = Slice(text, found[n].start, found[n].end)

(* All four loops end, whatever the text (template.rs:38-58, 75-82,        *)
(* 109-137, 159-170).                                                      *)
RewriteEnds == <>(phase \in {"done", "failed"})
=============================================================================
