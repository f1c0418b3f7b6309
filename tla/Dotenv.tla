------------------------------- MODULE Dotenv -------------------------------
(***************************************************************************)
(* The dotenv parser (dotenv.rs) as operators on texts. A text is refused  *)
(* or is a set of entries; the place of its value orders them. What may    *)
(* fail returns a set, empty when it fails.                                *)
(***************************************************************************)
EXTENDS Texts

(* A backslash makes the next symbol literal, or a control character; it   *)
(* is escaped itself behind another one (read_double_quoted). Position 1   *)
(* is the opening quote.                                                   *)
EscapedIn(body) ==
    LET escaped[i \in 1..Len(body)] == i > 2 /\ body[i - 1] = "\\" /\ ~escaped[i - 1]
    IN  escaped

Unescape(c) == IF c = "n" THEN "\n" ELSE c

Unescaped(body, close) ==
    LET escaped == EscapedIn(body)
        upTo[i \in 1..(close - 1)] ==
            IF i = 1 THEN << >>
            ELSE IF escaped[i] THEN Append(upTo[i - 1], Unescape(body[i]))
            ELSE IF body[i] = "\\" THEN upTo[i - 1]
            ELSE Append(upTo[i - 1], body[i])
    IN  upTo[close - 1]

(* check_trailer: only a comment may follow the closing quote.             *)
MayFollow(trailer) == Trim(trailer) = << >> \/ At(<<"#">>, Trim(trailer), 1)

Closes(body, c) ==
    /\ body[c] = "\"" /\ ~EscapedIn(body)[c]
    /\ \A j \in 2..(c - 1) : body[j] = "\"" => EscapedIn(body)[j]

DoubleQuoted(body) ==
    {[value |-> Unescaped(body, close), start |-> 2, end |-> close] :
        close \in {c \in 2..Len(body) :
                    Closes(body, c) /\ MayFollow(SubSeq(body, c + 1, Len(body)))}}

SingleQuoted(body) ==
    {[value |-> Slice(body, 2, close), start |-> 2, end |-> close] :
        close \in {c \in 2..Len(body) :
                    First(<<"'">>, body, 2, c) /\ MayFollow(SubSeq(body, c + 1, Len(body)))}}

(* A '#' starts a comment behind a space; at the very front it does not.   *)
StripInlineComment(value) ==
    LET starts == {i \in 2..Len(value) : value[i] = "#" /\ value[i - 1] = " "}
    IN  IF starts = {} THEN value
        ELSE SubSeq(value, 1, (CHOOSE i \in starts : \A j \in starts : i <= j) - 1)

(* Slip: the span of a bare value reaches to where its comment starts.     *)
BareUpToComment(body) ==
    {[value |-> TrimEnd(StripInlineComment(body)),
      start |-> 1, end |-> 1 + Len(StripInlineComment(body))]}

Bare(body) ==
    LET token == TrimEnd(StripInlineComment(body))
    IN  {[value |-> token, start |-> 1, end |-> 1 + Len(token)]}

(* parse_value: what is behind the first '='. Positions are in body, which *)
(* is rest without leading blanks.                                         *)
ParseValue(body) ==
    IF body = << >> THEN Bare(body)
    ELSE CASE Head(body) = "\"" -> DoubleQuoted(body)
           [] Head(body) = "'"  -> SingleQuoted(body)
           [] OTHER             -> Bare(body)

(* A line without the carriage returns of its end: one belongs to the line *)
(* end, one more is stripped from any line.                                *)
DropCR(line) ==
    IF line # << >> /\ line[Len(line)] = "\r" THEN SubSeq(line, 1, Len(line) - 1) ELSE line

Line(t, i) ==
    IF Absent(<<"\n">>, t, i) THEN DropCR(LineFrom(t, i)) ELSE DropCR(DropCR(LineFrom(t, i)))

Ignored(line) == TrimStart(line) = << >> \/ At(<<"#">>, TrimStart(line), 1)

AfterExport(content) ==
    IF Len(content) > 1 /\ content[1] = "export" /\ content[2] \in Blank
    THEN TrimStart(Tail(content)) ELSE content

(* The entry of the line that starts at i, with its value's place in t.    *)
LineEntry(t, i) ==
    LET content == AfterExport(TrimStart(Line(t, i)))
        Key(eq)  == TrimEnd(SubSeq(content, 1, eq - 1))
        Body(eq) == TrimStart(SubSeq(content, eq + 1, Len(content)))
        before(eq) == i - 1 + Len(Line(t, i)) - Len(Body(eq))
    IN  UNION {{[key |-> Key(eq), value |-> v.value,
                 start |-> before(eq) + v.start, end |-> before(eq) + v.end] :
                    v \in ParseValue(Body(eq))} :
                eq \in {e \in 2..Len(content) :
                            /\ First(<<"=">>, content, 1, e)
                            /\ Key(e) # << >>
                            /\ \A n \in DOMAIN Key(e) : Key(e)[n] \notin Blank}}

EntryLines(t) == {i \in LineStarts(t) : ~Ignored(Line(t, i))}

(* parse: Err for the first line that is no assignment, or every entry.    *)
Refused(t) == \E i \in EntryLines(t) : LineEntry(t, i) = {}

Entries(t) == UNION {LineEntry(t, i) : i \in EntryLines(t)}
=============================================================================
