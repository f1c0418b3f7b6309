------------------------------- MODULE Texts --------------------------------
(***************************************************************************)
(* What the scanners of template.rs, dotenv.rs and keyring.rs use of the   *)
(* standard library's str. A text is a sequence of symbols; a symbol is a  *)
(* byte, or a word such as "seal" of which no scanner looks at a part.     *)
(* Positions count from 1, and a range ends before its end, as in Rust.    *)
(***************************************************************************)
EXTENDS Naturals, Sequences

(* text[i..j]                                                              *)
Slice(t, i, j) == SubSeq(t, i, j - 1)

(* text[i..].starts_with(word)                                             *)
At(word, t, i) == i + Len(word) <= Len(t) + 1 /\ Slice(t, i, i + Len(word)) = word

(* i is where text[from..].find(word) points; or it finds nothing.         *)
First(word, t, from, i) ==
    /\ i \in from..Len(t)
    /\ At(word, t, i)
    /\ \A j \in from..(i - 1) : ~At(word, t, j)

Absent(word, t, from) == \A j \in from..Len(t) : ~At(word, t, j)

(* The end of the longest run of symbols of Class that starts at i.        *)
RunEnd(Class, t, i) ==
    CHOOSE e \in i..(Len(t) + 1) :
        /\ \A j \in i..(e - 1) : t[j] \in Class
        /\ e <= Len(t) => t[e] \notin Class

(* Where the lines of a text start, and a line without its line end.       *)
LineStarts(t) == {i \in 1..Len(t) : i = 1 \/ t[i - 1] = "\n"}

LineFrom(t, i) ==
    IF Absent(<<"\n">>, t, i) THEN SubSeq(t, i, Len(t))
    ELSE Slice(t, i, CHOOSE e \in i..Len(t) : First(<<"\n">>, t, i, e))

(* trim_start(), trim_end(), trim()                                        *)
Blank == {" ", "\n", "\r"}

TrimStart(t) ==
    IF \A i \in DOMAIN t : t[i] \in Blank THEN << >>
    ELSE SubSeq(t, RunEnd(Blank, t, 1), Len(t))

TrimEnd(t) ==
    LET Ends(n) == (n > 0 => t[n] \notin Blank) /\ \A j \in (n + 1)..Len(t) : t[j] \in Blank
    IN  SubSeq(t, 1, CHOOSE n \in 0..Len(t) : Ends(n))

Trim(t) == TrimEnd(TrimStart(t))
=============================================================================
