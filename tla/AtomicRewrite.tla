--------------------------- MODULE AtomicRewrite ----------------------------
(***************************************************************************)
(* What an in-place rewrite looks like from outside, to whoever reads a    *)
(* file at whatever moment: one file at a time goes, in one step, from its *)
(* text to the text a command makes of it, and its permissions never       *)
(* change. At no moment is a file missing or cut short, but for a power    *)
(* loss, which may take what was put there since the disk was last written.*)
(***************************************************************************)
EXTENDS SealedText

VARIABLES
    file,    \* what each path leads to: [text, whole, mode]
    fresh    \* the paths whose new text is not on the disk yet

Init ==
    /\ \A a \in Path : file[a].whole
    /\ fresh = {}

Replace(a) ==
    /\ file[a].whole
    /\ \E j \in Job :
        /\ \E i \in DOMAIN j.files : j.files[i] = a
        /\ ~Refuses(j, file[a].text)
        /\ file' = [file EXCEPT ![a].text = Transformed(j, @)]
    /\ fresh' \in {fresh \cup {a}, fresh \ {a}}

Settle ==
    /\ \E a \in fresh : fresh' = fresh \ {a}
    /\ UNCHANGED file

LosePower ==
    /\ \E lost \in SUBSET fresh :
        file' = [a \in Path |-> IF a \in lost THEN [file[a] EXCEPT !.whole = FALSE] ELSE file[a]]
    /\ fresh' = {}

Next == (\E a \in Path : Replace(a)) \/ Settle \/ LosePower

Spec == Init /\ [][Next]_<<file, fresh>>
=============================================================================
