------------------------------- MODULE Braces -------------------------------
(***************************************************************************)
(* What a placeholder is, said of a position in a text and without a       *)
(* cursor. check, protect and exec ask whether a text holds one; the scan  *)
(* that answers is module Templates.                                       *)
(***************************************************************************)
EXTENDS Texts

OPEN  == <<"{", "{">>
CLOSE == <<"}", "}">>

(* reference::is_reference                                                 *)
IsReference(value) == At(<<"seal", ":">>, value, 1)

(* A {{...}} group whose contents, trimmed, are a reference begins at i.   *)
Occurs(t, i) ==
    /\ At(OPEN, t, i)
    /\ \E end \in 1..Len(t) :
        /\ First(CLOSE, t, i + Len(OPEN), end)
        /\ IsReference(Trim(Slice(t, i + Len(OPEN), end)))

(* The code's scan takes the braces of what is not a reference two by two  *)
(* (template.rs:55), so it does not stop at i if the run of braces right   *)
(* before i is odd. That it should is EveryOccurrenceReplaced.             *)
OddBraces(t, i) ==
    \E n \in 1..i :
        /\ n % 2 = 1
        /\ \A j \in (i - n)..(i - 1) : j \in DOMAIN t /\ t[j] = "{"
        /\ i - n = 1 \/ t[i - n - 1] # "{"

(* !template::placeholders(text).is_empty(), what the scan overlooks left  *)
(* out as the code leaves it out.                                          *)
HasPlaceholder(t) == \E i \in 1..Len(t) : Occurs(t, i) /\ ~OddBraces(t, i)
=============================================================================
