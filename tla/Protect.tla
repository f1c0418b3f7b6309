------------------------------ MODULE Protect -------------------------------
(***************************************************************************)
(* Sealing the plaintext values of one dotenv text in place (protect.rs    *)
(* protect_text): the loop over its entries, one a step.                   *)
(***************************************************************************)
EXTENDS Check, FiniteSets

CONSTANTS
    Source       \* the texts considered

ASSUME SourceAssumption == Source \subseteq Seq(STRING)

VARIABLES
    text,        \* the file
    all,         \* --all
    cursor,      \* what is before it has been copied or replaced
    dealt,       \* the entries the loop has dealt with
    plain,       \* for each value sealed, where it was, and the value
    out,         \* the new text so far
    phase        \* "loop", or how it ended: "done", "failed"

vars == <<text, all, cursor, dealt, plain, out, phase>>

Init ==
    /\ text \in Source
    /\ all \in BOOLEAN
    /\ cursor = 1
    /\ dealt = {}
    /\ plain = {}
    /\ out = << >>
    /\ phase = "loop"

Fail ==
    /\ phase' = "failed"
    /\ out' = << >>
    /\ plain' = {}
    /\ UNCHANGED <<text, all, cursor, dealt>>

(* A template, and a text that does not parse.                             *)
RefuseText ==
    /\ phase = "loop" /\ dealt = {}
    /\ HasPlaceholder(text) \/ Refused(text)
    /\ Fail

Accepted == phase = "loop" /\ ~HasPlaceholder(text) /\ ~Refused(text)

(* The loop's next entry.                                                  *)
AtEntry(e) ==
    /\ Accepted
    /\ e \in Entries(text) \ dealt
    /\ \A f \in Entries(text) \ dealt : e.start <= f.start

Malformed(e) == Fails(TRUE, e.key, e.value) /\ IsReference(e.value)

(* Slip: --all takes every value that is not empty.                        *)
WantedWithReferences(e) ==
    \/ Fails(TRUE, e.key, e.value)
    \/ all /\ e.value # << >>

Wanted(e) ==
    \/ Fails(TRUE, e.key, e.value)
    \/ all /\ ~IsReference(e.value) /\ e.value # << >>

RefuseEntry ==
    /\ \E e \in Entries(text) : AtEntry(e) /\ Malformed(e)
    /\ Fail

(* Slip: the quotes are replaced with the value.                           *)
WithQuotes(e) ==
    IF text[e.start - 1] \in {"\"", "'"} THEN [start |-> e.start - 1, end |-> e.end + 1]
    ELSE [start |-> e.start, end |-> e.end]

(* value_span                                                              *)
Span(e) == [start |-> e.start, end |-> e.end]

LeaveEntry ==
    /\ \E e \in Entries(text) :
        /\ AtEntry(e)
        /\ ~Malformed(e)
        /\ ~Wanted(e)
        /\ dealt' = dealt \cup {e}
    /\ UNCHANGED <<text, all, cursor, plain, out, phase>>

SealEntry ==
    /\ \E e \in Entries(text) :
        /\ AtEntry(e)
        /\ ~Malformed(e)
        /\ Wanted(e)
        /\ dealt' = dealt \cup {e}
        /\ out' = out \o Slice(text, cursor, Span(e).start) \o SEALED
        /\ plain' = plain \cup {[at |-> Len(out') - Len(SEALED) + 1, value |-> e.value]}
        /\ cursor' = Span(e).end
    /\ UNCHANGED <<text, all, phase>>

(* No keyring, or not that kid: sealing fails.                             *)
SealFails ==
    /\ \E e \in Entries(text) : AtEntry(e) /\ ~Malformed(e) /\ Wanted(e)
    /\ Fail

CopyRest ==
    /\ Accepted
    /\ Entries(text) \subseteq dealt
    /\ out' = out \o SubSeq(text, cursor, Len(text))
    /\ phase' = "done"
    /\ UNCHANGED <<text, all, cursor, dealt, plain>>

Next ==
    \/ RefuseText \/ RefuseEntry \/ LeaveEntry
    \/ SealEntry \/ SealFails \/ CopyRest

Spec == Init /\ [][Next]_vars

-----------------------------------------------------------------------------
(* What exec will read from the new file is what it read from the old one: *)
(* the same names in the same order, and each value the same or a          *)
(* reference that opens to it, quotes and escapes and comments around it   *)
(* whatever they were (protect.rs:48-52, README.md:367-370).               *)
Rank(e, t) == Cardinality({f \in Entries(t) : f.start < e.start})

Opens(e) ==
    LET sealed == {p \in plain : p.at = e.start}
    IN  IF sealed = {} THEN {e.value} ELSE {p.value : p \in sealed}

ReadsBack ==
    phase = "done" =>
        /\ ~Refused(out)
        /\ Cardinality(Entries(out)) = Cardinality(Entries(text))
        /\ \A e \in Entries(text) : \E f \in Entries(out) :
            /\ Rank(f, out) = Rank(e, text)
            /\ f.key = e.key
            /\ Opens(f) = {e.value}
            /\ Wanted(e) => f.value = SEALED

(* "Every other byte of the file [...] is unchanged" (README.md:368-369):  *)
(* with the values that were sealed cut out, the texts are the same; and   *)
(* no slice begins behind its end, of which one would panic                *)
(* (protect.rs:106, 112).                                                  *)
Without(t, spans) ==
    LET upTo[i \in 0..Len(t)] ==
            IF i = 0 THEN << >>
            ELSE IF \E e \in spans : e.start <= i /\ i < e.end THEN upTo[i - 1]
            ELSE Append(upTo[i - 1], t[i])
    IN  upTo[Len(t)]

OnlyValuesChange ==
    /\ \A e \in Entries(text) : e \in dealt \/ cursor <= e.start
    /\ phase = "done" =>
        Without(text, {e \in Entries(text) : Wanted(e)})
            = Without(out, {[start |-> p.at, end |-> p.at + Len(SEALED)] : p \in plain})

(* A protected file passes check --require-sealed (protect.rs:3-4): no     *)
(* error and no value that fails, which leaves raw private key blocks. And *)
(* running protect over it again needs no key and changes nothing          *)
(* (README.md:355-356).                                                    *)
ProtectedPasses ==
    phase = "done" =>
        /\ \/ ExitCode(TRUE, {}, {out}) = 0
           \/ ExitCode(TRUE, {}, {out}) = 2 /\ PrivateKeyBlock(text)
        /\ ~HasPlaceholder(out)
        /\ \A e \in Entries(out) : ~Wanted(e) /\ ~Malformed(e)

(* check --require-sealed is protect's dry run (README.md:354): it passes  *)
(* a file that protect accepts just when protect would leave it alone,     *)
(* whichever way it is named, raw private key blocks apart.                *)
CheckIsDryRun ==
    phase = "done" /\ ~all =>
        /\ (ExitCode(TRUE, {text}, {}) = 0) = (out = text)
        /\ ~PrivateKeyBlock(text) => (ExitCode(TRUE, {}, {text}) = 0) = (out = text)
=============================================================================
