----------------------------- MODULE SealedText -----------------------------
(***************************************************************************)
(* The text of a file as protect and rewrap see it, and what each makes of *)
(* it (protect.rs protect_text, template.rs rewrap_text).                  *)
(***************************************************************************)
EXTENDS Naturals, Sequences

CONSTANTS
    Path,        \* the files
    Slot,        \* the values in a file
    Kid,         \* key ids
    Keyring,     \* the kids of the keyring, the same for every invocation
    Job          \* the invocations considered

(* A value in a file: plaintext under a secret-looking name; a reference   *)
(* sealed under a kid, or one that parses but does not open; a text that   *)
(* starts with "seal:" and does not parse; or anything protect leaves.     *)
Plain      == [is |-> "plain"]
Malformed  == [is |-> "malformed"]
Other      == [is |-> "other"]
Sealed(k)  == [is |-> "sealed", kid |-> k]
Damaged(k) == [is |-> "damaged", kid |-> k]

Value == {Plain, Malformed, Other} \cup [is : {"sealed", "damaged"}, kid : Kid]

Content == [Slot -> Value]

Invocation == [cmd : {"protect"}, kid : Kid, files : Seq(Path)]
                \cup [cmd : {"rewrap"}, from : Kid, to : Kid, files : Seq(Path)]

ASSUME JobAssumption == \A j \in Job : j \in Invocation /\ Len(j.files) > 0

(* Which values of a text a command rewrites, and what it makes of one.    *)
Takes(j, v) == IF j.cmd = "protect" THEN v = Plain ELSE v = Sealed(j.from)

Made(j) == Sealed(IF j.cmd = "protect" THEN j.kid ELSE j.to)

Transformed(j, text) == [s \in Slot |-> IF Takes(j, text[s]) THEN Made(j) ELSE text[s]]

(* Slip: an off-by-one in the test of the count.                           *)
TouchesSeveral(j, text) ==
    \E s, t \in Slot : s # t /\ Takes(j, text[s]) /\ Takes(j, text[t])

(* sealed > 0, count > 0                                                   *)
Touches(j, text) == \E s \in Slot : Takes(j, text[s])

(* protect refuses a reference that does not parse (which stands for every *)
(* line it refuses), and needs its key only when there is something to     *)
(* seal; rewrap refuses a token under the old kid that does not open.      *)
Refuses(j, text) ==
    IF j.cmd = "protect"
    THEN \/ \E s \in Slot : text[s] = Malformed
         \/ Touches(j, text) /\ j.kid \notin Keyring
    ELSE \E s \in Slot : text[s] = Damaged(j.from)
=============================================================================
