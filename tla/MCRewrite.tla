----------------------------- MODULE MCRewrite ------------------------------
(***************************************************************************)
(* Small instances of Rewrite: two files of two values, and invocations    *)
(* that protect, that rotate a key forwards, and that are refused.         *)
(***************************************************************************)
EXTENDS Rewrite

MCKid  == {"old", "new", "gone"}
MCMode == {"private", "open"}
MCSlot == {"user", "pass"}
MCPath == {"a.env", "b.env"}
OnePath == {"a.env"}

Protect(kid, files) == [cmd |-> "protect", kid |-> kid, files |-> files]
Rewrap(from, to, files) == [cmd |-> "rewrap", from |-> from, to |-> to, files |-> files]

MCJob == {Protect("old", <<"a.env", "b.env">>), Protect("gone", <<"b.env">>),
          Rewrap("old", "new", <<"b.env", "a.env">>), Rewrap("gone", "new", <<"a.env">>)}

OneJob == {Protect("old", <<"a.env">>)}

Holding(user, pass, mode) ==
    [text |-> [s \in MCSlot |-> IF s = "user" THEN user ELSE pass], whole |-> TRUE, mode |-> mode]

Files(a, b) == [p \in MCPath |-> IF p = "a.env" THEN a ELSE b]

MCStart == {Files(Holding(Other, Plain, "open"), Holding(Plain, Sealed("old"), "private")),
            Files(Holding(Plain, Plain, "open"), Holding(Malformed, Plain, "open")),
            Files(Holding(Plain, Sealed("old"), "open"), Holding(Sealed("old"), Damaged("old"), "open"))}

OneStart == {[p \in OnePath |-> Holding(Plain, Sealed("old"), "open")]}
=============================================================================
