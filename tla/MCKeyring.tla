----------------------------- MODULE MCKeyring ------------------------------
(***************************************************************************)
(* A keyring as a text that is parsed and edited (KeyringText), and as the *)
(* lines that shells load while an operator edits them (Rotation). The two *)
(* share no state, so one of them is looked at in a behaviour and the      *)
(* other rests.                                                            *)
(***************************************************************************)
EXTENDS KeyringText, Rotation, SequencesExt

-----------------------------------------------------------------------------
(* KeyringText: up to three lines, ended by newlines or semicolons, the    *)
(* last one perhaps not ended.                                             *)
MCKid    == {"a", "b", "c"}
MCRandom == {"R", "S"}

ALine == {<<"a", " ", "R">>, <<" ", "b", " ", " ", "S", "\r">>, <<"a", " ", "argon2id:", "p">>,
          <<"b", " ", "argon2id:", " ", "p", "#">>, <<"a", "b", " ", "R">>,
          <<"#", "a", " ", "R">>, <<" ">>, <<"a">>, <<"a", " ", "argon2id:">>,
          <<"argon2id:", "p", " ", "a">>, <<"b", " ", "R", "S">>}

MCFresh == {<<"a", " ", "S">>, <<"c", " ", "S">>}

Ended == {Append(line, end) : line \in ALine, end \in {"\n", ";"}}

MCSource == {FlattenSeq(s) \o last : s \in BoundedSeq(Ended, 2), last \in ALine \cup {<< >>}}

-----------------------------------------------------------------------------
(* Rotation: one person who seals and rotates keys over a file of two      *)
(* entries; and info beside a seal, while keyrings come and go.            *)
MCText == {"p", "p\n", "bin"}

Seals == {j \in Job : j.cmd = "seal" /\ (j.text = "p\n" \/ ~j.trim) /\ (j.text = "p" => j.default)}

Alone == [p \in Shell |->
            IF p = "ann" THEN Seals \cup {j \in Job : j.cmd \in {"unseal", "rewrap"}} ELSE {}]

Beside == [p \in Shell |->
            IF p = "ann" THEN {j \in Job : j.cmd = "info"}
            ELSE {j \in Seals : j.default /\ j.text = "p" /\ j.slot = "TOKEN"}]

MCScenes ==
    {[duty |-> Alone, moves |-> {"append", "promote", "drop"},
      given |-> {{"file"}}, edits |-> 3],
     [duty |-> Beside, moves |-> {"append", "promote", "default"},
      given |-> SUBSET {"fd", "file", "inline"}, edits |-> 2]}

ASSUME OneEditor /\ OpenedWhereItIs

-----------------------------------------------------------------------------
VARIABLE turn    \* which of the two is looked at: "text", "rotation"

TextRests ==
    /\ text = << >> /\ inline = FALSE /\ next = 1 /\ keys = << >>
    /\ edit = [is |-> "none"] /\ phase = "rests"

RotationRests ==
    /\ scene = [moves |-> {}] /\ given = {} /\ there = FALSE
    /\ lines = [s \in KeySource |-> << >>] /\ edits = 0 /\ keygens = 0
    /\ file = NoFile /\ meant = NoFile
    /\ job = [p \in Shell |-> [cmd |-> "info"]] /\ at = [p \in Shell |-> "rests"]
    /\ source = << >> /\ ring = << >> /\ seen = << >> /\ began = << >> /\ out = << >>

KeyringInit ==
    \/ turn = "text" /\ Init /\ RotationRests
    \/ turn = "rotation" /\ TextRests /\ RotationInit

KeyringNext ==
    \/ turn = "text" /\ Next /\ UNCHANGED <<turn, rotationVars>>
    \/ turn = "rotation" /\ RotationNext /\ UNCHANGED <<turn, vars>>

KeyringSpec == KeyringInit /\ [][KeyringNext]_<<turn, vars, rotationVars>>
=============================================================================
