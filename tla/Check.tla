------------------------------- MODULE Check --------------------------------
(***************************************************************************)
(* check (check.rs): which values fail, and the exit code over files. A    *)
(* reference is a word behind "seal" and ":"; Reference::parse takes two   *)
(* words, one that is sealed and one that a server answers for.            *)
(***************************************************************************)
EXTENDS Braces, Dotenv

SEALED  == <<"seal", ":", "v1">>
LOCATOR == <<"seal", ":", "vault">>

Parses(value) == value \in {SEALED, LOCATOR}

(* A name that one of the patterns matches.                                *)
IsSensitive(key) == key = <<"PASS">>

(* check_value(..).failed                                                  *)
Fails(requireSealed, key, value) ==
    IF IsReference(value) THEN ~Parses(value)
    ELSE requireSealed /\ value # << >> /\ IsSensitive(key)

(* template::private_key_blocks has an entry                               *)
PrivateKeyBlock(t) ==
    \E i \in LineStarts(t) :
        /\ At(<<"-----BEGIN">>, TrimStart(Line(t, i)), 1)
        /\ ~Absent(<<"PRIVATE", " ", "KEY-----">>, Line(t, i), 1)

(* check_template_text: what is between the braces stands for a value; the *)
(* name of the line is not one that is sensitive.                          *)
TemplateFails(t) ==
    \E i, end \in 1..Len(t) :
        /\ Occurs(t, i) /\ ~OddBraces(t, i)
        /\ First(CLOSE, t, i + Len(OPEN), end)
        /\ Fails(FALSE, << >>, Trim(Slice(t, i + Len(OPEN), end)))

(* check_file returns Err, or a report in which something failed.          *)
Errs(t) == ~HasPlaceholder(t) /\ Refused(t)

(* Slip: the flag does not reach the values of positional files.           *)
FileFailsUnsealed(requireSealed, t) ==
    \/ HasPlaceholder(t) /\ TemplateFails(t)
    \/ ~HasPlaceholder(t) /\ \E e \in Entries(t) : Fails(FALSE, e.key, e.value)
    \/ requireSealed /\ PrivateKeyBlock(t)

FileFails(requireSealed, t) ==
    \/ HasPlaceholder(t) /\ TemplateFails(t)
    \/ ~HasPlaceholder(t) /\ \E e \in Entries(t) : Fails(requireSealed, e.key, e.value)
    \/ requireSealed /\ PrivateKeyBlock(t)

(* The process exit code over the files given with --env-file, which are   *)
(* always dotenv, and the positional ones: an error before every finding.  *)
ExitCode(requireSealed, envFiles, files) ==
    IF (\E t \in envFiles : Refused(t)) \/ (\E t \in files : Errs(t)) THEN 1
    ELSE IF \/ \E t \in envFiles : \E e \in Entries(t) : Fails(requireSealed, e.key, e.value)
            \/ \E t \in files : FileFails(requireSealed, t)
         THEN 2
    ELSE 0
=============================================================================
