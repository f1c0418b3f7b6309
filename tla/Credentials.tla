---------------------------- MODULE Credentials -----------------------------
(***************************************************************************)
(* What goes into the Authorization header of a Conjur read (conjur.rs):   *)
(* which of the variables gives the credential, and what normalise_token   *)
(* makes of a text that a sidecar may be writing while it is read. A token *)
(* is JSON, "{" n "}", of which "ey" n "fQ" is the base64 form.            *)
(***************************************************************************)
EXTENDS Texts

CONSTANTS
    Issue,        \* the n of the tokens there are
    Setting,      \* what CONJUR_AUTHN_TOKEN may hold
    KeySetting,   \* what CONJUR_AUTHN_API_KEY and the file may hold
    Written,      \* what the sidecar writes to the token file, one after the other
    Reply,        \* what the server may answer a login with
    Unset

(* A text ends with its first token: behind it are blanks.                 *)
NothingBehind(t) ==
    \A j \in 1..Len(t) : t[j] \in {"}", "fQ"} => \A i \in (j + 1)..Len(t) : t[i] \in Blank

ASSUME CredentialAssumption ==
    /\ Unset \notin Issue
    /\ Written \in Seq(Seq(STRING))
    /\ \A n \in DOMAIN Written : Written[n] # << >> /\ NothingBehind(Written[n])

VARIABLES
    settings,     \* the variables; a path is one, blanks, or unset
    tokenFile,    \* what the token file holds
    written,      \* how many texts the sidecar has written out
    keyFile,      \* what the API key file holds, or Unset when it cannot be read
    credential,   \* [is, text]
    posted,       \* the body of the login
    header,       \* the token of the read's Authorization header
    step          \* "settings", "login", "answer", "read", "sent", "failed"

around == <<settings, tokenFile, written, keyFile>>
credentialVars == <<around, credential, posted, header, step>>

Path == {"path", "blank", Unset}

CredentialInit ==
    /\ settings \in [tokenFile : Path, token : Setting, login : BOOLEAN, keyFile : Path, key : KeySetting]
    /\ tokenFile = << >>
    /\ written = 0
    /\ keyFile \in KeySetting
    /\ credential = [is |-> "none"]
    /\ posted = << >>
    /\ header = << >>
    /\ step = "settings"

(* The sidecar rewrites the token file in place, a part at a time; it is   *)
(* there, and empty, from the start, and nobody reads it after the start.  *)
Sidecar ==
    /\ step = "settings" /\ settings.tokenFile = "path"
    /\ written < Len(Written)
    /\ LET text == Written[written + 1]
       IN  IF At(tokenFile, text, 1) /\ tokenFile # << >> /\ tokenFile # text
           THEN tokenFile' = SubSeq(text, 1, Len(tokenFile) + 1)
           ELSE tokenFile' = SubSeq(text, 1, 1)
    /\ written' = IF tokenFile' = Written[written + 1] THEN written + 1 ELSE written
    /\ UNCHANGED <<settings, keyFile, credential, posted, header, step>>

(* normalise_token: the texts, at most one, that it makes of a text. Every *)
(* byte order mark goes, then blanks at both ends.                         *)
Unmarked(raw) == SubSeq(raw, RunEnd({"BOM"}, raw, 1), Len(raw))

TokenOf(t) == {<<"ey", n, "fQ">> : n \in {i \in Issue : t \in {<<"{", i, "}">>, <<"ey", i, "fQ">>}}}

Tokens(raw) == UNION {TokenOf(Trim(t)) : t \in {Unmarked(raw)}}

CredentialFails(from) ==
    /\ step = from /\ step' = "failed"
    /\ UNCHANGED <<around, credential, posted, header>>

Have(c, next) ==
    /\ credential' = c
    /\ step' = next
    /\ UNCHANGED <<around, posted, header>>

(* env_value and env_secret: blanks are as good as unset.                  *)
Set(v) == v # Unset /\ Trim(v) # << >>

(* Credential::from_env: the first of the three that is set, whether or    *)
(* not it is any good.                                                     *)
FromTokenFile ==
    /\ step = "settings" /\ settings.tokenFile = "path"
    /\ \E t \in Tokens(tokenFile) : Have([is |-> "token", text |-> t], "read")

NoTokenInFile ==
    settings.tokenFile = "path" /\ Tokens(tokenFile) = {} /\ CredentialFails("settings")

(* Slip: the variable is looked at when the file is no good.               *)
NotInFile == settings.tokenFile # "path" \/ Tokens(tokenFile) = {}

NoFileNamed == settings.tokenFile # "path"

FromTokenVariable ==
    /\ step = "settings" /\ NoFileNamed /\ Set(settings.token)
    /\ \E t \in Tokens(Trim(settings.token)) : Have([is |-> "token", text |-> t], "read")

NoTokenInVariable ==
    NoFileNamed /\ Set(settings.token) /\ Tokens(Trim(settings.token)) = {} /\ CredentialFails("settings")

ApiKey == IF settings.keyFile = "path" THEN keyFile ELSE settings.key

FromApiKey ==
    /\ step = "settings" /\ NoFileNamed /\ ~Set(settings.token)
    /\ settings.login /\ Set(ApiKey)
    /\ Have([is |-> "api key", text |-> Trim(ApiKey)], "login")

NoCredential ==
    /\ NoFileNamed /\ ~Set(settings.token)
    /\ ~settings.login \/ ~Set(ApiKey)
    /\ CredentialFails("settings")

(* authenticate: the key is the body, and the answer goes the same way as  *)
(* a token that was given; no answer, and none of 2xx, fail.               *)
Login ==
    /\ step = "login"
    /\ posted' = credential.text
    /\ step' = "answer"
    /\ UNCHANGED <<around, credential, header>>

Answered ==
    /\ step = "answer"
    /\ \E reply \in Reply : \E t \in Tokens(reply) : Have([is |-> "token", text |-> t], "read")

LoginFails == CredentialFails("answer")

ReadVariable ==
    /\ step = "read"
    /\ header' = credential.text
    /\ step' = "sent"
    /\ UNCHANGED <<around, credential, posted>>

Process ==
    \/ FromTokenFile \/ NoTokenInFile \/ FromTokenVariable \/ NoTokenInVariable
    \/ FromApiKey \/ NoCredential \/ Login \/ Answered \/ LoginFails \/ ReadVariable

CredentialNext == Process \/ Sidecar

CredentialSpec == CredentialInit /\ [][CredentialNext]_credentialVars

-----------------------------------------------------------------------------
(* The header holds the whole of one token, on one line, and never an API  *)
(* key, whatever was put into which variable and however far the sidecar   *)
(* has got (README.md:539-542, conjur.rs:258-262). "The first source that  *)
(* is present wins" (README.md:539): a token file that is named is the     *)
(* only thing that is looked at, and the key is sent to be exchanged only  *)
(* when no token is given.                                                 *)
FirstCredentialWins ==
    /\ step = "sent" =>
        /\ \E n \in Issue : header = <<"ey", n, "fQ">>
        /\ settings.tokenFile = "path" => \E n \in DOMAIN Written : header \in Tokens(Written[n])
        /\ settings.tokenFile # "path" /\ Set(settings.token) => header \in Tokens(Trim(settings.token))
    /\ posted # << >> => settings.tokenFile # "path" /\ ~Set(settings.token) /\ posted = Trim(ApiKey)
=============================================================================
