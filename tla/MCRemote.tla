------------------------------ MODULE MCRemote ------------------------------
(***************************************************************************)
(* What a remote read needs before it can be sent: the agent's trust and   *)
(* identity (TlsSetup), the Conjur credential (Credentials), and the URL   *)
(* (Urls). They share no state, so one of the three is looked at in a      *)
(* behaviour and the other two rest.                                       *)
(***************************************************************************)
EXTENDS TlsSetup, Credentials, Urls

-----------------------------------------------------------------------------
(* TlsSetup: two anchors, two client identities (one with an intermediate) *)
(* and files that do not hold one.                                         *)
CONSTANTS root1, root2, cert1, cert2, key1, key2

MCCaText == {<<root1>>, <<root1, root2>>, <<root2, Defect>>, << >>}

MCIssued == {[chain |-> <<cert1>>, keys |-> <<key1>>],
             [chain |-> <<cert2, cert1>>, keys |-> <<key2>>],
             [chain |-> <<cert2>>, keys |-> <<key2>>],
             [chain |-> <<cert2, Defect>>, keys |-> <<key2, key1>>],
             [chain |-> <<Defect, cert1>>, keys |-> <<Defect>>],
             [chain |-> << >>, keys |-> << >>]}

MCKeyOf == [c \in Cert |-> IF c = cert1 THEN key1 ELSE key2]

-----------------------------------------------------------------------------
(* Credentials: a token of its own in every place that may hold one, in    *)
(* either form, and what else turns up there.                              *)
MCWritten == <<<<"{", "1", "}", "\n">>, <<"ey", "2", "fQ">>>>

MCSetting == {"unset", << >>, <<"\n">>, <<"BOM", "BOM", " ", "{", "3", "}">>,
            <<" ", "BOM", "{", "3", "}">>, <<"ey", "3", "fQ", "\n">>,
            <<"ey", "3", "\n", "fQ">>, <<"ey", "fQ">>, <<"api">>, <<"{", "3">>,
            <<"{", "3", "}", "}">>, <<"ey", "3", "fQ", "ey", "3", "fQ">>}

MCKeySetting == {"unset", <<" ">>, <<"api", "\n">>, <<"ey", "5", "fQ">>}

MCReply == {<<"ey", "4", "fQ">>, <<"{", "4", "}">>, <<"api">>, << >>}

-----------------------------------------------------------------------------
(* Urls: bodies of any shape, and bodies that are likely to be accepted,   *)
(* made of every character one of the parsers or a URL treats in its own   *)
(* way.                                                                    *)
MCUnreserved == {"a", ".", "2F", "2E", "h", "p"}

MCHex == [c \in {".", "/", "%", "#", "?", "&", "+", " ", ":"} |->
            CASE c = "." -> "2E" [] c = "/" -> "2F" [] c = "%" -> "25" [] c = "#" -> "23"
              [] c = "?" -> "3F" [] c = "&" -> "26" [] c = "+" -> "2B" [] c = " " -> "20"
              [] c = ":" -> "3A"]

MCMark == {"a", ".", "/", "%", "2F", "#"}

MCSymbol == MCMark \cup {"?", "&", "+", " ", "2E"}

MCBody ==
    BoundedSeq(MCSymbol, 3)
        \cup {<<"a", "/">> \o s \o <<"#", "a">> : s \in BoundedSeq(MCSymbol, 3)}
        \cup {s \o <<"/">> \o t \o <<"#", "a">> : s, t \in BoundedSeq(MCMark, 2)}

MCBase == {<<"h">>, <<" ", "h", "/", "p", "/", "/", " ">>}

MCTenant == {<<"a", "/", "&", " ">>}

-----------------------------------------------------------------------------
VARIABLE turn    \* which of the three is looked at: "tls", "credential", "url"

TlsRests ==
    /\ env = [f \in Files |-> FALSE] /\ disk = [f \in Files |-> << >>]
    /\ held = [f \in Files |-> {<< >>}] /\ opened = << >>
    /\ roots = [builtin |-> TRUE, certs |-> << >>]
    /\ identity = NoIdentity /\ at = "rests"

CredentialRests ==
    /\ settings = [tokenFile |-> "unset"] /\ tokenFile = << >> /\ written = 0
    /\ keyFile = << >> /\ credential = [is |-> "none"]
    /\ posted = << >> /\ header = << >> /\ step = "rests"

UrlRests ==
    /\ provider = "vault" /\ body = << >> /\ base = << >> /\ tenant = << >>
    /\ ref = [none |-> << >>] /\ url = << >>
    /\ read = [path |-> << >>, query |-> << >>] /\ urlAt = "rests"

RemoteInit ==
    \/ turn = "tls" /\ Init /\ CredentialRests /\ UrlRests
    \/ turn = "credential" /\ TlsRests /\ CredentialInit /\ UrlRests
    \/ turn = "url" /\ TlsRests /\ CredentialRests /\ UrlInit

RemoteNext ==
    \/ turn = "tls" /\ Next /\ UNCHANGED <<turn, credentialVars, urls>>
    \/ turn = "credential" /\ CredentialNext /\ UNCHANGED <<turn, vars, urls>>
    \/ turn = "url" /\ UrlNext /\ UNCHANGED <<turn, vars, credentialVars>>

RemoteSpec == RemoteInit /\ [][RemoteNext]_<<turn, vars, credentialVars, urls>>
=============================================================================
