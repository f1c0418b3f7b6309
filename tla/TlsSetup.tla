------------------------------ MODULE TlsSetup ------------------------------
(***************************************************************************)
(* The TLS configuration of the one shared agent (http.rs agent,           *)
(* build_agent, tls_config): the trust anchors, the client's certificate   *)
(* chain and its key are read from three files, one after the other, while *)
(* a certificate manager renews those files. A file is renewed by a        *)
(* rename, so a reader that has opened it reads what it opened. A file that*)
(* is missing, is no PEM, or holds nothing is << >>: all are refused.      *)
(***************************************************************************)
EXTENDS Naturals, Sequences, FiniteSets

CONSTANTS
    Anchor,       \* certificates a root store accepts
    Defect,       \* what stands for a certificate or a key that is not usable
    CaText,       \* what the CA file may hold: certificates and defects
    Cert,         \* certificates that a client may present
    Key,          \* private keys
    Issued,       \* [chain, keys]: what the manager writes, a file at a time
    KeyOf,        \* the key whose public half a certificate holds
    Renewals      \* bound: new contents of files during one set-up

ASSUME TlsAssumption ==
    /\ Defect \notin Anchor \cup Cert \cup Key
    /\ CaText \subseteq Seq(Anchor \cup {Defect})
    /\ \A issue \in Issued :
        /\ issue.chain \in Seq(Cert \cup {Defect})
        /\ issue.keys \in Seq(Key \cup {Defect})
    /\ KeyOf \in [Cert -> Key]
    /\ Renewals \in Nat

VARIABLES
    env,          \* what is left of the three variables when trimmed: set?
    disk,         \* the three files
    held,         \* what the files have held since the process started
    opened,       \* what is left to read of the CA file
    roots,        \* the trust anchors; [builtin: BOOLEAN, certs: Seq]
    identity,     \* [chain, key, ureqKey], as far as it is read
    at            \* the step of the set-up, or how it ended

process == <<opened, roots, identity, at>>
world   == <<env, disk, held>>
vars    == <<env, disk, held, opened, roots, identity, at>>

Files == {"ca", "chain", "keys"}

NoIdentity == [chain |-> << >>, key |-> Defect, ureqKey |-> Defect]

(* env_path: a variable of blanks only is not set.                         *)
Init ==
    /\ env \in [Files -> BOOLEAN]
    /\ \E ca \in CaText, issue \in Issued :
        disk = [ca |-> ca, chain |-> issue.chain, keys |-> issue.keys]
    /\ held = [f \in Files |-> {disk[f]}]
    /\ opened = << >>
    /\ roots = [builtin |-> TRUE, certs |-> << >>]
    /\ identity = NoIdentity
    /\ at = "agent"

NewContents ==
    Cardinality(held["ca"]) + Cardinality(held["chain"]) + Cardinality(held["keys"]) - 3

(* The manager: one of the three files is another one from now on.         *)
Renewed(f, content) ==
    /\ content # disk[f]
    /\ disk' = [disk EXCEPT ![f] = content]
    /\ held' = [held EXCEPT ![f] = @ \cup {content}]
    /\ content \notin held[f] => NewContents < Renewals
    /\ UNCHANGED <<env, process>>

Renew ==
    \/ \E ca \in CaText : Renewed("ca", ca)
    \/ \E issue \in Issued : Renewed("chain", issue.chain)
    \/ \E issue \in Issued : Renewed("keys", issue.keys)

Fail(from) ==
    /\ at = from /\ at' = "failed"
    /\ UNCHANGED <<world, opened, roots, identity>>

(* root_certs: the file, or ureq's own bundle.                             *)
BuiltinRoots ==
    /\ at = "agent" /\ ~env["ca"]
    /\ at' = "identity"
    /\ UNCHANGED <<world, opened, roots, identity>>

OpenCa ==
    /\ at = "agent" /\ env["ca"]
    /\ opened' = disk["ca"]
    /\ roots' = [builtin |-> FALSE, certs |-> << >>]
    /\ at' = "roots"
    /\ UNCHANGED <<world, identity>>

Accepted(certificate) == certificate \in Anchor

TakeRoot ==
    /\ at = "roots" /\ opened # << >>
    /\ Accepted(Head(opened))
    /\ roots' = [roots EXCEPT !.certs = Append(@, Head(opened))]
    /\ opened' = Tail(opened)
    /\ UNCHANGED <<world, identity, at>>

(* Slip: a certificate the store does not accept is left out, as ureq does.*)
SkipRoot ==
    /\ at = "roots" /\ opened # << >> /\ ~Accepted(Head(opened))
    /\ opened' = Tail(opened)
    /\ UNCHANGED <<world, roots, identity, at>>

RefuseRoot ==
    /\ opened # << >> /\ ~Accepted(Head(opened))
    /\ Fail("roots")

RootsEnd ==
    /\ at = "roots" /\ opened = << >>
    /\ at' = IF roots.certs = << >> THEN "failed" ELSE "identity"
    /\ UNCHANGED <<world, opened, roots, identity>>

(* client_identity: both or none.                                          *)
Both == env["chain"] /\ env["keys"]

Neither == ~env["chain"] /\ ~env["keys"]

NoClientCert ==
    /\ at = "identity" /\ Neither
    /\ at' = "ready"
    /\ UNCHANGED <<world, opened, roots, identity>>

HalfIdentity == ~Both /\ ~Neither /\ Fail("identity")

ReadChain ==
    /\ at = "identity" /\ Both
    /\ identity' = [identity EXCEPT !.chain = disk["chain"]]
    /\ at' = IF disk["chain"] = << >> THEN "failed" ELSE "key"
    /\ UNCHANGED <<world, opened, roots>>

(* The bytes are read once. rustls takes the first key they hold; of       *)
(* ureq's parser it is only assumed that it takes one of them.             *)
ReadKey ==
    /\ at = "key" /\ disk["keys"] # << >>
    /\ \E n \in DOMAIN disk["keys"] :
        identity' = [identity EXCEPT !.key = disk["keys"][1], !.ureqKey = disk["keys"][n]]
    /\ at' = "validate"
    /\ UNCHANGED <<world, opened, roots>>

NoKey == disk["keys"] = << >> /\ Fail("key")

(* Slip: the certificate of the chain that is looked at is the last one.   *)
UsableByLast(chain, key) ==
    /\ key \in Key
    /\ chain[Len(chain)] \in Cert
    /\ KeyOf[chain[Len(chain)]] = key

(* CertifiedKey::from_der, which ureq calls again when it first connects:  *)
(* the key is of a kind the provider signs with, and it is the leaf's.     *)
Usable(chain, key) ==
    /\ key \in Key
    /\ Head(chain) \in Cert
    /\ KeyOf[Head(chain)] = key

(* Slip: what ureq will do with the identity is not tried out.             *)
ParsedAlike == identity.ureqKey = identity.key

Validated ==
    /\ identity.ureqKey = identity.key
    /\ Usable(identity.chain, identity.key)

Assemble ==
    /\ at = "validate" /\ Validated
    /\ at' = "ready"
    /\ UNCHANGED <<world, opened, roots, identity>>

RefuseIdentity == ~Validated /\ Fail("validate")

(* The first connection: ureq expects the client certificate to be usable  *)
(* and the process aborts if it is not.                                    *)
Connect ==
    /\ at = "ready"
    /\ at' = IF identity.chain = << >> \/ Usable(identity.chain, identity.ureqKey)
             THEN "connected" ELSE "aborted"
    /\ UNCHANGED <<world, opened, roots, identity>>

SetUp ==
    \/ BuiltinRoots \/ OpenCa \/ TakeRoot \/ RefuseRoot \/ RootsEnd
    \/ NoClientCert \/ HalfIdentity \/ ReadChain \/ ReadKey \/ NoKey
    \/ Assemble \/ RefuseIdentity \/ Connect

Next == SetUp \/ Renew

Spec == Init /\ [][Next]_vars

-----------------------------------------------------------------------------
(* The trust store is narrowed to exactly what SEALREF_CA_FILE held at one *)
(* moment, never a part of it, nothing of an earlier or a later file, and  *)
(* never the built-in bundle instead (http.rs:119-124, 131-133).           *)
TrustIsOneFile ==
    at \in {"identity", "key", "validate", "ready", "connected"} =>
        IF env["ca"]
        THEN /\ ~roots.builtin
             /\ roots.certs # << >>
             /\ roots.certs \in held["ca"]
        ELSE roots.builtin

(* However the files are renewed between the reads, what ureq builds at    *)
(* the first connection does not abort the process, and it is the          *)
(* certificate with the key that was read for it (http.rs:186-195). One    *)
(* that was told of a certificate or a key never connects without, and one *)
(* told of neither has none (http.rs:210-227).                             *)
NeverAborts ==
    /\ at # "aborted"
    /\ at = "connected" =>
        /\ (env["chain"] \/ env["keys"]) = (identity.chain # << >>)
        /\ identity.chain # << >> =>
            /\ identity.chain \in held["chain"]
            /\ KeyOf[Head(identity.chain)] = identity.ureqKey

(* The set-up refuses nothing that is good, however the files are renewed  *)
(* meanwhile (http.rs:131-152, 186-227): it fails only if the CA file has  *)
(* held something else than anchors, or one of certificate and key is not  *)
(* named, or one of their files has held nothing, or the very chain and    *)
(* keys that it has read do not start with a certificate and its one key.  *)
OnlyAnchors(ca) == ca # << >> /\ ca \in Seq(Anchor)

BelongTogether(chain, keys) ==
    /\ chain # << >>
    /\ \E c \in Cert : Head(chain) = c /\ keys = <<KeyOf[c]>>

RefusalHasReason ==
    at = "failed" =>
        \/ env["ca"] /\ \E ca \in held["ca"] : ~OnlyAnchors(ca)
        \/ ~Both /\ ~Neither
        \/ Both /\ (<< >> \in held["chain"] \/ << >> \in held["keys"])
        \/ /\ Both /\ identity.chain \in held["chain"]
           /\ \E keys \in held["keys"] \ {<< >>} :
                Head(keys) = identity.key /\ ~BelongTogether(identity.chain, keys)
=============================================================================
