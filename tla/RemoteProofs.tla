---------------------------- MODULE RemoteProofs ----------------------------
(***************************************************************************)
(* Proofs about what a remote read needs. TlsSetup, for any number and any *)
(* length of the files, of their contents and of their renewals: the trust *)
(* anchors are those of one file, ureq never aborts the process, and the   *)
(* set-up refuses nothing that is good. Credentials, whatever is in the    *)
(* variables and the files, and however far the sidecar has got with       *)
(* whatever it writes: what goes into the header of a Conjur read is one   *)
(* whole token, of the first source that is present.                       *)
(* Urls, for texts of any length over any alphabet: the server takes the   *)
(* URL for the very secret that the reference names.                       *)
(***************************************************************************)
EXTENDS TlsSetup, Credentials, Urls, TextProofs, FiniteSetTheorems, TLAPS

-----------------------------------------------------------------------------
(* The inductive invariant. Each part says what the steps done so far have *)
(* established about what they read, whatever the manager did since.       *)
TlsTypes ==
    /\ env \in [Files -> BOOLEAN]
    /\ DOMAIN disk = Files
    /\ DOMAIN held = Files
    /\ \A f \in Files : disk[f] \in held[f] /\ IsFiniteSet(held[f])
    /\ held["ca"] \subseteq CaText
    /\ held["chain"] \subseteq {issue.chain : issue \in Issued}
    /\ held["keys"] \subseteq {issue.keys : issue \in Issued}
    /\ opened \in Seq(Anchor \cup {Defect})
    /\ roots \in [builtin : BOOLEAN, certs : Seq(Anchor)]
    /\ identity \in [chain : Seq(Cert \cup {Defect}), key : Key \cup {Defect},
                     ureqKey : Key \cup {Defect}]

(* What was taken and what is left to take are a file's contents.          *)
RootsInv ==
    /\ at = "agent" => roots = [builtin |-> TRUE, certs |-> << >>]
    /\ at = "roots" =>
        /\ env["ca"] /\ ~roots.builtin
        /\ roots.certs \o opened \in held["ca"]

IdentityInv ==
    /\ at \in {"agent", "roots", "identity"} => identity = NoIdentity
    /\ at \in {"key", "validate"} =>
        /\ Both
        /\ identity.chain # << >> /\ identity.chain \in held["chain"]
    /\ at \in {"ready", "connected"} =>
        \/ Neither /\ identity.chain = << >>
        \/ /\ Both /\ Validated
           /\ identity.chain # << >> /\ identity.chain \in held["chain"]

(* What was read of the key file is what it held at one moment.            *)
KeysRead ==
    \E keys \in held["keys"] \ {<< >>} :
        Head(keys) = identity.key /\ \E n \in DOMAIN keys : identity.ureqKey = keys[n]

ReasonInv == RefusalHasReason /\ (at = "validate" => KeysRead)

TlsInv == TlsTypes /\ RootsInv /\ TrustIsOneFile /\ IdentityInv /\ at # "aborted" /\ ReasonInv

-----------------------------------------------------------------------------
(* Moving the head of what is left to the end of what was taken keeps both *)
(* together what they were.                                                *)
LEMMA MoveHead ==
    ASSUME NEW S, NEW s \in Seq(S), NEW t \in Seq(S), t # << >>
    PROVE  /\ Head(t) \in S /\ Tail(t) \in Seq(S)
           /\ Append(s, Head(t)) \in Seq(S)
           /\ Append(s, Head(t)) \o Tail(t) = s \o t
<1>1. Head(t) \in S /\ Tail(t) \in Seq(S) /\ Append(s, Head(t)) \in Seq(S)
    OBVIOUS
<1>2. Append(s, Head(t)) \o Tail(t) \in Seq(S) /\ s \o t \in Seq(S)
    BY <1>1
<1>3. Len(Append(s, Head(t)) \o Tail(t)) = Len(s \o t)
    BY <1>1
<1>4. \A n \in 1..Len(s \o t) : (Append(s, Head(t)) \o Tail(t))[n] = (s \o t)[n]
    BY <1>1
<1> QED BY <1>1, <1>2, <1>3, <1>4

-----------------------------------------------------------------------------
LEMMA TlsInitInv == Init => TlsInv
<1> SUFFICES ASSUME Init PROVE TlsInv
    OBVIOUS
<1>1. PICK ca \in CaText, issue \in Issued :
        disk = [ca |-> ca, chain |-> issue.chain, keys |-> issue.keys]
    BY DEF Init
<1>2. held = [f \in Files |-> {disk[f]}] /\ env \in [Files -> BOOLEAN]
    BY DEF Init
<1>3. opened = << >> /\ roots = [builtin |-> TRUE, certs |-> << >>]
        /\ identity = NoIdentity /\ at = "agent"
    BY DEF Init
<1>4. \A f \in Files : disk[f] \in held[f] /\ IsFiniteSet(held[f])
    BY <1>2, FS_Singleton
<1>5. /\ held["ca"] \subseteq CaText
      /\ held["chain"] \subseteq {i.chain : i \in Issued}
      /\ held["keys"] \subseteq {i.keys : i \in Issued}
    BY <1>1, <1>2 DEF Files
<1>6. TlsTypes
    <2>1. DOMAIN disk = Files
        BY <1>1 DEF Files
    <2>2. DOMAIN held = Files
        BY <1>2
    <2>3. opened \in Seq(Anchor \cup {Defect}) /\ roots \in [builtin : BOOLEAN, certs : Seq(Anchor)]
        BY <1>3
    <2>4. identity \in [chain : Seq(Cert \cup {Defect}), key : Key \cup {Defect},
                        ureqKey : Key \cup {Defect}]
        BY <1>3 DEF NoIdentity
    <2> QED BY <1>2, <1>4, <1>5, <2>1, <2>2, <2>3, <2>4 DEF TlsTypes
<1>7. RootsInv /\ TrustIsOneFile /\ IdentityInv /\ at # "aborted" /\ ReasonInv
    BY <1>3 DEF RootsInv, TrustIsOneFile, IdentityInv, ReasonInv, RefusalHasReason
<1> QED BY <1>6, <1>7 DEF TlsInv

-----------------------------------------------------------------------------
(* The manager's step: what the process knows of a file stays true of one  *)
(* of the contents the file has held.                                      *)
LEMMA RenewInv == TlsInv /\ Renew => TlsInv'
<1> SUFFICES ASSUME TlsInv, Renew PROVE TlsInv'
    OBVIOUS
<1>1. PICK f \in Files,
           content \in CaText \cup {issue.chain : issue \in Issued} \cup {issue.keys : issue \in Issued} :
        /\ Renewed(f, content)
        /\ f = "ca" => content \in CaText
        /\ f = "chain" => content \in {issue.chain : issue \in Issued}
        /\ f = "keys" => content \in {issue.keys : issue \in Issued}
    BY DEF Renew, Files
<1>2. /\ disk' = [disk EXCEPT ![f] = content]
      /\ held' = [held EXCEPT ![f] = @ \cup {content}]
      /\ UNCHANGED <<env, opened, roots, identity, at>>
    BY <1>1 DEF Renewed, process
<1>3. TlsTypes
    BY DEF TlsInv
<1>4. \A g \in Files : held[g] \subseteq held'[g]
    BY <1>2, <1>3 DEF TlsTypes
<1>5. TlsTypes'
    <2>1. \A g \in Files : disk'[g] \in held'[g] /\ IsFiniteSet(held'[g])
        <3>1. disk'[f] \in held'[f]
            BY <1>2, <1>3 DEF TlsTypes
        <3>2. IsFiniteSet(held'[f])
            <4>1. IsFiniteSet(held[f]) /\ held'[f] = held[f] \cup {content}
                BY <1>2, <1>3 DEF TlsTypes
            <4> QED BY <4>1, FS_AddElement
        <3>3. \A g \in Files \ {f} : disk'[g] = disk[g] /\ held'[g] = held[g]
            BY <1>2, <1>3 DEF TlsTypes
        <3> QED BY <1>3, <3>1, <3>2, <3>3 DEF TlsTypes
    <2>2. /\ held'["ca"] \subseteq CaText
          /\ held'["chain"] \subseteq {issue.chain : issue \in Issued}
          /\ held'["keys"] \subseteq {issue.keys : issue \in Issued}
        BY <1>1, <1>2, <1>3 DEF TlsTypes, Files
    <2>3. DOMAIN disk' = Files /\ DOMAIN held' = Files
        BY <1>2, <1>3 DEF TlsTypes
    <2> QED BY <1>2, <1>3, <2>1, <2>2, <2>3 DEF TlsTypes
<1>6. RootsInv' /\ TrustIsOneFile' /\ (at # "aborted")'
    BY <1>2, <1>4 DEF TlsInv, RootsInv, TrustIsOneFile, Files
<1>7. IdentityInv'
    BY <1>2, <1>4 DEF TlsInv, IdentityInv, Both, Neither, Validated, Usable, Files
<1>8. ReasonInv'
    <2>1. (at = "failed" \/ at = "validate") => ReasonInv'
        BY <1>2, <1>4 DEF TlsInv, ReasonInv, RefusalHasReason, KeysRead, Both, Neither, Files
    <2> QED BY <1>2, <2>1 DEF ReasonInv, RefusalHasReason
<1> QED BY <1>5, <1>6, <1>7, <1>8 DEF TlsInv

-----------------------------------------------------------------------------
(* A step of the set-up reads the files and changes none.                  *)
LEMMA ReadingTypes ==
    ASSUME TlsTypes, UNCHANGED <<env, disk, held>>,
           opened' \in Seq(Anchor \cup {Defect}),
           roots' \in [builtin : BOOLEAN, certs : Seq(Anchor)],
           identity' \in [chain : Seq(Cert \cup {Defect}), key : Key \cup {Defect},
                          ureqKey : Key \cup {Defect}]
    PROVE  TlsTypes'
BY DEF TlsTypes

(* What the files may hold, by the assumption on what is written to them.  *)
LEMMA FilesHold ==
    ASSUME TlsTypes
    PROVE  /\ disk["ca"] \in Seq(Anchor \cup {Defect})
           /\ disk["chain"] \in Seq(Cert \cup {Defect})
           /\ disk["keys"] \in Seq(Key \cup {Defect})
           /\ disk["ca"] \in held["ca"] /\ disk["chain"] \in held["chain"]
           /\ disk["keys"] \in held["keys"]
           /\ held["ca"] \subseteq Seq(Anchor \cup {Defect})
<1>1. disk["ca"] \in held["ca"] /\ disk["chain"] \in held["chain"] /\ disk["keys"] \in held["keys"]
    BY DEF TlsTypes, Files
<1>2. held["ca"] \subseteq Seq(Anchor \cup {Defect})
    BY TlsAssumption DEF TlsTypes
<1>3. \A issue \in Issued :
        issue.chain \in Seq(Cert \cup {Defect}) /\ issue.keys \in Seq(Key \cup {Defect})
    BY TlsAssumption
<1>4. /\ held["chain"] \subseteq Seq(Cert \cup {Defect})
      /\ held["keys"] \subseteq Seq(Key \cup {Defect})
    <2>1. held["chain"] \subseteq {issue.chain : issue \in Issued}
        BY DEF TlsTypes
    <2>2. held["keys"] \subseteq {issue.keys : issue \in Issued}
        BY DEF TlsTypes
    <2>3. ASSUME NEW chain \in held["chain"] PROVE chain \in Seq(Cert \cup {Defect})
        <3>1. PICK issue \in Issued : chain = issue.chain
            BY <2>1
        <3> QED BY <1>3, <3>1
    <2>4. ASSUME NEW keys \in held["keys"] PROVE keys \in Seq(Key \cup {Defect})
        <3>1. PICK issue \in Issued : keys = issue.keys
            BY <2>2
        <3> QED BY <1>3, <3>1
    <2> QED BY <2>3, <2>4
<1> QED BY <1>1, <1>2, <1>4

LEMMA OpenCaInv == TlsInv /\ OpenCa => TlsInv'
<1> SUFFICES ASSUME TlsInv, OpenCa PROVE TlsInv'
    OBVIOUS
<1>1. /\ UNCHANGED <<env, disk, held, identity>>
      /\ opened' = disk["ca"] /\ roots' = [builtin |-> FALSE, certs |-> << >>]
      /\ at = "agent" /\ env["ca"] /\ at' = "roots"
    BY DEF OpenCa, world
<1>2. TlsTypes
    BY DEF TlsInv
<1>3. roots'.certs \o opened' = disk["ca"]
    BY <1>1, <1>2, FilesHold
<1>4. TlsTypes'
    <2>1. opened' \in Seq(Anchor \cup {Defect})
        BY <1>1, <1>2, FilesHold
    <2>2. roots' \in [builtin : BOOLEAN, certs : Seq(Anchor)]
        BY <1>1
    <2>3. identity' \in [chain : Seq(Cert \cup {Defect}), key : Key \cup {Defect},
                         ureqKey : Key \cup {Defect}]
        BY <1>1, <1>2 DEF TlsTypes
    <2> QED BY <1>1, <1>2, <2>1, <2>2, <2>3, ReadingTypes
<1>5. RootsInv' /\ TrustIsOneFile' /\ IdentityInv' /\ (at # "aborted")'
    BY <1>1, <1>2, <1>3, FilesHold DEF TlsInv, RootsInv, TrustIsOneFile, IdentityInv
<1>6. ReasonInv'
    BY <1>1 DEF ReasonInv, RefusalHasReason
<1> QED BY <1>4, <1>5, <1>6 DEF TlsInv

LEMMA TakeRootInv == TlsInv /\ TakeRoot => TlsInv'
<1> SUFFICES ASSUME TlsInv, TakeRoot PROVE TlsInv'
    OBVIOUS
<1>1. /\ UNCHANGED <<env, disk, held, identity, at>>
      /\ at = "roots" /\ opened # << >> /\ Head(opened) \in Anchor
      /\ roots' = [roots EXCEPT !.certs = Append(@, Head(opened))]
      /\ opened' = Tail(opened)
    BY DEF TakeRoot, world, Accepted
<1>2. TlsTypes
    BY DEF TlsInv
<1>3. /\ opened \in Seq(Anchor \cup {Defect})
      /\ roots \in [builtin : BOOLEAN, certs : Seq(Anchor)]
    BY <1>2 DEF TlsTypes
<1>4. /\ roots'.builtin = roots.builtin
      /\ roots'.certs = Append(roots.certs, Head(opened))
      /\ roots' \in [builtin : BOOLEAN, certs : Seq(Anchor)]
    <2>1. Append(roots.certs, Head(opened)) \in Seq(Anchor)
        BY <1>1, <1>3
    <2> QED BY <1>1, <1>3, <2>1
<1>5. roots.certs \in Seq(Anchor \cup {Defect})
    BY <1>3
<1>6. opened' \in Seq(Anchor \cup {Defect}) /\ roots'.certs \o opened' = roots.certs \o opened
    BY <1>1, <1>3, <1>4, <1>5, MoveHead
<1>7. TlsTypes'
    <2>1. identity' \in [chain : Seq(Cert \cup {Defect}), key : Key \cup {Defect},
                         ureqKey : Key \cup {Defect}]
        BY <1>1, <1>2 DEF TlsTypes
    <2> QED BY <1>1, <1>2, <1>4, <1>6, <2>1, ReadingTypes
<1>8. RootsInv' /\ TrustIsOneFile' /\ IdentityInv' /\ (at # "aborted")'
    BY <1>1, <1>4, <1>6 DEF TlsInv, RootsInv, TrustIsOneFile, IdentityInv
<1>9. ReasonInv'
    BY <1>1 DEF ReasonInv, RefusalHasReason
<1> QED BY <1>7, <1>8, <1>9 DEF TlsInv

(* A certificate that is refused is one of the file's.                     *)
LEMMA RefuseRootInv == TlsInv /\ RefuseRoot => TlsInv'
<1> SUFFICES ASSUME TlsInv, RefuseRoot PROVE TlsInv'
    OBVIOUS
<1>1. /\ UNCHANGED <<env, disk, held, opened, roots, identity>>
      /\ at = "roots" /\ at' = "failed"
      /\ opened # << >> /\ Head(opened) \notin Anchor
    BY DEF RefuseRoot, Fail, world, Accepted
<1>2. TlsTypes
    BY DEF TlsInv
<1>3. PICK ca \in held["ca"] : ca = roots.certs \o opened /\ env["ca"]
    BY <1>1 DEF TlsInv, RootsInv
<1>4. ~OnlyAnchors(ca)
    <2>1. roots.certs \in Seq(Anchor \cup {Defect}) /\ opened \in Seq(Anchor \cup {Defect})
        BY <1>2 DEF TlsTypes
    <2>2. /\ Len(roots.certs) + 1 \in 1..Len(ca)
          /\ ca[Len(roots.certs) + 1] = Head(opened)
        BY <1>1, <1>3, <2>1
    <2>3. ca \in Seq(Anchor) => ca[Len(roots.certs) + 1] \in Anchor
        BY <2>2
    <2> QED BY <1>1, <2>2, <2>3 DEF OnlyAnchors
<1>5. TlsTypes'
    BY <1>1, <1>2 DEF TlsTypes
<1>6. RootsInv' /\ TrustIsOneFile' /\ IdentityInv' /\ (at # "aborted")'
    BY <1>1 DEF RootsInv, TrustIsOneFile, IdentityInv
<1>7. ReasonInv'
    BY <1>1, <1>3, <1>4 DEF ReasonInv, RefusalHasReason
<1> QED BY <1>5, <1>6, <1>7 DEF TlsInv

LEMMA RootsEndInv == TlsInv /\ RootsEnd => TlsInv'
<1> SUFFICES ASSUME TlsInv, RootsEnd PROVE TlsInv'
    OBVIOUS
<1>1. /\ UNCHANGED <<env, disk, held, opened, roots, identity>>
      /\ at = "roots" /\ opened = << >>
      /\ at' = IF roots.certs = << >> THEN "failed" ELSE "identity"
    BY DEF RootsEnd, world
<1>2. TlsTypes
    BY DEF TlsInv
<1>3. roots.certs \o opened = roots.certs
    BY <1>1, <1>2 DEF TlsTypes
<1>4. roots.certs \in held["ca"] /\ env["ca"] /\ ~roots.builtin
    BY <1>1, <1>3 DEF TlsInv, RootsInv
<1>5. roots.certs = << >> => ~OnlyAnchors(roots.certs)
    BY DEF OnlyAnchors
<1>6. TlsTypes'
    BY <1>1, <1>2 DEF TlsTypes
<1>7. RootsInv' /\ TrustIsOneFile' /\ IdentityInv' /\ (at # "aborted")'
    BY <1>1, <1>4 DEF TlsInv, RootsInv, TrustIsOneFile, IdentityInv
<1>8. ReasonInv'
    BY <1>1, <1>4, <1>5 DEF ReasonInv, RefusalHasReason
<1> QED BY <1>6, <1>7, <1>8 DEF TlsInv

(* The steps that read no file and leave what was read as it is.           *)
LEMMA DecidingInv ==
    TlsInv /\ (BuiltinRoots \/ NoClientCert \/ HalfIdentity \/ NoKey \/ Assemble) => TlsInv'
<1> SUFFICES ASSUME TlsInv, BuiltinRoots \/ NoClientCert \/ HalfIdentity \/ NoKey \/ Assemble
             PROVE  TlsInv'
    OBVIOUS
<1>1. UNCHANGED <<env, disk, held, opened, roots, identity>>
    BY DEF BuiltinRoots, NoClientCert, HalfIdentity, NoKey, Assemble, Fail, world
<1>2. TlsTypes' /\ (Both' <=> Both) /\ (Neither' <=> Neither)
    BY <1>1 DEF TlsInv, TlsTypes, Both, Neither
<1> DEFINE Others == RootsInv' /\ TrustIsOneFile' /\ IdentityInv' /\ (at # "aborted")'
<1>3. CASE BuiltinRoots
    <2>1. at = "agent" /\ ~env["ca"] /\ at' = "identity"
        BY <1>3 DEF BuiltinRoots
    <2>2. Others
        BY <1>1, <1>2, <2>1 DEF TlsInv, RootsInv, TrustIsOneFile, IdentityInv
    <2> QED BY <1>2, <2>1, <2>2 DEF TlsInv, ReasonInv, RefusalHasReason
<1>4. CASE NoClientCert
    <2>1. at = "identity" /\ Neither /\ at' = "ready"
        BY <1>4 DEF NoClientCert
    <2>2. identity'.chain = << >>
        BY <1>1, <2>1 DEF TlsInv, IdentityInv, NoIdentity
    <2>3. Others
        BY <1>1, <1>2, <2>1, <2>2 DEF TlsInv, RootsInv, TrustIsOneFile, IdentityInv
    <2> QED BY <1>2, <2>1, <2>3 DEF TlsInv, ReasonInv, RefusalHasReason
<1>5. CASE HalfIdentity
    <2>1. at = "identity" /\ at' = "failed" /\ ~Both /\ ~Neither
        BY <1>5 DEF HalfIdentity, Fail
    <2>2. Others
        BY <1>1, <1>2, <2>1 DEF TlsInv, RootsInv, TrustIsOneFile, IdentityInv
    <2>3. ReasonInv'
        BY <1>2, <2>1 DEF ReasonInv, RefusalHasReason
    <2> QED BY <1>2, <2>2, <2>3 DEF TlsInv
<1>6. CASE NoKey
    <2>1. at = "key" /\ at' = "failed" /\ disk["keys"] = << >>
        BY <1>6 DEF NoKey, Fail
    <2>2. Both /\ << >> \in held["keys"]
        BY <2>1, FilesHold DEF TlsInv, IdentityInv
    <2>3. Others
        BY <1>1, <1>2, <2>1 DEF TlsInv, RootsInv, TrustIsOneFile, IdentityInv
    <2>4. ReasonInv'
        BY <1>1, <1>2, <2>1, <2>2 DEF ReasonInv, RefusalHasReason
    <2> QED BY <1>2, <2>3, <2>4 DEF TlsInv
<1>7. CASE Assemble
    <2>1. at = "validate" /\ Validated /\ at' = "ready"
        BY <1>7 DEF Assemble
    <2>2. Validated' <=> Validated
        BY <1>1 DEF Validated, Usable
    <2>3. Others
        BY <1>1, <1>2, <2>1, <2>2 DEF TlsInv, RootsInv, TrustIsOneFile, IdentityInv
    <2> QED BY <1>2, <2>1, <2>3 DEF TlsInv, ReasonInv, RefusalHasReason
<1> QED BY <1>3, <1>4, <1>5, <1>6, <1>7

(* A certificate and its one key are never refused.                        *)
LEMMA RefusedAreApart ==
    ASSUME ~Validated, NEW keys, NEW n \in DOMAIN keys,
           Head(keys) = identity.key, identity.ureqKey = keys[n]
    PROVE  ~BelongTogether(identity.chain, keys)
<1> SUFFICES ASSUME BelongTogether(identity.chain, keys) PROVE FALSE
    OBVIOUS
<1>1. PICK c \in Cert : Head(identity.chain) = c /\ keys = <<KeyOf[c]>>
    BY DEF BelongTogether
<1>2. n = 1 /\ identity.key = KeyOf[c] /\ identity.ureqKey = KeyOf[c]
    BY <1>1
<1>3. KeyOf[c] \in Key
    BY TlsAssumption
<1> QED BY <1>1, <1>2, <1>3 DEF Validated, Usable

LEMMA RefuseIdentityInv == TlsInv /\ RefuseIdentity => TlsInv'
<1> SUFFICES ASSUME TlsInv, RefuseIdentity PROVE TlsInv'
    OBVIOUS
<1>1. /\ UNCHANGED <<env, disk, held, opened, roots, identity>>
      /\ at = "validate" /\ ~Validated /\ at' = "failed"
    BY DEF RefuseIdentity, Fail, world
<1>2. TlsTypes' /\ (Both' <=> Both)
    BY <1>1 DEF TlsInv, TlsTypes, Both
<1>3. Both /\ identity.chain \in held["chain"]
    BY <1>1 DEF TlsInv, IdentityInv
<1>4. PICK keys \in held["keys"] \ {<< >>} :
        Head(keys) = identity.key /\ \E n \in DOMAIN keys : identity.ureqKey = keys[n]
    BY <1>1 DEF TlsInv, ReasonInv, KeysRead
<1>5. ~BelongTogether(identity.chain, keys)
    BY <1>1, <1>4, RefusedAreApart
<1>6. ReasonInv'
    BY <1>1, <1>2, <1>3, <1>4, <1>5 DEF ReasonInv, RefusalHasReason
<1>7. RootsInv' /\ TrustIsOneFile' /\ IdentityInv' /\ (at # "aborted")'
    BY <1>1 DEF RootsInv, TrustIsOneFile, IdentityInv
<1> QED BY <1>2, <1>6, <1>7 DEF TlsInv

LEMMA ReadChainInv == TlsInv /\ ReadChain => TlsInv'
<1> SUFFICES ASSUME TlsInv, ReadChain PROVE TlsInv'
    OBVIOUS
<1>1. /\ UNCHANGED <<env, disk, held, opened, roots>>
      /\ at = "identity" /\ Both
      /\ identity' = [identity EXCEPT !.chain = disk["chain"]]
      /\ at' = IF disk["chain"] = << >> THEN "failed" ELSE "key"
    BY DEF ReadChain, world
<1>2. TlsTypes
    BY DEF TlsInv
<1>3. disk["chain"] \in Seq(Cert \cup {Defect}) /\ disk["chain"] \in held["chain"]
    BY <1>2, FilesHold
<1>4. /\ identity' \in [chain : Seq(Cert \cup {Defect}), key : Key \cup {Defect},
                         ureqKey : Key \cup {Defect}]
      /\ identity'.chain = disk["chain"]
    BY <1>1, <1>2, <1>3 DEF TlsTypes
<1>5. TlsTypes'
    BY <1>1, <1>2, <1>4 DEF TlsTypes
<1>6. disk["chain"] = << >> => << >> \in held["chain"]
    BY <1>3
<1>7. Both' <=> Both
    BY <1>1 DEF Both
<1>8. RootsInv' /\ TrustIsOneFile' /\ IdentityInv' /\ (at # "aborted")'
    BY <1>1, <1>3, <1>4, <1>7 DEF TlsInv, RootsInv, TrustIsOneFile, IdentityInv
<1>9. ReasonInv'
    BY <1>1, <1>6, <1>7 DEF ReasonInv, RefusalHasReason
<1> QED BY <1>5, <1>8, <1>9 DEF TlsInv

LEMMA ReadKeyInv == TlsInv /\ ReadKey => TlsInv'
<1> SUFFICES ASSUME TlsInv, ReadKey PROVE TlsInv'
    OBVIOUS
<1>1. /\ UNCHANGED <<env, disk, held, opened, roots>>
      /\ at = "key" /\ at' = "validate" /\ disk["keys"] # << >>
    BY DEF ReadKey, world
<1>2. PICK n \in DOMAIN disk["keys"] :
        identity' = [identity EXCEPT !.key = disk["keys"][1], !.ureqKey = disk["keys"][n]]
    BY DEF ReadKey
<1>3. TlsTypes
    BY DEF TlsInv
<1>4. disk["keys"] \in Seq(Key \cup {Defect})
    BY <1>3, FilesHold
<1>5. disk["keys"][1] \in Key \cup {Defect} /\ disk["keys"][n] \in Key \cup {Defect}
    BY <1>1, <1>4
<1>6. /\ identity' \in [chain : Seq(Cert \cup {Defect}), key : Key \cup {Defect},
                         ureqKey : Key \cup {Defect}]
      /\ identity'.chain = identity.chain
      /\ identity'.key = disk["keys"][1] /\ identity'.ureqKey = disk["keys"][n]
    BY <1>2, <1>3, <1>5 DEF TlsTypes
<1>7. TlsTypes'
    BY <1>1, <1>3, <1>6 DEF TlsTypes
<1>8. Both' <=> Both
    BY <1>1 DEF Both
<1>9. RootsInv' /\ TrustIsOneFile' /\ IdentityInv' /\ (at # "aborted")'
    BY <1>1, <1>6, <1>8 DEF TlsInv, RootsInv, TrustIsOneFile, IdentityInv
<1>10. ReasonInv'
    <2>1. PICK keys : keys = disk["keys"]
        OBVIOUS
    <2>2. keys \in held["keys"] \ {<< >>} /\ keys \in Seq(Key \cup {Defect})
        BY <1>1, <1>3, <1>4, <2>1, FilesHold
    <2>3. Head(keys) = identity'.key /\ identity'.ureqKey = keys[n] /\ n \in DOMAIN keys
        BY <1>6, <2>1, <2>2
    <2>4. KeysRead'
        BY <1>1, <2>2, <2>3 DEF KeysRead
    <2> QED BY <1>1, <2>4 DEF ReasonInv, RefusalHasReason
<1> QED BY <1>7, <1>9, <1>10 DEF TlsInv

LEMMA ConnectInv == TlsInv /\ Connect => TlsInv'
<1> SUFFICES ASSUME TlsInv, Connect PROVE TlsInv'
    OBVIOUS
<1>1. /\ UNCHANGED <<env, disk, held, opened, roots, identity>>
      /\ at = "ready"
      /\ at' = IF identity.chain = << >> \/ Usable(identity.chain, identity.ureqKey)
               THEN "connected" ELSE "aborted"
    BY DEF Connect, world
<1>2. identity.chain = << >> \/ Validated
    BY <1>1 DEF TlsInv, IdentityInv
<1>3. at' = "connected"
    BY <1>1, <1>2 DEF Validated
<1>4. TlsTypes' /\ (Both' <=> Both) /\ (Neither' <=> Neither) /\ (Validated' <=> Validated)
    BY <1>1 DEF TlsInv, TlsTypes, Both, Neither, Validated, Usable
<1>5. ReasonInv'
    BY <1>3 DEF ReasonInv, RefusalHasReason
<1> QED BY <1>1, <1>3, <1>4, <1>5 DEF TlsInv, RootsInv, TrustIsOneFile, IdentityInv

LEMMA TlsNextInv == TlsInv /\ [Next]_vars => TlsInv'
<1> SUFFICES ASSUME TlsInv, [Next]_vars PROVE TlsInv'
    OBVIOUS
<1>1. CASE UNCHANGED vars
    BY <1>1 DEF vars, TlsInv, TlsTypes, RootsInv, TrustIsOneFile, IdentityInv, ReasonInv,
                RefusalHasReason, KeysRead, Both, Neither, Validated, Usable
<1>2. CASE Renew
    BY <1>2, RenewInv
<1>3. CASE SetUp
    BY <1>3, OpenCaInv, TakeRootInv, RefuseRootInv, RootsEndInv, DecidingInv, RefuseIdentityInv,
       ReadChainInv, ReadKeyInv, ConnectInv DEF SetUp
<1> QED BY <1>1, <1>2, <1>3 DEF Next

-----------------------------------------------------------------------------
(* The inductive invariant of the set-up, for any files and renewals.      *)
THEOREM TlsInvariant == Spec => []TlsInv
<1> QED BY TlsInitInv, TlsNextInv, PTL DEF Spec

(* The trust anchors are all of the certificates that the CA file held at  *)
(* one moment, or the built-in bundle when no file is named.               *)
THEOREM TlsTrust == Spec => []TrustIsOneFile
<1>1. TlsInv => TrustIsOneFile
    BY DEF TlsInv
<1> QED BY <1>1, TlsInvariant, PTL

(* What ureq expects of the identity at the first connection holds, though *)
(* certificate and key are read at two moments and renewed in between.     *)
THEOREM TlsNeverAborts == Spec => []NeverAborts
<1>1. TlsInv => NeverAborts
    BY DEF TlsInv, IdentityInv, NeverAborts, Both, Neither, Validated, Usable
<1> QED BY <1>1, TlsInvariant, PTL

(* A set-up that fails met a file, or a certificate and a key, that no     *)
(* set-up should accept, whatever was renewed while it read.               *)
THEOREM TlsRefusal == Spec => []RefusalHasReason
<1>1. TlsInv => RefusalHasReason
    BY DEF TlsInv, ReasonInv
<1> QED BY <1>1, TlsInvariant, PTL

-----------------------------------------------------------------------------
(* The first symbol that is not a byte order mark.                         *)
Mark(t, e) ==
    /\ e \in 1 .. (Len(t) + 1)
    /\ \A j \in 1 .. (e - 1) : t[j] \in {"BOM"}
    /\ e <= Len(t) => t[e] \notin {"BOM"}

LEMMA MarkExists ==
    ASSUME NEW S, NEW t \in Seq(S)
    PROVE  \E e : Mark(t, e)
<1> DEFINE Ends == {e \in 1 .. (Len(t) + 1) : e <= Len(t) => t[e] \notin {"BOM"}}
<1>1. Len(t) \in Nat
  OBVIOUS
<1>2. Ends \in SUBSET Nat /\ Len(t) + 1 \in Ends
  BY <1>1
<1>3. PICK e \in Ends : \A k \in Ends : e <= k
  <2> HIDE DEF Ends
  <2> QED BY <1>2, LeastNatural
<1>4. ASSUME NEW j \in 1 .. (e - 1) PROVE t[j] \in {"BOM"}
  <2>1. j \in 1 .. (Len(t) + 1) /\ j <= Len(t) /\ ~(e <= j)
    BY <1>1, <1>3
  <2> QED BY <1>3, <2>1
<1>5. Mark(t, e)
  BY <1>3, <1>4 DEF Mark
<1> QED BY <1>5

(* The token of a text is what trim leaves behind the marks.               *)
LEMMA TokensAre ==
    ASSUME NEW S, NEW t \in Seq(S), NEW e, Mark(t, e), NEW a, NEW b, Core(t, e, a, b)
    PROVE  Tokens(t) = TokenOf(SubSeq(t, a, b))
<1>1. e \in 1 .. (Len(t) + 1) /\ 1 \in Nat
  BY DEF Mark
<1>2. RunEnd({"BOM"}, t, 1) = e
  <2>1. \A j \in 1 .. (e - 1) : t[j] \in {"BOM"}
    BY DEF Mark
  <2>2. e <= Len(t) => t[e] \notin {"BOM"}
    BY DEF Mark
  <2> QED BY <1>1, <2>1, <2>2, RunEndIs
<1>3. Trim(Unmarked(t)) = SubSeq(t, a, b)
  BY <1>1, <1>2, TrimOfRest DEF Unmarked
<1> QED BY <1>3 DEF Tokens

LEMMA TokenIsCore ==
    ASSUME NEW S, NEW t \in Seq(S), NEW token \in Tokens(t)
    PROVE  \E e, a, b : Mark(t, e) /\ Core(t, e, a, b) /\ token \in TokenOf(SubSeq(t, a, b))
<1>1. PICK e : Mark(t, e)
  BY MarkExists
<1>2. e \in 1 .. (Len(t) + 1)
  BY <1>1 DEF Mark
<1>3. CASE \A j \in e .. Len(t) : t[j] \in Blank
  <2>1. Trim(SubSeq(t, e, Len(t))) = << >>
    BY <1>2, <1>3, TrimOfBlank
  <2>2. RunEnd({"BOM"}, t, 1) = e
    <3>1. \A j \in 1 .. (e - 1) : t[j] \in {"BOM"}
      BY <1>1 DEF Mark
    <3>2. e <= Len(t) => t[e] \notin {"BOM"}
      BY <1>1 DEF Mark
    <3> QED BY <1>2, <3>1, <3>2, RunEndIs
  <2>3. token \in TokenOf(<< >>)
    BY <2>1, <2>2 DEF Tokens, Unmarked
  <2> QED BY <2>3 DEF TokenOf
<1>4. CASE \E a, b : Core(t, e, a, b)
  <2>1. PICK a, b : Core(t, e, a, b)
    BY <1>4
  <2> QED BY <1>1, <2>1, TokensAre
<1> QED BY <1>2, <1>3, <1>4, CoreOrBlank

LEMMA TokenShape ==
    ASSUME NEW t, NEW token \in TokenOf(t)
    PROVE  \E n \in Issue : token = <<"ey", n, "fQ">> /\ t \in {<<"{", n, "}">>, <<"ey", n, "fQ">>}
  BY DEF TokenOf

(* So half a token is none: what has a token is, as far as that goes, all  *)
(* that was written.                                                       *)
LEMMA HalfIsNone ==
    ASSUME NEW S, NEW w \in Seq(S), NothingBehind(w), NEW m \in 0 .. Len(w),
           NEW token \in Tokens(SubSeq(w, 1, m))
    PROVE  token \in Tokens(w)
<1> DEFINE p == SubSeq(w, 1, m)
<1>1. Len(w) \in Nat /\ m \in Nat /\ m <= Len(w) /\ \A j \in 1 .. Len(w) : w[j] \in S
  OBVIOUS
<1>2. p \in Seq(S) /\ Len(p) = m /\ \A i \in 1 .. m : p[i] = w[i]
  <2>1. \A i \in 1 .. m : w[i] \in S
    BY <1>1
  <2>2. /\ p \in Seq(S) /\ Len(p) = IF 1 <= m THEN m - 1 + 1 ELSE 0
        /\ \A i \in 1 .. m - 1 + 1 : p[i] = w[1 + i - 1]
    BY <1>1, <2>1, SubSeqProperties
  <2>3. m - 1 + 1 = m /\ (~(1 <= m) => m = 0) /\ \A i \in Int : 1 + i - 1 = i
    BY <1>1
  <2> QED BY <2>2, <2>3
<1>3. token \in Tokens(p)
  OBVIOUS
<1> HIDE DEF p
<1>4. PICK e, a, b : Mark(p, e) /\ Core(p, e, a, b) /\ token \in TokenOf(SubSeq(p, a, b))
  BY <1>2, <1>3, TokenIsCore
<1>5. /\ e \in 1 .. (m + 1) /\ a \in e .. m /\ b \in a .. m /\ e \in Nat /\ a \in Nat /\ b \in Nat
      /\ \A j \in 1 .. (e - 1) : p[j] \in {"BOM"}
      /\ e <= m => p[e] \notin {"BOM"}
      /\ \A j \in e .. (a - 1) : p[j] \in Blank
      /\ p[a] \notin Blank /\ p[b] \notin Blank
  BY <1>1, <1>2, <1>4 DEF Mark, Core
<1>6. /\ SubSeq(p, a, b) \in Seq(S) /\ Len(SubSeq(p, a, b)) = b - a + 1
      /\ \A i \in 1 .. b - a + 1 : SubSeq(p, a, b)[i] = p[a + i - 1]
  <2>1. \A i \in a .. b : p[i] \in S
    BY <1>1, <1>2, <1>5
  <2> QED BY <1>5, <2>1, SubSeqProperties
<1>7. w[b] \in {"}", "fQ"} /\ b \in 1 .. Len(w)
  <2> DEFINE core == SubSeq(p, a, b)
  <2>1. PICK n \in Issue : core \in {<<"{", n, "}">>, <<"ey", n, "fQ">>}
    BY <1>4, TokenShape
  <2>2. Len(core) = b - a + 1 /\ \A i \in 1 .. b - a + 1 : core[i] = p[a + i - 1]
    BY <1>6
  <2> HIDE DEF core
  <2>3. \A x, y, z : Len(<<x, y, z>>) = 3 /\ <<x, y, z>>[3] = z
    OBVIOUS
  <2>4. Len(core) = 3 /\ core[3] \in {"}", "fQ"}
    <3>1. CASE core = <<"{", n, "}">>
      <4>1. Len(core) = 3 /\ core[3] = "}"
        BY <2>3, <3>1, Zenon
      <4> QED BY <4>1
    <3>2. CASE core = <<"ey", n, "fQ">>
      <4>1. Len(core) = 3 /\ core[3] = "fQ"
        BY <2>3, <3>2, Zenon
      <4> QED BY <4>1
    <3> QED BY <2>1, <3>1, <3>2
  <2>5. b - a + 1 = 3 /\ a + 3 - 1 = b /\ b \in 1 .. m /\ b \in 1 .. Len(w) /\ 3 \in 1 .. b - a + 1
    <3>1. b - a + 1 = 3
      BY <2>2, <2>4
    <3>2. a \in Nat /\ b \in Nat /\ b <= m /\ m <= Len(w) /\ Len(w) \in Nat /\ m \in Nat /\ 1 <= b
      BY <1>1, <1>5
    <3> QED BY <3>1, <3>2
  <2>6. core[3] = p[b]
    BY <2>2, <2>5
  <2> QED BY <1>2, <2>4, <2>5, <2>6
<1>8. Mark(w, e)
  <2>1. e \in 1 .. (Len(w) + 1)
    BY <1>1, <1>5
  <2>2. \A j \in 1 .. (e - 1) : w[j] \in {"BOM"}
    BY <1>1, <1>2, <1>5
  <2>3. w[e] \notin {"BOM"}
    BY <1>1, <1>2, <1>5
  <2> QED BY <2>1, <2>2, <2>3 DEF Mark
<1>9. Core(w, e, a, b)
  <2>1. a \in e .. Len(w) /\ b \in a .. Len(w)
    BY <1>1, <1>5
  <2>2. \A j \in e .. (a - 1) : w[j] \in Blank
    BY <1>1, <1>2, <1>5
  <2>3. w[a] \notin Blank /\ w[b] \notin Blank
    BY <1>1, <1>2, <1>5
  <2>4. \A j \in (b + 1) .. Len(w) : w[j] \in Blank
    BY <1>7 DEF NothingBehind
  <2> QED BY <2>1, <2>2, <2>3, <2>4 DEF Core
<1>10. SubSeq(w, a, b) = SubSeq(p, a, b)
  <2>1. /\ SubSeq(w, a, b) \in Seq(S) /\ Len(SubSeq(w, a, b)) = b - a + 1
        /\ \A i \in 1 .. b - a + 1 : SubSeq(w, a, b)[i] = w[a + i - 1]
    <3>1. \A i \in a .. b : w[i] \in S
      BY <1>1, <1>5
    <3> QED BY <1>5, <3>1, SubSeqProperties
  <2>2. \A i \in 1 .. b - a + 1 : p[a + i - 1] = w[a + i - 1]
    BY <1>2, <1>5
  <2>3. /\ Len(SubSeq(w, a, b)) = Len(SubSeq(p, a, b))
        /\ \A i \in 1 .. Len(SubSeq(w, a, b)) : SubSeq(w, a, b)[i] = SubSeq(p, a, b)[i]
    BY <1>6, <2>1, <2>2
  <2> QED BY <1>6, <2>1, <2>3, SeqEqual
<1> QED BY <1>4, <1>8, <1>9, <1>10, TokensAre

-----------------------------------------------------------------------------
(* A token, of the first of the sources that are there.                    *)
Genuine(token) ==
    /\ \E n \in Issue : token = <<"ey", n, "fQ">>
    /\ settings.tokenFile = "path" => \E n \in DOMAIN Written : token \in Tokens(Written[n])
    /\ settings.tokenFile # "path" /\ Set(settings.token) => token \in Tokens(Trim(settings.token))

KeyOnly == settings.tokenFile # "path" /\ ~Set(settings.token)

(* The token file holds the beginning of one text, or all of it.           *)
PartWritten ==
    tokenFile = << >> \/ \E n \in DOMAIN Written : \E m \in 0 .. Len(Written[n]) :
                            tokenFile = SubSeq(Written[n], 1, m)

CredentialInv ==
    /\ written \in Nat
    /\ PartWritten
    /\ step = "read" => Genuine(credential.text)
    /\ step = "sent" => Genuine(header)
    /\ step \in {"login", "answer"} => KeyOnly /\ credential.text = Trim(ApiKey)
    /\ posted # << >> => KeyOnly /\ posted = Trim(ApiKey)

LEMMA CredentialInitInv == CredentialInit => CredentialInv
  BY DEF CredentialInit, CredentialInv, PartWritten

LEMMA WrittenTexts ==
    ASSUME NEW n \in DOMAIN Written
    PROVE  Written[n] \in Seq(STRING) /\ Len(Written[n]) \in Nat \ {0} /\ NothingBehind(Written[n])
<1>1. Written[n] \in Seq(STRING)
  BY CredentialAssumption
<1>2. Written[n] # << >> /\ NothingBehind(Written[n])
  BY CredentialAssumption
<1> QED BY <1>1, <1>2, EmptySeq

LEMMA SidecarKeeps ==
    ASSUME CredentialInv, Sidecar
    PROVE  CredentialInv'
<1>1. /\ UNCHANGED <<settings, keyFile, credential, posted, header, step>> /\ step = "settings"
      /\ written < Len(Written)
  BY DEF Sidecar
<1>2. written \in Nat /\ written + 1 \in DOMAIN Written
  BY <1>1, CredentialAssumption DEF CredentialInv
<1> DEFINE n == written + 1
           w == Written[n]
<1>3. w \in Seq(STRING) /\ Len(w) \in Nat \ {0}
  BY <1>2, WrittenTexts
<1>4. tokenFile \in Seq(STRING) /\ Len(tokenFile) \in Nat
  <2>1. CASE tokenFile = << >>
    BY <2>1
  <2>2. CASE tokenFile # << >>
    <3>1. PICK k \in DOMAIN Written : \E m \in 0 .. Len(Written[k]) : tokenFile = SubSeq(Written[k], 1, m)
      BY <2>2 DEF CredentialInv, PartWritten
    <3>2. PICK m \in 0 .. Len(Written[k]) : tokenFile = SubSeq(Written[k], 1, m)
      BY <3>1
    <3>3. Written[k] \in Seq(STRING)
      BY WrittenTexts
    <3>4. \A i \in 1 .. m : Written[k][i] \in STRING
      BY <3>3
    <3>5. tokenFile \in Seq(STRING)
      BY <3>2, <3>4, SubSeqProperties
    <3> QED BY <3>5
  <2> QED BY <2>1, <2>2
<1>5. \E m \in 0 .. Len(w) : tokenFile' = SubSeq(w, 1, m)
  <2>1. CASE At(tokenFile, w, 1) /\ tokenFile # << >> /\ tokenFile # w
    <3>1. tokenFile' = SubSeq(w, 1, Len(tokenFile) + 1)
      BY <2>1 DEF Sidecar
    <3>2. 1 + Len(tokenFile) <= Len(w) + 1 /\ SubSeq(w, 1, 1 + Len(tokenFile) - 1) = tokenFile
      BY <2>1 DEF At, Slice
    <3>3. 1 + Len(tokenFile) - 1 = Len(tokenFile) /\ Len(tokenFile) <= Len(w)
      BY <1>3, <1>4, <3>2
    <3>4. Len(tokenFile) # Len(w)
      BY <1>3, <2>1, <3>2, <3>3, SubSeqFull
    <3>5. Len(tokenFile) + 1 \in 0 .. Len(w)
      BY <1>3, <1>4, <3>3, <3>4
    <3> QED BY <3>1, <3>5
  <2>2. CASE ~(At(tokenFile, w, 1) /\ tokenFile # << >> /\ tokenFile # w)
    <3>1. tokenFile' = SubSeq(w, 1, 1)
      BY <2>2 DEF Sidecar
    <3>2. 1 \in 0 .. Len(w)
      BY <1>3
    <3> QED BY <3>1, <3>2
  <2> QED BY <2>1, <2>2
<1>6. PartWritten'
  BY <1>2, <1>5 DEF PartWritten
<1>7. written' \in Nat
  BY <1>2 DEF Sidecar
<1>8. posted' # << >> => (KeyOnly /\ posted = Trim(ApiKey))'
  BY <1>1 DEF CredentialInv, KeyOnly, ApiKey
<1> QED BY <1>1, <1>6, <1>7, <1>8 DEF CredentialInv

(* What is found in the token file is of one of the texts.                 *)
LEMMA FoundInFile ==
    ASSUME PartWritten, NEW token \in Tokens(tokenFile)
    PROVE  \E n \in DOMAIN Written : token \in Tokens(Written[n])
<1>1. CASE tokenFile = << >>
  <2>1. << >> \in Seq(STRING)
    OBVIOUS
  <2>2. PICK e, a, b : Mark(<< >>, e) /\ Core(<< >>, e, a, b)
    BY <1>1, <2>1, TokenIsCore
  <2>3. e \in 1 .. 1 /\ a \in e .. 0
    BY <2>2 DEF Mark, Core
  <2> QED BY <2>3
<1>2. CASE tokenFile # << >>
  <2>1. PICK n \in DOMAIN Written : \E m \in 0 .. Len(Written[n]) : tokenFile = SubSeq(Written[n], 1, m)
    BY <1>2 DEF PartWritten
  <2>2. PICK m \in 0 .. Len(Written[n]) : tokenFile = SubSeq(Written[n], 1, m)
    BY <2>1
  <2>3. token \in Tokens(SubSeq(Written[n], 1, m))
    BY <2>2
  <2>4. Written[n] \in Seq(STRING) /\ NothingBehind(Written[n])
    BY WrittenTexts
  <2>5. token \in Tokens(Written[n])
    BY <2>3, <2>4, HalfIsNone
  <2> QED BY <2>5
<1> QED BY <1>1, <1>2

LEMMA TokenIsIssued ==
    ASSUME NEW t, NEW token \in Tokens(t)
    PROVE  \E n \in Issue : token = <<"ey", n, "fQ">>
<1> DEFINE s == Trim(Unmarked(t))
<1>1. token \in TokenOf(s)
  BY DEF Tokens
<1> HIDE DEF s
<1>2. PICK n \in Issue : token = <<"ey", n, "fQ">> /\ s \in {<<"{", n, "}">>, <<"ey", n, "fQ">>}
  BY <1>1, TokenShape
<1> QED BY <1>2

LEMMA ProcessKeeps ==
    ASSUME CredentialInv, Process
    PROVE  CredentialInv'
<1>1. UNCHANGED around
  BY DEF Process, FromTokenFile, NoTokenInFile, FromTokenVariable, NoTokenInVariable, FromApiKey,
         NoCredential, Login, Answered, LoginFails, ReadVariable, Have, CredentialFails
<1>2. UNCHANGED <<settings, tokenFile, written, keyFile>>
  BY <1>1 DEF around
<1>3. written' \in Nat /\ PartWritten' /\ KeyOnly' = KeyOnly /\ ApiKey' = ApiKey
  BY <1>2 DEF CredentialInv, PartWritten, KeyOnly, ApiKey
<1>4. posted # << >> => KeyOnly /\ posted = Trim(ApiKey)
  BY DEF CredentialInv
<1>5. ASSUME NEW token, Genuine(token), Have([is |-> "token", text |-> token], "read")
      PROVE  CredentialInv'
  <2>1. credential'.text = token /\ step' = "read" /\ posted' = posted
    BY <1>5 DEF Have
  <2>2. Genuine(credential.text)'
    BY <1>2, <1>5, <2>1 DEF Genuine
  <2> QED BY <1>3, <1>4, <2>1, <2>2 DEF CredentialInv
<1>6. ASSUME NEW from, CredentialFails(from) PROVE CredentialInv'
  <2>1. step' = "failed" /\ posted' = posted
    BY <1>6 DEF CredentialFails
  <2> QED BY <1>3, <1>4, <2>1 DEF CredentialInv
<1>7. ASSUME FromTokenFile PROVE CredentialInv'
  <2>1. PICK token \in Tokens(tokenFile) : Have([is |-> "token", text |-> token], "read")
    BY <1>7 DEF FromTokenFile
  <2>2. Genuine(token)
    BY <1>7, FoundInFile, TokenIsIssued DEF FromTokenFile, Genuine, CredentialInv
  <2> QED BY <1>5, <2>1, <2>2
<1>8. ASSUME FromTokenVariable PROVE CredentialInv'
  <2>1. PICK token \in Tokens(Trim(settings.token)) : Have([is |-> "token", text |-> token], "read")
    BY <1>8 DEF FromTokenVariable
  <2>2. Genuine(token)
    BY <1>8, TokenIsIssued DEF FromTokenVariable, NoFileNamed, Genuine
  <2> QED BY <1>5, <2>1, <2>2
<1>9. ASSUME Answered PROVE CredentialInv'
  <2>1. PICK reply \in Reply : \E t \in Tokens(reply) : Have([is |-> "token", text |-> t], "read")
    BY <1>9 DEF Answered
  <2>2. PICK token \in Tokens(reply) : Have([is |-> "token", text |-> token], "read")
    BY <2>1
  <2>3. KeyOnly
    BY <1>9 DEF Answered, CredentialInv
  <2>4. Genuine(token)
    BY <2>3, TokenIsIssued DEF KeyOnly, Genuine
  <2> QED BY <1>5, <2>2, <2>4
<1>10. ASSUME FromApiKey PROVE CredentialInv'
  <2>1. /\ credential' = [is |-> "api key", text |-> Trim(ApiKey)] /\ step' = "login" /\ posted' = posted
        /\ KeyOnly
    BY <1>10 DEF FromApiKey, Have, KeyOnly, NoFileNamed
  <2>2. credential'.text = Trim(ApiKey)
    BY <2>1
  <2> QED BY <1>3, <1>4, <2>1, <2>2 DEF CredentialInv
<1>11. ASSUME Login PROVE CredentialInv'
  <2>1. posted' = credential.text /\ step' = "answer" /\ credential' = credential /\ step = "login"
    BY <1>11 DEF Login
  <2>2. KeyOnly /\ credential.text = Trim(ApiKey)
    BY <2>1 DEF CredentialInv
  <2> QED BY <1>3, <2>1, <2>2 DEF CredentialInv
<1>12. ASSUME ReadVariable PROVE CredentialInv'
  <2>1. header' = credential.text /\ step' = "sent" /\ posted' = posted /\ step = "read"
    BY <1>12 DEF ReadVariable
  <2>2. Genuine(header)'
    BY <1>2, <2>1 DEF CredentialInv, Genuine
  <2> QED BY <1>3, <1>4, <2>1, <2>2 DEF CredentialInv
<1> QED BY <1>6, <1>7, <1>8, <1>9, <1>10, <1>11, <1>12
       DEF Process, NoTokenInFile, NoTokenInVariable, NoCredential, LoginFails

(* A token file that is named is all that is looked at, a key is posted    *)
(* only if no token is given, and half a token is never sent (conjur.rs    *)
(* Credential::from_env, authenticate, normalise_token).                   *)
THEOREM CredentialFirstWins == CredentialSpec => []FirstCredentialWins
<1>1. CredentialInv /\ [CredentialNext]_credentialVars => CredentialInv'
  <2> SUFFICES ASSUME CredentialInv, [CredentialNext]_credentialVars PROVE CredentialInv'
    OBVIOUS
  <2>1. CASE UNCHANGED credentialVars
    BY <2>1 DEF credentialVars, around, CredentialInv, PartWritten, Genuine, KeyOnly, ApiKey
  <2> QED BY <2>1, SidecarKeeps, ProcessKeeps DEF CredentialNext
<1>2. CredentialInv => FirstCredentialWins
  BY DEF CredentialInv, FirstCredentialWins, Genuine, KeyOnly
<1> QED BY <1>1, <1>2, CredentialInitInv, PTL DEF CredentialSpec

-----------------------------------------------------------------------------
(* Functions that are defined by recursion over a text.                    *)
Iterated(n, X, b, s, f) ==
    f \in [0 .. n -> X] /\ f[0] = b /\ \A i \in 1 .. n : f[i] = s[i][f[i - 1]]

LEMMA Iterates ==
    ASSUME NEW n \in Nat, NEW X, NEW b \in X, NEW s \in [1 .. n -> [X -> X]]
    PROVE  \E f : Iterated(n, X, b, s, f)
<1> SUFFICES \E f \in [0 .. n -> X] : f[0] = b /\ \A i \in 1 .. n : f[i] = s[i][f[i - 1]]
  BY DEF Iterated
<1> DEFINE Upto(m, f) == f \in [0 .. m -> X] /\ f[0] = b /\ \A i \in 1 .. m : f[i] = s[i][f[i - 1]]
           Some == {m \in 0 .. n : \E f : Upto(m, f)}
<1>1. 0 \in Some
  <2>1. Upto(0, [i \in 0 .. 0 |-> b])
    OBVIOUS
  <2>2. 0 \in 0 .. n
    OBVIOUS
  <2> HIDE DEF Upto
  <2> QED
    BY <2>1, <2>2
<1>2. PICK m \in Some : \A k \in Some : k <= m
  <2>1. Some \in SUBSET (0 .. n) /\ Some # {}
    BY <1>1
  <2> HIDE DEF Some
  <2> QED
    BY <2>1, GreatestNatural
<1>3. m = n
  <2>1. SUFFICES ASSUME m # n PROVE FALSE
    OBVIOUS
  <2>2. m \in Nat /\ m + 1 \in 0 .. n /\ m + 1 \in 1 .. n /\ ~(m + 1 <= m)
    BY <1>2, <2>1
  <2>3. PICK f : Upto(m, f)
    BY <1>2
  <2> DEFINE g == [i \in 0 .. (m + 1) |-> IF i = m + 1 THEN s[m + 1][f[m]] ELSE f[i]]
  <2>4. f[m] \in X /\ s[m + 1] \in [X -> X]
    BY <2>2, <2>3
  <2>5. g \in [0 .. (m + 1) -> X] /\ g[0] = b
    BY <2>2, <2>3, <2>4
  <2>6. ASSUME NEW i \in 1 .. (m + 1) PROVE g[i] = s[i][g[i - 1]]
    <3>1. i - 1 \in 0 .. (m + 1) /\ i - 1 # m + 1 /\ i \in 0 .. (m + 1)
      BY <2>2
    <3>2. g[i - 1] = f[i - 1]
      BY <3>1
    <3>3. CASE i = m + 1
      BY <2>2, <3>1, <3>2, <3>3
    <3>4. CASE i # m + 1
      <4>1. i \in 1 .. m
        BY <2>2, <3>4
      <4>2. g[i] = f[i] /\ f[i] = s[i][f[i - 1]]
        BY <2>3, <3>1, <3>4, <4>1
      <4> QED
        BY <3>2, <4>2
    <3> QED
      BY <3>3, <3>4
  <2>7. Upto(m + 1, g)
    BY <2>5, <2>6
  <2> HIDE DEF g, Upto
  <2>8. m + 1 \in Some
    BY <2>2, <2>7
  <2> QED
    BY <1>2, <2>2, <2>8
<1> QED
  BY <1>2, <1>3

-----------------------------------------------------------------------------
(* Characters, and the words that the URLs are made with.                  *)
Literal == {"v1", "data", "secrets", "variable", "Accounts", "AppID", "Safe", "Object", "=",
            "/", "?", "#", "&", "%", "+", ".", " "}

Char == Character \cup {Hex[c] : c \in DOMAIN Hex} \cup Blank \cup Literal

Str == Seq(Char)

Parts == Seq(Str) \ {<< >>}

Extended(p, d) == [p EXCEPT ![Len(p)] = Append(@, d)]

LEMMA ExtendedIs ==
    ASSUME NEW p \in Parts, NEW d \in Char
    PROVE  /\ Extended(p, d) \in Parts /\ Len(Extended(p, d)) = Len(p)
           /\ Len(p) \in Nat \ {0}
           /\ \A k \in 1 .. Len(p) :
                Extended(p, d)[k] = IF k = Len(p) THEN Append(p[k], d) ELSE p[k]
<1>1. Len(p) \in Nat \ {0} /\ p \in Seq(Str) /\ p[Len(p)] \in Str
  BY EmptySeq DEF Parts
<1>2. Append(p[Len(p)], d) \in Str
  BY <1>1 DEF Str
<1>3. Extended(p, d) \in Seq(Str) /\ Len(Extended(p, d)) = Len(p)
  BY <1>1, <1>2 DEF Extended
<1>4. \A k \in 1 .. Len(p) : Extended(p, d)[k] = IF k = Len(p) THEN Append(p[k], d) ELSE p[k]
  BY <1>1 DEF Extended
<1>5. Extended(p, d) # << >>
  BY <1>1, <1>3
<1> QED
  BY <1>1, <1>3, <1>4, <1>5 DEF Parts

LEMMA AppendedIs ==
    ASSUME NEW p \in Parts, NEW x \in Str
    PROVE  /\ Append(p, x) \in Parts /\ Len(Append(p, x)) = Len(p) + 1
           /\ Append(p, x)[Len(p) + 1] = x
           /\ \A k \in 1 .. Len(p) : Append(p, x)[k] = p[k]
           /\ Append(p, x) = p \o <<x>>
<1>1. p \in Seq(Str) /\ Len(p) \in Nat
  BY DEF Parts
<1>2. /\ Append(p, x) \in Seq(Str) /\ Len(Append(p, x)) = Len(p) + 1
      /\ Append(p, x)[Len(p) + 1] = x
      /\ \A k \in 1 .. Len(p) : Append(p, x)[k] = p[k]
  BY <1>1
<1>3. Append(p, x) # << >>
  BY <1>1, <1>2
<1>4. Append(p, x) = p \o <<x>>
  BY <1>1
<1> QED
  BY <1>2, <1>3, <1>4 DEF Parts

(* The parts that are known when the first i characters have been read.    *)
More(p, d, c) == IF d = c THEN Append(p, << >>) ELSE Extended(p, d)

Splits(t, c, f) ==
    /\ f \in [0 .. Len(t) -> Parts] /\ f[0] = <<<< >>>>
    /\ \A i \in 1 .. Len(t) : f[i] = More(f[i - 1], t[i], c)

LEMMA SplitIs ==
    ASSUME NEW t \in Str, NEW c
    PROVE  \E f : Splits(t, c, f) /\ Split(t, c) = f[Len(t)]
<1>1. Len(t) \in Nat /\ << >> \in Str /\ <<<< >>>> \in Parts
  BY DEF Str, Parts
<1> DEFINE s == [i \in 1 .. Len(t) |-> [p \in Parts |-> More(p, t[i], c)]]
           Rec(f) == f = [i \in 0 .. Len(t) |->
                IF i = 0 THEN <<<< >>>>
                ELSE IF t[i] = c THEN Append(f[i - 1], << >>)
                     ELSE [f[i - 1] EXCEPT ![Len(f[i - 1])] = Append(@, t[i])]]
           h == CHOOSE f : Rec(f)
<1>2. Split(t, c) = h[Len(t)]
  BY Zenon DEF Split
<1>3. ASSUME NEW i \in 1 .. Len(t), NEW p \in Parts PROVE More(p, t[i], c) \in Parts
  <2>1. t[i] \in Char
    BY DEF Str
  <2> QED
    BY <1>1, <2>1, ExtendedIs, AppendedIs DEF More
<1>4. s \in [1 .. Len(t) -> [Parts -> Parts]]
  BY <1>3
<1>5. PICK f \in [0 .. Len(t) -> Parts] : f[0] = <<<< >>>> /\ \A i \in 1 .. Len(t) : f[i] = s[i][f[i - 1]]
  <2> HIDE DEF s
  <2>1. PICK b, n, x : b = <<<< >>>> /\ n = Len(t) /\ x = s
    OBVIOUS
  <2>2. b \in Parts /\ n \in Nat /\ x \in [1 .. n -> [Parts -> Parts]]
    BY <1>1, <1>4, <2>1
  <2>3. PICK f : Iterated(n, Parts, b, x, f)
    BY <2>2, Iterates, Zenon
  <2> QED
    BY <2>1, <2>3 DEF Iterated
<1>6. ASSUME NEW i \in 1 .. Len(t) PROVE f[i] = More(f[i - 1], t[i], c)
  <2>1. i - 1 \in 0 .. Len(t)
    BY <1>1
  <2>2. f[i - 1] \in Parts
    BY <2>1
  <2>3. f[i] = s[i][f[i - 1]]
    BY <1>5
  <2> QED
    BY <2>2, <2>3
<1>7. Rec(f)
  <2>1. ASSUME NEW i \in 0 .. Len(t)
        PROVE f[i] = IF i = 0 THEN <<<< >>>>
                ELSE IF t[i] = c THEN Append(f[i - 1], << >>)
                     ELSE [f[i - 1] EXCEPT ![Len(f[i - 1])] = Append(@, t[i])]
    <3>1. CASE i = 0
      BY <1>5, <3>1
    <3>2. CASE i # 0
      <4>1. i \in 1 .. Len(t)
        BY <1>1, <3>2
      <4> QED
        BY <1>6, <3>2, <4>1, Zenon DEF More, Extended
    <3> QED
      BY <3>1, <3>2
  <2>2. f = [i \in 0 .. Len(t) |-> f[i]]
    OBVIOUS
  <2> QED
    BY <2>1, <2>2, Zenon
<1> HIDE DEF Rec
<1>8. Rec(h)
  BY <1>7
<1>9. h \in [0 .. Len(t) -> Parts] /\ h[0] = <<<< >>>> /\ \A i \in 1 .. Len(t) : h[i] = More(h[i - 1], t[i], c)
  <2> DEFINE Body1(i) == IF i = 0 THEN <<<< >>>> ELSE More(h[i - 1], t[i], c)
  <2>1. h = [i \in 0 .. Len(t) |-> Body1(i)]
    <3> HIDE DEF h
    <3> QED
      BY <1>8, Zenon DEF Rec, More, Extended
  <2> HIDE DEF h
  <2>2. \A i \in 0 .. Len(t) : h[i] = Body1(i)
    BY <2>1, Zenon
  <2>3. \A i \in 1 .. Len(t) : h[i] = More(h[i - 1], t[i], c)
    <3>1. \A i \in 1 .. Len(t) : i \in 0 .. Len(t) /\ i # 0
      BY <1>1
    <3> QED
      BY <2>2, <3>1
  <2>4. h[0] = <<<< >>>>
    BY <1>1, <2>2
  <2>5. \A i \in 0 .. Len(t) : h[i] = f[i]
    <3> DEFINE Bad == {i \in 0 .. Len(t) : h[i] # f[i]}
    <3> SUFFICES ASSUME Bad # {} PROVE FALSE
      OBVIOUS
    <3>1. PICK m \in Bad : \A k \in Bad : m <= k
      <4>1. Bad \in SUBSET Nat
        BY <1>1
      <4> HIDE DEF Bad
      <4> QED
        BY <4>1, LeastNatural
    <3>2. m # 0
      BY <1>5, <2>4, <3>1
    <3>3. m \in 1 .. Len(t) /\ m - 1 \in 0 .. Len(t) /\ ~(m <= m - 1)
      BY <1>1, <3>1, <3>2
    <3>4. h[m - 1] = f[m - 1]
      BY <3>1, <3>3
    <3> QED
      BY <1>6, <2>3, <3>1, <3>3, <3>4
  <2>6. h = f
    <3>1. h = [i \in 0 .. Len(t) |-> h[i]]
      BY <2>1
    <3>2. f = [i \in 0 .. Len(t) |-> f[i]]
      OBVIOUS
    <3> QED
      BY <2>5, <3>1, <3>2
  <2> QED
    BY <2>3, <2>4, <2>6
<1> HIDE DEF h
<1> QED
  BY <1>2, <1>9 DEF Splits

-----------------------------------------------------------------------------
(* FlattenSeq, and what it is made of.                                     *)
Flattens(p, f) ==
    /\ f \in [0 .. Len(p) -> Str] /\ f[0] = << >>
    /\ \A i \in 1 .. Len(p) : f[i] = f[i - 1] \o p[i]

LEMMA FlattenIs ==
    ASSUME NEW p \in Seq(Str)
    PROVE  \E f : Flattens(p, f) /\ FlattenSeq(p) = f[Len(p)]
<1>1. Len(p) \in Nat /\ << >> \in Str
  BY DEF Str
<1>0. CASE Len(p) = 0
  <2>1. p = << >> /\ FlattenSeq(p) = p
    BY <1>0 DEF FlattenSeq
  <2>2. Flattens(p, [i \in 0 .. Len(p) |-> << >>])
    BY <1>0, <1>1 DEF Flattens
  <2>3. [i \in 0 .. Len(p) |-> << >>][Len(p)] = << >>
    BY <1>0
  <2> QED
    BY <2>1, <2>2, <2>3
<1> SUFFICES ASSUME Len(p) # 0 PROVE \E f : Flattens(p, f) /\ FlattenSeq(p) = f[Len(p)]
  BY <1>0
<1> DEFINE s == [i \in 1 .. Len(p) |-> [r \in Str |-> r \o p[i]]]
           Rec(f) == f = [i \in 1 .. Len(p) |-> IF i = 1 THEN p[i] ELSE f[i - 1] \o p[i]]
           h == CHOOSE f : Rec(f)
<1>2. FlattenSeq(p) = h[Len(p)]
  BY Zenon DEF FlattenSeq
<1>3. \A i \in 1 .. Len(p) : p[i] \in Str
  OBVIOUS
<1>4. s \in [1 .. Len(p) -> [Str -> Str]]
  <2>1. ASSUME NEW i \in 1 .. Len(p), NEW r \in Str PROVE r \o p[i] \in Str
    BY <1>3 DEF Str
  <2> QED
    BY <2>1
<1>5. PICK f \in [0 .. Len(p) -> Str] : f[0] = << >> /\ \A i \in 1 .. Len(p) : f[i] = s[i][f[i - 1]]
  <2> HIDE DEF s
  <2>1. PICK b, n, x : b = << >> /\ n = Len(p) /\ x = s
    OBVIOUS
  <2>2. b \in Str /\ n \in Nat /\ x \in [1 .. n -> [Str -> Str]]
    BY <1>1, <1>4, <2>1
  <2>3. PICK f : Iterated(n, Str, b, x, f)
    BY <2>2, Iterates, Zenon
  <2> QED
    BY <2>1, <2>3 DEF Iterated
<1>6. ASSUME NEW i \in 1 .. Len(p) PROVE f[i - 1] \in Str /\ f[i] = f[i - 1] \o p[i]
  <2>1. i - 1 \in 0 .. Len(p)
    BY <1>1
  <2>2. f[i - 1] \in Str
    BY <2>1
  <2>3. f[i] = s[i][f[i - 1]]
    BY <1>5
  <2> QED
    BY <2>2, <2>3
<1> HIDE DEF s
<1>7. \E g : Rec(g)
  <2> DEFINE g == [i \in 1 .. Len(p) |-> f[i]]
  <2>1. ASSUME NEW i \in 1 .. Len(p)
        PROVE  g[i] = IF i = 1 THEN p[i] ELSE g[i - 1] \o p[i]
    <3>1. CASE i = 1
      <4>1. f[1] = f[0] \o p[1] /\ p[1] \in Str
        BY <1>3, <1>6, <3>1
      <4>2. << >> \o p[1] = p[1]
        BY <4>1 DEF Str
      <4> QED
        BY <1>5, <3>1, <4>1, <4>2
    <3>2. CASE i # 1
      <4>1. i - 1 \in 1 .. Len(p)
        BY <1>1, <3>2
      <4> QED
        BY <1>6, <3>2, <4>1
    <3> QED
      BY <3>1, <3>2
  <2>2. g = [i \in 1 .. Len(p) |-> g[i]]
    OBVIOUS
  <2> HIDE DEF g
  <2>3. Rec(g)
    BY <2>1, <2>2, Zenon
  <2> QED
    BY <2>3
<1> HIDE DEF Rec
<1>8. Rec(h)
  BY <1>7
<1>9. \A i \in 1 .. Len(p) : h[i] = f[i]
  <2>0. h = [i \in 1 .. Len(p) |-> IF i = 1 THEN p[i] ELSE h[i - 1] \o p[i]]
    <3> HIDE DEF h
    <3> QED
      BY <1>8, Zenon DEF Rec
  <2> HIDE DEF h
  <2>1. \A i \in 1 .. Len(p) : h[i] = IF i = 1 THEN p[i] ELSE h[i - 1] \o p[i]
    BY <2>0, Zenon
  <2> DEFINE Bad == {i \in 1 .. Len(p) : h[i] # f[i]}
  <2> SUFFICES ASSUME Bad # {} PROVE FALSE
    OBVIOUS
  <2>2. PICK m \in Bad : \A k \in Bad : m <= k
    <3>1. Bad \in SUBSET Nat
      BY <1>1
    <3> HIDE DEF Bad
    <3> QED
      BY <3>1, LeastNatural
  <2>3. m \in 1 .. Len(p) /\ m # 1
    <3>1. f[1] = f[0] \o p[1] /\ p[1] \in Str /\ h[1] = p[1]
      <4>1. 1 \in 1 .. Len(p)
        BY <1>1
      <4> QED
        BY <1>3, <1>6, <2>1, <4>1
    <3>2. << >> \o p[1] = p[1]
      BY <3>1 DEF Str
    <3> QED
      BY <1>5, <2>2, <3>1, <3>2
  <2>4. m - 1 \in 1 .. Len(p) /\ ~(m <= m - 1)
    BY <1>1, <2>3
  <2>5. h[m - 1] = f[m - 1]
    BY <2>2, <2>4
  <2>6. h[m] = h[m - 1] \o p[m]
    BY <2>1, <2>3
  <2>7. f[m] = f[m - 1] \o p[m]
    BY <1>6, <2>3
  <2>8. h[m] # f[m]
    BY <2>2
  <2> QED
    BY <2>5, <2>6, <2>7, <2>8
<1> HIDE DEF h
<1>10. Len(p) \in 1 .. Len(p)
  BY <1>1
<1> QED
  BY <1>2, <1>5, <1>6, <1>9, <1>10 DEF Flattens

(* What is put together first stays in front.                              *)
LEMMA FlattenGrows ==
    ASSUME NEW p \in Seq(Str), NEW f, Flattens(p, f), NEW i \in 0 .. Len(p), NEW j \in i .. Len(p)
    PROVE  /\ f[i] \in Str /\ f[j] \in Str /\ Len(f[i]) \in Nat /\ Len(f[j]) \in Nat
           /\ Len(f[i]) <= Len(f[j])
           /\ \A k \in 1 .. Len(f[i]) : f[j][k] = f[i][k]
<1>1. Len(p) \in Nat /\ \A m \in 0 .. Len(p) : f[m] \in Str /\ Len(f[m]) \in Nat
  BY DEF Flattens, Str
<1> DEFINE Holds(m) == Len(f[i]) <= Len(f[m]) /\ \A k \in 1 .. Len(f[i]) : f[m][k] = f[i][k]
           Bad == {m \in i .. Len(p) : ~Holds(m)}
<1>2. Bad = {}
  <2> SUFFICES ASSUME Bad # {} PROVE FALSE
    OBVIOUS
  <2>1. PICK m \in Bad : \A k \in Bad : m <= k
    <3>1. Bad \in SUBSET Nat
      BY <1>1
    <3> HIDE DEF Bad
    <3> QED
      BY <3>1, LeastNatural
  <2>2. m # i
    BY <1>1, <2>1
  <2>3. m \in 1 .. Len(p) /\ m - 1 \in i .. Len(p) /\ ~(m <= m - 1) /\ m - 1 \in 0 .. Len(p)
    BY <1>1, <2>1, <2>2
  <2>4. Holds(m - 1)
    BY <2>1, <2>3
  <2>5. PICK x, y : x = f[m - 1] /\ y = p[m] /\ x \in Seq(Char) /\ y \in Seq(Char) /\ f[m] = x \o y
    <3>1. p[m] \in Str
      BY <2>3
    <3>2. f[m] = f[m - 1] \o p[m]
      BY <2>3 DEF Flattens
    <3> QED
      BY <1>1, <2>3, <3>1, <3>2 DEF Str
  <2>6. /\ Len(f[m]) = Len(f[m - 1]) + Len(p[m]) /\ Len(p[m]) \in Nat
        /\ \A n \in 1 .. Len(f[m - 1]) : f[m][n] = f[m - 1][n]
    <3>1. /\ Len(x \o y) = Len(x) + Len(y) /\ Len(y) \in Nat
          /\ \A n \in 1 .. Len(x) : (x \o y)[n] = x[n]
      <4>1. x \in Seq(Char) /\ y \in Seq(Char)
        BY <2>5
      <4> QED
        BY ONLY <4>1, JoinedIs
    <3>2. Len(f[m]) = Len(x \o y) /\ Len(f[m - 1]) = Len(x) /\ Len(p[m]) = Len(y)
      BY <2>5
    <3>3. \A n \in 1 .. Len(x) : f[m][n] = f[m - 1][n]
      BY <2>5, <3>1
    <3> QED
      BY <3>1, <3>2, <3>3
  <2>7. Holds(m)
    <3>1. Len(f[m - 1]) \in Nat /\ Len(f[i]) \in Nat /\ Len(f[m]) \in Nat
      BY <1>1, <2>3
    <3>2. \A k \in 1 .. Len(f[i]) : k \in 1 .. Len(f[m - 1])
      BY <2>4, <3>1
    <3>3. Len(f[i]) <= Len(f[m])
      <4>1. PICK k1, k2, k3, k4 : k1 = Len(f[i]) /\ k2 = Len(f[m - 1]) /\ k3 = Len(p[m]) /\ k4 = Len(f[m])
        OBVIOUS
      <4>2. k1 \in Nat /\ k2 \in Nat /\ k3 \in Nat /\ k1 <= k2 /\ k4 = k2 + k3
        BY <2>4, <2>6, <3>1, <4>1
      <4>3. k1 <= k4
        BY ONLY <4>2
      <4> QED
        BY <4>1, <4>3
    <3>4. ASSUME NEW k \in 1 .. Len(f[i]) PROVE f[m][k] = f[i][k]
      <4>1. f[m][k] = f[m - 1][k]
        BY <2>6, <3>2
      <4>2. f[m - 1][k] = f[i][k]
        BY <2>4
      <4> QED
        BY <4>1, <4>2
    <3> QED
      BY <3>3, <3>4
  <2> QED
    BY <2>1, <2>7
<1>3. Holds(j)
  BY <1>2
<1>4. j \in 0 .. Len(p)
  BY <1>1
<1> QED
  BY <1>1, <1>3, <1>4

LEMMA FlattenedIsText ==
    ASSUME NEW p \in Seq(Str)
    PROVE  FlattenSeq(p) \in Str
<1>1. PICK f : Flattens(p, f) /\ FlattenSeq(p) = f[Len(p)]
  BY FlattenIs
<1>2. Len(p) \in 0 .. Len(p)
  OBVIOUS
<1> QED
  BY <1>1, <1>2 DEF Flattens

(* A character of the whole is one of a part.                              *)
LEMMA HasJoined ==
    ASSUME NEW r \in Str, NEW s \in Str, NEW c
    PROVE  Has(r \o s, c) <=> Has(r, c) \/ Has(s, c)
<1>1. /\ r \o s \in Str /\ Len(r \o s) = Len(r) + Len(s) /\ Len(r) \in Nat /\ Len(s) \in Nat
      /\ \A n \in 1 .. Len(r) : (r \o s)[n] = r[n]
      /\ \A n \in 1 .. Len(s) : (r \o s)[Len(r) + n] = s[n]
  BY JoinedIs DEF Str
<1>2. ASSUME NEW t \in Str PROVE Has(t, c) <=> \E n \in 1 .. Len(t) : t[n] = c
  BY DEF Has, Str
<1>3. ASSUME NEW n \in 1 .. Len(r) PROVE n \in 1 .. Len(r \o s)
  BY <1>1
<1>4. ASSUME NEW n \in 1 .. Len(s) PROVE Len(r) + n \in 1 .. Len(r \o s)
  BY <1>1
<1>5. ASSUME NEW n \in 1 .. Len(r \o s) PROVE n \in 1 .. Len(r) \/ \E m \in 1 .. Len(s) : n = Len(r) + m
  <2>1. n \notin 1 .. Len(r) => n - Len(r) \in 1 .. Len(s) /\ n = Len(r) + (n - Len(r))
    BY <1>1
  <2> QED
    BY <2>1
<1>6. (\E n \in 1 .. Len(r \o s) : (r \o s)[n] = c) => (\E n \in 1 .. Len(r) : r[n] = c) \/ \E n \in 1 .. Len(s) : s[n] = c
  <2>1. ASSUME NEW n \in 1 .. Len(r \o s), (r \o s)[n] = c
        PROVE  (\E k \in 1 .. Len(r) : r[k] = c) \/ \E k \in 1 .. Len(s) : s[k] = c
    <3>1. CASE n \in 1 .. Len(r)
      BY <1>1, <2>1, <3>1
    <3>2. CASE \E m \in 1 .. Len(s) : n = Len(r) + m
      BY <1>1, <2>1, <3>2
    <3> QED
      BY <1>5, <3>1, <3>2
  <2> QED
    BY <2>1
<1>7. (\E n \in 1 .. Len(r) : r[n] = c) => \E n \in 1 .. Len(r \o s) : (r \o s)[n] = c
  BY <1>1, <1>3
<1>8. (\E n \in 1 .. Len(s) : s[n] = c) => \E n \in 1 .. Len(r \o s) : (r \o s)[n] = c
  BY <1>1, <1>4
<1> QED
  BY <1>1, <1>2, <1>6, <1>7, <1>8, Zenon

LEMMA HasFlattened ==
    ASSUME NEW p \in Seq(Str), NEW c, \A i \in 1 .. Len(p) : ~Has(p[i], c)
    PROVE  ~Has(FlattenSeq(p), c)
<1>1. PICK f : Flattens(p, f) /\ FlattenSeq(p) = f[Len(p)]
  BY FlattenIs
<1>2. Len(p) \in Nat
  OBVIOUS
<1> DEFINE Bad == {i \in 0 .. Len(p) : Has(f[i], c)}
<1>3. Bad = {}
  <2> SUFFICES ASSUME Bad # {} PROVE FALSE
    OBVIOUS
  <2>1. PICK m \in Bad : \A k \in Bad : m <= k
    <3>1. Bad \in SUBSET Nat
      BY <1>2
    <3> HIDE DEF Bad
    <3> QED
      BY <3>1, LeastNatural
  <2>2. m # 0
    <3>1. ~Has(<< >>, c)
      BY DEF Has
    <3> QED
      BY <1>1, <2>1, <3>1 DEF Flattens
  <2>3. m \in 1 .. Len(p) /\ m - 1 \in 0 .. Len(p) /\ ~(m <= m - 1)
    BY <1>2, <2>1, <2>2
  <2>4. f[m] = f[m - 1] \o p[m] /\ f[m - 1] \in Str /\ p[m] \in Str
    <3>1. p[m] \in Str
      BY <2>3
    <3> QED
      BY <1>1, <2>3, <3>1 DEF Flattens
  <2>5. PICK x, y : x = f[m - 1] /\ y = p[m]
    OBVIOUS
  <2>6. x \in Str /\ y \in Str /\ ~Has(x, c) /\ ~Has(y, c) /\ Has(x \o y, c)
    BY <2>1, <2>3, <2>4, <2>5
  <2> QED
    BY <2>6, HasJoined
<1>4. Len(p) \in 0 .. Len(p)
  BY <1>2
<1> QED
  BY <1>1, <1>3, <1>4

(* No dot segment: nothing is removed.                                     *)
LEMMA NothingRemoved ==
    ASSUME NEW p \in Seq(Str), \A i \in 1 .. Len(p) : p[i] \notin DotSegments
    PROVE  Removed(p) = p
<1>1. Len(p) \in Nat /\ \A i \in 1 .. Len(p) : p[i] # <<".">> /\ p[i] # <<".", ".">>
  <2>1. Len(p) \in Nat
    OBVIOUS
  <2>2. \A i \in 1 .. Len(p) : p[i] # <<".">> /\ p[i] # <<".", ".">>
    BY Zenon DEF DotSegments
  <2> QED
    BY <2>1, <2>2
<1> DEFINE Rec(f) == f = [n \in 0 .. Len(p) |->
                CASE n = 0 -> << >>
                  [] n > 0 /\ p[n] = <<".">> -> f[n - 1]
                  [] n > 0 /\ p[n] = <<".", ".">> -> Front(f[n - 1])
                  [] OTHER -> Append(f[n - 1], p[n])]
           h == CHOOSE f : Rec(f)
           g == [n \in 0 .. Len(p) |-> SubSeq(p, 1, n)]
<1>2. Removed(p) = h[Len(p)]
  BY Zenon DEF Removed
<1>3. ASSUME NEW n \in 1 .. Len(p) PROVE SubSeq(p, 1, n) = Append(SubSeq(p, 1, n - 1), p[n])
  OBVIOUS
<1>4. ASSUME NEW f, NEW n \in 0 .. Len(p)
      PROVE  (CASE n = 0 -> << >>
                  [] n > 0 /\ p[n] = <<".">> -> f[n - 1]
                  [] n > 0 /\ p[n] = <<".", ".">> -> Front(f[n - 1])
                  [] OTHER -> Append(f[n - 1], p[n]))
              = IF n = 0 THEN << >> ELSE Append(f[n - 1], p[n])
  <2>1. n = 0 \/ n \in 1 .. Len(p)
    BY <1>1
  <2>2. CASE n = 0
    BY <2>2
  <2>3. CASE n \in 1 .. Len(p)
    <3>1. p[n] # <<".">> /\ p[n] # <<".", ".">> /\ n # 0
      BY <1>1, <2>3
    <3> QED
      BY <3>1
  <2> QED
    BY <2>1, <2>2, <2>3, Zenon
<1>5. \A f : Rec(f) <=> f = [n \in 0 .. Len(p) |-> IF n = 0 THEN << >> ELSE Append(f[n - 1], p[n])]
  <2> TAKE f
  <2> DEFINE Kept(n) == CASE n = 0 -> << >>
                          [] n > 0 /\ p[n] = <<".">> -> f[n - 1]
                          [] n > 0 /\ p[n] = <<".", ".">> -> Front(f[n - 1])
                          [] OTHER -> Append(f[n - 1], p[n])
             All(n) == IF n = 0 THEN << >> ELSE Append(f[n - 1], p[n])
  <2>1. \A n \in 0 .. Len(p) : Kept(n) = All(n)
    BY <1>4, Zenon
  <2>2. [n \in 0 .. Len(p) |-> Kept(n)] = [n \in 0 .. Len(p) |-> All(n)]
    <3> HIDE DEF Kept, All
    <3> QED
      BY <2>1
  <2>3. Rec(f) <=> f = [n \in 0 .. Len(p) |-> Kept(n)]
    OBVIOUS
  <2> QED
    BY <2>2, <2>3, Zenon
<1>6. Rec(g)
  <2>1. ASSUME NEW n \in 0 .. Len(p) PROVE g[n] = IF n = 0 THEN << >> ELSE Append(g[n - 1], p[n])
    <3>1. CASE n = 0
      BY <3>1
    <3>2. CASE n # 0
      <4>1. n \in 1 .. Len(p) /\ n - 1 \in 0 .. Len(p)
        BY <1>1, <3>2
      <4> QED
        BY <1>3, <3>2, <4>1
    <3> QED
      BY <3>1, <3>2
  <2>2. g = [n \in 0 .. Len(p) |-> g[n]]
    OBVIOUS
  <2> HIDE DEF g, Rec
  <2>3. g = [n \in 0 .. Len(p) |-> IF n = 0 THEN << >> ELSE Append(g[n - 1], p[n])]
    BY <2>1, <2>2, Zenon
  <2> QED
    BY <1>5, <2>3, Zenon
<1> HIDE DEF Rec
<1>7. Rec(h)
  BY <1>6
<1> HIDE DEF h
<1>8. \A n \in 0 .. Len(p) : h[n] = IF n = 0 THEN << >> ELSE Append(h[n - 1], p[n])
  <2>1. h = [n \in 0 .. Len(p) |-> IF n = 0 THEN << >> ELSE Append(h[n - 1], p[n])]
    BY <1>5, <1>7, Zenon
  <2> QED
    BY <2>1, Zenon
<1> DEFINE Bad == {n \in 0 .. Len(p) : h[n] # SubSeq(p, 1, n)}
<1>9. Bad = {}
  <2> SUFFICES ASSUME Bad # {} PROVE FALSE
    OBVIOUS
  <2>1. PICK m \in Bad : \A k \in Bad : m <= k
    <3>1. Bad \in SUBSET Nat
      BY <1>1
    <3> HIDE DEF Bad
    <3> QED
      BY <3>1, LeastNatural
  <2>2. m # 0
    <3>1. h[0] = << >> /\ SubSeq(p, 1, 0) = << >>
      BY <1>1, <1>8
    <3> QED
      BY <2>1, <3>1
  <2>3. m \in 1 .. Len(p) /\ m - 1 \in 0 .. Len(p) /\ ~(m <= m - 1)
    BY <1>1, <2>1, <2>2
  <2>4. h[m - 1] = SubSeq(p, 1, m - 1) /\ h[m] = Append(h[m - 1], p[m])
    BY <1>8, <2>1, <2>2, <2>3
  <2> QED
    BY <1>3, <2>1, <2>3, <2>4
<1>10. SubSeq(p, 1, Len(p)) = p /\ Len(p) \in 0 .. Len(p)
  BY <1>1
<1> QED
  BY <1>2, <1>9, <1>10

-----------------------------------------------------------------------------
(* Splitting.                                                              *)
LEMMA SplitIsParts ==
    ASSUME NEW t \in Str, NEW c
    PROVE  Split(t, c) \in Parts
<1>1. PICK f : Splits(t, c, f) /\ Split(t, c) = f[Len(t)]
  BY SplitIs
<1>2. Len(t) \in 0 .. Len(t)
  BY DEF Str
<1> QED
  BY <1>1, <1>2 DEF Splits

(* A text without the separator is one part.                               *)
LEMMA SplitWhole ==
    ASSUME NEW t \in Str, NEW c, ~Has(t, c)
    PROVE  Split(t, c) = <<t>>
<1>1. PICK f : Splits(t, c, f) /\ Split(t, c) = f[Len(t)]
  BY SplitIs
<1>2. Len(t) \in Nat /\ t \in Seq(Char) /\ \A i \in 1 .. Len(t) : t[i] # c /\ t[i] \in Char
  BY DEF Has, Str
<1> DEFINE Bad == {i \in 0 .. Len(t) : f[i] # <<SubSeq(t, 1, i)>>}
<1>3. Bad = {}
  <2> SUFFICES ASSUME Bad # {} PROVE FALSE
    OBVIOUS
  <2>1. PICK m \in Bad : \A k \in Bad : m <= k
    <3>1. Bad \in SUBSET Nat
      BY <1>2
    <3> HIDE DEF Bad
    <3> QED
      BY <3>1, LeastNatural
  <2>2. m # 0
    <3>1. f[0] = <<<< >>>> /\ SubSeq(t, 1, 0) = << >>
      BY <1>1, <1>2 DEF Splits
    <3> QED
      BY <2>1, <3>1
  <2>3. m \in 1 .. Len(t) /\ m - 1 \in 0 .. Len(t) /\ ~(m <= m - 1)
    BY <1>2, <2>1, <2>2
  <2>4. PICK p, s : p = f[m - 1] /\ s = SubSeq(t, 1, m - 1)
    OBVIOUS
  <2>5. p = <<s>> /\ p \in Parts /\ s \in Str
    <3>1. p = <<s>>
      BY <2>1, <2>3, <2>4
    <3>2. p \in Parts
      BY <1>1, <2>3, <2>4 DEF Splits
    <3>3. s \in Str
      BY <1>2, <2>3, <2>4 DEF Str
    <3> QED
      BY <3>1, <3>2, <3>3
  <2>6. f[m] = Extended(p, t[m])
    BY <1>1, <1>2, <2>3, <2>4 DEF Splits, More
  <2>7. Extended(p, t[m]) = <<Append(s, t[m])>>
    BY <2>5 DEF Extended
  <2>8. Append(s, t[m]) = SubSeq(t, 1, m)
    BY <1>2, <2>3, <2>4
  <2> QED
    BY <2>1, <2>6, <2>7, <2>8
<1>4. SubSeq(t, 1, Len(t)) = t /\ Len(t) \in 0 .. Len(t)
  BY <1>2
<1> QED
  BY <1>1, <1>3, <1>4

(* Parts in front stay as they are.                                        *)
LEMMA MoreBehind ==
    ASSUME NEW a \in Parts, NEW p \in Parts, NEW d \in Char, NEW c
    PROVE  More(a \o p, d, c) = a \o More(p, d, c) /\ a \o p \in Parts
<1>1. a \in Seq(Str) /\ p \in Seq(Str) /\ Len(a) \in Nat \ {0} /\ Len(p) \in Nat \ {0}
  BY ExtendedIs DEF Parts
<1>2. a \o p \in Seq(Str) /\ Len(a \o p) = Len(a) + Len(p)
  BY <1>1
<1>3. a \o p \in Parts
  BY <1>1, <1>2 DEF Parts
<1>4. Append(a \o p, << >>) = a \o Append(p, << >>)
  BY <1>1
<1>5. Extended(a \o p, d) = a \o Extended(p, d)
  <2>1. PICK x, y, e : x = a \o p /\ y = Extended(p, d) /\ e = Extended(x, d)
    OBVIOUS
  <2>2. /\ e \in Seq(Str) /\ Len(e) = Len(a) + Len(p)
        /\ \A k \in 1 .. (Len(a) + Len(p)) : e[k] = IF k = Len(a) + Len(p) THEN Append(x[k], d) ELSE x[k]
    <3>1. x \in Parts
      BY <1>3, <2>1
    <3>2. /\ e \in Parts /\ Len(e) = Len(x)
          /\ \A k \in 1 .. Len(x) : e[k] = IF k = Len(x) THEN Append(x[k], d) ELSE x[k]
      BY <2>1, <3>1, ExtendedIs
    <3> QED
      BY <1>2, <2>1, <3>2 DEF Parts
  <2>3. /\ y \in Seq(Str) /\ Len(y) = Len(p)
        /\ \A k \in 1 .. Len(p) : y[k] = IF k = Len(p) THEN Append(p[k], d) ELSE p[k]
    <3>1. /\ y \in Parts /\ Len(y) = Len(p)
          /\ \A k \in 1 .. Len(p) : y[k] = IF k = Len(p) THEN Append(p[k], d) ELSE p[k]
      BY <2>1, ExtendedIs
    <3> QED
      BY <3>1 DEF Parts
  <2>4. /\ \A k \in 1 .. Len(a) : x[k] = a[k]
        /\ \A k \in 1 .. Len(p) : x[Len(a) + k] = p[k]
    BY <1>1, <2>1, JoinedIs
  <2>5. /\ a \o y \in Seq(Str) /\ Len(a \o y) = Len(a) + Len(p)
        /\ \A k \in 1 .. Len(a) : (a \o y)[k] = a[k]
        /\ \A k \in 1 .. Len(p) : (a \o y)[Len(a) + k] = y[k]
    <3>1. a \in Seq(Str) /\ y \in Seq(Str)
      BY <1>1, <2>3
    <3>2. /\ a \o y \in Seq(Str) /\ Len(a \o y) = Len(a) + Len(y)
          /\ \A k \in 1 .. Len(a) : (a \o y)[k] = a[k]
          /\ \A k \in 1 .. Len(y) : (a \o y)[Len(a) + k] = y[k]
      BY <3>1, JoinedIs
    <3> QED
      BY <2>3, <3>2
  <2>6. ASSUME NEW k \in 1 .. (Len(a) + Len(p)) PROVE e[k] = (a \o y)[k]
    <3>1. CASE k \in 1 .. Len(a)
      <4>1. k # Len(a) + Len(p)
        BY <1>1, <3>1
      <4> QED
        BY <2>2, <2>4, <2>5, <3>1, <4>1
    <3>2. CASE k \notin 1 .. Len(a)
      <4>1. PICK j \in 1 .. Len(p) : k = Len(a) + j
        <5>1. k - Len(a) \in 1 .. Len(p) /\ k = Len(a) + (k - Len(a))
          BY <1>1, <3>2
        <5> QED
          BY <5>1
      <4>2. k = Len(a) + Len(p) <=> j = Len(p)
        BY <1>1, <4>1
      <4>3. e[k] = IF j = Len(p) THEN Append(x[k], d) ELSE x[k]
        BY <2>2, <4>2
      <4>4. x[k] = p[j] /\ (a \o y)[k] = y[j]
        BY <2>4, <2>5, <4>1
      <4>5. y[j] = IF j = Len(p) THEN Append(p[j], d) ELSE p[j]
        BY <2>3, <4>1
      <4> QED
        BY <4>3, <4>4, <4>5
    <3> QED
      BY <3>1, <3>2
  <2>7. e = a \o y
    <3>1. PICK z, n : z = a \o y /\ n = Len(a) + Len(p)
      OBVIOUS
    <3>2. e \in Seq(Str) /\ z \in Seq(Str) /\ Len(e) = n /\ Len(z) = n /\ \A k \in 1 .. n : e[k] = z[k]
      BY <2>2, <2>5, <2>6, <3>1
    <3>3. e = z
      BY ONLY <3>2
    <3> QED
      BY <3>1, <3>3
  <2> QED
    BY <2>1, <2>7
<1> QED
  BY <1>3, <1>4, <1>5 DEF More

(* Two texts with the separator between them.                              *)
LEMMA SplitJoins ==
    ASSUME NEW a \in Str, NEW b \in Str, NEW c \in Char
    PROVE  /\ Split(a \o (<<c>> \o b), c) = Split(a, c) \o Split(b, c)
           /\ a \o (<<c>> \o b) \in Str
<1> DEFINE t == a \o (<<c>> \o b)
<1>1. /\ Len(a) \in Nat /\ Len(b) \in Nat /\ t \in Str /\ Len(t) = Len(a) + 1 + Len(b)
      /\ \A i \in 1 .. Len(a) : t[i] = a[i]
      /\ t[Len(a) + 1] = c
      /\ \A i \in 1 .. Len(b) : t[Len(a) + 1 + i] = b[i]
  BY DEF Str
<1> HIDE DEF t
<1>2. PICK f : Splits(t, c, f) /\ Split(t, c) = f[Len(t)]
  BY <1>1, SplitIs
<1>3. PICK fa : Splits(a, c, fa) /\ Split(a, c) = fa[Len(a)]
  BY SplitIs
<1>4. PICK fb : Splits(b, c, fb) /\ Split(b, c) = fb[Len(b)]
  BY SplitIs
<1>5. ASSUME NEW i \in 0 .. Len(a) PROVE f[i] = fa[i]
  <2> DEFINE Bad == {k \in 0 .. Len(a) : f[k] # fa[k]}
  <2> SUFFICES ASSUME Bad # {} PROVE FALSE
    OBVIOUS
  <2>1. PICK m \in Bad : \A k \in Bad : m <= k
    <3>1. Bad \in SUBSET Nat
      BY <1>1
    <3> HIDE DEF Bad
    <3> QED
      BY <3>1, LeastNatural
  <2>2. m # 0
    BY <1>2, <1>3, <2>1 DEF Splits
  <2>3. m \in 1 .. Len(a) /\ m - 1 \in 0 .. Len(a) /\ ~(m <= m - 1) /\ m \in 1 .. Len(t)
    BY <1>1, <2>1, <2>2
  <2>4. f[m - 1] = fa[m - 1] /\ t[m] = a[m]
    BY <1>1, <2>1, <2>3
  <2>5. f[m] = More(f[m - 1], t[m], c) /\ fa[m] = More(fa[m - 1], a[m], c)
    BY <1>2, <1>3, <2>3 DEF Splits
  <2> QED
    BY <2>1, <2>4, <2>5
<1>6. PICK A, l : A = Split(a, c) /\ l = Len(a) + 1
  OBVIOUS
<1>7. A \in Parts /\ l \in 1 .. Len(t) /\ f[l] = Append(A, << >>) /\ l \in Nat
  <2>1. A \in Parts
    BY <1>6, SplitIsParts
  <2>2. l \in 1 .. Len(t) /\ l - 1 = Len(a) /\ Len(a) \in 0 .. Len(a) /\ l \in Nat
    BY <1>1, <1>6
  <2>3. f[l - 1] = A
    BY <1>3, <1>5, <1>6, <2>2
  <2>4. f[l] = More(f[l - 1], t[l], c) /\ t[l] = c
    BY <1>1, <1>2, <1>6, <2>2 DEF Splits
  <2> QED
    BY <2>1, <2>2, <2>3, <2>4 DEF More
<1>8. ASSUME NEW k \in 0 .. Len(b) PROVE f[l + k] = A \o fb[k]
  <2> DEFINE Bad == {i \in 0 .. Len(b) : f[l + i] # A \o fb[i]}
  <2> SUFFICES ASSUME Bad # {} PROVE FALSE
    OBVIOUS
  <2>1. PICK m \in Bad : \A i \in Bad : m <= i
    <3>1. Bad \in SUBSET Nat
      BY <1>1
    <3> HIDE DEF Bad
    <3> QED
      BY <3>1, LeastNatural
  <2>2. m # 0
    <3>1. fb[0] = <<<< >>>> /\ Append(A, << >>) = A \o <<<< >>>>
      <4>1. << >> \in Str
        BY DEF Str
      <4> QED
        BY <1>4, <1>7, <4>1, AppendedIs DEF Splits
    <3>2. f[l + 0] = A \o fb[0]
      <4>1. l + 0 = l
        BY <1>7
      <4> QED
        BY <1>7, <3>1, <4>1
    <3> QED
      BY <2>1, <3>2
  <2>3. /\ m \in 1 .. Len(b) /\ m - 1 \in 0 .. Len(b) /\ ~(m <= m - 1) /\ l + m \in 1 .. Len(t)
        /\ (l + m) - 1 = l + (m - 1) /\ l + m = Len(a) + 1 + m
    BY <1>1, <1>6, <2>1, <2>2
  <2>4. f[l + (m - 1)] = A \o fb[m - 1] /\ t[l + m] = b[m] /\ fb[m - 1] \in Parts /\ b[m] \in Char
    <3>1. f[l + (m - 1)] = A \o fb[m - 1]
      BY <2>1, <2>3
    <3>2. fb[m - 1] \in Parts
      BY <1>4, <2>3 DEF Splits
    <3>3. b[m] \in Char
      BY <2>3 DEF Str
    <3>4. t[l + m] = b[m]
      BY <1>1, <2>3
    <3> QED
      BY <3>1, <3>2, <3>3, <3>4, Zenon
  <2>5. f[l + m] = More(f[l + (m - 1)], t[l + m], c) /\ fb[m] = More(fb[m - 1], b[m], c)
    BY <1>2, <1>4, <2>3 DEF Splits
  <2>6. More(A \o fb[m - 1], b[m], c) = A \o More(fb[m - 1], b[m], c)
    <3>1. PICK x, d : x = fb[m - 1] /\ d = b[m]
      OBVIOUS
    <3>2. A \in Parts /\ x \in Parts /\ d \in Char
      BY <1>7, <2>4, <3>1
    <3>3. More(A \o x, d, c) = A \o More(x, d, c)
      BY ONLY <3>2, MoreBehind
    <3> QED
      BY <3>1, <3>3
  <2> QED
    BY <2>1, <2>4, <2>5, <2>6
<1>9. Len(t) = l + Len(b) /\ Len(b) \in 0 .. Len(b)
  BY <1>1, <1>6
<1>10. Split(t, c) = A \o Split(b, c)
  BY <1>2, <1>4, <1>8, <1>9
<1> QED
  BY <1>1, <1>6, <1>10 DEF t

(* A text that ends with the separator has an empty last part.             *)
LEMMA SplitEnd ==
    ASSUME NEW t \in Str, NEW c, Len(t) > 0, t[Len(t)] = c
    PROVE  \E n \in DOMAIN Split(t, c) : Split(t, c)[n] = << >>
<1>1. PICK f : Splits(t, c, f) /\ Split(t, c) = f[Len(t)]
  BY SplitIs
<1>2. Len(t) \in 1 .. Len(t) /\ Len(t) - 1 \in 0 .. Len(t) /\ << >> \in Str
  BY DEF Str
<1>3. PICK p : p = f[Len(t) - 1]
  OBVIOUS
<1>4. p \in Parts /\ f[Len(t)] = Append(p, << >>)
  BY <1>1, <1>2, <1>3 DEF Splits, More
<1>5. /\ Append(p, << >>)[Len(p) + 1] = << >> /\ Len(Append(p, << >>)) = Len(p) + 1
      /\ Append(p, << >>) \in Parts /\ Len(p) \in Nat
  BY <1>2, <1>4, AppendedIs DEF Parts
<1>6. Len(p) + 1 \in DOMAIN Append(p, << >>)
  BY <1>5 DEF Parts
<1> QED
  BY <1>1, <1>4, <1>5, <1>6

(* What a part holds, the text holds; and no part holds the separator.     *)
LEMMA HasPart ==
    ASSUME NEW t \in Str, NEW c, NEW n \in DOMAIN Split(t, c)
    PROVE  /\ Split(t, c)[n] \in Str /\ ~Has(Split(t, c)[n], c)
           /\ \A d : Has(Split(t, c)[n], d) => Has(t, d)
<1>1. PICK f : Splits(t, c, f) /\ Split(t, c) = f[Len(t)]
  BY SplitIs
<1>2. Len(t) \in Nat /\ t \in Seq(Char)
  BY DEF Str
<1> DEFINE Sound(p) == \A k \in 1 .. Len(p) : ~Has(p[k], c) /\ \A d : Has(p[k], d) => Has(t, d)
           Bad == {i \in 0 .. Len(t) : ~Sound(f[i])}
<1>3. Bad = {}
  <2> SUFFICES ASSUME Bad # {} PROVE FALSE
    OBVIOUS
  <2>1. PICK m \in Bad : \A k \in Bad : m <= k
    <3>1. Bad \in SUBSET Nat
      BY <1>2
    <3> HIDE DEF Bad
    <3> QED
      BY <3>1, LeastNatural
  <2>e. \A d : ~Has(<< >>, d)
    BY DEF Has
  <2>2. m # 0
    <3>1. f[0] = <<<< >>>>
      BY <1>1 DEF Splits
    <3>2. Sound(f[0])
      BY <2>e, <3>1
    <3> HIDE DEF Sound
    <3> QED
      BY <2>1, <3>2
  <2>3. m \in 1 .. Len(t) /\ m - 1 \in 0 .. Len(t) /\ ~(m <= m - 1)
    BY <1>2, <2>1, <2>2
  <2>4. PICK p, x : p = f[m - 1] /\ x = t[m]
    OBVIOUS
  <2>5. p \in Parts /\ x \in Char /\ f[m] = More(p, x, c) /\ Has(t, x)
    <3>1. m \in DOMAIN t
      BY <1>2, <2>3
    <3> QED
      BY <1>1, <1>2, <2>3, <2>4, <3>1 DEF Splits, Has
  <2>6. Sound(p)
    <3> HIDE DEF Sound
    <3> QED
      BY <2>1, <2>3, <2>4
  <2>7. Sound(More(p, x, c))
    <3>1. CASE x = c
      <4>1. << >> \in Str
        BY DEF Str
      <4>2. /\ Len(Append(p, << >>)) = Len(p) + 1 /\ Append(p, << >>)[Len(p) + 1] = << >>
            /\ \A k \in 1 .. Len(p) : Append(p, << >>)[k] = p[k]
        BY <2>5, <4>1, AppendedIs
      <4>3. Len(p) \in Nat
        BY <2>5 DEF Parts
      <4>4. ASSUME NEW k \in 1 .. (Len(p) + 1) PROVE k \in 1 .. Len(p) \/ k = Len(p) + 1
        BY <4>3
      <4>5. Sound(Append(p, << >>))
        BY <2>e, <2>6, <4>2, <4>4
      <4> QED
        BY <3>1, <4>5 DEF More
    <3>2. CASE x # c
      <4>1. /\ Len(Extended(p, x)) = Len(p) /\ Len(p) \in Nat \ {0}
            /\ \A k \in 1 .. Len(p) : Extended(p, x)[k] = IF k = Len(p) THEN Append(p[k], x) ELSE p[k]
        BY <2>5, ExtendedIs
      <4>2. ASSUME NEW k \in 1 .. Len(p), NEW d PROVE Has(Append(p[k], x), d) <=> Has(p[k], d) \/ d = x
        <5>1. p[k] \in Str
          BY <2>5 DEF Parts
        <5>2. PICK r : r = p[k]
          OBVIOUS
        <5>3. /\ r \in Seq(Char) /\ Len(r) \in Nat /\ Len(Append(r, x)) = Len(r) + 1
              /\ DOMAIN Append(r, x) = 1 .. (Len(r) + 1) /\ DOMAIN r = 1 .. Len(r)
              /\ Append(r, x)[Len(r) + 1] = x
              /\ \A j \in 1 .. Len(r) : Append(r, x)[j] = r[j]
          BY <2>5, <5>1, <5>2 DEF Str
        <5>4. \A j : j \in 1 .. (Len(r) + 1) <=> j \in 1 .. Len(r) \/ j = Len(r) + 1
          BY <5>3
        <5>5. Has(Append(r, x), d) <=> Has(r, d) \/ d = x
          BY <5>3, <5>4, Zenon DEF Has
        <5> QED
          BY <5>2, <5>5
      <4>3. ASSUME NEW k \in 1 .. Len(p), NEW d, Has(Extended(p, x)[k], d)
            PROVE  Has(t, d) /\ d # c
        <5>1. Has(p[k], d) \/ d = x
          BY <4>1, <4>2, <4>3
        <5>2. Has(p[k], d) => Has(t, d) /\ d # c
          BY <2>6
        <5> QED
          BY <2>5, <3>2, <5>1, <5>2
      <4>4. Sound(Extended(p, x))
        BY <4>1, <4>3
      <4> QED
        BY <3>2, <4>4 DEF More
    <3> QED
      BY <3>1, <3>2
  <2> HIDE DEF Sound
  <2> QED
    BY <2>1, <2>5, <2>7
<1>4. Sound(Split(t, c))
  <2>1. Len(t) \in 0 .. Len(t)
    BY <1>2
  <2> HIDE DEF Sound
  <2> QED
    BY <1>1, <1>3, <2>1
<1>5. Split(t, c) \in Parts
  BY SplitIsParts
<1>6. n \in 1 .. Len(Split(t, c)) /\ Split(t, c)[n] \in Str
  BY <1>5 DEF Parts
<1> QED
  BY <1>4, <1>6

-----------------------------------------------------------------------------
(* Joining with slashes.                                                   *)
LEMMA JoinedSplit ==
    ASSUME NEW x \in Parts
    PROVE  /\ Joined(x) \in Str
           /\ \A c : c # "/" /\ (\A n \in 1 .. Len(x) : ~Has(x[n], c)) => ~Has(Joined(x), c)
           /\ \E g : /\ g \in [1 .. Len(x) -> Parts] /\ g[1] = Split(x[1], "/")
                     /\ \A n \in 2 .. Len(x) : g[n] = g[n - 1] \o Split(x[n], "/")
                     /\ Split(Joined(x), "/") = g[Len(x)]
<1> DEFINE q == [n \in DOMAIN x |-> IF n = 1 THEN x[n] ELSE <<"/">> \o x[n]]
<1>1. /\ x \in Seq(Str) /\ Len(x) \in Nat \ {0} /\ DOMAIN x = 1 .. Len(x)
      /\ \A n \in 1 .. Len(x) : x[n] \in Str
  BY ExtendedIs, EmptySeq DEF Parts
<1>2. "/" \in Char /\ <<"/">> \in Str
  BY DEF Char, Literal, Str
<1>3. \A n \in 1 .. Len(x) : q[n] \in Str
  BY <1>1, <1>2 DEF Str
<1>4. q \in Seq(Str) /\ Len(q) = Len(x) /\ Joined(x) = FlattenSeq(q)
      /\ \A n \in 1 .. Len(x) : q[n] = IF n = 1 THEN x[n] ELSE <<"/">> \o x[n]
  BY <1>1, <1>3 DEF Joined
<1> HIDE DEF q
<1>5. PICK f : Flattens(q, f) /\ FlattenSeq(q) = f[Len(q)]
  BY <1>4, FlattenIs
<1>6. \A n \in 0 .. Len(x) : f[n] \in Str
  BY <1>4, <1>5 DEF Flattens
<1>7. f[1] = x[1]
  <2>0. 1 \in 1 .. Len(x) /\ 1 \in 1 .. Len(q) /\ 1 - 1 = 0
    BY <1>1, <1>4
  <2>1. f[1] = f[0] \o q[1] /\ f[0] = << >> /\ 1 \in 1 .. Len(x)
    <3>1. f[1] = f[1 - 1] \o q[1] /\ f[0] = << >>
      BY <1>5, <2>0 DEF Flattens
    <3> QED
      BY <2>0, <3>1
  <2>2. q[1] = x[1] /\ x[1] \in Str
    BY <1>1, <1>4, <2>1
  <2>3. << >> \o x[1] = x[1]
    BY <2>2 DEF Str
  <2> QED
    BY <2>1, <2>2, <2>3
<1>8. ASSUME NEW n \in 2 .. Len(x)
      PROVE  /\ f[n] = f[n - 1] \o (<<"/">> \o x[n]) /\ n - 1 \in 0 .. Len(x) /\ n - 1 \in 1 .. Len(x)
             /\ n \in 1 .. Len(x) /\ n # 1
  <2>1. n \in 1 .. Len(x) /\ n # 1 /\ n - 1 \in 0 .. Len(x) /\ n - 1 \in 1 .. Len(x)
    BY <1>1
  <2>2. f[n] = f[n - 1] \o q[n]
    BY <1>4, <1>5, <2>1 DEF Flattens
  <2> QED
    BY <1>4, <2>1, <2>2
<1> DEFINE g == [n \in 1 .. Len(x) |-> Split(f[n], "/")]
<1>9. g \in [1 .. Len(x) -> Parts]
  <2>1. ASSUME NEW n \in 1 .. Len(x) PROVE Split(f[n], "/") \in Parts
    <3>1. n \in 0 .. Len(x)
      BY <1>1
    <3> QED
      BY <1>6, <3>1, SplitIsParts
  <2> QED
    BY <2>1
<1>10. g[1] = Split(x[1], "/") /\ Split(Joined(x), "/") = g[Len(x)]
  BY <1>1, <1>4, <1>5, <1>7
<1>11. ASSUME NEW n \in 2 .. Len(x) PROVE g[n] = g[n - 1] \o Split(x[n], "/")
  <2>1. f[n - 1] \in Str /\ x[n] \in Str
    BY <1>1, <1>6, <1>8
  <2>2. Split(f[n], "/") = Split(f[n - 1], "/") \o Split(x[n], "/")
    <3>1. Split(f[n - 1] \o (<<"/">> \o x[n]), "/") = Split(f[n - 1], "/") \o Split(x[n], "/")
      BY <1>2, <2>1, SplitJoins, Zenon
    <3> QED
      BY <1>8, <3>1
  <2> QED
    BY <1>8, <2>2
<1> HIDE DEF g
<1>12. ASSUME NEW c, c # "/", \A n \in 1 .. Len(x) : ~Has(x[n], c) PROVE ~Has(Joined(x), c)
  <2>1. ASSUME NEW n \in 1 .. Len(q) PROVE ~Has(q[n], c)
    <3>1. ~Has(<<"/">>, c)
      BY <1>12 DEF Has
    <3>2. ~Has(<<"/">> \o x[n], c)
      BY <1>1, <1>2, <1>4, <1>12, <2>1, <3>1, HasJoined
    <3> QED
      BY <1>4, <1>12, <2>1, <3>2
  <2> QED
    BY <1>4, <2>1, HasFlattened
<1>13. Joined(x) \in Str
  BY <1>4, FlattenedIsText
<1> QED
  BY <1>9, <1>10, <1>11, <1>12, <1>13

(* Joined and split again.                                                 *)
LEMMA JoinedParts ==
    ASSUME NEW x \in Parts, \A n \in 1 .. Len(x) : ~Has(x[n], "/")
    PROVE  Split(Joined(x), "/") = x
<1>1. /\ x \in Seq(Str) /\ Len(x) \in Nat \ {0}
      /\ \A n \in 1 .. Len(x) : x[n] \in Str
  BY ExtendedIs, EmptySeq DEF Parts
<1>2. PICK g : /\ g \in [1 .. Len(x) -> Parts] /\ g[1] = Split(x[1], "/")
               /\ \A n \in 2 .. Len(x) : g[n] = g[n - 1] \o Split(x[n], "/")
               /\ Split(Joined(x), "/") = g[Len(x)]
  BY JoinedSplit
<1>3. \A n \in 1 .. Len(x) : Split(x[n], "/") = <<x[n]>>
  BY <1>1, SplitWhole
<1> DEFINE Bad == {i \in 1 .. Len(x) : g[i] # SubSeq(x, 1, i)}
<1>4. Bad = {}
  <2> SUFFICES ASSUME Bad # {} PROVE FALSE
    OBVIOUS
  <2>1. PICK m \in Bad : \A k \in Bad : m <= k
    <3>1. Bad \in SUBSET Nat
      BY <1>1
    <3> HIDE DEF Bad
    <3> QED
      BY <3>1, LeastNatural
  <2>2. m # 1
    <3>0. 1 \in 1 .. Len(x)
      BY <1>1
    <3>1. g[1] = <<x[1]>> /\ SubSeq(x, 1, 1) = <<x[1]>>
      <4>1. g[1] = <<x[1]>>
        BY <1>2, <1>3, <3>0
      <4>2. x \in Seq(Str) /\ 1 \in 1 .. Len(x)
        BY <1>1, <3>0
      <4>3. SubSeq(x, 1, 1) = <<x[1]>>
        <5>1. PICK z : z = SubSeq(x, 1, 1)
          OBVIOUS
        <5>2. z \in Seq(Str) /\ Len(z) = 1 /\ z[1] = x[1]
          BY <4>2, <5>1
        <5>3. z = <<z[1]>>
          BY ONLY <5>2
        <5> QED
          BY <5>1, <5>2, <5>3
      <4> QED
        BY <4>1, <4>3
    <3> QED
      BY <2>1, <3>1
  <2>3. m \in 2 .. Len(x) /\ m - 1 \in 1 .. Len(x) /\ ~(m <= m - 1) /\ m \in 1 .. Len(x)
    BY <1>1, <2>1, <2>2
  <2>4. g[m] = SubSeq(x, 1, m - 1) \o <<x[m]>>
    BY <1>2, <1>3, <2>1, <2>3
  <2>5. SubSeq(x, 1, m) = SubSeq(x, 1, m - 1) \o <<x[m]>>
    BY <1>1, <2>3
  <2> QED
    BY <2>1, <2>4, <2>5
<1>5. SubSeq(x, 1, Len(x)) = x /\ Len(x) \in 1 .. Len(x)
  BY <1>1
<1> QED
  BY <1>2, <1>4, <1>5

-----------------------------------------------------------------------------
(* Percent-encoding.                                                       *)
Codes(t, k) ==
    /\ k \in Seq(Str) /\ Len(k) = Len(t) /\ PercentEncode(t) = FlattenSeq(k)
    /\ \A i \in 1 .. Len(t) :
        \/ k[i] = <<t[i]>> /\ t[i] \in Unreserved
        \/ k[i] = <<"%", Hex[t[i]]>> /\ t[i] \in DOMAIN Hex
    /\ (\A i \in 1 .. Len(t) : t[i] = ".") => \A i \in 1 .. Len(t) : k[i] = <<"%", Hex["."]>>

LEMMA Alphabet ==
    /\ {"%", "/", "?", "#", "&", "+", "."} \subseteq DOMAIN Hex
    /\ \A c \in DOMAIN Hex : c \in Unreserved => c = "."
    /\ \A c \in DOMAIN Hex : Hex[c] \notin DOMAIN Hex /\ Hex[c] \in Char
    /\ \A c \in Character : c \in Char /\ (c \in Unreserved \/ c \in DOMAIN Hex)
    /\ \A c \in Literal : c \in Char
<1>1. "." \in DOMAIN Hex
  BY HexAssumption
<1> QED
  BY <1>1, HexAssumption DEF Char, Character

LEMMA EncodeIs ==
    ASSUME NEW t \in Seq(Character)
    PROVE  \E k : Codes(t, k)
<1>1. Len(t) \in Nat /\ DOMAIN t = 1 .. Len(t) /\ \A i \in 1 .. Len(t) : t[i] \in Character
  OBVIOUS
<1>2. "%" \in Char
  BY Alphabet DEF Literal
<1>3. ASSUME NEW c \in Character
      PROVE  /\ c \in Unreserved => <<c>> \in Str
             /\ c \in DOMAIN Hex => <<"%", Hex[c]>> \in Str
  <2>1. c \in Char /\ (c \in DOMAIN Hex => Hex[c] \in Char)
    BY Alphabet
  <2> QED
    BY <1>2, <2>1 DEF Str
<1>4. CASE \A i \in 1 .. Len(t) : t[i] = "."
  <2> DEFINE k == [i \in DOMAIN t |-> Escaped(".")]
  <2>1. Escaped(".") = <<"%", Hex["."]>> /\ "." \in DOMAIN Hex /\ Escaped(".") \in Str
    BY <1>3, Alphabet DEF Escaped, Character
  <2>2. k \in Seq(Str) /\ Len(k) = Len(t) /\ \A i \in 1 .. Len(t) : k[i] = Escaped(".")
    BY <1>1, <2>1
  <2>3. PercentEncode(t) = FlattenSeq(k)
    BY <1>1, <1>4 DEF PercentEncode
  <2> HIDE DEF k
  <2> QED
    BY <1>4, <2>1, <2>2, <2>3 DEF Codes
<1>5. CASE ~\A i \in 1 .. Len(t) : t[i] = "."
  <2> DEFINE k == [i \in DOMAIN t |-> IF t[i] \in Unreserved THEN <<t[i]>> ELSE Escaped(t[i])]
  <2>1. \A i \in 1 .. Len(t) : k[i] = IF t[i] \in Unreserved THEN <<t[i]>> ELSE <<"%", Hex[t[i]]>>
    BY <1>1 DEF Escaped
  <2>2. \A i \in 1 .. Len(t) : t[i] \in Unreserved \/ t[i] \in DOMAIN Hex
    BY <1>1, Alphabet
  <2>3. \A i \in 1 .. Len(t) : k[i] \in Str
    BY <1>1, <1>3, <2>1, <2>2
  <2>4. k \in Seq(Str) /\ Len(k) = Len(t)
    BY <1>1, <2>3
  <2>5. PercentEncode(t) = FlattenSeq(k)
    BY <1>1, <1>5 DEF PercentEncode
  <2> HIDE DEF k
  <2> QED
    BY <1>5, <2>1, <2>2, <2>4, <2>5 DEF Codes
<1> QED
  BY <1>4, <1>5

(* What separates the parts of a URL is encoded.                           *)
LEMMA EncodedHas ==
    ASSUME NEW t \in Seq(Character)
    PROVE  /\ PercentEncode(t) \in Str
           /\ \A c \in {"/", "?", "#", "&", "+"} : ~Has(PercentEncode(t), c)
<1>1. PICK k : Codes(t, k)
  BY EncodeIs
<1>2. ASSUME NEW c \in {"/", "?", "#", "&", "+"}, NEW i \in 1 .. Len(k) PROVE ~Has(k[i], c)
  <2>1. c \in DOMAIN Hex /\ c # "%" /\ c # "."
    BY Alphabet
  <2>2. CASE k[i] = <<t[i]>> /\ t[i] \in Unreserved
    <3>1. t[i] # c
      BY <2>1, <2>2, Alphabet
    <3> QED
      BY <2>2, <3>1 DEF Has
  <2>3. CASE k[i] = <<"%", Hex[t[i]]>> /\ t[i] \in DOMAIN Hex
    <3>1. Hex[t[i]] # c
      BY <2>1, <2>3, Alphabet
    <3> QED
      BY <2>1, <2>3, <3>1 DEF Has
  <2> QED
    BY <1>1, <2>2, <2>3 DEF Codes
<1> QED
  BY <1>1, <1>2, HasFlattened, FlattenedIsText DEF Codes

-----------------------------------------------------------------------------
(* Decoding.                                                               *)
Meant(v, i) == CHOOSE c \in DOMAIN Hex : Hex[c] = v[i + 1]

Piece(v, i, plus) ==
    CASE EscapeAt(v, i) -> <<Meant(v, i)>>
      [] i > 1 /\ EscapeAt(v, i - 1) -> << >>
      [] OTHER -> <<IF v[i] = "+" THEN plus ELSE v[i]>>

Decodes(v, plus, f) ==
    /\ f \in [0 .. Len(v) -> Str] /\ f[0] = << >> /\ Decoded(v, plus) = f[Len(v)]
    /\ \A i \in 1 .. Len(v) : f[i] = f[i - 1] \o Piece(v, i, plus)

LEMMA PieceIs ==
    ASSUME NEW v, NEW i \in Nat, NEW plus
    PROVE  /\ EscapeAt(v, i) => Piece(v, i, plus) = <<Meant(v, i)>>
           /\ ~EscapeAt(v, i) /\ i > 1 /\ EscapeAt(v, i - 1) => Piece(v, i, plus) = << >>
           /\ ~EscapeAt(v, i) /\ ~(i > 1 /\ EscapeAt(v, i - 1)) =>
                Piece(v, i, plus) = <<IF v[i] = "+" THEN plus ELSE v[i]>>
<1>1. PICK x, y, z : /\ x = <<Meant(v, i)>>
                     /\ y = (i > 1 /\ EscapeAt(v, i - 1))
                     /\ z = <<IF v[i] = "+" THEN plus ELSE v[i]>>
  OBVIOUS
<1>2. y \in BOOLEAN
  BY <1>1
<1>a. EscapeAt(v, i) => ~EscapeAt(v, i - 1)
  <2>1. (i - 1) + 1 = i
    OBVIOUS
  <2>2. EscapeAt(v, i - 1) => \E c \in DOMAIN Hex : v[i] = Hex[c]
    BY <2>1 DEF EscapeAt
  <2>3. EscapeAt(v, i) => v[i] = "%"
    BY DEF EscapeAt
  <2> QED
    BY <2>2, <2>3, Alphabet
<1>3. Piece(v, i, plus) = CASE EscapeAt(v, i) -> x [] y -> << >> [] OTHER -> z
  BY <1>1, Zenon DEF Piece
<1>4. /\ EscapeAt(v, i) => ~y
      /\ EscapeAt(v, i) => Piece(v, i, plus) = x
      /\ ~EscapeAt(v, i) /\ y => Piece(v, i, plus) = << >>
      /\ ~EscapeAt(v, i) /\ ~y => Piece(v, i, plus) = z
  <2>1. EscapeAt(v, i) => ~y
    BY <1>1, <1>a
  <2> QED
    BY <1>2, <1>3, <2>1
<1> QED
  BY <1>1, <1>4

LEMMA DecodeIs ==
    ASSUME NEW v \in Str, NEW plus \in Char
    PROVE  \E f : Decodes(v, plus, f)
<1> DEFINE p == [i \in DOMAIN v |-> Piece(v, i, plus)]
<1>1. Len(v) \in Nat /\ DOMAIN v = 1 .. Len(v) /\ \A i \in 1 .. Len(v) : v[i] \in Char
  BY DEF Str
<1>2. ASSUME NEW i \in 1 .. Len(v) PROVE Piece(v, i, plus) \in Str
  <2>1. CASE EscapeAt(v, i)
    <3>1. Piece(v, i, plus) = <<Meant(v, i)>>
      BY <2>1, PieceIs
    <3>2. Meant(v, i) \in DOMAIN Hex
      BY <2>1 DEF EscapeAt, Meant
    <3>3. \A c \in DOMAIN Hex : <<c>> \in Str
      BY DEF Char, Character, Str
    <3> QED
      BY <3>1, <3>2, <3>3
  <2>2. CASE ~EscapeAt(v, i)
    <3>1. Piece(v, i, plus) \in {<< >>, <<plus>>, <<v[i]>>}
      <4>1. CASE i > 1 /\ EscapeAt(v, i - 1)
        BY <2>2, <4>1, PieceIs
      <4>2. CASE ~(i > 1 /\ EscapeAt(v, i - 1))
        <5>1. Piece(v, i, plus) = <<IF v[i] = "+" THEN plus ELSE v[i]>>
          BY <2>2, <4>2, PieceIs
        <5>2. v[i] = "+" => (IF v[i] = "+" THEN plus ELSE v[i]) = plus
          OBVIOUS
        <5>3. v[i] # "+" => (IF v[i] = "+" THEN plus ELSE v[i]) = v[i]
          OBVIOUS
        <5> QED
          BY <5>1, <5>2, <5>3, Zenon
      <4> QED
        BY <4>1, <4>2
    <3>2. << >> \in Str /\ <<plus>> \in Str /\ <<v[i]>> \in Str
      BY <1>1 DEF Str
    <3> QED
      BY <3>1, <3>2, Zenon
  <2> QED
    BY <2>1, <2>2
<1>3. p \in Seq(Str) /\ Len(p) = Len(v) /\ \A i \in 1 .. Len(v) : p[i] = Piece(v, i, plus)
  BY <1>1, <1>2
<1>4. Decoded(v, plus) = FlattenSeq(p)
  BY Zenon DEF Decoded, Piece, Meant
<1> HIDE DEF p
<1>5. PICK f : Flattens(p, f) /\ FlattenSeq(p) = f[Len(p)]
  BY <1>3, FlattenIs
<1> QED
  BY <1>3, <1>4, <1>5 DEF Flattens, Decodes

(* Decoding leaves it as it is.                                            *)
Plainly(w, plus) == ~Has(w, "%") /\ (Has(w, "+") => plus = "+")

(* What is in front, and what has been decoded of the encoded text.        *)
Sofar(v, f, w, t, n, i) ==
    /\ n \in Nat /\ n <= Len(v) /\ f[n] = w \o SubSeq(t, 1, i)
    /\ n > 0 => v[n] # "%"

LEMMA DecodePlain ==
    ASSUME NEW v \in Str, NEW plus \in Char, NEW f, Decodes(v, plus, f),
           NEW n \in 1 .. Len(v), v[n] # "%", v[n] = "+" => plus = "+",
           n > 1 => v[n - 1] # "%"
    PROVE  f[n] = f[n - 1] \o <<v[n]>>
<1>1. ~EscapeAt(v, n) /\ ~(n > 1 /\ EscapeAt(v, n - 1)) /\ n \in Nat
  BY DEF EscapeAt, Str
<1>2. Piece(v, n, plus) = <<IF v[n] = "+" THEN plus ELSE v[n]>>
  BY <1>1, PieceIs
<1>3. (IF v[n] = "+" THEN plus ELSE v[n]) = v[n]
  OBVIOUS
<1> QED
  BY <1>2, <1>3 DEF Decodes

LEMMA DecodeEscape ==
    ASSUME NEW v \in Str, NEW plus \in Char, NEW f, Decodes(v, plus, f),
           NEW n \in 1 .. Len(v), n + 1 <= Len(v), NEW c \in DOMAIN Hex,
           v[n] = "%", v[n + 1] = Hex[c]
    PROVE  f[n + 1] = f[n - 1] \o <<c>>
<1>1. Len(v) \in Nat /\ n \in Nat /\ n + 1 \in 1 .. Len(v) /\ n + 1 > 1 /\ (n + 1) - 1 = n /\ n < Len(v)
      /\ n \in 0 .. Len(v) /\ n - 1 \in 0 .. Len(v)
  BY DEF Str
<1>2. EscapeAt(v, n)
  BY <1>1, Zenon DEF EscapeAt
<1>3. v[n + 1] # "%"
  BY Alphabet
<1>4. ~EscapeAt(v, n + 1)
  BY <1>3, Zenon DEF EscapeAt
<1>5. Meant(v, n) = c
  BY HexAssumption DEF Meant
<1>6. Piece(v, n, plus) = <<c>>
  BY <1>1, <1>2, <1>5, PieceIs
<1>7. Piece(v, n + 1, plus) = << >>
  BY <1>1, <1>2, <1>4, PieceIs
<1>8. f[n] = f[n - 1] \o <<c>> /\ f[n + 1] = f[n] \o << >> /\ f[n] \in Str
  BY <1>1, <1>6, <1>7 DEF Decodes
<1>9. f[n] \o << >> = f[n]
  BY <1>8 DEF Str
<1> QED
  BY <1>8, <1>9

(* One more character.                                                     *)
LEMMA DecodeMore ==
    ASSUME NEW v \in Str, NEW plus \in Char, NEW f, Decodes(v, plus, f),
           NEW w \in Str, NEW t \in Seq(Character), NEW i \in 1 .. Len(t),
           NEW n, Sofar(v, f, w, t, n, i - 1),
           \/ /\ t[i] \in Unreserved /\ n + 1 <= Len(v) /\ v[n + 1] = t[i]
           \/ /\ t[i] \in DOMAIN Hex /\ n + 2 <= Len(v) /\ v[n + 1] = "%" /\ v[n + 2] = Hex[t[i]]
    PROVE  \/ t[i] \in Unreserved /\ v[n + 1] = t[i] /\ Sofar(v, f, w, t, n + 1, i)
           \/ t[i] \in DOMAIN Hex /\ v[n + 1] = "%" /\ Sofar(v, f, w, t, n + 2, i)
<1>1. /\ Len(v) \in Nat /\ n \in Nat /\ n <= Len(v) /\ f[n] = w \o SubSeq(t, 1, i - 1)
      /\ n > 0 => v[n] # "%"
  BY DEF Sofar, Str
<1>2. (w \o SubSeq(t, 1, i - 1)) \o <<t[i]>> = w \o SubSeq(t, 1, i)
  <2>1. PICK x, y, s : x = SubSeq(t, 1, i - 1) /\ y = SubSeq(t, 1, i) /\ s = <<t[i]>>
    OBVIOUS
  <2>2. y = x \o s /\ x \in Seq(Character) /\ s \in Seq(Character)
    BY <2>1
  <2>3. x \in Str /\ s \in Str
    <3>1. Character \subseteq Char
      BY Alphabet
    <3> QED
      BY <2>2, <3>1 DEF Str
  <2>4. (w \o x) \o s = w \o (x \o s)
    <3>1. w \in Seq(Char) /\ x \in Seq(Char) /\ s \in Seq(Char)
      BY <2>3 DEF Str
    <3> QED
      BY ONLY <3>1
  <2> QED
    BY <2>1, <2>2, <2>4
<1>3. CASE /\ t[i] \in Unreserved /\ n + 1 <= Len(v) /\ v[n + 1] = t[i]
  <2>1. t[i] # "%" /\ t[i] # "+"
    BY <1>3, Alphabet
  <2>2. n + 1 \in 1 .. Len(v) /\ (n + 1) - 1 = n /\ (n + 1 > 1 => n > 0)
    BY <1>1, <1>3
  <2>3. f[n + 1] = f[n] \o <<t[i]>>
    <3>1. PICK q : q = n + 1
      OBVIOUS
    <3>2. /\ q \in 1 .. Len(v) /\ v[q] = t[i] /\ v[q] # "%" /\ (v[q] = "+" => plus = "+")
          /\ q - 1 = n /\ (q > 1 => v[q - 1] # "%")
      BY <1>1, <1>3, <2>1, <2>2, <3>1
    <3>3. f[q] = f[q - 1] \o <<v[q]>>
      BY <3>2, DecodePlain
    <3> QED
      BY <3>1, <3>2, <3>3
  <2>4. f[n + 1] = w \o SubSeq(t, 1, i)
    BY <1>1, <1>2, <2>3
  <2>5. n + 1 \in Nat /\ n + 1 <= Len(v) /\ v[n + 1] # "%"
    BY <1>1, <1>3, <2>1
  <2>6. Sofar(v, f, w, t, n + 1, i)
    BY <2>4, <2>5, Zenon DEF Sofar
  <2> QED
    BY <1>3, <2>6, Zenon
<1>4. CASE /\ t[i] \in DOMAIN Hex /\ n + 2 <= Len(v) /\ v[n + 1] = "%" /\ v[n + 2] = Hex[t[i]]
  <2>1. n + 1 \in 1 .. Len(v) /\ (n + 1) - 1 = n /\ (n + 1) + 1 = n + 2 /\ (n + 1) + 1 <= Len(v) /\ n + 2 \in Nat
    BY <1>1, <1>4
  <2>2. f[n + 2] = f[n] \o <<t[i]>>
    <3>1. PICK q, c : q = n + 1 /\ c = t[i]
      OBVIOUS
    <3>2. /\ q \in 1 .. Len(v) /\ q + 1 <= Len(v) /\ c \in DOMAIN Hex /\ v[q] = "%" /\ v[q + 1] = Hex[c]
          /\ q - 1 = n /\ q + 1 = n + 2
      BY <1>4, <2>1, <3>1
    <3>3. f[q + 1] = f[q - 1] \o <<c>>
      BY <3>2, DecodeEscape
    <3> QED
      BY <3>1, <3>2, <3>3
  <2>3. v[n + 2] # "%"
    BY <1>4, Alphabet
  <2>4. f[n + 2] = w \o SubSeq(t, 1, i)
    BY <1>1, <1>2, <2>2
  <2>5. n + 2 \in Nat /\ n + 2 <= Len(v)
    BY <1>1, <1>4
  <2>6. Sofar(v, f, w, t, n + 2, i)
    BY <2>3, <2>4, <2>5, Zenon DEF Sofar
  <2> QED
    BY <1>4, <2>6, Zenon
<1> QED
  BY <1>3, <1>4

(* Encoded and decoded again, behind what is not encoded.                  *)
LEMMA DecodedJoin ==
    ASSUME NEW w \in Str, NEW t \in Seq(Character), NEW plus \in Char, Plainly(w, plus)
    PROVE  Decoded(w \o PercentEncode(t), plus) = w \o t
<1>1. PICK k : Codes(t, k)
  BY EncodeIs
<1>2. PICK e : Flattens(k, e) /\ FlattenSeq(k) = e[Len(k)]
  BY <1>1, FlattenIs DEF Codes
<1>3. PICK u, v : u = PercentEncode(t) /\ v = w \o u
  OBVIOUS
<1>4. /\ u \in Str /\ v \in Str /\ Len(v) = Len(w) + Len(u) /\ Len(w) \in Nat /\ Len(u) \in Nat
      /\ \A i \in 1 .. Len(w) : v[i] = w[i]
      /\ \A i \in 1 .. Len(u) : v[Len(w) + i] = u[i]
  <2>1. u \in Str
    BY <1>3, EncodedHas
  <2> QED
    BY <1>3, <2>1, JoinedIs DEF Str
<1>5. PICK f : Decodes(v, plus, f)
  BY <1>4, DecodeIs
<1>6. Len(k) = Len(t) /\ Len(t) \in Nat /\ u = e[Len(t)] /\ k \in Seq(Str)
  BY <1>1, <1>2, <1>3 DEF Codes
<1>7. Sofar(v, f, w, t, Len(w), 0)
  <2> DEFINE Holds(i) == f[i] = SubSeq(w, 1, i)
             Bad == {i \in 0 .. Len(w) : ~Holds(i)}
  <2>0. \A i \in 1 .. Len(w) : w[i] # "%" /\ (w[i] = "+" => plus = "+")
    BY DEF Plainly, Has, Str
  <2>1. Bad = {}
    <3> SUFFICES ASSUME Bad # {} PROVE FALSE
      OBVIOUS
    <3>1. PICK m \in Bad : \A j \in Bad : m <= j
      <4>1. Bad \in SUBSET Nat
        BY <1>4
      <4> HIDE DEF Bad
      <4> QED
        BY <4>1, LeastNatural
    <3>2. m # 0
      <4>1. f[0] = << >> /\ SubSeq(w, 1, 0) = << >>
        BY <1>5 DEF Decodes, Str
      <4> QED
        BY <3>1, <4>1
    <3>3. m \in 1 .. Len(w) /\ m - 1 \in 0 .. Len(w) /\ ~(m <= m - 1) /\ m \in 1 .. Len(v) /\ (m > 1 => m - 1 \in 1 .. Len(w))
      BY <1>4, <3>1, <3>2
    <3>4. Holds(m - 1)
      BY <3>1, <3>3
    <3>5. v[m] = w[m] /\ (m > 1 => v[m - 1] # "%")
      BY <1>4, <2>0, <3>3
    <3>6. f[m] = f[m - 1] \o <<w[m]>>
      <4>1. m \in 1 .. Len(v) /\ v[m] # "%" /\ (v[m] = "+" => plus = "+") /\ (m > 1 => v[m - 1] # "%")
        BY <2>0, <3>3, <3>5
      <4>2. f[m] = f[m - 1] \o <<v[m]>>
        BY <1>4, <1>5, <4>1, DecodePlain
      <4> QED
        BY <3>5, <4>2
    <3>7. SubSeq(w, 1, m) = SubSeq(w, 1, m - 1) \o <<w[m]>>
      BY <3>3 DEF Str
    <3> QED
      BY <3>1, <3>4, <3>6, <3>7
  <2>2. Holds(Len(w))
    BY <1>4, <2>1
  <2>3. SubSeq(w, 1, Len(w)) = w /\ SubSeq(t, 1, 0) = << >> /\ w \o << >> = w
    BY DEF Str
  <2>4. Len(w) > 0 => v[Len(w)] # "%"
    BY <1>4, <2>0
  <2> QED
    BY <1>4, <2>2, <2>3, <2>4 DEF Sofar
<1> DEFINE Holds(i) == Sofar(v, f, w, t, Len(w) + Len(e[i]), i)
           Bad == {i \in 0 .. Len(t) : ~Holds(i)}
<1>8. Bad = {}
  <2> SUFFICES ASSUME Bad # {} PROVE FALSE
    OBVIOUS
  <2>1. PICK m \in Bad : \A j \in Bad : m <= j
    <3>1. Bad \in SUBSET Nat
      BY <1>6
    <3> HIDE DEF Bad
    <3> QED
      BY <3>1, LeastNatural
  <2>2. m # 0
    <3>1. e[0] = << >> /\ Len(w) + Len(<< >>) = Len(w)
      BY <1>2, <1>4 DEF Flattens
    <3>2. Holds(0)
      BY <1>7, <3>1
    <3> HIDE DEF Holds
    <3> QED
      BY <2>1, <3>2
  <2>3. m \in 1 .. Len(t) /\ m - 1 \in 0 .. Len(t) /\ ~(m <= m - 1) /\ m \in 0 .. Len(t)
    BY <1>6, <2>1, <2>2
  <2>4. Holds(m - 1)
    <3> HIDE DEF Holds
    <3> QED
      BY <2>1, <2>3
  <2>5. PICK a, b, n : a = e[m - 1] /\ b = e[m] /\ n = Len(w) + Len(a)
    OBVIOUS
  <2>6. /\ a \in Str /\ b \in Str /\ b = a \o k[m] /\ Len(a) \in Nat /\ Len(b) \in Nat
        /\ Len(b) <= Len(u) /\ \A j \in 1 .. Len(b) : u[j] = b[j]
    <3>1. m \in 0 .. Len(k) /\ m - 1 \in 0 .. Len(k) /\ Len(k) \in m .. Len(k) /\ m \in 1 .. Len(k)
      BY <1>6, <2>3
    <3>2. /\ b \in Str /\ Len(b) \in Nat /\ Len(b) <= Len(u) /\ \A j \in 1 .. Len(b) : u[j] = b[j]
      <4>1. PICK l : l = Len(k)
        OBVIOUS
      <4>2. k \in Seq(Str) /\ Flattens(k, e) /\ m \in 0 .. Len(k) /\ l \in m .. Len(k) /\ u = e[l] /\ b = e[m]
        BY <1>2, <1>6, <2>5, <3>1, <4>1
      <4>3. /\ e[m] \in Str /\ Len(e[m]) \in Nat /\ Len(e[m]) <= Len(e[l])
            /\ \A j \in 1 .. Len(e[m]) : e[l][j] = e[m][j]
        BY ONLY <4>2, FlattenGrows
      <4> QED
        BY <4>2, <4>3
    <3>3. a \in Str /\ b = a \o k[m]
      BY <1>2, <2>5, <3>1 DEF Flattens
    <3>4. Len(a) \in Nat
      BY <3>3 DEF Str
    <3> QED
      BY <3>2, <3>3, <3>4
  <2>7. Sofar(v, f, w, t, n, m - 1) /\ n \in Nat
    BY <1>4, <2>4, <2>5, <2>6
  <2>8. \/ k[m] = <<t[m]>> /\ t[m] \in Unreserved
        \/ k[m] = <<"%", Hex[t[m]]>> /\ t[m] \in DOMAIN Hex
    BY <1>1, <2>3 DEF Codes
  <2>9. CASE k[m] = <<t[m]>> /\ t[m] \in Unreserved
    <3>1. Len(b) = Len(a) + 1 /\ b[Len(a) + 1] = t[m]
      BY <2>6, <2>9 DEF Str
    <3>2. /\ Len(a) + 1 \in 1 .. Len(b) /\ Len(a) + 1 \in 1 .. Len(u)
          /\ Len(w) + (Len(a) + 1) = n + 1 /\ n + 1 <= Len(v)
      <4>1. PICK la, lb, lu, lv, lw :
                la = Len(a) /\ lb = Len(b) /\ lu = Len(u) /\ lv = Len(v) /\ lw = Len(w)
        OBVIOUS
      <4>2. /\ la \in Nat /\ lb = la + 1 /\ lb <= lu /\ lu \in Nat /\ lw \in Nat
            /\ lv = lw + lu /\ n = lw + la
        BY <1>4, <2>5, <2>6, <3>1, <4>1
      <4>3. /\ la + 1 \in 1 .. lb /\ la + 1 \in 1 .. lu
            /\ lw + (la + 1) = n + 1 /\ n + 1 <= lv
        BY ONLY <4>2
      <4> QED
        BY <4>1, <4>3
    <3>3. v[n + 1] = t[m]
      BY <1>4, <2>6, <3>1, <3>2
    <3>4. t[m] # "%"
      BY <2>9, Alphabet
    <3>5. Sofar(v, f, w, t, n + 1, m)
      <4>1. /\ v \in Str /\ Decodes(v, plus, f) /\ m \in 1 .. Len(t) /\ Sofar(v, f, w, t, n, m - 1)
            /\ \/ /\ t[m] \in Unreserved /\ n + 1 <= Len(v) /\ v[n + 1] = t[m]
               \/ /\ t[m] \in DOMAIN Hex /\ n + 2 <= Len(v) /\ v[n + 1] = "%" /\ v[n + 2] = Hex[t[m]]
        BY <1>4, <1>5, <2>3, <2>7, <2>9, <3>2, <3>3, Zenon
      <4>2. \/ t[m] \in Unreserved /\ v[n + 1] = t[m] /\ Sofar(v, f, w, t, n + 1, m)
            \/ t[m] \in DOMAIN Hex /\ v[n + 1] = "%" /\ Sofar(v, f, w, t, n + 2, m)
        BY <4>1, DecodeMore
      <4> QED
        BY <4>2, <3>3, <3>4, Zenon
    <3> QED
      BY <2>1, <2>5, <3>1, <3>2, <3>5
  <2>10. CASE k[m] = <<"%", Hex[t[m]]>> /\ t[m] \in DOMAIN Hex
    <3>1. Len(b) = Len(a) + 2 /\ b[Len(a) + 1] = "%" /\ b[Len(a) + 2] = Hex[t[m]]
      BY <2>6, <2>10 DEF Str
    <3>2. /\ Len(a) + 1 \in 1 .. Len(b) /\ Len(a) + 1 \in 1 .. Len(u) /\ Len(w) + (Len(a) + 1) = n + 1
          /\ Len(a) + 2 \in 1 .. Len(b) /\ Len(a) + 2 \in 1 .. Len(u) /\ Len(w) + (Len(a) + 2) = n + 2
          /\ n + 2 <= Len(v)
      <4>1. PICK la, lb, lu, lv, lw :
                la = Len(a) /\ lb = Len(b) /\ lu = Len(u) /\ lv = Len(v) /\ lw = Len(w)
        OBVIOUS
      <4>2. /\ la \in Nat /\ lb = la + 2 /\ lb <= lu /\ lu \in Nat /\ lw \in Nat
            /\ lv = lw + lu /\ n = lw + la
        BY <1>4, <2>5, <2>6, <3>1, <4>1
      <4>3. /\ la + 1 \in 1 .. lb /\ la + 1 \in 1 .. lu /\ lw + (la + 1) = n + 1
            /\ la + 2 \in 1 .. lb /\ la + 2 \in 1 .. lu /\ lw + (la + 2) = n + 2
            /\ n + 2 <= lv
        BY ONLY <4>2
      <4> QED
        BY <4>1, <4>3
    <3>3. v[n + 1] = "%" /\ v[n + 2] = Hex[t[m]]
      BY <1>4, <2>6, <3>1, <3>2
    <3>4. ~(t[m] \in Unreserved /\ v[n + 1] = t[m])
      BY <3>3, Alphabet
    <3>5. Sofar(v, f, w, t, n + 2, m)
      <4>1. /\ v \in Str /\ Decodes(v, plus, f) /\ m \in 1 .. Len(t) /\ Sofar(v, f, w, t, n, m - 1)
            /\ \/ /\ t[m] \in Unreserved /\ n + 1 <= Len(v) /\ v[n + 1] = t[m]
               \/ /\ t[m] \in DOMAIN Hex /\ n + 2 <= Len(v) /\ v[n + 1] = "%" /\ v[n + 2] = Hex[t[m]]
        BY <1>4, <1>5, <2>3, <2>7, <2>10, <3>2, <3>3, Zenon
      <4>2. \/ t[m] \in Unreserved /\ v[n + 1] = t[m] /\ Sofar(v, f, w, t, n + 1, m)
            \/ t[m] \in DOMAIN Hex /\ v[n + 1] = "%" /\ Sofar(v, f, w, t, n + 2, m)
        BY <4>1, DecodeMore
      <4> QED
        BY <4>2, <3>3, <3>4, Zenon
    <3> QED
      BY <2>1, <2>5, <3>1, <3>2, <3>5
  <2> QED
    BY <2>8, <2>9, <2>10
<1>9. Holds(Len(t))
  <2>1. Len(t) \in 0 .. Len(t)
    BY <1>6
  <2> HIDE DEF Holds
  <2> QED
    BY <1>8, <2>1
<1>10. SubSeq(t, 1, Len(t)) = t
  BY <1>6
<1>11. f[Len(v)] = w \o t
  BY <1>4, <1>6, <1>9, <1>10 DEF Sofar
<1> QED
  BY <1>3, <1>5, <1>11 DEF Decodes

LEMMA CharacterIsChar ==
    /\ \A t \in Seq(Character) : t \in Str
    /\ " " \in Char /\ "+" \in Char /\ "/" \in Char /\ "?" \in Char /\ "&" \in Char
<1>1. Character \subseteq Char
  BY Alphabet
<1>2. \A t \in Seq(Character) : t \in Str
  BY <1>1 DEF Str
<1>3. " " \in Literal /\ "+" \in Literal /\ "/" \in Literal /\ "?" \in Literal /\ "&" \in Literal
  BY DEF Literal
<1> QED
  BY <1>2, <1>3, Alphabet

LEMMA EncodedNothing == PercentEncode(<< >>) = << >>
<1>1. << >> \in Seq(Character) /\ Len(<< >>) = 0
  OBVIOUS
<1>2. PICK k : Codes(<< >>, k)
  BY <1>1, EncodeIs
<1>3. k \in Seq(Str) /\ Len(k) = 0 /\ PercentEncode(<< >>) = FlattenSeq(k)
  BY <1>1, <1>2 DEF Codes
<1>4. PICK e : Flattens(k, e) /\ FlattenSeq(k) = e[Len(k)]
  BY <1>3, FlattenIs
<1> QED
  BY <1>3, <1>4 DEF Flattens

LEMMA DecodedPlain ==
    ASSUME NEW w \in Str, NEW plus \in Char, Plainly(w, plus)
    PROVE  Decoded(w, plus) = w
<1>1. << >> \in Seq(Character)
  OBVIOUS
<1>2. w \o << >> = w
  BY DEF Str
<1>3. Decoded(w \o PercentEncode(<< >>), plus) = w \o << >>
  BY <1>1, DecodedJoin
<1> QED
  BY <1>2, <1>3, EncodedNothing

LEMMA DecodedEncoded ==
    ASSUME NEW t \in Seq(Character), NEW plus \in Char
    PROVE  Decoded(PercentEncode(t), plus) = t
<1>1. << >> \in Str /\ Plainly(<< >>, plus)
  BY DEF Str, Plainly, Has
<1>2. PercentEncode(t) \in Str /\ t \in Str
  BY EncodedHas, CharacterIsChar
<1>3. << >> \o PercentEncode(t) = PercentEncode(t) /\ << >> \o t = t
  <2>1. PICK x : x = PercentEncode(t)
    OBVIOUS
  <2>2. << >> \o x = x
    BY <1>2, <2>1 DEF Str
  <2> QED
    BY <2>1, <2>2
<1>4. Decoded(<< >> \o PercentEncode(t), plus) = << >> \o t
  BY <1>1, DecodedJoin
<1> QED
  BY <1>3, <1>4

(* What is encoded is not taken for a segment of dots.                     *)
LEMMA EncodedIsNoDots ==
    ASSUME NEW t \in Seq(Character)
    PROVE  PercentEncode(t) \notin DotSegments
<1> SUFFICES ASSUME PercentEncode(t) \in DotSegments PROVE FALSE
  OBVIOUS
<1>1. PICK u : u = PercentEncode(t)
  OBVIOUS
<1>2. u = <<".">> \/ u = <<".", ".">>
  BY <1>1 DEF DotSegments
<1>3. u[1] = "." /\ Len(u) \in 1 .. 2 /\ DOMAIN u = 1 .. Len(u) /\ \A i \in 1 .. Len(u) : u[i] = "."
  BY <1>2
<1>4. Plainly(u, " ")
  BY <1>3 DEF Plainly, Has
<1>5. u \in Str
  BY <1>1, EncodedHas
<1>6. Decoded(u, " ") = u
  BY <1>4, <1>5, DecodedPlain, CharacterIsChar
<1>7. t = u
  BY <1>1, <1>6, DecodedEncoded, CharacterIsChar
<1>8. PICK k : Codes(t, k)
  BY EncodeIs
<1>9. /\ k \in Seq(Str) /\ Len(k) = Len(t) /\ PercentEncode(t) = FlattenSeq(k) /\ Len(t) \in Nat
      /\ k[1] = <<"%", Hex["."]>>
  BY <1>3, <1>7, <1>8 DEF Codes
<1>10. PICK e : Flattens(k, e) /\ FlattenSeq(k) = e[Len(k)]
  BY <1>9, FlattenIs
<1>11. PICK a, z, l : a = e[1] /\ z = e[l] /\ l = Len(k)
  OBVIOUS
<1>12. /\ 1 \in 0 .. Len(k) /\ l \in 1 .. Len(k) /\ l \in Nat
  BY <1>3, <1>7, <1>9, <1>11
<1>13. a = << >> \o <<"%", Hex["."]>>
  BY <1>9, <1>10, <1>11, <1>12 DEF Flattens
<1>14. a[1] = "%" /\ Len(a) = 2
  BY <1>13
<1>15. \A j \in 1 .. Len(a) : z[j] = a[j]
  BY <1>9, <1>10, <1>11, <1>12, FlattenGrows
<1>16. z[1] = "%"
  BY <1>14, <1>15
<1> QED
  <2>1. u = z
    BY <1>1, <1>9, <1>10, <1>11
  <2>2. u[1] = "."
    BY <1>3
  <2> QED
    BY ONLY <1>16, <2>1, <2>2

(* The parts of a text are made of its characters.                         *)
LEMMA PartIsText ==
    ASSUME NEW t \in Seq(Character), NEW c, NEW n \in DOMAIN Split(t, c)
    PROVE  Split(t, c)[n] \in Seq(Character)
<1>1. PICK x : x = Split(t, c)[n]
  OBVIOUS
<1>2. x \in Str /\ \A d : Has(x, d) => Has(t, d)
  BY <1>1, HasPart, CharacterIsChar
<1>3. \A d : Has(t, d) => d \in Character
  BY DEF Has
<1>4. ASSUME NEW i \in 1 .. Len(x) PROVE x[i] \in Character
  <2>1. i \in DOMAIN x
    BY <1>2 DEF Str
  <2>2. Has(x, x[i])
    BY <2>1, Zenon DEF Has
  <2> QED
    BY <1>2, <1>3, <2>2
<1>5. x \in Seq(Character)
  BY <1>2, <1>4 DEF Str
<1> QED
  BY <1>1, <1>5

PathParts(t) == [n \in DOMAIN Split(t, "/") |-> PercentEncode(Split(t, "/")[n])]

LEMMA EncodedPath ==
    ASSUME NEW t \in Seq(Character)
    PROVE  /\ PathParts(t) \in Parts
           /\ PercentEncodePath(t) \in Str
           /\ Split(PercentEncodePath(t), "/") = PathParts(t)
           /\ \A c \in {"?", "#"} : ~Has(PercentEncodePath(t), c)
<1>1. PICK p, q : p = Split(t, "/") /\ q = PathParts(t)
  OBVIOUS
<1>2. p \in Parts /\ \A n \in DOMAIN p : p[n] \in Seq(Character)
  BY <1>1, PartIsText, SplitIsParts, CharacterIsChar
<1>3. Len(p) \in Nat /\ DOMAIN p = 1 .. Len(p) /\ p # << >> /\ Len(p) # 0
  BY <1>2 DEF Parts
<1>4. q = [n \in 1 .. Len(p) |-> PercentEncode(p[n])]
  BY <1>1, <1>3 DEF PathParts
<1>5. \A n \in 1 .. Len(p) : /\ PercentEncode(p[n]) \in Str
                             /\ \A c \in {"/", "?", "#"} : ~Has(PercentEncode(p[n]), c)
  BY <1>2, <1>3, EncodedHas
<1>6. q \in Seq(Str) /\ Len(q) = Len(p) /\ q # << >>
  BY <1>3, <1>4, <1>5
<1>7. q \in Parts
  BY <1>6 DEF Parts
<1>8. \A n \in 1 .. Len(q) : \A c \in {"/", "?", "#"} : ~Has(q[n], c)
  BY <1>4, <1>5, <1>6
<1>9. PercentEncodePath(t) = Joined(q)
  BY <1>1 DEF PercentEncodePath, PathParts
<1>10. Split(Joined(q), "/") = q
  BY <1>7, <1>8, JoinedParts
<1>11. Joined(q) \in Str /\ \A c : c # "/" /\ (\A n \in 1 .. Len(q) : ~Has(q[n], c)) => ~Has(Joined(q), c)
  BY <1>7, JoinedSplit
<1>12. \A c \in {"?", "#"} : ~Has(Joined(q), c)
  BY <1>8, <1>11
<1> QED
  BY <1>1, <1>7, <1>9, <1>10, <1>11, <1>12

-----------------------------------------------------------------------------
(* What is configured ends in slashes and blanks; what is left of it does  *)
(* not, and is the address.                                                *)
LEMMA NormalisedIsAddress ==
    ASSUME NEW b \in Base
    PROVE  NormaliseBaseUrl(b) \in Str /\ IsAddress(NormaliseBaseUrl(b))
<1>1. PICK t : t = Trim(b)
  OBVIOUS
<1>2. t \in Seq(Character \cup Blank) /\ Len(t) \in Nat
  <2>1. b \in Seq(Character \cup Blank)
    BY TextAssumption
  <2> QED
    BY <1>1, <2>1, TrimIsText
<1>3. t \in Str
  <2>1. Character \cup Blank \subseteq Char
    BY DEF Char
  <2> QED
    BY <1>2, <2>1 DEF Str
<1>4. PICK n \in 0 .. Len(t) :
          /\ IsAddress(SubSeq(t, 1, n))
          /\ \A j \in (n + 1) .. Len(t) : t[j] = "/"
  BY <1>1, TextAssumption
<1>5. PICK h : h = SubSeq(t, 1, n)
  OBVIOUS
<1>6. h \in Str /\ Len(h) = n /\ \A j \in 1 .. n : h[j] = t[j]
  BY <1>2, <1>3, <1>4, <1>5 DEF Str
<1>7. n > 0 => t[n] # "/"
  <2> SUFFICES ASSUME n > 0, t[n] = "/" PROVE FALSE
    OBVIOUS
  <2>1. Len(h) > 0 /\ h[Len(h)] = "/"
    BY <1>2, <1>6
  <2>2. \E k \in DOMAIN Split(h, "/") : Split(h, "/")[k] = << >>
    BY <1>6, <2>1, SplitEnd
  <2> QED
    BY <1>4, <1>5, <2>2 DEF IsAddress
<1> DEFINE Ends(m) == (m > 0 => t[m] # "/") /\ \A j \in (m + 1) .. Len(t) : t[j] = "/"
<1>8. n \in 0 .. Len(t) /\ Ends(n)
  BY <1>4, <1>7
<1>9. ASSUME NEW m \in 0 .. Len(t), Ends(m) PROVE m = n
  <2>1. m < n => n \in (m + 1) .. Len(t) /\ n > 0
    BY <1>2
  <2>2. n < m => m \in (n + 1) .. Len(t) /\ m > 0
    BY <1>2
  <2> QED
    BY <1>2, <1>8, <1>9, <2>1, <2>2
<1>10. (CHOOSE m \in 0 .. Len(t) : Ends(m)) = n
  <2> HIDE DEF Ends
  <2> QED
    BY <1>8, <1>9
<1>11. NormaliseBaseUrl(b) = h
  BY <1>1, <1>5, <1>10, Zenon DEF NormaliseBaseUrl
<1> QED
  BY <1>4, <1>5, <1>6, <1>11

-----------------------------------------------------------------------------
(* What a text that is cut at its first "#" and the first "/" before it    *)
(* says: there is one way to cut it, and nothing is lost.                  *)
LEMMA LocatedIs ==
    ASSUME NEW t \in Seq(Character), NEW l \in Located(t)
    PROVE  /\ Located(t) = {l}
           /\ l.first \in Seq(Character) /\ l.second \in Seq(Character) /\ l.field \in Seq(Character)
           /\ ~Has(l.first, "/")
           /\ l.first \o <<"/">> \o l.second \o <<"#">> \o l.field = t
<1> DEFINE Cuts(i, j) == /\ i \in DOMAIN t /\ j \in DOMAIN t /\ First(<<"#">>, t, 1, j)
                         /\ i < j /\ First(<<"/">>, t, 1, i)
           Cut(i, j) == [first |-> Slice(t, 1, i), second |-> Slice(t, i + 1, j),
                         field |-> SubSeq(t, j + 1, Len(t))]
<1>1. \A m : m \in Located(t) <=> \E i, j : Cuts(i, j) /\ m = Cut(i, j)
  <2>1. \A m : m \in Located(t) <=>
           \E q \in (DOMAIN t) \X (DOMAIN t) : Cuts(q[1], q[2]) /\ m = Cut(q[1], q[2])
    BY DEF Located
  <2>2. \A q \in (DOMAIN t) \X (DOMAIN t) : q = <<q[1], q[2]>>
    OBVIOUS
  <2>3. \A i, j : Cuts(i, j) =>
           <<i, j>> \in (DOMAIN t) \X (DOMAIN t) /\ <<i, j>>[1] = i /\ <<i, j>>[2] = j
    OBVIOUS
  <2> HIDE DEF Cuts, Cut
  <2>4. ASSUME NEW m, NEW i, NEW j, Cuts(i, j), m = Cut(i, j) PROVE m \in Located(t)
    <3>1. PICK q : q = <<i, j>>
      OBVIOUS
    <3>2. q \in (DOMAIN t) \X (DOMAIN t) /\ q[1] = i /\ q[2] = j
      BY <2>3, <2>4, <3>1
    <3> QED
      BY <2>1, <2>4, <3>2
  <2> QED
    BY <2>1, <2>4
<1>2. PICK i, j : Cuts(i, j) /\ l = Cut(i, j)
  BY <1>1
<1>3. Len(t) \in Nat /\ DOMAIN t = 1 .. Len(t)
  OBVIOUS
<1>4. i \in 1 .. Len(t) /\ j \in 1 .. Len(t) /\ i < j /\ i \in Nat \ {0} /\ j \in Nat \ {0}
  BY <1>2, <1>3
<1>5. ASSUME NEW x, NEW y, Cuts(x, y) PROVE x = i /\ y = j
  <2>1. x \in Nat /\ y \in Nat
    BY <1>3, <1>5
  <2>2. First(<<"#">>, t, 1, y) /\ First(<<"#">>, t, 1, j) /\ First(<<"/">>, t, 1, x) /\ First(<<"/">>, t, 1, i)
    BY <1>2, <1>5
  <2>3. y = j
    BY <1>3, <1>4, <2>1, <2>2, FirstIsOne
  <2>4. x = i
    BY <1>3, <1>4, <2>1, <2>2, FirstIsOne
  <2> QED
    BY <2>3, <2>4
<1>6. Located(t) = {l}
  <2> HIDE DEF Cuts, Cut
  <2> QED
    BY <1>1, <1>2, <1>5, Zenon
<1>7. \A c \in {"/", "#"} : \A k \in Nat \ {0} : At(<<c>>, t, k) <=> k <= Len(t) /\ t[k] = c
  <2> TAKE c \in {"/", "#"}
  <2> TAKE k \in Nat \ {0}
  <2>1. <<c>> \in Seq(Character) /\ Len(<<c>>) = 1 /\ <<c>>[1] = c
    BY Alphabet DEF Character
  <2>2. PICK w : w = <<c>>
    OBVIOUS
  <2>3. At(w, t, k) <=> k <= Len(t) /\ t[k] = w[1]
    <3>1. t \in Seq(Character) /\ w \in Seq(Character) /\ k \in Nat \ {0} /\ Len(w) = 1
      BY <2>1, <2>2
    <3> QED
      BY ONLY <3>1, SymbolAt
  <2> QED
    BY <2>1, <2>2, <2>3
<1>8. At(<<"/">>, t, i) /\ At(<<"#">>, t, j) /\ \A k \in 1 .. (i - 1) : ~At(<<"/">>, t, k)
  BY <1>2 DEF First
<1>9. t[i] = "/" /\ t[j] = "#" /\ \A k \in 1 .. (i - 1) : t[k] # "/"
  BY <1>3, <1>4, <1>7, <1>8
<1>10. PICK a, b, e : a = Slice(t, 1, i) /\ b = Slice(t, i + 1, j) /\ e = SubSeq(t, j + 1, Len(t))
  OBVIOUS
<1>11. l.first = a /\ l.second = b /\ l.field = e
  BY <1>2, <1>10
<1>12. a \in Seq(Character) /\ Len(a) = i - 1 /\ \A k \in 1 .. (i - 1) : a[k] = t[k]
  BY <1>3, <1>4, <1>10 DEF Slice
<1>13. b \in Seq(Character) /\ e \in Seq(Character)
  BY <1>3, <1>4, <1>10 DEF Slice
<1>14. ~Has(a, "/")
  BY <1>9, <1>12 DEF Has
<1>15. ((((a \o <<"/">>) \o b) \o <<"#">>) \o e) = t
  <2>1. Slice(t, i, i + 1) = <<"/">> /\ Slice(t, j, j + 1) = <<"#">>
    <3>1. ASSUME NEW k \in 1 .. Len(t) PROVE Slice(t, k, k + 1) = <<t[k]>>
      <4>1. PICK z, m : z = Slice(t, k, k + 1) /\ m = k + 1
        OBVIOUS
      <4>2. /\ k \in 1 .. (Len(t) + 1) /\ m \in k .. (Len(t) + 1) /\ m - k = 1
            /\ 1 \in 1 .. 1 /\ k + 1 - 1 = k
        BY <1>3, <4>1
      <4>3. /\ Slice(t, k, m) \in Seq(Character) /\ Len(Slice(t, k, m)) = m - k
            /\ \A n \in 1 .. (m - k) : Slice(t, k, m)[n] = t[k + n - 1]
        <5>1. t \in Seq(Character) /\ k \in 1 .. (Len(t) + 1) /\ m \in k .. (Len(t) + 1)
          BY <4>2
        <5> QED
          BY ONLY <5>1, SliceIs
      <4>4. z \in Seq(Character) /\ Len(z) = 1 /\ z[1] = t[k]
        BY <4>1, <4>2, <4>3
      <4>5. z = <<z[1]>>
        BY ONLY <4>4
      <4> QED
        BY <4>1, <4>4, <4>5
    <3> QED
      BY <1>4, <1>9, <3>1
  <2>2. Slice(t, j + 1, Len(t) + 1) = e /\ Slice(t, 1, Len(t) + 1) = t
    <3>1. (Len(t) + 1) - 1 = Len(t)
      BY <1>3
    <3>2. SubSeq(t, 1, Len(t)) = t
      OBVIOUS
    <3> QED
      BY <1>10, <3>1, <3>2 DEF Slice
  <2>3. /\ 1 \in 1 .. (Len(t) + 1) /\ i \in 1 .. (Len(t) + 1) /\ i + 1 \in i .. (Len(t) + 1)
        /\ i + 1 \in 1 .. (Len(t) + 1) /\ j \in 1 .. (Len(t) + 1) /\ j \in (i + 1) .. (Len(t) + 1)
        /\ j + 1 \in j .. (Len(t) + 1) /\ j + 1 \in 1 .. (Len(t) + 1)
        /\ Len(t) + 1 \in (j + 1) .. (Len(t) + 1)
    BY <1>3, <1>4
  <2>4. \A x \in 1 .. (Len(t) + 1) : \A y \in x .. (Len(t) + 1) :
            1 \in 1 .. (Len(t) + 1) /\ (x \in 1 .. (Len(t) + 1) => Slice(t, 1, x) \o Slice(t, x, y) = Slice(t, 1, y))
    <3> TAKE x \in 1 .. (Len(t) + 1)
    <3> TAKE y \in x .. (Len(t) + 1)
    <3>1. t \in Seq(Character) /\ 1 \in 1 .. (Len(t) + 1) /\ x \in 1 .. (Len(t) + 1) /\ y \in x .. (Len(t) + 1)
      BY <2>3
    <3> QED
      BY ONLY <3>1, SlicesJoin
  <2>5. a \o <<"/">> = Slice(t, 1, i + 1)
    BY <1>10, <2>1, <2>3, <2>4
  <2>6. Slice(t, 1, i + 1) \o b = Slice(t, 1, j)
    BY <1>10, <2>3, <2>4
  <2>7. Slice(t, 1, j) \o <<"#">> = Slice(t, 1, j + 1)
    BY <2>1, <2>3, <2>4
  <2>8. Slice(t, 1, j + 1) \o e = t
    BY <2>2, <2>3, <2>4
  <2> QED
    BY <2>5, <2>6, <2>7, <2>8
<1> QED
  BY <1>6, <1>11, <1>12, <1>13, <1>14, <1>15

(* What the parsers make sure of.                                          *)
Segments(t) ==
    /\ t \in Seq(Character)
    /\ \A n \in DOMAIN Split(t, "/") : Split(t, "/")[n] \notin DotSegments

Segment(t) == t \in Seq(Character) /\ t # << >> /\ t \notin DotSegments

LEMMA ParsedIs ==
    ASSUME body \in Body, provider \in {"vault", "conjur", "ccp"}, ref \in Refs
    PROVE  /\ LocatorIsTheText
           /\ provider = "vault" => Segment(ref.first) /\ Segments(ref.second)
           /\ provider = "conjur" =>
                /\ Segments(ref.id)
                /\ \A n \in DOMAIN Split(ref.id, "/") : Split(ref.id, "/")[n] # << >>
           /\ provider = "ccp" => ref.first \in Seq(Character) /\ ref.second \in Seq(Character)
<1>1. body \in Seq(Character)
  BY TextAssumption
<1>2. \A t : ~HasDotSegment(t) => \A n \in DOMAIN Split(t, "/") : Split(t, "/")[n] \notin DotSegments
  BY DEF HasDotSegment
<1>3. CASE provider = "vault"
  <2>1. Refs = VaultRefs
    BY <1>3 DEF Refs
  <2>2. /\ ref \in Located(body) /\ Filled(ref)
        /\ ~HasDotSegment(ref.first) /\ ~HasDotSegment(ref.second)
    BY <2>1 DEF VaultRefs
  <2>3. /\ Located(body) = {ref}
        /\ ref.first \in Seq(Character) /\ ref.second \in Seq(Character)
        /\ ~Has(ref.first, "/")
        /\ ref.first \o <<"/">> \o ref.second \o <<"#">> \o ref.field = body
    BY <1>1, <2>2, LocatedIs
  <2>4. Refs = {ref}
    <3>1. \A m \in Refs : m \in Located(body)
      BY <2>1 DEF VaultRefs
    <3> QED
      BY <2>3, <3>1
  <2>5. LocatorIsTheText
    BY <1>3, <2>2, <2>3, <2>4 DEF LocatorIsTheText, Locator, Filled
  <2>6. Segments(ref.second)
    BY <1>2, <2>2, <2>3 DEF Segments
  <2>7. Segment(ref.first)
    <3>1. ref.first # << >>
      BY <2>2 DEF Filled
    <3>2. Split(ref.first, "/") = <<ref.first>>
      BY <2>3, SplitWhole, CharacterIsChar
    <3>3. 1 \in DOMAIN <<ref.first>> /\ <<ref.first>>[1] = ref.first
      OBVIOUS
    <3>4. ref.first \notin DotSegments
      BY <1>2, <2>2, <3>2, <3>3
    <3> QED
      BY <2>3, <3>1, <3>4 DEF Segment
  <2> QED
    BY <1>3, <2>5, <2>6, <2>7
<1>4. CASE provider = "conjur"
  <2>1. Refs = ConjurRefs
    BY <1>4 DEF Refs
  <2>2. /\ ref = [id |-> body] /\ ~HasDotSegment(body)
        /\ \A n \in DOMAIN Split(body, "/") : Split(body, "/")[n] # << >>
        /\ \A m \in Refs : m = [id |-> body]
    BY <2>1 DEF ConjurRefs
  <2>3. Refs = {ref} /\ ref.id = body
    BY <2>2
  <2>4. LocatorIsTheText
    BY <1>4, <2>3 DEF LocatorIsTheText, Locator
  <2>5. Segments(ref.id)
    BY <1>1, <1>2, <2>2, <2>3 DEF Segments
  <2> QED
    BY <1>4, <2>2, <2>3, <2>4, <2>5
<1>5. CASE provider = "ccp"
  <2>1. Refs = CcpRefs
    BY <1>5 DEF Refs
  <2>2. ref \in Located(body) /\ Filled(ref)
    BY <2>1 DEF CcpRefs
  <2>3. /\ Located(body) = {ref}
        /\ ref.first \in Seq(Character) /\ ref.second \in Seq(Character)
        /\ ~Has(ref.first, "/")
        /\ ref.first \o <<"/">> \o ref.second \o <<"#">> \o ref.field = body
    BY <1>1, <2>2, LocatedIs
  <2>4. Refs = {ref}
    <3>1. \A m \in Refs : m \in Located(body)
      BY <2>1 DEF CcpRefs
    <3> QED
      BY <2>3, <3>1
  <2>5. LocatorIsTheText
    BY <1>5, <2>2, <2>3, <2>4 DEF LocatorIsTheText, Locator, Filled
  <2> QED
    BY <1>5, <2>3, <2>5
<1> QED
  BY <1>3, <1>4, <1>5

-----------------------------------------------------------------------------
(* The segments p stand for the texts w, before and after decoding, and    *)
(* whoever looks for dot segments finds none.                              *)
Means(p, w) ==
    /\ p \in Seq(Str) /\ w \in Seq(Str) /\ Len(p) = Len(w)
    /\ \A n \in 1 .. Len(p) :
        /\ p[n] \notin DotSegments /\ w[n] \notin DotSegments
        /\ Decoded(p[n], "+") = w[n]

LEMMA MeansJoin ==
    ASSUME NEW p, NEW w, Means(p, w), NEW q, NEW z, Means(q, z)
    PROVE  Means(p \o q, w \o z)
<1>1. p \in Seq(Str) /\ w \in Seq(Str) /\ q \in Seq(Str) /\ z \in Seq(Str)
      /\ Len(p) = Len(w) /\ Len(q) = Len(z) /\ Len(p) \in Nat /\ Len(q) \in Nat
  BY DEF Means
<1>2. PICK a, b : a = p \o q /\ b = w \o z
  OBVIOUS
<1>3. /\ a \in Seq(Str) /\ Len(a) = Len(p) + Len(q)
      /\ \A n \in 1 .. Len(p) : a[n] = p[n]
      /\ \A n \in 1 .. Len(q) : a[Len(p) + n] = q[n]
  <2>1. p \in Seq(Str) /\ q \in Seq(Str)
    BY <1>1
  <2>2. /\ p \o q \in Seq(Str) /\ Len(p \o q) = Len(p) + Len(q)
        /\ \A n \in 1 .. Len(p) : (p \o q)[n] = p[n]
        /\ \A n \in 1 .. Len(q) : (p \o q)[Len(p) + n] = q[n]
    BY ONLY <2>1, JoinedIs
  <2> QED
    BY <1>2, <2>2
<1>4. /\ b \in Seq(Str) /\ Len(b) = Len(w) + Len(z)
      /\ \A n \in 1 .. Len(w) : b[n] = w[n]
      /\ \A n \in 1 .. Len(z) : b[Len(w) + n] = z[n]
  <2>1. w \in Seq(Str) /\ z \in Seq(Str)
    BY <1>1
  <2>2. /\ w \o z \in Seq(Str) /\ Len(w \o z) = Len(w) + Len(z)
        /\ \A n \in 1 .. Len(w) : (w \o z)[n] = w[n]
        /\ \A n \in 1 .. Len(z) : (w \o z)[Len(w) + n] = z[n]
    BY ONLY <2>1, JoinedIs
  <2> QED
    BY <1>2, <2>2
<1>5. ASSUME NEW n \in 1 .. Len(a)
      PROVE  a[n] \notin DotSegments /\ b[n] \notin DotSegments /\ Decoded(a[n], "+") = b[n]
  <2>1. CASE n \in 1 .. Len(p)
    <3>1. a[n] = p[n] /\ b[n] = w[n]
      BY <1>1, <1>3, <1>4, <2>1
    <3> QED
      BY <2>1, <3>1 DEF Means
  <2>2. CASE n \notin 1 .. Len(p)
    <3>1. PICK m : m = n - Len(p)
      OBVIOUS
    <3>2. m \in 1 .. Len(q) /\ Len(p) + m = n
      BY <1>1, <1>3, <2>2, <3>1
    <3>3. a[n] = q[m] /\ b[n] = z[m]
      BY <1>1, <1>3, <1>4, <3>2
    <3> QED
      BY <3>2, <3>3 DEF Means
  <2> QED
    BY <2>1, <2>2
<1> QED
  BY <1>1, <1>2, <1>3, <1>4, <1>5 DEF Means

(* One segment, as it is or encoded.                                       *)
LEMMA MeansWord ==
    ASSUME NEW v \in Str, ~Has(v, "%"), v \notin DotSegments
    PROVE  Means(<<v>>, <<v>>)
<1>1. Decoded(v, "+") = v
  BY DecodedPlain, CharacterIsChar DEF Plainly
<1> QED
  BY <1>1 DEF Means

LEMMA MeansEncoded ==
    ASSUME NEW t \in Seq(Character), t \notin DotSegments
    PROVE  Means(<<PercentEncode(t)>>, <<t>>)
<1>1. PICK u : u = PercentEncode(t)
  OBVIOUS
<1>2. Decoded(u, "+") = t /\ u \in Str /\ t \in Str /\ u \notin DotSegments
  BY <1>1, DecodedEncoded, EncodedHas, CharacterIsChar, EncodedIsNoDots
<1>3. Means(<<u>>, <<t>>)
  BY <1>2 DEF Means
<1> QED
  BY <1>1, <1>3

(* The segments of the base address, and those of an encoded path.         *)
LEMMA MeansBase ==
    ASSUME NEW h \in Str, IsAddress(h)
    PROVE  Means(Split(h, "/"), Split(h, "/"))
<1>1. PICK p : p = Split(h, "/")
  OBVIOUS
<1>2. p \in Seq(Str) /\ DOMAIN p = 1 .. Len(p)
  BY <1>1, SplitIsParts DEF Parts
<1>3. ASSUME NEW n \in 1 .. Len(p) PROVE p[n] \notin DotSegments /\ Decoded(p[n], "+") = p[n]
  <2>1. PICK v : v = p[n]
    OBVIOUS
  <2>2. v \in Str /\ (Has(v, "%") => Has(h, "%"))
    BY <1>1, <1>2, <2>1, HasPart
  <2>3. v \notin DotSegments /\ ~Has(h, "%")
    BY <1>1, <1>2, <2>1 DEF IsAddress
  <2>4. Plainly(v, "+")
    BY <2>2, <2>3 DEF Plainly
  <2>5. Decoded(v, "+") = v
    BY <2>2, <2>4, DecodedPlain, CharacterIsChar
  <2> QED
    BY <2>1, <2>3, <2>5
<1>4. Means(p, p)
  BY <1>2, <1>3 DEF Means
<1> QED
  BY <1>1, <1>4

LEMMA MeansPath ==
    ASSUME NEW t, Segments(t)
    PROVE  Means(PathParts(t), Split(t, "/"))
<1>1. t \in Seq(Character) /\ t \in Str
  BY CharacterIsChar DEF Segments
<1>2. PICK p, q : p = PathParts(t) /\ q = Split(t, "/")
  OBVIOUS
<1>3. q \in Parts /\ p \in Parts
  BY <1>1, <1>2, SplitIsParts, EncodedPath
<1>4. DOMAIN q = 1 .. Len(q) /\ q \in Seq(Str) /\ p \in Seq(Str)
  BY <1>3 DEF Parts
<1>5. p = [n \in 1 .. Len(q) |-> PercentEncode(q[n])]
  BY <1>2, <1>4 DEF PathParts
<1>6. Len(p) = Len(q)
  BY <1>4, <1>5
<1>7. ASSUME NEW n \in 1 .. Len(p)
      PROVE  p[n] \notin DotSegments /\ q[n] \notin DotSegments /\ Decoded(p[n], "+") = q[n]
  <2>1. PICK v : v = q[n]
    OBVIOUS
  <2>2. v \in Seq(Character) /\ v \notin DotSegments
    BY <1>1, <1>2, <1>4, <1>6, <2>1, PartIsText DEF Segments
  <2>3. p[n] = PercentEncode(v)
    BY <1>5, <1>6, <2>1
  <2>4. PercentEncode(v) \notin DotSegments /\ Decoded(PercentEncode(v), "+") = v
    BY <2>2, EncodedIsNoDots, DecodedEncoded, CharacterIsChar
  <2> QED
    BY <2>1, <2>2, <2>3, <2>4
<1>8. Means(p, q)
  BY <1>4, <1>6, <1>7 DEF Means
<1> QED
  BY <1>2, <1>8

(* So it makes no difference when they are removed.                        *)
LEMMA ViewsAgree ==
    ASSUME NEW p, NEW w, Means(p, w), p # << >>
    PROVE  /\ [n \in DOMAIN Removed(p) |-> Decoded(Removed(p)[n], "+")] = w
           /\ Removed([n \in DOMAIN p |-> Decoded(p[n], "+")]) = w
<1>1. Removed(p) = p /\ Removed(w) = w
  BY NothingRemoved DEF Means
<1>2. [n \in DOMAIN p |-> Decoded(p[n], "+")] = w
  <2>1. p \in Seq(Str) /\ w \in Seq(Str) /\ Len(p) = Len(w) /\ DOMAIN p = 1 .. Len(p) /\ Len(p) \in Nat
    BY DEF Means
  <2>2. PICK d : d = [n \in 1 .. Len(p) |-> Decoded(p[n], "+")]
    OBVIOUS
  <2>3. \A n \in 1 .. Len(p) : d[n] = w[n]
    BY <2>2 DEF Means
  <2>4. w = [n \in 1 .. Len(p) |-> w[n]]
    BY <2>1
  <2>5. d = [n \in 1 .. Len(p) |-> d[n]]
    BY <2>2
  <2>6. d = w
    BY <2>3, <2>4, <2>5
  <2> QED
    BY <2>1, <2>2, <2>6
<1> QED
  BY <1>1, <1>2

-----------------------------------------------------------------------------
(* What Receive looks at.                                                  *)
PathOf(u) == Split(UpTo(UpTo(u, "#"), "?"), "/")

QueryOf(u) ==
    IF Has(UpTo(u, "#"), "?") THEN Split(Split(UpTo(u, "#"), "?")[2], "&") ELSE << >>

AllDecoded(parts, plus) == [n \in DOMAIN parts |-> Decoded(parts[n], plus)]

ReadOut(r, p, q) ==
    \/ r = [path |-> AllDecoded(Removed(p), "+"), query |-> q]
    \/ r = [path |-> Removed(AllDecoded(p, "+")), query |-> q]

LEMMA ReceiveReads ==
    ASSUME Receive
    PROVE  /\ ReadOut(read', PathOf(url), AllDecoded(QueryOf(url), " "))
           /\ urlAt = "sent" /\ urlAt' = "read"
           /\ UNCHANGED <<provider, body, base, tenant, ref, url>>
  BY Zenon DEF Receive, PathOf, QueryOf, AllDecoded, ReadOut

LEMMA MeaningRead ==
    ASSUME NEW p, NEW w, Means(p, w), p # << >>, NEW q, NEW r, ReadOut(r, p, q)
    PROVE  r.path = w /\ r.query = q
<1>1. AllDecoded(Removed(p), "+") = w /\ Removed(AllDecoded(p, "+")) = w
  BY ViewsAgree DEF AllDecoded
<1> QED
  BY <1>1 DEF ReadOut

LEMMA NoQuery ==
    ASSUME NEW u \in Str, ~Has(u, "#"), ~Has(u, "?")
    PROVE  PathOf(u) = Split(u, "/") /\ AllDecoded(QueryOf(u), " ") = << >>
<1>1. UpTo(u, "#") = u /\ UpTo(u, "?") = u
  <2>1. Split(u, "#") = <<u>> /\ Split(u, "?") = <<u>>
    BY SplitWhole
  <2> QED
    BY <2>1 DEF UpTo
<1>2. PathOf(u) = Split(u, "/")
  BY <1>1 DEF PathOf
<1>3. QueryOf(u) = << >>
  BY <1>1 DEF QueryOf
<1>4. AllDecoded(<< >>, " ") = << >>
  BY DEF AllDecoded
<1> QED
  BY <1>2, <1>3, <1>4

SameInAll(H, a, t, b, S) == (((H \o <<a>>) \o <<t>>) \o <<b>>) \o S = H \o (<<a, t, b>> \o S)

LEMMA Reassociated ==
    ASSUME NEW H \in Seq(Str), NEW S \in Seq(Str), NEW a \in Str, NEW t \in Str, NEW b \in Str
    PROVE  SameInAll(H, a, t, b, S)
<1>1. PICK x, y, z, w : x = <<a>> /\ y = <<t>> /\ z = <<b>> /\ w = <<a, t, b>>
  OBVIOUS
<1>2. x \in Seq(Str) /\ y \in Seq(Str) /\ z \in Seq(Str) /\ w \in Seq(Str)
  BY <1>1
<1>3. w = (x \o y) \o z
  <2>1. PICK v, p : v = x \o y /\ p = v \o z
    OBVIOUS
  <2>2. v \in Seq(Str) /\ Len(v) = 2 /\ v[1] = a /\ v[2] = t
    BY <1>1, <1>2, <2>1
  <2>3. p \in Seq(Str) /\ Len(p) = 3 /\ p[1] = a /\ p[2] = t /\ p[3] = b
    BY <1>1, <1>2, <2>1, <2>2
  <2>4. p = <<p[1], p[2], p[3]>>
    BY ONLY <2>3
  <2> QED
    BY <1>1, <2>1, <2>3, <2>4
<1>5. (((H \o x) \o y) \o z) = H \o ((x \o y) \o z)
  <2>1. PICK v : v = x \o y
    OBVIOUS
  <2>2. H \in Seq(Str) /\ v \in Seq(Str)
    BY <1>2, <2>1
  <2>3. (H \o x) \o y = H \o v
    <3>1. (H \o x) \o y = H \o (x \o y)
      <4>1. H \in Seq(Str) /\ x \in Seq(Str) /\ y \in Seq(Str)
        BY <1>2
      <4> QED
        BY ONLY <4>1
    <3> QED
      BY <2>1, <3>1
  <2>4. (H \o v) \o z = H \o (v \o z)
    <3>1. H \in Seq(Str) /\ v \in Seq(Str) /\ z \in Seq(Str)
      BY <1>2, <2>2
    <3> QED
      BY ONLY <3>1
  <2> QED
    BY <2>1, <2>3, <2>4
<1>6. (H \o w) \o S = H \o (w \o S)
  <2>1. H \in Seq(Str) /\ w \in Seq(Str) /\ S \in Seq(Str)
    BY <1>2
  <2> QED
    BY ONLY <2>1
<1>7. (((H \o x) \o y) \o z) \o S = H \o (w \o S)
  BY <1>3, <1>5, <1>6
<1> QED
  BY <1>1, <1>7 DEF SameInAll

(* The two URLs that carry everything in their path.                       *)
Word(a) == a \in Str /\ a # << >> /\ a \notin DotSegments /\ \A c \in {"%", "?", "#", "/"} : ~Has(a, c)

LEMMA PathUrl ==
    ASSUME NEW h \in Str, IsAddress(h), NEW a, Word(a), NEW b, Word(b),
           NEW t \in Seq(Character), t \notin DotSegments, NEW s, Segments(s),
           NEW u, u = Joined(<<h, a, PercentEncode(t), b, PercentEncodePath(s)>>)
    PROVE  /\ AllDecoded(QueryOf(u), " ") = << >>
           /\ Means(PathOf(u), Split(h, "/") \o (<<a, t, b>> \o Split(s, "/")))
           /\ PathOf(u) # << >>
<1>1. PICK e, f, x : /\ e = PercentEncode(t) /\ f = PercentEncodePath(s)
                     /\ x = <<h, a, e, b, f>>
  OBVIOUS
<1>2. s \in Seq(Character) /\ s \in Str /\ t \in Str
  BY CharacterIsChar DEF Segments
<1>3. a \in Str /\ b \in Str /\ e \in Str /\ f \in Str
  BY <1>1, <1>2, EncodedHas, EncodedPath DEF Word
<1>4. x \in Parts /\ Len(x) = 5 /\ x[1] = h /\ x[2] = a /\ x[3] = e /\ x[4] = b /\ x[5] = f
  <2>1. x \in Seq(Str) /\ x # << >>
    BY <1>1, <1>3
  <2> QED
    BY <1>1, <2>1 DEF Parts
<1>5. u = Joined(x)
  BY <1>1
<1>6. ASSUME NEW c \in {"?", "#"} PROVE ~Has(u, c)
  <2>1. ~Has(h, c) /\ ~Has(a, c) /\ ~Has(e, c) /\ ~Has(b, c) /\ ~Has(f, c) /\ c # "/"
    BY <1>1, <1>2, EncodedHas, EncodedPath DEF IsAddress, Word
  <2>2. \A n \in 1 .. Len(x) : ~Has(x[n], c)
    <3>1. \A n \in 1 .. 5 : n = 1 \/ n = 2 \/ n = 3 \/ n = 4 \/ n = 5
      OBVIOUS
    <3> QED
      BY <1>4, <2>1, <3>1
  <2> QED
    BY <1>4, <1>5, <2>1, <2>2, JoinedSplit
<1>7. u \in Str
  BY <1>4, <1>5, JoinedSplit
<1>8. PathOf(u) = Split(u, "/") /\ AllDecoded(QueryOf(u), " ") = << >>
  BY <1>6, <1>7, NoQuery
<1>9. PICK g : /\ g \in [1 .. Len(x) -> Parts] /\ g[1] = Split(x[1], "/")
               /\ \A n \in 2 .. Len(x) : g[n] = g[n - 1] \o Split(x[n], "/")
               /\ Split(Joined(x), "/") = g[Len(x)]
  BY <1>4, JoinedSplit
<1>10. PICK H, P : H = Split(h, "/") /\ P = PathParts(s)
  OBVIOUS
<1>11. Split(a, "/") = <<a>> /\ Split(b, "/") = <<b>> /\ Split(e, "/") = <<e>> /\ Split(f, "/") = P
  BY <1>1, <1>2, <1>3, <1>10, EncodedHas, EncodedPath, SplitWhole DEF Word
<1>12. /\ g[1] = H /\ g[2] = g[1] \o <<a>> /\ g[3] = g[2] \o <<e>> /\ g[4] = g[3] \o <<b>>
       /\ g[5] = g[4] \o P /\ PathOf(u) = g[5] /\ g[5] \in Parts
  <2>1. 2 \in 2 .. 5 /\ 3 \in 2 .. 5 /\ 4 \in 2 .. 5 /\ 5 \in 2 .. 5 /\ 5 \in 1 .. 5
        /\ 2 - 1 = 1 /\ 3 - 1 = 2 /\ 4 - 1 = 3 /\ 5 - 1 = 4
    OBVIOUS
  <2> QED
    BY <1>4, <1>5, <1>8, <1>9, <1>10, <1>11, <2>1
<1>13. PICK S : S = Split(s, "/")
  OBVIOUS
<1>14. Means(H, H) /\ Means(<<a>>, <<a>>) /\ Means(<<e>>, <<t>>) /\ Means(<<b>>, <<b>>) /\ Means(P, S)
  BY <1>1, <1>10, <1>13, MeansBase, MeansWord, MeansEncoded, MeansPath DEF Word
<1>15. Means(PathOf(u), (((H \o <<a>>) \o <<t>>) \o <<b>>) \o S)
  <2>1. Means(g[2], H \o <<a>>)
    BY <1>12, <1>14, MeansJoin
  <2>2. Means(g[3], (H \o <<a>>) \o <<t>>)
    BY <1>12, <1>14, <2>1, MeansJoin
  <2>3. Means(g[4], ((H \o <<a>>) \o <<t>>) \o <<b>>)
    BY <1>12, <1>14, <2>2, MeansJoin
  <2> QED
    BY <1>12, <1>14, <2>3, MeansJoin
<1>16. (((H \o <<a>>) \o <<t>>) \o <<b>>) \o S = H \o (<<a, t, b>> \o S)
  <2>1. H \in Seq(Str) /\ S \in Seq(Str)
    BY <1>14 DEF Means
  <2>2. a \in Str /\ b \in Str /\ t \in Str
    BY <1>2, <1>3
  <2> QED
    <3>1. SameInAll(H, a, t, b, S)
      BY <2>1, <2>2, Reassociated, Zenon
    <3> QED
      BY <3>1 DEF SameInAll
<1>17. PathOf(u) # << >>
  BY <1>12 DEF Parts
<1> QED
  BY <1>8, <1>10, <1>13, <1>15, <1>16, <1>17

(* Which segments of such a path can be empty.                             *)
EmptyBehind(w, h, m, s) ==
    \A n \in DOMAIN w : w[n] = << >> =>
        /\ n >= Len(Split(h, "/")) + Len(m) + 1
        /\ \E k \in DOMAIN s : s[k] = << >>

LEMMA EmptySegments ==
    ASSUME NEW h \in Str, IsAddress(h), NEW m \in Seq(Str), \A n \in 1 .. Len(m) : m[n] # << >>,
           NEW s \in Seq(Str), NEW w, w = Split(h, "/") \o (m \o s)
    PROVE  EmptyBehind(w, h, m, s)
<1> SUFFICES ASSUME NEW n \in DOMAIN w, w[n] = << >>
             PROVE  /\ n >= Len(Split(h, "/")) + Len(m) + 1
                    /\ \E k \in DOMAIN s : s[k] = << >>
  BY DEF EmptyBehind
<1>1. PICK H, r : H = Split(h, "/") /\ r = m \o s
  OBVIOUS
<1>2. H \in Seq(Str) /\ \A k \in 1 .. Len(H) : H[k] # << >>
  BY <1>1, SplitIsParts DEF Parts, IsAddress
<1>3. /\ r \in Seq(Str) /\ Len(r) = Len(m) + Len(s) /\ Len(m) \in Nat /\ Len(s) \in Nat
      /\ \A k \in 1 .. Len(m) : r[k] = m[k]
      /\ \A k \in 1 .. Len(s) : r[Len(m) + k] = s[k]
  <2>1. /\ m \o s \in Seq(Str) /\ Len(m \o s) = Len(m) + Len(s) /\ Len(m) \in Nat /\ Len(s) \in Nat
        /\ \A k \in 1 .. Len(m) : (m \o s)[k] = m[k]
        /\ \A k \in 1 .. Len(s) : (m \o s)[Len(m) + k] = s[k]
    <3>1. m \in Seq(Str) /\ s \in Seq(Str)
      OBVIOUS
    <3> QED
      BY ONLY <3>1, JoinedIs
  <2> QED
    BY <1>1, <2>1
<1>4. /\ w \in Seq(Str) /\ Len(w) = Len(H) + Len(r) /\ Len(H) \in Nat
      /\ \A k \in 1 .. Len(H) : w[k] = H[k]
      /\ \A k \in 1 .. Len(r) : w[Len(H) + k] = r[k]
  <2>1. /\ H \o r \in Seq(Str) /\ Len(H \o r) = Len(H) + Len(r) /\ Len(H) \in Nat /\ Len(r) \in Nat
        /\ \A k \in 1 .. Len(H) : (H \o r)[k] = H[k]
        /\ \A k \in 1 .. Len(r) : (H \o r)[Len(H) + k] = r[k]
    <3>1. H \in Seq(Str) /\ r \in Seq(Str)
      BY <1>2, <1>3
    <3> QED
      BY ONLY <3>1, JoinedIs
  <2> QED
    BY <1>1, <2>1
<1>5. n \in 1 .. Len(w) /\ n \in Nat
  BY <1>4
<1>6. ~(n <= Len(H))
  <2> SUFFICES ASSUME n <= Len(H) PROVE FALSE
    OBVIOUS
  <2>1. n \in 1 .. Len(H)
    BY <1>4, <1>5
  <2>2. w[n] = H[n] /\ H[n] # << >>
    BY <1>2, <1>4, <2>1
  <2> QED
    BY <2>2
<1>7. PICK k : k = n - Len(H)
  OBVIOUS
<1>8. k \in 1 .. Len(r) /\ Len(H) + k = n /\ r[k] = << >>
  <2>1. k \in 1 .. Len(r) /\ Len(H) + k = n
    <3>1. PICK a, b, c : a = Len(H) /\ b = Len(r) /\ c = Len(w)
      OBVIOUS
    <3>2. /\ a \in Nat /\ b \in Nat /\ c = a + b /\ n \in 1 .. c /\ ~(n <= a) /\ k = n - a
      BY <1>3, <1>4, <1>5, <1>6, <1>7, <3>1
    <3>3. k \in 1 .. b /\ a + k = n
      BY ONLY <3>2
    <3> QED
      BY <3>1, <3>3
  <2>2. w[Len(H) + k] = r[k]
    BY <1>4, <2>1
  <2> QED
    BY <2>1, <2>2
<1>9. ~(k <= Len(m))
  <2> SUFFICES ASSUME k <= Len(m) PROVE FALSE
    OBVIOUS
  <2>1. k \in 1 .. Len(m)
    BY <1>3, <1>8
  <2>2. r[k] = m[k] /\ m[k] # << >>
    BY <1>3, <2>1
  <2> QED
    BY <1>8, <2>2
<1>10. PICK j : j = k - Len(m)
  OBVIOUS
<1>11. j \in 1 .. Len(s) /\ Len(m) + j = k /\ s[j] = << >>
  <2>1. j \in 1 .. Len(s) /\ Len(m) + j = k
    BY <1>3, <1>8, <1>9, <1>10
  <2>2. r[Len(m) + j] = s[j]
    BY <1>3, <2>1
  <2> QED
    <3>1. r[Len(m) + j] = r[k] /\ r[k] = << >>
      BY <1>8, <2>1
    <3>2. s[j] = << >>
      BY <2>2, <3>1
    <3> QED
      BY <2>1, <3>2
<1>12. j \in DOMAIN s /\ n >= Len(H) + Len(m) + 1
  <2>1. PICK a, b, c : a = Len(H) /\ b = Len(m) /\ c = Len(s)
    OBVIOUS
  <2>2. a \in Nat /\ b \in Nat /\ c \in Nat /\ a + k = n /\ b + j = k /\ j \in 1 .. c
    BY <1>3, <1>4, <1>8, <1>11, <2>1
  <2>3. n >= a + b + 1
    BY ONLY <2>2
  <2> QED
    BY <1>11, <2>1, <2>3
<1> QED
  BY <1>1, <1>11, <1>12

-----------------------------------------------------------------------------
(* Joining texts, in any order.                                            *)
Associative(p, q, r) == (p \o q) \o r = p \o (q \o r)

LEMMA Associates ==
    ASSUME NEW p \in Str, NEW q \in Str, NEW r \in Str
    PROVE  Associative(p, q, r)
<1>1. p \in Seq(Char) /\ q \in Seq(Char) /\ r \in Seq(Char)
  BY DEF Str
<1>2. (p \o q) \o r = p \o (q \o r)
  BY ONLY <1>1
<1> QED
  BY <1>2 DEF Associative

LEMMA JoinedIsText ==
    ASSUME NEW p \in Str, NEW q \in Str
    PROVE  p \o q \in Str
  BY DEF Str

SplitsBetween(a, b, c) == Split(a \o (<<c>> \o b), c) = Split(a, c) \o Split(b, c)

LEMMA SplitsJoined ==
    ASSUME NEW a \in Str, NEW b \in Str, NEW c \in Char
    PROVE  SplitsBetween(a, b, c)
  BY SplitJoins DEF SplitsBetween

LEMMA TwoParts ==
    ASSUME NEW x \in Str, NEW y \in Str
    PROVE  <<x>> \o <<y>> = <<x, y>>
<1>1. PICK z : z = <<x>> \o <<y>>
  OBVIOUS
<1>2. z \in Seq(Str) /\ Len(z) = 2 /\ z[1] = x /\ z[2] = y
  BY <1>1
<1>3. z = <<z[1], z[2]>>
  BY ONLY <1>2
<1> QED
  BY <1>1, <1>2, <1>3

LEMMA JoinedPair ==
    ASSUME NEW h \in Str, NEW q \in Str
    PROVE  Joined(<<h, q>>) = h \o (<<"/">> \o q)
<1>1. PICK w : w = <<"/">> \o q
  OBVIOUS
<1>2. w \in Str
  <2>1. <<"/">> \in Str
    <3>1. "/" \in Char
      BY CharacterIsChar
    <3> QED
      BY <3>1 DEF Str
  <2> QED
    BY <1>1, <2>1, JoinedIsText
<1>3. PICK k : k = <<h, w>>
  OBVIOUS
<1>4. k \in Seq(Str) /\ Len(k) = 2 /\ k[1] = h /\ k[2] = w
  BY <1>2, <1>3
<1>5. k = [n \in DOMAIN <<h, q>> |-> IF n = 1 THEN <<h, q>>[n] ELSE <<"/">> \o <<h, q>>[n]]
  <2>1. PICK x : x = <<h, q>>
    OBVIOUS
  <2>2. DOMAIN x = 1 .. 2 /\ x[1] = h /\ x[2] = q
    BY <2>1
  <2>3. PICK d : d = [n \in 1 .. 2 |-> IF n = 1 THEN x[n] ELSE <<"/">> \o x[n]]
    OBVIOUS
  <2>4. d[1] = h /\ d[2] = w
    BY <1>1, <2>2, <2>3
  <2>5. k = [n \in 1 .. 2 |-> k[n]] /\ d = [n \in 1 .. 2 |-> d[n]]
    BY <1>4, <2>3
  <2>6. \A n \in 1 .. 2 : k[n] = d[n]
    BY <1>4, <2>4
  <2>7. k = d
    BY <2>5, <2>6
  <2> QED
    BY <2>1, <2>2, <2>3, <2>7
<1>6. Joined(<<h, q>>) = FlattenSeq(k)
  BY <1>5 DEF Joined
<1>7. PICK f : Flattens(k, f) /\ FlattenSeq(k) = f[Len(k)]
  BY <1>4, FlattenIs
<1>8. f[0] = << >> /\ f[1] = f[0] \o k[1] /\ f[2] = f[1] \o k[2] /\ FlattenSeq(k) = f[2]
  <2>1. 1 \in 1 .. 2 /\ 2 \in 1 .. 2 /\ 1 - 1 = 0 /\ 2 - 1 = 1
    OBVIOUS
  <2> QED
    BY <1>4, <1>7, <2>1 DEF Flattens
<1>9. << >> \o h = h
  BY DEF Str
<1> QED
  BY <1>1, <1>4, <1>6, <1>8, <1>9

(* The URL of a request to the Central Credential Provider, cut where a    *)
(* server cuts it.                                                         *)
Regrouped(a, m, g, d1, d2, d3, e1, e2, e3) ==
    (((((a \o (m \o d1)) \o e1) \o (g \o d2)) \o e2) \o (g \o d3)) \o e3
        = a \o (m \o ((d1 \o e1) \o (g \o ((d2 \o e2) \o (g \o (d3 \o e3))))))

LEMMA RequestIs ==
    ASSUME NEW a \in Str, NEW m \in Str, NEW g \in Str,
           NEW d1 \in Str, NEW d2 \in Str, NEW d3 \in Str,
           NEW e1 \in Str, NEW e2 \in Str, NEW e3 \in Str
    PROVE  Regrouped(a, m, g, d1, d2, d3, e1, e2, e3)
<1>a. PICK A, S, O : A = a \o (m \o d1) /\ S = g \o d2 /\ O = g \o d3
  OBVIOUS
<1>1. PICK V, W : V = g \o (d3 \o e3) /\ W = g \o ((d2 \o e2) \o V)
  OBVIOUS
<1>2. A \in Str /\ S \in Str /\ O \in Str /\ d1 \o e1 \in Str /\ d2 \o e2 \in Str /\ m \o d1 \in Str
  BY <1>a, JoinedIsText
<1>3. V \in Str /\ W \in Str
  <2>1. d3 \o e3 \in Str
    BY JoinedIsText
  <2>2. V \in Str
    BY <1>1, <2>1, JoinedIsText
  <2>3. (d2 \o e2) \o V \in Str
    BY <1>2, <2>2, JoinedIsText
  <2> QED
    BY <1>1, <2>2, <2>3, JoinedIsText
<1>4. PICK T, Y, Z : T = e1 \o W /\ Y = A \o e1 /\ Z = e2 \o V
  OBVIOUS
<1>5. T \in Str /\ Y \in Str /\ Z \in Str /\ Y \o S \in Str /\ (Y \o S) \o e2 \in Str
  BY <1>2, <1>3, <1>4, JoinedIsText
<1>6. O \o e3 = V
  <2>1. Associative(g, d3, e3)
    BY Associates
  <2> QED
    BY <1>1, <1>a, <2>1 DEF Associative
<1>7. (((Y \o S) \o e2) \o O) \o e3 = ((Y \o S) \o e2) \o V
  <2>1. PICK q : q = (Y \o S) \o e2
    OBVIOUS
  <2>2. Associative(q, O, e3)
    BY <1>2, <1>5, <2>1, Associates
  <2> QED
    BY <1>6, <2>1, <2>2 DEF Associative
<1>8. ((Y \o S) \o e2) \o V = Y \o (S \o Z)
  <2>1. PICK q : q = Y \o S
    OBVIOUS
  <2>2. Associative(q, e2, V) /\ Associative(Y, S, Z)
    BY <1>2, <1>3, <1>5, <2>1, Associates
  <2> QED
    BY <1>4, <2>1, <2>2 DEF Associative
<1>9. S \o Z = W
  <2>1. Associative(g, d2, Z) /\ Associative(d2, e2, V)
    BY <1>3, <1>5, Associates
  <2> QED
    BY <1>1, <1>4, <1>a, <2>1 DEF Associative
<1>10. Y \o W = A \o T
  <2>1. Associative(A, e1, W)
    BY <1>2, <1>3, Associates
  <2> QED
    BY <1>4, <2>1 DEF Associative
<1>11. A \o T = a \o (m \o ((d1 \o e1) \o W))
  <2>1. PICK q : q = m \o d1
    OBVIOUS
  <2>2. Associative(a, q, T) /\ Associative(m, d1, T) /\ Associative(d1, e1, W)
    BY <1>2, <1>3, <1>5, <2>1, Associates
  <2> QED
    BY <1>4, <1>a, <2>1, <2>2 DEF Associative
<1>12. ((((A \o e1) \o S) \o e2) \o O) \o e3 = a \o (m \o ((d1 \o e1) \o W))
  BY <1>4, <1>7, <1>8, <1>9, <1>10, <1>11
<1> QED
  BY <1>1, <1>a, <1>12 DEF Regrouped

RequestReadAs(u, h, t, f, s) ==
    /\ AllDecoded(QueryOf(u), " ")
         = <<<<"AppID", "=">> \o t, <<"Safe", "=">> \o f, <<"Object", "=">> \o s>>
    /\ Means(PathOf(u), Split(h, "/") \o <<<<"Accounts">>>>)
    /\ PathOf(u) # << >>

LEMMA RequestRead ==
    ASSUME NEW h \in Str, IsAddress(h),
           NEW t \in Seq(Character), NEW f \in Seq(Character), NEW s \in Seq(Character),
           NEW u, u = Joined(<<h, <<"Accounts", "?", "AppID", "=">> \o PercentEncode(t)
                                    \o <<"&", "Safe", "=">> \o PercentEncode(f)
                                    \o <<"&", "Object", "=">> \o PercentEncode(s)>>)
    PROVE  RequestReadAs(u, h, t, f, s)
<1>1. PICK a, m, g, p, d1, d2, d3 :
          /\ a = <<"Accounts">> /\ m = <<"?">> /\ g = <<"&">> /\ p = <<"/">>
          /\ d1 = <<"AppID", "=">> /\ d2 = <<"Safe", "=">> /\ d3 = <<"Object", "=">>
  OBVIOUS
<1>2. PICK e1, e2, e3 : e1 = PercentEncode(t) /\ e2 = PercentEncode(f) /\ e3 = PercentEncode(s)
  OBVIOUS
<1>3. PICK A, S, O : A = a \o (m \o d1) /\ S = g \o d2 /\ O = g \o d3
  OBVIOUS
<1>4. /\ a \in Str /\ m \in Str /\ g \in Str /\ p \in Str /\ d1 \in Str /\ d2 \in Str /\ d3 \in Str
      /\ e1 \in Str /\ e2 \in Str /\ e3 \in Str
  <2>1. \A c \in Literal : c \in Char
    BY Alphabet
  <2>2. /\ "Accounts" \in Char /\ "?" \in Char /\ "&" \in Char /\ "/" \in Char /\ "AppID" \in Char
        /\ "=" \in Char /\ "Safe" \in Char /\ "Object" \in Char
    BY <2>1 DEF Literal
  <2> QED
    BY <1>1, <1>2, <2>2, EncodedHas DEF Str
<1>5. A = <<"Accounts", "?", "AppID", "=">> /\ S = <<"&", "Safe", "=">> /\ O = <<"&", "Object", "=">>
  <2>1. PICK q : q = m \o d1
    OBVIOUS
  <2>2. q \in Seq(Char) /\ Len(q) = 3 /\ q[1] = "?" /\ q[2] = "AppID" /\ q[3] = "="
    BY <1>1, <1>4, <2>1 DEF Str
  <2>3. A \in Seq(Char) /\ Len(A) = 4 /\ A[1] = "Accounts" /\ A[2] = "?" /\ A[3] = "AppID" /\ A[4] = "="
    BY <1>1, <1>3, <1>4, <2>1, <2>2 DEF Str
  <2>4. S \in Seq(Char) /\ Len(S) = 3 /\ S[1] = "&" /\ S[2] = "Safe" /\ S[3] = "="
    BY <1>1, <1>3, <1>4 DEF Str
  <2>5. O \in Seq(Char) /\ Len(O) = 3 /\ O[1] = "&" /\ O[2] = "Object" /\ O[3] = "="
    BY <1>1, <1>3, <1>4 DEF Str
  <2>6. A = <<A[1], A[2], A[3], A[4]>>
    BY ONLY <2>3
  <2>7. S = <<S[1], S[2], S[3]>>
    BY ONLY <2>4
  <2>8. O = <<O[1], O[2], O[3]>>
    BY ONLY <2>5
  <2> QED
    BY <2>3, <2>4, <2>5, <2>6, <2>7, <2>8
<1>6. PICK b1, b2, b3, V, B : /\ b1 = d1 \o e1 /\ b2 = d2 \o e2 /\ b3 = d3 \o e3
                              /\ V = b2 \o (g \o b3) /\ B = b1 \o (g \o V)
  OBVIOUS
<1>7. /\ b1 \in Str /\ b2 \in Str /\ b3 \in Str
      /\ g \o b3 \in Str /\ V \in Str /\ g \o V \in Str /\ B \in Str /\ m \o B \in Str
  BY <1>4, <1>6, JoinedIsText
<1>8. PICK X : X = ((((A \o e1) \o S) \o e2) \o O) \o e3
  OBVIOUS
<1>9. X = a \o (m \o B)
  <2>1. Regrouped(a, m, g, d1, d2, d3, e1, e2, e3)
    BY <1>4, RequestIs, Zenon
  <2> QED
    BY <1>3, <1>6, <1>8, <2>1 DEF Regrouped
<1>10. X \in Str
  BY <1>4, <1>7, <1>9, JoinedIsText
<1>11. u = h \o (p \o X)
  <2>1. u = Joined(<<h, X>>)
    BY <1>2, <1>5, <1>8
  <2> QED
    BY <1>1, <1>10, <2>1, JoinedPair
<1>12. PICK K, M : K = h \o (p \o a) /\ M = m \o B
  OBVIOUS
<1>13. p \o a \in Str /\ K \in Str
  BY <1>4, <1>12, JoinedIsText
<1>14. u = K \o M
  <2>1. PICK q : q = p \o a
    OBVIOUS
  <2>2. Associative(p, a, M) /\ Associative(h, q, M)
    BY <1>4, <1>7, <1>12, <1>13, <2>1, Associates
  <2> QED
    BY <1>9, <1>11, <1>12, <2>1, <2>2 DEF Associative
<1>15. ASSUME NEW c \in {"?", "#"}
       PROVE  ~Has(K, c) /\ ~Has(B, c) /\ (Has(m, c) <=> c = "?")
  <2>1. ~Has(h, c) /\ ~Has(p, c) /\ ~Has(a, c) /\ ~Has(g, c) /\ ~Has(d1, c) /\ ~Has(d2, c) /\ ~Has(d3, c)
    BY <1>1 DEF IsAddress, Has
  <2>2. ~Has(e1, c) /\ ~Has(e2, c) /\ ~Has(e3, c)
    BY <1>2, EncodedHas
  <2>3. Has(m, c) <=> c = "?"
    BY <1>1 DEF Has
  <2>4. ~Has(p \o a, c) /\ ~Has(b1, c) /\ ~Has(b2, c) /\ ~Has(b3, c)
    BY <1>4, <1>6, <2>1, <2>2, HasJoined
  <2>5. ~Has(K, c) /\ ~Has(g \o b3, c)
    BY <1>4, <1>7, <1>12, <1>13, <2>1, <2>4, HasJoined
  <2>6. ~Has(V, c)
    BY <1>6, <1>7, <2>4, <2>5, HasJoined
  <2>7. ~Has(g \o V, c)
    BY <1>4, <1>7, <2>1, <2>6, HasJoined
  <2>8. ~Has(B, c)
    BY <1>6, <1>7, <2>4, <2>7, HasJoined
  <2> QED
    BY <2>3, <2>5, <2>8
<1>16. u \in Str /\ ~Has(u, "#") /\ Has(u, "?")
  <2>1. u \in Str
    BY <1>7, <1>12, <1>13, <1>14, JoinedIsText
  <2>2. ~Has(M, "#") /\ Has(M, "?")
    BY <1>4, <1>7, <1>12, <1>15, HasJoined
  <2>3. M \in Str /\ ~Has(K, "#")
    BY <1>7, <1>12, <1>15
  <2>4. \A c : Has(K \o M, c) <=> Has(K, c) \/ Has(M, c)
    BY <1>13, <2>3, HasJoined, Zenon
  <2> QED
    BY <1>14, <2>1, <2>2, <2>3, <2>4
<1>17. Split(u, "#") = <<u>>
  BY <1>16, SplitWhole
<1>18. Split(u, "?") = <<K, B>>
  <2>1. Split(K, "?") = <<K>> /\ Split(B, "?") = <<B>>
    <3>1. ~Has(K, "?") /\ ~Has(B, "?")
      BY <1>15
    <3> QED
      BY <1>7, <1>13, <3>1, SplitWhole
  <2>2. SplitsBetween(K, B, "?")
    BY <1>7, <1>13, CharacterIsChar, SplitsJoined
  <2>3. <<K>> \o <<B>> = <<K, B>>
    BY <1>7, <1>13, TwoParts
  <2> QED
    BY <1>1, <1>12, <1>14, <2>1, <2>2, <2>3 DEF SplitsBetween
<1>19. PathOf(u) = Split(K, "/") /\ QueryOf(u) = Split(B, "&")
  <2>1. UpTo(u, "#") = u /\ UpTo(u, "?") = K /\ Split(u, "?")[2] = B
    BY <1>17, <1>18 DEF UpTo
  <2>2. /\ UpTo(UpTo(u, "#"), "?") = K /\ Split(UpTo(u, "#"), "?")[2] = B
        /\ Has(UpTo(u, "#"), "?")
    BY <1>16, <2>1
  <2>3. PathOf(u) = Split(K, "/")
    BY <2>2 DEF PathOf
  <2>4. QueryOf(u) = Split(B, "&")
    <3>1. QueryOf(u) = Split(Split(UpTo(u, "#"), "?")[2], "&")
      BY <2>2, Zenon DEF QueryOf
    <3> QED
      BY <2>2, <3>1
  <2> QED
    BY <2>3, <2>4
<1>20. Split(K, "/") = Split(h, "/") \o <<a>>
  <2>1. Split(h \o (<<"/">> \o a), "/") = Split(h, "/") \o Split(a, "/")
    <3>1. SplitsBetween(h, a, "/")
      BY <1>4, CharacterIsChar, SplitsJoined
    <3> QED
      BY <3>1 DEF SplitsBetween
  <2>2. Split(a, "/") = <<a>>
    <3>1. ~Has(a, "/")
      BY <1>1 DEF Has
    <3> QED
      BY <1>4, <3>1, SplitWhole
  <2> QED
    BY <1>1, <1>12, <2>1, <2>2
<1>21. Means(PathOf(u), Split(h, "/") \o <<a>>) /\ PathOf(u) # << >>
  <2>1. Means(Split(h, "/"), Split(h, "/"))
    BY MeansBase
  <2>2. Means(<<a>>, <<a>>)
    <3>1. ~Has(a, "%") /\ a \notin DotSegments
      <4>1. a[1] = "Accounts" /\ DOMAIN a = {1}
        BY <1>1
      <4>2. ~Has(a, "%")
        BY <4>1 DEF Has
      <4>3. \A d \in DotSegments : d[1] = "."
        BY DEF DotSegments
      <4> QED
        BY <4>1, <4>2, <4>3
    <3> QED
      BY <1>4, <3>1, MeansWord
  <2>3. Means(Split(h, "/") \o <<a>>, Split(h, "/") \o <<a>>)
    BY <2>1, <2>2, MeansJoin
  <2>4. PathOf(u) # << >>
    BY <1>13, <1>19, SplitIsParts DEF Parts
  <2> QED
    BY <1>19, <1>20, <2>3, <2>4
<1>22. QueryOf(u) = <<b1, b2, b3>>
  <2>1. ASSUME NEW d \in {d1, d2, d3}, NEW e \in {e1, e2, e3} PROVE ~Has(d \o e, "&")
    <3>1. d \in Str /\ e \in Str
      BY <1>4
    <3>2. ~Has(d1, "&") /\ ~Has(d2, "&") /\ ~Has(d3, "&")
      BY <1>1 DEF Has
    <3>3. ~Has(e, "&")
      BY <1>2, EncodedHas
    <3> QED
      BY <3>1, <3>2, <3>3, HasJoined
  <2>2. Split(b1, "&") = <<b1>> /\ Split(b2, "&") = <<b2>> /\ Split(b3, "&") = <<b3>>
    BY <1>6, <1>7, <2>1, SplitWhole
  <2>3. Split(V, "&") = <<b2, b3>>
    <3>1. SplitsBetween(b2, b3, "&")
      BY <1>7, CharacterIsChar, SplitsJoined
    <3>2. <<b2>> \o <<b3>> = <<b2, b3>>
      BY <1>7, TwoParts
    <3> QED
      BY <1>1, <1>6, <2>2, <3>1, <3>2 DEF SplitsBetween
  <2>4. Split(B, "&") = <<b1>> \o <<b2, b3>>
    <3>1. SplitsBetween(b1, V, "&")
      BY <1>7, CharacterIsChar, SplitsJoined
    <3> QED
      BY <1>1, <1>6, <2>2, <2>3, <3>1 DEF SplitsBetween
  <2>5. <<b1>> \o <<b2, b3>> = <<b1, b2, b3>>
    <3>1. PICK z : z = <<b1>> \o <<b2, b3>>
      OBVIOUS
    <3>2. z \in Seq(Str) /\ Len(z) = 3 /\ z[1] = b1 /\ z[2] = b2 /\ z[3] = b3
      BY <1>7, <3>1
    <3>3. z = <<z[1], z[2], z[3]>>
      BY ONLY <3>2
    <3> QED
      BY <3>1, <3>2, <3>3
  <2> QED
    BY <1>19, <2>4, <2>5
<1>23. Decoded(b1, " ") = d1 \o t /\ Decoded(b2, " ") = d2 \o f /\ Decoded(b3, " ") = d3 \o s
  <2>1. Plainly(d1, " ") /\ Plainly(d2, " ") /\ Plainly(d3, " ")
    BY <1>1 DEF Plainly, Has
  <2> QED
    BY <1>2, <1>4, <1>6, <2>1, CharacterIsChar, DecodedJoin
<1>24. AllDecoded(QueryOf(u), " ") = <<d1 \o t, d2 \o f, d3 \o s>>
  <2>1. PICK x, y, z : x = d1 \o t /\ y = d2 \o f /\ z = d3 \o s
    OBVIOUS
  <2>2. PICK q, v : q = <<b1, b2, b3>> /\ v = <<x, y, z>>
    OBVIOUS
  <2>3. DOMAIN q = 1 .. 3 /\ q[1] = b1 /\ q[2] = b2 /\ q[3] = b3
    BY <2>2
  <2>4. v = [n \in 1 .. 3 |-> v[n]] /\ v[1] = x /\ v[2] = y /\ v[3] = z
    BY <2>2
  <2>5. \A n \in 1 .. 3 : Decoded(q[n], " ") = v[n]
    <3>1. \A n \in 1 .. 3 : n = 1 \/ n = 2 \/ n = 3
      OBVIOUS
    <3> QED
      BY <1>23, <2>1, <2>3, <2>4, <3>1
  <2>6. [n \in 1 .. 3 |-> Decoded(q[n], " ")] = v
    BY <2>4, <2>5
  <2>7. AllDecoded(q, " ") = v
    BY <2>3, <2>6 DEF AllDecoded
  <2> QED
    BY <1>22, <2>1, <2>2, <2>7
<1> QED
  BY <1>1, <1>21, <1>24 DEF RequestReadAs

-----------------------------------------------------------------------------
(* What is known of a read: its reference is one that the text parses to,  *)
(* and its URL is the one for that reference.                              *)
UrlInv ==
    /\ provider \in {"vault", "conjur", "ccp"}
    /\ body \in Body /\ base \in Base /\ tenant \in Tenant
    /\ urlAt \in {"parsed", "sent", "read"} => ref \in Refs
    /\ urlAt = "sent" =>
        /\ provider = "vault" => url = Joined(DataUrl)
        /\ provider = "conjur" => url = Joined(SecretUrl)
        /\ provider = "ccp" => url = Joined(RequestUrl)
    /\ urlAt = "read" => ReadAsMeant /\ NoEmptySegment

LEMMA Words ==
    /\ Word(<<"v1">>) /\ Word(<<"data">>) /\ Word(<<"secrets">>) /\ Word(<<"variable">>)
    /\ <<"Accounts">> \in Str /\ <<"Accounts">> # << >>
<1>1. \A c \in Literal : c \in Char
  BY Alphabet
<1>2. ASSUME NEW c \in {"v1", "data", "secrets", "variable", "Accounts"} PROVE Word(<<c>>)
  <2>1. PICK w : w = <<c>>
    OBVIOUS
  <2>2. c \in Char
    BY <1>1 DEF Literal
  <2>3. w \in Str /\ Len(w) = 1 /\ w[1] = c /\ DOMAIN w = {1}
    BY <2>1, <2>2 DEF Str
  <2>4. w # << >>
    BY <2>3
  <2>5. \A d \in DotSegments : d[1] = "."
    BY DEF DotSegments
  <2>6. w \notin DotSegments
    BY <2>3, <2>5
  <2>7. \A d \in {"%", "?", "#", "/"} : ~Has(w, d)
    BY <2>3 DEF Has
  <2> QED
    BY <2>1, <2>3, <2>4, <2>6, <2>7 DEF Word
<1> QED
  BY <1>2 DEF Word

(* A path that is read as h, three words, and the parts of s.              *)
LEMMA PathIsRead ==
    ASSUME NEW h \in Str, IsAddress(h), NEW a, Word(a), NEW b, Word(b),
           NEW t, Segment(t), NEW s, Segments(s),
           NEW w, w = Split(h, "/") \o (<<a, t, b>> \o Split(s, "/")),
           NEW n \in DOMAIN w, w[n] = << >>
    PROVE  /\ n >= Len(Split(h, "/")) + 4
           /\ \E k \in DOMAIN Split(s, "/") : Split(s, "/")[k] = << >>
<1>1. PICK m, q : m = <<a, t, b>> /\ q = Split(s, "/")
  OBVIOUS
<1>2. a \in Str /\ b \in Str /\ t \in Str /\ a # << >> /\ b # << >> /\ t # << >>
  BY CharacterIsChar DEF Word, Segment
<1>3. m \in Seq(Str) /\ Len(m) = 3 /\ m[1] = a /\ m[2] = t /\ m[3] = b
  BY <1>1, <1>2
<1>4. \A k \in 1 .. Len(m) : m[k] # << >>
  <2>1. \A k \in 1 .. 3 : k = 1 \/ k = 2 \/ k = 3
    OBVIOUS
  <2> QED
    BY <1>2, <1>3, <2>1
<1>5. q \in Seq(Str)
  BY <1>1, SplitIsParts, CharacterIsChar DEF Segments, Parts
<1>6. /\ n >= Len(Split(h, "/")) + Len(m) + 1
      /\ \E k \in DOMAIN q : q[k] = << >>
  <2>1. w = Split(h, "/") \o (m \o q)
    BY <1>1
  <2>2. EmptyBehind(w, h, m, q)
    BY <1>3, <1>4, <1>5, <2>1, EmptySegments
  <2> QED
    BY <2>2 DEF EmptyBehind
<1>7. Len(Split(h, "/")) \in Nat
  BY SplitIsParts DEF Parts
<1>8. Len(Split(h, "/")) + Len(m) + 1 = Len(Split(h, "/")) + 4
  BY <1>3, <1>7
<1> QED
  BY <1>1, <1>6, <1>8

(* What the server reads is what the reference means.                      *)
LEMMA ReceiveIsMeant ==
    ASSUME UrlInv, Receive
    PROVE  ReadAsMeant' /\ NoEmptySegment'
<1> USE DEF UrlInv
<1>1. ReadOut(read', PathOf(url), AllDecoded(QueryOf(url), " ")) /\ urlAt = "sent"
  BY ReceiveReads
<1>2. provider' = provider /\ body' = body /\ base' = base /\ tenant' = tenant /\ ref' = ref
  BY ReceiveReads
<1>3. PICK h : h = NormaliseBaseUrl(base)
  OBVIOUS
<1>4. h \in Str /\ IsAddress(h)
  BY <1>3, NormalisedIsAddress
<1>5. /\ provider = "vault" => Segment(ref.first) /\ Segments(ref.second)
      /\ provider = "conjur" =>
           /\ Segments(ref.id)
           /\ \A n \in DOMAIN Split(ref.id, "/") : Split(ref.id, "/")[n] # << >>
      /\ provider = "ccp" => ref.first \in Seq(Character) /\ ref.second \in Seq(Character)
  BY <1>1, ParsedIs
<1>6. Segment(tenant)
  BY TextAssumption DEF Segment
<1>7. ASSUME NEW w, Means(PathOf(url), w), PathOf(url) # << >>
      PROVE  read'.path = w /\ read'.query = AllDecoded(QueryOf(url), " ")
  <2>1. PICK p, q, r : p = PathOf(url) /\ q = AllDecoded(QueryOf(url), " ") /\ r = read'
    OBVIOUS
  <2>2. r.path = w /\ r.query = q
    <3>1. Means(p, w) /\ p # << >> /\ ReadOut(r, p, q)
      BY <1>1, <1>7, <2>1
    <3> QED
      BY ONLY <3>1, MeaningRead, Zenon
  <2> QED
    BY <2>1, <2>2
<1>8. CASE provider = "vault"
  <2>1. PICK a, b, t, s : a = <<"v1">> /\ b = <<"data">> /\ t = ref.first /\ s = ref.second
    OBVIOUS
  <2>2. PICK w : w = Split(h, "/") \o (<<a, t, b>> \o Split(s, "/"))
    OBVIOUS
  <2>3. Word(a) /\ Word(b) /\ Segment(t) /\ Segments(s)
    BY <1>5, <1>8, <2>1, Words
  <2>4. url = Joined(<<h, a, PercentEncode(t), b, PercentEncodePath(s)>>)
    BY <1>1, <1>3, <1>8, <2>1 DEF DataUrl
  <2>5. AllDecoded(QueryOf(url), " ") = << >> /\ Means(PathOf(url), w) /\ PathOf(url) # << >>
    BY <1>4, <2>2, <2>3, <2>4, PathUrl DEF Segment
  <2>6. read'.path = w /\ read'.query = << >>
    BY <1>7, <2>5
  <2>7. ReadAsMeant'
    BY <1>2, <1>3, <1>8, <2>1, <2>2, <2>6 DEF ReadAsMeant, Under
  <2>8. NoEmptySegment'
    <3>1. ASSUME NEW n \in DOMAIN w, w[n] = << >> PROVE n >= Len(Split(h, "/")) + 4
      BY <1>4, <2>2, <2>3, <3>1, PathIsRead
    <3>2. Split(h, "/") \o << >> = Split(h, "/")
      <4>1. Split(h, "/") \in Seq(Str)
        BY <1>4, SplitIsParts DEF Parts
      <4> QED
        BY <4>1
    <3>3. Under(<< >>)' = Split(h, "/")
      BY <1>2, <1>3, <3>2 DEF Under
    <3> QED
      BY <1>2, <1>8, <2>6, <3>1, <3>3 DEF NoEmptySegment
  <2> QED
    BY <2>7, <2>8
<1>9. CASE provider = "conjur"
  <2>1. PICK a, b, t, s : a = <<"secrets">> /\ b = <<"variable">> /\ t = tenant /\ s = ref.id
    OBVIOUS
  <2>2. PICK w : w = Split(h, "/") \o (<<a, t, b>> \o Split(s, "/"))
    OBVIOUS
  <2>3. /\ Word(a) /\ Word(b) /\ Segment(t) /\ Segments(s)
        /\ \A k \in DOMAIN Split(s, "/") : Split(s, "/")[k] # << >>
    BY <1>5, <1>6, <1>9, <2>1, Words
  <2>4. url = Joined(<<h, a, PercentEncode(t), b, PercentEncodePath(s)>>)
    BY <1>1, <1>3, <1>9, <2>1 DEF SecretUrl
  <2>5. AllDecoded(QueryOf(url), " ") = << >> /\ Means(PathOf(url), w) /\ PathOf(url) # << >>
    BY <1>4, <2>2, <2>3, <2>4, PathUrl DEF Segment
  <2>6. read'.path = w /\ read'.query = << >>
    BY <1>7, <2>5
  <2>7. ReadAsMeant'
    BY <1>2, <1>3, <1>9, <2>1, <2>2, <2>6 DEF ReadAsMeant, Under
  <2>8. NoEmptySegment'
    <3>1. ASSUME NEW n \in DOMAIN w, w[n] = << >> PROVE FALSE
      BY <1>4, <2>2, <2>3, <3>1, PathIsRead
    <3> QED
      BY <2>6, <3>1 DEF NoEmptySegment
  <2> QED
    BY <2>7, <2>8
<1>10. CASE provider = "ccp"
  <2>1. PICK t, f, s : t = tenant /\ f = ref.first /\ s = ref.second
    OBVIOUS
  <2>2. PICK w : w = Split(h, "/") \o <<<<"Accounts">>>>
    OBVIOUS
  <2>3. t \in Seq(Character) /\ f \in Seq(Character) /\ s \in Seq(Character)
    BY <1>5, <1>6, <1>10, <2>1 DEF Segment
  <2>4. url = Joined(<<h, <<"Accounts", "?", "AppID", "=">> \o PercentEncode(t)
                            \o <<"&", "Safe", "=">> \o PercentEncode(f)
                            \o <<"&", "Object", "=">> \o PercentEncode(s)>>)
    BY <1>1, <1>3, <1>10, <2>1 DEF RequestUrl
  <2>5. /\ AllDecoded(QueryOf(url), " ")
             = <<<<"AppID", "=">> \o t, <<"Safe", "=">> \o f, <<"Object", "=">> \o s>>
        /\ Means(PathOf(url), w) /\ PathOf(url) # << >>
    <3>1. RequestReadAs(url, h, t, f, s)
      BY <1>4, <2>3, <2>4, RequestRead
    <3> QED
      BY <2>2, <3>1 DEF RequestReadAs
  <2>6. read'.path = w /\ read'.query = AllDecoded(QueryOf(url), " ")
    BY <1>7, <2>5
  <2>7. ReadAsMeant'
    BY <1>2, <1>3, <1>10, <2>1, <2>2, <2>5, <2>6 DEF ReadAsMeant, Under
  <2>8. NoEmptySegment'
    <3>1. ASSUME NEW n \in DOMAIN w, w[n] = << >> PROVE FALSE
      <4>1. PICK m, s0 : m = <<<<"Accounts">>>> /\ s0 = << >>
        OBVIOUS
      <4>2. m \in Seq(Str) /\ Len(m) = 1 /\ m[1] # << >> /\ s0 \in Seq(Str) /\ m \o s0 = m
        BY <4>1, Words
      <4>3. \A k \in 1 .. Len(m) : m[k] # << >>
        BY <4>2
      <4>4. w = Split(h, "/") \o (m \o s0)
        BY <2>2, <4>1, <4>2
      <4>5. \E k \in DOMAIN s0 : s0[k] = << >>
        <5>1. EmptyBehind(w, h, m, s0)
          BY <1>4, <4>2, <4>3, <4>4, EmptySegments
        <5> QED
          BY <3>1, <5>1 DEF EmptyBehind
      <4> QED
        BY <4>1, <4>5
    <3> QED
      BY <2>6, <3>1 DEF NoEmptySegment
  <2> QED
    BY <2>7, <2>8
<1> QED
  BY <1>8, <1>9, <1>10

LEMMA UrlInvStart ==
    ASSUME UrlInit
    PROVE  UrlInv
  BY DEF UrlInit, UrlInv

LEMMA UrlInvStep ==
    ASSUME UrlInv, [UrlNext]_urls
    PROVE  UrlInv'
<1>1. CASE UNCHANGED urls
  BY <1>1 DEF UrlInv, urls, Refs, VaultRefs, ConjurRefs, CcpRefs, DataUrl, SecretUrl, RequestUrl,
              ReadAsMeant, NoEmptySegment, Under
<1>2. CASE Parse
  <2>1. provider' = provider /\ body' = body /\ Refs' = Refs
    BY <1>2 DEF Parse, Refs, VaultRefs, ConjurRefs, CcpRefs
  <2>2. ref' \in Refs'
    BY <1>2, <2>1 DEF Parse
  <2> QED
    BY <1>2, <2>2 DEF Parse, UrlInv
<1>3. CASE Refuse
  BY <1>3 DEF Refuse, UrlInv
<1>4. CASE Address
  <2>1. /\ urlAt = "parsed" /\ urlAt' = "sent"
        /\ provider' = provider /\ body' = body /\ base' = base /\ tenant' = tenant /\ ref' = ref
    BY <1>4 DEF Address
  <2>2. ref' \in Refs'
    BY <2>1 DEF UrlInv, Refs, VaultRefs, ConjurRefs, CcpRefs
  <2>3. /\ provider = "vault" => url' = Joined(DataUrl)
        /\ provider = "conjur" => url' = Joined(SecretUrl)
        /\ provider = "ccp" => url' = Joined(RequestUrl)
    BY <1>4 DEF Address
  <2>4. DataUrl' = DataUrl /\ SecretUrl' = SecretUrl /\ RequestUrl' = RequestUrl
    BY <2>1 DEF DataUrl, SecretUrl, RequestUrl
  <2> QED
    BY <2>1, <2>2, <2>3, <2>4 DEF UrlInv
<1>5. CASE Receive
  <2>1. /\ urlAt = "sent" /\ urlAt' = "read"
        /\ provider' = provider /\ body' = body /\ base' = base /\ tenant' = tenant /\ ref' = ref
    BY <1>5, ReceiveReads
  <2>2. ref' \in Refs'
    BY <2>1 DEF UrlInv, Refs, VaultRefs, ConjurRefs, CcpRefs
  <2>3. ReadAsMeant' /\ NoEmptySegment'
    BY <1>5, ReceiveIsMeant
  <2> QED
    BY <2>1, <2>2, <2>3 DEF UrlInv
<1> QED
  BY <1>1, <1>2, <1>3, <1>4, <1>5 DEF UrlNext

LEMMA UrlInvShows ==
    ASSUME UrlInv
    PROVE  ReachesWhatItNames
<1>1. urlAt \in {"parsed", "sent", "read"} => LocatorIsTheText
  BY ParsedIs DEF UrlInv
<1> QED
  BY <1>1 DEF UrlInv, ReachesWhatItNames

(* Whatever reference.rs parses is addressed so that the server, and what  *)
(* stands in front of it and may drop dot segments before or after it      *)
(* decodes, reads the very secret that the text names; and what is printed *)
(* of a reference is that text (reference.rs parse and locator; http.rs    *)
(* percent_encode, percent_encode_path, normalise_base_url).               *)
THEOREM UrlReaches == UrlSpec => []ReachesWhatItNames
<1>1. UrlInit => UrlInv
  BY UrlInvStart
<1>2. UrlInv /\ [UrlNext]_urls => UrlInv'
  BY UrlInvStep
<1>3. UrlInv => ReachesWhatItNames
  BY UrlInvShows
<1> QED
  BY <1>1, <1>2, <1>3, PTL DEF UrlSpec
=============================================================================
