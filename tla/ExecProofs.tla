----------------------------- MODULE ExecProofs -----------------------------
(***************************************************************************)
(* First the proofs about Resolver, for every set of references, hosts,    *)
(* kids, keys and descriptors. Then what `sealref exec` does and what its  *)
(* command is given, for every environment, env file and template, and any *)
(* number of attempts: what is kept private and when files are written;    *)
(* that the templates are rendered when the command starts, that only the  *)
(* providers that are needed are set up, and that Exec implements          *)
(* FailClosed.                                                             *)
(***************************************************************************)
EXTENDS Exec, FiniteSetTheorems, TLAPS

(* For GreatestNatural. References and Texts both have an Absent.          *)
Sets == INSTANCE TextProofs

-----------------------------------------------------------------------------
(* detect_source names the first source present.                           *)
LEMMA FirstSource ==
    ASSUME NEW h \in Host, h.present # {}
    PROVE  \E i \in DOMAIN Order : /\ DetectSource(h) = Order[i]
                                   /\ Order[i] \in h.present
                                   /\ \A j \in 1..(i-1) : Order[j] \notin h.present
<1> DEFINE First(i) == /\ Order[i] \in h.present
                       /\ \A j \in 1..(i-1) : Order[j] \notin h.present
<1>0. DOMAIN Order = 1..4 /\ Order[1] = "fd" /\ Order[2] = "file"
        /\ Order[3] = "default" /\ Order[4] = "inline"
  BY DEF Order
<1>1. \E i \in 1..4 : First(i)
  <2>1. h.present \subseteq Source
    BY DEF Host
  <2>2. "fd" \in h.present \/ "file" \in h.present \/ "default" \in h.present \/ "inline" \in h.present
    BY <2>1 DEF Source
  <2>3. CASE "fd" \in h.present
    BY <2>3, <1>0
  <2>4. CASE "fd" \notin h.present /\ "file" \in h.present
    <3>1. First(2) BY <2>4, <1>0
    <3> QED BY <3>1
  <2>5. CASE "fd" \notin h.present /\ "file" \notin h.present /\ "default" \in h.present
    <3>1. First(3) BY <2>5, <1>0
    <3> QED BY <3>1
  <2>6. CASE "fd" \notin h.present /\ "file" \notin h.present /\ "default" \notin h.present
    <3>1. First(4) BY <2>2, <2>6, <1>0
    <3> QED BY <3>1
  <2> QED BY <2>3, <2>4, <2>5, <2>6
<1>2. PICK k \in DOMAIN Order : First(k) /\ k = CHOOSE i \in DOMAIN Order : First(i)
  BY <1>0, <1>1
<1>3. DetectSource(h) = Order[k]
  BY <1>2 DEF DetectSource
<1> QED BY <1>2, <1>3

(* What each step has to keep, for the leaves below.                       *)
USE DEF AnswersAreGenuine, ConjurNeverEmpty, OutrankedNeverUsed, OneLogin, KeyFdAccountedFor,
        TokenKept, KeyringHasSource, StageConsistent, Pending, Failed

(* The invariant holds of a fresh process.                                 *)
LEMMA ResolverInitInv == ASSUME ResolverInit PROVE ResolverInv
<1> USE DEF ResolverInit
<1>1. ResolverTypeOK
  <2>1. host \in Host
    BY HostAssumption
  <2>2. fds \in [Fd -> {"free", "keyring"} \cup Remote]
    BY DEF InitialFds
  <2> QED BY <2>2 DEF ResolverTypeOK, Answer
<1>2. KeyFdAccountedFor
  BY DEF InitialFds
<1> QED BY <1>1, <1>2 DEF ResolverInv

(* Asking changes nothing the invariant speaks of, but starts a resolve.   *)
LEMMA AskInv == ASSUME ResolverInv, NEW r \in Ref, Ask(r) PROVE ResolverInv'
BY DEF Ask, ResolverInv, ResolverTypeOK, Answer

(* Taking the descriptor keeps the account of it.                          *)
LEMMA TakeKeyFdInv ==
    ASSUME ResolverInv, TakeKeyFd, host' = host
    PROVE  /\ taken' = TRUE
           /\ fds' \in [Fd -> {"free", "keyring"} \cup Remote]
           /\ KeyFdAccountedFor'
BY FdAssumption DEF TakeKeyFd, ResolverInv, ResolverTypeOK, KeyFdGiven

LEMMA CloseKeyFdInv == ASSUME ResolverInv, CloseKeyFd PROVE ResolverInv'
<1> USE DEF CloseKeyFd
<1>1. CASE TakeKeyFd
  BY <1>1, TakeKeyFdInv, ZenonT(60) DEF ResolverInv, ResolverTypeOK
<1>2. CASE UNCHANGED <<taken, fds>>
  BY <1>2 DEF ResolverInv, ResolverTypeOK, KeyFdGiven
<1> QED BY <1>1, <1>2

LEMMA LoadKeyringInv == ASSUME ResolverInv, LoadKeyring PROVE ResolverInv'
<1>1. /\ UNCHANGED <<host, token, agent, ref, logins>>
      /\ stage = "provider" /\ answer = Pending /\ ref \in Ref
  BY DEF LoadKeyring, ResolverInv
<1>2. /\ taken' \in BOOLEAN
      /\ fds' \in [Fd -> {"free", "keyring"} \cup Remote]
      /\ KeyFdAccountedFor'
  <2>1. CASE TakeKeyFd
    BY <1>1, <2>1, TakeKeyFdInv
  <2>2. CASE UNCHANGED <<taken, fds>>
    BY <1>1, <2>2 DEF ResolverInv, ResolverTypeOK, KeyFdGiven
  <2> QED BY <2>1, <2>2 DEF LoadKeyring
<1>3. \/ /\ cached' = cached \cup {"keyring"} /\ host.present # {}
         /\ UNCHANGED <<stage, answer>>
      \/ UNCHANGED cached /\ Return(Failed)
  BY DEF LoadKeyring
<1>4. ResolverTypeOK'
  BY <1>1, <1>2, <1>3 DEF Return, ResolverInv, ResolverTypeOK, Answer
<1> QED BY <1>1, <1>2, <1>3, <1>4 DEF Return, ResolverInv

LEMMA LoadConfigInv == ASSUME ResolverInv, LoadConfig PROVE ResolverInv'
<1>1. /\ UNCHANGED <<host, token, agent, taken, fds, ref, logins>>
      /\ stage = "provider" /\ answer = Pending /\ ref \in Ref
  BY DEF LoadConfig, ResolverInv
<1>2. \/ /\ \E p \in Remote : cached' = cached \cup {p}
         /\ UNCHANGED <<stage, answer>>
      \/ UNCHANGED cached /\ Return(Failed)
  BY DEF LoadConfig
<1>3. ResolverTypeOK'
  BY <1>1, <1>2 DEF Return, ResolverInv, ResolverTypeOK, Answer
<1>4. KeyFdAccountedFor' /\ KeyringHasSource'
  BY <1>1, <1>2 DEF ResolverInv, KeyFdGiven, Remote
<1> QED BY <1>1, <1>2, <1>3, <1>4 DEF Return, ResolverInv

LEMMA UseGivenTokenInv == ASSUME ResolverInv, UseGivenToken PROVE ResolverInv'
BY DEF UseGivenToken, Configured, NeedsToken, ResolverInv, ResolverTypeOK, KeyFdGiven

(* A socket never gets the number the keyring still has.                   *)
LEMMA ConnectedInv ==
    ASSUME ResolverInv, NEW p \in Remote
    PROVE  /\ Connected(p) \in [Fd -> {"free", "keyring"} \cup Remote]
           /\ \A f \in Fd : Connected(p)[f] = "keyring" <=> fds[f] = "keyring"
BY DEF Connected, ResolverInv, ResolverTypeOK, Remote

(* Nor does closing a connection close anything else.                      *)
LEMMA DisconnectedInv ==
    ASSUME ResolverInv, NEW p \in Remote
    PROVE  /\ Disconnected(p) \in [Fd -> {"free", "keyring"} \cup Remote]
           /\ \A f \in Fd : Disconnected(p)[f] = "keyring" <=> fds[f] = "keyring"
BY DEF Disconnected, ResolverInv, ResolverTypeOK, Remote

LEMMA SendInv == ASSUME ResolverInv, Send PROVE ResolverInv'
<1>1. /\ UNCHANGED <<host, cached, token, taken, ref, logins>>
      /\ stage = "provider" /\ answer = Pending /\ ref \in Ref /\ ref.provider \in Remote
  BY DEF Send, Configured, ResolverInv
<1>2. agent' \in {"unbuilt", "ready", "broken"}
  BY DEF Send, BuiltAgent, ResolverInv, ResolverTypeOK
<1>3. CASE /\ fds' = Connected(ref.provider)
           /\ stage' = Request
           /\ UNCHANGED answer
  <2>1. KeyFdAccountedFor' /\ fds' \in [Fd -> {"free", "keyring"} \cup Remote]
    BY <1>1, <1>3, ConnectedInv DEF ResolverInv, KeyFdGiven
  <2>2. stage' \in {"login", "read"} /\ TokenKept'
    BY <1>1, <1>3 DEF Request, NeedsToken, ResolverInv
  <2>3. ResolverTypeOK'
    BY <1>1, <1>2, <1>3, <2>1, <2>2 DEF ResolverInv, ResolverTypeOK
  <2> QED BY <1>1, <1>3, <2>1, <2>2, <2>3 DEF ResolverInv
<1>4. CASE Return(Failed) /\ UNCHANGED fds
  <2>1. ResolverTypeOK'
    BY <1>1, <1>2, <1>4 DEF Return, ResolverInv, ResolverTypeOK, Answer
  <2> QED BY <1>1, <1>4, <2>1 DEF Return, ResolverInv, KeyFdGiven
<1> QED BY <1>3, <1>4 DEF Send

LEMMA OpenSealedInv == ASSUME ResolverInv, OpenSealed PROVE ResolverInv'
BY FirstSource, HostAssumption, RefAssumption
   DEF OpenSealed, Return, ResolverInv, ResolverTypeOK, Answer, Remote, Secret, Answered,
       Genuine, Text, Reference, V1Ref, RemoteRef

(* The connection settles without touching the keyring's descriptor.       *)
LEMMA SettleInv ==
    ASSUME ResolverInv, Settle, UNCHANGED <<host, taken>>, ref.provider \in Remote
    PROVE  fds' \in [Fd -> {"free", "keyring"} \cup Remote] /\ KeyFdAccountedFor'
<1>1. CASE fds' = fds
  BY <1>1 DEF ResolverInv, ResolverTypeOK, KeyFdGiven
<1>2. CASE fds' = Disconnected(ref.provider)
  BY <1>2, DisconnectedInv DEF ResolverInv, KeyFdGiven
<1> QED BY <1>1, <1>2 DEF Settle

LEMMA NoAnswerInv == ASSUME ResolverInv, NoAnswer PROVE ResolverInv'
<1>1. fds' \in [Fd -> {"free", "keyring"} \cup Remote] /\ KeyFdAccountedFor'
  BY SettleInv DEF NoAnswer, ResolverInv
<1> QED BY <1>1 DEF NoAnswer, Return, ResolverInv, ResolverTypeOK, Answer

LEMMA LoginAnsweredInv == ASSUME ResolverInv, NEW r \in Response, LoginAnswered(r) PROVE ResolverInv'
<1>1. /\ UNCHANGED <<host, cached, agent, taken, ref>>
      /\ stage = "login" /\ answer = Pending /\ ref \in Ref /\ ref.provider \in Remote
      /\ ~token /\ logins = 0
  BY DEF LoginAnswered, ResolverInv
<1>2. fds' \in [Fd -> {"free", "keyring"} \cup Remote] /\ KeyFdAccountedFor'
  BY <1>1, SettleInv DEF LoginAnswered
<1>3. \/ token' = TRUE /\ logins' = 1 /\ stage' = "provider" /\ UNCHANGED answer
      \/ Return(Failed) /\ UNCHANGED <<token, logins>>
  BY <1>1 DEF LoginAnswered
<1>4. /\ token' \in BOOLEAN /\ logins' \in Nat
      /\ stage' \in {"idle", "provider"} /\ answer' \in {Pending, Failed}
  <2>1. CASE token' = TRUE /\ logins' = 1 /\ stage' = "provider" /\ UNCHANGED answer
    BY <1>1, <2>1
  <2>2. CASE Return(Failed) /\ UNCHANGED <<token, logins>>
    <3>1. token \in BOOLEAN /\ logins \in Nat
      BY DEF ResolverInv, ResolverTypeOK
    <3> QED BY <2>2, <3>1 DEF Return
  <2> QED BY <1>3, <2>1, <2>2
<1>5. ResolverTypeOK'
  BY <1>1, <1>2, <1>4 DEF ResolverInv, ResolverTypeOK, Answer
<1> QED BY <1>1, <1>2, <1>3, <1>5 DEF Return, ResolverInv

LEMMA ReadAnsweredInv == ASSUME ResolverInv, NEW r \in Response, ReadAnswered(r) PROVE ResolverInv'
<1>1. fds' \in [Fd -> {"free", "keyring"} \cup Remote] /\ KeyFdAccountedFor'
  BY SettleInv DEF ReadAnswered, ResolverInv
<1>2. \/ /\ answer' = Secret(ref, TextOf(r)) /\ TextOf(r) \in Genuine
         /\ ref.provider = "conjur" => TextOf(r) # "empty"
      \/ answer' = Failed
  BY DEF ReadAnswered, Return, Reads, Extracts, Bare, TextOf, Genuine, Response
<1> QED BY <1>1, <1>2 DEF ReadAnswered, Return, ResolverInv, ResolverTypeOK, Answer,
          Secret, Answered, Genuine, Text, Remote

(* Every step of resolve() keeps the invariant, whoever calls it.          *)
LEMMA ResolveStepInv == ASSUME ResolverInv, OwnStep \/ ServerStep PROVE ResolverInv'
BY LoadKeyringInv, OpenSealedInv, LoadConfigInv, UseGivenTokenInv, SendInv, NoAnswerInv,
   LoginAnsweredInv, ReadAnsweredInv DEF OwnStep, ServerStep

LEMMA ResolverStutterInv == ASSUME ResolverInv, UNCHANGED resolverVars PROVE ResolverInv'
BY DEF resolverVars, ResolverInv, ResolverTypeOK, KeyFdGiven

(* The invariant holds for every program that links the library.           *)
THEOREM ResolverInvariant == ResolverSpec => []ResolverInv
<1>1. ResolverInit => ResolverInv
  BY ResolverInitInv
<1>2. ResolverInv /\ [ResolverNext]_resolverVars => ResolverInv'
  BY AskInv, ResolveStepInv, CloseKeyFdInv, ResolverStutterInv DEF ResolverNext
<1> QED BY <1>1, <1>2, PTL DEF ResolverSpec

(* Type correctness.                                                       *)
THEOREM ResolverTypeCorrect == ResolverSpec => []ResolverTypeOK
BY ResolverInvariant, PTL DEF ResolverInv

(* What resolve() returns is what is stored for the reference it was asked *)
(* (http.rs read_text).                                                    *)
THEOREM ResolverGenuine == ResolverSpec => []AnswersAreGenuine
BY ResolverInvariant, PTL DEF ResolverInv

(* No v1 reference is opened with a keyring another source outranks        *)
(* (keyring.rs load).                                                      *)
THEOREM ResolverPrecedence == ResolverSpec => []OutrankedNeverUsed
BY ResolverInvariant, PTL DEF ResolverInv

(* An empty Conjur variable is never returned (conjur.rs read_variable).   *)
THEOREM ResolverConjur == ResolverSpec => []ConjurNeverEmpty
BY ResolverInvariant, PTL DEF ResolverInv

(* At most one Conjur token per process (conjur.rs access_token).          *)
THEOREM ResolverLogin == ResolverSpec => []OneLogin
BY ResolverInvariant, PTL DEF ResolverInv

(* The descriptor of the keyring is open exactly until it is taken         *)
(* (keyring.rs read_fd, close_key_fd).                                     *)
THEOREM ResolverKeyFd == ResolverSpec => []KeyFdAccountedFor
BY ResolverInvariant, PTL DEF ResolverInv

(* No step outside an exchange closes a socket; the keyring's descriptor   *)
(* is not closed a second time (keyring.rs KEY_FD_TAKEN).                  *)
THEOREM ResolverSockets == ResolverSpec => SocketsUndisturbed
<1> DEFINE Kept == (stage \in {"idle", "provider"}) =>
                      \A f \in Fd : fds[f] \in Remote => fds'[f] = fds[f]
<1>1. ASSUME ResolverInv, [ResolverNext]_resolverVars
      PROVE  [Kept]_resolverVars
  <2>1. ASSUME TakeKeyFd, KeyFdGiven(host), ~taken PROVE Kept
    BY <1>1, <2>1, FdAssumption DEF TakeKeyFd, ResolverInv, ResolverTypeOK, Remote
  <2>2. ASSUME NEW p \in Remote, fds' = Connected(p) PROVE Kept
    BY <1>1, <2>2 DEF Connected, ResolverInv, ResolverTypeOK, Remote
  <2>3. CASE UNCHANGED resolverVars
    BY <2>3
  <2>4. ASSUME NEW r \in Ref, Ask(r) PROVE Kept
    BY <2>4 DEF Ask
  <2>5. CASE CloseKeyFd
    BY <2>1, <2>5 DEF CloseKeyFd
  <2>6. CASE LoadKeyring
    <3>1. CASE /\ TakeKeyFd /\ host.present # {} /\ DetectSource(host) = "fd"
               /\ host.number /\ ~taken
      <4>1. "fd" \in host.present
        BY <1>1, <3>1, FirstSource, HostAssumption DEF ResolverInv, ResolverTypeOK
      <4> QED BY <2>1, <3>1, <4>1 DEF KeyFdGiven
    <3>2. CASE UNCHANGED fds
      BY <3>2
    <3> QED BY <2>6, <3>1, <3>2 DEF LoadKeyring
  <2>7. CASE Send
    BY <2>2, <2>7 DEF Send, Configured
  <2>8. CASE OpenSealed \/ LoadConfig \/ UseGivenToken
    BY <2>8 DEF OpenSealed, LoadConfig, UseGivenToken
  <2>9. CASE NoAnswer \/ ServerStep
    BY <2>9 DEF NoAnswer, ServerStep, LoginAnswered, ReadAnswered
  <2> QED BY <1>1, <2>3, <2>4, <2>5, <2>6, <2>7, <2>8, <2>9 DEF ResolverNext, OwnStep
<1>2. ResolverSpec => [][ResolverNext]_resolverVars
  BY PTL DEF ResolverSpec
<1> QED BY <1>1, <1>2, ResolverInvariant, PTL DEF SocketsUndisturbed

-----------------------------------------------------------------------------
(* What the assumption on the invocations says of each part of one.        *)
LEMMA RunParts ==
    ASSUME NEW r \in Runs
    PROVE  /\ r.inherited \in [Name -> Entry(Ref)]
           /\ r.envFiles \in Seq(EnvFile)
           /\ r.templates \in Seq(Template)
           /\ r.found \in [Path -> File]
<1>1. r \in Run
  BY RunAssumption
<1> QED BY <1>1 DEF Run, Found

LEMMA TemplateParts ==
    ASSUME NEW r \in Runs, NEW t \in DOMAIN r.templates
    PROVE  /\ r.templates[t].slots \in Seq(Placeholder)
           /\ Len(r.templates[t].slots) \in Nat
           /\ r.templates[t].dst \in Path
<1>1. r.templates[t] \in Template
  BY RunParts
<1> QED BY <1>1 DEF Template

LEMMA EntryParts ==
    ASSUME NEW r \in Runs, NEW i \in DOMAIN r.envFiles, NEW j \in DOMAIN r.envFiles[i].entries
    PROVE  /\ r.envFiles[i].entries[j].name \in Name
           /\ r.envFiles[i].entries[j].value \in Entry(Ref)
<1>1. r.envFiles[i] \in EnvFile
  BY RunParts
<1>2. r.envFiles[i].entries[j] \in EnvEntry
  BY <1>1 DEF EnvFile
<1>3. /\ r.envFiles[i].entries[j].name \in Name
      /\ r.envFiles[i].entries[j].value \in Placeholder \cup {Plain}
  BY <1>2 DEF EnvEntry
<1>4. Placeholder \cup {Plain} \subseteq Entry(Ref)
  BY DEF Entry, Placeholder
<1> QED BY <1>3, <1>4

(* An answer is never taken for a reference.                               *)
LEMMA AnswerIsNoReference ==
    ASSUME NEW a \in Answered(Ref) PROVE ~IsReference(a)
BY DEF Answered, IsReference

-----------------------------------------------------------------------------
(* Steps that leave the resolver alone.                                    *)

LEMMA ExecInitInv == ASSUME Init PROVE ExecInv
<1>1. ResolverInv
  BY ResolverInitInv DEF Init
<1>2. /\ run \in Runs /\ env = run.inherited /\ file = run.found /\ phase = "collect"
      /\ at = 1 /\ sub = 1 /\ attempt = 1 /\ out = NothingRendered(run)
  BY DEF Init
<1>3. ExecTypeOK
  BY <1>2, RunParts, AttemptsAssumption DEF ExecTypeOK, Working, NothingRendered
<1>4. ResolvedBehind /\ RenderedBehind /\ KeyringOutOfReach
  BY <1>2 DEF ResolvedBehind, RenderedBehind, KeyringOutOfReach, Writing, NothingRendered
<1>5. ModeBeforeText
  <2>1. \A p \in Path : file[p].data \in {"none", "old"}
    BY <1>2, RunAssumption DEF Run, Found
  <2> QED BY <1>2, <2>1 DEF ModeBeforeText, PrivateBeforeSecret
<1> QED BY <1>1, <1>3, <1>4, <1>5 DEF ExecInv

(* Every way to fail leaves all else as it was.                            *)
LEMMA FailInv ==
    ASSUME ExecInv, Fail, UNCHANGED <<resolverVars, run, at, sub, env, out, file, attempt>>
    PROVE  ExecInv'
<1>1. ResolverInv'
  BY ResolverStutterInv DEF ExecInv
<1>2. ExecTypeOK'
  BY DEF ExecInv, ExecTypeOK, Fail, Over
<1>3. ResolvedBehind' /\ RenderedBehind' /\ KeyringOutOfReach'
  BY DEF Fail, ResolvedBehind, RenderedBehind, KeyringOutOfReach, Writing
<1>4. ModeBeforeText'
  BY DEF ExecInv, Fail, ModeBeforeText, PrivateBeforeSecret
<1> QED BY <1>1, <1>2, <1>3, <1>4 DEF ExecInv

LEMMA CollectInv == ASSUME ExecInv, Collect PROVE ExecInv'
<1>1. CASE Fail /\ UNCHANGED <<at, sub>>
  BY <1>1, FailInv DEF Collect
<1>2. CASE Goto("layer")
  <2> USE <1>2 DEF Goto
  <2>1. UNCHANGED <<resolverVars, run, env, out, file, attempt>> /\ phase = "collect"
    BY DEF Collect
  <2>2. ResolverInv'
    BY <2>1, ResolverStutterInv DEF ExecInv
  <2>3. ExecTypeOK'
    BY <2>1 DEF ExecInv, ExecTypeOK, Working
  <2>4. ResolvedBehind' /\ KeyringOutOfReach' /\ ModeBeforeText'
    BY <2>1 DEF ExecInv, ResolvedBehind, KeyringOutOfReach, ModeBeforeText, PrivateBeforeSecret, Writing
  <2>5. RenderedBehind'
    BY <2>1 DEF ExecInv, RenderedBehind, Writing
  <2> QED BY <2>2, <2>3, <2>4, <2>5 DEF ExecInv
<1> QED BY <1>1, <1>2 DEF Collect

LEMMA LayerEntryInv == ASSUME ExecInv, LayerEntry PROVE ExecInv'
<1>1. /\ UNCHANGED <<resolverVars, run, phase, out, file, attempt>>
      /\ phase = "layer" /\ at <= Len(run.envFiles) /\ run \in Runs /\ at \in Nat \ {0}
      /\ sub \in Nat \ {0}
  BY DEF LayerEntry, ExecInv, ExecTypeOK
<1>2. at \in DOMAIN run.envFiles
  BY <1>1, RunParts
<1>3. run.envFiles[at].entries \in Seq(EnvEntry)
  <2>1. run.envFiles[at] \in EnvFile
    BY <1>1, <1>2, RunParts
  <2> QED BY <2>1 DEF EnvFile
<1>4. /\ env' \in [Name -> Entry(Ref) \cup Answered(Ref)]
      /\ at' \in Nat \ {0} /\ sub' \in Nat \ {0}
  <2>1. CASE sub <= Len(run.envFiles[at].entries)
    <3>1. sub \in DOMAIN run.envFiles[at].entries
      BY <1>1, <1>3, <2>1
    <3> QED BY <1>1, <1>2, <2>1, <3>1, EntryParts DEF LayerEntry, ExecInv, ExecTypeOK
  <2>2. CASE ~(sub <= Len(run.envFiles[at].entries))
    BY <1>1, <2>2 DEF LayerEntry, ExecInv, ExecTypeOK
  <2> QED BY <2>1, <2>2
<1>5. ResolverInv'
  BY <1>1, ResolverStutterInv DEF ExecInv
<1>6. ExecTypeOK'
  BY <1>1, <1>4 DEF ExecInv, ExecTypeOK
<1>7. ResolvedBehind' /\ KeyringOutOfReach' /\ ModeBeforeText'
  BY <1>1 DEF ExecInv, ResolvedBehind, KeyringOutOfReach, ModeBeforeText, PrivateBeforeSecret, Writing
<1>8. RenderedBehind'
  BY <1>1 DEF ExecInv, RenderedBehind, Writing
<1> QED BY <1>5, <1>6, <1>7, <1>8 DEF ExecInv

LEMMA DropKeyVarsInv == ASSUME ExecInv, DropKeyVars PROVE ExecInv'
<1>1. /\ UNCHANGED <<resolverVars, run, out, file, attempt>>
      /\ phase = "layer" /\ phase' = "resolve" /\ at' = 1 /\ sub' = 1
  BY DEF DropKeyVars, Goto
<1>2. env' \in [Name -> Entry(Ref) \cup Answered(Ref)]
  BY DEF DropKeyVars, ExecInv, ExecTypeOK, Entry
<1>3. ResolverInv'
  BY <1>1, ResolverStutterInv DEF ExecInv
<1>4. ExecTypeOK'
  BY <1>1, <1>2 DEF ExecInv, ExecTypeOK, Working
<1>5. ResolvedBehind'
  BY <1>1 DEF ResolvedBehind, Name, Writing
<1>6. KeyringOutOfReach' /\ ModeBeforeText'
  BY <1>1 DEF ExecInv, KeyringOutOfReach, ModeBeforeText, PrivateBeforeSecret
<1>7. RenderedBehind'
  BY <1>1 DEF ExecInv, RenderedBehind, Writing
<1> QED BY <1>3, <1>4, <1>5, <1>6, <1>7 DEF ExecInv

LEMMA SkipValueInv == ASSUME ExecInv, SkipValue PROVE ExecInv'
<1>1. /\ UNCHANGED <<resolverVars, run, phase, sub, env, out, file, attempt>>
      /\ phase = "resolve" /\ at \in Nat \ {0} /\ at \in Name /\ at' = at + 1
      /\ ~IsReference(env[at])
  BY DEF SkipValue, AtVariable, ExecInv, ExecTypeOK
<1>2. ResolverInv'
  BY <1>1, ResolverStutterInv DEF ExecInv
<1>3. ExecTypeOK'
  BY <1>1 DEF ExecInv, ExecTypeOK
<1>4. ResolvedBehind'
  BY <1>1, NameAssumption DEF ExecInv, ResolvedBehind, Name, Writing
<1>5. KeyringOutOfReach' /\ ModeBeforeText'
  BY <1>1 DEF ExecInv, KeyringOutOfReach, ModeBeforeText, PrivateBeforeSecret
<1>6. RenderedBehind'
  BY <1>1 DEF ExecInv, RenderedBehind, Writing
<1> QED BY <1>2, <1>3, <1>4, <1>5, <1>6 DEF ExecInv

(* A step that Exec itself only watches.                                   *)
LEMMA WatchInv ==
    ASSUME ExecInv, ResolverInv', UNCHANGED execVars, phase \in {"resolve", "render"}
    PROVE  ExecInv'
<1>1. ExecTypeOK' /\ ResolvedBehind' /\ ModeBeforeText' /\ KeyringOutOfReach'
  BY DEF ExecInv, execVars, ExecTypeOK, ResolvedBehind, ModeBeforeText, PrivateBeforeSecret,
         KeyringOutOfReach, Dst
<1>2. RenderedBehind'
  BY DEF ExecInv, execVars, RenderedBehind, Complete
<1> QED BY <1>1, <1>2 DEF ExecInv

(* Of what a variable may hold, only a reference says it is one.           *)
LEMMA EntryReference ==
    ASSUME NEW v \in Entry(Ref), v.is = "reference"
    PROVE  v.ref \in Ref
<1>1. CASE v \in [is : {"reference"}, ref : Ref]
  BY <1>1
<1>2. CASE v \in {Absent, Plain, Malformed, NotUnicode}
  <2>1. /\ Absent.is # "reference"
        /\ Plain.is # "reference"
        /\ Malformed.is # "reference"
        /\ NotUnicode.is # "reference"
    BY DEF Absent, Plain, Malformed, NotUnicode
  <2>2. v = Absent \/ v = Plain \/ v = Malformed \/ v = NotUnicode
    BY <1>2
  <2> QED BY <2>1, <2>2
<1> QED BY <1>1, <1>2 DEF Entry

LEMMA AskValueInv == ASSUME ExecInv, AskValue PROVE ExecInv'
<1>1. /\ Current.is = "reference" /\ Ask(Current.ref) /\ UNCHANGED execVars
      /\ phase \in {"resolve", "render"} /\ run \in Runs
  BY DEF AskValue, AtVariable, AtSlot, ExecInv, ExecTypeOK
<1>2. Current.ref \in Ref
  <2>1. CASE AtVariable
    <3>1. Current \in Entry(Ref) \cup Answered(Ref)
      BY <2>1 DEF AtVariable, Current, ExecInv, ExecTypeOK
    <3>2. Current \notin Answered(Ref)
      BY <1>1 DEF Answered
    <3> QED BY <1>1, <3>1, <3>2, EntryReference
  <2>2. CASE AtSlot
    <3>1. Current \in Placeholder
      BY <1>1, <2>2, TemplateParts DEF AtSlot, Current
    <3> QED BY <1>1, <3>1 DEF Placeholder, Malformed
  <2> QED BY <2>1, <2>2 DEF AskValue
<1>3. ResolverInv'
  BY <1>1, <1>2, AskInv DEF ExecInv
<1> QED BY <1>1, <1>3, WatchInv

LEMMA ConsumeInv ==
    ASSUME ExecInv, Consume
    PROVE  ResolverInv' /\ answer \in Answered(Ref)
<1>1. answer \in Answered(Ref)
  BY DEF Consume, ExecInv, ResolverInv, ResolverTypeOK, Answer, Pending, Failed
<1>2. /\ UNCHANGED <<host, cached, token, agent, taken, fds, stage, ref, logins>>
      /\ stage = "idle" /\ answer' = Pending
  BY DEF Consume
<1>3. ResolverTypeOK' /\ KeyFdAccountedFor'
  BY <1>2 DEF ExecInv, ResolverInv, ResolverTypeOK, Answer, KeyFdAccountedFor, KeyFdGiven
<1>4. AnswersAreGenuine' /\ ConjurNeverEmpty' /\ OutrankedNeverUsed'
  BY <1>2 DEF Pending, AnswersAreGenuine, ConjurNeverEmpty, OutrankedNeverUsed
<1>5. OneLogin' /\ TokenKept' /\ KeyringHasSource' /\ StageConsistent'
  BY <1>2 DEF ExecInv, ResolverInv, OneLogin, TokenKept, KeyringHasSource, StageConsistent
<1>6. ResolverInv'
  BY <1>3, <1>4, <1>5 DEF ResolverInv
<1> QED BY <1>1, <1>6

LEMMA TakeValueInv == ASSUME ExecInv, TakeValue PROVE ExecInv'
<1>1. /\ UNCHANGED <<run, phase, sub, out, file, attempt>>
      /\ phase = "resolve" /\ at \in Nat \ {0} /\ at \in Name /\ at' = at + 1
      /\ env' = [env EXCEPT ![at] = answer]
  BY DEF TakeValue, AtVariable, ExecInv, ExecTypeOK
<1>2. ResolverInv' /\ answer \in Answered(Ref)
  BY ConsumeInv DEF TakeValue
<1>3. ExecTypeOK'
  BY <1>1, <1>2 DEF ExecInv, ExecTypeOK
<1>4. ResolvedBehind'
  <2>1. ~IsReference(answer)
    BY <1>2, AnswerIsNoReference
  <2>2. env \in [Name -> Entry(Ref) \cup Answered(Ref)]
    BY DEF ExecInv, ExecTypeOK
  <2> QED BY <1>1, <2>1, <2>2, NameAssumption DEF ExecInv, ResolvedBehind, Name, Writing
<1>5. KeyringOutOfReach' /\ ModeBeforeText'
  BY <1>1 DEF ExecInv, KeyringOutOfReach, ModeBeforeText, PrivateBeforeSecret
<1>6. RenderedBehind'
  BY <1>1 DEF ExecInv, RenderedBehind, Writing
<1> QED BY <1>2, <1>3, <1>4, <1>5, <1>6 DEF ExecInv

LEMMA TakeSlotInv == ASSUME ExecInv, TakeSlot PROVE ExecInv'
<1>1. /\ UNCHANGED <<run, phase, at, env, file, attempt>>
      /\ phase = "render" /\ at \in DOMAIN run.templates
      /\ sub \in DOMAIN run.templates[at].slots
      /\ out' = [out EXCEPT ![at] = Append(out[at], answer)] /\ sub' = sub + 1
      /\ run \in Runs /\ sub \in Nat \ {0}
      /\ out \in [DOMAIN run.templates -> Seq(Answered(Ref))]
  BY DEF TakeSlot, AtSlot, ExecInv, ExecTypeOK
<1>2. ResolverInv' /\ answer \in Answered(Ref)
  BY ConsumeInv DEF TakeSlot
<1>3. /\ out[at] \in Seq(Answered(Ref))
      /\ Append(out[at], answer) \in Seq(Answered(Ref))
      /\ Len(Append(out[at], answer)) = Len(out[at]) + 1
  BY <1>1, <1>2
<1>4. ExecTypeOK'
  BY <1>1, <1>3 DEF ExecInv, ExecTypeOK
<1>5. ResolvedBehind' /\ KeyringOutOfReach' /\ ModeBeforeText'
  BY <1>1 DEF ExecInv, ResolvedBehind, KeyringOutOfReach, ModeBeforeText, PrivateBeforeSecret, Writing
<1>6. RenderedBehind'
  <2>1. /\ Len(run.templates[at].slots) \in Nat /\ sub <= Len(run.templates[at].slots)
        /\ Len(out[at]) = sub - 1
    BY <1>1, TemplateParts DEF ExecInv, RenderedBehind
  <2>2. DOMAIN run.templates = 1..Len(run.templates)
    BY <1>1, RunParts
  <2>3. ASSUME NEW t \in DOMAIN run.templates, t # at PROVE out'[t] = out[t]
    BY <1>1, <2>3
  <2>4. out'[at] = Append(out[at], answer)
    BY <1>1
  <2> QED BY <1>1, <1>3, <2>1, <2>2, <2>3, <2>4 DEF ExecInv, RenderedBehind, Complete, Writing
<1> QED BY <1>2, <1>4, <1>5, <1>6 DEF ExecInv

LEMMA EnvResolvedInv == ASSUME ExecInv, EnvResolved PROVE ExecInv'
<1>1. /\ UNCHANGED <<resolverVars, run, env, out, file, attempt>>
      /\ phase = "resolve" /\ at > N /\ at \in Nat
      /\ phase' = "render" /\ at' = 1 /\ sub' = 1 /\ run \in Runs
  BY DEF EnvResolved, Goto, ExecInv, ExecTypeOK
<1>2. ResolverInv'
  BY <1>1, ResolverStutterInv DEF ExecInv
<1>3. ExecTypeOK'
  BY <1>1 DEF ExecInv, ExecTypeOK, Working
<1>4. ResolvedBehind'
  BY <1>1, NameAssumption DEF ExecInv, ResolvedBehind, Name, Writing
<1>5. KeyringOutOfReach' /\ ModeBeforeText'
  BY <1>1 DEF ExecInv, KeyringOutOfReach, ModeBeforeText, PrivateBeforeSecret
<1>6. RenderedBehind'
  <2>1. ASSUME NEW t \in DOMAIN run.templates
        PROVE  t \in Nat \ {0} /\ Len(run.templates[t].slots) \in Nat /\ out[t] = <<>>
    BY <1>1, RunParts, TemplateParts DEF ExecInv, RenderedBehind
  <2> QED BY <1>1, <2>1 DEF RenderedBehind, Writing
<1> QED BY <1>2, <1>3, <1>4, <1>5, <1>6 DEF ExecInv

LEMMA TemplateRenderedInv == ASSUME ExecInv, TemplateRendered PROVE ExecInv'
<1>1. /\ UNCHANGED <<resolverVars, run, phase, env, out, file, attempt>>
      /\ phase = "render" /\ at \in DOMAIN run.templates
      /\ sub > Len(run.templates[at].slots) /\ at' = at + 1 /\ sub' = 1
      /\ run \in Runs /\ at \in Nat /\ sub \in Nat
  BY DEF TemplateRendered, ExecInv, ExecTypeOK
<1>2. ResolverInv'
  BY <1>1, ResolverStutterInv DEF ExecInv
<1>3. ExecTypeOK'
  BY <1>1 DEF ExecInv, ExecTypeOK
<1>4. ResolvedBehind' /\ KeyringOutOfReach' /\ ModeBeforeText'
  BY <1>1 DEF ExecInv, ResolvedBehind, KeyringOutOfReach, ModeBeforeText, PrivateBeforeSecret, Writing
<1>5. RenderedBehind'
  <2>1. Complete(at)
    BY <1>1, TemplateParts DEF ExecInv, RenderedBehind, Complete
  <2>2. ASSUME NEW t \in DOMAIN run.templates
        PROVE  t \in Nat /\ Len(run.templates[t].slots) \in Nat
    BY <1>1, RunParts, TemplateParts
  <2> QED BY <1>1, <2>1, <2>2 DEF ExecInv, RenderedBehind, Complete, Writing
<1> QED BY <1>2, <1>3, <1>4, <1>5 DEF ExecInv

LEMMA AllRenderedInv == ASSUME ExecInv, AllRendered PROVE ExecInv'
<1>1. /\ UNCHANGED <<resolverVars, run, env, out, file, attempt>>
      /\ phase = "render" /\ at > Len(run.templates)
      /\ phase' = "open" /\ at' = 1 /\ sub' = 1 /\ run \in Runs /\ at \in Nat
  BY DEF AllRendered, Goto, ExecInv, ExecTypeOK
<1>2. ResolverInv'
  BY <1>1, ResolverStutterInv DEF ExecInv
<1>3. ExecTypeOK'
  BY <1>1 DEF ExecInv, ExecTypeOK, Working
<1>4. ResolvedBehind' /\ KeyringOutOfReach' /\ ModeBeforeText'
  BY <1>1 DEF ExecInv, ResolvedBehind, KeyringOutOfReach, ModeBeforeText, PrivateBeforeSecret, Writing
<1>5. RenderedBehind'
  <2>1. ASSUME NEW t \in DOMAIN run.templates PROVE Complete(t)
    <3>1. t \in Nat /\ t < at
      BY <1>1, RunParts
    <3> QED BY <1>1, <3>1 DEF ExecInv, RenderedBehind
  <2> QED BY <1>1, <2>1 DEF RenderedBehind, Complete
<1> QED BY <1>2, <1>3, <1>4, <1>5 DEF ExecInv

-----------------------------------------------------------------------------
(* Writing the templates.                                                  *)

(* The destination at hand is a path, and every destination is a File.     *)
LEMMA DstIsPath ==
    ASSUME ExecInv, at \in DOMAIN run.templates
    PROVE  Dst \in Path /\ file[Dst] \in File
BY TemplateParts DEF Dst, ExecInv, ExecTypeOK

LEMMA OpenDstInv == ASSUME ExecInv, OpenDst PROVE ExecInv'
<1>1. /\ UNCHANGED <<resolverVars, run, at, sub, env, out, attempt>>
      /\ phase = "open" /\ at \in DOMAIN run.templates /\ phase' = "chmod"
      /\ file' = [file EXCEPT ![Dst] = [file[Dst] EXCEPT !.data = "empty",
                    !.mode = IF @ = "absent" THEN "private" ELSE @]]
  BY DEF OpenDst
<1>2. Dst \in Path /\ file[Dst] \in File /\ file \in [Path -> File]
  BY <1>1, DstIsPath DEF ExecInv, ExecTypeOK
<1>3. ResolverInv'
  BY <1>1, ResolverStutterInv DEF ExecInv
<1>4. ExecTypeOK'
  <2>1. file' \in [Path -> File]
    BY <1>1, <1>2 DEF File
  <2> QED BY <1>1, <2>1 DEF ExecInv, ExecTypeOK, Working
<1>5. ModeBeforeText'
  BY <1>1, <1>2 DEF ExecInv, ModeBeforeText, PrivateBeforeSecret, File
<1>6. ResolvedBehind' /\ RenderedBehind' /\ KeyringOutOfReach'
  BY <1>1 DEF ExecInv, ResolvedBehind, RenderedBehind, Complete, KeyringOutOfReach, Writing
<1> QED BY <1>3, <1>4, <1>5, <1>6 DEF ExecInv

LEMMA SetModeInv == ASSUME ExecInv, SetMode PROVE ExecInv'
<1>1. /\ UNCHANGED <<resolverVars, run, at, sub, env, out, attempt>>
      /\ phase = "chmod" /\ at \in DOMAIN run.templates /\ phase' = "write"
      /\ file' = [file EXCEPT ![Dst].mode = "private"]
  BY DEF SetMode, ExecInv, ModeBeforeText
<1>2. Dst \in Path /\ file[Dst] \in File /\ file \in [Path -> File]
  BY <1>1, DstIsPath DEF ExecInv, ExecTypeOK
<1>3. ResolverInv'
  BY <1>1, ResolverStutterInv DEF ExecInv
<1>4. ExecTypeOK'
  <2>1. file' \in [Path -> File]
    BY <1>1, <1>2 DEF File
  <2> QED BY <1>1, <2>1 DEF ExecInv, ExecTypeOK, Working
<1>5. ModeBeforeText'
  BY <1>1, <1>2 DEF ExecInv, ModeBeforeText, PrivateBeforeSecret, File, Dst
<1>6. ResolvedBehind' /\ RenderedBehind' /\ KeyringOutOfReach'
  BY <1>1 DEF ExecInv, ResolvedBehind, RenderedBehind, Complete, KeyringOutOfReach, Writing
<1> QED BY <1>3, <1>4, <1>5, <1>6 DEF ExecInv

LEMMA WritePartInv == ASSUME ExecInv, WritePart PROVE ExecInv'
<1>1. /\ UNCHANGED <<resolverVars, run, phase, at, sub, env, out, attempt>>
      /\ phase = "write" /\ at \in DOMAIN run.templates /\ file[Dst].mode = "private"
      /\ file' = [file EXCEPT ![Dst].data = "partial", ![Dst].from = <<attempt, at>>]
      /\ attempt \in Nat /\ at \in Nat
  BY AttemptsAssumption DEF WritePart, ExecInv, ModeBeforeText, ExecTypeOK
<1>2. Dst \in Path /\ file[Dst] \in File /\ file \in [Path -> File]
  BY <1>1, DstIsPath DEF ExecInv, ExecTypeOK
<1>3. ResolverInv'
  BY <1>1, ResolverStutterInv DEF ExecInv
<1>4. ExecTypeOK'
  <2>1. file' \in [Path -> File]
    BY <1>1, <1>2 DEF File
  <2> QED BY <1>1, <2>1 DEF ExecInv, ExecTypeOK
<1>5. ModeBeforeText'
  BY <1>1, <1>2 DEF ExecInv, ModeBeforeText, PrivateBeforeSecret, File, Dst
<1>6. ResolvedBehind' /\ RenderedBehind' /\ KeyringOutOfReach'
  BY <1>1 DEF ExecInv, ResolvedBehind, RenderedBehind, Complete, KeyringOutOfReach, Writing
<1> QED BY <1>3, <1>4, <1>5, <1>6 DEF ExecInv

LEMMA WriteRestInv == ASSUME ExecInv, WriteRest PROVE ExecInv'
<1>1. /\ UNCHANGED <<resolverVars, run, sub, env, out, attempt>>
      /\ phase = "write" /\ at \in DOMAIN run.templates /\ file[Dst].mode = "private"
      /\ file' = [file EXCEPT ![Dst].data = "full", ![Dst].from = <<attempt, at>>]
      /\ phase' = "open" /\ at' = at + 1 /\ attempt \in Nat /\ at \in Nat
  BY AttemptsAssumption DEF WriteRest, ExecInv, ModeBeforeText, ExecTypeOK
<1>2. Dst \in Path /\ file[Dst] \in File /\ file \in [Path -> File]
  BY <1>1, DstIsPath DEF ExecInv, ExecTypeOK
<1>3. ResolverInv'
  BY <1>1, ResolverStutterInv DEF ExecInv
<1>4. ExecTypeOK'
  <2>1. file' \in [Path -> File]
    BY <1>1, <1>2 DEF File
  <2> QED BY <1>1, <2>1 DEF ExecInv, ExecTypeOK, Working
<1>5. ModeBeforeText'
  BY <1>1, <1>2 DEF ExecInv, ModeBeforeText, PrivateBeforeSecret, File
<1>6. ResolvedBehind' /\ RenderedBehind' /\ KeyringOutOfReach'
  BY <1>1 DEF ExecInv, ResolvedBehind, RenderedBehind, Complete, KeyringOutOfReach, Writing
<1> QED BY <1>3, <1>4, <1>5, <1>6 DEF ExecInv

LEMMA AllWrittenInv == ASSUME ExecInv, AllWritten PROVE ExecInv'
<1>1. /\ UNCHANGED <<resolverVars, run, env, out, file, attempt>>
      /\ phase = "open" /\ phase' = "close" /\ at' = 1 /\ sub' = 1
  BY DEF AllWritten, Goto
<1>2. ResolverInv'
  BY <1>1, ResolverStutterInv DEF ExecInv
<1>3. ExecTypeOK'
  BY <1>1 DEF ExecInv, ExecTypeOK, Working
<1>4. ResolvedBehind' /\ RenderedBehind' /\ KeyringOutOfReach' /\ ModeBeforeText'
  BY <1>1 DEF ExecInv, ResolvedBehind, RenderedBehind, Complete, KeyringOutOfReach,
              ModeBeforeText, PrivateBeforeSecret, Writing
<1> QED BY <1>2, <1>3, <1>4 DEF ExecInv

-----------------------------------------------------------------------------
(* The handover, and what others do.                                       *)

LEMMA CloseBeforeHandoverInv == ASSUME ExecInv, CloseBeforeHandover PROVE ExecInv'
<1>1. /\ UNCHANGED <<run, env, out, file, attempt>> /\ CloseKeyFd
      /\ phase = "close" /\ phase' = "spawn" /\ at' = 1 /\ sub' = 1
  BY DEF CloseBeforeHandover, Goto
<1>2. ResolverInv'
  BY <1>1, CloseKeyFdInv DEF ExecInv
<1>3. ExecTypeOK'
  BY <1>1 DEF ExecInv, ExecTypeOK, Working
<1>4. KeyringOutOfReach'
  <2>1. taken' \/ ~KeyFdGiven(host)'
    BY <1>1 DEF CloseKeyFd, TakeKeyFd, KeyFdGiven
  <2> QED BY <1>2, <2>1 DEF ResolverInv, KeyFdAccountedFor, KeyringOutOfReach
<1>5. ResolvedBehind' /\ RenderedBehind' /\ ModeBeforeText'
  BY <1>1 DEF ExecInv, ResolvedBehind, RenderedBehind, Complete, ModeBeforeText, PrivateBeforeSecret, Writing
<1> QED BY <1>2, <1>3, <1>4, <1>5 DEF ExecInv

LEMMA SpawnInv == ASSUME ExecInv, Spawn PROVE ExecInv'
<1>1. /\ UNCHANGED <<host, cached, token, agent, taken, stage, ref, answer, logins>>
      /\ UNCHANGED <<run, at, sub, env, out, file, attempt>>
      /\ phase = "spawn" /\ phase' = "started"
      /\ fds' = [f \in Fd |-> IF fds[f] \in Remote THEN "free" ELSE fds[f]]
  BY DEF Spawn
<1>2. /\ fds' \in [Fd -> {"free", "keyring"} \cup Remote]
      /\ \A f \in Fd : fds'[f] = "keyring" <=> fds[f] = "keyring"
  BY <1>1 DEF ExecInv, ResolverInv, ResolverTypeOK, Remote
<1>3. ResolverInv'
  <2>1. ResolverTypeOK' /\ KeyFdAccountedFor'
    BY <1>1, <1>2 DEF ExecInv, ResolverInv, ResolverTypeOK, KeyFdAccountedFor, KeyFdGiven
  <2>2. AnswersAreGenuine' /\ ConjurNeverEmpty' /\ OutrankedNeverUsed'
    BY <1>1 DEF ExecInv, ResolverInv, AnswersAreGenuine, ConjurNeverEmpty, OutrankedNeverUsed
  <2>3. OneLogin' /\ TokenKept' /\ KeyringHasSource' /\ StageConsistent'
    BY <1>1 DEF ExecInv, ResolverInv, OneLogin, TokenKept, KeyringHasSource, StageConsistent
  <2> QED BY <2>1, <2>2, <2>3 DEF ResolverInv
<1>4. ExecTypeOK'
  BY <1>1 DEF ExecInv, ExecTypeOK, Over
<1>5. KeyringOutOfReach'
  BY <1>1, <1>2 DEF ExecInv, KeyringOutOfReach
<1>6. ResolvedBehind' /\ RenderedBehind' /\ ModeBeforeText'
  BY <1>1 DEF ExecInv, ResolvedBehind, RenderedBehind, Complete, ModeBeforeText, PrivateBeforeSecret, Writing
<1> QED BY <1>3, <1>4, <1>5, <1>6 DEF ExecInv

LEMMA RestartInv == ASSUME ExecInv, Restart PROVE ExecInv'
<1>1. /\ UNCHANGED <<host, run, file>> /\ phase' = "collect" /\ at' = 1 /\ sub' = 1
      /\ env' = run.inherited /\ out' = NothingRendered(run)
      /\ attempt' = attempt + 1 /\ attempt < MaxAttempts /\ run \in Runs
      /\ attempt \in 1..MaxAttempts
  BY DEF Restart, Goto, ExecInv, ExecTypeOK
<1>2. ResolverInv'
  <2>1. ResolverInit'
    BY DEF Restart, ResolverInit, ExecInv, ResolverInv, ResolverTypeOK, InitialFds, KeyFdGiven
  <2> QED BY <2>1, ResolverInitInv, PTL
<1>3. ExecTypeOK'
  BY <1>1, RunParts, AttemptsAssumption DEF ExecInv, ExecTypeOK, Working, NothingRendered
<1>4. ResolvedBehind' /\ KeyringOutOfReach' /\ ModeBeforeText'
  BY <1>1 DEF ExecInv, ResolvedBehind, KeyringOutOfReach, ModeBeforeText, PrivateBeforeSecret, Writing
<1>5. RenderedBehind'
  BY <1>1 DEF RenderedBehind, NothingRendered, Writing
<1> QED BY <1>2, <1>3, <1>4, <1>5 DEF ExecInv

-----------------------------------------------------------------------------
(* The invariant, and what follows from it.                                *)

LEMMA ExecStepInv == ASSUME ExecInv, Next PROVE ExecInv'
<1>1. CASE Collect \/ LayerEntry \/ DropKeyVars
  BY <1>1, CollectInv, LayerEntryInv, DropKeyVarsInv
<1>2. CASE SkipValue \/ AskValue \/ TakeValue \/ TakeSlot
  BY <1>2, SkipValueInv, AskValueInv, TakeValueInv, TakeSlotInv
<1>3. CASE EnvResolved \/ TemplateRendered \/ AllRendered
  BY <1>3, EnvResolvedInv, TemplateRenderedInv, AllRenderedInv
<1>4. CASE OpenDst \/ SetMode \/ WritePart \/ WriteRest \/ AllWritten
  BY <1>4, OpenDstInv, SetModeInv, WritePartInv, WriteRestInv, AllWrittenInv
<1>5. CASE CloseBeforeHandover \/ Spawn \/ Restart
  BY <1>5, CloseBeforeHandoverInv, SpawnInv, RestartInv
<1>6. CASE RefuseEnvFile \/ RefuseValue \/ ResolveFailed \/ RefuseTemplate
             \/ WriteFails \/ SpawnFails \/ Kill
  BY <1>6, FailInv DEF RefuseEnvFile, RefuseValue, ResolveFailed, RefuseTemplate,
                       WriteFails, SpawnFails, Kill
<1>7. CASE /\ phase \in {"resolve", "render"} /\ UNCHANGED execVars
           /\ OwnStep \/ ServerStep
  BY <1>7, ResolveStepInv, WatchInv DEF ExecInv
<1> QED BY <1>1, <1>2, <1>3, <1>4, <1>5, <1>6, <1>7 DEF Next, ProcessStep, ServerAnswers

LEMMA ExecStutterInv == ASSUME ExecInv, UNCHANGED vars PROVE ExecInv'
<1>1. ResolverInv'
  BY ResolverStutterInv DEF ExecInv, vars
<1>2. ExecTypeOK' /\ ResolvedBehind' /\ RenderedBehind' /\ ModeBeforeText' /\ KeyringOutOfReach'
  BY DEF ExecInv, vars, resolverVars, execVars, ExecTypeOK, ResolvedBehind, RenderedBehind, Complete,
         ModeBeforeText, PrivateBeforeSecret, KeyringOutOfReach, Dst
<1> QED BY <1>1, <1>2 DEF ExecInv

(* The inductive invariant of exec (exec.rs run).                          *)
THEOREM ExecInvariant == Spec => []ExecInv
<1>1. Init => ExecInv
  BY ExecInitInv
<1>2. ExecInv /\ [Next]_vars => ExecInv'
  BY ExecStepInv, ExecStutterInv
<1> QED BY <1>1, <1>2, PTL DEF Spec

(* Type correctness, the resolver's state included.                        *)
THEOREM ExecTypeCorrect == Spec => []TypeOK
<1>1. ExecInv => TypeOK
  BY DEF ExecInv, ResolverInv, TypeOK
<1> QED BY <1>1, ExecInvariant, PTL

(* No file that others can read ever holds rendered text, across kills and *)
(* restarts (exec.rs write_private).                                       *)
THEOREM ExecPrivate == Spec => []PrivateBeforeSecret
<1>1. ExecInv => PrivateBeforeSecret
  BY DEF ExecInv, ModeBeforeText
<1> QED BY <1>1, ExecInvariant, PTL

(* A command never gets a descriptor that leads to the keyring (exec.rs    *)
(* run, keyring.rs close_key_fd).                                          *)
THEOREM ExecKeyring == Spec => []KeyringOutOfReach
<1>1. ExecInv => KeyringOutOfReach
  BY DEF ExecInv
<1> QED BY <1>1, ExecInvariant, PTL

(* No destination is touched while anything is left to resolve or render   *)
(* (exec.rs render_templates).                                             *)
THEOREM ExecWritesLast == Spec => NothingWrittenEarly
<1> DEFINE Settled == /\ \A n \in Name : ~IsReference(env[n])
                      /\ \A t \in DOMAIN run.templates : Len(out[t]) = Len(run.templates[t].slots)
<1>1. ASSUME ExecInv, [Next]_vars PROVE [file' # file => Settled]_vars
  <2>1. ASSUME phase \in Writing PROVE Settled
    BY <1>1, <2>1 DEF ExecInv, ResolvedBehind, RenderedBehind, Complete
  <2>2. CASE OpenDst \/ SetMode \/ WritePart \/ WriteRest
    BY <2>1, <2>2 DEF OpenDst, SetMode, WritePart, WriteRest, Writing
  <2>3. CASE UNCHANGED file
    BY <2>3
  <2>4. OpenDst \/ SetMode \/ WritePart \/ WriteRest \/ UNCHANGED file
    BY <1>1 DEF Next, ProcessStep, ServerAnswers, vars, execVars, Collect, RefuseEnvFile, LayerEntry,
                DropKeyVars, SkipValue, RefuseValue, AskValue, TakeValue, TakeSlot, ResolveFailed,
                EnvResolved, RefuseTemplate, TemplateRendered, AllRendered, WriteFails, AllWritten,
                CloseBeforeHandover, Spawn, SpawnFails, Kill, Restart
  <2> QED BY <2>2, <2>3, <2>4
<1> QED BY <1>1, ExecInvariant, PTL DEF Spec, NothingWrittenEarly

-----------------------------------------------------------------------------
(* The places of a name in the env files.                                  *)

LEMMA PlaceParts ==
    ASSUME NEW r \in Runs, NEW n, NEW p \in Places(r, n)
    PROVE  /\ p = <<p[1], p[2]>> /\ p[1] \in Nat \ {0} /\ p[2] \in Nat \ {0}
           /\ p[1] \in DOMAIN r.envFiles /\ p[2] \in DOMAIN r.envFiles[p[1]].entries
           /\ r.envFiles[p[1]].entries[p[2]].name = n
<1>1. PICK i \in DOMAIN r.envFiles :
        p \in {<<i, j>> : j \in {k \in DOMAIN r.envFiles[i].entries :
                                   r.envFiles[i].entries[k].name = n}}
  BY DEF Places
<1>2. PICK j \in DOMAIN r.envFiles[i].entries :
        p = <<i, j>> /\ r.envFiles[i].entries[j].name = n
  BY <1>1
<1>3. r.envFiles[i] \in EnvFile /\ i \in Nat \ {0}
  BY RunParts
<1>4. j \in Nat \ {0}
  BY <1>2, <1>3 DEF EnvFile
<1> QED BY <1>2, <1>3, <1>4

LEMMA PlaceOfEntry ==
    ASSUME NEW r \in Runs, NEW i \in DOMAIN r.envFiles, NEW j \in DOMAIN r.envFiles[i].entries
    PROVE  <<i, j>> \in Places(r, r.envFiles[i].entries[j].name)
BY DEF Places

(* Of several places one is the last ...                                   *)
LEMMA LastExists ==
    ASSUME NEW r \in Runs, NEW n, Places(r, n) # {}
    PROVE  \E p \in Places(r, n) : Last(p, Places(r, n))
<1> DEFINE P == Places(r, n)
           I == {i \in DOMAIN r.envFiles : \E p \in P : p[1] = i}
<1>1. /\ \A p \in P : /\ p[1] \in DOMAIN r.envFiles /\ p[1] \in Nat /\ p[2] \in Nat
                      /\ p[2] \in DOMAIN r.envFiles[p[1]].entries
      /\ P # {}
  BY PlaceParts
<1> HIDE DEF P
<1>2. Len(r.envFiles) \in Nat /\ DOMAIN r.envFiles = 1..Len(r.envFiles)
  BY RunParts
<1>3. PICK i \in I : \A k \in I : k <= i
  <2>1. I \in SUBSET (0..Len(r.envFiles)) /\ I # {}
    BY <1>1, <1>2
  <2> HIDE DEF I
  <2> QED BY <1>2, <2>1, Sets!GreatestNatural
<1>4. \A p \in P : p[1] <= i
  BY <1>1, <1>3
<1> DEFINE J == {j \in DOMAIN r.envFiles[i].entries : \E p \in P : p[1] = i /\ p[2] = j}
<1>5. /\ Len(r.envFiles[i].entries) \in Nat
      /\ DOMAIN r.envFiles[i].entries = 1..Len(r.envFiles[i].entries)
  <2>1. r.envFiles[i] \in EnvFile
    BY RunParts
  <2> QED BY <2>1 DEF EnvFile
<1>6. PICK j \in J : \A k \in J : k <= j
  <2>1. J \in SUBSET (0..Len(r.envFiles[i].entries))
    BY <1>5
  <2>2. J # {}
    BY <1>1
  <2> HIDE DEF J
  <2> QED BY <1>5, <2>1, <2>2, Sets!GreatestNatural
<1>7. PICK p \in P : p[1] = i /\ p[2] = j
  OBVIOUS
<1>8. ASSUME NEW q \in P PROVE ~After(q, p)
  <2>1. q[1] = i => q[2] <= j
    BY <1>1, <1>6
  <2> QED BY <1>1, <1>2, <1>4, <1>5, <1>7, <2>1 DEF After
<1> QED BY <1>7, <1>8 DEF Last, P

(* ... and only one.                                                       *)
LEMMA LastIsOne ==
    ASSUME NEW r \in Runs, NEW n, NEW S \in SUBSET Places(r, n),
           NEW p \in S, NEW q \in S, Last(p, S), Last(q, S)
    PROVE  p = q
<1>1. /\ p = <<p[1], p[2]>> /\ p[1] \in Nat /\ p[2] \in Nat
      /\ q = <<q[1], q[2]>> /\ q[1] \in Nat /\ q[2] \in Nat
  BY PlaceParts
<1>2. p[1] = q[1] /\ p[2] = q[2]
  BY <1>1 DEF Last, After
<1> QED BY <1>1, <1>2

(* What an entry of an env file says is no absence and is Unicode.         *)
LEMMA PlaceValue ==
    ASSUME NEW r \in Runs, NEW n, NEW p \in Places(r, n)
    PROVE  ValueAt(r, p) \in Entry(Ref) \ {NotUnicode}
<1>1. p[1] \in DOMAIN r.envFiles /\ p[2] \in DOMAIN r.envFiles[p[1]].entries
  BY PlaceParts
<1>2. r.envFiles[p[1]] \in EnvFile
  BY <1>1, RunParts
<1>3. r.envFiles[p[1]].entries[p[2]] \in EnvEntry
  BY <1>1, <1>2 DEF EnvFile
<1>4. ValueAt(r, p) \in Placeholder \cup {Plain}
  BY <1>3 DEF EnvEntry, ValueAt
<1>5. /\ Placeholder \cup {Plain} \subseteq Entry(Ref)
      /\ NotUnicode \notin Placeholder \cup {Plain}
  BY DEF Entry, Placeholder, NotUnicode, Malformed, Plain
<1> QED BY <1>4, <1>5

(* The layered value is what the last place says.                          *)
LEMMA LayeredIsLast ==
    ASSUME NEW r \in Runs, NEW n, NEW p \in Places(r, n), Last(p, Places(r, n))
    PROVE  Layered(r, n) = ValueAt(r, p)
<1> DEFINE c == CHOOSE q \in Places(r, n) : Last(q, Places(r, n))
<1>1. c \in Places(r, n) /\ Last(c, Places(r, n))
  OBVIOUS
<1>2. c = p
  <2> HIDE DEF c
  <2> QED BY <1>1, LastIsOne
<1> QED BY <1>2 DEF Layered

(* So what is wanted of a name is always an entry.                         *)
LEMMA WantedIsEntry ==
    ASSUME NEW r \in Runs
    PROVE  Wanted(r) \in [Name -> Entry(Ref)]
<1>1. ASSUME NEW n \in Name PROVE Layered(r, n) \in Entry(Ref)
  <2>1. CASE Places(r, n) = {}
    BY <2>1, RunParts DEF Layered
  <2>2. CASE Places(r, n) # {}
    <3>1. PICK p \in Places(r, n) : Last(p, Places(r, n))
      BY <2>2, LastExists
    <3> QED BY <3>1, LayeredIsLast, PlaceValue
  <2> QED BY <2>1, <2>2
<1> QED BY <1>1 DEF Wanted, Entry

(* What is delivered for an entry: itself, or the text of its reference.   *)
LEMMA DeliversSettled ==
    ASSUME NEW e \in {Absent, Plain} PROVE Abstract!Delivers(e, e)
BY DEF Abstract!Delivers, Absent, Plain

LEMMA DeliversSecret ==
    ASSUME NEW e, e.is = "reference", NEW a, a.is = "secret", a.ref = e.ref, a.text \in Genuine
    PROVE  Abstract!Delivers(e, a)
BY DEF Abstract!Delivers, Genuine, Abstract!Genuine

-----------------------------------------------------------------------------
(* Layering.                                                               *)

LEMMA LayerEntryLayered ==
    ASSUME DeliveryInv, LayerEntry, NEW n \in Name
    PROVE  /\ Passed(n)' = {} => env'[n] = run.inherited[n]
           /\ Passed(n)' # {} =>
                 \E p \in Passed(n)' : Last(p, Passed(n)') /\ env'[n] = ValueAt(run, p)
<1>1. /\ UNCHANGED <<run, phase>> /\ phase = "layer" /\ run \in Runs
      /\ at \in Nat \ {0} /\ sub \in Nat \ {0} /\ at <= Len(run.envFiles)
      /\ env \in [Name -> Entry(Ref) \cup Answered(Ref)]
  BY DEF LayerEntry, DeliveryInv, ExecInv, ExecTypeOK
<1>2. at \in DOMAIN run.envFiles
  BY <1>1, RunParts
<1> DEFINE entries == run.envFiles[at].entries
           here == <<at, sub>>
<1>3. Len(entries) \in Nat /\ DOMAIN entries = 1..Len(entries)
  <2>1. run.envFiles[at] \in EnvFile
    BY <1>1, <1>2, RunParts
  <2> QED BY <2>1 DEF EnvFile
<1>4. \A p \in Places(run, n) :
         /\ p = <<p[1], p[2]>> /\ p[1] \in Nat /\ p[2] \in Nat \ {0}
         /\ p[1] = at => p[2] <= Len(entries)
  BY <1>1, <1>3, PlaceParts
<1>5. /\ Passed(n) = {} => env[n] = run.inherited[n]
      /\ Passed(n) # {} => \E p \in Passed(n) : Last(p, Passed(n)) /\ env[n] = ValueAt(run, p)
  BY <1>1 DEF DeliveryInv, LayeredBehind
<1>6. CASE sub <= Len(entries)
  <2>1. /\ at' = at /\ sub' = sub + 1
        /\ env' = [env EXCEPT ![entries[sub].name] = entries[sub].value]
    BY <1>6 DEF LayerEntry
  <2>2. sub \in DOMAIN entries
    BY <1>1, <1>3, <1>6
  <2>3. CASE n = entries[sub].name
    <3>1. here \in Places(run, n)
      BY <1>1, <1>2, <2>2, <2>3, PlaceOfEntry
    <3>2. here \in Passed(n)'
      BY <1>1, <2>1, <3>1 DEF Passed, After
    <3>3. \A q \in Passed(n)' : ~After(q, here)
      BY <1>1, <1>4, <2>1 DEF Passed, After
    <3>4. env'[n] = ValueAt(run, here)
      BY <1>1, <2>1, <2>3 DEF ValueAt
    <3> QED BY <3>2, <3>3, <3>4 DEF Last
  <2>4. CASE n # entries[sub].name
    <3>1. here \notin Places(run, n)
      BY <1>1, <2>4, PlaceParts
    <3>2. \A p \in Places(run, n) : After(<<at, sub + 1>>, p) <=> After(here, p)
      BY <1>1, <1>4, <3>1 DEF After
    <3>3. Passed(n)' = Passed(n)
      BY <1>1, <2>1, <3>2 DEF Passed
    <3>4. env'[n] = env[n]
      BY <1>1, <2>1, <2>4
    <3> QED BY <1>5, <3>3, <3>4
  <2> QED BY <2>3, <2>4
<1>7. CASE ~(sub <= Len(entries))
  <2>1. at' = at + 1 /\ sub' = 1 /\ env' = env
    BY <1>7 DEF LayerEntry
  <2>2. \A p \in Places(run, n) : After(<<at + 1, 1>>, p) <=> After(here, p)
    <3>1. ASSUME NEW l \in Nat, l < sub, NEW p \in Places(run, n), p[1] \in Nat,
                 p[2] \in Nat \ {0}, p[1] = at => p[2] <= l
          PROVE  After(<<at + 1, 1>>, p) <=> After(<<at, sub>>, p)
      BY <1>1, <3>1 DEF After
    <3>2. Len(entries) < sub
      BY <1>1, <1>3, <1>7
    <3> HIDE DEF entries
    <3> QED BY <1>3, <1>4, <3>1, <3>2
  <2>3. Passed(n)' = Passed(n)
    BY <1>1, <2>1, <2>2 DEF Passed
  <2> QED BY <1>5, <2>1, <2>3
<1> QED BY <1>6, <1>7

LEMMA LayeredBehindInv == ASSUME DeliveryInv, [Next]_vars PROVE LayeredBehind'
<1>1. CASE Collect
  <2>1. CASE phase' = "failed"
    BY <2>1 DEF LayeredBehind
  <2>2. CASE phase' = "layer" /\ at' = 1 /\ sub' = 1
    <3>1. UNCHANGED <<run, env>> /\ phase = "collect" /\ run \in Runs
      BY <1>1 DEF Collect, DeliveryInv, ExecInv, ExecTypeOK
    <3>2. env = run.inherited /\ \A n \in Name : env[n] # NotUnicode
      BY <1>1, <2>2 DEF Collect, Fail, DeliveryInv, LayeredBehind
    <3>3. ASSUME NEW n \in Name PROVE Passed(n)' = {}
      <4>1. \A p \in Places(run, n) : p[1] \in Nat \ {0} /\ p[2] \in Nat \ {0}
        BY <3>1, PlaceParts
      <4> QED BY <2>2, <3>1, <4>1 DEF Passed, After
    <3> QED BY <2>2, <3>1, <3>2, <3>3 DEF LayeredBehind
  <2> QED BY <1>1, <2>1, <2>2 DEF Collect, Fail, Goto
<1>2. CASE LayerEntry
  <2>1. UNCHANGED <<run, phase>> /\ phase = "layer"
    BY <1>2 DEF LayerEntry
  <2>2. \A n \in Name : run'.inherited[n] # NotUnicode
    BY <2>1 DEF DeliveryInv, LayeredBehind
  <2> QED BY <1>2, <2>1, <2>2, LayerEntryLayered DEF LayeredBehind
<1>3. CASE Restart
  BY <1>3 DEF Restart, Goto, LayeredBehind
<1>4. CASE UNCHANGED vars
  BY <1>4 DEF vars, execVars, DeliveryInv, LayeredBehind, Passed
<1>5. Collect \/ LayerEntry \/ Restart \/ UNCHANGED vars \/ phase' \notin {"collect", "layer"}
  BY DEF Next, ProcessStep, ServerAnswers, execVars, RefuseEnvFile, DropKeyVars, SkipValue,
         RefuseValue, AskValue, TakeValue, TakeSlot, ResolveFailed, EnvResolved, RefuseTemplate,
         TemplateRendered, AllRendered, OpenDst, SetMode, WritePart, WriteRest, WriteFails,
         AllWritten, CloseBeforeHandover, Spawn, SpawnFails, Kill, AtVariable, AtSlot, Fail, Goto
<1>6. CASE phase' \notin {"collect", "layer"}
  BY <1>6 DEF LayeredBehind
<1> QED BY <1>1, <1>2, <1>3, <1>4, <1>5, <1>6

-----------------------------------------------------------------------------
(* The environment.                                                        *)

LEMMA DropKeyVarsDelivered == ASSUME DeliveryInv, DropKeyVars PROVE DeliveredBehind'
<1>1. /\ phase = "layer" /\ phase' = "resolve" /\ at' = 1 /\ UNCHANGED run /\ run \in Runs
      /\ env' = [n \in Name |-> IF n \in KeyVars THEN Absent ELSE env[n]]
      /\ at > Len(run.envFiles) /\ at \in Nat
  BY DEF DropKeyVars, Goto, DeliveryInv, ExecInv, ExecTypeOK
<1>2. ASSUME NEW n \in Name
      PROVE  Layered(run, n) = env[n] /\ Layered(run, n) # NotUnicode
  <2>1. /\ run.inherited[n] # NotUnicode
        /\ Passed(n) = {} => env[n] = run.inherited[n]
        /\ Passed(n) # {} => \E p \in Passed(n) : Last(p, Passed(n)) /\ env[n] = ValueAt(run, p)
    BY <1>1 DEF DeliveryInv, LayeredBehind
  <2>2. Passed(n) = Places(run, n)
    <3>1. \A p \in Places(run, n) : p[1] \in Nat /\ p[1] <= Len(run.envFiles) /\ Len(run.envFiles) \in Nat
      BY <1>1, PlaceParts, RunParts
    <3> QED BY <1>1, <3>1 DEF Passed, After
  <2>3. CASE Places(run, n) = {}
    BY <2>1, <2>2, <2>3 DEF Layered
  <2>4. CASE Places(run, n) # {}
    BY <1>1, <2>1, <2>2, <2>4, LayeredIsLast, PlaceValue
  <2> QED BY <2>3, <2>4
<1>3. ASSUME NEW n \in Name
      PROVE  Wanted(run)[n] = env'[n] /\ Wanted(run)[n] # NotUnicode /\ n >= 1
  <2>1. n >= 1
    BY NameAssumption DEF Name
  <2>2. Absent # NotUnicode
    BY DEF Absent, NotUnicode
  <2>3. Wanted(run)[n] = IF n \in KeyVars THEN Absent ELSE Layered(run, n)
    BY DEF Wanted
  <2>4. env'[n] = IF n \in KeyVars THEN Absent ELSE env[n]
    BY <1>1
  <2> QED BY <1>2, <2>1, <2>2, <2>3, <2>4
<1> QED BY <1>1, <1>3 DEF DeliveredBehind, Writing, Name

LEMMA SkipValueDelivered == ASSUME DeliveryInv, SkipValue PROVE DeliveredBehind'
<1>1. /\ UNCHANGED <<run, phase, env>> /\ run \in Runs
      /\ phase = "resolve" /\ at \in Name /\ at' = at + 1 /\ ~IsReference(env[at])
  BY DEF SkipValue, AtVariable, DeliveryInv, ExecInv, ExecTypeOK
<1>2. /\ Wanted(run)[at] # NotUnicode /\ env[at] = Wanted(run)[at]
      /\ Wanted(run)[at] \in Entry(Ref)
  BY <1>1, WantedIsEntry, NameAssumption DEF DeliveryInv, DeliveredBehind, Name
<1>3. env[at] \in {Absent, Plain}
  BY <1>1, <1>2 DEF Entry, IsReference, Malformed
<1>4. Abstract!Delivers(Wanted(run)[at], env[at])
  BY <1>2, <1>3, DeliversSettled
<1> QED BY <1>1, <1>2, <1>4, NameAssumption DEF DeliveryInv, DeliveredBehind, Writing, Name

(* An answer that is taken is the secret of what the loop has come to.     *)
LEMMA ConsumedIsCurrent ==
    ASSUME DeliveryInv, Consume, phase \in {"resolve", "render"}
    PROVE  Current.is = "reference" /\ Abstract!Delivers(Current, answer)
<1>1. /\ Current.is = "reference" /\ ref = Current.ref /\ answer.is = "secret"
      /\ answer.ref = ref /\ answer.text \in Genuine
  BY DEF Consume, DeliveryInv, AskedIsCurrent, ExecInv, ResolverInv, AnswersAreGenuine
<1> QED BY <1>1, DeliversSecret

LEMMA TakeValueDelivered == ASSUME DeliveryInv, TakeValue PROVE DeliveredBehind'
<1>1. /\ UNCHANGED <<run, phase>> /\ run \in Runs
      /\ phase = "resolve" /\ at \in Name /\ at' = at + 1
      /\ env' = [env EXCEPT ![at] = answer] /\ Consume
      /\ env \in [Name -> Entry(Ref) \cup Answered(Ref)]
  BY DEF TakeValue, AtVariable, DeliveryInv, ExecInv, ExecTypeOK
<1>2. Abstract!Delivers(Wanted(run)[at], env'[at])
  <2>1. env[at] = Wanted(run)[at] /\ Current = env[at]
    BY <1>1, NameAssumption DEF DeliveryInv, DeliveredBehind, Current, Name
  <2> QED BY <1>1, <2>1, ConsumedIsCurrent
<1>3. \A n \in Name : n # at => env'[n] = env[n]
  BY <1>1
<1> QED BY <1>1, <1>2, <1>3, NameAssumption DEF DeliveryInv, DeliveredBehind, Writing, Name

LEMMA DeliveredBehindInv == ASSUME DeliveryInv, [Next]_vars PROVE DeliveredBehind'
<1>1. CASE DropKeyVars \/ SkipValue \/ TakeValue
  BY <1>1, DropKeyVarsDelivered, SkipValueDelivered, TakeValueDelivered
<1>2. CASE EnvResolved
  <2>1. /\ UNCHANGED <<run, env>> /\ phase = "resolve" /\ phase' = "render"
        /\ \A n \in Name : n < at
    BY <1>2, NameAssumption DEF EnvResolved, Goto, Name, DeliveryInv, ExecInv, ExecTypeOK
  <2> QED BY <2>1 DEF DeliveryInv, DeliveredBehind
<1>3. CASE phase' \in {"collect", "layer", "failed"}
  BY <1>3 DEF DeliveredBehind, Writing
<1>4. CASE UNCHANGED <<run, env, phase, at>>
  BY <1>4 DEF DeliveryInv, DeliveredBehind
<1>5. CASE /\ UNCHANGED <<run, env>>
           /\ phase \in Writing \cup {"render"} /\ phase' \in Writing \cup {"render"}
  BY <1>5 DEF DeliveryInv, DeliveredBehind, Writing
<1>6. \/ DropKeyVars \/ SkipValue \/ TakeValue \/ EnvResolved
      \/ phase' \in {"collect", "layer", "failed"}
      \/ UNCHANGED <<run, env, phase, at>>
      \/ /\ UNCHANGED <<run, env>>
         /\ phase \in Writing \cup {"render"} /\ phase' \in Writing \cup {"render"}
  BY DEF Next, ProcessStep, ServerAnswers, vars, execVars, Collect, RefuseEnvFile, LayerEntry,
         RefuseValue, AskValue, TakeSlot, ResolveFailed, RefuseTemplate,
         TemplateRendered, AllRendered, OpenDst, SetMode, WritePart, WriteRest, WriteFails,
         AllWritten, CloseBeforeHandover, Spawn, SpawnFails, Kill, Restart, AtSlot, Fail, Goto, Writing
<1> QED BY <1>1, <1>2, <1>3, <1>4, <1>5, <1>6

-----------------------------------------------------------------------------
(* What the resolver is asked.                                             *)

(* A step of resolve() is one of a resolve under way, and keeps to its     *)
(* reference.                                                              *)
LEMMA ResolvingStep ==
    ASSUME OwnStep \/ ServerStep
    PROVE  stage # "idle" /\ ref' = ref
BY DEF OwnStep, ServerStep, LoadKeyring, OpenSealed, LoadConfig, UseGivenToken, Send, NoAnswer,
       Configured, LoginAnswered, ReadAnswered

LEMMA AskedIsCurrentInv == ASSUME DeliveryInv, [Next]_vars PROVE AskedIsCurrent'
<1> DEFINE Busy == stage # "idle" \/ answer.is = "secret"
<1>1. CASE AskValue
  <2>1. /\ UNCHANGED <<run, phase, at, sub, env>> /\ ref' = Current.ref
        /\ AtVariable \/ AtSlot
        /\ Current.is = "reference" /\ phase \in {"resolve", "render"}
    BY <1>1 DEF AskValue, Ask, execVars, AtVariable, AtSlot
  <2> QED BY <2>1 DEF AskedIsCurrent, AtVariable, AtSlot, Current
<1>2. CASE phase \in {"resolve", "render"} /\ UNCHANGED execVars /\ (OwnStep \/ ServerStep)
  <2>1. stage # "idle" /\ ref' = ref
    BY <1>2, ResolvingStep
  <2> QED BY <1>2, <2>1 DEF DeliveryInv, AskedIsCurrent, AtVariable, AtSlot, Current, execVars
<1>3. CASE TakeValue \/ TakeSlot
  BY <1>3 DEF TakeValue, TakeSlot, Consume, AtVariable, AtSlot, AskedIsCurrent, Pending
<1>4. CASE SkipValue \/ EnvResolved \/ TemplateRendered
  <2>1. /\ UNCHANGED <<stage, answer>> /\ phase \in {"resolve", "render"}
        /\ phase' \in {"resolve", "render"}
    BY <1>4 DEF SkipValue, EnvResolved, TemplateRendered, resolverVars, AtVariable, Goto
  <2>2. ~(AtVariable \/ AtSlot) \/ Current.is # "reference"
    <3>1. CASE SkipValue
      BY <3>1 DEF SkipValue, AtVariable, Current, IsReference
    <3>2. CASE EnvResolved
      BY <3>2, NameAssumption DEF EnvResolved, AtVariable, AtSlot, Name, DeliveryInv, ExecInv, ExecTypeOK
    <3>3. CASE TemplateRendered
      BY <3>3, TemplateParts DEF TemplateRendered, AtVariable, AtSlot, DeliveryInv, ExecInv, ExecTypeOK
    <3> QED BY <1>4, <3>1, <3>2, <3>3
  <2>3. ~Busy
    BY <2>1, <2>2 DEF DeliveryInv, AskedIsCurrent
  <2> QED BY <2>1, <2>3 DEF AskedIsCurrent
<1>5. CASE Collect \/ LayerEntry \/ DropKeyVars
  <2>1. UNCHANGED <<stage, answer, taken>> /\ stage = "idle" /\ answer = Pending /\ ~taken
    BY <1>5 DEF Collect, LayerEntry, DropKeyVars, resolverVars, DeliveryInv, AskedIsCurrent
  <2> QED BY <2>1 DEF AskedIsCurrent, Pending
<1>6. CASE Restart
  BY <1>6 DEF Restart, Goto, AskedIsCurrent
<1>7. CASE UNCHANGED vars
  BY <1>7 DEF vars, execVars, resolverVars, DeliveryInv, AskedIsCurrent, AtVariable, AtSlot, Current
<1>8. CASE phase' \in Writing \cup {"failed"}
  BY <1>8 DEF AskedIsCurrent, Writing
<1>9. \/ AskValue \/ TakeValue \/ TakeSlot \/ SkipValue \/ EnvResolved \/ TemplateRendered
      \/ Collect \/ LayerEntry \/ DropKeyVars \/ Restart \/ UNCHANGED vars
      \/ phase \in {"resolve", "render"} /\ UNCHANGED execVars /\ (OwnStep \/ ServerStep)
      \/ phase' \in Writing \cup {"failed"}
  BY DEF Next, ProcessStep, ServerAnswers, RefuseEnvFile, RefuseValue, ResolveFailed, RefuseTemplate,
         AllRendered, OpenDst, SetMode, WritePart, WriteRest, WriteFails, AllWritten,
         CloseBeforeHandover, Spawn, SpawnFails, Kill, Fail, Goto, Writing
<1> QED BY <1>1, <1>2, <1>3, <1>4, <1>5, <1>6, <1>7, <1>8, <1>9

-----------------------------------------------------------------------------
(* The templates.                                                          *)

LEMMA TakeSlotDelivered == ASSUME DeliveryInv, TakeSlot PROVE SlotsDelivered'
<1>1. /\ UNCHANGED run /\ phase = "render" /\ at \in DOMAIN run.templates
      /\ sub \in DOMAIN run.templates[at].slots /\ Consume
      /\ out' = [out EXCEPT ![at] = Append(out[at], answer)]
      /\ out \in [DOMAIN run.templates -> Seq(Answered(Ref))]
      /\ run \in Runs /\ sub \in Nat
  BY DEF TakeSlot, AtSlot, DeliveryInv, ExecInv, ExecTypeOK
<1>2. Len(out[at]) = sub - 1 /\ out[at] \in Seq(Answered(Ref)) /\ answer \in Answered(Ref)
  <2>1. Len(out[at]) = sub - 1
    BY <1>1 DEF DeliveryInv, ExecInv, RenderedBehind
  <2> QED BY <1>1, <2>1, ConsumeInv DEF DeliveryInv
<1>3. Abstract!Delivers(run.templates[at].slots[sub], answer)
  BY <1>1, ConsumedIsCurrent DEF Current
<1>4. ASSUME NEW s \in DOMAIN out'[at]
      PROVE  /\ s \in DOMAIN run.templates[at].slots
             /\ Abstract!Delivers(run.templates[at].slots[s], out'[at][s])
  <2>1. out'[at] = Append(out[at], answer)
    BY <1>1
  <2>2. CASE s = sub
    BY <1>1, <1>2, <1>3, <2>1, <2>2
  <2>3. CASE s # sub
    <3>1. s \in DOMAIN out[at] /\ out'[at][s] = out[at][s]
      <4>1. Len(out'[at]) = Len(out[at]) + 1 /\ DOMAIN out'[at] = 1..Len(out'[at])
        BY <1>2, <2>1
      <4>2. s \in 1..Len(out[at])
        BY <1>1, <1>2, <2>3, <4>1
      <4> QED BY <1>2, <2>1, <4>2
    <3> QED BY <1>1, <3>1 DEF DeliveryInv, SlotsDelivered
  <2> QED BY <2>2, <2>3
<1>5. \A t \in DOMAIN run.templates : t # at => out'[t] = out[t]
  BY <1>1
<1> QED BY <1>1, <1>4, <1>5 DEF DeliveryInv, SlotsDelivered

LEMMA SlotsDeliveredInv == ASSUME DeliveryInv, [Next]_vars PROVE SlotsDelivered'
<1>1. CASE TakeSlot
  BY <1>1, TakeSlotDelivered
<1>2. CASE Restart
  BY <1>2 DEF Restart, SlotsDelivered, NothingRendered
<1>3. CASE UNCHANGED <<run, out>>
  BY <1>3 DEF DeliveryInv, SlotsDelivered
<1>4. TakeSlot \/ Restart \/ UNCHANGED <<run, out>>
  BY DEF Next, ProcessStep, ServerAnswers, vars, execVars, Collect, RefuseEnvFile, LayerEntry,
         DropKeyVars, SkipValue, RefuseValue, AskValue, TakeValue, ResolveFailed, EnvResolved,
         RefuseTemplate, TemplateRendered, AllRendered, OpenDst, SetMode, WritePart, WriteRest,
         WriteFails, AllWritten, CloseBeforeHandover, Spawn, SpawnFails, Kill
<1> QED BY <1>1, <1>2, <1>3, <1>4

-----------------------------------------------------------------------------
(* The destinations.                                                       *)

(* Work on one destination replaces the templates written to it, and no    *)
(* others.                                                                 *)
LEMMA TouchWritten ==
    ASSUME DeliveryInv, phase \in {"open", "chmod", "write"}, at \in DOMAIN run.templates,
           UNCHANGED <<run, at, attempt>>, phase' \in {"chmod", "write"},
           NEW new, file' = [file EXCEPT ![Dst] = new]
    PROVE  WrittenBehind'
<1>1. DOMAIN run.templates \subseteq Nat /\ at \in Nat /\ file \in [Path -> File]
  BY RunParts DEF DeliveryInv, ExecInv, ExecTypeOK
<1>2. ASSUME NEW t \in DOMAIN run.templates, t < at, ~Replaced(t)'
      PROVE  file'[run.templates[t].dst]
                = [mode |-> "private", data |-> "full", from |-> <<attempt, t>>]
  <2>1. run.templates[at].dst # run.templates[t].dst
    BY <1>1, <1>2 DEF Replaced
  <2>2. ~Replaced(t)
    BY <1>1, <1>2 DEF Replaced
  <2>3. file[run.templates[t].dst]
          = [mode |-> "private", data |-> "full", from |-> <<attempt, t>>]
    BY <1>2, <2>2 DEF DeliveryInv, WrittenBehind, Writing
  <2> QED BY <1>1, <2>1, <2>3 DEF Dst
<1> QED BY <1>2 DEF WrittenBehind, Writing

LEMMA WriteRestWritten == ASSUME DeliveryInv, WriteRest PROVE WrittenBehind'
<1>1. /\ UNCHANGED <<run, attempt>> /\ run \in Runs
      /\ phase = "write" /\ at \in DOMAIN run.templates /\ file[Dst].mode = "private"
      /\ file' = [file EXCEPT ![Dst].data = "full", ![Dst].from = <<attempt, at>>]
      /\ phase' = "open" /\ at' = at + 1
  BY DEF WriteRest, DeliveryInv, ExecInv, ModeBeforeText, ExecTypeOK
<1>2. /\ DOMAIN run.templates \subseteq Nat /\ at \in Nat /\ file \in [Path -> File]
      /\ Dst \in Path /\ file[Dst] \in File
  BY <1>1, RunParts, DstIsPath DEF DeliveryInv, ExecInv, ExecTypeOK
<1>3. file'[Dst] = [mode |-> "private", data |-> "full", from |-> <<attempt, at>>]
  BY <1>1, <1>2 DEF File
<1>4. ASSUME NEW t \in DOMAIN run.templates, t < at, ~Replaced(t)'
      PROVE  file'[run.templates[t].dst]
                = [mode |-> "private", data |-> "full", from |-> <<attempt, t>>]
  <2>1. run.templates[at].dst # run.templates[t].dst
    BY <1>1, <1>2, <1>4 DEF Replaced
  <2>2. ~Replaced(t)
    BY <1>1, <1>2, <1>4 DEF Replaced
  <2>3. file[run.templates[t].dst]
          = [mode |-> "private", data |-> "full", from |-> <<attempt, t>>]
    BY <1>1, <1>4, <2>2 DEF DeliveryInv, WrittenBehind, Writing
  <2>4. file'[run.templates[t].dst] = file[run.templates[t].dst]
    <3>1. \A p \in Path : p # Dst => file'[p] = file[p]
      BY <1>1, <1>2
    <3> QED BY <1>1, <2>1, <3>1, TemplateParts DEF Dst
  <2> QED BY <2>3, <2>4
<1>5. ASSUME NEW t \in DOMAIN run.templates, t < at + 1 PROVE t < at \/ t = at
  BY <1>2, <1>5
<1> QED BY <1>1, <1>3, <1>4, <1>5 DEF WrittenBehind, Writing, Dst

LEMMA WrittenBehindInv == ASSUME DeliveryInv, [Next]_vars PROVE WrittenBehind'
<1>1. CASE AllRendered
  <2>1. /\ UNCHANGED run /\ phase' = "open" /\ at' = 1 /\ DOMAIN run.templates \subseteq Nat \ {0}
    BY <1>1, RunParts DEF AllRendered, Goto, DeliveryInv, ExecInv, ExecTypeOK
  <2> QED BY <2>1 DEF WrittenBehind
<1>2. CASE OpenDst
  BY <1>2, TouchWritten DEF OpenDst
<1>3. CASE SetMode \/ WritePart
  <2>1. at \in DOMAIN run.templates
    BY <1>3 DEF SetMode, WritePart, DeliveryInv, ExecInv, ModeBeforeText
  <2>2. /\ UNCHANGED <<run, at, attempt>> /\ phase \in {"chmod", "write"} /\ phase' = "write"
    BY <1>3 DEF SetMode, WritePart
  <2>3. \E new : file' = [file EXCEPT ![Dst] = new]
    <3>1. CASE SetMode
      BY <3>1 DEF SetMode
    <3>2. CASE WritePart
      BY <3>2 DEF WritePart
    <3> QED BY <1>3, <3>1, <3>2
  <2> QED BY <2>1, <2>2, <2>3, TouchWritten
<1>4. CASE WriteRest
  BY <1>4, WriteRestWritten
<1>5. CASE AllWritten
  <2>1. /\ UNCHANGED <<run, file, attempt>> /\ phase = "open" /\ phase' = "close"
        /\ \A t \in DOMAIN run.templates : t < at
    BY <1>5, RunParts DEF AllWritten, Goto, DeliveryInv, ExecInv, ExecTypeOK
  <2>2. \A t \in DOMAIN run.templates : ~Replaced(t)' => ~Replaced(t)
    BY <2>1 DEF Replaced
  <2> QED BY <2>1, <2>2 DEF DeliveryInv, WrittenBehind, Writing
<1>6. CASE /\ UNCHANGED <<run, file, attempt>>
           /\ phase \in {"close", "spawn"} /\ phase' \in {"spawn", "started"}
  BY <1>6 DEF DeliveryInv, WrittenBehind, Replaced, Writing
<1>7. CASE UNCHANGED <<run, file, attempt, phase, at>>
  BY <1>7 DEF DeliveryInv, WrittenBehind, Replaced
<1>8. CASE phase' \notin Writing
  BY <1>8 DEF WrittenBehind
<1>9. \/ AllRendered \/ OpenDst \/ SetMode \/ WritePart \/ WriteRest \/ AllWritten
      \/ /\ UNCHANGED <<run, file, attempt>>
         /\ phase \in {"close", "spawn"} /\ phase' \in {"spawn", "started"}
      \/ UNCHANGED <<run, file, attempt, phase, at>>
      \/ phase' \notin Writing
  BY DEF Next, ProcessStep, ServerAnswers, vars, execVars, Collect, RefuseEnvFile, LayerEntry,
         DropKeyVars, SkipValue, RefuseValue, AskValue, TakeValue, TakeSlot, ResolveFailed,
         EnvResolved, RefuseTemplate, TemplateRendered, WriteFails, CloseBeforeHandover, Spawn,
         SpawnFails, Kill, Restart, AtVariable, AtSlot, Fail, Goto, Writing
<1> QED BY <1>1, <1>2, <1>3, <1>4, <1>5, <1>6, <1>7, <1>8, <1>9

-----------------------------------------------------------------------------
(* The providers.                                                          *)

(* What is being resolved is something the invocation needs.               *)
LEMMA RefIsNeeded ==
    ASSUME DeliveryInv, phase \in {"resolve", "render"}, stage # "idle"
    PROVE  ref \in Needed(run)
<1>1. /\ AtVariable \/ AtSlot
      /\ Current.is = "reference" /\ ref = Current.ref
  BY DEF DeliveryInv, AskedIsCurrent
<1>2. CASE AtVariable
  <2>1. at \in Name /\ Wanted(run)[at] = Current
    BY <1>2, NameAssumption DEF AtVariable, DeliveryInv, DeliveredBehind, Current, Name
  <2> QED BY <1>1, <2>1 DEF Needed
<1>3. CASE AtSlot
  <2>1. /\ at \in DOMAIN run.templates /\ sub \in DOMAIN run.templates[at].slots
        /\ Current = run.templates[at].slots[sub]
    BY <1>3 DEF AtSlot, Current
  <2>2. Current # Malformed
    BY <1>1 DEF Malformed
  <2> QED BY <1>1, <2>1, <2>2 DEF Needed
<1> QED BY <1>1, <1>2, <1>3

LEMMA OnlyNeededInv == ASSUME DeliveryInv, [Next]_vars PROVE OnlyNeededProviders'
<1> DEFINE Sealed == \E r \in Needed(run) : r.provider = "v1"
<1>1. /\ cached \cap Remote \subseteq {r.provider : r \in Needed(run)}
      /\ "keyring" \in cached \/ (taken /\ phase \in {"resolve", "render"}) => Sealed
  BY DEF DeliveryInv, OnlyNeededProviders
<1>2. CASE phase \in {"resolve", "render"} /\ UNCHANGED execVars /\ (LoadKeyring \/ LoadConfig)
  <2>1. UNCHANGED <<run, phase>> /\ ref \in Needed(run)
    BY <1>2, RefIsNeeded DEF execVars, LoadKeyring, LoadConfig
  <2>2. CASE LoadKeyring
    <3>1. Sealed /\ cached' \subseteq cached \cup {"keyring"}
      BY <2>1, <2>2 DEF LoadKeyring
    <3> QED BY <1>1, <2>1, <3>1 DEF OnlyNeededProviders, Remote
  <2>3. CASE LoadConfig
    <3>1. UNCHANGED taken /\ ref.provider \in Remote /\ cached' \subseteq cached \cup {ref.provider}
      BY <2>3 DEF LoadConfig
    <3> QED BY <1>1, <2>1, <3>1 DEF OnlyNeededProviders, Remote
  <2> QED BY <1>2, <2>2, <2>3
<1>3. CASE Restart
  BY <1>3 DEF Restart, OnlyNeededProviders
<1>4. CASE UNCHANGED <<run, cached>> /\ ~(taken' /\ phase' \in {"resolve", "render"})
  BY <1>1, <1>4 DEF OnlyNeededProviders
<1>5. CASE /\ UNCHANGED <<run, cached, taken>>
           /\ phase' \in {"resolve", "render"} => phase \in {"resolve", "render"}
  BY <1>1, <1>5 DEF OnlyNeededProviders
<1>6. CASE DropKeyVars
  BY <1>4, <1>6 DEF DropKeyVars, resolverVars, DeliveryInv, AskedIsCurrent
<1>7. CASE CloseBeforeHandover
  BY <1>4, <1>7 DEF CloseBeforeHandover, CloseKeyFd, Goto
<1>8. CASE /\ phase \in {"resolve", "render"} /\ UNCHANGED execVars
           /\ OpenSealed \/ UseGivenToken \/ Send \/ NoAnswer \/ ServerStep
  BY <1>5, <1>8 DEF ServerStep, OpenSealed, UseGivenToken, Send, NoAnswer, LoginAnswered,
       ReadAnswered, execVars
<1>9. \/ phase \in {"resolve", "render"} /\ UNCHANGED execVars /\ (LoadKeyring \/ LoadConfig)
      \/ Restart \/ DropKeyVars \/ CloseBeforeHandover
      \/ /\ phase \in {"resolve", "render"} /\ UNCHANGED execVars
         /\ OpenSealed \/ UseGivenToken \/ Send \/ NoAnswer \/ ServerStep
      \/ /\ UNCHANGED <<run, cached, taken>>
         /\ phase' \in {"resolve", "render"} => phase \in {"resolve", "render"}
  BY DEF Next, ProcessStep, ServerAnswers, OwnStep, vars, execVars, resolverVars, Collect,
         RefuseEnvFile, LayerEntry, SkipValue, RefuseValue, AskValue, Ask, TakeValue, TakeSlot,
         Consume, ResolveFailed, EnvResolved, RefuseTemplate, TemplateRendered, AllRendered,
         OpenDst, SetMode, WritePart, WriteRest, WriteFails, AllWritten, Spawn, SpawnFails, Kill,
         AtVariable, AtSlot, Fail, Goto
<1> QED BY <1>2, <1>3, <1>5, <1>6, <1>7, <1>8, <1>9

-----------------------------------------------------------------------------
(* The invariant, and what follows from it.                                *)

LEMMA DeliveryInitInv == ASSUME Init PROVE DeliveryInv
<1>1. ExecInv
  BY ExecInitInv
<1>2. /\ phase = "collect" /\ env = run.inherited /\ out = NothingRendered(run)
      /\ stage = "idle" /\ answer = Pending /\ ~taken /\ cached = {}
  BY DEF Init, ResolverInit
<1>3. LayeredBehind /\ DeliveredBehind /\ AskedIsCurrent
  BY <1>2 DEF LayeredBehind, DeliveredBehind, AskedIsCurrent, Writing
<1>4. SlotsDelivered /\ WrittenBehind /\ OnlyNeededProviders
  BY <1>2 DEF SlotsDelivered, NothingRendered, WrittenBehind, OnlyNeededProviders, Writing
<1> QED BY <1>1, <1>3, <1>4 DEF DeliveryInv

(* The inductive invariant that ties what exec delivers to what the files  *)
(* and the environment ask for (exec.rs build_env, render_templates).      *)
THEOREM DeliveryInvariant == Spec => []DeliveryInv
<1>1. Init => DeliveryInv
  BY DeliveryInitInv
<1>2. DeliveryInv /\ [Next]_vars => DeliveryInv'
  <2> SUFFICES ASSUME DeliveryInv, [Next]_vars PROVE DeliveryInv'
    OBVIOUS
  <2>1. ExecInv'
    BY ExecStepInv, ExecStutterInv DEF DeliveryInv
  <2>2. LayeredBehind' /\ DeliveredBehind' /\ AskedIsCurrent'
    BY LayeredBehindInv, DeliveredBehindInv, AskedIsCurrentInv
  <2>3. SlotsDelivered' /\ WrittenBehind' /\ OnlyNeededProviders'
    BY SlotsDeliveredInv, WrittenBehindInv, OnlyNeededInv
  <2> QED BY <2>1, <2>2, <2>3 DEF DeliveryInv
<1> QED BY <1>1, <1>2, PTL DEF Spec

(* A started command finds every template whole, owner-only, written by    *)
(* this very attempt, and with the secret of each placeholder, however     *)
(* earlier attempts ended (exec.rs render_templates, write_private).       *)
THEOREM ExecRendered == Spec => []StartedMeansRendered
<1>1. ASSUME DeliveryInv PROVE StartedMeansRendered
  <2> SUFFICES ASSUME phase = "started", NEW t \in DOMAIN run.templates
               PROVE  /\ {u \in DOMAIN run.templates :
                             u > t /\ run.templates[u].dst = run.templates[t].dst} = {}
                         => file[run.templates[t].dst] =
                               [mode |-> "private", data |-> "full", from |-> <<attempt, t>>]
                      /\ Len(out[t]) = Len(run.templates[t].slots)
                      /\ \A s \in DOMAIN run.templates[t].slots :
                            Abstract!Delivers(run.templates[t].slots[s], out[t][s])
    BY DEF StartedMeansRendered
  <2>1. Len(out[t]) = Len(run.templates[t].slots)
    BY <1>1 DEF DeliveryInv, ExecInv, RenderedBehind, Complete, Writing
  <2>2. DOMAIN out[t] = DOMAIN run.templates[t].slots
    BY <1>1, <2>1, TemplateParts DEF DeliveryInv, ExecInv, ExecTypeOK
  <2>3. \A s \in DOMAIN run.templates[t].slots :
           Abstract!Delivers(run.templates[t].slots[s], out[t][s])
    BY <1>1, <2>2 DEF DeliveryInv, SlotsDelivered
  <2>4. ASSUME {u \in DOMAIN run.templates :
                   u > t /\ run.templates[u].dst = run.templates[t].dst} = {}
        PROVE  file[run.templates[t].dst] =
                  [mode |-> "private", data |-> "full", from |-> <<attempt, t>>]
    <3>1. ~Replaced(t)
      BY <2>4 DEF Replaced
    <3> QED BY <1>1, <3>1 DEF DeliveryInv, WrittenBehind, Writing
  <2> QED BY <2>1, <2>3, <2>4
<1> QED BY <1>1, DeliveryInvariant, PTL

(* A provider is only set up, and the keyring only read, for a reference   *)
(* that no later entry overrides (resolve.rs Resolver, exec.rs build_env). *)
THEOREM ExecProviders == Spec => []OnlyNeededProviders
<1>1. DeliveryInv => OnlyNeededProviders
  BY DEF DeliveryInv
<1> QED BY <1>1, DeliveryInvariant, PTL

(* What an entry says it is, it is; and none is a secret.                  *)
LEMMA EntryKinds ==
    ASSUME NEW v \in Entry(Ref)
    PROVE  /\ v.is = "absent" => v = Absent
           /\ v.is = "plain" => v = Plain
           /\ v.is # "secret"
<1>1. CASE v \in [is : {"reference"}, ref : Ref]
  BY <1>1
<1>2. CASE v \in {Absent, Plain, Malformed, NotUnicode}
  <2>1. /\ Absent.is = "absent"
        /\ Plain.is = "plain"
        /\ Malformed.is = "malformed"
        /\ NotUnicode.is = "not unicode"
    BY DEF Absent, Plain, Malformed, NotUnicode
  <2>2. v = Absent \/ v = Plain \/ v = Malformed \/ v = NotUnicode
    BY <1>2
  <2> QED BY <2>1, <2>2
<1> QED BY <1>1, <1>2 DEF Entry

(* The handover gives the command a complete environment and no way to the *)
(* keyring: Spawn is the step FailClosed calls Start.                      *)
LEMMA SpawnIsStart == ASSUME DeliveryInv, Spawn PROVE Abstract!Start
<1>1. /\ phase = "spawn" /\ phase' = "started" /\ UNCHANGED <<run, env>>
      /\ fds' = [f \in Fd |-> IF fds[f] \in Remote THEN "free" ELSE fds[f]]
      /\ env \in [Name -> Entry(Ref) \cup Answered(Ref)] /\ run \in Runs
  BY DEF Spawn, DeliveryInv, ExecInv, ExecTypeOK
<1>2. Outcome = "running" /\ Outcome' = "started"
  BY <1>1 DEF Outcome, Over
<1>3. \A n \in Name : Abstract!Delivers(Wanted(run)[n], env[n])
  BY <1>1 DEF DeliveryInv, DeliveredBehind, Writing
<1>4. env \in [Name -> {Absent, Plain} \cup Answered(Ref)]
  <2>1. ASSUME NEW n \in Name PROVE env[n] \in {Absent, Plain} \cup Answered(Ref)
    <3>1. env[n] \in Entry(Ref) \cup Answered(Ref) /\ Wanted(run)[n] \in Entry(Ref)
      BY <1>1, WantedIsEntry
    <3>2. CASE env[n] = Wanted(run)[n] /\ Wanted(run)[n].is \in {"absent", "plain"}
      BY <3>1, <3>2, EntryKinds
    <3>3. CASE env[n].is = "secret"
      BY <3>1, <3>3, EntryKinds
    <3> QED BY <1>3, <3>2, <3>3 DEF Abstract!Delivers
  <2> QED BY <1>1, <2>1
<1>5. ~\E f \in Fd : fds'[f] = "keyring"
  BY <1>1 DEF DeliveryInv, ExecInv, KeyringOutOfReach
<1>6. Given' = [is |-> "process", env |-> env, keyring |-> FALSE]
  BY <1>1, <1>5 DEF Given
<1>7. /\ Given' \in [is : {"process"}, env : [Name -> {Absent, Plain} \cup Answered(Ref)],
                     keyring : {FALSE}]
      /\ Given'.env = env
  BY <1>4, <1>6
<1> QED BY <1>1, <1>2, <1>3, <1>7
        DEF Abstract!Start, Abstract!Absent, Abstract!Plain, Absent, Plain,
            Abstract!Answered, Answered, Abstract!Text, Text

(* exec keeps the one-step promise of FailClosed: a complete environment   *)
(* and no keyring in reach, or no command (exec.rs run).                   *)
THEOREM ExecFailsClosed == Spec => RefinesFailClosed
<1>1. Init => Abstract!Init
  <2> SUFFICES ASSUME Init PROVE Abstract!Init
    OBVIOUS
  <2>1. run \in Runs /\ phase = "collect"
    BY DEF Init
  <2>2. Wanted(run) \in [Name -> Entry(Ref)]
    BY <2>1, WantedIsEntry
  <2>3. Outcome = "running" /\ Given = [is |-> "nothing"]
    BY <2>1 DEF Outcome, Given, Over
  <2> QED BY <2>2, <2>3 DEF Abstract!Init, Abstract!Nothing, Abstract!Entry, Entry,
             Abstract!Absent, Absent, Abstract!Plain, Plain, Abstract!Malformed, Malformed,
             Abstract!NotUnicode, NotUnicode
<1>2. ASSUME DeliveryInv, [Next]_vars PROVE [Abstract!Next]_(Abstract!vars)
  <2>1. UNCHANGED run
    BY <1>2 DEF Next, ProcessStep, ServerAnswers, vars, execVars, Collect, RefuseEnvFile, LayerEntry,
         DropKeyVars, SkipValue, RefuseValue, AskValue, TakeValue, TakeSlot, ResolveFailed,
         EnvResolved, RefuseTemplate, TemplateRendered, AllRendered, OpenDst, SetMode, WritePart,
         WriteRest, WriteFails, AllWritten, CloseBeforeHandover, Spawn, SpawnFails, Kill, Restart
  <2>2. CASE Spawn
    BY <1>2, <2>2, SpawnIsStart DEF Abstract!Next
  <2>3. CASE phase \in Working /\ phase' = "failed"
    <3>1. Abstract!Fail
      BY <2>1, <2>3 DEF Abstract!Fail, Outcome, Given, Working, Over
    <3> QED BY <3>1 DEF Abstract!Next
  <2>4. CASE phase \in Over /\ phase' = "collect"
    <3>1. Abstract!Restart
      BY <2>1, <2>4 DEF Abstract!Restart, Abstract!Nothing, Outcome, Given, Over
    <3> QED BY <3>1 DEF Abstract!Next
  <2>5. CASE phase \in Working /\ phase' \in Working
    BY <2>1, <2>5 DEF Abstract!vars, Outcome, Given, Working, Over
  <2>6. CASE UNCHANGED vars
    BY <2>1, <2>6 DEF Abstract!vars, Outcome, Given, vars, execVars, resolverVars
  <2>7. \/ Spawn \/ UNCHANGED vars
        \/ phase \in Working /\ phase' = "failed"
        \/ phase \in Over /\ phase' = "collect"
        \/ phase \in Working /\ phase' \in Working
    BY <1>2 DEF Next, ProcessStep, ServerAnswers, execVars, Collect, RefuseEnvFile, LayerEntry,
         DropKeyVars, SkipValue, RefuseValue, AskValue, TakeValue, TakeSlot, ResolveFailed,
         EnvResolved, RefuseTemplate, TemplateRendered, AllRendered, OpenDst, SetMode, WritePart,
         WriteRest, WriteFails, AllWritten, CloseBeforeHandover, SpawnFails, Kill, Restart,
         AtVariable, AtSlot, Fail, Goto, Working
  <2> QED BY <2>2, <2>3, <2>4, <2>5, <2>6, <2>7
<1>3. DeliveryInv /\ [Next]_vars => [Abstract!Next]_(Abstract!vars)
  BY <1>2
<1> QED BY <1>1, <1>3, DeliveryInvariant, PTL DEF Spec, RefinesFailClosed, Abstract!Spec
=============================================================================
