------------------------------ MODULE Resolver ------------------------------
(***************************************************************************)
(* One process's Resolver (resolve.rs) and the state it drags along: the   *)
(* keyring it loads lazily and at most once (keyring.rs), the descriptor   *)
(* that may carry the keyring, the provider configurations, the shared     *)
(* HTTP agent with its pooled connections (http.rs), and the Conjur access *)
(* token (conjur.rs).                                                      *)
(*                                                                         *)
(* resolve() is a sequence of steps here, because the servers, the clock   *)
(* and the kernel act between them: look the provider up, authenticate,    *)
(* send the request, receive the answer.  The caller asks for one          *)
(* reference at a time and sees `answer` when `stage` is idle again.       *)
(***************************************************************************)
EXTENDS Naturals, References

CONSTANTS
    Ref,      \* the references the caller may ask for
    Hosts,    \* the environments the process may find itself in
    Fd,       \* descriptor numbers
    KeyFd,    \* the number SEALREF_KEY_FD holds
    NoKey     \* "this keyring has no such kid"

(* Where a keyring can come from, in order of precedence.                  *)
Source == {"fd", "file", "default", "inline"}

(* A keyring as parsed; the one without keys stands for every source that  *)
(* cannot be read, does not parse, or parses to nothing: all are errors.   *)
Ring == [Kid -> Key \cup {NoKey}]

Usable(ring) == \E k \in Kid : ring[k] # NoKey

(* What the process finds around it and cannot change: the key sources     *)
(* present and what each holds, whether SEALREF_KEY_FD is a number, the    *)
(* providers whose settings are complete and readable, the kind of Conjur  *)
(* credential, and whether the TLS material loads.                         *)
Host == [present : SUBSET Source, ring : [Source -> Ring], number : BOOLEAN,
         set : SUBSET Remote, credential : {"token", "api key"}, tls : BOOLEAN]

ASSUME RefAssumption == Ref \subseteq Reference
ASSUME HostAssumption == Hosts \subseteq Host
ASSUME FdAssumption == Fd \subseteq Nat /\ KeyFd \in Fd
ASSUME NoKeyAssumption == NoKey \notin Key

VARIABLES
    host,      \* the environment of this process, an element of Hosts
    cached,    \* the Option fields of Resolver that are Some
    token,     \* ConjurConfig.token holds a token
    agent,     \* the OnceLock in http.rs: unbuilt, ready or broken
    taken,     \* KEY_FD_TAKEN
    fds,       \* what each descriptor number is open on
    stage,     \* where resolve() is
    ref,       \* the reference being resolved, or last resolved
    answer,    \* what resolve() returned
    logins     \* access tokens the Conjur server has issued to this process

resolverVars == <<host, cached, token, agent, taken, fds, stage, ref, answer, logins>>

NoRef   == [provider |-> "none"]
Pending == [is |-> "pending"]
Failed  == [is |-> "failed"]
Answer  == {Pending, Failed} \cup Answered(Ref)

KeyFdGiven(h) == "fd" \in h.present /\ h.number

InitialFds(h) ==
    [f \in Fd |-> IF f = KeyFd /\ KeyFdGiven(h) THEN "keyring" ELSE "free"]

ResolverInit ==
    /\ host \in Hosts
    /\ cached = {}
    /\ token = FALSE
    /\ agent = "unbuilt"
    /\ taken = FALSE
    /\ fds = InitialFds(host)
    /\ stage = "idle"
    /\ ref = NoRef
    /\ answer = Pending
    /\ logins = 0

-----------------------------------------------------------------------------
(* Finishing a resolve.                                                    *)

Return(a) == stage' = "idle" /\ answer' = a

(* The caller hands over the next reference.                               *)
Ask(r) ==
    /\ stage = "idle"
    /\ stage' = "provider"
    /\ ref' = r
    /\ answer' = Pending
    /\ UNCHANGED <<host, cached, token, agent, taken, fds, logins>>

-----------------------------------------------------------------------------
(* The keyring.                                                            *)

Order == <<"fd", "file", "default", "inline">>

(* Slip: prefer the first source that works to the first that is present.  *)
DetectUsable(h) ==
    LET first == {s \in h.present : Usable(h.ring[s])}
        found == IF first = {} THEN h.present ELSE first
        i == CHOOSE i \in DOMAIN Order : /\ Order[i] \in found
                                         /\ \A j \in 1..(i-1) : Order[j] \notin found
    IN  Order[i]

(* detect_source: the head of present_sources, whatever it turns out to    *)
(* hold.  Only asked when some source is present.                          *)
DetectSource(h) ==
    LET i == CHOOSE i \in DOMAIN Order : /\ Order[i] \in h.present
                                         /\ \A j \in 1..(i-1) : Order[j] \notin h.present
    IN  Order[i]

(* read_fd: the descriptor is consumed once per process.  Dropping the     *)
(* File closes the number, whatever reading it gave.                       *)
TakeKeyFd ==
    /\ taken' = TRUE
    /\ fds' = [fds EXCEPT ![KeyFd] = "free"]

(* keyring(): load from the first source present, and keep it on success.  *)
LoadKeyring ==
    /\ stage = "provider"
    /\ ref.provider = "v1"
    /\ "keyring" \notin cached
    /\ LET source == DetectSource(host)
           reads  == /\ host.present # {}
                     /\ source = "fd" => host.number /\ ~taken
       IN  /\ IF reads /\ source = "fd"
              THEN TakeKeyFd
              ELSE UNCHANGED <<taken, fds>>
           /\ IF reads /\ Usable(host.ring[source])
              THEN cached' = cached \cup {"keyring"} /\ UNCHANGED <<stage, answer>>
              ELSE Return(Failed) /\ UNCHANGED cached
    /\ UNCHANGED <<host, token, agent, ref, logins>>

(* get(kid), then open_string: the tag check fails under any other key,    *)
(* and the plaintext has to be UTF-8.                                      *)
OpenSealed ==
    /\ stage = "provider"
    /\ ref.provider = "v1"
    /\ "keyring" \in cached
    /\ LET key == host.ring[DetectSource(host)][ref.kid]
       IN  Return(IF key # NoKey /\ key = ref.key /\ ref.text # "binary"
                  THEN Secret(ref, ref.text)
                  ELSE Failed)
    /\ UNCHANGED <<host, cached, token, agent, taken, fds, ref, logins>>

-----------------------------------------------------------------------------
(* Remote providers: settings, agent, connections.                         *)

(* vault(), conjur(), ccp(): read the settings on first use.  A missing    *)
(* variable, an unreadable credential file or a malformed token is an      *)
(* error, and nothing is kept.                                             *)
LoadConfig ==
    /\ stage = "provider"
    /\ ref.provider \in Remote \ cached
    /\ IF ref.provider \in host.set
       THEN cached' = cached \cup {ref.provider} /\ UNCHANGED <<stage, answer>>
       ELSE Return(Failed) /\ UNCHANGED cached
    /\ UNCHANGED <<host, token, agent, taken, fds, ref, logins>>

(* agent(): built once; that it could not be built is remembered too.      *)
BuiltAgent ==
    CASE agent # "unbuilt" -> agent
      [] agent = "unbuilt" /\ host.tls -> "ready"
      [] OTHER -> "broken"

(* A request goes out on the pooled connection to that server if there is  *)
(* one, and otherwise on a new socket, which the kernel gives the lowest   *)
(* free number: the one the keyring had, once that is closed.              *)
Connected(p) ==
    LET free == {f \in Fd : fds[f] = "free"}
    IN  IF \E f \in Fd : fds[f] = p
        THEN fds
        ELSE [f \in Fd |-> IF f \in free /\ \A g \in free : f <= g THEN p ELSE fds[f]]

(* Once an exchange is over its connection is pooled or closed.            *)
Disconnected(p) == [f \in Fd |-> IF fds[f] = p THEN "free" ELSE fds[f]]

Settle == fds' \in {fds, Disconnected(ref.provider)}

(* A configuration that has what it needs to talk to its server.           *)
Configured == stage = "provider" /\ ref.provider \in cached \cap Remote

NeedsToken == ref.provider = "conjur" /\ ~token

(* access_token() with a token in the environment: no exchange.            *)
UseGivenToken ==
    /\ Configured /\ NeedsToken
    /\ host.credential = "token"
    /\ token' = TRUE
    /\ UNCHANGED <<host, cached, agent, taken, fds, stage, ref, answer, logins>>

(* What the next request of this resolve is: the exchange of an API key    *)
(* for a token, or the read of the secret.                                 *)
Request == IF NeedsToken THEN "login" ELSE "read"

(* The request is on its way; or there is no agent, or no connection.      *)
Send ==
    /\ Configured
    /\ NeedsToken => host.credential = "api key"
    /\ agent' = BuiltAgent
    /\ \/ /\ agent' = "ready"
          /\ fds' = Connected(ref.provider)
          /\ \E f \in Fd : fds'[f] = ref.provider
          /\ stage' = Request
          /\ UNCHANGED answer
       \/ Return(Failed) /\ UNCHANGED fds
    /\ UNCHANGED <<host, cached, token, taken, ref, logins>>

-----------------------------------------------------------------------------
(* Answers.                                                                *)

(* What a server can send: the status class, whether the end of the body   *)
(* is announced (Content-Length or chunked), whether the connection ended  *)
(* before the body did, whether the body is UTF-8, and what it says.       *)
Body == {"value", "empty", "null", "not a string", "no such field", "not the shape"}

Response ==
    [ok : BOOLEAN, framed : BOOLEAN, cut : BOOLEAN, utf8 : BOOLEAN, body : Body]

(* Conjur sends the bare text; Vault and CyberArk wrap it in JSON, which   *)
(* parses neither when a part of it is missing nor when it is empty.       *)
Bare == ref.provider = "conjur"

(* Slip: read_text without has_framing.  A body that ends with the         *)
(* connection then counts as read, wherever it ended.                      *)
ReadsUnframed(r) == r.utf8 /\ (r.framed => ~r.cut)

(* read_text: the whole body, its end announced, decoded strictly.  (One   *)
(* that is longer than BODY_LIMIT is an error, like one that is cut.)      *)
Reads(r) == r.framed /\ ~r.cut /\ r.utf8

(* The text a body that was read amounts to.                               *)
TextOf(r) ==
    CASE r.cut -> "cut"
      [] ~r.cut /\ ~r.utf8 -> "mangled"
      [] OTHER -> IF r.body = "empty" THEN "empty" ELSE "value"

(* extract_field (vault.rs, ccp.rs) and the tail of read_variable: a JSON  *)
(* string of any length, "empty" among them, or a bare text of at least    *)
(* one byte.                                                               *)
Extracts(r) ==
    IF Bare THEN r.body # "empty" ELSE ~r.cut /\ r.body \in {"value", "empty"}

(* The secret arrives, or something else does.                             *)
ReadAnswered(r) ==
    /\ stage = "read"
    /\ Return(IF r.ok /\ Reads(r) /\ Extracts(r) THEN Secret(ref, TextOf(r)) ELSE Failed)
    /\ Settle
    /\ UNCHANGED <<host, cached, token, agent, taken, ref, logins>>

(* Slip: access_token that does not store what it obtained.                *)
LoginForgotten(r) ==
    /\ stage = "login"
    /\ IF r.ok /\ Reads(r) /\ r.body = "value"
       THEN logins' = logins + 1 /\ stage' = "read" /\ UNCHANGED <<token, answer>>
       ELSE Return(Failed) /\ UNCHANGED <<token, logins>>
    /\ Settle
    /\ UNCHANGED <<host, cached, agent, taken, ref>>

(* authenticate: the body is a token if normalise_token takes it; then it  *)
(* is kept, and the resolve goes on to its read.                           *)
LoginAnswered(r) ==
    /\ stage = "login"
    /\ IF r.ok /\ Reads(r) /\ r.body = "value"
       THEN /\ token' = TRUE
            /\ logins' = logins + 1
            /\ stage' = "provider"
            /\ UNCHANGED answer
       ELSE Return(Failed) /\ UNCHANGED <<token, logins>>
    /\ Settle
    /\ UNCHANGED <<host, cached, agent, taken, ref>>

(* Slip: an agent configured without timeout_global and its companions.    *)
NeverTimesOut == FALSE /\ UNCHANGED resolverVars

(* No answer: refused, reset, or out of time (TIMEOUT, DEADLINE).          *)
NoAnswer ==
    /\ stage \in {"login", "read"}
    /\ Return(Failed)
    /\ Settle
    /\ UNCHANGED <<host, cached, token, agent, taken, ref, logins>>

(* The steps resolve() takes by itself, and those a server has a part in.  *)
OwnStep == LoadKeyring \/ OpenSealed \/ LoadConfig \/ UseGivenToken \/ Send \/ NoAnswer

ServerStep == \E r \in Response : LoginAnswered(r) \/ ReadAnswered(r)

-----------------------------------------------------------------------------
(* Slip: close_key_fd without the swap, closing whatever has the number.   *)
CloseWhatever ==
    /\ IF KeyFdGiven(host) THEN TakeKeyFd ELSE UNCHANGED <<taken, fds>>
    /\ UNCHANGED <<host, cached, token, agent, stage, ref, answer, logins>>

(* close_key_fd: close the keyring's descriptor unless it has been taken.  *)
CloseKeyFd ==
    /\ IF KeyFdGiven(host) /\ ~taken THEN TakeKeyFd ELSE UNCHANGED <<taken, fds>>
    /\ UNCHANGED <<host, cached, token, agent, stage, ref, answer, logins>>

(* A program that links the library: it asks in any order, goes on after a *)
(* failure, and may close the keyring descriptor between two resolves.     *)
ResolverNext ==
    \/ \E r \in Ref : Ask(r)
    \/ OwnStep
    \/ ServerStep
    \/ stage = "idle" /\ CloseKeyFd

ResolverSpec ==
    /\ ResolverInit
    /\ [][ResolverNext]_resolverVars
    /\ WF_resolverVars(OwnStep)

-----------------------------------------------------------------------------
(* Properties.                                                             *)

(* Type correctness.                                                       *)
ResolverTypeOK ==
    /\ host \in Hosts
    /\ cached \subseteq {"keyring"} \cup Remote
    /\ token \in BOOLEAN
    /\ agent \in {"unbuilt", "ready", "broken"}
    /\ taken \in BOOLEAN
    /\ fds \in [Fd -> {"free", "keyring"} \cup Remote]
    /\ stage \in {"idle", "provider", "login", "read"}
    /\ ref \in Ref \cup {NoRef}
    /\ answer \in Answer
    /\ logins \in Nat

(* What resolve() returns is what is stored, whole and unaltered, for the  *)
(* reference it was asked: never a body cut short or decoded with losses   *)
(* (http.rs read_text).                                                    *)
AnswersAreGenuine ==
    answer.is = "secret" => answer.ref = ref /\ answer.text \in Genuine

(* An empty Conjur variable is refused, not returned (conjur.rs 153).      *)
ConjurNeverEmpty ==
    answer.is = "secret" /\ answer.ref.provider = "conjur" => answer.text # "empty"

(* A v1 reference is opened with the keyring of the first source present:  *)
(* one that is broken, or lacks the kid, is an error and no reason to try  *)
(* a source it outranks (keyring.rs load).                                 *)
OutrankedNeverUsed ==
    answer.is = "secret" /\ answer.ref.provider = "v1" =>
        \E i \in DOMAIN Order :
            /\ Order[i] \in host.present
            /\ host.ring[Order[i]][answer.ref.kid] = answer.ref.key
            /\ \A j \in 1..(i-1) : Order[j] \notin host.present

(* However many references a process resolves, it obtains at most one      *)
(* Conjur token (conjur.rs access_token).                                  *)
OneLogin == logins <= 1

(* The keyring's descriptor is open exactly until somebody takes it, so    *)
(* once close_key_fd has run it is not inherited by anyone.                *)
KeyFdAccountedFor ==
    \A f \in Fd : fds[f] = "keyring" <=> f = KeyFd /\ KeyFdGiven(host) /\ ~taken

(* Between exchanges no step closes a pooled connection: in particular the *)
(* keyring's descriptor is never closed a second time, when its number may *)
(* be a socket's (keyring.rs KEY_FD_TAKEN).                                *)
SocketsUndisturbed ==
    [][(stage \in {"idle", "provider"}) =>
          \A f \in Fd : fds[f] \in Remote => fds'[f] = fds[f]]_resolverVars

(* Every resolve comes back, though a server may never answer: the agent's *)
(* timeouts bound each exchange (http.rs build_agent).                     *)
EveryAskReturns == stage # "idle" ~> stage = "idle"

-----------------------------------------------------------------------------
(* The inductive invariant behind the safety properties.                   *)

(* A Conjur token is issued only while there is none, and only to a        *)
(* resolve of a Conjur reference.                                          *)
TokenKept ==
    /\ ~token => logins = 0
    /\ stage = "login" => ~token /\ ref.provider = "conjur"

(* The keyring that is cached came from a source that is present.          *)
KeyringHasSource == "keyring" \in cached => host.present # {}

(* A resolve under way has a reference, and none has an answer yet; only   *)
(* a server is asked over the network.                                     *)
StageConsistent ==
    /\ stage # "idle" => ref \in Ref /\ answer = Pending
    /\ stage \in {"login", "read"} => ref.provider \in Remote

ResolverInv ==
    /\ ResolverTypeOK
    /\ AnswersAreGenuine
    /\ ConjurNeverEmpty
    /\ OutrankedNeverUsed
    /\ OneLogin
    /\ KeyFdAccountedFor
    /\ TokenKept
    /\ KeyringHasSource
    /\ StageConsistent
=============================================================================
