-------------------------------- MODULE Exec --------------------------------
(***************************************************************************)
(* `sealref exec` (exec.rs): layer the environment, resolve it, render the *)
(* templates in memory, write them, close the keyring's descriptor and     *)
(* replace the process.  References are resolved by Resolver, whose steps  *)
(* interleave with the servers'.  The process may be killed at any point   *)
(* and a supervisor may run it again over the files it left behind.        *)
(***************************************************************************)
EXTENDS Resolver, Sequences

CONSTANTS
    N,            \* environment variables are 1..N, in the order of their names
    KeyVars,      \* those of KEY_SOURCE_VARS
    Path,         \* destinations of templates
    Runs,         \* the invocations considered
    MaxAttempts   \* bound: how often the supervisor runs the invocation

Name == 1..N

(* A dotenv file either parses into entries or is refused as a whole; a    *)
(* template is read or not, and has placeholders in source order.          *)
Placeholder == {Malformed} \cup [is : {"reference"}, ref : Ref]

EnvEntry == [name : Name, value : Placeholder \cup {Plain}]

EnvFile == [ok : BOOLEAN, entries : Seq(EnvEntry)]

Template == [ok : BOOLEAN, slots : Seq(Placeholder), dst : Path]

(* A file: who can read it, what is in it, and, if this program wrote it,  *)
(* which template of which attempt.                                        *)
File == [mode : {"absent", "private", "open"},
         data : {"none", "old", "empty", "partial", "full"},
         from : Nat \X Nat]

Found == {f \in File : f.data \in {"none", "old"} /\ (f.mode = "absent" <=> f.data = "none")}

Run == [inherited : [Name -> Entry(Ref)], envFiles : Seq(EnvFile),
        templates : Seq(Template), found : [Path -> Found]]

ASSUME NameAssumption == N \in Nat /\ KeyVars \subseteq Name
ASSUME RunAssumption == Runs \subseteq Run
ASSUME AttemptsAssumption == MaxAttempts \in Nat \ {0}

VARIABLES
    run,      \* the invocation, an element of Runs
    phase,    \* where run() is
    at,       \* the loop index of the phase: env file, variable or template
    sub,      \* the index inside it: dotenv entry or placeholder
    env,      \* the BTreeMap of build_env
    out,      \* the rendered templates: the texts put in each one's placeholders
    file,     \* the destinations
    attempt   \* which attempt of the supervisor this process is

execVars == <<run, phase, at, sub, env, out, file, attempt>>
vars == <<resolverVars, execVars>>

Working == {"collect", "layer", "resolve", "render", "open", "chmod", "write", "close", "spawn"}
Over    == {"started", "failed"}

NothingRendered(r) == [t \in DOMAIN r.templates |-> <<>>]

Init ==
    /\ ResolverInit
    /\ run \in Runs
    /\ phase = "collect"
    /\ at = 1
    /\ sub = 1
    /\ env = run.inherited
    /\ out = NothingRendered(run)
    /\ file = run.found
    /\ attempt = 1

(* Every error ends the run, whatever it was about.                        *)
Fail == phase' = "failed"

Goto(p) == phase' = p /\ at' = 1 /\ sub' = 1

-----------------------------------------------------------------------------
(* build_env: layering.                                                    *)

(* std::env::vars() panics on a value that is not Unicode.                 *)
Collect ==
    /\ phase = "collect"
    /\ IF \E n \in Name : env[n] = NotUnicode
       THEN Fail /\ UNCHANGED <<at, sub>>
       ELSE Goto("layer")
    /\ UNCHANGED <<resolverVars, run, env, out, file, attempt>>

(* parse_file refuses the whole file.                                      *)
RefuseEnvFile ==
    /\ phase = "layer" /\ at <= Len(run.envFiles)
    /\ ~run.envFiles[at].ok
    /\ Fail
    /\ UNCHANGED <<resolverVars, run, at, sub, env, out, file, attempt>>

(* Slip: entry().or_insert(), so that what is there already stays.         *)
KeepFirstEntry ==
    /\ phase = "layer" /\ at <= Len(run.envFiles)
    /\ run.envFiles[at].ok
    /\ IF sub <= Len(run.envFiles[at].entries)
       THEN LET e == run.envFiles[at].entries[sub]
            IN  /\ env' = IF env[e.name] = Absent THEN [env EXCEPT ![e.name] = e.value] ELSE env
                /\ sub' = sub + 1
                /\ UNCHANGED at
       ELSE at' = at + 1 /\ sub' = 1 /\ UNCHANGED env
    /\ UNCHANGED <<resolverVars, run, phase, out, file, attempt>>

(* insert(): the last entry of the last file wins.                         *)
LayerEntry ==
    /\ phase = "layer" /\ at <= Len(run.envFiles)
    /\ run.envFiles[at].ok
    /\ IF sub <= Len(run.envFiles[at].entries)
       THEN LET e == run.envFiles[at].entries[sub]
            IN  /\ env' = [env EXCEPT ![e.name] = e.value]
                /\ sub' = sub + 1
                /\ UNCHANGED at
       ELSE at' = at + 1 /\ sub' = 1 /\ UNCHANGED env
    /\ UNCHANGED <<resolverVars, run, phase, out, file, attempt>>

(* The keyring variables go once every file is layered and before anything *)
(* is resolved.                                                            *)
DropKeyVars ==
    /\ phase = "layer" /\ at > Len(run.envFiles)
    /\ env' = [n \in Name |-> IF n \in KeyVars THEN Absent ELSE env[n]]
    /\ Goto("resolve")
    /\ UNCHANGED <<resolverVars, run, out, file, attempt>>

-----------------------------------------------------------------------------
(* Resolving what stands in the environment and in the templates.          *)

(* The value the loop has come to: a variable's, or a placeholder's.       *)
AtVariable == phase = "resolve" /\ at \in Name

AtSlot ==
    /\ phase = "render" /\ at \in DOMAIN run.templates
    /\ run.templates[at].ok
    /\ sub \in DOMAIN run.templates[at].slots

Current == IF phase = "resolve" THEN env[at] ELSE run.templates[at].slots[sub]

(* Slip: what looks like a reference and is none is passed on as it is.    *)
SkipMalformed ==
    /\ AtVariable /\ env[at].is # "reference"
    /\ at' = at + 1
    /\ UNCHANGED <<resolverVars, run, phase, sub, env, out, file, attempt>>

SkipValue ==
    /\ AtVariable /\ ~IsReference(env[at])
    /\ at' = at + 1
    /\ UNCHANGED <<resolverVars, run, phase, sub, env, out, file, attempt>>

(* Reference::parse fails.                                                 *)
RefuseValue ==
    /\ AtVariable \/ AtSlot
    /\ Current = Malformed
    /\ Fail
    /\ UNCHANGED <<resolverVars, run, at, sub, env, out, file, attempt>>

AskValue ==
    /\ AtVariable \/ AtSlot
    /\ Current.is = "reference" /\ answer = Pending
    /\ Ask(Current.ref)
    /\ UNCHANGED execVars

Consume ==
    /\ stage = "idle" /\ answer.is = "secret"
    /\ answer' = Pending
    /\ UNCHANGED <<host, cached, token, agent, taken, fds, stage, ref, logins>>

TakeValue ==
    /\ AtVariable
    /\ Consume
    /\ env' = [env EXCEPT ![at] = answer]
    /\ at' = at + 1
    /\ UNCHANGED <<run, phase, sub, out, file, attempt>>

TakeSlot ==
    /\ AtSlot
    /\ Consume
    /\ out' = [out EXCEPT ![at] = Append(@, answer)]
    /\ sub' = sub + 1
    /\ UNCHANGED <<run, phase, at, env, file, attempt>>

(* The ? after resolve(): one failure ends the run.                        *)
ResolveFailed ==
    /\ phase \in {"resolve", "render"}
    /\ stage = "idle" /\ answer = Failed
    /\ Fail
    /\ UNCHANGED <<resolverVars, run, at, sub, env, out, file, attempt>>

EnvResolved ==
    /\ phase = "resolve" /\ at > N
    /\ Goto("render")
    /\ UNCHANGED <<resolverVars, run, env, out, file, attempt>>

RefuseTemplate ==
    /\ phase = "render" /\ at \in DOMAIN run.templates
    /\ ~run.templates[at].ok
    /\ Fail
    /\ UNCHANGED <<resolverVars, run, at, sub, env, out, file, attempt>>

(* Slip: each template is written as soon as it is rendered.               *)
WriteEachRendered ==
    /\ phase = "render" /\ at \in DOMAIN run.templates
    /\ run.templates[at].ok /\ sub > Len(run.templates[at].slots)
    /\ phase' = "open" /\ sub' = 1
    /\ UNCHANGED <<resolverVars, run, at, env, out, file, attempt>>

TemplateRendered ==
    /\ phase = "render" /\ at \in DOMAIN run.templates
    /\ run.templates[at].ok /\ sub > Len(run.templates[at].slots)
    /\ at' = at + 1 /\ sub' = 1
    /\ UNCHANGED <<resolverVars, run, phase, env, out, file, attempt>>

AllRendered ==
    /\ phase = "render" /\ at > Len(run.templates)
    /\ Goto("open")
    /\ UNCHANGED <<resolverVars, run, env, out, file, attempt>>

-----------------------------------------------------------------------------
(* write_private: open, set the mode, write.                               *)

Dst == run.templates[at].dst

(* open() creates with mode 0600, or truncates and keeps the mode there is. *)
OpenDst ==
    /\ phase = "open" /\ at \in DOMAIN run.templates
    /\ file' = [file EXCEPT ![Dst].data = "empty",
                            ![Dst].mode = IF @ = "absent" THEN "private" ELSE @]
    /\ phase' = "chmod"
    /\ UNCHANGED <<resolverVars, run, at, sub, env, out, attempt>>

(* Slip: no set_permissions, trusting the mode given to open().            *)
TrustMode ==
    /\ phase = "chmod"
    /\ phase' = "write"
    /\ UNCHANGED <<resolverVars, run, at, sub, env, out, file, attempt>>

SetMode ==
    /\ phase = "chmod"
    /\ file' = [file EXCEPT ![Dst].mode = "private"]
    /\ phase' = "write"
    /\ UNCHANGED <<resolverVars, run, at, sub, env, out, attempt>>

(* write_all is a loop of write(): the file may hold a part for a while.   *)
WritePart ==
    /\ phase = "write" /\ file[Dst].data = "empty"
    /\ file' = [file EXCEPT ![Dst].data = "partial", ![Dst].from = <<attempt, at>>]
    /\ UNCHANGED <<resolverVars, run, phase, at, sub, env, out, attempt>>

WriteRest ==
    /\ phase = "write"
    /\ file' = [file EXCEPT ![Dst].data = "full", ![Dst].from = <<attempt, at>>]
    /\ phase' = "open" /\ at' = at + 1
    /\ UNCHANGED <<resolverVars, run, sub, env, out, attempt>>

(* Slip: a failed write is not reported, and the loop goes on.             *)
ShrugOffFailure ==
    /\ phase \in {"open", "chmod", "write"} /\ at \in DOMAIN run.templates
    /\ phase' = "open" /\ at' = at + 1
    /\ UNCHANGED <<resolverVars, run, sub, env, out, file, attempt>>

(* open, fchmod or write fails.  Nothing is undone.                        *)
WriteFails ==
    /\ phase \in {"open", "chmod", "write"} /\ at \in DOMAIN run.templates
    /\ Fail
    /\ UNCHANGED <<resolverVars, run, at, sub, env, out, file, attempt>>

AllWritten ==
    /\ phase = "open" /\ at > Len(run.templates)
    /\ Goto("close")
    /\ UNCHANGED <<resolverVars, run, env, out, file, attempt>>

-----------------------------------------------------------------------------
(* The handover.                                                           *)

(* Slip: the descriptor is left to the command.                            *)
LeaveKeyFd ==
    /\ phase = "close"
    /\ Goto("spawn")
    /\ UNCHANGED <<resolverVars, run, env, out, file, attempt>>

CloseBeforeHandover ==
    /\ phase = "close"
    /\ CloseKeyFd
    /\ Goto("spawn")
    /\ UNCHANGED <<run, env, out, file, attempt>>

(* execvp: sockets are close-on-exec, other descriptors are inherited.     *)
Spawn ==
    /\ phase = "spawn"
    /\ phase' = "started"
    /\ fds' = [f \in Fd |-> IF fds[f] \in Remote THEN "free" ELSE fds[f]]
    /\ UNCHANGED <<host, cached, token, agent, taken, stage, ref, answer, logins>>
    /\ UNCHANGED <<run, at, sub, env, out, file, attempt>>

(* No such command, or not executable.                                     *)
SpawnFails ==
    /\ phase = "spawn"
    /\ Fail
    /\ UNCHANGED <<resolverVars, run, at, sub, env, out, file, attempt>>

-----------------------------------------------------------------------------
(* What others do to the process.                                          *)

(* Killed, at any point of the run.                                        *)
Kill ==
    /\ phase \in Working
    /\ Fail
    /\ UNCHANGED <<resolverVars, run, at, sub, env, out, file, attempt>>

(* The supervisor runs it again, over the same files.  A new process: its  *)
(* descriptor is there again, and nothing is cached.                       *)
Restart ==
    /\ phase \in Over /\ attempt < MaxAttempts
    /\ attempt' = attempt + 1
    /\ Goto("collect")
    /\ env' = run.inherited
    /\ out' = NothingRendered(run)
    /\ cached' = {} /\ token' = FALSE /\ agent' = "unbuilt" /\ taken' = FALSE
    /\ fds' = InitialFds(host)
    /\ stage' = "idle" /\ ref' = NoRef /\ answer' = Pending /\ logins' = 0
    /\ UNCHANGED <<host, run, file>>

ProcessStep ==
    \/ Collect \/ RefuseEnvFile \/ LayerEntry \/ DropKeyVars
    \/ SkipValue \/ RefuseValue \/ AskValue \/ TakeValue \/ TakeSlot \/ ResolveFailed
    \/ phase \in {"resolve", "render"} /\ OwnStep /\ UNCHANGED execVars
    \/ EnvResolved \/ RefuseTemplate \/ TemplateRendered \/ AllRendered
    \/ OpenDst \/ SetMode \/ WritePart \/ WriteRest \/ WriteFails \/ AllWritten
    \/ CloseBeforeHandover \/ Spawn \/ SpawnFails

ServerAnswers == phase \in {"resolve", "render"} /\ ServerStep /\ UNCHANGED execVars

Next == ProcessStep \/ ServerAnswers \/ Kill \/ Restart

(* The process is scheduled; servers, supervisor and killer owe nothing.   *)
Spec == Init /\ [][Next]_vars /\ WF_vars(ProcessStep)

-----------------------------------------------------------------------------
(* Properties.                                                             *)

(* Type correctness of what Exec adds to the resolver's state.             *)
ExecTypeOK ==
    /\ run \in Runs
    /\ phase \in Working \cup Over
    /\ at \in Nat \ {0} /\ sub \in Nat \ {0}
    /\ env \in [Name -> Entry(Ref) \cup Answered(Ref)]
    /\ out \in [DOMAIN run.templates -> Seq(Answered(Ref))]
    /\ file \in [Path -> File]
    /\ attempt \in 1..MaxAttempts

TypeOK == ResolverTypeOK /\ ExecTypeOK

(* What the layered environment holds for a name, by definition: the last  *)
(* entry of the last file that has one, else what was inherited; and never *)
(* a keyring variable.                                                     *)
After(p, q) == p[1] > q[1] \/ (p[1] = q[1] /\ p[2] > q[2])

Places(r, n) ==
    UNION {{<<i, j>> : j \in {k \in DOMAIN r.envFiles[i].entries :
                                 r.envFiles[i].entries[k].name = n}} : i \in DOMAIN r.envFiles}

Last(p, places) == \A q \in places : ~After(q, p)

ValueAt(r, p) == r.envFiles[p[1]].entries[p[2]].value

Layered(r, n) ==
    IF Places(r, n) = {}
    THEN r.inherited[n]
    ELSE ValueAt(r, CHOOSE p \in Places(r, n) : Last(p, Places(r, n)))

Wanted(r) == [n \in Name |-> IF n \in KeyVars THEN Absent ELSE Layered(r, n)]

(* What the command was given, as FailClosed sees it.                      *)
Outcome == IF phase \in Over THEN phase ELSE "running"

Given == IF phase = "started"
         THEN [is |-> "process", env |-> env, keyring |-> \E f \in Fd : fds[f] = "keyring"]
         ELSE [is |-> "nothing"]

Abstract == INSTANCE FailClosed WITH wanted <- Wanted(run), outcome <- Outcome, given <- Given

(* exec is the one-step promise of FailClosed: a complete environment and  *)
(* no keyring in reach, or no command.                                     *)
RefinesFailClosed == Abstract!Spec

(* A started command finds every template it was promised: whole, owner-   *)
(* only, written by this very attempt, and with a genuine secret for each  *)
(* placeholder, however earlier attempts ended (exec.rs render_templates). *)
StartedMeansRendered ==
    phase = "started" =>
        \A t \in DOMAIN run.templates :
            LET template == run.templates[t]
                later == {u \in DOMAIN run.templates : u > t /\ run.templates[u].dst = template.dst}
            IN  /\ later = {} => file[template.dst] =
                                   [mode |-> "private", data |-> "full", from |-> <<attempt, t>>]
                /\ Len(out[t]) = Len(template.slots)
                /\ \A s \in DOMAIN template.slots : Abstract!Delivers(template.slots[s], out[t][s])

(* No file that others can read ever holds rendered text, though it was    *)
(* there before with a wider mode (exec.rs write_private).                 *)
PrivateBeforeSecret ==
    \A p \in Path : file[p].data \in {"partial", "full"} => file[p].mode = "private"

(* No destination is touched while anything is left to resolve or render:  *)
(* a run that fails before that leaves the files as they were (exec.rs 7). *)
NothingWrittenEarly ==
    [][file' # file =>
          /\ \A n \in Name : ~IsReference(env[n])
          /\ \A t \in DOMAIN run.templates : Len(out[t]) = Len(run.templates[t].slots)]_vars

(* A provider is only set up for a reference that is really wanted: not    *)
(* for one an env file overrides or in a keyring variable (resolve.rs 3).  *)
Needed(r) ==
    {Wanted(r)[n].ref : n \in {m \in Name : Wanted(r)[m].is = "reference"}}
        \cup UNION {{slot.ref : slot \in {r.templates[t].slots[s] : s \in
                            {k \in DOMAIN r.templates[t].slots : r.templates[t].slots[k] # Malformed}}} :
                       t \in DOMAIN r.templates}

OnlyNeededProviders ==
    /\ cached \cap Remote \subseteq {r.provider : r \in Needed(run)}
    /\ "keyring" \in cached \/ (taken /\ phase \in {"resolve", "render"}) =>
           \E r \in Needed(run) : r.provider = "v1"

(* Every attempt ends: in the command, or in an error.  No server can keep *)
(* a container in start-up for ever.                                       *)
EveryAttemptEnds == phase \in Working ~> phase \in Over

(* conjur.rs 153 of an empty secret from a server: "would otherwise [...]  *)
(* start the application with an empty password, which is the one outcome  *)
(* a tool that fails closed must not have".                                *)
NoEmptyPassword ==
    phase = "started" =>
        \A n \in Name : env[n].is = "secret" /\ env[n].ref.provider \in Remote => env[n].text # "empty"

-----------------------------------------------------------------------------
(* The inductive invariant behind the safety properties.                   *)

(* The phases in which the environment is resolved, and those in which the *)
(* templates are all rendered as well.                                     *)
Writing == {"open", "chmod", "write", "close", "spawn", "started"}

(* The loop over the variables leaves no reference behind it.              *)
ResolvedBehind ==
    \A n \in Name :
        phase \in Writing \cup {"render"} \/ (phase = "resolve" /\ n < at) => ~IsReference(env[n])

(* The loop over the templates leaves each one complete behind it, works   *)
(* on one, and has not begun the others.                                   *)
Complete(t) == Len(out[t]) = Len(run.templates[t].slots)

RenderedBehind ==
    \A t \in DOMAIN run.templates :
        /\ phase \in Writing => Complete(t)
        /\ phase = "render" =>
              /\ t < at => Complete(t)
              /\ t = at => Len(out[t]) = sub - 1 /\ sub <= Len(run.templates[t].slots) + 1
              /\ t > at => out[t] = <<>>
        /\ phase \in {"collect", "layer", "resolve"} => out[t] = <<>>

(* A destination is being written only once its mode is set.               *)
ModeBeforeText ==
    /\ phase \in {"chmod", "write"} => at \in DOMAIN run.templates
    /\ phase = "write" => file[Dst].mode = "private"
    /\ PrivateBeforeSecret

(* From the close on, no descriptor leads to the keyring (exec.rs run).    *)
KeyringOutOfReach ==
    phase \in {"spawn", "started"} => \A f \in Fd : fds[f] # "keyring"

(* What every step of exec preserves: the resolver's invariant and the     *)
(* parts above, which together say how far each loop of run() has got.     *)
ExecInv ==
    /\ ResolverInv
    /\ ExecTypeOK
    /\ ResolvedBehind
    /\ RenderedBehind
    /\ ModeBeforeText
    /\ KeyringOutOfReach

(* The layering has dealt with the places before the one it has come to:   *)
(* each name holds what the last of them says, or what was inherited.      *)
Passed(n) == {p \in Places(run, n) : After(<<at, sub>>, p)}

LayeredBehind ==
    /\ phase = "collect" => env = run.inherited
    /\ phase = "layer" =>
          \A n \in Name :
              /\ run.inherited[n] # NotUnicode
              /\ Passed(n) = {} => env[n] = run.inherited[n]
              /\ Passed(n) # {} =>
                    \E p \in Passed(n) : Last(p, Passed(n)) /\ env[n] = ValueAt(run, p)

(* The loop over the variables delivers each one behind it and has left    *)
(* the others as they were layered.                                        *)
DeliveredBehind ==
    \A n \in Name :
        /\ phase = "resolve" =>
              /\ Wanted(run)[n] # NotUnicode
              /\ n < at => Abstract!Delivers(Wanted(run)[n], env[n])
              /\ n >= at => env[n] = Wanted(run)[n]
        /\ phase \in Writing \cup {"render"} => Abstract!Delivers(Wanted(run)[n], env[n])

(* What is being resolved, or has just been, is what the loop has come to. *)
AskedIsCurrent ==
    /\ phase \in {"collect", "layer"} => stage = "idle" /\ answer = Pending /\ ~taken
    /\ phase \in {"resolve", "render"} /\ (stage # "idle" \/ answer.is = "secret") =>
          /\ AtVariable \/ AtSlot
          /\ Current.is = "reference" /\ ref = Current.ref

(* What has been rendered stands for the placeholder it was rendered for.  *)
SlotsDelivered ==
    \A t \in DOMAIN run.templates :
        \A s \in DOMAIN out[t] :
            /\ s \in DOMAIN run.templates[t].slots
            /\ Abstract!Delivers(run.templates[t].slots[s], out[t][s])

(* The loop over the destinations leaves each one whole behind it, except  *)
(* that a later template of the same destination replaces it.              *)
Replaced(t) ==
    \E u \in DOMAIN run.templates :
        /\ u > t /\ run.templates[u].dst = run.templates[t].dst
        /\ phase \in {"open", "chmod", "write"} => u < at \/ (u = at /\ phase # "open")

WrittenBehind ==
    phase \in Writing =>
        \A t \in DOMAIN run.templates :
            (phase \in {"open", "chmod", "write"} => t < at) /\ ~Replaced(t) =>
                file[run.templates[t].dst] =
                    [mode |-> "private", data |-> "full", from |-> <<attempt, t>>]

(* What every step of exec preserves, and enough to say what the command   *)
(* is given.                                                               *)
DeliveryInv ==
    /\ ExecInv
    /\ LayeredBehind
    /\ DeliveredBehind
    /\ AskedIsCurrent
    /\ SlotsDelivered
    /\ WrittenBehind
    /\ OnlyNeededProviders
=============================================================================
