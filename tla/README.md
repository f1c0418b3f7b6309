# A verification development for SealRef

SealRef (`src/`) keeps secrets out of environment files: a value is either a `seal:v1`
reference, which carries a ciphertext, or a locator (`seal:vault`, `seal:conjur`, `seal:ccp`)
that a secret server answers for. `sealref exec` resolves every reference in an environment
and in templates and then becomes the application; `sealref protect` and `sealref rewrap`
rewrite files in place. The program is one process and mostly sequential. What is hard in it is
what happens around it: servers that answer late, partly or not at all, a descriptor that holds
the keyring and whose number is reused, kills and supervised restarts over half-written files,
and several invocations on one file. Beside that stand parsers and scanners that decide, by byte
positions, which bytes of a file or of a URL are a secret's, and an operator who edits the keyring
and renews certificates while commands run.

This directory holds TLA+ modules that model that, TLC runs that check small instances, and
TLAPS proofs for every instance. Paths below are under `src/src/` unless they say otherwise.

## Inventory

| Component | State it keeps | Operations | What makes it correct |
|---|---|---|---|
| `resolve.rs` | four lazily filled `Option`s: keyring, vault, conjur, ccp | `resolve`, `unseal`, `keyring` | a provider is set up only for a reference to it; an answer is the stored text of that reference |
| `keyring.rs` | the keys; the process-wide flag `KEY_FD_TAKEN`; the descriptor itself | `detect_source`, `load`, `read_fd`, `close_key_fd`, `get`, `parse`, `derive_key` | the first source present decides, whatever it holds; the descriptor is closed exactly once |
| `http.rs` | the shared agent in a `OnceLock`, its connection pool | `agent`, `check`, `read_text` | every exchange ends; a body is whole and unaltered or refused |
| `vault.rs`, `ccp.rs` | settings and token | `from_env`, `read_field`, `extract_field` | a field of the right type or an error |
| `conjur.rs` | settings, credential, cached access token | `from_env`, `read_variable`, `access_token`, `authenticate`, `normalise_token` | one login per run; never an empty secret |
| `http.rs`, TLS part | trust anchors, client certificate and key, read from three files | `tls_config`, `root_certs`, `client_identity`, `validate_identity` | one file's anchors or the built-in ones; never an identity the first connection panics on |
| `crypto.rs` | none | `seal`, `open`, `open_string` | opens under the sealing key and kid only |
| `reference.rs`, `http.rs` `percent_encode`, the providers' URL builders | none | `parse`, `locator`, `data_url`, `secret_url`, `request_url` | the server reads out of the URL what the text names |
| `template.rs`, `dotenv.rs` | cursors of their loops | `placeholders`, `render`, `v1_tokens`, `rewrap_text`, `parse` | what is written reads back; no byte outside a token changes |
| `exec.rs` | the layered environment, the rendered templates, the destinations | `build_env`, `render_templates`, `write_private`, `run`, `spawn` | all or nothing; no keyring within the command's reach; owner-only files |
| `protect.rs`, `main.rs` (`protect`, `rewrap`, `replace_file`) | texts in memory, a temporary file beside each target | read, transform, replace | a file is old or new, never between; exit 0 means done |
| `check.rs` | none | `check_value`, `check_file`, `run` | it fails exactly what `protect` would seal or refuse |
| `info.rs` | none | `Info::new`, `exit_code` | it names the source and the key that the other commands use |
| `main.rs` (`seal`, `unseal`, `keygen`, `rewrap`) with a keyring that is edited | files of references, keyring lines | as named | a rotation loses no secret |
| `lib.rs`, argument parsing | none | date stamp, error wording | not modelled |

How they interact: `main.rs` calls `exec::run`, which calls `Resolver::resolve` once per
reference in a loop; the resolver calls a provider, the provider calls the shared agent. The
keyring's descriptor number is shared between `read_fd`, `close_key_fd`, the sockets the agent
opens and, across `execvp`, the command. `protect` and `rewrap` share `replace_file`, and
invocations share the file system.

The behaviours a test hardly reaches are listed with their lines under `hazards` in
`PROJECT.json`, each with the properties that cover it or the reason none does.

## Modules

| Module | Models | Builds on |
|---|---|---|
| `References` | references, entries, resolved texts | |
| `Resolver` | `resolve.rs`, the loading side of `keyring.rs`, the providers, `http.rs` | `References` |
| `FailClosed` | abstract: what `exec` promises, in one step | `References` |
| `Exec` | `exec.rs` and the processes around it | `Resolver`, refines `FailClosed` |
| `SealedText` | what `protect` and `rewrap` make of a text | |
| `AtomicRewrite` | abstract: what an in-place rewrite looks like from outside | `SealedText` |
| `Rewrite` | `protect`, `rewrap`, `replace_file` over a file system | `SealedText`, refines `AtomicRewrite` |
| `Texts` | texts, and the `str` operations the scanners use | |
| `Braces` | what a placeholder is, said without a cursor | `Texts` |
| `Templates` | `template.rs`: both scanners, `render`, `rewrap_text` | `Braces` |
| `Dotenv` | `dotenv.rs`: lines, quoting, value spans, as operators | `Texts` |
| `Check` | `check.rs`: findings and exit codes, as operators | `Braces`, `Dotenv` |
| `Protect` | `protect.rs`: `protect_text`, an entry a step | `Check` |
| `KeyringText` | `keyring.rs`: `Keyring::parse`, a line a step, and edits of the text | `Texts` |
| `Rotation` | `seal`, `unseal`, `info`, `rewrap` as processes beside an operator | |
| `TlsSetup` | `http.rs`: `build_agent`, `tls_config`, while files are renewed | |
| `Credentials` | `conjur.rs`: `Credential::from_env`, `normalise_token`, `authenticate` | `Texts` |
| `Urls` | `reference.rs`, the URL builders, and a server that reads the URL | `Texts` |
| `MCResolver`, `MCExec`, `MCRewrite`, `MCTemplates`, `MCProtect` | the instances TLC checks | the module they are named for |
| `MCKeyring` | the instance of a keyring, as a text and in use | `KeyringText`, `Rotation` |
| `MCRemote` | the instance of what a remote read needs | `TlsSetup`, `Credentials`, `Urls` |
| `ExecProofs` | the proofs about `Resolver` and `Exec` | `Exec`, a lemma of `TextProofs` |
| `RewriteProofs` | the proofs about `Rewrite` | `Rewrite` |
| `RotationProofs` | the proofs about `Rotation` | `Rotation` |
| `TextProofs` | lemmas about the operators of `Texts`, and the least and greatest number of a set | `Texts` |
| `TemplateProofs` | the proofs about `Templates` | `Templates`, `TextProofs` |
| `KeyringProofs` | the proofs about `KeyringText` | `KeyringText`, `TextProofs` |
| `RemoteProofs` | the proofs about `TlsSetup`, `Credentials` and `Urls` | all three, `TextProofs` |
| `ProtectProofs` | the proofs about `Protect`, and so about `Dotenv` and `Check` | `Protect`, `TextProofs` |

A definition whose comment starts with "Slip:" is not part of the model. It is a plausible bug
in the definition after it, and `PROJECT.json` names the property that catches it.

### Resolver

One process's resolver. `resolve()` is a sequence of steps because servers, clock and kernel act
between them; `stage` is where it is, `answer` is what it returned. A caller takes one `Ask` at a
time and may ask in any order and go on after an error, as a program that links the crate can.

- `LoadKeyring` is `keyring()` with `load`, `load_from` and `read_fd`: it takes the first source
  of `Order` that is present. From the descriptor it sets `taken` and frees the number, whatever
  reading it gave; a second attempt is an error. `OpenSealed` is `get` and `open_string`.
- `LoadConfig` is the three `from_env`s; `BuiltAgent` the `OnceLock`, which keeps an error too.
- `Send` takes a connection from the pool or opens a socket, which gets the lowest free
  descriptor number. That is where the keyring's number comes back as a socket's.
- `LoginAnswered`, `ReadAnswered` and `NoAnswer` are what can come back: any status, framed or
  not, cut or whole, valid UTF-8 or not, and six kinds of content. `Reads` is `read_text`,
  `Extracts` the provider's reading of the body. A body over `BODY_LIMIT` counts as cut.
- `CloseKeyFd` is `close_key_fd`. In the module on its own the caller may call it between any two
  resolves and more than once; `Exec` calls it where `exec.rs` does.

Abstracted: a text is only whole, empty, cut or mangled; TLS material loads or does not; a
credential is a token or an API key; a keyring is a map from kids to keys, and one that cannot be
read or parsed is the map without keys. Assumed, as `keyring.rs:407` does: the number in
`SEALREF_KEY_FD`, if it is one, is an open descriptor that holds the keyring.

### FailClosed and Exec

`FailClosed` has three actions: the command starts with every entry delivered and no keyring in
reach; the attempt fails; a supervisor tries again. `Exec` is `run()` step by step over the
Resolver's own steps: `Collect`, `LayerEntry`, `DropKeyVars`; then per value `SkipValue`,
`RefuseValue` or `AskValue` followed by `TakeValue`, `TakeSlot` or `ResolveFailed`; then
`OpenDst`, `SetMode`, `WritePart`, `WriteRest` per template; then `CloseBeforeHandover` and
`Spawn`. Every `?` is an action that ends the run. `Kill` may happen anywhere before the command
runs, and `Restart` starts a new process over the files the last one left. The refinement maps
`wanted` to the layered environment by its definition (last entry of the last file, keyring
variables gone), `outcome` to the end of the attempt and `given` to what `execvp` passed on.

Abstracted: an env file is refused or yields entries; a template is a sequence of placeholders.
Left out: Windows (`spawn` there waits for a child), `split_template_spec`, argument passing.

### SealedText, AtomicRewrite and Rewrite

A file is a set of values, its mode, and whether it is whole. `Rewrite` follows `protect`
(all files are read and transformed, then all written) and `rewrap` (one file after the other)
through `replace_file` on a POSIX file system: names lead to inodes, writes go to the inode a
process opened, while chmod, rename and unlink go by name. `IoFails`, `Kill`, `PowerLoss` and
`Writeback` are the environment's. `AtomicRewrite` is what an observer of the paths may see: a
file goes from its text to the text a command makes of it in one step, keeps its mode, and is
never missing or cut, but for a power loss, which may take what was put under a name since the
disk was last written. That exception is the refinement's, so that every other fault can be
checked together with it; `NeverWrittenInPlace` says what is left of the promise then: nothing
writes to an inode that a path leads to, so what was on the disk under a name stays. The
exception itself is a finding, below.

A text that is cut short is taken to be one that neither command accepts. That is the harmless
case; a dotenv file cut between two lines would parse.

### Texts, Braces and Templates

A text is a sequence of symbols: a byte each, but for words such as `seal` of which no scanner
looks at a part. `Texts` has the `str` operations; positions count from 1 and ranges end before
their end. `Templates` has four loops of `template.rs`, an iteration a step: `FindPlaceholder`,
`PassOver` and `ScanEnds` are `placeholders`; `FindToken`, `SkipMarker` and `ScanEnds` are
`v1_tokens`; `Substitute`, `Refuse` and `CopyRest` are `render`; `Keep`, `Replace`, `Refuse` and
`CopyRest` are `rewrap_text`. `EveryPlaceholderFound` compares the scan with `Braces`, which
defines a placeholder by its position, and `EveryTokenFound` with `TokensOf`, which takes the
longest text that `reference.rs` `parse_v1` accepts, leftmost first. Both are definitions without
a cursor. The first is about placeholders that do not stand right behind a brace. Of the others
the code promises as much and does not keep it: `EveryOccurrenceReplaced` is violated, see below.
`HasPlaceholder` in `Braces` is what `check`, `protect` and `exec` take for a template, by the same
scan, and so leaves out what the scan overlooks. A ciphertext may have any length here.

### Dotenv, Check and Protect

`Dotenv` is the parser as operators: `LineEntry` gives the entry of one line with the span of its
value, `Entries` those of a text, `Refused` says that the file is an error. `Check` adds
`check_value`, `check_file` and the exit code. `Protect` is the loop of `protect_text`: the text
is refused at once, or each entry is left, refused or sealed, and `CopyRest` ends it. The value's
span is where `SealEntry` splices. `Opens` in the properties is what a reference written there
will open to. Files as a whole are left to `Rewrite`.

`ReadsBack` parses the new text again and compares it with the old one entry by entry.
`CheckIsDryRun` relates two pieces of code that decide separately. It is about a file that
`protect` accepts, and with private key blocks apart, which `check` reports and `protect` does not
touch. A dotenv file with one placeholder, in a comment even, is a template to `check`
(`check.rs:150`), which then does not look at its values, and is refused by `protect`. That
`protect` never makes a template of a dotenv file is a part of `ProtectedPasses`.

Abstracted: names match a sensitive pattern or do not (`PASS`, `USER`); of the escapes, `\n`
stands for those that make a control character; a reference is well-formed or not.

### KeyringText

`Keyring::parse`, a line a step (`SkipLine`, `TakeKey`, `RefuseLine`, `EndOfText`), over a text
that comes from a file or from `SEALREF_KEY`, where `;` ends a line too (`Delivered`). Once parsed,
an operator changes the text once, as a rotation does, and it is loaded again. A kid's bytes are
symbols of `Kid`; 32 bytes in base64url are one symbol; a passphrase and a kid are a key.
`RotationKeepsKeys` has four parts. `AddsItsKey`: a line of `keygen` put first or behind an ended
last line adds its key and leaves the others, and is refused only if its own kid is in the ring.
`OthersStay`: to a text that does not end its last line, the shell's `>>` glues the new line on,
and then every key but the last stays what it was. `TakesItsKey`: a line removed takes its own key
and no other, and is refused only if no key is left. `AddsNone`: in `SEALREF_KEY` a line of the
text can be a piece of a passphrase with a `;`, and of its removal only this is said, that every
key which is left was there before.

### Rotation

Shells run commands, each a process that finds the keyring's source (`Detect`), loads it (`Load`)
and works (`Seal`, `Unseal`, `Info`, `Rewrap` then `Write`), and between any two of these steps an
operator appends a line made by `keygen`, puts a line first, removes a line, or makes the default
file come and go. `Drop` removes a line that is `Retired`, that is, no reference in the file has its
kid and no command runs, as the last step of a rotation does; and, at any moment and whatever runs,
one that is `Newer` than another line with its kid, which is how an operator gets out of a kid that
`keygen` proposed twice. `keygen` does not look at the keyring, so `AppendLine` may bring such a
second line, and a promotion may put it in front of the first. `Scenes` says who does what, so that two
questions are asked: one person who rotates keys, and `info` beside `seal`. A
ciphertext is the kid, key and text it was made of; `unseal` refuses what is not UTF-8.
There is one writer of the file at a time (`OneEditor`, which TLC evaluates for the scenes). With
two, `rewrap` writes back what it read and an entry put in meanwhile is lost; the code does not
guard against that. Who opens references does so where the default file does not come and go
(`OpenedWhereItIs`).

### TlsSetup, Credentials and Urls

`TlsSetup` is `build_agent`: the steps read one file each, and `Renew` changes any of the three
files between them. `Connect` is the first connection, where ureq builds its TLS state and panics
on an identity it cannot use; that is why `validate_identity` exists. The CA file is read when it
is opened (a renewal renames), the key file's bytes are read once and parsed twice, by rustls
and by ureq, of whose choice among several keys nothing is assumed.

`Credentials` is `Credential::from_env` and the login, beside a `Sidecar` that writes the token
file in place, a symbol at a time. A token is JSON of three symbols, or its base64 of three
symbols. What the sidecar writes has only blanks behind a token's last symbol; a file that went on
behind it would at some moment hold a token, and then, whole, none.

`Urls` goes from the text after `seal:<provider>:` through `parse` (`Parse`, `Refuse`), the URL
builder (`Address`) and a server (`Receive`). The server takes the URL apart, removes `.` and `..`
segments as they were sent or as they decode, and decodes the rest once. `ReachesWhatItNames` says
that it then reads the names in the text, under the base address. Of what is configured,
`TextAssumption` says that the base is an address without a query, an escape, an empty or a dot
segment, with slashes and blanks around it as an operator may leave them (`normalise_base_url`
takes them off), and that an account or an application id is not empty (`env_value`) and neither
`.` nor `..`: no parser looks at these two, and a server that decodes before it removes dot
segments would drop such an account.

The three share no state; `MCRemote` lets one of them run in a behaviour while the others rest, and
`MCKeyring` does so with `KeyringText` and `Rotation`.

`RefusalHasReason` is said of every behaviour, with renewals at any point: a refusal has its cause in
what the files have held, and when certificate and key are refused as not belonging together, in the
very chain and keys that were read.

## Runs

| Run | Instance | What it shows |
|---|---|---|
| `resolver` | six references (three sealed, one per server), five hosts, four descriptors | the resolver's inductive invariant, genuine answers, precedence, one login, that no step closes another's socket, that every call returns |
| `exec` | eight invocations of three variables, up to three templates and two destinations, two hosts, two attempts | refinement of `FailClosed`, the keyring out of reach, rendered files, laziness, termination, the inductive invariant `DeliveryInv` |
| `rewrite` | two files of two values, four invocations, one shell, two I/O failures, kills or power losses | refinement of `AtomicRewrite`, all or nothing, exit code 0, never in place, the inductive invariant `RewriteInv` |
| `retry` | one file, `protect` over and over, three faults | it gets there, leftovers included |
| `template` | for `render`, every text of up to six symbols of `{`, `}`, `seal:` and another, and longer ones of whole groups; for `rewrap`, every text of up to four tokens or parts of one | the scanners against their cursor-free definitions, what is copied, termination |
| `protect` | `PASS=` with every value of up to four symbols of quotes, backslash, `#`, blank and a letter; every file of up to three of twelve kinds of lines | reading back, splicing, `check` and `protect` agree |
| `keyring` | the text: up to three lines of eleven kinds, ended by newline or `;`, from a file and from the variable, edited once; its life: two kids, two entries, three plaintexts, three edits, and `info` beside `seal` over every set of sources, two edits | a ring is every line or none; a rotation step changes no other key; no secret is lost, old references open, `info` tells the truth |
| `remote` | two anchors, two identities, two renewals; 12 x 4 x 4 credential settings and a sidecar that writes two tokens; every body of up to three symbols of the eleven that parsers or URLs treat in their own way, and longer ones that are likely to be accepted | trust, identity, the credential, the URL |
| `exec_empty` | as `exec` | expected violation, see below |
| `template_braces` | as `template` | expected violation, see below |
| `rewrite_concurrent` | one file, two shells, one I/O failure | expected violation, see below |
| `rewrite_power` | one file, one shell, one power loss | expected violation, see below |

Why the bounds are enough. In `resolver`, nothing but the login counter grows, so the run is
exhaustive for its hosts; the hosts cover every position of the first source present, a broken
source above a good one, a descriptor variable that is no number, both credentials and TLS that
does not load; four descriptors are the keyring's and one for each server. In `exec`, two attempts
are what a file left by an earlier attempt needs, three variables are one before and one after
the keyring's in name order, and the invocations are listed case by case in `MCExec`. In
`rewrite`, two files are what "one bad file among several" needs and two faults let a crash be
followed by a failure of the next run. The scanners look at most at a marker, what is right
behind it and where the next one starts: a text of six symbols holds two placeholders that touch
or overlap, one of four pieces a token between two others. A value of four symbols has an
opening quote, an escape and what is behind the closing quote. Three lines are one before and one
behind the line that is wrong, or edited. In `keyring`, three edits are append, promote, remove,
which is a whole rotation, or a duplicate of a kid that is put first and removed again; in the second scene two let a source break and be outranked. In
`remote`, two renewals let each of two files change between two reads. `MaxAttempts`,
`MaxFaults`, `Renewals` and the scenes' `edits` are the only bounds in guards.

`exec`, `template`, `protect`, `keyring` and `remote` do not check deadlock: their loops, loads and
attempts end, and then nothing is left to do.

### What the runs found

- `rewrite_concurrent`. `replace_file` promises never to leave a truncated file behind
  (`main.rs:423`). The temporary name is fixed and the error path removes it whoever made it. With
  two shells: the first has written its temporary file; the second fails at `create_new` and
  removes it; the second runs again and creates a new one; the first renames that unfinished file
  over the target; the second's write fails. The target is truncated and nobody is running.
- `rewrite_power`. Nothing is synced between the write and the rename, so a power loss after
  `protect` has exited 0 can leave the path on an inode without data.
- `exec_empty`. `conjur.rs:153` calls starting the application with an empty password the one
  outcome a tool that fails closed must not have. Conjur's provider refuses an empty value; Vault's
  and CyberArk's accept an empty string, and the command starts with it.
- `template_braces`. `placeholders` is to find every `{{seal:...}}` occurrence (`template.rs:31`), and
  `render` to replace every one or fail (`src/README.md:298-301`). Behind a single brace, as in
  `{{{seal:...}}`, it does not: the group that starts at the first brace is no reference, the cursor
  moves behind both of its braces (`template.rs:55`) and so over the brace the placeholder starts with.
  `render`, and `exec` for a template, write it as it stands and succeed.

## Fairness

`Resolver` and `Exec` assume weak fairness of the process's own steps, no more: the operating
system schedules it. Among those steps is `NoAnswer`, because the agent's timeouts
(`http.rs:95-101`) make an exchange end without the server's help. Servers, supervisor and killer
are under no obligation. `retry` also assumes that somebody runs the command again whenever it has
ended, which is the situation "running the command again is safe" (`src/README.md:374`) is about;
that there are finitely many faults is the bound `MaxFaults`. `Templates` assumes weak fairness of
its loops, which nothing outside the process can hold up. The other modules state no liveness and
assume no fairness.

## Proofs

`ExecProofs` proves about `Resolver`, for every set of references, hosts, kids, keys and descriptor numbers:

- `ResolverInvariant`: `ResolverSpec => []ResolverInv`, and from it type correctness
  (`ResolverTypeCorrect`), genuineness of answers (`ResolverGenuine`), precedence of sources
  (`ResolverPrecedence`), the empty Conjur value (`ResolverConjur`), the single login
  (`ResolverLogin`) and the account of the descriptor (`ResolverKeyFd`);
- `ResolverSockets`: the action property `SocketsUndisturbed`.

The assumptions are the four named in `Resolver`: the references and hosts have the shape they
are declared with, descriptor numbers are naturals with `KeyFd` among them, and "no such kid" is
no key. The stated properties are not inductive. `OneLogin` needs `TokenKept`: no token has been
issued while none is held, and a login is only under way then. `OutrankedNeverUsed` needs
`KeyringHasSource`, that a cached keyring came from a source that is present, without which
`DetectSource` means nothing; the lemma `FirstSource` says what it then means. That no answer is
returned for another reference needs `StageConsistent`. `ResolverSockets` uses
`KeyFdAccountedFor`: while the flag is clear, the number is the keyring's and so not a socket's.
The proof has one lemma per action; `ResolveStepInv` collects the steps of `resolve()` so that
proofs about `Exec`, which runs the same steps, can cite it.

It proves about `Exec`, for every environment, list of env files, list of templates, set of
destinations and what was in them, and any number of attempts:

- `ExecInvariant`: `Spec => []ExecInv`, and from it type correctness (`ExecTypeCorrect`), that no
  file others can read holds rendered text (`ExecPrivate`), and that from the close on no
  descriptor leads to the keyring (`ExecKeyring`);
- `ExecWritesLast`: the action property `NothingWrittenEarly`.

It adds three assumptions: the keyring variables are among the variables, the invocations have the
shape they are declared with, `MaxAttempts` is positive. `ExecInv` conjoins the resolver's
invariant with one statement per loop of `run()`. `ResolvedBehind` (no reference is left among the
variables the loop has passed) and `RenderedBehind` (the templates behind the loop are complete,
the one under it has as many texts as `sub` says, those ahead have none) are why
`ExecWritesLast` holds: at the first write both loops are over. `ModeBeforeText` carries, from
`SetMode` to `WritePart`, that the destination under the loop is private; without it
`PrivateBeforeSecret` is not preserved by a write. `KeyringOutOfReach` needs the resolver's
`KeyFdAccountedFor`: `close_key_fd` closes nothing when the flag is set, and then the number no
longer leads to the keyring. It is preserved by the steps after the close because none of them
opens a descriptor, and by `Restart` because that goes back to the first phase.

Its last part is about what the command is given, by the larger invariant `DeliveryInv`
(`DeliveryInvariant`):

- `ExecFailsClosed`: `Exec` implements `FailClosed`, step by step;
- `ExecRendered`: `StartedMeansRendered`, with `WrittenBehind`: the loop over the destinations
  leaves each one whole behind it, unless a later template has taken the path over;
- `ExecProviders`: `OnlyNeededProviders`, a conjunct, which needs `AskedIsCurrent`: what is being
  resolved is the value, or the placeholder, the loop has come to.

`LayeredBehind` says of the layering loop that a variable holds the last entry so far that sets it,
so that at its end the environment is `Wanted`; that there is a last one, however many there are,
is `LastExists`, from `GreatestNatural`. `DeliveredBehind` and `SlotsDelivered` say that what the two
resolving loops have passed stands for what was there. Every step but `Spawn`, the end of an attempt
and `Restart` leaves `outcome` and `given` alone; `SpawnIsStart` is the step that matters.

`RewriteProofs` is in two parts. For any number of shells, files, inodes and faults: `RewriteTypes`
and `RewriteReadsFirst` (the action property `NothingReplacedEarly`), by `AnyShellsInv`, that is
types, the loops' progress, and `OwnInodes`: no two names lead to one inode. For one shell
(`OneShell`): `RewriteInvariant`, `RewritePrivate` (`UnfinishedIsPrivate`), `RewriteDone`
(`ExitZeroMeansDone`), `RewriteNotInPlace` (`NeverWrittenInPlace`) and `RewriteRefines` (the
refinement of `AtomicRewrite`). The hypothesis is not a convenience: with two shells on one file
the refinement is false, as `rewrite_concurrent` shows, because the temporary name is shared.
`TempIsOwn` is what one shell may rely on and two may not: from the write to the rename the
temporary name leads to what it made, whole, with the text it computed, and at the rename with the
mode of the target. `ResultsHold` says that every result is still what the file would give, which
is why a rename is a `Replace` of the abstract specification; `WrittenHold` that the files behind
the loop hold their results, which is what exit code 0 rests on, together with the lemma
`TransformedTwice`, that to transform a text twice is to transform it once. A power loss may take
what was put under a name unsynced; it ends every invocation, so the two hold again, of nothing.
The assumptions are those of `Rewrite`: the paths can lead to inodes of their own, `"private"` is a
mode, files are whole at the start, invocations name kids and files that exist. A disk without a free
inode is a failure of `Create`, not an assumption.

`RotationProofs` proves, for any number of shells, kids, entries, plaintexts and edits:
`RotationInfoAgrees` (`InfoAgrees`) under no hypothesis; `RotationSecrets`
(`RotationKeepsSecrets`) under `OneEditor`; `RotationOpens` (`OldReferencesOpen`) under `OneEditor`
and `OpenedWhereItIs`. Each of the two hypotheses is about who does what in the scenes, and TLC
evaluates both on the scenes of the run. The invariant's `Undisturbed` says that a command that has
seen no edit since it started has found and loaded what the sources hold now. That is why `info` and
`seal`, each of them undisturbed, agree. `KeysKept` says that every reference, in the file and in
the hands of a command, and every key that a command has loaded, is under a line of the keyring that
is used, and under the oldest line of its kid (`Eldest`). An append brings a line that is younger than
all (`Numbered`), a promotion keeps every line, and what a removal takes is a line that no reference
names while no command runs, or a younger one of two. That nobody holds a younger one is where the
parser comes in: a ring with a kid twice does not load. It is said where the default file does not come and go, since a file that goes takes its keys along.
Without the part about commands it is not inductive: a `rewrap` that has read the file would put
back a reference whose key is gone. The keyring may hold a kid twice in between, and then nothing
opens until a line is removed; `OldReferencesOpen` makes an exception of just that time.

`RemoteProofs` proves, for any number of anchors, of renewals, and any length of the files:
`TlsTrust` (`TrustIsOneFile`), `TlsNeverAborts` (`NeverAborts`) and `TlsRefusal`
(`RefusalHasReason`). `RootsInv` says that what has been taken and what is left to take are together
one content that the CA file has had; `IdentityInv` that a chain that is used was in the chain's
file at one moment and was validated with the key that ureq will choose; `ReasonInv` that the two keys that
rustls and ureq took are of one content of the key file (`KeysRead`), so that a chain which does not
go with one of them does not belong to what was read.

It also proves `CredentialFirstWins` (`FirstCredentialWins`), whatever is in the
variables and however far the sidecar has got with texts of any length. The invariant says that the
token file holds the beginning of one text, that a key has been posted only if no token was given,
and that the credential is a whole token of an issue that its source has. The heart of it is
`HalfIsNone`: a beginning of a text that is a token holds the same token as the whole text. It rests
on the assumption above and on `TextProofs`: `Trim` leaves the one stretch between blanks that
neither starts nor ends with a blank (`TrimIsCore`, `CoreOrBlank`). The installed provers cannot use
an induction theorem, so `TextProofs` gives what induction would: a set of natural numbers
that is not empty has a least one, because strict inclusion of finite sets is well-founded, which
the library states without an operator. `RunEnd`, `Last` and `Mark` are such numbers.

`UrlReaches` (`ReachesWhatItNames`) is for references of any length over any characters.
`UrlInv` says that the reference is one that the text parses to and the URL the one for it; what
carries the proof is algebra of texts. Splitting at a separator and joining with it are inverse
(`SplitJoins`, `JoinedSplit`, `SplitWhole`); what `percent_encode` writes holds no separator
(`EncodedHas`) and is never a segment of dots (`EncodedIsNoDots`); and decoding undoes it, also
behind text that was not encoded, as in a query (`DecodedJoin`), because a `%` is always followed by
the digits it was written with (`Sofar`). `Means` puts the segments of a URL next to what
they stand for: neither is a dot segment, so a server that removes those before or after it decodes
removes nothing (`ViewsAgree`). `has_dot_segment` is what makes this true of the names,
`normalise_base_url` of the base (`NormalisedIsAddress`), and `LocatedIs` shows that a text is cut in one
way and that the pieces add up to it. `Split`, `Removed` and `FlattenSeq` are recursive functions or
folds; `Iterates` shows that such a function exists, and what it computes is found by least
counterexample.

`TemplateProofs` proves, for texts, values, kids and ciphertexts of any length:

- `TemplateCopies` (`OtherBytesUntouched`), by `CopyInv`. Its `OutSoFar` says that there is a
  sequence of partial sums that adds up gaps and values as `Rewritten` does, and that the last of
  them is what has been written together with what is still to be copied. `Keep` writes nothing and
  moves nothing, so the stretch still to be copied may begin before the last range
  (`SlicesJoin` makes one of the two). A recursive function is a `CHOOSE`; `SumsAreRewritten` shows
  that it is the sums by least counterexample.
- `TemplateScan` (`EveryPlaceholderFound`), by `ScanInv`: the cursor is never behind an odd run of
  braces, and every placeholder before it is accounted for. The first is why the second is
  preserved: `TwoBracesOn` says that it stays so when a foreign group is passed over, and
  `OneBraceOn` that a placeholder that starts one brace further on is behind an odd run. From
  the same invariant, `TemplateKind`: a placeholder is found just when `HasPlaceholder` says so.
- `TemplateTokens` (`EveryTokenFound`), by `TokenInv`: a token that starts before the cursor is found
  or starts in one that is. `ParsedIsTaken` and `TakenParses` relate the scan to the parser: what
  parses at a position is the token the scan takes there or a beginning of it. `MarkersApart` is why
  the scan may go on behind a marker without a token: two markers do not overlap.
- `TemplateRotates` (`NoneLeftBehind`). The values that `rewrap` writes lie in the new text in order,
  with what was between the tokens between them (`LaidOut`, from the sums of `TemplateCopies`). No
  reference begins in a gap (`NoneInGap`): what it would read there, up to the next value and the
  marker that starts it, it would have read in the old text, whose scan found no token there. A
  reference that begins a value is read to the value's end and no further, since what follows is what
  stopped the old token (`ValueReads`, `LongestRead`). By least counterexample, the tokens of the new
  text are the values (`ValueBegins`, `OnlyValuesRead`), and `ValuesInv` says under which kid each
  of them is.

`KeyringProofs` proves `KeyringWhole` (`WholeRing`) for keyrings of any length, from a file or the
variable, before an edit and after it. `RingInv` says that the keys so far are those of the lines
behind the loop, each line once and in order: there is a sequence of line starts, increasing, onto
those lines, with one key each. It needs that the loop stands at the start of a line (`LineStep`:
what `lines()` gives ends where the next line starts, and no line starts in between) and that no
line holds two keys (`OneKey`: the kid ends at the first blank). An edit loads the new text from its
start, so nothing of the old ring is needed.

It also proves `KeyringRotation` (`RotationKeepsKeys`), for every text, every line `keygen` may print
and every line that is removed. `Whole` says what the ring of a text is without a loop, and a text
has at most one (`WholeUnique`). The argument is about two texts behind one another, of which the
first ends its last line: the ring of both is the two rings behind one another, and back
(`RingsJoin`, `RingSplits`), because no line of one is changed by the other (`LineInFirst`,
`LineInSecond`). `;` becomes the end of a line in both alike (`DeliveredJoins`). An edit is then a
cut: `FreshIsWhole` gives the ring of `keygen`'s line, `RemovedIs` cuts a text in front of a line and
behind it, and in a file that line has one key (`OneLineOneKey`). `EditInv` carries the ring of the
new text through the load, and `RefusedInv` says that a refused text has no keys or one kid twice.
Where the old text does not end its last line, `RingsJoin` is false; then the text is cut in front of
that line, and the ring of the first part is the beginning of the new ring (`FirstPartLoads`). That a
refusal is for the very kid that was added is `TakenIs`.

`ProtectProofs` proves, for every text, with and without `--all`:

- `LoopInvariant`: `Spec => []IInv`. A sealed value may be longer or shorter than what was there, so
  the invariant gives a map `g` from the places of the old text to those of the new one. `Follows`
  says that the places outside the sealed values are copied, one behind the other, to where `g` puts
  them, and that from where `g` puts the start of a sealed value to where it puts the end there
  stands a reference. `Ahead` says that
  nothing the loop has still to deal with lies before the cursor.
- `OtherBytesKept` (`OnlyValuesChange`): two texts of which one follows the other are the same
  without the values (`SameWithout`).
- `DryRun` (`CheckIsDryRun`): if the text is unchanged although a value was sealed, the first such
  value was a reference already (`UnchangedText`), and a reference is not wanted. If nothing is
  wanted, nothing in `check_value` fails that `protect` accepts.
- `SealsReadBack` (`ReadsBack`): each entry of the old text has an image in the new one, and each
  entry there is one (`EntryImages`). Lines start where `g` puts the old starts. A line without a
  sealed value is copied as it is. In one with a sealed value (`Swapped`) the name, the quotes and
  what follows are as they were, and the reference, which has no blank, quote, backslash or `#` in
  it, is read whole between them. Starts keep their order, so an entry has the rank of its image
  (`SameRank`) and there are as many (`AsMany`).
- `ProtectedFilePasses` (`ProtectedPasses`): no image is wanted or refused (`NothingLeft`). A brace
  cannot meet a brace across a splice, because what is next to a value is a blank, a quote, `=` or an
  end of the line (`AroundEntry`), so there is no placeholder that was not there before
  (`NoNewPlaceholder`); nor is there a new private key block (`NoNewBlock`).

The parser is recursive functions and spans. The proofs first say what it does in terms of positions:
where a line assigns (`Assigns`), which value forms there are (`ValueForms`: bare, between single
quotes, between double quotes), and that a line gives an entry just when these hold of some
positions (`EntryIsRead`, `ReadIsEntry`). What unescaping gives is shown by least counterexample, as
above.

`Templates`, `KeyringText` and `Protect` assume that the constants are texts, sequences of strings
(`TemplateAssumption`, `KeyringAssumption`, `SourceAssumption`). `Urls` assumes what is said of
`TextAssumption` above, and by `HexAssumption` of `percent_encode` (`http.rs:417`) that no two
characters have the same digits, that digits are not escaped in their turn, that every separator has
an escape, and `.` as the only unreserved character. `KeyringText` assumes of `keygen`'s output that
it is one line with a key, without a `;` (`main.rs:212-220`: a valid kid, a blank, base64url).
`AlphabetAssumption` says of the new kid and of what `crypto::seal` returns that they are not empty
and spelt in the characters of a kid and of base64url (`keyring.rs:156`, `crypto.rs:22`). TLC
evaluates all of them. That a literal such as `"{"` is a string is beyond the installed provers;
`Symbol` in the proofs is the set of strings with the literals that are needed named once more.

The runs check the inductive invariants of `Resolver`, `Exec` and `Rewrite` and those of their parts
that say most; type correctness, the empty Conjur value and the account of the descriptor are
conjuncts that the runs check as parts of `ResolverInv`, `DeliveryInv` and `RewriteInv`. Every
theorem that states a property of a run names it.

Only model-checked: all liveness (`EveryAskReturns`, `EveryAttemptEnds`, `EventuallyProtected`,
`RewriteEnds`) and the fairness it rests on, which are out of this prover's reach. Every safety
invariant and every action property that a passing run checks is proved, by itself or as a part of
the inductive invariant of its module.

## Not modelled

- Argument parsing, `--quiet`, `split_template_spec`, `render` to standard output: no state, or
  formatting only.
- `lib.rs`: error wording, zeroization, and the date stamp of the kid that `keygen` proposes, which
  is pure arithmetic on one number.
- The cipher, nonces and Argon2id: taken as ideal, so a text opens under its key and kid only.
- Fingerprints and the layout of `info`'s and `check`'s reports; the notice about TLS variables
  that are ignored.
- Windows: `spawn` there waits for a child, and files have no modes.
- Several processes that rewrite one file of references while a keyring is edited: the file half is
  `Rewrite`'s, the key half `Rotation`'s, and they are not composed.
- Tests, CI, release script and Docker image.
