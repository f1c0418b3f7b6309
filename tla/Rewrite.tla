------------------------------ MODULE Rewrite -------------------------------
(***************************************************************************)
(* `sealref protect` and `sealref rewrap` over files in place, and the     *)
(* replace_file they share (main.rs): a temporary file beside the target,  *)
(* created exclusively and owner-only, written, given the target's mode    *)
(* and renamed over it; on any error the temporary name is removed.        *)
(*                                                                         *)
(* The file system is modelled as POSIX has it: names lead to inodes, a    *)
(* process writes to the inode it opened, and chmod, rename and unlink go  *)
(* by name.  Several invocations may run at once; a system call may fail,  *)
(* an invocation may be killed, and the power may go.                      *)
(***************************************************************************)
EXTENDS SealedText

CONSTANTS
    Proc,        \* shells; each runs one invocation at a time
    Inode,       \* inode numbers
    None,        \* no inode
    Mode,        \* permissions, "private" (0600) among them
    Start,       \* what the paths may hold to begin with
    Faults,      \* what may go wrong: some of "io", "kill", "power"
    MaxFaults    \* bound: how often

(* A file on disk; one that is not whole is empty or cut short.            *)
File == [text : Content, whole : BOOLEAN, mode : Mode]

ASSUME ModeAssumption == "private" \in Mode
ASSUME StartAssumption == Start \subseteq [Path -> {f \in File : f.whole}]
ASSUME FaultAssumption == Faults \subseteq {"io", "kill", "power"} /\ MaxFaults \in Nat
ASSUME InodeAssumption ==
    /\ None \notin Inode
    /\ \E t \in [Path -> Inode] : \A a, b \in Path : a # b => t[a] # t[b]

(* What a shell has made of a file that it has read.                       *)
Result == [text : Content, touched : BOOLEAN]

(* Slip: File::create_new without a mode.                                  *)
NewWideFile == [text |-> [s \in Slot |-> Other], whole |-> FALSE,
                mode |-> CHOOSE m \in Mode : m # "private"]

(* What an exclusive open with mode 0600 makes.                            *)
NewFile == [text |-> [s \in Slot |-> Other], whole |-> FALSE, mode |-> "private"]

VARIABLES
    target,    \* the inode each path leads to
    temp,      \* the inode its temporary name leads to, or None
    disk,      \* what each inode holds
    unsynced,  \* inodes whose data the kernel has not written out
    job,       \* the invocation each shell runs, or ran last
    step,      \* where it is
    index,     \* the file its loop is at
    results,   \* the texts it has computed, by position in files
    handle,    \* the inode it has open for writing, or None
    perms,     \* the permissions metadata() gave it
    exit,      \* how it ended
    faults     \* faults so far

fs   == <<target, temp, disk, unsynced>>
vars == <<fs, job, step, index, results, handle, perms, exit, faults>>

Init ==
    /\ target = CHOOSE t \in [Path -> Inode] : \A a, b \in Path : a # b => t[a] # t[b]
    /\ temp = [a \in Path |-> None]
    /\ \E start \in Start :
          disk = [i \in Inode |->
                    IF \E a \in Path : target[a] = i
                    THEN start[CHOOSE a \in Path : target[a] = i]
                    ELSE NewFile]
    /\ unsynced = {}
    /\ job \in [Proc -> Job]
    /\ step = [p \in Proc |-> "idle"]
    /\ index = [p \in Proc |-> 1]
    /\ results = [p \in Proc |-> <<>>]
    /\ handle = [p \in Proc |-> None]
    /\ perms = [p \in Proc |-> "private"]
    /\ exit = [p \in Proc |-> "none"]
    /\ faults = 0

-----------------------------------------------------------------------------
(* One invocation.                                                         *)

This(p) == job[p].files[index[p]]

Set(p, s) == step' = [step EXCEPT ![p] = s]

(* The invocation of p is over; its handles close with it.                 *)
Exit(p, how) ==
    /\ Set(p, "idle")
    /\ exit' = [exit EXCEPT ![p] = how]
    /\ handle' = [handle EXCEPT ![p] = None]

(* rewrap looks both keys up before it opens a file.                       *)
Launch(p, j) ==
    /\ step[p] = "idle"
    /\ job' = [job EXCEPT ![p] = j]
    /\ index' = [index EXCEPT ![p] = 1]
    /\ results' = [results EXCEPT ![p] = <<>>]
    /\ IF j.cmd = "rewrap" /\ ~({j.from, j.to} \subseteq Keyring)
       THEN exit' = [exit EXCEPT ![p] = "failed"] /\ UNCHANGED step
       ELSE exit' = [exit EXCEPT ![p] = "none"] /\ Set(p, "read")
    /\ UNCHANGED <<fs, handle, perms, faults>>

(* Slip: protect writes each file as soon as it is transformed.            *)
ReadAndGoOn(p) ==
    /\ step[p] = "read"
    /\ LET f == disk[target[This(p)]]
       IN  IF ~f.whole \/ Refuses(job[p], f.text)
           THEN Exit(p, "failed") /\ UNCHANGED <<index, results>>
           ELSE /\ results' = [results EXCEPT ![p] =
                      Append(@, [text |-> Transformed(job[p], f.text), touched |-> Touches(job[p], f.text)])]
                /\ Set(p, "decide")
                /\ UNCHANGED <<index, exit, handle>>
    /\ UNCHANGED <<fs, job, perms, faults>>

(* read_text and the transformation.  protect goes through all its files   *)
(* first and then starts over to write; rewrap takes one after the other.  *)
(* (A text that is cut short is taken to be one that does not parse.)      *)
Read(p) ==
    /\ step[p] = "read"
    /\ LET f == disk[target[This(p)]]
           more == job[p].cmd = "protect" /\ index[p] < Len(job[p].files)
       IN  IF ~f.whole \/ Refuses(job[p], f.text)
           THEN Exit(p, "failed") /\ UNCHANGED <<index, results>>
           ELSE /\ results' = [results EXCEPT ![p] =
                      Append(@, [text |-> Transformed(job[p], f.text), touched |-> Touches(job[p], f.text)])]
                /\ index' = [index EXCEPT ![p] = IF job[p].cmd = "rewrap" THEN @ ELSE IF more THEN @ + 1 ELSE 1]
                /\ Set(p, IF more THEN "read" ELSE "decide")
                /\ UNCHANGED <<exit, handle>>
    /\ UNCHANGED <<fs, job, perms, faults>>

(* Slip: one file too many.                                                *)
AdvanceTooFar(p) ==
    IF index[p] <= Len(job[p].files)
    THEN /\ index' = [index EXCEPT ![p] = @ + 1]
         /\ Set(p, IF job[p].cmd = "protect" THEN "decide" ELSE "read")
         /\ UNCHANGED <<exit, handle>>
    ELSE Exit(p, "ok") /\ UNCHANGED index

(* On to the next file of the list, or done.                               *)
Advance(p) ==
    IF index[p] < Len(job[p].files)
    THEN /\ index' = [index EXCEPT ![p] = @ + 1]
         /\ Set(p, IF job[p].cmd = "protect" THEN "decide" ELSE "read")
         /\ UNCHANGED <<exit, handle>>
    ELSE Exit(p, "ok") /\ UNCHANGED index

(* A file in which nothing was sealed or rewrapped is not written.         *)
Decide(p) ==
    /\ step[p] = "decide"
    /\ IF results[p][index[p]].touched
       THEN Set(p, "create") /\ UNCHANGED <<index, exit, handle>>
       ELSE Advance(p)
    /\ UNCHANGED <<fs, job, results, perms, faults>>

-----------------------------------------------------------------------------
(* replace_file.                                                           *)

InUse == {target[a] : a \in Path} \cup {temp[a] : a \in Path} \cup {handle[p] : p \in Proc}

(* Slip: when there is no temporary file to be had, write in place.        *)
CreateOrTruncate(p) ==
    /\ step[p] = "create"
    /\ LET i == IF temp[This(p)] # None \/ Inode \subseteq InUse
                THEN target[This(p)]
                ELSE CHOOSE n \in Inode : n \notin InUse
       IN  /\ temp' = IF i \in InUse THEN temp ELSE [temp EXCEPT ![This(p)] = i]
           /\ disk' = [disk EXCEPT ![i] = NewFile]
           /\ unsynced' = unsynced \cup {i}
           /\ handle' = [handle EXCEPT ![p] = i]
           /\ Set(p, "write")
    /\ UNCHANGED <<target, job, index, results, perms, exit, faults>>

(* Slip: what was there before is left there, as not this run's to remove. *)
CreateOrGiveUp(p) ==
    /\ step[p] = "create"
    /\ IF temp[This(p)] # None \/ Inode \subseteq InUse
       THEN Exit(p, "failed") /\ UNCHANGED fs
       ELSE LET i == CHOOSE n \in Inode : n \notin InUse
            IN  /\ temp' = [temp EXCEPT ![This(p)] = i]
                /\ disk' = [disk EXCEPT ![i] = NewFile]
                /\ unsynced' = unsynced \cup {i}
                /\ handle' = [handle EXCEPT ![p] = i]
                /\ Set(p, "write")
                /\ UNCHANGED <<target, exit>>
    /\ UNCHANGED <<job, index, results, perms, faults>>

(* create_private: create_new fails on a name that exists; what it makes   *)
(* is empty and owner-only.  (With no inode left it fails as well.)        *)
Create(p) ==
    /\ step[p] = "create"
    /\ IF temp[This(p)] # None \/ Inode \subseteq InUse
       THEN Set(p, "clean up") /\ UNCHANGED <<fs, handle>>
       ELSE LET i == CHOOSE n \in Inode : n \notin InUse
            IN  /\ temp' = [temp EXCEPT ![This(p)] = i]
                /\ disk' = [disk EXCEPT ![i] = NewFile]
                /\ unsynced' = unsynced \cup {i}
                /\ handle' = [handle EXCEPT ![p] = i]
                /\ Set(p, "write")
                /\ UNCHANGED target
    /\ UNCHANGED <<job, index, results, perms, exit, faults>>

(* write_all on the handle, which is then dropped; nothing is fsynced.     *)
Write(p) ==
    /\ step[p] = "write"
    /\ disk' = [disk EXCEPT ![handle[p]].text = results[p][index[p]].text, ![handle[p]].whole = TRUE]
    /\ unsynced' = unsynced \cup {handle[p]}
    /\ handle' = [handle EXCEPT ![p] = None]
    /\ Set(p, "stat")
    /\ UNCHANGED <<target, temp, job, index, results, perms, exit, faults>>

(* metadata(path).permissions()                                            *)
Stat(p) ==
    /\ step[p] = "stat"
    /\ perms' = [perms EXCEPT ![p] = disk[target[This(p)]].mode]
    /\ Set(p, "chmod")
    /\ UNCHANGED <<fs, job, index, results, handle, exit, faults>>

(* Slip: the temporary file keeps its own mode.                            *)
KeepTempMode(p) ==
    /\ step[p] = "chmod"
    /\ Set(p, "rename")
    /\ UNCHANGED <<fs, job, index, results, handle, perms, exit, faults>>

(* set_permissions(temporary): whatever inode that name leads to by now.   *)
Chmod(p) ==
    /\ step[p] = "chmod"
    /\ IF temp[This(p)] = None
       THEN Set(p, "clean up") /\ UNCHANGED disk
       ELSE disk' = [disk EXCEPT ![temp[This(p)]].mode = perms[p]] /\ Set(p, "rename")
    /\ UNCHANGED <<target, temp, unsynced, job, index, results, handle, perms, exit, faults>>

(* rename(temporary, path): likewise.                                      *)
Rename(p) ==
    /\ step[p] = "rename"
    /\ IF temp[This(p)] = None
       THEN Set(p, "clean up") /\ UNCHANGED <<target, temp, index, exit, handle>>
       ELSE /\ target' = [target EXCEPT ![This(p)] = temp[This(p)]]
            /\ temp' = [temp EXCEPT ![This(p)] = None]
            /\ Advance(p)
    /\ UNCHANGED <<disk, unsynced, job, results, perms, faults>>

(* result.is_err(): remove_file(temporary), whoever made it.               *)
CleanUp(p) ==
    /\ step[p] = "clean up"
    /\ temp' = [temp EXCEPT ![This(p)] = None]
    /\ Exit(p, "failed")
    /\ UNCHANGED <<target, disk, unsynced, job, index, results, perms, faults>>

ProcStep(p) ==
    \/ Read(p) \/ Decide(p)
    \/ Create(p) \/ Write(p) \/ Stat(p) \/ Chmod(p) \/ Rename(p) \/ CleanUp(p)

-----------------------------------------------------------------------------
(* What goes wrong.                                                        *)

Fault(kind) == kind \in Faults /\ faults < MaxFaults /\ faults' = faults + 1

(* A system call fails: reading ends the run, one of replace_file's leads  *)
(* to the removal of the temporary name, and that one's error is ignored.  *)
IoFails(p) ==
    /\ Fault("io")
    /\ \/ step[p] \in {"read", "clean up"} /\ Exit(p, "failed")
       \/ /\ step[p] \in {"create", "write", "stat", "chmod", "rename"}
          /\ Set(p, "clean up")
          /\ handle' = [handle EXCEPT ![p] = None]
          /\ UNCHANGED exit
    /\ UNCHANGED <<fs, job, index, results, perms>>

(* The invocation is killed, leaving the files as they are.                *)
Kill(p) ==
    /\ Fault("kill")
    /\ step[p] # "idle"
    /\ Exit(p, "killed")
    /\ UNCHANGED <<fs, job, index, results, perms>>

(* The kernel writes an inode's data out in its own time.                  *)
Writeback ==
    /\ "power" \in Faults
    /\ \E i \in unsynced : unsynced' = unsynced \ {i}
    /\ UNCHANGED <<target, temp, disk, job, step, index, results, handle, perms, exit, faults>>

(* The power goes: names are as they were last, but data that was not      *)
(* written out may be missing.                                             *)
PowerLoss ==
    /\ Fault("power")
    /\ \E lost \in SUBSET unsynced :
          disk' = [i \in Inode |-> IF i \in lost THEN [disk[i] EXCEPT !.whole = FALSE] ELSE disk[i]]
    /\ unsynced' = {}
    /\ step' = [p \in Proc |-> "idle"]
    /\ exit' = [p \in Proc |-> IF step[p] = "idle" THEN exit[p] ELSE "killed"]
    /\ handle' = [p \in Proc |-> None]
    /\ UNCHANGED <<target, temp, job, index, results, perms>>

Next ==
    \/ \E p \in Proc : (\E j \in Job : Launch(p, j)) \/ ProcStep(p) \/ IoFails(p) \/ Kill(p)
    \/ Writeback
    \/ PowerLoss

Spec == Init /\ [][Next]_vars

(* Processes are scheduled, and somebody runs the command again whenever   *)
(* it has ended, as README's "running the command again is safe" has it.   *)
Fairness == \A p \in Proc : WF_vars(ProcStep(p)) /\ WF_vars(\E j \in Job : Launch(p, j))

FairSpec == Spec /\ Fairness

-----------------------------------------------------------------------------
(* Properties.                                                             *)

Steps == {"idle", "read", "decide", "create", "write", "stat", "chmod", "rename", "clean up"}

(* Type correctness.                                                       *)
TypeOK ==
    /\ target \in [Path -> Inode]
    /\ temp \in [Path -> Inode \cup {None}]
    /\ disk \in [Inode -> File]
    /\ unsynced \subseteq Inode
    /\ job \in [Proc -> Job]
    /\ step \in [Proc -> Steps]
    /\ index \in [Proc -> Nat]
    /\ \A p \in Proc : index[p] \in 1..Len(job[p].files)
    /\ results \in [Proc -> Seq(Result)]
    /\ handle \in [Proc -> Inode \cup {None}]
    /\ perms \in [Proc -> Mode]
    /\ exit \in [Proc -> {"none", "ok", "failed", "killed"}]
    /\ faults \in 0..MaxFaults

(* How far each shell's loop has got in what it has read, and when it has  *)
(* a file open.                                                            *)
LoopInv ==
    \A p \in Proc :
        /\ step[p] = "read" => Len(results[p]) = index[p] - 1
        /\ step[p] \notin {"idle", "read"} =>
            Len(results[p]) = IF job[p].cmd = "protect" THEN Len(job[p].files) ELSE index[p]
        /\ handle[p] # None <=> step[p] = "write"

(* Every name leads to an inode of its own.                                *)
OwnInodes ==
    /\ \A a, b \in Path : a # b => target[a] # target[b]
    /\ \A a, b \in Path : temp[a] # None => temp[a] # target[b]
    /\ \A a, b \in Path : a # b /\ temp[a] # None => temp[a] # temp[b]

(* What a shell knows of the temporary file it made, until it renames it.  *)
TempIsOwn ==
    \A p \in Proc :
        /\ step[p] = "write" => temp[This(p)] = handle[p]
        /\ step[p] \in {"stat", "chmod", "rename"} =>
            /\ temp[This(p)] # None
            /\ disk[temp[This(p)]].whole
            /\ disk[temp[This(p)]].text = results[p][index[p]].text
        /\ step[p] = "chmod" => perms[p] = disk[target[This(p)]].mode
        /\ step[p] = "rename" => disk[temp[This(p)]].mode = disk[target[This(p)]].mode

(* A file from which an invocation would compute a result, or which holds  *)
(* it already.                                                             *)
LeadsTo(j, f, result) ==
    /\ f.whole /\ ~Refuses(j, f.text)
    /\ Transformed(j, f.text) = result.text
    /\ Touches(j, f.text) => result.touched

(* What was computed from a file is what its text, now, would lead to,     *)
(* before the file is replaced and afterwards.                             *)
ResultsHold ==
    \A p \in Proc : step[p] # "idle" =>
        \A n \in DOMAIN results[p] :
            LeadsTo(job[p], disk[target[job[p].files[n]]], results[p][n])

(* The files the writing loop is past hold what was computed for them.     *)
WrittenHold ==
    \A p \in Proc :
        /\ step[p] # "idle" /\ ~(job[p].cmd = "protect" /\ step[p] = "read") =>
            \A n \in 1..(index[p] - 1) :
                disk[target[job[p].files[n]]].text = results[p][n].text
        /\ step[p] = "idle" /\ exit[p] = "ok" =>
            \A n \in DOMAIN job[p].files :
                LET text == disk[target[job[p].files[n]]].text
                IN  Transformed(job[p], text) = text

(* Whoever opens a path, at whatever moment, finds a whole file with the   *)
(* permissions it always had, and either the old text or the new one: to   *)
(* an observer each file is rewritten in one step (README on rewrap). Only *)
(* a power loss can cut a file short, and only one that was just replaced. *)
Observed == INSTANCE AtomicRewrite WITH
                file  <- [a \in Path |-> disk[target[a]]],
                fresh <- {a \in Path : target[a] \in unsynced}

RewritesAreAtomic == Observed!Spec

(* No file is replaced before every file of a protect invocation has been  *)
(* read and accepted: one bad file leaves all as they were (main.rs 353).  *)
NothingReplacedEarly ==
    [][\A a \in Path : target'[a] # target[a] =>
          \E p \in Proc :
              /\ step[p] = "rename" /\ This(p) = a
              /\ job[p].cmd = "protect" => Len(results[p]) = Len(job[p].files)]_vars

(* When a command has exited 0, nothing it is for is left in the files it  *)
(* was given: protect leaves no plaintext, rewrap no reference under the   *)
(* retired kid, so the key can go (README "Key rotation" 4).               *)
ExitZeroMeansDone ==
    \A p \in Proc : step[p] = "idle" /\ exit[p] = "ok" =>
        \A i \in DOMAIN job[p].files :
            \A s \in Slot : LET v == disk[target[job[p].files[i]]].text[s]
                            IN  Takes(job[p], v) => v = Made(job[p])

(* A file somebody is writing is owner-only, and a temporary file, one     *)
(* that was left behind too, is never open to more people than the file it *)
(* is to replace: the mode is widened after the text is complete (main.rs  *)
(* 440).                                                                   *)
UnfinishedIsPrivate ==
    /\ \A p \in Proc : handle[p] # None => disk[handle[p]].mode = "private"
    /\ \A a \in Path : temp[a] # None =>
          disk[temp[a]].mode \in {"private", disk[target[a]].mode}

(* The inductive invariant of one shell: what its steps rely on of the     *)
(* files, of its own temporary file, and of what it has read (main.rs      *)
(* protect, rewrap, replace_file).                                         *)
RewriteInv ==
    /\ TypeOK /\ LoopInv /\ OwnInodes
    /\ TempIsOwn /\ UnfinishedIsPrivate /\ ResultsHold /\ WrittenHold

(* As long as a path leads to the same inode, that inode's text is left    *)
(* alone: a file is only ever replaced, never written to, so neither a     *)
(* kill nor a power loss can damage a text that was safely on disk.        *)
NeverWrittenInPlace ==
    [][\A a \in Path : target'[a] = target[a] =>
          LET before == disk[target[a]]
              after  == disk'[target[a]]
          IN  /\ after.text = before.text
              /\ before.whole /\ target[a] \notin unsynced => after.whole]_vars

(* Running the command again is safe and gets there, whatever went wrong   *)
(* before: a temporary file a crash left behind stops the next run, not    *)
(* the one after it (README on protect).                                   *)
EventuallyProtected ==
    <>[](\A a \in Path : \A s \in Slot : disk[target[a]].text[s] # Plain)

(* main.rs 423: "Replace a file's contents without ever leaving a          *)
(* truncated file behind".  Behind, that is, once no command is running.   *)
NoTruncatedFileLeft ==
    (\A p \in Proc : step[p] = "idle") => \A a \in Path : disk[target[a]].whole
=============================================================================
