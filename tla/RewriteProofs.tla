---------------------------- MODULE RewriteProofs ----------------------------
(***************************************************************************)
(* Proofs about Rewrite, for any files, values, keys, invocations, inodes  *)
(* and faults. With any number of shells: types, the loops' progress, one  *)
(* inode per name, and that protect replaces nothing before it has read    *)
(* everything. What a shell's own temporary file is relied on for holds of *)
(* one shell only, and so does what an observer of the files sees.         *)
(***************************************************************************)
EXTENDS Rewrite, TLAPS

-----------------------------------------------------------------------------
(* The texts (SealedText).                                                 *)

LEMMA JobParts ==
    ASSUME NEW j \in Job
    PROVE  /\ j.cmd \in {"protect", "rewrap"}
           /\ j.files \in Seq(Path) /\ Len(j.files) \in Nat \ {0}
           /\ DOMAIN j.files = 1..Len(j.files)
           /\ Made(j) \in Value
<1>1. j \in Invocation /\ Len(j.files) > 0
    BY JobAssumption
<1>2. j.cmd \in {"protect", "rewrap"} /\ j.files \in Seq(Path)
    BY <1>1 DEF Invocation
<1>3. (IF j.cmd = "protect" THEN j.kid ELSE j.to) \in Kid
    BY <1>1 DEF Invocation
<1>4. Made(j) \in Value
    BY <1>3 DEF Made, Value, Sealed
<1> QED BY <1>1, <1>2, <1>4

LEMMA TransformedType ==
    ASSUME NEW j \in Job, NEW text \in Content
    PROVE  Transformed(j, text) \in Content
BY JobParts DEF Transformed, Content

(* Doing it again changes nothing, and is not refused.                     *)
LEMMA TransformedTwice ==
    ASSUME NEW j \in Job, NEW text \in Content
    PROVE  /\ Transformed(j, Transformed(j, text)) = Transformed(j, text)
           /\ ~Refuses(j, text) => ~Refuses(j, Transformed(j, text))
           /\ Touches(j, Transformed(j, text)) => Touches(j, text)
<1> DEFINE new == Transformed(j, text)
<1>1. \A s \in Slot : new[s] = IF Takes(j, text[s]) THEN Made(j) ELSE text[s]
    BY DEF Transformed
<1>2. Transformed(j, new) = [s \in Slot |-> IF Takes(j, new[s]) THEN Made(j) ELSE new[s]]
    BY DEF Transformed
<1>3. \A s \in Slot : (IF Takes(j, new[s]) THEN Made(j) ELSE new[s]) = new[s]
    BY <1>1
<1>4. new = [s \in Slot |-> new[s]]
    BY DEF Transformed
<1>5. Transformed(j, new) = new
    BY <1>2, <1>3, <1>4
<1>6. Touches(j, new) => Touches(j, text)
    BY <1>1 DEF Touches
<1>7. ASSUME NEW k, NEW d PROVE Sealed(k) # Malformed /\ Sealed(k) # Damaged(d)
    <2>1. Sealed(k).is = "sealed" /\ Malformed.is = "malformed" /\ Damaged(d).is = "damaged"
        BY DEF Sealed, Malformed, Damaged
    <2> QED BY <2>1
<1>8. ~Refuses(j, text) => ~Refuses(j, new)
    BY <1>1, <1>6, <1>7 DEF Refuses, Made
<1> QED BY <1>5, <1>6, <1>8

(* What is not touched stays as it is, and what stays as it is is done.    *)
LEMMA TransformedSame ==
    ASSUME NEW j \in Job, NEW text \in Content
    PROVE  /\ ~Touches(j, text) => Transformed(j, text) = text
           /\ Transformed(j, text) = text =>
                \A s \in Slot : Takes(j, text[s]) => text[s] = Made(j)
<1>1. text = [s \in Slot |-> text[s]]
    BY DEF Content
<1>2. ASSUME ~Touches(j, text)
      PROVE  Transformed(j, text) = text
    BY <1>1, <1>2 DEF Touches, Transformed
<1>3. ASSUME Transformed(j, text) = text, NEW s \in Slot, Takes(j, text[s])
      PROVE  text[s] = Made(j)
    BY <1>3 DEF Transformed
<1> QED BY <1>2, <1>3

LEMMA NewFileType == NewFile \in File /\ NewFile.mode = "private"
BY ModeAssumption DEF NewFile, File, Content, Value

-----------------------------------------------------------------------------
(* What holds of any number of shells.                                     *)

AnyShellsInv == TypeOK /\ LoopInv /\ OwnInodes

LEMMA ThisIsPath ==
    ASSUME TypeOK, NEW p \in Proc
    PROVE  /\ job[p] \in Job /\ index[p] \in 1..Len(job[p].files)
           /\ Len(job[p].files) \in Nat \ {0}
           /\ job[p].cmd \in {"protect", "rewrap"}
           /\ This(p) \in Path
           /\ \A n \in 1..Len(job[p].files) : job[p].files[n] \in Path
<1>1. job[p] \in Job /\ index[p] \in 1..Len(job[p].files)
    BY DEF TypeOK
<1> QED BY <1>1, JobParts DEF This

(* The results a shell has, by the loop's progress.                        *)
LEMMA ResultAtIndex ==
    ASSUME TypeOK, LoopInv, NEW p \in Proc
    PROVE  /\ results[p] \in Seq(Result)
           /\ DOMAIN results[p] = 1..Len(results[p]) /\ Len(results[p]) \in Nat
           /\ step[p] \notin {"idle", "read"} =>
                /\ index[p] \in DOMAIN results[p]
                /\ results[p][index[p]] \in Result
<1>1. results[p] \in Seq(Result)
    BY DEF TypeOK
<1>2. DOMAIN results[p] = 1..Len(results[p]) /\ Len(results[p]) \in Nat
    BY <1>1
<1>3. ASSUME step[p] \notin {"idle", "read"}
      PROVE  index[p] \in DOMAIN results[p]
    BY <1>2, <1>3, ThisIsPath DEF LoopInv
<1>4. \A n \in DOMAIN results[p] : results[p][n] \in Result
    BY <1>1, <1>2
<1> QED BY <1>1, <1>2, <1>3, <1>4

LEMMA AnyShellsInit == Init => AnyShellsInv
<1> SUFFICES ASSUME Init PROVE AnyShellsInv
    OBVIOUS
<1>1. target \in [Path -> Inode] /\ \A a, b \in Path : a # b => target[a] # target[b]
    <2> DEFINE Apart(t) == \A a, b \in Path : a # b => t[a] # t[b]
    <2>1. target = CHOOSE t \in [Path -> Inode] : Apart(t)
        BY DEF Init
    <2>2. \E t \in [Path -> Inode] : Apart(t)
        BY InodeAssumption
    <2> HIDE DEF Apart
    <2>3. target \in [Path -> Inode] /\ Apart(target)
        BY <2>1, <2>2
    <2> QED BY <2>3 DEF Apart
<1>2. disk \in [Inode -> File]
    <2>1. PICK start \in Start :
            disk = [i \in Inode |->
                      IF \E a \in Path : target[a] = i
                      THEN start[CHOOSE a \in Path : target[a] = i]
                      ELSE NewFile]
        BY DEF Init
    <2>2. start \in [Path -> File]
        BY StartAssumption
    <2>3. ASSUME NEW i \in Inode PROVE disk[i] \in File
        <3>1. CASE \E a \in Path : target[a] = i
            <4>1. (CHOOSE a \in Path : target[a] = i) \in Path
                BY <3>1
            <4> QED BY <2>1, <2>2, <3>1, <4>1
        <3>2. CASE ~\E a \in Path : target[a] = i
            BY <2>1, <3>2, NewFileType
        <3> QED BY <3>1, <3>2
    <2> QED BY <2>1, <2>3
<1>3. \A p \in Proc : index[p] \in 1..Len(job[p].files)
    <2>1. job \in [Proc -> Job] /\ index = [p \in Proc |-> 1]
        BY DEF Init
    <2>2. ASSUME NEW p \in Proc PROVE 1 \in 1..Len(job[p].files)
        <3>1. job[p] \in Job
            BY <2>1
        <3> QED BY <3>1, JobParts
    <2> QED BY <2>1, <2>2
<1>4. TypeOK
    <2>1. /\ temp \in [Path -> Inode \cup {None}] /\ unsynced \subseteq Inode
          /\ job \in [Proc -> Job] /\ index \in [Proc -> Nat]
          /\ handle \in [Proc -> Inode \cup {None}]
        BY DEF Init
    <2>2. /\ step \in [Proc -> Steps]
          /\ exit \in [Proc -> {"none", "ok", "failed", "killed"}]
        BY DEF Init, Steps
    <2>3. perms \in [Proc -> Mode]
        BY ModeAssumption DEF Init
    <2>4. faults \in 0..MaxFaults
        <3>1. faults = 0
            BY DEF Init
        <3>2. MaxFaults \in Nat
            BY FaultAssumption
        <3> QED BY <3>1, <3>2
    <2>5. results \in [Proc -> Seq(Result)]
        <3>1. << >> \in Seq(Result)
            OBVIOUS
        <3> QED BY <3>1 DEF Init
    <2> QED BY <1>1, <1>2, <1>3, <2>1, <2>2, <2>3, <2>4, <2>5 DEF TypeOK
<1>5. LoopInv
    BY DEF Init, LoopInv
<1>6. OwnInodes
    BY <1>1 DEF Init, OwnInodes
<1> QED BY <1>4, <1>5, <1>6 DEF AnyShellsInv

-----------------------------------------------------------------------------
(* A step of one shell leaves the others where they are.                   *)
OthersRest(p) ==
    \A q \in Proc \ {p} :
        /\ job'[q] = job[q] /\ step'[q] = step[q] /\ index'[q] = index[q]
        /\ results'[q] = results[q] /\ handle'[q] = handle[q]
        /\ perms'[q] = perms[q] /\ exit'[q] = exit[q]

ShellStep(p) == (\E j \in Job : Launch(p, j)) \/ ProcStep(p) \/ IoFails(p) \/ Kill(p)

LEMMA Shapes ==
    ASSUME TypeOK
    PROVE  /\ index \in [Proc -> Nat] /\ results \in [Proc -> Seq(Result)]
           /\ step \in [Proc -> Steps] /\ exit \in [Proc -> {"none", "ok", "failed", "killed"}]
           /\ handle \in [Proc -> Inode \cup {None}]
BY DEF TypeOK

LEMMA StepsKnown ==
    /\ "idle" \in Steps /\ "read" \in Steps /\ "decide" \in Steps
    /\ "create" \in Steps /\ "write" \in Steps /\ "stat" \in Steps
    /\ "chmod" \in Steps /\ "rename" \in Steps /\ "clean up" \in Steps
BY DEF Steps

(* What an exit leaves.                                                    *)
LEMMA ExitShapes ==
    ASSUME TypeOK, NEW p \in Proc, NEW how \in {"ok", "failed", "killed"},
           step' = [step EXCEPT ![p] = "idle"],
           exit' = [exit EXCEPT ![p] = how],
           handle' = [handle EXCEPT ![p] = None]
    PROVE  /\ step' \in [Proc -> Steps] /\ step'[p] = "idle"
           /\ exit' \in [Proc -> {"none", "ok", "failed", "killed"}] /\ exit'[p] = how
           /\ handle' \in [Proc -> Inode \cup {None}] /\ handle'[p] = None
<1>1. step \in [Proc -> Steps] /\ "idle" \in Steps
    BY Shapes, StepsKnown
<1>2. exit \in [Proc -> {"none", "ok", "failed", "killed"}]
    BY Shapes
<1>3. handle \in [Proc -> Inode \cup {None}]
    BY Shapes
<1>4. step' \in [Proc -> Steps] /\ step'[p] = "idle"
    BY <1>1
<1>5. exit' \in [Proc -> {"none", "ok", "failed", "killed"}] /\ exit'[p] = how
    BY <1>2
<1>6. handle' \in [Proc -> Inode \cup {None}] /\ handle'[p] = None
    BY <1>3
<1> QED BY <1>4, <1>5, <1>6

(* Every index stays within its list when one shell's does.                *)
LEMMA IndexStep ==
    ASSUME TypeOK, NEW p \in Proc, OthersRest(p), index'[p] \in 1..Len(job'[p].files)
    PROVE  \A q \in Proc : index'[q] \in 1..Len(job'[q].files)
BY DEF TypeOK, OthersRest

LEMMA StepOthers ==
    ASSUME TypeOK, NEW p \in Proc, ShellStep(p)
    PROVE  OthersRest(p)
<1>1. CASE \E j \in Job : Launch(p, j)
    <2>1. PICK j \in Job : Launch(p, j)
        BY <1>1
    <2>2. /\ job' = [job EXCEPT ![p] = j] /\ index' = [index EXCEPT ![p] = 1]
          /\ results' = [results EXCEPT ![p] = << >>]
          /\ UNCHANGED <<handle, perms>>
        BY <2>1 DEF Launch
    <2>3. \/ exit' = [exit EXCEPT ![p] = "failed"] /\ UNCHANGED step
          \/ exit' = [exit EXCEPT ![p] = "none"] /\ step' = [step EXCEPT ![p] = "read"]
        BY <2>1 DEF Launch, Set
    <2> QED BY <2>2, <2>3 DEF TypeOK, OthersRest
<1>2. CASE Read(p)
    BY <1>2 DEF Read, Set, Exit, TypeOK, OthersRest
<1>3. CASE Decide(p) \/ Rename(p)
    BY <1>3 DEF Decide, Rename, Advance, Set, Exit, TypeOK, OthersRest
<1>4. CASE Create(p) \/ Write(p) \/ Stat(p) \/ Chmod(p) \/ CleanUp(p)
    BY <1>4, ZenonT(60) DEF Create, Write, Stat, Chmod, CleanUp, Set, Exit, TypeOK, OthersRest, fs
<1>5. CASE IoFails(p) \/ Kill(p)
    BY <1>5 DEF IoFails, Kill, Set, Exit, TypeOK, OthersRest
<1> QED BY <1>1, <1>2, <1>3, <1>4, <1>5 DEF ShellStep, ProcStep

(* LoopInv is about one shell at a time.                                   *)
LEMMA LoopStep ==
    ASSUME LoopInv, NEW p \in Proc, OthersRest(p),
           step'[p] = "read" => Len(results'[p]) = index'[p] - 1,
           step'[p] \notin {"idle", "read"} =>
                Len(results'[p]) = IF job'[p].cmd = "protect" THEN Len(job'[p].files) ELSE index'[p],
           handle'[p] # None <=> step'[p] = "write"
    PROVE  LoopInv'
BY DEF LoopInv, OthersRest

(* What Advance makes of the loop.                                         *)
LEMMA AdvanceParts ==
    ASSUME TypeOK, NEW p \in Proc, Advance(p)
    PROVE  \/ /\ index[p] < Len(job[p].files)
              /\ index' = [index EXCEPT ![p] = index[p] + 1]
              /\ step' = [step EXCEPT ![p] = IF job[p].cmd = "protect" THEN "decide" ELSE "read"]
              /\ UNCHANGED <<exit, handle>>
           \/ /\ ~(index[p] < Len(job[p].files))
              /\ step' = [step EXCEPT ![p] = "idle"]
              /\ exit' = [exit EXCEPT ![p] = "ok"]
              /\ handle' = [handle EXCEPT ![p] = None]
              /\ UNCHANGED index
BY DEF Advance, Set, Exit, TypeOK

LEMMA LaunchAny ==
    ASSUME AnyShellsInv, NEW p \in Proc, NEW j \in Job, Launch(p, j)
    PROVE  AnyShellsInv'
<1>0. TypeOK /\ LoopInv /\ OwnInodes
    BY DEF AnyShellsInv
<1>1. /\ UNCHANGED <<target, temp, disk, unsynced, handle, perms, faults>>
      /\ job' = [job EXCEPT ![p] = j]
      /\ index' = [index EXCEPT ![p] = 1]
      /\ results' = [results EXCEPT ![p] = << >>]
      /\ step[p] = "idle"
      /\ \/ exit' = [exit EXCEPT ![p] = "failed"] /\ UNCHANGED step
         \/ exit' = [exit EXCEPT ![p] = "none"] /\ step' = [step EXCEPT ![p] = "read"]
    BY DEF Launch, Set, fs
<1>2. OthersRest(p)
    BY <1>0, StepOthers DEF ShellStep
<1>3. TypeOK'
    <2>1. \A q \in Proc : index'[q] \in 1..Len(job'[q].files)
        <3>1. ASSUME NEW q \in Proc \ {p} PROVE index'[q] \in 1..Len(job'[q].files)
            BY <1>0, <1>2 DEF TypeOK, OthersRest
        <3>2. index'[p] = 1 /\ job'[p] = j
            BY <1>0, <1>1 DEF TypeOK
        <3>3. 1 \in 1..Len(j.files)
            BY JobParts
        <3> QED BY <3>1, <3>2, <3>3
    <2>2. index' \in [Proc -> Nat]
        BY <1>0, <1>1 DEF TypeOK
    <2>3. job' \in [Proc -> Job]
        BY <1>0, <1>1 DEF TypeOK
    <2>4. results' \in [Proc -> Seq(Result)]
        <3>1. results \in [Proc -> Seq(Result)]
            BY <1>0 DEF TypeOK
        <3>2. << >> \in Seq(Result)
            OBVIOUS
        <3> QED BY <1>1, <3>1, <3>2
    <2>5. step' \in [Proc -> Steps] /\ exit' \in [Proc -> {"none", "ok", "failed", "killed"}]
        BY <1>0, <1>1, Shapes, StepsKnown, ZenonT(60)
    <2> QED BY <1>0, <1>1, <2>1, <2>2, <2>3, <2>4, <2>5 DEF TypeOK
<1>4. LoopInv'
    <2>1. step'[p] \in {"idle", "read"} /\ results'[p] = << >> /\ index'[p] = 1
        BY <1>0, <1>1 DEF TypeOK
    <2>2. handle'[p] = None
        BY <1>0, <1>1 DEF LoopInv
    <2> QED BY <1>0, <1>2, <2>1, <2>2, LoopStep
<1>5. OwnInodes'
    BY <1>0, <1>1 DEF OwnInodes
<1> QED BY <1>3, <1>4, <1>5 DEF AnyShellsInv

LEMMA ReadParts ==
    ASSUME AnyShellsInv, NEW p \in Proc, Read(p)
    PROVE  /\ step[p] = "read"
           /\ UNCHANGED <<target, temp, disk, unsynced, job, perms, faults>>
           /\ \/ /\ step' = [step EXCEPT ![p] = "idle"]
                 /\ exit' = [exit EXCEPT ![p] = "failed"]
                 /\ handle' = [handle EXCEPT ![p] = None]
                 /\ UNCHANGED <<index, results>>
              \/ \E r \in Result, s \in {"read", "decide"} :
                 LET f == disk[target[This(p)]]
                 IN  /\ f \in File /\ f.whole /\ ~Refuses(job[p], f.text)
                     /\ r = [text |-> Transformed(job[p], f.text), touched |-> Touches(job[p], f.text)]
                     /\ results' = [results EXCEPT ![p] = Append(results[p], r)]
                     /\ step' = [step EXCEPT ![p] = s]
                     /\ s = "read" => /\ job[p].cmd = "protect" /\ index[p] < Len(job[p].files)
                                      /\ index' = [index EXCEPT ![p] = index[p] + 1]
                     /\ s = "decide" =>
                            \/ job[p].cmd = "rewrap" /\ UNCHANGED index
                            \/ /\ job[p].cmd = "protect" /\ index[p] = Len(job[p].files)
                               /\ index' = [index EXCEPT ![p] = 1]
                     /\ UNCHANGED <<exit, handle>>
<1> DEFINE f == disk[target[This(p)]]
           more == job[p].cmd = "protect" /\ index[p] < Len(job[p].files)
           r == [text |-> Transformed(job[p], f.text), touched |-> Touches(job[p], f.text)]
<1>0. TypeOK
    BY DEF AnyShellsInv
<1>1. step[p] = "read" /\ UNCHANGED <<target, temp, disk, unsynced, job, perms, faults>>
    BY DEF Read, fs
<1>2. f \in File
    BY <1>0, ThisIsPath DEF TypeOK
<1>3. r \in Result
    <2>1. f.text \in Content /\ job[p] \in Job
        BY <1>0, <1>2, ThisIsPath DEF File
    <2>2. Touches(job[p], f.text) \in BOOLEAN
        BY DEF Touches
    <2> QED BY <2>1, <2>2, TransformedType DEF Result
<1>4. CASE ~f.whole \/ Refuses(job[p], f.text)
    <2>1. Exit(p, "failed") /\ UNCHANGED <<index, results>>
        BY <1>4 DEF Read
    <2> QED BY <1>1, <2>1 DEF Exit, Set
<1>5. CASE f.whole /\ ~Refuses(job[p], f.text)
    <2>1. /\ results' = [results EXCEPT ![p] = Append(results[p], r)]
          /\ index' = [index EXCEPT ![p] =
                          IF job[p].cmd = "rewrap" THEN index[p] ELSE IF more THEN index[p] + 1 ELSE 1]
          /\ step' = [step EXCEPT ![p] = IF more THEN "read" ELSE "decide"]
          /\ UNCHANGED <<exit, handle>>
        BY <1>0, <1>5 DEF Read, Set, TypeOK
    <2>2. job[p].cmd \in {"protect", "rewrap"} /\ index[p] \in 1..Len(job[p].files)
            /\ Len(job[p].files) \in Nat
        BY <1>0, ThisIsPath
    <2>3. job[p].cmd = "rewrap" => UNCHANGED index
        BY <1>0, <2>1 DEF TypeOK
    <2>4. CASE more
        <3>1. job[p].cmd # "rewrap"
            BY <2>4
        <3> QED BY <1>1, <1>2, <1>3, <1>5, <2>1, <2>4, <3>1
    <2>5. CASE ~more
        <3>1. job[p].cmd = "protect" => index[p] = Len(job[p].files)
            BY <2>2, <2>5
        <3>2. job[p].cmd = "protect" => index' = [index EXCEPT ![p] = 1]
            BY <2>1, <2>5
        <3>3. step' = [step EXCEPT ![p] = "decide"]
            BY <2>1, <2>5
        <3> QED BY <1>1, <1>2, <1>3, <1>5, <2>1, <2>2, <2>3, <3>1, <3>2, <3>3
    <2> QED BY <2>4, <2>5
<1> QED BY <1>4, <1>5

LEMMA ReadAny ==
    ASSUME AnyShellsInv, NEW p \in Proc, Read(p)
    PROVE  AnyShellsInv'
<1>0. TypeOK /\ LoopInv /\ OwnInodes
    BY DEF AnyShellsInv
<1>1. step[p] = "read" /\ UNCHANGED <<target, temp, disk, unsynced, job, perms, faults>>
    BY ReadParts
<1>2. OthersRest(p)
    BY <1>0, StepOthers DEF ShellStep, ProcStep
<1>3. OwnInodes'
    BY <1>0, <1>1 DEF OwnInodes
<1>4. /\ Len(results[p]) = index[p] - 1 /\ handle[p] = None
      /\ index[p] \in 1..Len(job[p].files) /\ Len(job[p].files) \in Nat
    BY <1>0, <1>1, ThisIsPath DEF LoopInv
<1>5. CASE /\ step' = [step EXCEPT ![p] = "idle"]
           /\ exit' = [exit EXCEPT ![p] = "failed"]
           /\ handle' = [handle EXCEPT ![p] = None]
           /\ UNCHANGED <<index, results>>
    <2>2. /\ step' \in [Proc -> Steps] /\ step'[p] = "idle"
          /\ exit' \in [Proc -> {"none", "ok", "failed", "killed"}]
          /\ handle' \in [Proc -> Inode \cup {None}] /\ handle'[p] = None
        BY <1>0, <1>5, ExitShapes
    <2>1. TypeOK'
        BY <1>0, <1>1, <1>5, <2>2 DEF TypeOK
    <2> QED BY <1>0, <1>2, <1>3, <2>1, <2>2, LoopStep DEF AnyShellsInv
<1>6. ASSUME NEW r \in Result, NEW s \in {"read", "decide"},
             results' = [results EXCEPT ![p] = Append(results[p], r)],
             step' = [step EXCEPT ![p] = s],
             s = "read" => /\ job[p].cmd = "protect" /\ index[p] < Len(job[p].files)
                           /\ index' = [index EXCEPT ![p] = index[p] + 1],
             s = "decide" => \/ job[p].cmd = "rewrap" /\ UNCHANGED index
                             \/ /\ job[p].cmd = "protect" /\ index[p] = Len(job[p].files)
                                /\ index' = [index EXCEPT ![p] = 1],
             UNCHANGED <<exit, handle>>
      PROVE  AnyShellsInv'
    <2>1. results[p] \in Seq(Result)
        BY <1>0, ResultAtIndex
    <2>2. Append(results[p], r) \in Seq(Result) /\ Len(Append(results[p], r)) = Len(results[p]) + 1
        BY <2>1
    <2>shapes. /\ index \in [Proc -> Nat] /\ results \in [Proc -> Seq(Result)]
          /\ step \in [Proc -> Steps]
        BY <1>0, Shapes
    <2>appended. results'[p] = Append(results[p], r)
        BY <1>6, <2>shapes
    <2>length. Len(results[p]) \in Nat /\ Len(results'[p]) = index[p]
        BY <1>4, <2>1, <2>2, <2>appended
    <2>3. results' \in [Proc -> Seq(Result)]
        BY <1>6, <2>2, <2>shapes
    <2>4. index' \in [Proc -> Nat] /\ index'[p] \in 1..Len(job[p].files)
        <3>1. CASE s = "read"
            <4>1. index' = [index EXCEPT ![p] = index[p] + 1] /\ index[p] < Len(job[p].files)
                BY <1>6, <3>1
            <4> QED BY <1>4, <2>shapes, <4>1
        <3>2. CASE s = "decide"
            <4>1. index' = index \/ index' = [index EXCEPT ![p] = 1]
                BY <1>6, <3>2
            <4> QED BY <1>4, <2>shapes, <4>1
        <3> QED BY <3>1, <3>2
    <2>5. \A q \in Proc : index'[q] \in 1..Len(job'[q].files)
        BY <1>0, <1>1, <1>2, <2>4, IndexStep
    <2>6. step'[p] = s /\ step' \in [Proc -> Steps]
        BY <1>6, <2>shapes, StepsKnown
    <2>7. TypeOK'
        BY <1>0, <1>1, <1>6, <2>3, <2>4, <2>5, <2>6 DEF TypeOK
    <2>8. s = "read" => Len(results'[p]) = index'[p] - 1
        BY <1>4, <1>6, <2>shapes, <2>length
    <2>9. s = "decide" =>
            Len(results'[p]) = IF job'[p].cmd = "protect" THEN Len(job'[p].files) ELSE index'[p]
        BY <1>1, <1>6, <2>length
    <2>10. handle'[p] = None
        BY <1>4, <1>6
    <2>11. LoopInv'
        BY <1>0, <1>2, <2>6, <2>8, <2>9, <2>10, LoopStep
    <2> QED BY <1>3, <2>7, <2>11 DEF AnyShellsInv
<1> QED BY <1>5, <1>6, ReadParts

(* Going on to the next file, after a decision or a rename.                *)
LEMMA AdvanceAny ==
    ASSUME TypeOK, LoopInv, NEW p \in Proc, step[p] \in {"decide", "rename"},
           Advance(p), UNCHANGED <<disk, unsynced, job, results, perms, faults>>, OthersRest(p),
           target' \in [Path -> Inode], temp' \in [Path -> Inode \cup {None}]
    PROVE  TypeOK' /\ LoopInv'
<1>1. /\ index[p] \in 1..Len(job[p].files) /\ Len(job[p].files) \in Nat
      /\ job[p].cmd \in {"protect", "rewrap"}
    BY ThisIsPath
<1>2. /\ Len(results[p]) = IF job[p].cmd = "protect" THEN Len(job[p].files) ELSE index[p]
      /\ handle[p] = None
    BY DEF LoopInv
<1>3. CASE /\ index[p] < Len(job[p].files)
           /\ index' = [index EXCEPT ![p] = index[p] + 1]
           /\ step' = [step EXCEPT ![p] = IF job[p].cmd = "protect" THEN "decide" ELSE "read"]
           /\ UNCHANGED <<exit, handle>>
    <2>shapes. index \in [Proc -> Nat] /\ step \in [Proc -> Steps]
        BY Shapes
    <2>1. index' \in [Proc -> Nat] /\ index'[p] = index[p] + 1
        BY <1>3, <2>shapes
    <2>2. /\ step'[p] = IF job[p].cmd = "protect" THEN "decide" ELSE "read"
          /\ step' \in [Proc -> Steps]
        BY <1>3, <2>shapes, StepsKnown
    <2>3. \A q \in Proc : index'[q] \in 1..Len(job'[q].files)
        BY <1>1, <1>3, <2>1, IndexStep
    <2>4. TypeOK'
        BY <1>3, <2>1, <2>2, <2>3 DEF TypeOK
    <2>5. step'[p] = "read" => Len(results'[p]) = index'[p] - 1
        BY <1>1, <1>2, <2>1, <2>2
    <2>6. step'[p] \notin {"idle", "read"} =>
            Len(results'[p]) = IF job'[p].cmd = "protect" THEN Len(job'[p].files) ELSE index'[p]
        BY <1>1, <1>2, <2>1, <2>2
    <2>7. handle'[p] = None /\ step'[p] # "write"
        BY <1>2, <1>3, <2>2
    <2>8. LoopInv'
        BY <2>5, <2>6, <2>7, LoopStep
    <2> QED BY <2>4, <2>8
<1>4. CASE /\ step' = [step EXCEPT ![p] = "idle"]
           /\ exit' = [exit EXCEPT ![p] = "ok"]
           /\ handle' = [handle EXCEPT ![p] = None]
           /\ UNCHANGED index
    <2>2. /\ step' \in [Proc -> Steps] /\ step'[p] = "idle"
          /\ exit' \in [Proc -> {"none", "ok", "failed", "killed"}]
          /\ handle' \in [Proc -> Inode \cup {None}] /\ handle'[p] = None
        BY <1>4, ExitShapes
    <2>1. TypeOK'
        BY <1>4, <2>2 DEF TypeOK
    <2> QED BY <2>1, <2>2, LoopStep
<1> QED BY <1>3, <1>4, AdvanceParts

LEMMA SetShapes ==
    ASSUME TypeOK, NEW p \in Proc, NEW s \in Steps, step' = [step EXCEPT ![p] = s]
    PROVE  step' \in [Proc -> Steps] /\ step'[p] = s
<1>1. step \in [Proc -> Steps]
    BY Shapes
<1> QED BY <1>1

LEMMA HandleShapes ==
    ASSUME TypeOK, NEW p \in Proc, NEW i \in Inode \cup {None}, handle' = [handle EXCEPT ![p] = i]
    PROVE  handle' \in [Proc -> Inode \cup {None}] /\ handle'[p] = i
<1>1. handle \in [Proc -> Inode \cup {None}]
    BY Shapes
<1> QED BY <1>1

(* While a file is being written, the list and the results stay.           *)
LEMMA ReplacingLoop ==
    ASSUME TypeOK, LoopInv, NEW p \in Proc, OthersRest(p),
           step[p] \notin {"idle", "read"}, step'[p] \notin {"idle", "read"},
           UNCHANGED <<job, index, results>>,
           handle'[p] # None <=> step'[p] = "write"
    PROVE  LoopInv'
<1>1. Len(results'[p]) = IF job'[p].cmd = "protect" THEN Len(job'[p].files) ELSE index'[p]
    BY DEF LoopInv
<1> QED BY <1>1, LoopStep

LEMMA DecideAny ==
    ASSUME AnyShellsInv, NEW p \in Proc, Decide(p)
    PROVE  AnyShellsInv'
<1>0. TypeOK /\ LoopInv /\ OwnInodes
    BY DEF AnyShellsInv
<1>1. step[p] = "decide" /\ UNCHANGED <<target, temp, disk, unsynced, job, results, perms, faults>>
    BY DEF Decide, fs
<1>2. OthersRest(p)
    BY <1>0, StepOthers DEF ShellStep, ProcStep
<1>3. OwnInodes'
    BY <1>0, <1>1 DEF OwnInodes
<1>4. CASE Advance(p)
    <2>1. target' \in [Path -> Inode] /\ temp' \in [Path -> Inode \cup {None}]
        BY <1>0, <1>1 DEF TypeOK
    <2> QED BY <1>0, <1>1, <1>2, <1>3, <1>4, <2>1, AdvanceAny DEF AnyShellsInv
<1>5. CASE step' = [step EXCEPT ![p] = "create"] /\ UNCHANGED <<index, exit, handle>>
    <2>1. step' \in [Proc -> Steps] /\ step'[p] = "create"
        BY <1>0, <1>5, SetShapes, StepsKnown
    <2>2. handle'[p] = None
        BY <1>0, <1>1, <1>5 DEF LoopInv
    <2>3. LoopInv'
        BY <1>0, <1>1, <1>2, <1>5, <2>1, <2>2, ReplacingLoop
    <2>4. TypeOK'
        BY <1>0, <1>1, <1>5, <2>1 DEF TypeOK
    <2> QED BY <1>3, <2>3, <2>4 DEF AnyShellsInv
<1> QED BY <1>4, <1>5 DEF Decide, Set

LEMMA CreateParts ==
    ASSUME TypeOK, NEW p \in Proc, Create(p)
    PROVE  /\ step[p] = "create"
           /\ UNCHANGED <<target, job, index, results, perms, exit, faults>>
           /\ \/ /\ step' = [step EXCEPT ![p] = "clean up"]
                 /\ UNCHANGED <<temp, disk, unsynced, handle>>
              \/ \E i \in Inode :
                 /\ i \notin InUse /\ temp[This(p)] = None
                 /\ temp' = [temp EXCEPT ![This(p)] = i]
                 /\ disk' = [disk EXCEPT ![i] = NewFile]
                 /\ unsynced' = unsynced \cup {i}
                 /\ handle' = [handle EXCEPT ![p] = i]
                 /\ step' = [step EXCEPT ![p] = "write"]
<1>1. step[p] = "create" /\ UNCHANGED <<job, index, results, perms, exit, faults>>
    BY DEF Create
<1>2. CASE temp[This(p)] # None \/ Inode \subseteq InUse
    BY <1>1, <1>2 DEF Create, Set, fs
<1>3. CASE ~(temp[This(p)] # None \/ Inode \subseteq InUse)
    <2> DEFINE i == CHOOSE n \in Inode : n \notin InUse
    <2>1. i \in Inode /\ i \notin InUse
        BY <1>3
    <2>2. /\ temp' = [temp EXCEPT ![This(p)] = i]
          /\ disk' = [disk EXCEPT ![i] = NewFile]
          /\ unsynced' = unsynced \cup {i}
          /\ handle' = [handle EXCEPT ![p] = i]
          /\ step' = [step EXCEPT ![p] = "write"]
          /\ UNCHANGED target
        BY <1>3 DEF Create, Set
    <2> HIDE DEF i
    <2> QED BY <1>1, <1>3, <2>1, <2>2
<1> QED BY <1>2, <1>3

LEMMA CreateAny ==
    ASSUME AnyShellsInv, NEW p \in Proc, Create(p)
    PROVE  AnyShellsInv'
<1>0. TypeOK /\ LoopInv /\ OwnInodes
    BY DEF AnyShellsInv
<1>1. step[p] = "create" /\ UNCHANGED <<target, job, index, results, perms, exit, faults>>
    BY <1>0, CreateParts
<1>2. OthersRest(p)
    BY <1>0, StepOthers DEF ShellStep, ProcStep
<1>3. CASE step' = [step EXCEPT ![p] = "clean up"] /\ UNCHANGED <<temp, disk, unsynced, handle>>
    <2>1. step' \in [Proc -> Steps] /\ step'[p] = "clean up"
        BY <1>0, <1>3, SetShapes, StepsKnown
    <2>2. handle'[p] = None
        BY <1>0, <1>1, <1>3 DEF LoopInv
    <2>3. LoopInv'
        BY <1>0, <1>1, <1>2, <2>1, <2>2, ReplacingLoop
    <2>4. TypeOK'
        BY <1>0, <1>1, <1>3, <2>1 DEF TypeOK
    <2>5. OwnInodes'
        BY <1>0, <1>1, <1>3 DEF OwnInodes
    <2> QED BY <2>3, <2>4, <2>5 DEF AnyShellsInv
<1>4. ASSUME NEW i \in Inode, i \notin InUse,
             temp' = [temp EXCEPT ![This(p)] = i],
             disk' = [disk EXCEPT ![i] = NewFile],
             unsynced' = unsynced \cup {i},
             handle' = [handle EXCEPT ![p] = i],
             step' = [step EXCEPT ![p] = "write"]
      PROVE  AnyShellsInv'
    <2>1. step' \in [Proc -> Steps] /\ step'[p] = "write"
        BY <1>0, <1>4, SetShapes, StepsKnown
    <2>2. handle' \in [Proc -> Inode \cup {None}] /\ handle'[p] = i /\ i # None
        BY <1>0, <1>4, HandleShapes, InodeAssumption
    <2>3. LoopInv'
        BY <1>0, <1>1, <1>2, <2>1, <2>2, ReplacingLoop
    <2>4. temp' \in [Path -> Inode \cup {None}] /\ disk' \in [Inode -> File] /\ unsynced' \subseteq Inode
        BY <1>0, <1>4, NewFileType DEF TypeOK
    <2>5. TypeOK'
        BY <1>0, <1>1, <2>1, <2>2, <2>4 DEF TypeOK
    <2>6. OwnInodes'
        <3>1. /\ \A b \in Path : target[b] # i /\ temp[b] # i
              /\ This(p) \in Path /\ temp \in [Path -> Inode \cup {None}]
            BY <1>0, <1>4, ThisIsPath DEF InUse, TypeOK
        <3>2. \A b \in Path : temp'[b] = IF b = This(p) THEN i ELSE temp[b]
            BY <1>4, <3>1
        <3> QED BY <1>0, <1>1, <3>1, <3>2 DEF OwnInodes
    <2> QED BY <2>3, <2>5, <2>6 DEF AnyShellsInv
<1> QED BY <1>0, <1>3, <1>4, CreateParts

(* Writing changes one inode, and not its mode.                            *)
LEMMA WriteParts ==
    ASSUME TypeOK, LoopInv, NEW p \in Proc, Write(p)
    PROVE  /\ step[p] = "write" /\ handle[p] \in Inode
           /\ UNCHANGED <<target, temp, job, index, results, perms, exit, faults>>
           /\ disk' \in [Inode -> File]
           /\ disk'[handle[p]].text = results[p][index[p]].text
           /\ disk'[handle[p]].whole /\ disk'[handle[p]].mode = disk[handle[p]].mode
           /\ \A i \in Inode \ {handle[p]} : disk'[i] = disk[i]
           /\ unsynced' = unsynced \cup {handle[p]}
           /\ handle' = [handle EXCEPT ![p] = None]
           /\ step' = [step EXCEPT ![p] = "stat"]
<1>1. /\ step[p] = "write"
      /\ UNCHANGED <<target, temp, job, index, results, perms, exit, faults>>
      /\ disk' = [disk EXCEPT ![handle[p]].text = results[p][index[p]].text, ![handle[p]].whole = TRUE]
      /\ unsynced' = unsynced \cup {handle[p]}
      /\ handle' = [handle EXCEPT ![p] = None]
      /\ step' = [step EXCEPT ![p] = "stat"]
    BY DEF Write, Set
<1>2. handle[p] \in Inode
    BY <1>1 DEF LoopInv, TypeOK
<1>3. results[p][index[p]] \in Result
    BY <1>1, ResultAtIndex
<1>4. results[p][index[p]].text \in Content
    BY <1>3 DEF Result
<1>5. disk \in [Inode -> File]
    BY DEF TypeOK
<1>6. disk[handle[p]] \in [text : Content, whole : BOOLEAN, mode : Mode]
    BY <1>2, <1>5 DEF File
<1>7. disk'[handle[p]] = [disk[handle[p]] EXCEPT !.text = results[p][index[p]].text, !.whole = TRUE]
    BY <1>1, <1>2, <1>5, <1>6
<1>8. /\ disk'[handle[p]].text = results[p][index[p]].text
      /\ disk'[handle[p]].whole /\ disk'[handle[p]].mode = disk[handle[p]].mode
      /\ disk'[handle[p]] \in [text : Content, whole : BOOLEAN, mode : Mode]
    BY <1>4, <1>6, <1>7
<1>9. \A i \in Inode \ {handle[p]} : disk'[i] = disk[i]
    BY <1>1, <1>5
<1>10. disk' \in [Inode -> File]
    <2>1. DOMAIN disk' = Inode /\ disk' = [i \in Inode |-> disk'[i]]
        BY <1>1, <1>5
    <2>2. \A i \in Inode : disk'[i] \in File
        BY <1>5, <1>8, <1>9 DEF File
    <2> QED BY <2>1, <2>2
<1> QED BY <1>1, <1>2, <1>8, <1>9, <1>10

LEMMA WriteAny ==
    ASSUME AnyShellsInv, NEW p \in Proc, Write(p)
    PROVE  AnyShellsInv'
<1>0. TypeOK /\ LoopInv /\ OwnInodes
    BY DEF AnyShellsInv
<1>1. /\ step[p] = "write" /\ handle[p] \in Inode
      /\ UNCHANGED <<target, temp, job, index, results, perms, exit, faults>>
      /\ disk' \in [Inode -> File] /\ unsynced' = unsynced \cup {handle[p]}
      /\ handle' = [handle EXCEPT ![p] = None]
      /\ step' = [step EXCEPT ![p] = "stat"]
    BY <1>0, WriteParts
<1>2. OthersRest(p)
    BY <1>0, StepOthers DEF ShellStep, ProcStep
<1>3. step' \in [Proc -> Steps] /\ step'[p] = "stat"
    BY <1>0, <1>1, SetShapes, StepsKnown
<1>4. handle' \in [Proc -> Inode \cup {None}] /\ handle'[p] = None
    BY <1>0, <1>1, HandleShapes
<1>5. LoopInv'
    BY <1>0, <1>1, <1>2, <1>3, <1>4, ReplacingLoop
<1>6. TypeOK'
    BY <1>0, <1>1, <1>3, <1>4 DEF TypeOK
<1>7. OwnInodes'
    BY <1>0, <1>1 DEF OwnInodes
<1> QED BY <1>5, <1>6, <1>7 DEF AnyShellsInv

LEMMA StatAny ==
    ASSUME AnyShellsInv, NEW p \in Proc, Stat(p)
    PROVE  AnyShellsInv'
<1>0. TypeOK /\ LoopInv /\ OwnInodes
    BY DEF AnyShellsInv
<1>1. /\ step[p] = "stat"
      /\ UNCHANGED <<target, temp, disk, unsynced, job, index, results, handle, exit, faults>>
      /\ perms' = [perms EXCEPT ![p] = disk[target[This(p)]].mode]
      /\ step' = [step EXCEPT ![p] = "chmod"]
    BY DEF Stat, Set, fs
<1>2. OthersRest(p)
    BY <1>0, StepOthers DEF ShellStep, ProcStep
<1>3. step' \in [Proc -> Steps] /\ step'[p] = "chmod"
    BY <1>0, <1>1, SetShapes, StepsKnown
<1>4. handle'[p] = None
    BY <1>0, <1>1 DEF LoopInv
<1>5. LoopInv'
    BY <1>0, <1>1, <1>2, <1>3, <1>4, ReplacingLoop
<1>6. perms' \in [Proc -> Mode]
    <2>1. disk[target[This(p)]] \in File
        BY <1>0, ThisIsPath DEF TypeOK
    <2>2. disk[target[This(p)]].mode \in Mode
        BY <2>1 DEF File
    <2> QED BY <1>0, <1>1, <2>2 DEF TypeOK
<1>7. TypeOK'
    BY <1>0, <1>1, <1>3, <1>6 DEF TypeOK
<1>8. OwnInodes'
    BY <1>0, <1>1 DEF OwnInodes
<1> QED BY <1>5, <1>7, <1>8 DEF AnyShellsInv

(* chmod changes the mode of one inode, the one the temporary name leads to.*)
LEMMA ChmodParts ==
    ASSUME TypeOK, NEW p \in Proc, Chmod(p)
    PROVE  /\ step[p] = "chmod"
           /\ UNCHANGED <<target, temp, unsynced, job, index, results, handle, perms, exit, faults>>
           /\ \/ step' = [step EXCEPT ![p] = "clean up"] /\ UNCHANGED disk /\ temp[This(p)] = None
              \/ /\ temp[This(p)] \in Inode
                 /\ disk' \in [Inode -> File]
                 /\ disk'[temp[This(p)]].text = disk[temp[This(p)]].text
                 /\ disk'[temp[This(p)]].whole = disk[temp[This(p)]].whole
                 /\ disk'[temp[This(p)]].mode = perms[p]
                 /\ \A i \in Inode \ {temp[This(p)]} : disk'[i] = disk[i]
                 /\ step' = [step EXCEPT ![p] = "rename"]
<1>1. /\ step[p] = "chmod"
      /\ UNCHANGED <<target, temp, unsynced, job, index, results, handle, perms, exit, faults>>
    BY DEF Chmod
<1>2. CASE temp[This(p)] = None
    BY <1>1, <1>2 DEF Chmod, Set
<1>3. CASE temp[This(p)] # None
    <2> DEFINE i == temp[This(p)]
    <2>1. disk' = [disk EXCEPT ![i].mode = perms[p]] /\ step' = [step EXCEPT ![p] = "rename"]
        BY <1>3 DEF Chmod, Set
    <2>2. i \in Inode
        BY <1>3, ThisIsPath DEF TypeOK
    <2>3. disk \in [Inode -> [text : Content, whole : BOOLEAN, mode : Mode]]
        BY DEF TypeOK, File
    <2>4. perms[p] \in Mode
        BY DEF TypeOK
    <2> HIDE DEF i
    <2>5. /\ disk'[i] = [disk[i] EXCEPT !.mode = perms[p]]
          /\ \A n \in Inode \ {i} : disk'[n] = disk[n]
        BY <2>1, <2>2, <2>3
    <2>6. /\ disk'[i].text = disk[i].text /\ disk'[i].whole = disk[i].whole
          /\ disk'[i].mode = perms[p]
          /\ disk'[i] \in [text : Content, whole : BOOLEAN, mode : Mode]
        BY <2>2, <2>3, <2>4, <2>5
    <2>7. disk' \in [Inode -> File]
        <3>1. disk' = [n \in Inode |-> disk'[n]]
            BY <2>1, <2>3
        <3>2. \A n \in Inode : disk'[n] \in File
            BY <2>3, <2>5, <2>6 DEF File
        <3> QED BY <3>1, <3>2
    <2> QED BY <1>1, <2>1, <2>2, <2>5, <2>6, <2>7 DEF i
<1> QED BY <1>2, <1>3

LEMMA ChmodAny ==
    ASSUME AnyShellsInv, NEW p \in Proc, Chmod(p)
    PROVE  AnyShellsInv'
<1>0. TypeOK /\ LoopInv /\ OwnInodes
    BY DEF AnyShellsInv
<1>1. /\ step[p] = "chmod"
      /\ UNCHANGED <<target, temp, unsynced, job, index, results, handle, perms, exit, faults>>
      /\ disk' \in [Inode -> File]
      /\ \/ step' = [step EXCEPT ![p] = "clean up"]
         \/ step' = [step EXCEPT ![p] = "rename"]
    BY <1>0, ChmodParts DEF TypeOK
<1>2. OthersRest(p)
    BY <1>0, StepOthers DEF ShellStep, ProcStep
<1>3. step' \in [Proc -> Steps] /\ step'[p] \in {"clean up", "rename"}
    BY <1>0, <1>1, SetShapes, StepsKnown
<1>4. handle'[p] = None
    BY <1>0, <1>1 DEF LoopInv
<1>5. LoopInv'
    BY <1>0, <1>1, <1>2, <1>3, <1>4, ReplacingLoop
<1>6. TypeOK'
    BY <1>0, <1>1, <1>3 DEF TypeOK
<1>7. OwnInodes'
    BY <1>0, <1>1 DEF OwnInodes
<1> QED BY <1>5, <1>6, <1>7 DEF AnyShellsInv

LEMMA RenameParts ==
    ASSUME TypeOK, NEW p \in Proc, Rename(p)
    PROVE  /\ step[p] = "rename"
           /\ UNCHANGED <<disk, unsynced, job, results, perms, faults>>
           /\ \/ /\ temp[This(p)] = None
                 /\ step' = [step EXCEPT ![p] = "clean up"]
                 /\ UNCHANGED <<target, temp, index, exit, handle>>
              \/ /\ temp[This(p)] \in Inode
                 /\ target' = [target EXCEPT ![This(p)] = temp[This(p)]]
                 /\ temp' = [temp EXCEPT ![This(p)] = None]
                 /\ Advance(p)
<1>1. temp[This(p)] \in Inode \cup {None}
    BY ThisIsPath DEF TypeOK
<1> QED BY <1>1 DEF Rename, Set

LEMMA RenameAny ==
    ASSUME AnyShellsInv, NEW p \in Proc, Rename(p)
    PROVE  AnyShellsInv'
<1>0. TypeOK /\ LoopInv /\ OwnInodes
    BY DEF AnyShellsInv
<1>1. step[p] = "rename" /\ UNCHANGED <<disk, unsynced, job, results, perms, faults>>
    BY <1>0, RenameParts
<1>2. OthersRest(p)
    BY <1>0, StepOthers DEF ShellStep, ProcStep
<1>3. CASE step' = [step EXCEPT ![p] = "clean up"] /\ UNCHANGED <<target, temp, index, exit, handle>>
    <2>1. step' \in [Proc -> Steps] /\ step'[p] = "clean up"
        BY <1>0, <1>3, SetShapes, StepsKnown
    <2>2. handle'[p] = None
        BY <1>0, <1>1, <1>3 DEF LoopInv
    <2>3. LoopInv'
        BY <1>0, <1>1, <1>2, <1>3, <2>1, <2>2, ReplacingLoop
    <2>4. TypeOK'
        BY <1>0, <1>1, <1>3, <2>1 DEF TypeOK
    <2>5. OwnInodes'
        BY <1>0, <1>3 DEF OwnInodes
    <2> QED BY <2>3, <2>4, <2>5 DEF AnyShellsInv
<1>4. CASE /\ temp[This(p)] \in Inode
           /\ target' = [target EXCEPT ![This(p)] = temp[This(p)]]
           /\ temp' = [temp EXCEPT ![This(p)] = None]
           /\ Advance(p)
    <2>1. /\ This(p) \in Path /\ target \in [Path -> Inode] /\ temp \in [Path -> Inode \cup {None}]
          /\ temp[This(p)] # None
        BY <1>0, <1>4, ThisIsPath, InodeAssumption DEF TypeOK
    <2>2. target' \in [Path -> Inode] /\ temp' \in [Path -> Inode \cup {None}]
        BY <1>4, <2>1
    <2>3. \A b \in Path : /\ target'[b] = IF b = This(p) THEN temp[This(p)] ELSE target[b]
                          /\ temp'[b] = IF b = This(p) THEN None ELSE temp[b]
        BY <1>4, <2>1
    <2>4. OwnInodes'
        BY <1>0, <2>1, <2>3 DEF OwnInodes
    <2> QED BY <1>0, <1>1, <1>2, <1>4, <2>2, <2>4, AdvanceAny DEF AnyShellsInv
<1> QED BY <1>0, <1>3, <1>4, RenameParts

(* Everything that ends an invocation with the files as they are, or but   *)
(* for a temporary name that is removed.                                   *)
LEMMA ExitAny ==
    ASSUME AnyShellsInv, NEW p \in Proc, NEW how \in {"failed", "killed"}, Exit(p, how),
           OthersRest(p), UNCHANGED <<target, disk, unsynced, job, index, results, perms>>,
           temp' \in [Path -> Inode \cup {None}], \A a \in Path : temp'[a] \in {temp[a], None},
           faults' \in 0..MaxFaults
    PROVE  AnyShellsInv'
<1>0. TypeOK /\ LoopInv /\ OwnInodes
    BY DEF AnyShellsInv
<1>1. /\ step' = [step EXCEPT ![p] = "idle"] /\ exit' = [exit EXCEPT ![p] = how]
      /\ handle' = [handle EXCEPT ![p] = None]
    BY DEF Exit, Set
<1>2. /\ step' \in [Proc -> Steps] /\ step'[p] = "idle"
      /\ exit' \in [Proc -> {"none", "ok", "failed", "killed"}]
      /\ handle' \in [Proc -> Inode \cup {None}] /\ handle'[p] = None
    BY <1>0, <1>1, ExitShapes
<1>3. TypeOK'
    BY <1>0, <1>2 DEF TypeOK
<1>4. LoopInv'
    BY <1>0, <1>2, LoopStep
<1>5. OwnInodes'
    BY <1>0 DEF OwnInodes
<1> QED BY <1>3, <1>4, <1>5 DEF AnyShellsInv

LEMMA CleanUpParts ==
    ASSUME TypeOK, NEW p \in Proc, CleanUp(p)
    PROVE  /\ step[p] = "clean up" /\ Exit(p, "failed")
           /\ temp' \in [Path -> Inode \cup {None}]
           /\ \A a \in Path : temp'[a] = IF a = This(p) THEN None ELSE temp[a]
           /\ UNCHANGED <<target, disk, unsynced, job, index, results, perms, faults>>
<1>1. This(p) \in Path /\ temp \in [Path -> Inode \cup {None}]
    BY ThisIsPath DEF TypeOK
<1> QED BY <1>1 DEF CleanUp

LEMMA CleanUpAny ==
    ASSUME AnyShellsInv, NEW p \in Proc, CleanUp(p)
    PROVE  AnyShellsInv'
<1>1. TypeOK
    BY DEF AnyShellsInv
<1>2. faults' \in 0..MaxFaults
    BY <1>1, CleanUpParts DEF TypeOK
<1>3. OthersRest(p)
    BY <1>1, StepOthers DEF ShellStep, ProcStep
<1> QED BY <1>1, <1>2, <1>3, CleanUpParts, ExitAny

LEMMA FaultParts ==
    ASSUME TypeOK, NEW kind, Fault(kind)
    PROVE  faults' \in 0..MaxFaults
<1>1. faults \in 0..MaxFaults
    BY DEF TypeOK
<1>2. MaxFaults \in Nat
    BY FaultAssumption
<1> QED BY <1>1, <1>2 DEF Fault

LEMMA KillAny ==
    ASSUME AnyShellsInv, NEW p \in Proc, Kill(p)
    PROVE  AnyShellsInv'
<1>1. TypeOK
    BY DEF AnyShellsInv
<1>2. faults' \in 0..MaxFaults
    BY <1>1, FaultParts DEF Kill
<1>3. OthersRest(p)
    BY <1>1, StepOthers DEF ShellStep
<1>4. Exit(p, "killed") /\ UNCHANGED <<target, temp, disk, unsynced, job, index, results, perms>>
    BY DEF Kill, fs
<1>5. temp' \in [Path -> Inode \cup {None}] /\ \A a \in Path : temp'[a] = temp[a]
    BY <1>1, <1>4 DEF TypeOK
<1> QED BY <1>2, <1>3, <1>4, <1>5, ExitAny

LEMMA IoFailsAny ==
    ASSUME AnyShellsInv, NEW p \in Proc, IoFails(p)
    PROVE  AnyShellsInv'
<1>0. TypeOK /\ LoopInv /\ OwnInodes
    BY DEF AnyShellsInv
<1>1. UNCHANGED <<target, temp, disk, unsynced, job, index, results, perms>>
    BY DEF IoFails, fs
<1>2. faults' \in 0..MaxFaults
    BY <1>0, FaultParts DEF IoFails
<1>3. OthersRest(p)
    BY <1>0, StepOthers DEF ShellStep
<1>4. CASE Exit(p, "failed")
    <2>1. temp' \in [Path -> Inode \cup {None}] /\ \A a \in Path : temp'[a] = temp[a]
        BY <1>0, <1>1 DEF TypeOK
    <2> QED BY <1>1, <1>2, <1>3, <1>4, <2>1, ExitAny
<1>5. CASE /\ step[p] \in {"create", "write", "stat", "chmod", "rename"}
           /\ step' = [step EXCEPT ![p] = "clean up"]
           /\ handle' = [handle EXCEPT ![p] = None]
           /\ UNCHANGED exit
    <2>1. step' \in [Proc -> Steps] /\ step'[p] = "clean up"
        BY <1>0, <1>5, SetShapes, StepsKnown
    <2>2. handle' \in [Proc -> Inode \cup {None}] /\ handle'[p] = None
        BY <1>0, <1>5, HandleShapes
    <2>3. LoopInv'
        BY <1>0, <1>1, <1>3, <1>5, <2>1, <2>2, ReplacingLoop
    <2>4. TypeOK'
        BY <1>0, <1>1, <1>2, <1>5, <2>1, <2>2 DEF TypeOK
    <2>5. OwnInodes'
        BY <1>0, <1>1 DEF OwnInodes
    <2> QED BY <2>3, <2>4, <2>5 DEF AnyShellsInv
<1> QED BY <1>4, <1>5 DEF IoFails, Set

LEMMA WritebackAny ==
    ASSUME AnyShellsInv, Writeback
    PROVE  AnyShellsInv'
<1>1. UNCHANGED <<target, temp, disk, job, step, index, results, handle, perms, exit, faults>>
    BY DEF Writeback
<1>2. unsynced' \subseteq unsynced
    BY DEF Writeback
<1>3. TypeOK'
    BY <1>1, <1>2 DEF AnyShellsInv, TypeOK
<1>4. LoopInv' /\ OwnInodes'
    BY <1>1 DEF AnyShellsInv, LoopInv, OwnInodes
<1> QED BY <1>3, <1>4 DEF AnyShellsInv

(* What a power loss leaves: names, modes and texts, but for the ends of   *)
(* some files; and no process.                                             *)
LEMMA PowerLossParts ==
    ASSUME TypeOK, PowerLoss
    PROVE  /\ UNCHANGED <<target, temp, job, index, results, perms>>
           /\ unsynced' = {} /\ faults' \in 0..MaxFaults
           /\ disk' \in [Inode -> File]
           /\ \A i \in Inode : /\ disk'[i].text = disk[i].text /\ disk'[i].mode = disk[i].mode
                               /\ i \notin unsynced => disk'[i] = disk[i]
           /\ step' = [p \in Proc |-> "idle"] /\ handle' = [p \in Proc |-> None]
           /\ exit' = [p \in Proc |-> IF step[p] = "idle" THEN exit[p] ELSE "killed"]
<1>1. PICK lost \in SUBSET unsynced :
        disk' = [i \in Inode |-> IF i \in lost THEN [disk[i] EXCEPT !.whole = FALSE] ELSE disk[i]]
    BY DEF PowerLoss
<1>2. disk \in [Inode -> [text : Content, whole : BOOLEAN, mode : Mode]]
    BY DEF TypeOK, File
<1>3. ASSUME NEW i \in Inode
      PROVE  /\ disk'[i].text = disk[i].text /\ disk'[i].mode = disk[i].mode
             /\ disk'[i] \in [text : Content, whole : BOOLEAN, mode : Mode]
             /\ i \notin unsynced => disk'[i] = disk[i]
    BY <1>1, <1>2
<1>4. disk' \in [Inode -> File]
    <2>1. disk' = [i \in Inode |-> disk'[i]]
        BY <1>1
    <2> QED BY <1>3, <2>1 DEF File
<1>5. faults' \in 0..MaxFaults
    BY FaultParts DEF PowerLoss
<1> QED BY <1>3, <1>4, <1>5 DEF PowerLoss

LEMMA PowerLossAny ==
    ASSUME AnyShellsInv, PowerLoss
    PROVE  AnyShellsInv'
<1>0. TypeOK /\ LoopInv /\ OwnInodes
    BY DEF AnyShellsInv
<1>1. /\ UNCHANGED <<target, temp, job, index, results, perms>>
      /\ unsynced' = {} /\ faults' \in 0..MaxFaults /\ disk' \in [Inode -> File]
      /\ step' = [p \in Proc |-> "idle"] /\ handle' = [p \in Proc |-> None]
      /\ exit' = [p \in Proc |-> IF step[p] = "idle" THEN exit[p] ELSE "killed"]
    BY <1>0, PowerLossParts
<1>2. step' \in [Proc -> Steps]
    BY <1>1, StepsKnown
<1>3. exit' \in [Proc -> {"none", "ok", "failed", "killed"}]
    <2>1. exit \in [Proc -> {"none", "ok", "failed", "killed"}]
        BY <1>0, Shapes
    <2> QED BY <1>1, <2>1
<1>4. handle' \in [Proc -> Inode \cup {None}]
    BY <1>1
<1>5. TypeOK'
    BY <1>0, <1>1, <1>2, <1>3, <1>4 DEF TypeOK
<1>6. LoopInv'
    BY <1>1 DEF LoopInv
<1>7. OwnInodes'
    BY <1>0, <1>1 DEF OwnInodes
<1> QED BY <1>5, <1>6, <1>7 DEF AnyShellsInv

LEMMA AnyShellsNext == AnyShellsInv /\ [Next]_vars => AnyShellsInv'
<1> SUFFICES ASSUME AnyShellsInv, [Next]_vars PROVE AnyShellsInv'
    OBVIOUS
<1>1. CASE UNCHANGED vars
    BY <1>1 DEF vars, fs, AnyShellsInv, TypeOK, LoopInv, OwnInodes
<1>2. ASSUME NEW p \in Proc, ShellStep(p)
      PROVE  AnyShellsInv'
    BY <1>2, LaunchAny, ReadAny, DecideAny, CreateAny, WriteAny, StatAny, ChmodAny, RenameAny,
       CleanUpAny, IoFailsAny, KillAny DEF ShellStep, ProcStep
<1> QED BY <1>1, <1>2, WritebackAny, PowerLossAny DEF Next, ShellStep

(* Types, loops and names, for any number of shells at once.               *)
THEOREM AnyShells == Spec => []AnyShellsInv
<1> QED BY AnyShellsInit, AnyShellsNext, PTL DEF Spec

(* Types, in every state.                                                  *)
THEOREM RewriteTypes == Spec => []TypeOK
<1>1. AnyShellsInv => TypeOK
    BY DEF AnyShellsInv
<1> QED BY <1>1, AnyShells, PTL

(* A path leads to another file only by the rename of an invocation that,  *)
(* if it protects, has read and transformed all of its files.              *)
THEOREM RewriteReadsFirst == Spec => NothingReplacedEarly
<1>1. ASSUME AnyShellsInv, [Next]_vars
      PROVE  [\A a \in Path : target'[a] # target[a] =>
                \E p \in Proc :
                    /\ step[p] = "rename" /\ This(p) = a
                    /\ job[p].cmd = "protect" => Len(results[p]) = Len(job[p].files)]_vars
    <2> SUFFICES ASSUME Next, NEW a \in Path, target'[a] # target[a]
                 PROVE  \E p \in Proc :
                            /\ step[p] = "rename" /\ This(p) = a
                            /\ job[p].cmd = "protect" => Len(results[p]) = Len(job[p].files)
        BY <1>1
    <2>1. TypeOK /\ LoopInv
        BY <1>1 DEF AnyShellsInv
    <2>2. ~Writeback /\ ~PowerLoss
        BY DEF Writeback, PowerLoss
    <2>3. PICK p \in Proc : ShellStep(p)
        BY <2>2 DEF Next, ShellStep
    <2>4. Rename(p)
        BY <2>3 DEF ShellStep, ProcStep, Launch, Read, Decide, Create, Write, Stat, Chmod, CleanUp,
                    IoFails, Kill, fs
    <2>5. step[p] = "rename" /\ target' = [target EXCEPT ![This(p)] = temp[This(p)]]
        BY <2>1, <2>4, RenameParts
    <2>6. This(p) = a
        BY <2>1, <2>5 DEF TypeOK
    <2>7. job[p].cmd = "protect" => Len(results[p]) = Len(job[p].files)
        BY <2>1, <2>5 DEF LoopInv
    <2> QED BY <2>5, <2>6, <2>7
<1> QED BY <1>1, AnyShells, PTL DEF Spec, NothingReplacedEarly

-----------------------------------------------------------------------------
(* What holds when no two invocations run at once.                         *)

OneShell == \A p, q \in Proc : p = q

(* What RewriteInv adds.                                                   *)
OneShellParts == TempIsOwn /\ UnfinishedIsPrivate /\ ResultsHold /\ WrittenHold

LEMMA InvParts == RewriteInv <=> AnyShellsInv /\ OneShellParts
BY DEF RewriteInv, AnyShellsInv, OneShellParts

(* The results are of files of the list.                                   *)
LEMMA ResultsFiles ==
    ASSUME TypeOK, LoopInv, NEW p \in Proc, step[p] # "idle"
    PROVE  /\ DOMAIN results[p] = 1..Len(results[p])
           /\ \A n \in DOMAIN results[p] :
                /\ n \in 1..Len(job[p].files) /\ job[p].files[n] \in Path
                /\ results[p][n] \in Result
<1>1. /\ index[p] \in 1..Len(job[p].files) /\ Len(job[p].files) \in Nat
      /\ \A n \in 1..Len(job[p].files) : job[p].files[n] \in Path
    BY ThisIsPath
<1>2. /\ DOMAIN results[p] = 1..Len(results[p]) /\ Len(results[p]) \in Nat
      /\ results[p] \in Seq(Result)
    BY ResultAtIndex
<1>3. Len(results[p]) <= Len(job[p].files)
    BY <1>1, <1>2 DEF LoopInv
<1>4. \A n \in DOMAIN results[p] : results[p][n] \in Result
    BY <1>2
<1> QED BY <1>1, <1>2, <1>3, <1>4

(* While no path leads to another text, what was computed still holds.     *)
LEMMA SameSeen ==
    ASSUME TypeOK, LoopInv, ResultsHold, WrittenHold, OneShell, NEW p \in Proc,
           \A a \in Path : disk'[target'[a]] = disk[target[a]],
           UNCHANGED <<job, index, results>>,
           step[p] \notin {"idle", "read"}, step'[p] \notin {"idle", "read"}
    PROVE  ResultsHold' /\ WrittenHold'
<1>1. \A n \in DOMAIN results[p] : job[p].files[n] \in Path
    BY ResultsFiles
<1>2. \A n \in 1..(index[p] - 1) : n \in DOMAIN results[p]
    <2>1. index[p] \in DOMAIN results[p] /\ DOMAIN results[p] = 1..Len(results[p]) /\ Len(results[p]) \in Nat
        BY ResultAtIndex
    <2> QED BY <2>1
<1>3. ResultsHold'
    BY <1>1 DEF ResultsHold, OneShell
<1>4. WrittenHold'
    BY <1>1, <1>2 DEF WrittenHold, OneShell
<1> QED BY <1>3, <1>4

LEMMA OneShellInit == Init => OneShellParts
<1> SUFFICES ASSUME Init PROVE OneShellParts
    OBVIOUS
<1>1. /\ \A p \in Proc : step[p] = "idle" /\ exit[p] = "none" /\ handle[p] = None
      /\ \A a \in Path : temp[a] = None
    BY DEF Init
<1> QED BY <1>1 DEF OneShellParts, TempIsOwn, UnfinishedIsPrivate, ResultsHold, WrittenHold

LEMMA LaunchOne ==
    ASSUME RewriteInv, OneShell, NEW p \in Proc, NEW j \in Job, Launch(p, j)
    PROVE  OneShellParts'
<1>0. TypeOK /\ LoopInv
    BY DEF RewriteInv
<1>1. /\ UNCHANGED <<target, temp, disk, unsynced, handle>>
      /\ index' = [index EXCEPT ![p] = 1] /\ results' = [results EXCEPT ![p] = << >>]
      /\ step[p] = "idle"
      /\ \/ exit' = [exit EXCEPT ![p] = "failed"] /\ UNCHANGED step
         \/ exit' = [exit EXCEPT ![p] = "none"] /\ step' = [step EXCEPT ![p] = "read"]
    BY DEF Launch, Set, fs
<1>2. /\ step'[p] \in {"idle", "read"} /\ exit'[p] # "ok"
      /\ results'[p] = << >> /\ index'[p] = 1
    BY <1>0, <1>1 DEF TypeOK
<1>3. DOMAIN results'[p] = {} /\ 1..(index'[p] - 1) = {}
    BY <1>2
<1>4. TempIsOwn' /\ UnfinishedIsPrivate'
    BY <1>1, <1>2 DEF RewriteInv, TempIsOwn, UnfinishedIsPrivate, OneShell
<1>5. ResultsHold' /\ WrittenHold'
    BY <1>2, <1>3 DEF ResultsHold, WrittenHold, OneShell
<1> QED BY <1>4, <1>5 DEF OneShellParts

(* After an invocation has ended without success.                          *)
LEMMA EndedOne ==
    ASSUME RewriteInv, OneShell, NEW p \in Proc, NEW how \in {"failed", "killed"}, Exit(p, how),
           UNCHANGED <<target, disk>>, \A a \in Path : temp'[a] \in {temp[a], None}
    PROVE  OneShellParts'
<1>1. step'[p] = "idle" /\ exit'[p] # "ok" /\ handle'[p] = None
    <2>1. TypeOK
        BY DEF RewriteInv
    <2> QED BY <2>1, ExitShapes DEF Exit, Set
<1>2. TempIsOwn' /\ ResultsHold' /\ WrittenHold'
    BY <1>1 DEF TempIsOwn, ResultsHold, WrittenHold, OneShell
<1>3. UnfinishedIsPrivate'
    BY <1>1 DEF RewriteInv, UnfinishedIsPrivate, OneShell
<1> QED BY <1>2, <1>3 DEF OneShellParts

LEMMA ReadOne ==
    ASSUME RewriteInv, OneShell, NEW p \in Proc, Read(p)
    PROVE  OneShellParts'
<1>0. AnyShellsInv /\ TypeOK /\ LoopInv /\ ResultsHold /\ WrittenHold /\ UnfinishedIsPrivate
    BY DEF RewriteInv, AnyShellsInv
<1>1. step[p] = "read" /\ UNCHANGED <<target, temp, disk, unsynced, job, perms, faults>>
    BY <1>0, ReadParts
<1>2. CASE /\ step' = [step EXCEPT ![p] = "idle"]
           /\ exit' = [exit EXCEPT ![p] = "failed"]
           /\ handle' = [handle EXCEPT ![p] = None]
    <2>1. Exit(p, "failed")
        BY <1>2 DEF Exit, Set
    <2> QED BY <1>1, <2>1, EndedOne
<1>3. ASSUME NEW r \in Result, NEW s \in {"read", "decide"},
             LET f == disk[target[This(p)]]
             IN  /\ f \in File /\ f.whole /\ ~Refuses(job[p], f.text)
                 /\ r = [text |-> Transformed(job[p], f.text), touched |-> Touches(job[p], f.text)],
             results' = [results EXCEPT ![p] = Append(results[p], r)],
             step' = [step EXCEPT ![p] = s],
             s = "decide" => \/ job[p].cmd = "rewrap" /\ UNCHANGED index
                             \/ /\ job[p].cmd = "protect" /\ index[p] = Len(job[p].files)
                                /\ index' = [index EXCEPT ![p] = 1],
             s = "read" => job[p].cmd = "protect",
             UNCHANGED <<exit, handle>>
      PROVE  OneShellParts'
    <2>1. step'[p] = s
        BY <1>0, <1>3, SetShapes, StepsKnown
    <2>2. results[p] \in Seq(Result) /\ DOMAIN results[p] = 1..Len(results[p]) /\ Len(results[p]) \in Nat
        BY <1>0, ResultAtIndex
    <2>3. Len(results[p]) = index[p] - 1 /\ index[p] \in 1..Len(job[p].files)
        BY <1>0, <1>1, ThisIsPath DEF LoopInv
    <2>4. /\ DOMAIN Append(results[p], r) = 1..index[p]
          /\ \A n \in 1..(index[p] - 1) : Append(results[p], r)[n] = results[p][n]
          /\ Append(results[p], r)[index[p]] = r
        BY <2>2, <2>3
    <2>5. results'[p] = Append(results[p], r)
        <3>1. results \in [Proc -> Seq(Result)]
            BY <1>0, Shapes
        <3> QED BY <1>3, <3>1
    <2>6. LeadsTo(job[p], disk[target[job[p].files[index[p]]]], r)
        BY <1>3 DEF LeadsTo, This
    <2>7. \A n \in 1..(index[p] - 1) : LeadsTo(job[p], disk[target[job[p].files[n]]], results[p][n])
        BY <1>0, <1>1, <2>2, <2>3 DEF ResultsHold
    <2>8. \A n \in DOMAIN results'[p] : LeadsTo(job[p], disk[target[job[p].files[n]]], results'[p][n])
        <3> SUFFICES ASSUME NEW n \in DOMAIN results'[p]
                     PROVE  LeadsTo(job[p], disk[target[job[p].files[n]]], results'[p][n])
            OBVIOUS
        <3>1. n \in 1..(index[p] - 1) \/ n = index[p]
            BY <2>3, <2>4, <2>5
        <3> QED BY <2>4, <2>5, <2>6, <2>7, <3>1
    <2>9. ResultsHold'
        BY <1>1, <2>8 DEF ResultsHold, OneShell
    <2>10. WrittenHold'
        <3>1. CASE s = "read"
            BY <1>1, <1>3, <2>1, <3>1 DEF WrittenHold, OneShell
        <3>2. CASE s = "decide" /\ job[p].cmd = "protect"
            <4>1. index' = [index EXCEPT ![p] = 1] /\ index \in [Proc -> Nat]
                BY <1>0, <1>3, <3>2, Shapes
            <4>2. 1..(index'[p] - 1) = {}
                BY <4>1
            <4> QED BY <2>1, <3>2, <4>2 DEF WrittenHold, OneShell
        <3>3. CASE s = "decide" /\ job[p].cmd = "rewrap"
            <4>1. index' = index
                BY <1>3, <3>3
            <4>2. \A n \in 1..(index[p] - 1) : disk[target[job[p].files[n]]].text = results[p][n].text
                BY <1>0, <1>1, <3>3 DEF WrittenHold
            <4>3. \A n \in 1..(index'[p] - 1) :
                    disk'[target'[job'[p].files[n]]].text = results'[p][n].text
                <5> SUFFICES ASSUME NEW n \in 1..(index[p] - 1)
                             PROVE  disk[target[job[p].files[n]]].text = results'[p][n].text
                    BY <1>1, <4>1
                <5>1. results'[p][n] = results[p][n]
                    BY <2>4, <2>5
                <5> QED BY <4>2, <5>1
            <4> QED BY <2>1, <3>3, <4>3 DEF WrittenHold, OneShell
        <3>4. job[p].cmd \in {"protect", "rewrap"}
            BY <1>0, ThisIsPath
        <3> QED BY <3>1, <3>2, <3>3, <3>4
    <2>11. TempIsOwn'
        BY <2>1 DEF TempIsOwn, OneShell
    <2>12. UnfinishedIsPrivate'
        BY <1>0, <1>1, <1>3 DEF UnfinishedIsPrivate
    <2> QED BY <2>9, <2>10, <2>11, <2>12 DEF OneShellParts
<1> QED BY <1>0, <1>2, <1>3, ReadParts

(* Going on, when the files up to the loop's hold what was computed.       *)
LEMMA AdvanceOne ==
    ASSUME TypeOK, LoopInv, OneShell, NEW p \in Proc, step[p] \in {"decide", "rename"},
           Advance(p), UNCHANGED <<job, results>>,
           \A n \in DOMAIN results[p] : LeadsTo(job[p], disk'[target'[job[p].files[n]]], results[p][n]),
           \A n \in 1..index[p] : disk'[target'[job[p].files[n]]].text = results[p][n].text
    PROVE  ResultsHold' /\ WrittenHold' /\ TempIsOwn'
<1>1. /\ index[p] \in 1..Len(job[p].files) /\ Len(job[p].files) \in Nat
      /\ job[p].cmd \in {"protect", "rewrap"} /\ DOMAIN job[p].files = 1..Len(job[p].files)
    BY ThisIsPath, JobParts
<1>2. index[p] \in DOMAIN results[p] /\ DOMAIN results[p] = 1..Len(results[p]) /\ Len(results[p]) \in Nat
    BY ResultAtIndex
<1>3. ResultsHold'
    BY DEF ResultsHold, OneShell
<1>4. CASE /\ index[p] < Len(job[p].files)
           /\ index' = [index EXCEPT ![p] = index[p] + 1]
           /\ step' = [step EXCEPT ![p] = IF job[p].cmd = "protect" THEN "decide" ELSE "read"]
    <2>1. index'[p] = index[p] + 1
        BY <1>4, Shapes
    <2>2. step'[p] = IF job[p].cmd = "protect" THEN "decide" ELSE "read"
        BY <1>4, SetShapes, StepsKnown
    <2>3. \A n \in 1..(index'[p] - 1) : n \in 1..index[p]
        BY <1>1, <2>1
    <2>4. WrittenHold'
        BY <2>2, <2>3 DEF WrittenHold, OneShell
    <2>5. TempIsOwn'
        BY <2>2 DEF TempIsOwn, OneShell
    <2> QED BY <1>3, <2>4, <2>5
<1>5. CASE /\ ~(index[p] < Len(job[p].files))
           /\ step' = [step EXCEPT ![p] = "idle"]
           /\ exit' = [exit EXCEPT ![p] = "ok"]
    <2>1. step'[p] = "idle"
        BY <1>5, SetShapes, StepsKnown
    <2>2. index[p] = Len(job[p].files)
        BY <1>1, <1>5
    <2>3. ASSUME NEW n \in DOMAIN job[p].files
          PROVE  LET text == disk'[target'[job[p].files[n]]].text
                 IN  Transformed(job[p], text) = text
        <3>1. n \in 1..index[p] /\ n \in DOMAIN results[p]
            BY <1>1, <1>2, <2>2
        <3> QED BY <3>1 DEF LeadsTo
    <2>4. WrittenHold'
        BY <2>1, <2>3 DEF WrittenHold, OneShell
    <2>5. TempIsOwn'
        BY <2>1 DEF TempIsOwn, OneShell
    <2> QED BY <1>3, <2>4, <2>5
<1> QED BY <1>4, <1>5, AdvanceParts

LEMMA DecideOne ==
    ASSUME RewriteInv, OneShell, NEW p \in Proc, Decide(p)
    PROVE  OneShellParts'
<1>0. TypeOK /\ LoopInv /\ ResultsHold /\ WrittenHold /\ UnfinishedIsPrivate
    BY DEF RewriteInv
<1>1. step[p] = "decide" /\ UNCHANGED <<target, temp, disk, unsynced, job, results, perms, faults>>
    BY DEF Decide, fs
<1>2. CASE ~results[p][index[p]].touched /\ Advance(p)
    <2>1. \A n \in DOMAIN results[p] : LeadsTo(job[p], disk[target[job[p].files[n]]], results[p][n])
        BY <1>0, <1>1 DEF ResultsHold
    <2>2. index[p] \in DOMAIN results[p] /\ job[p] \in Job /\ index[p] \in 1..Len(job[p].files)
        BY <1>0, <1>1, ResultAtIndex, ThisIsPath
    <2> DEFINE text == disk[target[This(p)]].text
    <2>3. ~Touches(job[p], text) /\ Transformed(job[p], text) = results[p][index[p]].text
        BY <1>2, <2>1, <2>2 DEF LeadsTo, This
    <2>4. text \in Content
        <3>1. disk[target[This(p)]] \in File
            BY <1>0, ThisIsPath DEF TypeOK
        <3> QED BY <3>1 DEF File
    <2>5. text = results[p][index[p]].text
        BY <2>2, <2>3, <2>4, TransformedSame
    <2>6. \A n \in 1..(index[p] - 1) : disk[target[job[p].files[n]]].text = results[p][n].text
        BY <1>0, <1>1 DEF WrittenHold
    <2>7. \A n \in 1..index[p] : disk[target[job[p].files[n]]].text = results[p][n].text
        <3> SUFFICES ASSUME NEW n \in 1..index[p]
                     PROVE  disk[target[job[p].files[n]]].text = results[p][n].text
            OBVIOUS
        <3>1. n \in 1..(index[p] - 1) \/ n = index[p]
            BY <2>2
        <3> QED BY <2>5, <2>6, <3>1 DEF This
    <2>8. ResultsHold' /\ WrittenHold' /\ TempIsOwn'
        BY <1>0, <1>1, <1>2, <2>1, <2>7, AdvanceOne
    <2>9. UnfinishedIsPrivate'
        <3>1. handle[p] = None
            BY <1>0, <1>1 DEF LoopInv
        <3>2. handle'[p] = None
            BY <1>0, <1>2, <3>1, AdvanceParts, HandleShapes
        <3> QED BY <1>0, <1>1, <3>2 DEF UnfinishedIsPrivate, OneShell
    <2> QED BY <2>8, <2>9 DEF OneShellParts
<1>3. CASE step' = [step EXCEPT ![p] = "create"] /\ UNCHANGED <<index, exit, handle>>
    <2>1. step'[p] = "create"
        BY <1>0, <1>3, SetShapes, StepsKnown
    <2>2. ResultsHold' /\ WrittenHold'
        BY <1>0, <1>1, <1>3, <2>1, SameSeen
    <2>3. TempIsOwn' /\ UnfinishedIsPrivate'
        BY <1>0, <1>1, <1>3, <2>1 DEF TempIsOwn, UnfinishedIsPrivate, OneShell
    <2> QED BY <2>2, <2>3 DEF OneShellParts
<1> QED BY <1>2, <1>3 DEF Decide, Set

LEMMA CreateOne ==
    ASSUME RewriteInv, OneShell, NEW p \in Proc, Create(p)
    PROVE  OneShellParts'
<1>0. TypeOK /\ LoopInv /\ ResultsHold /\ WrittenHold /\ UnfinishedIsPrivate
    BY DEF RewriteInv
<1>1. step[p] = "create" /\ UNCHANGED <<target, job, index, results, perms, exit, faults>>
    BY <1>0, CreateParts
<1>2. CASE step' = [step EXCEPT ![p] = "clean up"] /\ UNCHANGED <<temp, disk, unsynced, handle>>
    <2>1. step'[p] = "clean up"
        BY <1>0, <1>2, SetShapes, StepsKnown
    <2>2. ResultsHold' /\ WrittenHold'
        BY <1>0, <1>1, <1>2, <2>1, SameSeen
    <2>3. TempIsOwn' /\ UnfinishedIsPrivate'
        BY <1>0, <1>1, <1>2, <2>1 DEF TempIsOwn, UnfinishedIsPrivate, OneShell
    <2> QED BY <2>2, <2>3 DEF OneShellParts
<1>3. ASSUME NEW i \in Inode, i \notin InUse,
             temp' = [temp EXCEPT ![This(p)] = i],
             disk' = [disk EXCEPT ![i] = NewFile],
             handle' = [handle EXCEPT ![p] = i],
             step' = [step EXCEPT ![p] = "write"]
      PROVE  OneShellParts'
    <2>1. step'[p] = "write" /\ handle'[p] = i
        BY <1>0, <1>3, SetShapes, StepsKnown, HandleShapes
    <2>2. /\ \A b \in Path : target[b] # i /\ temp[b] # i
          /\ This(p) \in Path /\ target \in [Path -> Inode] /\ temp \in [Path -> Inode \cup {None}]
          /\ disk \in [Inode -> File]
        BY <1>0, <1>3, ThisIsPath DEF InUse, TypeOK
    <2>3. \A b \in Path : temp'[b] = IF b = This(p) THEN i ELSE temp[b]
        BY <1>3, <2>2
    <2>4. disk'[i] = NewFile /\ \A n \in Inode \ {i} : disk'[n] = disk[n]
        BY <1>3, <2>2
    <2>5. \A a \in Path : disk'[target'[a]] = disk[target[a]]
        BY <1>1, <2>2, <2>4
    <2>6. ResultsHold' /\ WrittenHold'
        BY <1>0, <1>1, <2>1, <2>5, SameSeen
    <2>7. TempIsOwn'
        BY <1>1, <2>1, <2>2, <2>3 DEF TempIsOwn, OneShell, This
    <2>8. UnfinishedIsPrivate'
        <3>1. disk'[handle'[p]].mode = "private"
            BY <2>1, <2>4, NewFileType
        <3>2. ASSUME NEW a \in Path, temp'[a] # None
              PROVE  disk'[temp'[a]].mode \in {"private", disk'[target'[a]].mode}
            <4>1. CASE a = This(p)
                BY <2>3, <2>4, <4>1, NewFileType
            <4>2. CASE a # This(p)
                <5>1. temp'[a] = temp[a] /\ temp[a] \in Inode \ {i}
                    BY <2>2, <2>3, <3>2, <4>2
                <5> QED BY <1>0, <2>4, <2>5, <3>2, <5>1 DEF UnfinishedIsPrivate
            <4> QED BY <4>1, <4>2
        <3> QED BY <3>1, <3>2 DEF UnfinishedIsPrivate, OneShell
    <2> QED BY <2>6, <2>7, <2>8 DEF OneShellParts
<1> QED BY <1>0, <1>2, <1>3, CreateParts

(* The inode that is written is the temporary file, which no path leads to.*)
LEMMA WriteOne ==
    ASSUME RewriteInv, OneShell, NEW p \in Proc, Write(p)
    PROVE  /\ OneShellParts'
           /\ \A a \in Path : disk'[target'[a]] = disk[target[a]] /\ target'[a] # handle[p]
<1>0. /\ TypeOK /\ LoopInv /\ OwnInodes /\ ResultsHold /\ WrittenHold /\ UnfinishedIsPrivate
      /\ TempIsOwn
    BY DEF RewriteInv
<1>1. /\ step[p] = "write" /\ handle[p] \in Inode
      /\ UNCHANGED <<target, temp, job, index, results, perms, exit, faults>>
      /\ disk'[handle[p]].text = results[p][index[p]].text
      /\ disk'[handle[p]].whole /\ disk'[handle[p]].mode = disk[handle[p]].mode
      /\ \A i \in Inode \ {handle[p]} : disk'[i] = disk[i]
      /\ handle' = [handle EXCEPT ![p] = None]
      /\ step' = [step EXCEPT ![p] = "stat"]
    BY <1>0, WriteParts
<1>2. /\ temp[This(p)] = handle[p] /\ handle[p] # None /\ This(p) \in Path
      /\ target \in [Path -> Inode] /\ temp \in [Path -> Inode \cup {None}]
    BY <1>0, <1>1, InodeAssumption, ThisIsPath DEF TempIsOwn, TypeOK
<1>3. \A a \in Path : target[a] # handle[p] /\ target[a] \in Inode
    BY <1>0, <1>2 DEF OwnInodes
<1>4. \A a \in Path : disk'[target'[a]] = disk[target[a]]
    BY <1>1, <1>3
<1>5. step'[p] = "stat" /\ handle'[p] = None
    BY <1>0, <1>1, SetShapes, StepsKnown, HandleShapes
<1>6. ResultsHold' /\ WrittenHold'
    BY <1>0, <1>1, <1>4, <1>5, SameSeen
<1>7. TempIsOwn'
    BY <1>1, <1>2, <1>5, ZenonT(60) DEF TempIsOwn, OneShell, This
<1>8. UnfinishedIsPrivate'
    <2>1. ASSUME NEW a \in Path, temp'[a] # None
          PROVE  disk'[temp'[a]].mode = disk[temp[a]].mode
        BY <1>1, <1>2, <2>1
    <2> QED BY <1>0, <1>1, <1>4, <1>5, <2>1 DEF UnfinishedIsPrivate, OneShell
<1> QED BY <1>1, <1>3, <1>4, <1>6, <1>7, <1>8 DEF OneShellParts

LEMMA StatOne ==
    ASSUME RewriteInv, OneShell, NEW p \in Proc, Stat(p)
    PROVE  OneShellParts'
<1>0. /\ TypeOK /\ LoopInv /\ ResultsHold /\ WrittenHold /\ UnfinishedIsPrivate /\ TempIsOwn
    BY DEF RewriteInv
<1>1. /\ step[p] = "stat"
      /\ UNCHANGED <<target, temp, disk, unsynced, job, index, results, handle, exit, faults>>
      /\ perms' = [perms EXCEPT ![p] = disk[target[This(p)]].mode]
      /\ step' = [step EXCEPT ![p] = "chmod"]
    BY DEF Stat, Set, fs
<1>2. step'[p] = "chmod" /\ perms'[p] = disk[target[This(p)]].mode
    <2>1. perms \in [Proc -> Mode]
        BY <1>0 DEF TypeOK
    <2> QED BY <1>0, <1>1, <2>1, SetShapes, StepsKnown
<1>3. ResultsHold' /\ WrittenHold'
    BY <1>0, <1>1, <1>2, SameSeen
<1>4. TempIsOwn'
    <2> DEFINE a == job[p].files[index[p]]
    <2>1. temp[a] # None /\ disk[temp[a]].whole /\ disk[temp[a]].text = results[p][index[p]].text
        BY <1>0, <1>1 DEF TempIsOwn, This
    <2>2. job'[p].files[index'[p]] = a /\ perms'[p] = disk'[target'[a]].mode
        BY <1>1, <1>2 DEF This
    <2> HIDE DEF a
    <2>3. /\ temp'[a] # None /\ disk'[temp'[a]].whole
          /\ disk'[temp'[a]].text = results'[p][index'[p]].text
        BY <1>1, <2>1
    <2> QED BY <1>2, <2>2, <2>3 DEF TempIsOwn, OneShell, This
<1>5. UnfinishedIsPrivate'
    BY <1>0, <1>1 DEF UnfinishedIsPrivate
<1> QED BY <1>3, <1>4, <1>5 DEF OneShellParts

LEMMA ChmodOne ==
    ASSUME RewriteInv, OneShell, NEW p \in Proc, Chmod(p)
    PROVE  OneShellParts' /\ \A a \in Path : disk'[target'[a]] = disk[target[a]]
<1>0. /\ TypeOK /\ LoopInv /\ OwnInodes /\ ResultsHold /\ WrittenHold /\ UnfinishedIsPrivate
      /\ TempIsOwn
    BY DEF RewriteInv
<1> DEFINE t == temp[This(p)]
<1>1. /\ step[p] = "chmod"
      /\ UNCHANGED <<target, temp, unsynced, job, index, results, handle, perms, exit, faults>>
    BY <1>0, ChmodParts
<1>2. /\ t # None /\ disk[t].whole /\ disk[t].text = results[p][index[p]].text
      /\ perms[p] = disk[target[This(p)]].mode /\ This(p) \in Path
      /\ target \in [Path -> Inode] /\ temp \in [Path -> Inode \cup {None}]
    BY <1>0, <1>1, ThisIsPath DEF TempIsOwn, TypeOK
<1>3. /\ t \in Inode
      /\ disk'[t].text = disk[t].text /\ disk'[t].whole = disk[t].whole
      /\ disk'[t].mode = perms[p]
      /\ \A i \in Inode \ {t} : disk'[i] = disk[i]
      /\ step' = [step EXCEPT ![p] = "rename"]
    BY <1>0, <1>2, ChmodParts
<1>4. \A a \in Path : target[a] # t /\ target[a] \in Inode
    BY <1>0, <1>2 DEF OwnInodes
<1> HIDE DEF t
<1>5. \A a \in Path : disk'[target'[a]] = disk[target[a]]
    BY <1>1, <1>3, <1>4
<1>6. step'[p] = "rename"
    BY <1>0, <1>3, SetShapes, StepsKnown
<1>7. ResultsHold' /\ WrittenHold'
    BY <1>0, <1>1, <1>5, <1>6, SameSeen
<1>8. This(p)' = This(p) /\ temp'[This(p)] = t
    BY <1>1 DEF This, t
<1>9. TempIsOwn'
    <2>1. disk'[target'[This(p)]].mode = perms[p]
        BY <1>2, <1>5
    <2> DEFINE a == job[p].files[index[p]]
    <2>2. job'[p].files[index'[p]] = a /\ temp'[a] = t /\ disk'[target'[a]].mode = perms[p]
        BY <1>1, <2>1 DEF This, t
    <2> HIDE DEF a
    <2>3. /\ temp'[a] # None /\ disk'[temp'[a]].whole
          /\ disk'[temp'[a]].text = results'[p][index'[p]].text
          /\ disk'[temp'[a]].mode = disk'[target'[a]].mode
        BY <1>1, <1>2, <1>3, <2>2
    <2> QED BY <1>6, <2>2, <2>3 DEF TempIsOwn, OneShell, This
<1>10. UnfinishedIsPrivate'
    <2>1. handle'[p] = None
        BY <1>0, <1>1 DEF LoopInv
    <2>2. ASSUME NEW a \in Path, temp'[a] # None
          PROVE  disk'[temp'[a]].mode \in {"private", disk'[target'[a]].mode}
        <3>1. CASE a = This(p)
            <4>1. disk'[temp'[a]].mode = perms[p]
                BY <1>3, <1>8, <3>1
            <4>2. disk'[target'[a]].mode = perms[p]
                BY <1>2, <1>5, <3>1
            <4> QED BY <4>1, <4>2
        <3>2. CASE a # This(p)
            <4>1. temp'[a] = temp[a] /\ temp[a] \in Inode /\ temp[a] # t
                BY <1>0, <1>1, <1>2, <2>2, <3>2 DEF OwnInodes, t
            <4> QED BY <1>0, <1>3, <1>5, <2>2, <4>1 DEF UnfinishedIsPrivate
        <3> QED BY <3>1, <3>2
    <2> QED BY <2>1, <2>2 DEF UnfinishedIsPrivate, OneShell
<1> QED BY <1>5, <1>7, <1>9, <1>10 DEF OneShellParts

(* What a rename that finds its temporary file makes of the path: the text *)
(* computed from it, whole, under the mode that it had.                    *)
LEMMA RenamedParts ==
    ASSUME RewriteInv, OneShell, NEW p \in Proc, Rename(p)
    PROVE  /\ This(p) \in Path /\ This(p) = job[p].files[index[p]] /\ index[p] \in DOMAIN job[p].files
           /\ temp[This(p)] \in Inode /\ target'[This(p)] = temp[This(p)]
           /\ \A a \in Path \ {This(p)} : target'[a] = target[a]
           /\ \A a \in Path : temp'[a] = IF a = This(p) THEN None ELSE temp[a]
           /\ UNCHANGED <<disk, unsynced, job, results>> /\ Advance(p)
           /\ LET f == disk[target[This(p)]]
                  g == disk'[target'[This(p)]]
              IN  /\ f \in File /\ g \in File /\ f.whole /\ g.whole /\ g.mode = f.mode
                  /\ ~Refuses(job[p], f.text)
                  /\ g.text = Transformed(job[p], f.text)
                  /\ g.text = results[p][index[p]].text
<1>0. TypeOK /\ LoopInv /\ ResultsHold /\ TempIsOwn
    BY DEF RewriteInv
<1>1. step[p] = "rename" /\ UNCHANGED <<disk, unsynced, job, results, perms, faults>>
    BY <1>0, RenameParts
<1> DEFINE t == temp[This(p)]
<1>2. /\ t # None /\ disk[t].whole /\ disk[t].text = results[p][index[p]].text
      /\ disk[t].mode = disk[target[This(p)]].mode
    BY <1>0, <1>1 DEF TempIsOwn
<1>3. /\ This(p) \in Path /\ index[p] \in DOMAIN job[p].files /\ job[p] \in Job
      /\ target \in [Path -> Inode] /\ temp \in [Path -> Inode \cup {None}] /\ disk \in [Inode -> File]
    <2>1. job[p] \in Job /\ index[p] \in 1..Len(job[p].files) /\ This(p) \in Path
        BY <1>0, ThisIsPath
    <2>2. index[p] \in DOMAIN job[p].files
        BY <2>1, JobParts
    <2> QED BY <1>0, <2>1, <2>2 DEF TypeOK
<1>4. /\ t \in Inode /\ target' = [target EXCEPT ![This(p)] = t]
      /\ temp' = [temp EXCEPT ![This(p)] = None] /\ Advance(p)
    BY <1>0, <1>2, RenameParts
<1> HIDE DEF t
<1>5. target'[This(p)] = t /\ \A a \in Path \ {This(p)} : target'[a] = target[a]
    BY <1>3, <1>4
<1>6. \A a \in Path : temp'[a] = IF a = This(p) THEN None ELSE temp[a]
    BY <1>3, <1>4
<1>7. index[p] \in DOMAIN results[p]
    BY <1>0, <1>1, ResultAtIndex
<1>8. LeadsTo(job[p], disk[target[This(p)]], results[p][index[p]])
    BY <1>0, <1>1, <1>7 DEF ResultsHold, This
<1>9. disk'[target'[This(p)]] = disk[t] /\ disk[t] \in File /\ disk[target[This(p)]] \in File
    BY <1>1, <1>3, <1>4, <1>5
<1> QED BY <1>1, <1>2, <1>3, <1>4, <1>5, <1>6, <1>8, <1>9 DEF LeadsTo, This, t

LEMMA RenameOne ==
    ASSUME RewriteInv, OneShell, NEW p \in Proc, Rename(p)
    PROVE  OneShellParts'
<1>0. TypeOK /\ LoopInv /\ ResultsHold /\ WrittenHold /\ UnfinishedIsPrivate
    BY DEF RewriteInv
<1>1. step[p] = "rename" /\ handle[p] = None
    BY <1>0, RenameParts DEF LoopInv
<1> DEFINE f == disk[target[This(p)]]
           g == disk'[target'[This(p)]]
<1>2. /\ This(p) \in Path /\ This(p) = job[p].files[index[p]]
      /\ \A a \in Path \ {This(p)} : target'[a] = target[a]
      /\ \A a \in Path : temp'[a] = IF a = This(p) THEN None ELSE temp[a]
      /\ UNCHANGED <<disk, unsynced, job, results>> /\ Advance(p)
    BY RenamedParts
<1>3. /\ f \in File /\ f.whole /\ g.whole /\ g.mode = f.mode
      /\ ~Refuses(job[p], f.text)
      /\ g.text = Transformed(job[p], f.text) /\ g.text = results[p][index[p]].text
    BY RenamedParts
<1>4. job[p] \in Job /\ index[p] \in 1..Len(job[p].files) /\ f.text \in Content
    BY <1>0, <1>3, ThisIsPath DEF File
<1> HIDE DEF f, g
<1>5. /\ Transformed(job[p], g.text) = g.text /\ ~Refuses(job[p], g.text)
      /\ Touches(job[p], g.text) => Touches(job[p], f.text)
    BY <1>3, <1>4, TransformedTwice
<1>6. \A r : LeadsTo(job[p], f, r) => LeadsTo(job[p], g, r) /\ g.text = r.text
    BY <1>3, <1>5 DEF LeadsTo
<1>7. ASSUME NEW n \in DOMAIN results[p]
      PROVE  /\ LeadsTo(job[p], disk'[target'[job[p].files[n]]], results[p][n])
             /\ job[p].files[n] = This(p) =>
                    disk'[target'[job[p].files[n]]].text = results[p][n].text
             /\ job[p].files[n] # This(p) =>
                    disk'[target'[job[p].files[n]]] = disk[target[job[p].files[n]]]
    <2>1. LeadsTo(job[p], disk[target[job[p].files[n]]], results[p][n])
        BY <1>0, <1>1 DEF ResultsHold
    <2>2. job[p].files[n] \in Path
        BY <1>0, <1>1, ResultsFiles
    <2>3. CASE job[p].files[n] = This(p)
        BY <1>6, <2>1, <2>3 DEF f, g
    <2>4. CASE job[p].files[n] # This(p)
        BY <1>2, <2>1, <2>2, <2>4
    <2> QED BY <2>3, <2>4
<1>8. ASSUME NEW n \in 1..index[p]
      PROVE  disk'[target'[job[p].files[n]]].text = results[p][n].text
    <2>1. n \in DOMAIN results[p] /\ (n \in 1..(index[p] - 1) \/ n = index[p])
        <3>1. index[p] \in DOMAIN results[p] /\ DOMAIN results[p] = 1..Len(results[p])
                /\ Len(results[p]) \in Nat
            BY <1>0, <1>1, ResultAtIndex
        <3> QED BY <1>4, <3>1
    <2>2. CASE job[p].files[n] = This(p)
        BY <1>7, <2>1, <2>2
    <2>3. CASE job[p].files[n] # This(p)
        <3>1. n \in 1..(index[p] - 1)
            BY <1>2, <2>1, <2>3
        <3>2. disk[target[job[p].files[n]]].text = results[p][n].text
            BY <1>0, <1>1, <3>1 DEF WrittenHold
        <3> QED BY <1>7, <2>1, <2>3, <3>2
    <2> QED BY <2>2, <2>3
<1>9. ResultsHold' /\ WrittenHold' /\ TempIsOwn'
    BY <1>0, <1>1, <1>2, <1>7, <1>8, AdvanceOne
<1>10. UnfinishedIsPrivate'
    <2>1. handle'[p] = None
        BY <1>0, <1>1, <1>2, AdvanceParts, HandleShapes
    <2>2. ASSUME NEW a \in Path, temp'[a] # None
          PROVE  disk'[temp'[a]].mode \in {"private", disk'[target'[a]].mode}
        <3>1. a # This(p)
            BY <1>2, <2>2
        <3>2. temp'[a] = temp[a] /\ target'[a] = target[a]
            BY <1>2, <3>1
        <3> QED BY <1>0, <1>2, <2>2, <3>2 DEF UnfinishedIsPrivate
    <2> QED BY <2>1, <2>2 DEF UnfinishedIsPrivate, OneShell
<1> QED BY <1>9, <1>10 DEF OneShellParts

LEMMA IoFailsOne ==
    ASSUME RewriteInv, OneShell, NEW p \in Proc, IoFails(p)
    PROVE  OneShellParts'
<1>0. TypeOK /\ LoopInv /\ ResultsHold /\ WrittenHold /\ UnfinishedIsPrivate
    BY DEF RewriteInv
<1>1. UNCHANGED <<target, temp, disk, unsynced, job, index, results, perms>>
    BY DEF IoFails, fs
<1>2. CASE Exit(p, "failed")
    BY <1>1, <1>2, EndedOne
<1>3. CASE /\ step[p] \in {"create", "write", "stat", "chmod", "rename"}
           /\ step' = [step EXCEPT ![p] = "clean up"]
           /\ handle' = [handle EXCEPT ![p] = None]
    <2>1. step'[p] = "clean up" /\ handle'[p] = None
        BY <1>0, <1>3, SetShapes, StepsKnown, HandleShapes
    <2>2. ResultsHold' /\ WrittenHold'
        BY <1>0, <1>1, <1>3, <2>1, SameSeen
    <2>3. TempIsOwn' /\ UnfinishedIsPrivate'
        BY <1>0, <1>1, <2>1 DEF TempIsOwn, UnfinishedIsPrivate, OneShell
    <2> QED BY <2>2, <2>3 DEF OneShellParts
<1> QED BY <1>2, <1>3 DEF IoFails, Set

LEMMA PowerLossOne ==
    ASSUME RewriteInv, PowerLoss
    PROVE  OneShellParts'
<1>0. TypeOK /\ WrittenHold /\ UnfinishedIsPrivate
    BY DEF RewriteInv
<1>1. /\ UNCHANGED <<target, temp, job>>
      /\ \A i \in Inode : disk'[i].text = disk[i].text /\ disk'[i].mode = disk[i].mode
      /\ step' = [p \in Proc |-> "idle"] /\ handle' = [p \in Proc |-> None]
      /\ exit' = [p \in Proc |-> IF step[p] = "idle" THEN exit[p] ELSE "killed"]
    BY <1>0, PowerLossParts
<1>2. target \in [Path -> Inode] /\ temp \in [Path -> Inode \cup {None}]
    BY <1>0 DEF TypeOK
<1>3. TempIsOwn' /\ ResultsHold'
    BY <1>1 DEF TempIsOwn, ResultsHold
<1>4. UnfinishedIsPrivate'
    BY <1>0, <1>1, <1>2 DEF UnfinishedIsPrivate
<1>5. WrittenHold'
    <2> SUFFICES ASSUME NEW p \in Proc, exit'[p] = "ok", NEW n \in DOMAIN job'[p].files
                 PROVE  LET text == disk'[target'[job'[p].files[n]]].text
                        IN  Transformed(job'[p], text) = text
        BY <1>1 DEF WrittenHold
    <2>1. step[p] = "idle" /\ exit[p] = "ok"
        BY <1>1
    <2>2. job[p].files[n] \in Path
        BY <1>0, <1>1, ThisIsPath, JobParts
    <2>3. disk'[target'[job'[p].files[n]]].text = disk[target[job[p].files[n]]].text
        BY <1>1, <1>2, <2>2
    <2> QED BY <1>0, <1>1, <2>1, <2>3 DEF WrittenHold
<1> QED BY <1>3, <1>4, <1>5 DEF OneShellParts

LEMMA OneShellNext == OneShell /\ RewriteInv /\ [Next]_vars => RewriteInv'
<1> SUFFICES ASSUME OneShell, RewriteInv, [Next]_vars PROVE RewriteInv'
    OBVIOUS
<1>1. AnyShellsInv'
    BY AnyShellsNext, InvParts
<1>2. OneShellParts'
    <2>1. CASE UNCHANGED vars
        BY <2>1, ZenonT(60) DEF vars, fs, RewriteInv, OneShellParts, TempIsOwn, UnfinishedIsPrivate,
                    ResultsHold, WrittenHold, This
    <2>2. CASE Writeback
        BY <2>2, ZenonT(60) DEF Writeback, RewriteInv, OneShellParts, TempIsOwn, UnfinishedIsPrivate,
                    ResultsHold, WrittenHold, This
    <2>3. ASSUME NEW p \in Proc, CleanUp(p)
          PROVE  OneShellParts'
        <3>1. TypeOK
            BY DEF RewriteInv
        <3>2. /\ Exit(p, "failed") /\ UNCHANGED <<target, disk>>
              /\ \A a \in Path : temp'[a] \in {temp[a], None}
            BY <2>3, <3>1, CleanUpParts
        <3> QED BY <3>2, EndedOne
    <2>4. ASSUME NEW p \in Proc, Kill(p)
          PROVE  OneShellParts'
        <3>1. Exit(p, "killed") /\ UNCHANGED <<target, temp, disk>>
            BY <2>4 DEF Kill, fs
        <3>2. \A a \in Path : temp'[a] \in {temp[a], None}
            BY <3>1
        <3> QED BY <3>1, <3>2, EndedOne
    <2>5. ASSUME NEW p \in Proc, ShellStep(p)
          PROVE  OneShellParts'
        BY <2>3, <2>4, <2>5, LaunchOne, ReadOne, DecideOne, CreateOne, WriteOne, StatOne, ChmodOne,
           RenameOne, IoFailsOne DEF ShellStep, ProcStep
    <2> QED BY <2>1, <2>2, <2>5, PowerLossOne DEF Next, ShellStep
<1> QED BY <1>1, <1>2 DEF AnyShellsInv, OneShellParts, RewriteInv

(* The inductive invariant of one shell, across faults, kills and power    *)
(* losses, however often and in whatever order the commands are run.       *)
THEOREM RewriteInvariant ==
    ASSUME OneShell
    PROVE  Spec => []RewriteInv
<1>1. Init => RewriteInv
    BY AnyShellsInit, OneShellInit, InvParts
<1>2. RewriteInv /\ [Next]_vars => RewriteInv'
    BY OneShellNext
<1> QED BY <1>1, <1>2, PTL DEF Spec

(* A file that is being written, or was left behind, is open to nobody it  *)
(* was closed to.                                                          *)
THEOREM RewritePrivate ==
    ASSUME OneShell
    PROVE  Spec => []UnfinishedIsPrivate
<1>1. RewriteInv => UnfinishedIsPrivate
    BY DEF RewriteInv
<1> QED BY <1>1, RewriteInvariant, PTL

(* After exit 0 nothing that the command is for is left.                   *)
THEOREM RewriteDone ==
    ASSUME OneShell
    PROVE  Spec => []ExitZeroMeansDone
<1>1. ASSUME RewriteInv PROVE ExitZeroMeansDone
    <2> SUFFICES ASSUME NEW p \in Proc, step[p] = "idle", exit[p] = "ok",
                        NEW n \in DOMAIN job[p].files, NEW s \in Slot
                 PROVE  LET v == disk[target[job[p].files[n]]].text[s]
                        IN  Takes(job[p], v) => v = Made(job[p])
        BY DEF ExitZeroMeansDone
    <2> DEFINE f == disk[target[job[p].files[n]]]
    <2>1. TypeOK /\ WrittenHold
        BY <1>1 DEF RewriteInv
    <2>2. Transformed(job[p], f.text) = f.text
        BY <2>1 DEF WrittenHold
    <2>3. job[p] \in Job /\ f \in File
        <3>1. job[p] \in Job /\ job[p].files[n] \in Path
            BY <2>1, ThisIsPath, JobParts
        <3> QED BY <2>1, <3>1 DEF TypeOK
    <2>4. f.text \in Content
        BY <2>3 DEF File
    <2> HIDE DEF f
    <2>5. Takes(job[p], f.text[s]) => f.text[s] = Made(job[p])
        BY <2>2, <2>3, <2>4, TransformedSame
    <2> QED BY <2>5 DEF f
<1> QED BY <1>1, RewriteInvariant, PTL

-----------------------------------------------------------------------------
(* What an observer of the paths sees (AtomicRewrite).                     *)

SeenFile == [a \in Path |-> disk[target[a]]]

SeenFresh == {a \in Path : target[a] \in unsynced}

(* But for a rename, a shell's steps cannot be seen.                       *)
LEMMA UnseenSteps ==
    ASSUME RewriteInv, OneShell, NEW p \in Proc, ShellStep(p), ~Rename(p)
    PROVE  /\ UNCHANGED target
           /\ \A a \in Path : /\ disk'[target[a]] = disk[target[a]]
                              /\ target[a] \in unsynced' <=> target[a] \in unsynced
<1>0. TypeOK /\ LoopInv /\ target \in [Path -> Inode] /\ disk \in [Inode -> File]
    BY DEF RewriteInv, TypeOK
<1>1. CASE (\E j \in Job : Launch(p, j)) \/ Read(p) \/ Decide(p) \/ Stat(p) \/ CleanUp(p)
           \/ IoFails(p) \/ Kill(p)
    BY <1>1 DEF Launch, Read, Decide, Stat, CleanUp, IoFails, Kill, fs
<1>2. CASE Create(p)
    <2>1. UNCHANGED target
        BY <1>0, <1>2, CreateParts
    <2>2. CASE UNCHANGED <<disk, unsynced>>
        BY <2>1, <2>2
    <2>3. CASE \E i \in Inode : /\ i \notin InUse /\ disk' = [disk EXCEPT ![i] = NewFile]
                               /\ unsynced' = unsynced \cup {i}
        <3>1. PICK i \in Inode : /\ i \notin InUse /\ disk' = [disk EXCEPT ![i] = NewFile]
                                /\ unsynced' = unsynced \cup {i}
            BY <2>3
        <3>2. \A a \in Path : target[a] # i /\ target[a] \in Inode
            BY <1>0, <3>1 DEF InUse
        <3>3. \A n \in Inode \ {i} : disk'[n] = disk[n]
            BY <1>0, <3>1
        <3> QED BY <2>1, <3>1, <3>2, <3>3
    <2>4. \/ UNCHANGED <<disk, unsynced>>
          \/ \E i \in Inode : /\ i \notin InUse /\ disk' = [disk EXCEPT ![i] = NewFile]
                              /\ unsynced' = unsynced \cup {i}
        BY <1>0, <1>2, CreateParts
    <2> QED BY <2>2, <2>3, <2>4
<1>3. CASE Write(p)
    <2>1. UNCHANGED target /\ unsynced' = unsynced \cup {handle[p]}
        BY <1>0, <1>3, WriteParts
    <2>2. \A a \in Path : disk'[target'[a]] = disk[target[a]] /\ target'[a] # handle[p]
        BY <1>3, WriteOne
    <2> QED BY <2>1, <2>2
<1>4. CASE Chmod(p)
    <2>1. UNCHANGED <<target, unsynced>>
        BY <1>0, <1>4, ChmodParts
    <2>2. \A a \in Path : disk'[target'[a]] = disk[target[a]]
        BY <1>4, ChmodOne
    <2> QED BY <2>1, <2>2
<1> QED BY <1>1, <1>2, <1>3, <1>4 DEF ShellStep, ProcStep

(* As long as a path leads to an inode, nobody writes to it.               *)
LEMMA InPlaceStep ==
    ASSUME RewriteInv, OneShell, Next, NEW a \in Path, target'[a] = target[a]
    PROVE  /\ disk'[target[a]].text = disk[target[a]].text
           /\ disk[target[a]].whole /\ target[a] \notin unsynced => disk'[target[a]].whole
<1>0. TypeOK /\ LoopInv /\ OwnInodes /\ target[a] \in Inode
    BY DEF RewriteInv, TypeOK
<1>1. CASE Writeback
    BY <1>1 DEF Writeback
<1>2. CASE PowerLoss
    BY <1>0, <1>2, PowerLossParts
<1>3. ASSUME NEW p \in Proc, ShellStep(p)
      PROVE  disk'[target[a]] = disk[target[a]]
    <2>1. CASE Rename(p)
        BY <2>1, RenamedParts
    <2>2. CASE ~Rename(p)
        BY <1>3, <2>2, UnseenSteps
    <2> QED BY <2>1, <2>2
<1> QED BY <1>1, <1>2, <1>3 DEF Next, ShellStep

(* A file is only ever replaced: neither a kill nor a power loss damages a *)
(* text that was safely on disk.                                           *)
THEOREM RewriteNotInPlace ==
    ASSUME OneShell
    PROVE  Spec => NeverWrittenInPlace
<1>1. ASSUME RewriteInv, [Next]_vars
      PROVE  [\A a \in Path : target'[a] = target[a] =>
                LET before == disk[target[a]]
                    after  == disk'[target[a]]
                IN  /\ after.text = before.text
                    /\ before.whole /\ target[a] \notin unsynced => after.whole]_vars
    BY <1>1, InPlaceStep
<1> QED BY <1>1, RewriteInvariant, PTL DEF Spec, NeverWrittenInPlace

(* The texts of both modules are the same.                                 *)
LEMMA SameTexts ==
    ASSUME NEW j, NEW text
    PROVE  /\ Observed!Refuses(j, text) <=> Refuses(j, text)
           /\ Observed!Transformed(j, text) = Transformed(j, text)
<1>1. \A v : Observed!Takes(j, v) <=> Takes(j, v)
    BY DEF Observed!Takes, Takes, Observed!Plain, Plain, Observed!Sealed, Sealed
<1>2. Observed!Made(j) = Made(j)
    BY DEF Observed!Made, Made, Observed!Sealed, Sealed
<1>3. Observed!Touches(j, text) <=> Touches(j, text)
    BY <1>1 DEF Observed!Touches, Touches
<1>4. Observed!Transformed(j, text) = Transformed(j, text)
    BY <1>1, <1>2 DEF Observed!Transformed, Transformed
<1>5. Observed!Refuses(j, text) <=> Refuses(j, text)
    BY <1>3 DEF Observed!Refuses, Refuses, Observed!Malformed, Malformed, Observed!Damaged, Damaged
<1> QED BY <1>4, <1>5

(* A rename is the one step in which a file is replaced.                   *)
LEMMA RenameReplaces ==
    ASSUME RewriteInv, OneShell, NEW p \in Proc, Rename(p)
    PROVE  LET a == This(p)
               f == SeenFile[a]
           IN  /\ a \in Path /\ f.whole
               /\ job[p] \in Job /\ \E n \in DOMAIN job[p].files : job[p].files[n] = a
               /\ ~Refuses(job[p], f.text)
               /\ SeenFile' = [SeenFile EXCEPT ![a].text = Transformed(job[p], f.text)]
               /\ SeenFresh' \in {SeenFresh \cup {a}, SeenFresh \ {a}}
<1> DEFINE a == This(p)
           f == disk[target[a]]
           g == disk'[target'[a]]
<1>1. /\ a \in Path /\ a = job[p].files[index[p]] /\ index[p] \in DOMAIN job[p].files
      /\ \A b \in Path \ {a} : target'[b] = target[b]
      /\ UNCHANGED <<disk, unsynced, job>>
    BY RenamedParts
<1>2. /\ f \in File /\ g \in File /\ f.whole /\ g.whole /\ g.mode = f.mode
      /\ ~Refuses(job[p], f.text) /\ g.text = Transformed(job[p], f.text)
    BY RenamedParts
<1>3. job[p] \in Job
    BY DEF RewriteInv, TypeOK
<1> HIDE DEF a
<1>4. g = [f EXCEPT !.text = Transformed(job[p], f.text)]
    <2>1. /\ f \in [text : Content, whole : BOOLEAN, mode : Mode]
          /\ g \in [text : Content, whole : BOOLEAN, mode : Mode]
        BY <1>2 DEF File
    <2> HIDE DEF f, g
    <2>2. f.whole = TRUE /\ g.whole = TRUE
        BY <1>2, <2>1
    <2> QED BY <1>2, <2>1, <2>2
<1>5. SeenFile[a] = f
    BY <1>1 DEF SeenFile
<1>6. SeenFile' = [SeenFile EXCEPT ![a].text = Transformed(job[p], f.text)]
    <2> DEFINE new == [SeenFile EXCEPT ![a].text = Transformed(job[p], f.text)]
    <2>1. new = [b \in Path |-> IF b = a THEN [f EXCEPT !.text = Transformed(job[p], f.text)]
                                          ELSE disk[target[b]]]
        BY <1>1, <1>5 DEF SeenFile
    <2>2. \A b \in Path : disk'[target'[b]] =
                IF b = a THEN [f EXCEPT !.text = Transformed(job[p], f.text)] ELSE disk[target[b]]
        BY <1>1, <1>4
    <2>3. SeenFile' = [b \in Path |-> disk'[target'[b]]]
        BY DEF SeenFile
    <2> HIDE DEF new, f
    <2> QED BY <2>1, <2>2, <2>3 DEF new
<1>7. SeenFresh' \in {SeenFresh \cup {a}, SeenFresh \ {a}}
    <2>1. SeenFresh' = {b \in Path : target'[b] \in unsynced}
        BY <1>1 DEF SeenFresh
    <2>2. CASE target'[a] \in unsynced
        <3>1. SeenFresh' = SeenFresh \cup {a}
            BY <1>1, <2>1, <2>2 DEF SeenFresh
        <3> QED BY <3>1
    <2>3. CASE target'[a] \notin unsynced
        <3>1. SeenFresh' = SeenFresh \ {a}
            BY <1>1, <2>1, <2>3 DEF SeenFresh
        <3> QED BY <3>1
    <2> QED BY <2>2, <2>3
<1> QED BY <1>1, <1>2, <1>3, <1>5, <1>6, <1>7 DEF a

LEMMA ObservedInit ==
    ASSUME Init
    PROVE  (\A a \in Path : SeenFile[a].whole) /\ SeenFresh = {}
<1>1. target \in [Path -> Inode]
    BY AnyShellsInit DEF AnyShellsInv, TypeOK
<1>2. PICK start \in Start :
        disk = [i \in Inode |->
                  IF \E a \in Path : target[a] = i
                  THEN start[CHOOSE a \in Path : target[a] = i]
                  ELSE NewFile]
    BY DEF Init
<1>3. start \in [Path -> {f \in File : f.whole}]
    BY StartAssumption
<1>4. ASSUME NEW a \in Path PROVE disk[target[a]].whole
    <2> DEFINE b == CHOOSE c \in Path : target[c] = target[a]
    <2>1. b \in Path /\ target[a] \in Inode
        BY <1>1
    <2>2. disk[target[a]] = start[b]
        BY <1>2, <2>1
    <2> HIDE DEF b
    <2> QED BY <1>3, <2>1, <2>2
<1>5. SeenFresh = {}
    <2>1. unsynced = {}
        BY DEF Init
    <2> QED BY <2>1 DEF SeenFresh
<1> QED BY <1>4, <1>5 DEF SeenFile

LEMMA WritebackSettles ==
    ASSUME RewriteInv, Writeback
    PROVE  /\ SeenFile' = SeenFile
           /\ SeenFresh' = SeenFresh \/ \E a \in SeenFresh : SeenFresh' = SeenFresh \ {a}
<1>1. UNCHANGED <<target, disk>>
    BY DEF Writeback
<1>2. PICK i \in unsynced : unsynced' = unsynced \ {i}
    BY DEF Writeback
<1>3. OwnInodes
    BY DEF RewriteInv
<1>4. CASE \E a \in Path : target[a] = i
    <2>1. PICK a \in Path : target[a] = i
        BY <1>4
    <2>2. a \in SeenFresh /\ SeenFresh' = SeenFresh \ {a}
        BY <1>1, <1>2, <1>3, <2>1 DEF SeenFresh, OwnInodes
    <2> QED BY <1>1, <2>2 DEF SeenFile
<1>5. CASE ~\E a \in Path : target[a] = i
    BY <1>1, <1>2, <1>5 DEF SeenFresh, SeenFile
<1> QED BY <1>4, <1>5

LEMMA PowerLossSeen ==
    ASSUME RewriteInv, PowerLoss
    PROVE  /\ SeenFresh' = {}
           /\ \E lost \in SUBSET SeenFresh :
                SeenFile' = [a \in Path |-> IF a \in lost THEN [SeenFile[a] EXCEPT !.whole = FALSE]
                                                         ELSE SeenFile[a]]
<1>1. target' = target /\ unsynced' = {}
    BY DEF PowerLoss
<1>2. PICK lost \in SUBSET unsynced :
        disk' = [i \in Inode |-> IF i \in lost THEN [disk[i] EXCEPT !.whole = FALSE] ELSE disk[i]]
    BY DEF PowerLoss
<1>3. target \in [Path -> Inode]
    BY DEF RewriteInv, TypeOK
<1> DEFINE paths == {a \in Path : target[a] \in lost}
<1>4. paths \in SUBSET SeenFresh
    BY DEF SeenFresh
<1>5. \A a \in Path : disk'[target'[a]] =
            IF a \in paths THEN [SeenFile[a] EXCEPT !.whole = FALSE] ELSE SeenFile[a]
    BY <1>1, <1>2, <1>3 DEF SeenFile
<1>6. SeenFile' = [a \in Path |-> disk'[target'[a]]]
    BY DEF SeenFile
<1> HIDE DEF paths
<1>7. SeenFile' = [a \in Path |-> IF a \in paths THEN [SeenFile[a] EXCEPT !.whole = FALSE]
                                                  ELSE SeenFile[a]]
    BY <1>5, <1>6
<1>8. SeenFresh' = {}
    BY <1>1 DEF SeenFresh
<1> QED BY <1>4, <1>7, <1>8

LEMMA UnseenIsStutter ==
    ASSUME RewriteInv, OneShell, NEW p \in Proc, ShellStep(p), ~Rename(p)
    PROVE  SeenFile' = SeenFile /\ SeenFresh' = SeenFresh
BY UnseenSteps DEF SeenFile, SeenFresh

(* Every step of Rewrite is one of AtomicRewrite, or cannot be seen.       *)
LEMMA ObservedNext ==
    ASSUME RewriteInv, OneShell, [Next]_vars
    PROVE  [Observed!Next]_<<SeenFile, SeenFresh>>
<1>1. CASE UNCHANGED vars
    BY <1>1 DEF vars, fs, SeenFile, SeenFresh
<1>2. ASSUME NEW p \in Proc, Rename(p)
      PROVE  Observed!Next
    <2>1. PICK a \in Path : a = This(p)
        BY <1>2, RenameReplaces
    <2>2. /\ SeenFile[a].whole /\ job[p] \in Job
          /\ \E n \in DOMAIN job[p].files : job[p].files[n] = a
          /\ ~Observed!Refuses(job[p], SeenFile[a].text)
        BY <1>2, <2>1, RenameReplaces, SameTexts
    <2>3. SeenFile' = [SeenFile EXCEPT ![a].text = Observed!Transformed(job[p], SeenFile[a].text)]
        BY <1>2, <2>1, RenameReplaces, SameTexts
    <2>4. SeenFresh' \in {SeenFresh \cup {a}, SeenFresh \ {a}}
        BY <1>2, <2>1, RenameReplaces
    <2>5. Observed!Replace(a)
        BY <2>2, <2>3, <2>4 DEF Observed!Replace, SeenFile, SeenFresh
    <2> QED BY <2>5 DEF Observed!Next
<1>3. CASE Writeback
    BY <1>3, WritebackSettles DEF Observed!Next, Observed!Settle, SeenFile, SeenFresh
<1>4. CASE PowerLoss
    BY <1>4, PowerLossSeen DEF Observed!Next, Observed!LosePower, SeenFile, SeenFresh
<1>5. ASSUME NEW p \in Proc, ShellStep(p), ~Rename(p)
      PROVE  UNCHANGED <<SeenFile, SeenFresh>>
    BY <1>5, UnseenIsStutter
<1> QED BY <1>1, <1>2, <1>3, <1>4, <1>5 DEF Next, ShellStep

(* To an observer each file is rewritten in one step, from a text to what  *)
(* a command makes of it, under the same mode, whatever went wrong.        *)
THEOREM RewriteRefines ==
    ASSUME OneShell
    PROVE  Spec => RewritesAreAtomic
<1>1. Init => Observed!Init
    BY ObservedInit DEF Observed!Init, SeenFile, SeenFresh
<1>2. RewriteInv /\ [Next]_vars => [Observed!Next]_<<[a \in Path |-> disk[target[a]]],
                                                   {a \in Path : target[a] \in unsynced}>>
    BY ObservedNext DEF SeenFile, SeenFresh
<1> QED BY <1>1, <1>2, RewriteInvariant, PTL DEF Spec, RewritesAreAtomic, Observed!Spec
=============================================================================
