----------------------------- MODULE FailClosed -----------------------------
(***************************************************************************)
(* What `sealref exec` promises, in one step: either the command starts    *)
(* with a complete environment, or it does not start at all (exec.rs 7-9,  *)
(* README "Fails closed").  There is no third outcome and nothing in       *)
(* between: no half-resolved environment, no keyring within reach of the   *)
(* command.                                                                *)
(***************************************************************************)
EXTENDS Naturals, References

CONSTANTS
    Name,    \* environment variable names
    Ref      \* references

VARIABLES
    wanted,   \* the layered environment: what each name holds, unresolved
    outcome,  \* of the current attempt to start the command
    given     \* what the command was given

vars == <<wanted, outcome, given>>

Nothing == [is |-> "nothing"]

(* An entry is delivered as it is, except that a reference is delivered as *)
(* the text stored for that very reference.                                *)
Delivers(entry, value) ==
    \/ entry.is \in {"absent", "plain"} /\ value = entry
    \/ /\ entry.is = "reference"
       /\ value.is = "secret" /\ value.ref = entry.ref /\ value.text \in Genuine

Init ==
    /\ wanted \in [Name -> Entry(Ref)]
    /\ outcome = "running"
    /\ given = Nothing

Start ==
    /\ outcome = "running"
    /\ outcome' = "started"
    /\ given' \in [is : {"process"}, env : [Name -> {Absent, Plain} \cup Answered(Ref)],
                    keyring : {FALSE}]
    /\ \A n \in Name : Delivers(wanted[n], given'.env[n])
    /\ UNCHANGED wanted

Fail ==
    /\ outcome = "running"
    /\ outcome' = "failed"
    /\ UNCHANGED <<wanted, given>>

(* A supervisor runs it again, whether it failed or the command ended.     *)
Restart ==
    /\ outcome # "running"
    /\ outcome' = "running"
    /\ given' = Nothing
    /\ UNCHANGED wanted

Next == Start \/ Fail \/ Restart

Spec == Init /\ [][Next]_vars
=============================================================================
