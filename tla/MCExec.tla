------------------------------- MODULE MCExec -------------------------------
(***************************************************************************)
(* A small instance of Exec: three variables (the second is one of the     *)
(* keyring's), two destinations, and invocations that between them layer,  *)
(* override, render, overwrite and fail.                                   *)
(***************************************************************************)
EXTENDS Exec

MCKid == {"old"}
MCKey == {"K1", "K2"}
MCId  == {"db"}

Good == [provider |-> "v1", kid |-> "old", key |-> "K1", text |-> "value"]
Bad  == [provider |-> "v1", kid |-> "old", key |-> "K2", text |-> "value"]
At(p) == [provider |-> p, id |-> "db"]
MCRef == {Good, Bad, At("vault"), At("conjur")}

MCFd == 3..4
MCKeyVars == {2}
MCPath == {"app.ini", "tls.pem"}

Host1(present) ==
    [present |-> present, ring |-> [s \in Source |-> [k \in MCKid |-> "K1"]], number |-> TRUE,
     set |-> {"vault", "conjur"}, credential |-> "api key", tls |-> TRUE]

MCHosts == {Host1({"fd"}), Host1({"file"})}

Line(n, v) == [name |-> n, value |-> v]
Parsed(entries) == [ok |-> TRUE, entries |-> entries]
Unparsed == [ok |-> FALSE, entries |-> <<>>]
From(slots, dst) == [ok |-> TRUE, slots |-> slots, dst |-> dst]
Unread(dst) == [ok |-> FALSE, slots |-> <<>>, dst |-> dst]

Missing == [mode |-> "absent", data |-> "none", from |-> <<0, 0>>]
Wide    == [mode |-> "open", data |-> "old", from |-> <<0, 0>>]

Invocation(inherited, envFiles, templates) ==
    [inherited |-> inherited, envFiles |-> envFiles, templates |-> templates,
     found |-> [p \in MCPath |-> IF p = "app.ini" THEN Wide ELSE Missing]]

MCRuns ==
    {\* An inherited reference that two files override, and a keyring variable in a file.
     Invocation(<<Holds(Good), Holds(Bad), Absent>>,
                <<Parsed(<<Line(3, Holds(At("vault"))), Line(2, Plain)>>),
                  Parsed(<<Line(1, Plain), Line(1, Holds(At("conjur")))>>)>>,
                <<From(<<Holds(At("conjur"))>>, "app.ini")>>),
     \* Two templates with one destination, and a third.
     Invocation(<<Plain, Holds(Good), Absent>>, <<>>,
                <<From(<<Holds(Good)>>, "app.ini"), From(<<>>, "app.ini"),
                  From(<<Holds(At("conjur")), Holds(Good)>>, "tls.pem")>>),
     \* What is refused.
     Invocation(<<NotUnicode, Plain, Absent>>, <<>>, <<>>),
     Invocation(<<Holds(Good), Plain, Absent>>, <<Unparsed>>, <<>>),
     Invocation(<<Holds(Good), Plain, Malformed>>, <<>>, <<>>),
     Invocation(<<Plain, Holds(Good), Holds(Bad)>>, <<>>, <<From(<<Holds(Good)>>, "tls.pem")>>),
     Invocation(<<Plain, Plain, Plain>>, <<>>, <<From(<<Holds(Good), Malformed>>, "tls.pem")>>),
     Invocation(<<Plain, Plain, Plain>>, <<>>,
                <<From(<<Holds(At("vault"))>>, "tls.pem"), Unread("app.ini")>>)}
=============================================================================
