----------------------------- MODULE MCResolver -----------------------------
(***************************************************************************)
(* A small instance of Resolver: two kids, two keys, four v1 references    *)
(* that open, name the wrong key, or hold what is not UTF-8, and one       *)
(* locator per server; hosts with one or two key sources.                  *)
(***************************************************************************)
EXTENDS Resolver

MCKid == {"old", "new"}
MCKey == {"K1", "K2"}
MCId  == {"db"}

V1(kid, key, text) == [provider |-> "v1", kid |-> kid, key |-> key, text |-> text]
At(p) == [provider |-> p, id |-> "db"]

MCRef == {V1("old", "K1", "value"), V1("new", "K2", "empty"), V1("old", "K1", "binary"),
          At("vault"), At("conjur"), At("ccp")}

MCFd == 3..6

Empty == [k \in MCKid |-> "none"]
Only(kid, key) == [Empty EXCEPT ![kid] = key]

(* The descriptor carries one ring, the file another, the rest are broken. *)
Rings(fdRing, fileRing) ==
    [s \in Source |-> CASE s = "fd" -> fdRing [] s = "file" -> fileRing [] OTHER -> Empty]

HostWith(present, ring, number, credential, tls) ==
    [present |-> present, ring |-> ring, number |-> number, set |-> {"conjur", "ccp"},
     credential |-> credential, tls |-> tls]

MCHosts ==
    LET both == Rings([old |-> "K1", new |-> "K2"], Only("old", "K2"))
        late == Rings(Empty, Only("old", "K1"))
    IN  {[HostWith({"fd"}, both, TRUE, "api key", TRUE) EXCEPT !.set = Remote],
         HostWith({"fd", "file"}, late, TRUE, "token", TRUE),
         HostWith({"fd", "file"}, both, FALSE, "token", FALSE),
         HostWith({"file", "inline"}, both, TRUE, "api key", TRUE),
         HostWith({}, both, TRUE, "token", TRUE)}
=============================================================================
