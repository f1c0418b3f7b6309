----------------------------- MODULE References -----------------------------
(***************************************************************************)
(* The data the other modules move about: secret references, the values an *)
(* environment entry or a template placeholder can hold, and the text a    *)
(* resolved reference yields.                                              *)
(*                                                                         *)
(* A reference is what reference.rs parses: either a ciphertext carried in *)
(* the reference itself (v1) or a locator some server answers for.  Of a   *)
(* text the model keeps only what the properties tell apart: whether it is *)
(* exactly what was stored, and if so whether that was empty.              *)
(***************************************************************************)
CONSTANTS
    Kid,    \* key ids
    Key,    \* 32-byte keys, as distinct values
    Id      \* what a remote reference locates: mount/path#field, variable id, safe/object#field

Remote == {"vault", "conjur", "ccp"}

Provider == {"v1"} \cup Remote

(* The ciphertext of a v1 reference was made under one key; its text is    *)
(* what was sealed: some bytes, no bytes, or bytes that are not UTF-8.  A  *)
(* damaged ciphertext, or one whose kid was edited (the kid is associated  *)
(* data), is one whose key is not the key that the kid names.              *)
V1Ref == [provider : {"v1"}, kid : Kid, key : Key, text : {"value", "empty", "binary"}]

RemoteRef == [provider : Remote, id : Id]

Reference == V1Ref \cup RemoteRef

-----------------------------------------------------------------------------
(* What resolving may hand back.  "cut" is a prefix of the stored text and *)
(* "mangled" the stored text with bytes replaced.                          *)
Text == {"value", "empty", "cut", "mangled"}

Genuine == {"value", "empty"}

Secret(r, text) == [is |-> "secret", ref |-> r, text |-> text]

(* What an environment entry holds before it is resolved: no entry at all, *)
(* a text that does not start with "seal:", one that starts with "seal:"   *)
(* and does not parse, a reference, or (inherited only) invalid Unicode.   *)
Absent    == [is |-> "absent"]
Plain     == [is |-> "plain"]
Malformed == [is |-> "malformed"]
NotUnicode == [is |-> "not unicode"]
Holds(r)  == [is |-> "reference", ref |-> r]

Entry(R) == {Absent, Plain, Malformed, NotUnicode} \cup [is : {"reference"}, ref : R]

Answered(R) == [is : {"secret"}, ref : R, text : Text]

(* value starts with "seal:", so it is resolved or refused, never passed on *)
IsReference(value) == value.is \in {"reference", "malformed"}
=============================================================================
