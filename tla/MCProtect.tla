----------------------------- MODULE MCProtect ------------------------------
(***************************************************************************)
(* One assignment with every value of up to four symbols; and files of up  *)
(* to three lines of every kind the parser tells apart.                    *)
(***************************************************************************)
EXTENDS Protect, SequencesExt

Assigned == {<<"PASS", "=">> \o value :
                value \in BoundedSeq({"\"", "'", "\\", "#", " ", "n"}, 4)}

ALine == {<<"#", "{", "{", "seal", ":", "vault", "}", "}">>,
          <<" ", "export", " ", "PASS", " ", "=", " ", "n">>,
          <<"USER", "=", "n", " ", "#", "n">>,
          <<"PASS", "=", "'", "n", "'", " ", "\r">>,
          <<"PASS", "=", "\"", "\\", "\"", "\"", "#">>,
          <<"PASS", "=", "seal", ":", "v1", "\r", "\r">>,
          <<"USER", "=", "seal", ":", "n">>,
          <<"PASS", "=", "{", "{">>,
          <<"PASS", "=", "=">>,
          <<"-----BEGIN", "=", "PRIVATE", " ", "KEY-----">>,
          <<"USER", " ", "n", "=">>,
          <<"-----BEGIN", " ", "PRIVATE", " ", "KEY-----">>}

Lines(n) == {FlattenSeq(s) : s \in TupleOf({Append(l, "\n") : l \in ALine}, n)}

MCSource == Assigned \cup ALine \cup Lines(2) \cup Lines(3)
=============================================================================
