---------------------------- MODULE MCTemplates -----------------------------
(***************************************************************************)
(* For render, every text of up to six pieces and longer ones put together *)
(* from whole groups. For rewrap, every text of up to four pieces: parts   *)
(* of a token, whole tokens under the retired kid and another, and what    *)
(* may stand around them.                                                  *)
(***************************************************************************)
EXTENDS Templates, SequencesExt

MCFrom == <<"o">>
MCTo   == <<"n", ".">>
MCBlob == {<<"k">>}

MCAnswer == {<<"x">>, << >>, <<"{", "{", "seal", ":", "}", "}">>}

Texts(pieces, n) == {FlattenSeq(s) : s \in BoundedSeq(pieces, n)}

MCSource ==
    [c \in {"render", "rewrap"} |->
        IF c = "render"
        THEN Texts({<<"{">>, <<"}">>, <<"seal", ":">>, <<"x">>}, 6)
                \cup Texts({<<"{">>, <<"{", "{">>, <<"}", "}">>, <<"x">>, <<" ", "seal", ":">>,
                            <<"{", "{", "seal", ":", "}", "}">>}, 4)
        ELSE Texts({MARKER, MARKER \o <<"o", ":", "k">>, MARKER \o <<"o", ".", ":", "k">>,
                    <<"seal">>, <<"v1">>, <<":">>, <<"o">>, <<".">>, <<"{">>}, 4)]
=============================================================================
