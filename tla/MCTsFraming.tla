---------------------------- MODULE MCTsFraming ----------------------------
(***************************************************************************)
(* Instances of TsFraming for TLC: packets of 4 bytes, broken ones give up *)
(* after 2, streams of up to four packets, fragments and noise.            *)
(***************************************************************************)
EXTENDS TsFraming

Units == {
    <<"start", "data", "data", "data">>,
    <<"start", "fake", "data", "fake">>,
    <<"start", "data", "data", "fake">>,
    <<"bad",   "data", "data", "data">>,
    <<"cut",   "data">>,
    <<"data">>,
    <<"fake",  "data", "data">> }

MCStreams == {a \o b \o c \o d : a, b, c, d \in Units \cup {<<>>}}
=============================================================================
