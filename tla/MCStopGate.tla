----------------------------- MODULE MCStopGate -----------------------------
(* Instances of StopGate for TLC: stop strings that overlap, and stop       *)
(* strings that contain one another.                                        *)
EXTENDS StopGate

Overlapping == << <<"a", "b", "a">>, <<"b", "b">> >>
Nested == << <<"a", "b", "b">>, <<"b">> >>
Lists == {Overlapping, Nested}
Letters == {<<>>, <<"a">>, <<"b">>, <<"b", "a">>}
Tag == <<"a">>
=============================================================================
