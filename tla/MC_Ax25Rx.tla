------------------------------ MODULE MC_Ax25Rx ------------------------------
(* Instances of Ax25Rx for TLC.                                              *)
EXTENDS Ax25Rx

\* Two frames that are received, one of them all escapes; one whose FCS is
\* wrong, one that is too long and one that is too short.
MC_Valid == {<<"a", "b">>, <<"FLAG", "RESET">>, <<"b", "a", "b", "a">>, <<"c">>}
MC_AirFrames == MC_Valid \union {<<"b", "ESC", "a">>}
=============================================================================
