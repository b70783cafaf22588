---------------------------- MODULE MC_KissSerial ----------------------------
(* An instance of KissSerial for TLC.                                        *)
EXTENDS KissSerial

\* Longer than readLen can count, and longer than the buffer.
MC_LongFrames == {<<DATA>> \o [i \in 1 .. n |-> "a"] : n \in {LenMod, BufLen}}
=============================================================================
