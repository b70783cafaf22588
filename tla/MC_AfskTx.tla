------------------------------ MODULE MC_AfskTx ------------------------------
(* The transmitter with frames of one and two bytes, among them the three   *)
(* bytes that need an escape, and a FIFO smaller than a frame.              *)
EXTENDS AfskTx

MC_Frames == {<<"p">>, <<ESC>>, <<FLAG, "p">>, <<"p", RESET>>}
=============================================================================
