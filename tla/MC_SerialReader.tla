--------------------------- MODULE MC_SerialReader ---------------------------
(* Instances of SerialReader for TLC.                                        *)
EXTENDS SerialReader

MC_Text == {CR, "x", "CFG", "KISS", "TRACKER", "DIGI", "$GPRMC", "$GPGGA",
            ",", "*", "0", "1", "A"}

\* A payload of KISS bytes and a line end, and settings with a run mode.
MC_Frames == {<<DATA, CR, FESC, TFEND, FEND>>, <<CONFIG, "CFG", Sum>>}

\* The last one is longer than readLen can count.
MC_ConsoleLines == {<<"KISS">>, <<"DIGI">>, [i \in 1 .. LenMod + 1 |-> "x"]}

\* Status and one more term; quality and altitude.
MC_Sentences == {<<"$GPRMC", ",", "A", ",", "1", "*", "0", "1">>,
                 <<"$GPGGA", ",", "1", ",", "1", "*", "0", "0">>}
==============================================================================
