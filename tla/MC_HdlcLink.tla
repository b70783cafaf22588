----------------------------- MODULE MC_HdlcLink -----------------------------
(* Instances of HdlcLink for TLC.                                            *)
EXTENDS HdlcLink

\* Bytes with runs of ones at either end, the special bytes, and their
\* neighbours: every way a run of ones can cross from a byte to the next.
Tricky == {0, 15, 27, 31, 63, 85, 126, 127, 128, 192, 224, 240, 248, 252, 254,
           255}

\* All single bytes, and all pairs of tricky ones.
MC_Pairs == {<< <<b>> >> : b \in Byte}
            \union {<< <<b, c>> >> : b, c \in Tricky}

\* Two frames behind each other, few enough to be met by any noise.
MC_Two == {<< <<b, 126>>, <<c>> >> : b \in {27, 255}, c \in {31, 127}}

MC_Transmissions == [n \in 0 .. NoiseBits |-> IF n = 0 THEN MC_Pairs ELSE MC_Two]
=============================================================================
