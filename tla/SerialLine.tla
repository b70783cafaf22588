----------------------------- MODULE SerialLine -----------------------------
(***************************************************************************)
(* What the readers of the serial line have in common, and the two ends of *)
(* it: the modes, the characters, and what is assumed of the frames that a *)
(* KISS host sends to a station that has other modes, too (SerialReader).  *)
(***************************************************************************)
EXTENDS KissSerial

CFG == "CFG"
KISS == "KISS"
TRACKER == "TRACKER"
DIGI == "DIGI"
Modes == {CFG, KISS, TRACKER, DIGI}

CR == "CR"     \* '\r' or '\n'
NUL == "NUL"

\* A build with KISS: the buffer has more bytes than readLen can count.  (What
\* becomes of a frame that has so many, too, is a question of KissSerial.)
ASSUME FramesAssumption ==
  /\ \A f \in Frames : f \in Seq(Byte) /\ Len(f) < LenMod
  /\ LenMod < BufLen

\* The part of a line that a counter of eight bits leaves: it starts again at 0.
Counted(line) == SubSeq(line, Len(line) - (Len(line) % LenMod) + 1, Len(line))
=============================================================================
