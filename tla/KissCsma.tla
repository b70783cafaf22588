------------------------------ MODULE KissCsma ------------------------------
(***************************************************************************)
(* Channel access in KISS mode: kiss_send_to_modem() (TinyAPRS/net/kiss.c) *)
(* waits for an idle channel, draws a random number against the            *)
(* persistence, and transmits or backs off.  While the channel is busy it  *)
(* calls ax25_poll(), which takes bytes out of the receive FIFO that the   *)
(* modem's interrupt puts in.  Of the FIFO only its length matters here.   *)
(***************************************************************************)
EXTENDS Integers

CONSTANTS
  Capacity,    \* CONFIG_AFSK_RX_BUFLEN - 1
  MaxPackets   \* bound: packets the host sends

ASSUME BoundAssumption == Capacity \in Nat \ {0} /\ MaxPackets \in Nat

VARIABLES
  rxstart,     \* hdlc.rxstart: the channel is taken to be busy
  fill,        \* bytes in the receive FIFO
  overrun,     \* afsk->status
  pc,          \* where the main program is
  caller,      \* who called ax25_poll(): "main" or "csma"
  packets,     \* packets handed to kiss_send_to_modem()
  overflowed,  \* history: an overrun while this packet was waiting
  idle,        \* history: the channel was idle at the last look
  outcome      \* history: what became of the last packet

rxVars == <<rxstart, fill, overrun>>
mainVars == <<pc, caller, packets, idle, outcome>>
csmaVars == <<rxVars, mainVars, overflowed>>

CsmaInit ==
  /\ rxstart = FALSE /\ fill = 0 /\ overrun = FALSE
  /\ pc = "main" /\ caller = "main" /\ packets = 0
  /\ overflowed = FALSE /\ idle = FALSE /\ outcome = "none"

-----------------------------------------------------------------------------
(* The interrupt (HdlcBytes has its details).                              *)

\* The main program is in the loop that waits for the end of a reception.
Waiting ==
  pc = "status" \/ (pc \in {"poll", "error", "clearerr"} /\ caller = "csma")

\* A flag, or a byte of a frame, is stored or lost.
Store ==
  \/ /\ fill < Capacity
     /\ fill' = fill + 1
     /\ rxstart' = TRUE
     /\ UNCHANGED <<overrun, overflowed>>
  \/ /\ fill = Capacity
     /\ rxstart' = FALSE
     /\ overrun' = TRUE
     /\ overflowed' = (overflowed \/ Waiting)
     /\ UNCHANGED fill

HdlcFlag == Store /\ UNCHANGED mainVars

HdlcByte == rxstart /\ Store /\ UNCHANGED mainVars

HdlcAbort == rxstart' = FALSE /\ UNCHANGED <<fill, overrun, overflowed, mainVars>>

Interrupt == HdlcFlag \/ HdlcByte \/ HdlcAbort

-----------------------------------------------------------------------------
(* ax25_poll(), called by the main loop or while waiting.                  *)

Call_poll(who) == pc' = "poll" /\ caller' = who

Poll_Byte ==
  /\ pc = "poll" /\ fill > 0
  /\ fill' = fill - 1
  /\ UNCHANGED <<rxstart, overrun, mainVars, overflowed>>

Return_poll == pc' = IF caller = "csma" THEN "status" ELSE "main"

Poll_Eof ==
  /\ pc = "poll" /\ fill = 0
  /\ pc' = "error"
  /\ UNCHANGED <<rxVars, caller, packets, idle, outcome, overflowed>>

Poll_Error ==
  /\ pc = "error"
  /\ IF overrun THEN pc' = "clearerr" ELSE Return_poll
  /\ UNCHANGED <<rxVars, caller, packets, idle, outcome, overflowed>>

\* Mutant: the error is seen and not cleared.
Poll_Clear_Not ==
  /\ pc = "clearerr"
  /\ Return_poll
  /\ UNCHANGED <<rxVars, caller, packets, idle, outcome, overflowed>>

Poll_Clear ==
  /\ pc = "clearerr"
  /\ overrun' = FALSE
  /\ Return_poll
  /\ UNCHANGED <<rxstart, fill, caller, packets, idle, outcome, overflowed>>

-----------------------------------------------------------------------------
(* kiss_send_to_modem().                                                   *)

\* The main loop polls the modem, then the serial port: a packet from the host
\* is sent at once in full duplex, and after carrier sensing otherwise.
Main_Poll ==
  /\ pc = "main"
  /\ Call_poll("main")
  /\ UNCHANGED <<rxVars, packets, idle, outcome, overflowed>>

kiss_send_to_modem(duplex) ==
  /\ pc = "main"
  /\ packets < MaxPackets
  /\ packets' = packets + 1
  /\ pc' = IF duplex = "full" THEN "tx" ELSE "look"
  /\ outcome' = duplex
  /\ idle' = FALSE
  /\ overflowed' = FALSE
  /\ UNCHANGED <<rxVars, caller>>

Look_Idle ==
  /\ pc = "look" /\ ~rxstart
  /\ pc' = "draw"
  /\ idle' = TRUE
  /\ UNCHANGED <<rxVars, caller, packets, outcome, overflowed>>

Look_Busy ==
  /\ pc = "look" /\ rxstart
  /\ Call_poll("csma")
  /\ idle' = FALSE
  /\ UNCHANGED <<rxVars, packets, outcome, overflowed>>

\* tp < persistence
Draw_Send ==
  /\ pc = "draw"
  /\ pc' = "tx"
  /\ UNCHANGED <<rxVars, caller, packets, idle, outcome, overflowed>>

Draw_Wait ==
  /\ pc = "draw"
  /\ pc' = "delay"
  /\ UNCHANGED <<rxVars, caller, packets, idle, outcome, overflowed>>

\* Mutant: no new look after the back-off.
Delay_End_Draw ==
  /\ pc = "delay"
  /\ pc' = "draw"
  /\ idle' = FALSE
  /\ UNCHANGED <<rxVars, caller, packets, outcome, overflowed>>

\* timer_delay() of one slot; whatever was seen before it is old now.
Delay_End ==
  /\ pc = "delay"
  /\ pc' = "look"
  /\ idle' = FALSE
  /\ UNCHANGED <<rxVars, caller, packets, outcome, overflowed>>

\* After ax25_poll() in the wait: an error drops the packet.
Status_Drop ==
  /\ pc = "status" /\ overrun
  /\ overrun' = FALSE
  /\ pc' = "main"
  /\ outcome' = "dropped"
  /\ UNCHANGED <<rxstart, fill, caller, packets, idle, overflowed>>

\* The inner loop goes on while the channel is busy.
Status_Busy ==
  /\ pc = "status" /\ ~overrun /\ rxstart
  /\ pc' = "poll"
  /\ UNCHANGED <<rxVars, caller, packets, idle, outcome, overflowed>>

\* Mutant: it goes on for ever.
Status_Idle_Poll ==
  /\ pc = "status" /\ ~overrun /\ ~rxstart
  /\ pc' = "poll"
  /\ UNCHANGED <<rxVars, caller, packets, idle, outcome, overflowed>>

Status_Idle ==
  /\ pc = "status" /\ ~overrun /\ ~rxstart
  /\ pc' = "look"
  /\ UNCHANGED <<rxVars, caller, packets, idle, outcome, overflowed>>

\* ax25_sendRaw() returns when the modem has sent everything (AfskTx).
Tx_End ==
  /\ pc = "tx"
  /\ pc' = "main"
  /\ outcome' = "sent"
  /\ UNCHANGED <<rxVars, caller, packets, idle, overflowed>>

Poll == Main_Poll \/ Poll_Byte \/ Poll_Eof \/ Poll_Error \/ Poll_Clear

Send ==
  \/ Look_Idle \/ Look_Busy \/ Draw_Send \/ Draw_Wait \/ Delay_End
  \/ Status_Drop \/ Status_Busy \/ Status_Idle \/ Tx_End

CsmaNext ==
  \/ Interrupt \/ Poll \/ Send
  \/ \E duplex \in {"half", "full"} : kiss_send_to_modem(duplex)

CsmaSpec == CsmaInit /\ [][CsmaNext]_csmaVars

\* The main program runs on.  Bytes are taken from the FIFO faster than they
\* come, so that ax25_poll() finds it empty at times; both tests of the channel
\* find it idle at times; and the random number is at times below the
\* persistence, which is above zero.
CsmaFairSpec ==
  /\ CsmaSpec
  /\ WF_csmaVars(Poll) /\ WF_csmaVars(Send)
  /\ SF_csmaVars(Poll_Eof) /\ ([]<>(pc = "poll") => []<>(pc = "poll" /\ fill = 0))
  /\ SF_csmaVars(Status_Idle) /\ ([]<>(pc = "status") => []<>(pc = "status" /\ ~rxstart))
  /\ SF_csmaVars(Look_Idle) /\ ([]<>(pc = "look") => []<>(pc = "look" /\ ~rxstart))
  /\ SF_csmaVars(Draw_Send)

-----------------------------------------------------------------------------
(* Properties.                                                             *)

Sending == Waiting \/ pc \in {"look", "draw", "delay", "tx"}

TypeOK ==
  /\ rxstart \in BOOLEAN /\ overrun \in BOOLEAN
  /\ overflowed \in BOOLEAN /\ idle \in BOOLEAN
  /\ fill \in 0 .. Capacity
  /\ pc \in {"main", "look", "draw", "delay", "status", "tx", "poll", "error",
             "clearerr"}
  /\ caller \in {"main", "csma"}
  /\ packets \in 0 .. MaxPackets
  /\ outcome \in {"none", "half", "full", "dropped", "sent"}

\* In half duplex a transmission starts only on a look at the channel that found
\* it idle and after which there was neither a back-off nor a wait.
SenseBeforeSend == pc = "tx" /\ outcome = "half" => idle

\* A packet is dropped only for an overrun during its own wait: one that is left
\* over from before is cleared by ax25_poll() and does not count.
DropJustified == outcome = "dropped" => overflowed

\* With a persistence above zero every packet is sent or dropped in the end, and
\* the main loop goes on.
PacketLeaves == Sending ~> pc = "main"
=============================================================================
