--------------------------- MODULE MainLoopProofs ---------------------------
(***************************************************************************)
(* What the main loop does with a message, with the channel and when it    *)
(* sends of its own accord.                                                *)
(*                                                                         *)
(* Proofs about Modes, for every build, every set of run modes, every      *)
(* grace period and any number of commands and power failures; about       *)
(* KissCsma, for every size of the receive FIFO and any number of packets: *)
(* no transmission in half duplex without a fresh look at the channel, and *)
(* no packet dropped for an overrun that was not its own; and about        *)
(* Beacons, for every interval, rate, clock and word size that the         *)
(* assumptions allow, and whatever the user and the GPS do: beacons of a   *)
(* station keep their distance, and are sent when they are due, but for    *)
(* the exceptions the properties name.                                     *)
(***************************************************************************)
EXTENDS Modes, KissCsma, Beacons, TLAPS

-----------------------------------------------------------------------------
(* NoNullMessage.  The messages of the past are no induction hypothesis    *)
(* for the next one: it is the mode that has to agree with pass_through.   *)
(* Tracker mode leaves pass_through alone, and is the reason why the two   *)
(* implications are not one equivalence.                                   *)

\* ax25_poll() decodes in the modes that need decoded messages, and not in KISS
\* mode.
ModeAgrees ==
  /\ currentMode \in {CFG, KISS, TRACKER, DIGI}
  /\ pass_through \in BOOLEAN
  /\ currentMode \in {CFG, DIGI} => ~pass_through
  /\ currentMode = KISS => pass_through

MessageInv == ModeAgrees /\ NoNullMessage

LEMMA ModesDiffer == /\ CFG # KISS /\ CFG # DIGI /\ CFG # TRACKER
                     /\ KISS # DIGI /\ KISS # TRACKER /\ DIGI # TRACKER
BY DEF CFG, KISS, TRACKER, DIGI

\* cmd_switch_mode() keeps the mode and pass_through in agreement.
LEMMA SwitchAgrees ==
  ASSUME ModeAgrees, NEW i, cmd_switch_mode(i)
  PROVE  ModeAgrees'
<1>1. CASE Switch_Already(i) \/ Switch_Invalid(i)
  BY <1>1 DEF ModeAgrees, Switch_Already, Switch_Invalid, modeVars
<1>2. CASE Switch_To(i)
  <2>1. /\ i \in {CFG, KISS, TRACKER, DIGI}
        /\ currentMode' = i
        /\ pass_through' = PassThrough(i)
    BY <1>2, BuiltAssumption DEF Switch_To
  <2>2. CASE i = KISS
    BY <2>1, <2>2, ModesDiffer, Zenon DEF ModeAgrees, PassThrough
  <2>3. CASE i \in {CFG, DIGI}
    BY <2>1, <2>3, ModesDiffer, Zenon DEF ModeAgrees, PassThrough
  <2>4. CASE i = TRACKER
    BY <2>1, <2>4, ModesDiffer DEF ModeAgrees, PassThrough
  <2> QED BY <2>1, <2>2, <2>3, <2>4
<1> QED BY <1>1, <1>2 DEF cmd_switch_mode

\* Every step keeps MessageInv.
LEMMA MessageStep == MessageInv /\ [Next]_vars => MessageInv'
<1> SUFFICES ASSUME MessageInv, [Next]_vars PROVE MessageInv'
  OBVIOUS
<1>1. CASE Console
  <2>1. ModeAgrees'
    BY <1>1, SwitchAgrees DEF Console, MessageInv
  <2>2. NoNullMessage'
    BY <1>1 DEF Console, MessageInv, NoNullMessage
  <2> QED BY <2>1, <2>2 DEF MessageInv
<1>2. CASE Check_Switch
  <2>1. ModeAgrees'
    BY <1>2, SwitchAgrees DEF Check_Switch, MessageInv
  <2>2. NoNullMessage'
    BY <1>2 DEF Check_Switch, MessageInv, NoNullMessage
  <2> QED BY <2>1, <2>2 DEF MessageInv
<1>3. CASE ax25_msg_callback
  <2>1. ModeAgrees'
    BY <1>3 DEF ax25_msg_callback, modeVars, MessageInv, ModeAgrees
  <2>2. NoNullMessage'
    <3>1. message' = [by |-> Receiver, decoded |-> ~pass_through]
      BY <1>3 DEF ax25_msg_callback
    <3>2. CASE currentMode \in {CFG, DIGI}
      <4>1. Receiver # "kiss_send_to_serial" /\ ~pass_through
        BY <3>2, ModesDiffer DEF Receiver, MessageInv, ModeAgrees
      <4> QED BY <3>1, <4>1, Zenon DEF NoNullMessage
    <3>3. CASE currentMode = KISS
      <4>1. Receiver = "kiss_send_to_serial" /\ pass_through
        BY <3>3, ModesDiffer DEF Receiver, MessageInv, ModeAgrees
      <4> QED BY <3>1, <4>1, Zenon DEF NoNullMessage
    <3>4. CASE currentMode = TRACKER
      <4>1. Receiver = "none"
        BY <3>4, ModesDiffer DEF Receiver
      <4> QED BY <3>1, <4>1 DEF NoNullMessage
    <3> QED BY <3>2, <3>3, <3>4 DEF MessageInv, ModeAgrees
  <2> QED BY <2>1, <2>2 DEF MessageInv
<1>4. CASE PowerFails \/ cmd_settings_reset
  <2>1. currentMode' = CFG /\ pass_through' = FALSE /\ message' = NoMessage
    BY <1>4 DEF PowerFails, cmd_settings_reset, Off
  <2>2. ModeAgrees'
    BY <2>1, ModesDiffer, Zenon DEF ModeAgrees
  <2>3. NoNullMessage'
    BY <2>1 DEF NoNullMessage, NoMessage
  <2> QED BY <2>2, <2>3 DEF MessageInv
<1>5. CASE KissParams
  BY <1>5 DEF KissParams, MessageInv, ModeAgrees, NoNullMessage
<1>6. CASE Check_Start \/ Tick
  BY <1>6 DEF Check_Start, Tick, modeVars, MessageInv, ModeAgrees, NoNullMessage
<1>7. CASE Saved \/ Boot
  BY <1>7 DEF Saved, Boot, modeVars, MessageInv, ModeAgrees, NoNullMessage
<1>8. CASE UNCHANGED vars
  BY <1>8 DEF vars, modeVars, MessageInv, ModeAgrees, NoNullMessage
<1> QED BY <1>1, <1>2, <1>3, <1>4, <1>5, <1>6, <1>7, <1>8 DEF Next

\* ax25_print() and digi_handle_aprs_message() only ever get decoded messages,
\* and kiss_send_to_serial() only raw ones, in every build.
THEOREM MessagesNeverNull == Spec => []NoNullMessage
<1>1. Init => MessageInv
  <2>1. Init => ModeAgrees
    BY ModesDiffer, Zenon DEF Init, ModeAgrees
  <2>2. Init => NoNullMessage
    BY DEF Init, NoNullMessage, NoMessage
  <2> QED BY <2>1, <2>2 DEF MessageInv
<1>2. MessageInv => NoNullMessage
  BY DEF MessageInv
<1> QED BY <1>1, <1>2, MessageStep, PTL DEF Spec

-----------------------------------------------------------------------------
(* ChoiceKept is inductive as it stands.                                   *)

\* Every step keeps ChoiceKept: who changes run_mode starts a save, and a boot
\* reads back what was saved.
LEMMA ChoiceStep == ChoiceKept /\ [Next]_vars => ChoiceKept'
<1> SUFFICES ASSUME ChoiceKept, [Next]_vars PROVE ChoiceKept'
  OBVIOUS
<1>1. ASSUME NEW i, cmd_switch_mode(i), ~saving, UNCHANGED <<on, nv>>
      PROVE  ChoiceKept'
  <2>1. CASE Switch_To(i)
    BY <1>1, <2>1, Zenon DEF Switch_To, ChoiceKept
  <2>2. CASE Switch_Already(i) \/ Switch_Invalid(i)
    BY <1>1, <2>2 DEF Switch_Already, Switch_Invalid, modeVars, ChoiceKept
  <2> QED BY <1>1, <2>1, <2>2 DEF cmd_switch_mode
<1>2. CASE Console
  BY <1>1, <1>2 DEF Console, MainFree
<1>3. CASE Check_Switch
  BY <1>1, <1>3 DEF Check_Switch, MainFree
<1>4. CASE KissParams
  BY <1>4 DEF KissParams, ChoiceKept
<1>5. CASE Check_Start \/ ax25_msg_callback \/ Tick
  BY <1>5, Zenon DEF Check_Start, ax25_msg_callback, Tick, modeVars, bootVars, ChoiceKept
<1>6. CASE Saved
  BY <1>6 DEF Saved, modeVars, ChoiceKept
<1>7. CASE PowerFails \/ cmd_settings_reset
  BY <1>7 DEF PowerFails, cmd_settings_reset, Off, ChoiceKept
<1>8. CASE Boot
  <2> QED BY <1>8 DEF Boot, ChoiceKept
<1>9. CASE UNCHANGED vars
  BY <1>9 DEF vars, modeVars, bootVars, ChoiceKept
<1> QED BY <1>2, <1>3, <1>4, <1>5, <1>6, <1>7, <1>8, <1>9 DEF Next

\* Once settings_save() has run to its end, the run mode in use is the stored
\* one, over any number of power failures.
THEOREM ChoiceIsKept == Spec => []ChoiceKept
<1>1. Init => ChoiceKept
  BY DEF Init, ChoiceKept
<1> QED BY <1>1, ChoiceStep, PTL DEF Spec

-----------------------------------------------------------------------------
(* Channel access in KISS mode.                                            *)

\* The draw follows a look that found the channel idle.
DrawAfterLook == pc = "draw" => idle

\* A transmission that was not asked for in full duplex follows a draw.
TxAfterDraw == pc = "tx" /\ outcome # "full" => idle

\* ax25_poll() has cleared what was left over before it returned to the wait.
OverrunIsOwn == pc = "status" /\ overrun => overflowed

IInv == TypeOK /\ DrawAfterLook /\ TxAfterDraw /\ OverrunIsOwn /\ DropJustified

LEMMA InitIInv == CsmaInit => IInv
<1> SUFFICES ASSUME CsmaInit
             PROVE  IInv
  OBVIOUS
<1>1. fill \in 0 .. Capacity /\ packets \in 0 .. MaxPackets
  BY BoundAssumption DEF CsmaInit
<1>2. QED
  BY <1>1, Zenon
  DEF CsmaInit, IInv, TypeOK, DrawAfterLook, TxAfterDraw, OverrunIsOwn, DropJustified

\* The interrupt: of all the invariant speaks of, only an overrun matters, and
\* one during the wait is recorded.
LEMMA InterruptIInv == IInv /\ Interrupt => IInv'
<1> SUFFICES ASSUME IInv, Interrupt
             PROVE  IInv'
  OBVIOUS
<1> USE BoundAssumption
    DEF IInv, TypeOK, DrawAfterLook, TxAfterDraw, OverrunIsOwn, DropJustified,
        mainVars
<1>1. CASE Store /\ UNCHANGED mainVars
  <2>1. CASE fill < Capacity
    <3>1. fill' = fill + 1 /\ rxstart' = TRUE
      BY <1>1, <2>1 DEF Store
    <3>2. overrun' = overrun /\ overflowed' = overflowed
      <4>1. fill # Capacity
        BY <2>1
      <4>2. QED
        BY <1>1, <4>1, Zenon DEF Store
    <3>3. QED
      BY <1>1, <2>1, <3>1, <3>2
  <2>2. CASE ~(fill < Capacity)
    <3>1. fill' = fill /\ rxstart' = FALSE /\ overrun' = TRUE
          /\ overflowed' = (overflowed \/ Waiting)
      BY <1>1, <2>2 DEF Store
    <3>2. overflowed' \in BOOLEAN /\ (overflowed => overflowed')
      BY <3>1, Zenon
    <3>3. OverrunIsOwn'
      BY <1>1, <3>1, Zenon DEF Waiting
    <3>4. TypeOK'
      BY <1>1, <3>1, <3>2, Zenon
    <3>5. QED
      BY <1>1, <3>2, <3>3, <3>4, Zenon
  <2>3. QED
    BY <2>1, <2>2
<1>2. CASE HdlcAbort
  BY <1>2, Zenon DEF HdlcAbort
<1>3. QED
  BY <1>1, <1>2 DEF Interrupt, HdlcFlag, HdlcByte

LEMMA PollIInv == IInv /\ Poll => IInv'
<1> SUFFICES ASSUME IInv, Poll
             PROVE  IInv'
  OBVIOUS
<1> USE BoundAssumption
    DEF IInv, TypeOK, DrawAfterLook, TxAfterDraw, OverrunIsOwn, DropJustified,
        rxVars, mainVars
<1>1. CASE Main_Poll
  BY <1>1 DEF Main_Poll, Call_poll
<1>2. CASE Poll_Byte
  BY <1>2 DEF Poll_Byte
<1>3. CASE Poll_Eof
  BY <1>3 DEF Poll_Eof
<1>4. CASE Poll_Error
  BY <1>4 DEF Poll_Error, Return_poll
<1>5. CASE Poll_Clear
  BY <1>5, Zenon DEF Poll_Clear, Return_poll
<1>6. QED
  BY <1>1, <1>2, <1>3, <1>4, <1>5 DEF Poll

LEMMA SendIInv == IInv /\ Send => IInv'
<1> SUFFICES ASSUME IInv, Send
             PROVE  IInv'
  OBVIOUS
<1> USE BoundAssumption
    DEF IInv, TypeOK, DrawAfterLook, TxAfterDraw, OverrunIsOwn, DropJustified,
        rxVars
<1>1. CASE Look_Idle
  BY <1>1 DEF Look_Idle
<1>2. CASE Look_Busy
  BY <1>2, Zenon DEF Look_Busy, Call_poll
<1>3. CASE Draw_Send
  BY <1>3 DEF Draw_Send
<1>4. CASE Draw_Wait
  BY <1>4 DEF Draw_Wait
<1>5. CASE Delay_End
  BY <1>5, Zenon DEF Delay_End
<1>6. CASE Status_Drop
  BY <1>6, Zenon DEF Status_Drop
<1>7. CASE Status_Busy
  BY <1>7 DEF Status_Busy
<1>8. CASE Status_Idle
  BY <1>8 DEF Status_Idle
<1>9. CASE Tx_End
  BY <1>9 DEF Tx_End
<1>10. QED
  BY <1>1, <1>2, <1>3, <1>4, <1>5, <1>6, <1>7, <1>8, <1>9, SMTT(30) DEF Send

LEMMA NextIInv == IInv /\ [CsmaNext]_csmaVars => IInv'
<1> SUFFICES ASSUME IInv, [CsmaNext]_csmaVars
             PROVE  IInv'
  OBVIOUS
<1> USE BoundAssumption
    DEF IInv, TypeOK, DrawAfterLook, TxAfterDraw, OverrunIsOwn, DropJustified,
        rxVars, mainVars
<1>1. ASSUME NEW duplex \in {"half", "full"}, kiss_send_to_modem(duplex)
      PROVE  IInv'
  <2>1. packets' \in 0 .. MaxPackets
    BY <1>1 DEF kiss_send_to_modem
  <2>2. pc' \in {"tx", "look"} /\ outcome' = duplex /\ (pc' = "tx" => duplex = "full")
    BY <1>1, Zenon DEF kiss_send_to_modem
  <2>3. QED
    BY <1>1, <2>1, <2>2, Zenon DEF kiss_send_to_modem
<1>2. CASE UNCHANGED csmaVars
  BY <1>2 DEF csmaVars
<1>3. QED
  BY <1>1, <1>2, InterruptIInv, PollIInv, SendIInv DEF CsmaNext

\* In half duplex kiss_send_to_modem() transmits only on a look at the channel that
\* found it idle, with no back-off and no wait in between.
THEOREM ChannelIsSensed == CsmaSpec => []SenseBeforeSend
<1>1. IInv => SenseBeforeSend
  BY DEF IInv, TxAfterDraw, SenseBeforeSend
<1>2. QED
  BY InitIInv, NextIInv, <1>1, PTL DEF CsmaSpec

\* kiss_send_to_modem() drops a packet only for an overrun during its own wait.
THEOREM DropsAreJustified == CsmaSpec => []DropJustified
<1>1. IInv => DropJustified
  BY DEF IInv
<1>2. QED
  BY InitIInv, NextIInv, <1>1, PTL DEF CsmaSpec

-----------------------------------------------------------------------------
(* Beacons.  The senders know the time from three clocks that wrap.  The   *)
(* invariant relates each of them to the seconds that have really passed.  *)
(* First, arithmetic.                                                      *)

LEMMA ModSmall ==
  ASSUME NEW n \in Nat, NEW m \in Nat \ {0}, n < m
  PROVE  n % m = n /\ (n + m) % m = n /\ (n - m) % m = n /\ m % m = 0
  BY Z3

LEMMA DivBelow ==
  ASSUME NEW a \in Nat, NEW b \in Nat \ {0}
  PROVE  a \div b \in Nat /\ b * (a \div b) <= a
  BY Z3

LEMMA ScaleBounds ==
  ASSUME NEW a \in Nat, NEW b \in Nat \ {0}, NEW c \in 0 .. b
  PROVE  (a * c) \div b \in 0 .. a
<1>1. a * c \in Nat /\ a * c <= a * b
  BY Z3
<1> DEFINE q == (a * c) \div b
<1>2. q \in Nat /\ b * q <= a * c
  BY <1>1, DivBelow
<1>3. b * q <= b * a
  BY <1>1, <1>2
<1>4. q <= a
  BY <1>2, <1>3
<1>5. QED
  BY <1>2, <1>4

\* The difference of two times of day, as an int16_t.
LEMMA Int16Of ==
  ASSUME NEW x \in Int, -3 * HalfWord <= x, x < HalfWord
  PROVE  Int16(x) = IF x < -HalfWord THEN x + 2 * HalfWord ELSE x
<1> USE RatesAssumption
<1>1. CASE x < -HalfWord
  <2>1. x + 3 * HalfWord \in Nat /\ x + 3 * HalfWord < 2 * HalfWord
    BY <1>1
  <2>2. ((x + 3 * HalfWord) - 2 * HalfWord) % (2 * HalfWord) = x + 3 * HalfWord
    BY <2>1, ModSmall
  <2>3. (x + 3 * HalfWord) - 2 * HalfWord = x + HalfWord
    OBVIOUS
  <2>4. QED
    BY <1>1, <2>2, <2>3 DEF Int16
<1>2. CASE ~(x < -HalfWord)
  <2>1. x + HalfWord \in Nat /\ x + HalfWord < 2 * HalfWord
    BY <1>2
  <2>2. QED
    BY <1>2, <2>1, ModSmall DEF Int16
<1>3. QED
  BY <1>1, <1>2

\* The rate at any speed is between SB_FAST_RATE and SB_SLOW_RATE.
LEMMA RateBounds ==
  ASSUME NEW speed \in Nat
  PROVE  Rate(speed) \in FastRate .. SlowRate
<1> USE RatesAssumption, SpeedsAssumption
<1>1. CASE speed < LowSpeed \/ speed > HiSpeed
  BY <1>1 DEF Rate
<1>2. CASE ~(speed < LowSpeed) /\ ~(speed > HiSpeed)
  <2>1. ((SlowRate - FastRate) * (HiSpeed - speed)) \div (HiSpeed - LowSpeed)
          \in 0 .. SlowRate - FastRate
    <3>1. /\ SlowRate - FastRate \in Nat
          /\ HiSpeed - LowSpeed \in Nat \ {0}
          /\ HiSpeed - speed \in 0 .. HiSpeed - LowSpeed
      BY <1>2
    <3>2. QED
      BY <3>1, ScaleBounds
  <2>2. Rate(speed) = FastRate + ((SlowRate - FastRate) * (HiSpeed - speed)) \div (HiSpeed - LowSpeed)
    BY <1>2 DEF Rate
  <2>3. QED
    BY <2>1, <2>2
<1>3. QED
  BY <1>1, <1>2

-----------------------------------------------------------------------------
(* The invariant.                                                          *)

\* The counter of seconds does not run ahead of the time since a beacon of time t.
NotAhead(t) == hist.age = MaxAge \/ Clock - t <= hist.age

\* Until it wraps it is not behind by more than the second that 0 lasts too long.
NotBehind(t) ==
  ~hist.wrapped =>
    /\ Clock >= t /\ Clock - t >= hist.age - 1
    /\ seconds >= WrapAt => Clock - t >= hist.age

\* The time of day tells the time since the last beacon for half the range of the
\* int16_t.
DayTells ==
  hist.age < HalfWord =>
    utc - last.timestamp = IF hist.newDay THEN hist.age - Day ELSE hist.age

FixedInv ==
  mode = "cfg" =>
    /\ tracked = 0
    /\ NotAhead(fixed)
    /\ NotBehind(fixed) \/ (fixed = 0 /\ seconds < WrapAt)

TrackerInv ==
  mode = "tracker" =>
    tracked = 0 \/ (NotAhead(tracked) /\ NotBehind(tracked) /\ DayTells)

BeaconInv == BeaconTypeOK /\ FixedInv /\ TrackerInv

LEMMA InitBeaconInv == BeaconInit => BeaconInv
<1> SUFFICES ASSUME BeaconInit
             PROVE  BeaconInv
  OBVIOUS
<1>1. MaxAge \in Nat
  BY RatesAssumption DEF MaxAge
<1>2. BeaconTypeOK
  <2>1. hist \in [age : 0 .. MaxAge, wrapped : BOOLEAN, newDay : BOOLEAN]
    BY <1>1 DEF BeaconInit, NeverSent
  <2>2. last \in [timestamp : 0 .. Day - 1, speed : Speeds \cup {0}, heading : Headings \cup {0}]
    BY RatesAssumption DEF BeaconInit
  <2>3. /\ seconds \in 0 .. 2 * WrapAt - 1 /\ utc \in 0 .. Day - 1
        /\ fixed \in 1 - WrapAt .. WrapAt - 1 /\ tracked \in 1 - WrapAt .. WrapAt - 1
    BY RatesAssumption, SpeedsAssumption DEF BeaconInit
  <2>4. QED
    BY <2>1, <2>2, <2>3, Zenon DEF BeaconInit, BeaconTypeOK
<1>3. FixedInv /\ TrackerInv
  BY RatesAssumption DEF BeaconInit, FixedInv, TrackerInv, NotAhead, NeverSent
<1>4. QED
  BY <1>2, <1>3 DEF BeaconInv

\* What a second does to the clocks.
LEMMA SecondClocks ==
  ASSUME BeaconTypeOK, Second
  PROVE  /\ seconds' \in 0 .. 2 * WrapAt - 1
         /\ Clock' <= Clock + 1
         /\ seconds + 1 # WrapAt =>
              Clock' = IF seconds = 2 * WrapAt - 1 THEN Clock ELSE Clock + 1
         /\ seconds' = IF seconds = 2 * WrapAt - 1 THEN 0 ELSE seconds + 1
         /\ utc' = IF utc + 1 = Day THEN 0 ELSE utc + 1
<1> USE RatesAssumption DEF BeaconTypeOK
<1>1. seconds' = IF seconds = 2 * WrapAt - 1 THEN 0 ELSE seconds + 1
  <2>1. CASE seconds = 2 * WrapAt - 1
    BY <2>1, ModSmall DEF Second
  <2>2. CASE seconds # 2 * WrapAt - 1
    <3>1. seconds + 1 \in Nat /\ seconds + 1 < 2 * WrapAt /\ 2 * WrapAt \in Nat \ {0}
      BY <2>2
    <3>2. QED
      BY <2>2, <3>1, ModSmall, Zenon DEF Second
  <2>3. QED
    BY <2>1, <2>2
<1>2. utc' = IF utc + 1 = Day THEN 0 ELSE utc + 1
  <2>1. CASE utc + 1 = Day
    BY <2>1, ModSmall DEF Second
  <2>2. CASE utc + 1 # Day
    <3>1. utc + 1 \in Nat /\ utc + 1 < Day
      BY <2>2
    <3>2. QED
      BY <2>2, <3>1, ModSmall, Zenon DEF Second
  <2>3. QED
    BY <2>1, <2>2
<1>3. QED
  BY <1>1, <1>2 DEF Clock

LEMMA SecondBeaconInv == BeaconInv /\ Second => BeaconInv'
<1> SUFFICES ASSUME BeaconInv, Second
             PROVE  BeaconInv'
  OBVIOUS
<1> USE RatesAssumption
<1>1. /\ Clock \in Int /\ Clock' \in Int /\ MaxAge \in Nat /\ MaxAge > HalfWord
      /\ seconds \in 0 .. 2 * WrapAt - 1 /\ utc \in 0 .. Day - 1
      /\ hist.age \in 0 .. MaxAge /\ hist.wrapped \in BOOLEAN /\ hist.newDay \in BOOLEAN
      /\ fixed \in Int /\ tracked \in Int /\ last.timestamp \in 0 .. Day - 1
  BY SecondClocks DEF BeaconInv, BeaconTypeOK, Clock, MaxAge
<1>2. /\ seconds' \in 0 .. 2 * WrapAt - 1
      /\ Clock' <= Clock + 1
      /\ seconds + 1 # WrapAt => Clock' = IF seconds = 2 * WrapAt - 1 THEN Clock ELSE Clock + 1
      /\ seconds' = IF seconds = 2 * WrapAt - 1 THEN 0 ELSE seconds + 1
      /\ utc' = IF utc + 1 = Day THEN 0 ELSE utc + 1
  BY SecondClocks DEF BeaconInv
<1>3. /\ hist'.age = IF hist.age < MaxAge THEN hist.age + 1 ELSE MaxAge
      /\ hist'.wrapped <=> hist.wrapped \/ seconds + 1 = WrapAt
      /\ hist'.newDay <=> hist.newDay \/ utc + 1 = Day
  BY Zenon DEF Second, Older
<1>4. UNCHANGED <<mode, interval, fixed, tracked, last>>
  BY DEF Second
<1>5. BeaconTypeOK'
  <2>1. hist' \in [age : 0 .. MaxAge, wrapped : BOOLEAN, newDay : BOOLEAN]
    BY <1>1 DEF Second, Older
  <2>2. seconds' \in 0 .. 2 * WrapAt - 1 /\ utc' \in 0 .. Day - 1
    BY <1>1, <1>2
  <2>3. QED
    BY <1>4, <2>1, <2>2, Zenon DEF Second, BeaconInv, BeaconTypeOK, MaxAge
<1>6. ASSUME NEW t \in Int, NotAhead(t)
      PROVE  hist'.age = MaxAge \/ Clock' - t <= hist'.age
  BY <1>1, <1>2, <1>3, <1>6 DEF NotAhead
<1>7. ASSUME NEW t \in Int, NotBehind(t), ~hist'.wrapped
      PROVE  /\ Clock' >= t /\ Clock' - t >= hist'.age - 1
             /\ seconds' >= WrapAt => Clock' - t >= hist'.age
  BY <1>1, <1>2, <1>3, <1>7 DEF NotBehind
<1>8. FixedInv'
  <2> SUFFICES ASSUME mode' = "cfg"
               PROVE  /\ tracked' = 0
                      /\ NotAhead(fixed)'
                      /\ NotBehind(fixed)' \/ (fixed' = 0 /\ seconds' < WrapAt)
    BY DEF FixedInv
  <2>1. tracked' = 0 /\ NotAhead(fixed)'
    BY <1>1, <1>4, <1>6 DEF BeaconInv, FixedInv, NotAhead, MaxAge
  <2>2. CASE NotBehind(fixed)
    BY <1>1, <1>4, <1>7, <2>1, <2>2 DEF NotBehind
  <2>3. CASE fixed = 0 /\ seconds < WrapAt
    <3>1. CASE seconds + 1 = WrapAt
      BY <1>3, <2>1, <3>1 DEF NotBehind
    <3>2. CASE seconds + 1 # WrapAt
      BY <1>1, <1>2, <1>4, <2>1, <2>3, <3>2
    <3>3. QED
      BY <3>1, <3>2
  <2>4. QED
    BY <1>4, <2>2, <2>3 DEF BeaconInv, FixedInv
<1>9. TrackerInv'
  <2> SUFFICES ASSUME mode' = "tracker", tracked' # 0
               PROVE  NotAhead(tracked)' /\ NotBehind(tracked)' /\ DayTells'
    BY DEF TrackerInv
  <2>1. NotAhead(tracked) /\ NotBehind(tracked) /\ DayTells
    BY <1>4 DEF BeaconInv, TrackerInv
  <2>2. NotAhead(tracked)'
    BY <1>1, <1>4, <1>6, <2>1 DEF NotAhead, MaxAge
  <2>3. NotBehind(tracked)'
    BY <1>1, <1>4, <1>7, <2>1 DEF NotBehind
  <2>4. DayTells'
    BY <1>1, <1>2, <1>3, <1>4, <2>1 DEF DayTells
  <2>5. QED
    BY <2>2, <2>3, <2>4
<1>10. QED
  BY <1>5, <1>8, <1>9 DEF BeaconInv

LEMMA NextBeaconInv == BeaconInv /\ [BeaconNext]_beaconVars => BeaconInv'
<1> SUFFICES ASSUME BeaconInv, [BeaconNext]_beaconVars
             PROVE  BeaconInv'
  OBVIOUS
<1> USE RatesAssumption
<1>1. /\ Clock \in 1 - WrapAt .. WrapAt - 1 /\ MaxAge \in Nat
      /\ seconds \in 0 .. 2 * WrapAt - 1
      /\ hist.age \in 0 .. MaxAge /\ hist.wrapped \in BOOLEAN
      /\ fixed \in Int /\ tracked \in Int
  BY DEF BeaconInv, BeaconTypeOK, Clock, MaxAge
<1>2. /\ JustSent \in [age : 0 .. MaxAge, wrapped : BOOLEAN, newDay : BOOLEAN]
      /\ NeverSent \in [age : 0 .. MaxAge, wrapped : BOOLEAN, newDay : BOOLEAN]
  BY <1>1 DEF JustSent, NeverSent
<1>3. CASE Second
  BY <1>3, SecondBeaconInv
<1>4. ASSUME NEW i \in {0, Interval}, cmd_settings_beacon_interval(i)
      PROVE  BeaconInv'
  BY <1>4 DEF cmd_settings_beacon_interval, BeaconInv, BeaconTypeOK, FixedInv, TrackerInv,
              NotAhead, NotBehind, DayTells, Clock
<1>5. CASE Fixed_Send
  <2>1. /\ fixed' = Clock /\ Clock' = Clock /\ seconds' = seconds /\ mode' = "cfg"
        /\ tracked' = tracked /\ mode = "cfg" /\ hist' = JustSent
    BY <1>5 DEF Fixed_Send, Polls, Clock
  <2>2. BeaconTypeOK'
    BY <1>1, <1>2, <1>5, <2>1 DEF Fixed_Send, BeaconInv, BeaconTypeOK, MaxAge
  <2>3. FixedInv' /\ TrackerInv'
    BY <1>1, <2>1 DEF BeaconInv, FixedInv, TrackerInv, NotAhead, NotBehind, JustSent
  <2>4. QED
    BY <2>2, <2>3 DEF BeaconInv
<1>6. CASE Fixed_Start
  <2>1. /\ fixed' = Clock /\ Clock' = Clock /\ seconds' = seconds /\ mode' = "cfg"
        /\ tracked' = tracked /\ mode = "cfg" /\ hist' = hist /\ fixed = 0 /\ Clock < 0
    BY <1>6 DEF Fixed_Start, Polls, Clock
  <2>2. BeaconTypeOK'
    BY <1>1, <1>6, <2>1 DEF Fixed_Start, BeaconInv, BeaconTypeOK, MaxAge
  <2>3. hist.wrapped
    BY <1>1, <2>1 DEF BeaconInv, FixedInv, NotBehind, Clock
  <2>4. FixedInv' /\ TrackerInv'
    BY <1>1, <2>1, <2>3 DEF BeaconInv, FixedInv, TrackerInv, NotAhead, NotBehind
  <2>5. QED
    BY <2>2, <2>4 DEF BeaconInv
<1>7. CASE tracker_init_gps
  <2>1. BeaconTypeOK'
    BY <1>2, <1>7 DEF tracker_init_gps, BeaconInv, BeaconTypeOK, MaxAge
  <2>2. FixedInv' /\ TrackerInv'
    BY <1>7 DEF tracker_init_gps, BeaconInv, FixedInv, TrackerInv
  <2>3. QED
    BY <2>1, <2>2 DEF BeaconInv
<1>8. ASSUME NEW s \in Speeds, NEW h \in Headings, Tracker_Send(Location(s, h))
      PROVE  BeaconInv'
  <2>1. /\ tracked' = Clock /\ Clock' = Clock /\ seconds' = seconds /\ mode' = "tracker"
        /\ hist' = JustSent /\ utc' = utc /\ last' = Location(s, h)
    BY <1>8 DEF Tracker_Send, gps_parse, Clock
  <2>2. BeaconTypeOK'
    <3>1. last' \in [timestamp : 0 .. Day - 1, speed : Speeds \cup {0}, heading : Headings \cup {0}]
      BY <2>1 DEF Location, BeaconInv, BeaconTypeOK
    <3>2. QED
      BY <1>1, <1>2, <1>8, <2>1, <3>1 DEF Tracker_Send, gps_parse, BeaconInv, BeaconTypeOK, MaxAge
  <2>3. FixedInv' /\ TrackerInv'
    <3>1. utc \in Int /\ last'.timestamp = utc
      BY <2>1 DEF Location, BeaconInv, BeaconTypeOK
    <3>2. QED
      BY <1>1, <2>1, <3>1
      DEF FixedInv, TrackerInv, NotAhead, NotBehind, DayTells, JustSent
  <2>4. QED
    BY <2>2, <2>3 DEF BeaconInv
<1>9. ASSUME NEW s \in Speeds, NEW h \in Headings, Tracker_Wait(Location(s, h))
      PROVE  BeaconInv'
  BY <1>9 DEF Tracker_Wait, gps_parse, BeaconInv, BeaconTypeOK, FixedInv, TrackerInv,
              NotAhead, NotBehind, DayTells, Clock
<1>10. CASE UNCHANGED beaconVars
  BY <1>10 DEF beaconVars, BeaconInv, BeaconTypeOK, FixedInv, TrackerInv, NotAhead, NotBehind,
               DayTells, Clock
<1>11. QED
  BY <1>3, <1>4, <1>5, <1>6, <1>7, <1>8, <1>9, <1>10 DEF BeaconNext

-----------------------------------------------------------------------------
(* The fixed beacon.                                                       *)

\* Two fixed beacons are more than the interval apart, whatever the user does to it,
\* but for the one at the clock's 0.
THEOREM FixedKeepDistance == BeaconSpec => FixedSpaced
<1>1. BeaconInv /\ [BeaconNext]_beaconVars => [Fixed_Send => hist.age > interval \/ fixed = 0]_beaconVars
  <2> SUFFICES ASSUME BeaconInv, Fixed_Send, fixed # 0
               PROVE  hist.age > interval
    OBVIOUS
  <2>1. Clock - fixed > interval /\ NotAhead(fixed)
    BY DEF Fixed_Send, FixedDue, Polls, BeaconInv, FixedInv
  <2>2. /\ interval \in {0, Interval} /\ hist.age \in Int
        /\ Clock \in Int /\ fixed \in Int
    BY RatesAssumption DEF BeaconInv, BeaconTypeOK, Clock, MaxAge
  <2>3. QED
    BY <2>1, <2>2, RatesAssumption DEF NotAhead, MaxAge
<1>2. QED
  BY InitBeaconInv, NextBeaconInv, <1>1, PTL DEF BeaconSpec, FixedSpaced

\* beacon_broadcast_poll() finds the beacon due when the interval has passed, unless
\* the millisecond counter has wrapped since the last one.
THEOREM FixedIsDue == BeaconSpec => []FixedInTime
<1>1. BeaconInv => FixedInTime
  <2> SUFFICES ASSUME BeaconInv, Polls, hist.age > interval + 1, ~hist.wrapped, seconds # 0
               PROVE  FixedDue
    BY DEF FixedInTime
  <2>1. /\ interval \in Nat /\ hist.age \in Int /\ seconds \in 0 .. 2 * WrapAt - 1
        /\ Clock \in Int /\ fixed \in Int
    BY RatesAssumption DEF BeaconInv, BeaconTypeOK, Clock, MaxAge
  <2>2. CASE NotBehind(fixed)
    BY <2>1, <2>2 DEF NotBehind, FixedDue
  <2>3. CASE fixed = 0 /\ seconds < WrapAt
    BY <2>1, <2>3 DEF Clock, FixedDue
  <2>4. QED
    BY <2>2, <2>3 DEF BeaconInv, FixedInv, Polls
<1>2. QED
  BY InitBeaconInv, NextBeaconInv, <1>1, PTL DEF BeaconSpec

-----------------------------------------------------------------------------
(* The tracker.                                                            *)

\* The int16_t of _smart_beacon_check(), while it is less than half its range
\* since the last beacon.
LEMMA SecsOf ==
  ASSUME BeaconInv, mode = "tracker", tracked # 0, hist.age < HalfWord
  PROVE  Int16(utc - last.timestamp) =
           IF hist.newDay THEN hist.age - Day + 2 * HalfWord ELSE hist.age
<1> USE RatesAssumption
<1>1. hist.age \in Nat /\ utc \in Int /\ last.timestamp \in Int
  BY DEF BeaconInv, BeaconTypeOK, MaxAge
<1>2. utc - last.timestamp = IF hist.newDay THEN hist.age - Day ELSE hist.age
  BY DEF BeaconInv, TrackerInv, DayTells
<1>3. CASE hist.newDay
  <2>1. hist.age - Day < -HalfWord /\ -3 * HalfWord <= hist.age - Day
    BY <1>1
  <2>2. QED
    BY <1>1, <1>2, <1>3, <2>1, Int16Of
<1>4. CASE ~hist.newDay
  BY <1>1, <1>2, <1>4, Int16Of
<1>5. QED
  BY <1>3, <1>4

\* Two beacons of the tracker are at least SB_TURN_TIME apart, but for one of
\* midnight or of the clock's 0.
THEOREM TrackerKeepsDistance == BeaconSpec => TrackerSpaced
<1> DEFINE Spaced ==
      \A s \in Speeds, h \in Headings :
        Tracker_Send(Location(s, h))
          => hist.age >= TurnTime \/ last.timestamp = 0 \/ tracked = 0
<1>1. BeaconInv /\ [BeaconNext]_beaconVars => [Spaced]_beaconVars
  <2> SUFFICES ASSUME BeaconInv, NEW s \in Speeds, NEW h \in Headings,
                      Tracker_Send(Location(s, h)), last.timestamp # 0, tracked # 0
               PROVE  hist.age >= TurnTime
    OBVIOUS
  <2> USE RatesAssumption
  <2>1. /\ hist.age \in Int /\ Clock \in Int /\ tracked \in Int /\ mode = "tracker"
    BY DEF BeaconInv, BeaconTypeOK, Clock, MaxAge, Tracker_Send, gps_parse
  <2>2. PICK v \in Speeds : SmartBeaconCheck(Location(s, h), v)
    BY DEF Tracker_Send, SpeedsTo
  <2> DEFINE secs == Int16(utc - last.timestamp)
  <2>3. secs >= TurnTime \/ Clock - tracked > Rate(v)
    BY <2>2 DEF SmartBeaconCheck, TurnCheck, Location
  <2>4. CASE Clock - tracked > Rate(v)
    <3>1. Rate(v) \in FastRate .. SlowRate
      BY RateBounds, SpeedsAssumption
    <3>2. hist.age = MaxAge \/ Clock - tracked <= hist.age
      BY <2>1 DEF BeaconInv, TrackerInv, NotAhead
    <3>3. QED
      BY <2>1, <2>4, <3>1, <3>2 DEF MaxAge
  <2>5. CASE secs >= TurnTime /\ hist.age < HalfWord
    <3>1. secs = IF hist.newDay THEN hist.age - Day + 2 * HalfWord ELSE hist.age
      BY <2>1, <2>5, SecsOf
    <3>2. QED
      BY <2>1, <2>5, <3>1
  <2>6. CASE hist.age >= HalfWord
    BY <2>1, <2>6
  <2>7. QED
    BY <2>1, <2>3, <2>4, <2>5, <2>6
<1>2. QED
  BY InitBeaconInv, NextBeaconInv, <1>1, PTL DEF BeaconSpec, TrackerSpaced

\* A fix that comes when SB_SLOW_RATE has passed is sent, with the three exceptions
\* that the wrapping clocks make.
THEOREM TrackerIsInTime == BeaconSpec => TrackerInTime
<1> DEFINE InTime ==
      \A s \in Speeds, h \in Headings :
        Tracker_Wait(Location(s, h))
          => \/ hist.age <= SlowRate + 1
             \/ hist.wrapped
             \/ hist.age >= HalfWord
             \/ hist.newDay /\ hist.age <= Day - 2 * HalfWord
<1>1. BeaconInv /\ [BeaconNext]_beaconVars => [InTime]_beaconVars
  <2> SUFFICES ASSUME BeaconInv, NEW s \in Speeds, NEW h \in Headings,
                      Tracker_Wait(Location(s, h)), ~(hist.age <= SlowRate + 1),
                      ~hist.wrapped, ~(hist.age >= HalfWord),
                      ~(hist.newDay /\ hist.age <= Day - 2 * HalfWord)
               PROVE  FALSE
    OBVIOUS
  <2> USE RatesAssumption
  <2>1. /\ hist.age \in Int /\ Clock \in Int /\ tracked \in Int /\ mode = "tracker"
    BY DEF BeaconInv, BeaconTypeOK, Clock, MaxAge, Tracker_Wait, gps_parse
  <2>2. PICK v \in Speeds : ~SmartBeaconCheck(Location(s, h), v)
    BY DEF Tracker_Wait, SpeedsTo
  <2> DEFINE secs == Int16(utc - last.timestamp)
  <2>3. tracked # 0 /\ (~(secs > 0) \/ ~(Clock - tracked > Rate(v)))
    BY <2>2 DEF SmartBeaconCheck, Location
  <2>4. secs > 0
    <3>1. secs = IF hist.newDay THEN hist.age - Day + 2 * HalfWord ELSE hist.age
      BY <2>1, <2>3, SecsOf
    <3>2. QED
      BY <2>1, <3>1
  <2>5. Clock - tracked > Rate(v)
    <3>1. Rate(v) \in FastRate .. SlowRate
      BY RateBounds, SpeedsAssumption
    <3>2. Clock - tracked >= hist.age - 1
      BY <2>1, <2>3 DEF BeaconInv, TrackerInv, NotBehind
    <3>3. QED
      BY <2>1, <3>1, <3>2
  <2>6. QED
    BY <2>3, <2>4, <2>5
<1>2. QED
  BY InitBeaconInv, NextBeaconInv, <1>1, PTL DEF BeaconSpec, TrackerInTime
==============================================================================
