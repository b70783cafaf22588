-------------------------------- MODULE Modes --------------------------------
(***************************************************************************)
(* The run modes of a station (TinyAPRS/main.c).  It starts in config mode *)
(* and goes by itself to the mode of its settings after a grace period;    *)
(* the console and, in KISS mode, the host change either of the two.       *)
(*                                                                         *)
(* Time is counted in units of which GraceTicks are ten seconds.  The      *)
(* calls of the main loop are actions that may come in any order: each     *)
(* reads and writes only the state below, and none waits for another.      *)
(***************************************************************************)
EXTENDS Integers, FiniteSets

CONSTANTS
  Built,       \* the modes the build has besides config mode: MOD_KISS ...
  RunModes,    \* the values a host may store in g_settings.run_mode
  GraceTicks,  \* ms_to_ticks(10000)
  ClockMod,    \* the clock counts modulo this, and differences have a sign
  MaxEvents    \* bound: commands, power failures

CFG == 0
KISS == 1
TRACKER == 2
DIGI == 3

ASSUME BuiltAssumption == Built \subseteq {KISS, TRACKER, DIGI}
ASSUME RunModesAssumption == RunModes \subseteq 0 .. 255
ASSUME ClockAssumption ==
  /\ GraceTicks \in Nat
  /\ ClockMod \in Nat
  /\ ClockMod > 2 * GraceTicks + 3

VARIABLES
  on,            \* the station runs
  currentMode,   \* the mode it is in
  run_mode,      \* g_settings.run_mode
  nv,            \* the run mode in EEPROM: [state, mode]
  saving,        \* settings_save() is writing it
  pass_through,  \* g_ax25.pass_through
  start,         \* of the grace period, static in check_run_mode(); 0: none
  now,           \* timer_clock()
  message,       \* what became of the last message received
  events         \* history: how many commands and power failures there were

bootVars == <<on, nv, saving>>
modeVars == <<currentMode, run_mode, pass_through>>
vars == <<bootVars, modeVars, start, now, message, events>>

DefaultMode ==
  CASE KISS \in Built -> KISS
    [] KISS \notin Built /\ TRACKER \in Built -> TRACKER
    [] Built = {DIGI} -> DIGI
    [] Built = {} -> CFG

NoMessage == [by |-> "none", decoded |-> FALSE]

Init ==
  /\ on = FALSE
  /\ currentMode = CFG
  /\ run_mode = DefaultMode
  /\ nv \in [state : {"none", "good"}, mode : RunModes]
  /\ saving = FALSE
  /\ pass_through = FALSE
  /\ start = 0
  /\ now = 0
  /\ message = NoMessage
  /\ events = 0

-----------------------------------------------------------------------------
(* Switching.                                                              *)

Event == events < MaxEvents /\ events' = events + 1

\* Mutant: config mode leaves ax25_poll() as it was.
PassThrough_Kept(mode) ==
  CASE mode = KISS -> TRUE
    [] mode = DIGI -> FALSE
    [] OTHER -> pass_through

\* What cmd_switch_mode() does to pass_through.
PassThrough(mode) ==
  CASE mode = KISS -> TRUE
    [] mode \in {CFG, DIGI} -> FALSE
    [] mode = TRACKER -> pass_through

\* cmd_switch_mode() with the mode i.
Switch_Already(i) ==
  /\ i = currentMode
  /\ i = run_mode
  /\ UNCHANGED <<modeVars, saving>>

\* Mutant: the mode is not saved.
Switch_To_NotSaved(i) ==
  /\ ~(i = currentMode /\ i = run_mode)
  /\ i \in Built \cup {CFG}
  /\ currentMode' = i
  /\ pass_through' = PassThrough(i)
  /\ run_mode' = i
  /\ UNCHANGED saving

Switch_To(i) ==
  /\ ~(i = currentMode /\ i = run_mode)
  /\ i \in Built \cup {CFG}
  /\ currentMode' = i
  /\ pass_through' = PassThrough(i)
  /\ run_mode' = i
  /\ saving' = (i # run_mode)

Switch_Invalid(i) ==
  /\ i \notin Built \cup {CFG}
  /\ UNCHANGED <<modeVars, saving>>

cmd_switch_mode(i) == Switch_Already(i) \/ Switch_To(i) \/ Switch_Invalid(i)

\* Nothing else of the main loop runs while the EEPROM is written.
MainFree == on /\ ~saving

\* console_poll(): AT+MODE=i; AT+KISS=1 is AT+MODE=1.
Console ==
  /\ MainFree
  /\ currentMode \in {CFG, DIGI}
  /\ \E i \in RunModes : cmd_switch_mode(i)
  /\ Event
  /\ UNCHANGED <<on, nv, start, now, message>>

\* kiss_handle_config_params_cmd() with another run mode.
KissParams ==
  /\ MainFree
  /\ currentMode = KISS
  /\ run_mode' \in RunModes
  /\ saving' = TRUE
  /\ Event
  /\ UNCHANGED <<on, nv, currentMode, pass_through, start, now, message>>

-----------------------------------------------------------------------------
(* check_run_mode()                                                        *)

\* now - start, a signed number.
Since(t) == ((now - t + ClockMod \div 2) % ClockMod) - ClockMod \div 2

\* The mode as one character, '0' + run_mode, and atoi() of that.
AsDigit(mode) == IF mode <= 9 THEN mode ELSE 0

Check_Start ==
  /\ MainFree
  /\ currentMode # run_mode
  /\ start = 0
  /\ start' = now
  /\ UNCHANGED <<bootVars, modeVars, now, message, events>>

\* Mutant: a mode that is not one digit is an unknown mode.
Check_Switch_Exact ==
  /\ MainFree
  /\ currentMode # run_mode
  /\ start # 0
  /\ Since(start) > GraceTicks
  /\ cmd_switch_mode(run_mode)
  /\ UNCHANGED <<on, nv, start, now, message, events>>

Check_Switch ==
  /\ MainFree
  /\ currentMode # run_mode
  /\ start # 0
  /\ Since(start) > GraceTicks
  /\ cmd_switch_mode(AsDigit(run_mode))
  /\ UNCHANGED <<on, nv, start, now, message, events>>

-----------------------------------------------------------------------------
(* Messages.                                                               *)

\* ax25_msg_callback(): who gets the message.
Receiver ==
  CASE currentMode = CFG -> "ax25_print"
    [] currentMode = KISS -> "kiss_send_to_serial"
    [] currentMode = DIGI -> "digi_handle_aprs_message"
    [] currentMode = TRACKER -> "none"

\* A frame with a good checksum: ax25_poll() decodes it or passes no message.
ax25_msg_callback ==
  /\ MainFree
  /\ message' = [by |-> Receiver, decoded |-> ~pass_through]
  /\ UNCHANGED <<bootVars, modeVars, start, now, events>>

-----------------------------------------------------------------------------
(* Time and power.                                                         *)

Tick ==
  /\ on
  /\ now' = (now + 1) % ClockMod
  /\ UNCHANGED <<bootVars, modeVars, start, message, events>>

\* settings_save() ends.
Saved ==
  /\ on
  /\ saving
  /\ saving' = FALSE
  /\ nv' = [state |-> "good", mode |-> run_mode]
  /\ UNCHANGED <<on, modeVars, start, now, message, events>>

\* The state of RAM when the station starts again.
Off ==
  /\ on' = FALSE
  /\ saving' = FALSE
  /\ currentMode' = CFG
  /\ run_mode' = DefaultMode
  /\ pass_through' = FALSE
  /\ start' = 0
  /\ now' = 0
  /\ message' = NoMessage
  /\ Event

\* A save that is cut short leaves the old settings, or ones that
\* settings_load() rejects, with the new run mode or with an old one.
\* AT+RESET=1 and the reboot command of KISS do the same while nothing is saved.
PowerFails ==
  /\ on
  /\ \/ nv' = nv
     \/ /\ saving
        /\ nv' = [state |-> "torn", mode |-> run_mode]
     \/ /\ saving
        /\ nv.state = "good"
        /\ nv' = [state |-> "torn", mode |-> nv.mode]
  /\ Off

\* AT+RESET=2: settings_clear(), then soft_reset().
cmd_settings_reset ==
  /\ MainFree
  /\ currentMode \in {CFG, DIGI}
  /\ nv' = [state |-> "none", mode |-> nv.mode]
  /\ Off

\* init(): settings_load() clears what it rejects, and yet uses it.
Boot ==
  /\ ~on
  /\ on' = TRUE
  /\ run_mode' = IF nv.state = "none" THEN run_mode ELSE nv.mode
  /\ nv' = [state |-> IF nv.state = "torn" THEN "none" ELSE nv.state, mode |-> nv.mode]
  /\ UNCHANGED <<saving, currentMode, pass_through, start, now, message, events>>

Next ==
  \/ Console
  \/ KissParams
  \/ Check_Start
  \/ Check_Switch
  \/ ax25_msg_callback
  \/ Tick
  \/ Saved
  \/ PowerFails
  \/ cmd_settings_reset
  \/ Boot

Spec == Init /\ [][Next]_vars

\* The main loop and the clock go on.  The loop runs many times in every stretch
\* of time in which check_run_mode() finds the grace period over.
FairSpec ==
  /\ Spec
  /\ WF_vars(Tick) /\ WF_vars(Boot) /\ WF_vars(Saved)
  /\ SF_vars(Check_Start /\ now # 0) /\ SF_vars(Check_Switch)

-----------------------------------------------------------------------------
(* Properties.                                                             *)

\* ax25_poll() passes NULL to the callback when pass_through is set:
\* ax25_print() and digi_handle_aprs_message() never get that, whatever modes
\* the station went through, and kiss_send_to_serial() never gets a frame that
\* ax25_decode() went over.
NoNullMessage ==
  /\ message.by \in {"ax25_print", "digi_handle_aprs_message"} => message.decoded
  /\ message.by = "kiss_send_to_serial" => ~message.decoded

\* The modes that check_run_mode() tries to enter for ever: one digit, and not a
\* mode of the build.
Impossible == (1 .. 9) \ Built

\* Once nobody gives commands and the power stays, the station gets to the mode
\* of its settings and stays there, also after the clock wraps; a stored mode
\* that is no digit becomes config mode; and what it is in is what is stored.
Settles ==
  <>[](\/ run_mode \in Impossible
       \/ currentMode = run_mode /\ run_mode \in Built \cup {CFG})

\* A mode the user chose at the console outlives a power failure: once it is
\* saved, the station never runs with another one in its settings until a
\* command changes it.
ChoiceKept ==
  on /\ ~saving /\ nv.state = "good" => run_mode = nv.mode
==============================================================================
