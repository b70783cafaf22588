------------------------------- MODULE Beacons -------------------------------
(***************************************************************************)
(* The two senders of beacons of a station: beacon_broadcast_poll(), which *)
(* sends a fixed text every so many seconds in config and digi mode        *)
(* (TinyAPRS/beacon.c), and the tracker, which sends its position when it  *)
(* has moved or turned (tracker.c), from the sentences of a GPS receiver   *)
(* (gps.c).                                                                *)
(*                                                                         *)
(* Three clocks go at the same speed: the seconds of the station's         *)
(* millisecond counter, an int32_t that wraps; the time of day the GPS     *)
(* tells; and the difference of two times of day in an int16_t.            *)
(***************************************************************************)
EXTENDS Integers

CONSTANTS
  Interval,   \* g_settings.beacon.interval when it is not 0
  WrapAt,     \* seconds until the millisecond counter wraps, 2147483
  Day,        \* seconds in a day
  HalfWord,   \* 2^15
  FastRate, SlowRate, TurnTime,  \* SB_FAST_RATE, SB_SLOW_RATE, SB_TURN_TIME
  LowSpeed, HiSpeed,             \* SB_LOW_SPEED, SB_HI_SPEED
  TurnMin, TurnSlope,            \* SB_TURN_MIN, SB_TURN_SLOPE
  Speeds, Headings,              \* that the GPS may tell
  Starts                         \* the times of day at which the station starts

ASSUME RatesAssumption ==
  /\ Interval \in Nat \ {0} /\ WrapAt \in Nat \ {0}
  /\ Day \in Nat \ {0} /\ HalfWord \in Nat \ {0}
  /\ FastRate \in Nat \ {0} /\ SlowRate \in Nat \ {0} /\ TurnTime \in Nat \ {0}
  /\ TurnTime <= FastRate /\ FastRate <= SlowRate
  /\ SlowRate < HalfWord /\ 2 * HalfWord < Day /\ Day <= 3 * HalfWord
ASSUME SpeedsAssumption ==
  /\ Speeds \subseteq Nat /\ Headings \subseteq 0 .. 359
  /\ LowSpeed \in Nat /\ HiSpeed \in Nat /\ TurnMin \in Nat /\ TurnSlope \in Nat
  /\ LowSpeed < HiSpeed
  /\ Starts \subseteq 0 .. Day - 1

VARIABLES
  seconds,   \* seconds since the millisecond counter was 0
  utc,       \* the time of day
  mode,      \* "cfg": config or digi mode; "tracker"
  interval,  \* g_settings.beacon.interval
  fixed,     \* lastSendTimeSeconds of beacon.c
  tracked,   \* lastSendTimeSeconds of tracker.c
  last,      \* lastLocation: [timestamp, speed, heading]
  told,      \* the GPS has told its position for this second
  hist       \* history, of the sender that is polled: the seconds since its last
             \* beacon up to a maximum; whether the counter has wrapped since;
             \* and whether a day has begun since

beaconVars == <<seconds, utc, mode, interval, fixed, tracked, last, told, hist>>

MaxAge == HalfWord + Interval

NeverSent == [age |-> MaxAge, wrapped |-> FALSE, newDay |-> FALSE]
JustSent == [age |-> 0, wrapped |-> FALSE, newDay |-> FALSE]

BeaconInit ==
  /\ seconds = 0
  /\ utc \in Starts
  /\ mode = "cfg"
  /\ interval \in {0, Interval}
  /\ fixed = 0
  /\ tracked = 0
  /\ last = [timestamp |-> 0, speed |-> 0, heading |-> 0]
  /\ told = FALSE
  /\ hist = NeverSent

-----------------------------------------------------------------------------
(* The clocks.                                                             *)

\* timer_clock_seconds(): the division rounds towards 0, so 0 lasts two seconds.
Clock == IF seconds < WrapAt THEN seconds ELSE seconds - 2 * WrapAt + 1

Int16(x) == ((x + HalfWord) % (2 * HalfWord)) - HalfWord

Older ==
  [age |-> IF hist.age < MaxAge THEN hist.age + 1 ELSE MaxAge,
   wrapped |-> hist.wrapped \/ seconds + 1 = WrapAt,
   newDay |-> hist.newDay \/ utc + 1 = Day]

Second ==
  /\ seconds' = (seconds + 1) % (2 * WrapAt)
  /\ utc' = (utc + 1) % Day
  /\ told' = FALSE
  /\ hist' = Older
  /\ UNCHANGED <<mode, interval, fixed, tracked, last>>

-----------------------------------------------------------------------------
(* The fixed beacon.                                                       *)

\* AT+BEACON=i
cmd_settings_beacon_interval(i) ==
  /\ mode = "cfg"
  /\ i # interval
  /\ interval' = i
  /\ UNCHANGED <<seconds, utc, mode, fixed, tracked, last, told, hist>>

\* Mutants: the beacon is sent a second early; the first one has to wait, too.
FixedDue_Early ==
  IF fixed = 0 THEN Clock > 0 ELSE Clock - fixed >= interval

FixedDue_NotFirst == Clock - fixed > interval

\* When fixed is 0 the station has "just started".
FixedDue ==
  IF fixed = 0 THEN Clock > 0 ELSE Clock - fixed > interval

\* beacon_broadcast_poll() is called and not disabled.
Polls == mode = "cfg" /\ interval # 0

\* _send_fixed_text(), for a text that is not empty.
Fixed_Send ==
  /\ Polls
  /\ FixedDue
  /\ fixed' = Clock
  /\ hist' = JustSent
  /\ UNCHANGED <<seconds, utc, mode, interval, tracked, last, told>>

\* The station has just started, to judge by fixed, but the clock is not above
\* 0: the time is kept and nothing is sent.
Fixed_Start ==
  /\ Polls
  /\ fixed = 0 /\ Clock < 0
  /\ fixed' = Clock
  /\ UNCHANGED <<seconds, utc, mode, interval, tracked, last, told, hist>>

-----------------------------------------------------------------------------
(* The tracker.                                                            *)

\* cmd_switch_mode() with tracker_init_gps().  Nobody polls the console in this
\* mode: only a reset ends it.
tracker_init_gps ==
  /\ mode = "cfg"
  /\ mode' = "tracker"
  /\ hist' = NeverSent
  /\ UNCHANGED <<seconds, utc, interval, fixed, tracked, last, told>>

\* gps_get_location(): what a GPRMC sentence of this second says.
Location(s, h) == [timestamp |-> utc, speed |-> s, heading |-> h]

\* _calc_heading()
HeadingChange(h1, h2) ==
  LET d == IF h1 > h2 THEN h1 - h2 ELSE h2 - h1
  IN  IF d <= 180 THEN d ELSE 360 - d

\* lroundf(SB_TURN_MIN + SB_TURN_SLOPE / speed)
TurnThreshold(speed) == TurnMin + (2 * TurnSlope + speed) \div (2 * speed)

\* Mutant: the time since the last beacon is not looked at.
TurnCheck_Always(location, secs) ==
  /\ location.heading # 0 /\ location.speed # 0
  /\ \/ last.heading = 0
     \/ HeadingChange(location.heading, last.heading) > TurnThreshold(location.speed)

\* _smart_beacon_turn_angle_check(); a heading of 0 stands for "stopped".
TurnCheck(location, secs) ==
  /\ location.heading # 0 /\ location.speed # 0
  /\ secs >= TurnTime
  /\ \/ last.heading = 0
     \/ HeadingChange(location.heading, last.heading) > TurnThreshold(location.speed)

\* Mutant: the two ends of the scale are swapped.
Rate_Swapped(speed) ==
  CASE speed < LowSpeed -> SlowRate
    [] speed > HiSpeed -> FastRate
    [] OTHER -> SlowRate + ((SlowRate - FastRate) * (speed - LowSpeed)) \div (HiSpeed - LowSpeed)

\* The seconds between two beacons at a speed.
Rate(speed) ==
  CASE speed < LowSpeed -> SlowRate
    [] speed > HiSpeed -> FastRate
    [] OTHER -> FastRate + ((SlowRate - FastRate) * (HiSpeed - speed)) \div (HiSpeed - LowSpeed)

\* _smart_beacon_check() at a place that speed is the speed to from the last one.
SmartBeaconCheck(location, speed) ==
  LET secs == Int16(location.timestamp - last.timestamp)
  IN  \/ tracked = 0 \/ last.timestamp = 0
      \/ secs > 0 /\ (TurnCheck(location, secs) \/ Clock - tracked > Rate(speed))

\* _calc_speed_kmh(): the distance is anything, but the speed is at least what
\* the GPS told at either end.
SpeedsTo(location) ==
  {v \in Speeds : v >= location.speed /\ v >= last.speed}

\* tracker_poll() reads a GPRMC sentence with a fix and the right checksum, at most
\* one a second: gps_parse() returns 1, and tracker_update_location() goes on.
\* Of any other line gps_parse() keeps no more than the altitude.
gps_parse(location) ==
  /\ mode = "tracker"
  /\ ~told
  /\ told' = TRUE
  /\ UNCHANGED <<seconds, utc, mode, interval, fixed>>

Tracker_Send(location) ==
  /\ gps_parse(location)
  /\ \E v \in SpeedsTo(location) : SmartBeaconCheck(location, v)
  /\ last' = location
  /\ tracked' = Clock
  /\ hist' = JustSent

Tracker_Wait(location) ==
  /\ gps_parse(location)
  /\ \E v \in SpeedsTo(location) : ~SmartBeaconCheck(location, v)
  /\ UNCHANGED <<last, tracked, hist>>

BeaconNext ==
  \/ Second
  \/ \E i \in {0, Interval} : cmd_settings_beacon_interval(i)
  \/ Fixed_Send \/ Fixed_Start
  \/ tracker_init_gps
  \/ \E s \in Speeds, h \in Headings :
       Tracker_Send(Location(s, h)) \/ Tracker_Wait(Location(s, h))

BeaconSpec == BeaconInit /\ [][BeaconNext]_beaconVars

\* The clock goes on, and the main loop polls often enough to find the beacon due.
FairBeaconSpec == BeaconSpec /\ WF_beaconVars(Second) /\ SF_beaconVars(Fixed_Send)

-----------------------------------------------------------------------------
(* Properties.                                                             *)

BeaconTypeOK ==
  /\ seconds \in 0 .. 2 * WrapAt - 1 /\ utc \in 0 .. Day - 1
  /\ mode \in {"cfg", "tracker"}
  /\ interval \in {0, Interval}
  /\ fixed \in 1 - WrapAt .. WrapAt - 1 /\ tracked \in 1 - WrapAt .. WrapAt - 1
  /\ last \in [timestamp : 0 .. Day - 1, speed : Speeds \cup {0}, heading : Headings \cup {0}]
  /\ told \in BOOLEAN
  /\ hist \in [age : 0 .. MaxAge, wrapped : BOOLEAN, newDay : BOOLEAN]

\* Two fixed beacons are more than the interval apart, whatever the user does to
\* the interval in between; but one that is sent at the clock's 0 is taken for
\* none, and the next one follows when the clock is 1.
FixedSpaced ==
  [][Fixed_Send => hist.age > interval \/ fixed = 0]_beaconVars

\* The next poll sends the fixed beacon when the interval has passed (a second
\* later when the clock goes through 0, which lasts two), unless the clock has
\* wrapped since the last one.
FixedInTime ==
  Polls /\ hist.age > interval + 1 => FixedDue \/ hist.wrapped \/ seconds = 0

\* Two beacons of the tracker are at least SB_TURN_TIME apart, however the GPS
\* makes it turn and jump.  A beacon of midnight, or sent at the clock's 0, is
\* taken for none.
TrackerSpaced ==
  [][\A s \in Speeds, h \in Headings :
       Tracker_Send(Location(s, h))
         => hist.age >= TurnTime \/ last.timestamp = 0 \/ tracked = 0]_beaconVars

\* A fix that comes when SB_SLOW_RATE has passed since the last beacon (or a
\* second more, when the clock goes through 0) is sent, with three exceptions: the
\* clock has wrapped; there was no fix for half the range of the int16_t; or a
\* day has begun, and less time has passed than a day is longer than the range of
\* the int16_t, 5 hours and 47 minutes.
TrackerInTime ==
  [][\A s \in Speeds, h \in Headings :
       Tracker_Wait(Location(s, h))
         => \/ hist.age <= SlowRate + 1
            \/ hist.wrapped
            \/ hist.age >= HalfWord
            \/ hist.newDay /\ hist.age <= Day - 2 * HalfWord]_beaconVars

\* "Set beacon interval, 0 to disable": a beacon that is not disabled is sent
\* again and again.
BeaconsForEver ==
  <>[]Polls => []<>(hist.age = 0)
==============================================================================
