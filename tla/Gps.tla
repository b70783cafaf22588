--------------------------------- MODULE Gps ---------------------------------
(***************************************************************************)
(* What the tracker makes of a line from the GPS receiver: gps_parse() and *)
(* gps_get_location() (TinyAPRS/gps.c).  gps_parse() cuts the sentence up  *)
(* where it lies, in the buffer of the line reader, and keeps pointers to  *)
(* its terms; the pointers of an earlier sentence stay where no new one    *)
(* takes their place.                                                      *)
(*                                                                         *)
(* A character is a string; "$GPRMC" and "$GPGGA" stand for six.  Of the   *)
(* checksum only the lowest bit is kept.                                   *)
(***************************************************************************)
EXTENDS Integers, Sequences, FiniteSetsExt

CONSTANTS
  MAX_TERMS,
  MAX_SENTENCEN_CHARS, MIN_SENTENCEN_CHARS,
  GPRMC_TERM_STATUS,
  GPGGA_TERM_FIXQUALITY, GPGGA_TERM_ALTITUDE,
  LocationTerms   \* the terms of a GPRMC sentence that make a location

Term == 0 .. MAX_TERMS - 1

ASSUME TermsAssumption ==
  /\ MAX_TERMS \in Nat \ {0}
  /\ {GPRMC_TERM_STATUS, GPGGA_TERM_FIXQUALITY, GPGGA_TERM_ALTITUDE} \subseteq Term
  /\ LocationTerms \subseteq Term

NULL == 0   \* a pointer is a place in the line, from 1 on

\* gps_init() clears the structure.
NoFix == [valid |-> FALSE, term |-> [t \in Term |-> NULL], altitude |-> << >>]

Bit(c) == IF c \in {"1", "A", "$GPRMC"} THEN 1 ELSE 0

nmea_dehex(c) == CASE c = "0" -> 0 [] c = "1" -> 1 [] OTHER -> 10

Delimiter == {",", "*"}

\* The string a pointer points to.  Each delimiter is a zero by now; behind the
\* end of the line is what an earlier line has left.
String(line, p) ==
  IF p = NULL \/ p > Len(line) + 1 THEN <<"?">>
  ELSE LET end == Min({n \in p .. Len(line) : line[n] \in Delimiter}
                      \cup {Len(line) + 1})
       IN  SubSeq(line, p, end - 1)

StartsWith(string, c) == string # << >> /\ Head(string) = c

-----------------------------------------------------------------------------

\* One round of the loop: in s the state of the loop and of the structure.
Loop_Comma(s, n) ==
  [s EXCEPT !.gps.term[s.terms] = n + 1, !.terms = @ + 1]

Loop_Msb(s, n, c) ==
  [s EXCEPT !.gps.term[s.terms] = n, !.terms = @ + 1,
            !.parity = @ - 16 * nmea_dehex(c), !.state = 2]

\* The sentence is complete and its checksum right.
Fixed(s, line) ==
  LET valid ==
        IF line[1] = "$GPRMC"
        THEN StartsWith(String(line, s.gps.term[GPRMC_TERM_STATUS]), "A")
        ELSE ~StartsWith(String(line, s.gps.term[GPGGA_TERM_FIXQUALITY]), "0")
      altitude == IF valid /\ line[1] = "$GPGGA"
                  THEN String(line, s.gps.term[GPGGA_TERM_ALTITUDE])
                  ELSE s.gps.altitude
  IN  [s EXCEPT !.gps.valid = valid, !.gps.altitude = altitude, !.done = valid,
                !.fix = valid /\ line[1] = "$GPRMC"]

Loop_Lsb(s, line, c) ==
  LET t == [s EXCEPT !.state = 0, !.parity = @ - nmea_dehex(c)]
  IN  IF t.parity = 0 THEN Fixed(t, line) ELSE t

Loop(s, line, n) ==
  LET c == line[n]
  IN  CASE s.done -> s
        [] ~s.done /\ s.terms = MAX_TERMS -> [s EXCEPT !.done = TRUE]
        [] OTHER ->
             CASE s.state = 0 /\ c = "," -> Loop_Comma(s, n)
               [] s.state = 0 /\ c = "*" -> [s EXCEPT !.state = 1]
               [] s.state = 0 /\ c \notin Delimiter ->
                    [s EXCEPT !.parity = (@ + Bit(c)) % 2]
               [] s.state = 1 -> Loop_Msb(s, n, c)
               [] s.state = 2 -> Loop_Lsb(s, line, c)

\* The characters of a line, six of them in the first.
Chars(line) == Len(line) + 5

\* The structure afterwards, and whether gps_parse() returns 1.
gps_parse(gps, line) ==
  IF \/ line[1] \notin {"$GPRMC", "$GPGGA"}
     \/ Chars(line) <= MIN_SENTENCEN_CHARS \/ Chars(line) > MAX_SENTENCEN_CHARS
  THEN [gps |-> gps, fix |-> FALSE]
  ELSE LET start == [gps |-> gps, state |-> 0, terms |-> 0, parity |-> Bit(line[1]),
                     done |-> FALSE, fix |-> FALSE]
           after[n \in 1 .. Len(line)] ==
             IF n = 1 THEN start ELSE Loop(after[n - 1], line, n)
           end == after[Len(line)]
       IN  [gps |-> end.gps, fix |-> end.fix]

\* gps_get_location(): the strings the location is made of, and the altitude.
gps_get_location(gps, line) ==
  [terms |-> [t \in LocationTerms |-> String(line, gps.term[t])],
   altitude |-> gps.altitude]

-----------------------------------------------------------------------------
(* What a sentence says, for reference.                                    *)

\* The text of term t: what follows the comma that t commas precede.
TextOf(line, t) ==
  LET commas == {i \in DOMAIN line : line[i] = ","}
      comma == CHOOSE i \in commas : Cardinality({j \in commas : j < i}) = t
      end == CHOOSE i \in comma + 1 .. Len(line) :
               /\ line[i] \in Delimiter
               /\ \A j \in comma + 1 .. i - 1 : line[j] \notin Delimiter
  IN  SubSeq(line, comma + 1, end - 1)
==============================================================================
