-------------------------------- MODULE Digi --------------------------------
(***************************************************************************)
(* Digipeaters (TinyAPRS/digi.c) that hear each other.  A message carries  *)
(* a path; a digipeater puts its own call in the place of the first unused *)
(* WIDEn-N element, keeps N - 1 hops in the next one, and sends the        *)
(* message again, unless its cache says that it did so a short time ago.   *)
(*                                                                         *)
(* Radio: a transmission is heard by any of the other stations, or by      *)
(* none.  A station handles what it hears in order, one at a time.         *)
(***************************************************************************)
EXTENDS Integers, Sequences, FiniteSetsExt

CONSTANTS
  Digis,       \* the digipeaters, named by their calls
  Callsigns,   \* what an element of a path may name
  Messages,    \* what a message is told apart by: source, destination, info
  Hash,        \* Hash[m]: _digi_calc_hash(), which leaves out the path
  Empty,       \* the messages without info
  Traffic,     \* what sources may send: sequences of [id, path, hearers], where
               \* a path is a sequence of [call, ssid, repeated]
  MaxRpt,      \* AX25_MAX_RPT
  CacheSize,   \* CFG_DIGI_DUP_CHECK_CACHE_SIZE
  Interval,    \* CFG_DIGI_DUP_CHECK_INTERVAL, seconds
  WrapAt       \* seconds until the millisecond clock, an int32_t, wraps

ASSUME HashAssumption == Hash \in [Messages -> Nat] /\ Empty \subseteq Messages
ASSUME SizeAssumption == {MaxRpt, CacheSize, Interval, WrapAt} \subseteq Nat \ {0}

VARIABLES
  cache,       \* cache[d]: the ring of [hash, timestamp]
  cacheIndex,  \* cacheIndex[d]: 0 when nothing was ever stored
  heard,       \* heard[d]: the messages it has received and not handled
  now,         \* seconds since the clock was zero
  sources,     \* what the sources will still send
  since,       \* history: since[d][m], the seconds since d sent m, counted up to
               \* Interval, and the entries made in its cache since, up to
               \* CacheSize
  made         \* history: made[d][h], the ages of the entries d made for messages
               \* of hash h, counted up to the clock's period

Period == 2 * WrapAt
Hashes == {Hash[m] : m \in Messages}

digiVars == <<cache, cacheIndex>>
vars == <<digiVars, heard, now, sources, since, made>>

Init ==
  /\ cache = [d \in Digis |-> [i \in 1 .. CacheSize |-> [hash |-> 0, timestamp |-> 0]]]
  /\ cacheIndex = [d \in Digis |-> 0]
  /\ heard = [d \in Digis |-> << >>]
  /\ now = 0
  /\ sources \in Traffic
  /\ since = [d \in Digis |-> [m \in Messages |->
                [seconds |-> Interval, entries |-> CacheSize]]]
  /\ made = [d \in Digis |-> [h \in Hashes |-> {}]]

-----------------------------------------------------------------------------
(* The path.                                                               *)

Alias == {"WIDE1", "WIDE2", "WIDE3"}

Eligible(e) == e.call \in Alias /\ e.ssid > 0 /\ ~e.repeated

\* The element the loop of digi_handle_aprs_message() stops at, or 0.
FirstEligible(path) ==
  LET found == {i \in DOMAIN path : Eligible(path[i])}
  IN  IF found = {} THEN 0 ELSE Min(found)

Element == [call : Callsigns, ssid : 0 .. 15, repeated : BOOLEAN]

\* What ax25_decode() puts in rpt_lst.  It does not look at the order of the used
\* elements: that none is behind one which can still be used is up to the stations
\* on the way, which use a path from the front.
Paths ==
  {path \in Seq(Element) :
     /\ Len(path) <= MaxRpt
     /\ \A j, k \in DOMAIN path : j < k /\ path[k].repeated => ~Eligible(path[j])}

ASSUME TrafficAssumption ==
  /\ Digis \subseteq Callsigns
  /\ Traffic \subseteq Seq([id : Messages, path : Paths, hearers : SUBSET Digis])

\* Mutant: off by one at the end of the path.
NoSpace_OffByOne(path) ==
  LET i == FirstEligible(path) IN path[i].ssid > 1 /\ i > MaxRpt

\* "no space left for the new digi call"
NoSpace(path) ==
  LET i == FirstEligible(path) IN path[i].ssid > 1 /\ i = MaxRpt

Mine(d) == [call |-> d, ssid |-> 0, repeated |-> TRUE]

\* Mutant: the hop is not counted.
Left_Same(e) == [e EXCEPT !.repeated = FALSE]

\* What is left of WIDEn-N after one hop.
Left(e) == [e EXCEPT !.ssid = @ - 1, !.repeated = FALSE]

\* Mutant: the path is sent as it came while there are hops left.
Repeated_Unchanged(path, d) ==
  LET i == FirstEligible(path)
  IN  IF path[i].ssid = 1 THEN [path EXCEPT ![i] = Mine(d)] ELSE path

\* The path that is sent: with hops left, they go to the next element, which is
\* added at the end of the path and overwritten elsewhere.
Repeated(path, d) ==
  LET i == FirstEligible(path)
  IN  IF path[i].ssid = 1 THEN [path EXCEPT ![i] = Mine(d)]
      ELSE IF i = Len(path) THEN [path EXCEPT ![i] = Mine(d)] \o <<Left(path[i])>>
      ELSE [path EXCEPT ![i] = Mine(d), ![i + 1] = Left(path[i])]

-----------------------------------------------------------------------------
(* The cache.                                                              *)

\* CURRENT_TIME_SECONDS(): a signed clock, negative after it wraps.
CurrentTime == IF now < WrapAt THEN now ELSE now - 2 * WrapAt

\* The difference is taken in uint32_t: a negative one is very large.
Recent(timestamp) ==
  LET age == CurrentTime - timestamp IN age >= 0 /\ age < Interval

\* Mutant: an entry counts for ever.
Duplicated_ForEver(d, m) ==
  /\ cacheIndex[d] > 0
  /\ \E i \in 1 .. CacheSize : cache[d][i].hash = Hash[m]

\* Mutant: an entry is found in the newest slot only.
Duplicated_Newest(d, m) ==
  /\ cacheIndex[d] > 0
  /\ LET e == cache[d][cacheIndex[d]]
     IN  e.hash = Hash[m] /\ Recent(e.timestamp)

Duplicated(d, m) ==
  /\ cacheIndex[d] > 0
  /\ \E i \in 1 .. CacheSize :
       cache[d][i].hash = Hash[m] /\ Recent(cache[d][i].timestamp)

NextIndex(d) == (cacheIndex[d] % CacheSize) + 1

Remember(d, m) ==
  /\ cacheIndex' = [cacheIndex EXCEPT ![d] = NextIndex(d)]
  /\ cache' = [cache EXCEPT ![d][NextIndex(d)] =
                 [hash |-> Hash[m], timestamp |-> CurrentTime]]

-----------------------------------------------------------------------------

\* d has dealt with its first message and sends out; some others hear it.
Transmit(d, out, hearers) ==
  heard' = [x \in Digis |->
              LET rest == IF x = d THEN Tail(heard[x]) ELSE heard[x]
              IN  IF x \in hearers THEN Append(rest, out) ELSE rest]

Drop(d) == heard' = [heard EXCEPT ![d] = Tail(@)]

UpTo(n, max) == IF n > max THEN max ELSE n

\* An entry is made in d's cache for m; sent: the messages d sends with it.
Entry(d, m, sent) ==
  /\ since' = [since EXCEPT ![d] = [x \in Messages |->
                 [seconds |-> IF x \in sent THEN 0 ELSE @[x].seconds,
                  entries |-> IF x \in sent THEN 0 ELSE UpTo(@[x].entries + 1, CacheSize)]]]
  /\ made' = [made EXCEPT ![d][Hash[m]] = @ \union {0}]

\* Nothing to do, or done before.
Digi_Ignore(d) ==
  LET m == Head(heard[d])
  IN  /\ FirstEligible(m.path) = 0 \/ Duplicated(d, m.id)
      /\ Drop(d)
      /\ UNCHANGED <<digiVars, since, made>>

\* No room in the path; or no info, and ax25_sendMsg() sends nothing.  The
\* cache has it all the same.
Digi_Refuse(d) ==
  LET m == Head(heard[d])
  IN  /\ FirstEligible(m.path) # 0 /\ ~Duplicated(d, m.id)
      /\ NoSpace(m.path) \/ m.id \in Empty
      /\ Remember(d, m.id)
      /\ Drop(d)
      /\ Entry(d, m.id, {})

Digi_Repeat(d, hearers) ==
  LET m == Head(heard[d])
      out == [m EXCEPT !.path = Repeated(m.path, d)]
  IN  /\ FirstEligible(m.path) # 0 /\ ~Duplicated(d, m.id)
      /\ ~NoSpace(m.path) /\ m.id \notin Empty
      /\ Remember(d, m.id)
      /\ Transmit(d, out, hearers)
      /\ Entry(d, m.id, {m.id})

digi_handle_aprs_message(d) ==
  /\ heard[d] # << >>
  /\ \/ Digi_Ignore(d)
     \/ Digi_Refuse(d)
     \/ \E hearers \in SUBSET (Digis \ {d}) : Digi_Repeat(d, hearers)
  /\ UNCHANGED <<now, sources>>

Source ==
  /\ sources # << >>
  /\ sources' = Tail(sources)
  /\ LET m == [id |-> Head(sources).id, path |-> Head(sources).path]
     IN  heard' = [d \in Digis |-> IF d \in Head(sources).hearers
                                    THEN Append(heard[d], m) ELSE heard[d]]
  /\ UNCHANGED <<digiVars, now, since, made>>

\* The clock's period is twice WrapAt: the negative half follows the positive,
\* and all that the cache holds is in the future then.
Tick ==
  /\ now' = (now + 1) % Period
  /\ since' = [d \in Digis |-> [m \in Messages |->
                 [since[d][m] EXCEPT !.seconds = IF now' = WrapAt THEN Interval
                                                ELSE UpTo(@ + 1, Interval)]]]
  /\ made' = [d \in Digis |-> [h \in Hashes |->
                {UpTo(age + 1, Period) : age \in made[d][h]}]]
  /\ UNCHANGED <<digiVars, heard, sources>>

Quiet == \A d \in Digis : heard[d] = << >>

Finished == Quiet /\ sources = << >> /\ UNCHANGED vars

Next ==
  \/ \E d \in Digis : digi_handle_aprs_message(d)
  \/ Source
  \/ Tick
  \/ Finished

Spec == Init /\ [][Next]_vars

FairSpec == Spec /\ \A d \in Digis : WF_vars(digi_handle_aprs_message(d))

-----------------------------------------------------------------------------
(* Properties.                                                             *)

Repeats(d) ==
  heard[d] # << >> /\ \E hearers \in SUBSET (Digis \ {d}) : Digi_Repeat(d, hearers)
In(d) == Head(heard[d])

\* A digipeater sends a message at most once in Interval seconds, however often
\* it hears it and from whom, unless its cache has been filled with other
\* messages since or the clock has wrapped in between.
OncePerInterval ==
  [][\A d \in Digis : Repeats(d) =>
       LET last == since[d][In(d).id]
       IN  last.seconds = Interval \/ last.entries = CacheSize]_vars

\* The hops that one element asks for: those left in an alias not used up.
Asks(e) == IF Eligible(e) THEN e.ssid ELSE 0

\* The hops a path still asks for.
Hops(path) ==
  LET upTo[n \in 0 .. Len(path)] == IF n = 0 THEN 0 ELSE upTo[n - 1] + Asks(path[n])
  IN  upTo[Len(path)]

\* Every repetition uses up at least one of the hops the message asked for, also
\* where an element is overwritten.
HopsDecrease ==
  [][\A d \in Digis : Repeats(d) =>
       Hops(Repeated(In(d).path, d)) < Hops(In(d).path)]_vars

\* The calls of the digipeaters a message came through stay in its path, and the
\* path stays within AX25_MAX_RPT, the room that AX25Msg has for it.
RouteKept ==
  [][\A d \in Digis : Repeats(d) =>
       LET path == In(d).path
       IN  /\ \A k \in DOMAIN path : path[k].repeated => Repeated(path, d)[k] = path[k]
           /\ Len(Repeated(path, d)) <= MaxRpt]_vars

\* A message that could be repeated is ignored only when the digipeater has dealt
\* with it, or with one of the same hash, within Interval seconds: it has sent it
\* or, since it is remembered before it is known whether it can be sent, refused it
\* for a path without room or for want of info.  Two exceptions: an entry as old as
\* the clock's period counts again, and the slots never used stand for a message of
\* hash 0 at the time 0.
SuppressedForCause ==
  [][\A d \in Digis :
       heard[d] # << >> /\ Digi_Ignore(d) /\ FirstEligible(In(d).path) # 0 =>
         LET h == Hash[In(d).id]
         IN  \/ made[d][h] \intersect ((0 .. Interval - 1) \union {Period}) # {}
             \/ h = 0 /\ now < Interval]_vars

\* No message goes round for ever, even between digipeaters that have forgotten
\* it: in the end all have handled what they heard and nothing is on the air.
FallsSilent == <>[]Quiet
=============================================================================
