------------------------------ MODULE Settings ------------------------------
(***************************************************************************)
(* The settings in RAM and in EEPROM (TinyAPRS/settings.c).                *)
(*                                                                         *)
(* The EEPROM is written one byte at a time and the power may fail between *)
(* two bytes.  What an operation has still to write is the sequence todo   *)
(* of the calls it makes, each the set of the bytes of one call: avr-libc  *)
(* promises no order within a block.  Reading the EEPROM takes one step.   *)
(***************************************************************************)
EXTENDS Integers, Sequences, FiniteSetsExt

CONSTANTS
  ByteMod,        \* the values of a byte are 0 .. ByteMod - 1
  SettingsHead,   \* NV_SETTINGS_HEAD_BYTE_VALUE
  TextHead,       \* NV_BEACON_TEXT_HEAD_BYTE_VALUE
  Params,         \* the contents of g_settings, sequences of bytes
  DefaultParams,  \* those g_settings is initialised with
  Calls,          \* the contents of CallData, sequences of bytes
  DefaultCall,    \* default_calldata
  Texts,          \* beacon texts, sequences of bytes that are not zero
  DefaultText,    \* DEFAULT_BEACON_TEXT
  TextMax,        \* SETTINGS_BEACON_TEXT_MAX_LEN
  TextBuf         \* the buffer _send_fixed_text() reads the text into

Byte == 0 .. ByteMod - 1
Blank == ByteMod - 1          \* 0xFF, an erased byte
ParamsLen == Len(DefaultParams)
CallLen == Len(DefaultCall)

ASSUME ByteAssumption ==
  /\ ByteMod \in Nat \ {0}
  /\ SettingsHead \in Byte \ {Blank} /\ TextHead \in Byte \ {Blank}
ASSUME ParamsAssumption ==
  /\ ParamsLen \in Nat \ {0}
  /\ \A p \in Params \cup {DefaultParams} : p \in [1 .. ParamsLen -> Byte]
ASSUME CallAssumption ==
  \A c \in Calls \cup {DefaultCall} : c \in [1 .. CallLen -> Byte]
ASSUME TextAssumption ==
  /\ TextMax \in Nat \ {0} /\ TextBuf \in Nat \ {0}
  /\ \A t \in Texts : t \in Seq(Byte \ {0}) /\ t # << >>

Stores == {"params", "call", "text"}

VARIABLES
  eeprom,      \* the bytes of the EEPROM
  todo,        \* what the operation in progress has still to write
  power,       \* "on", "off", or "reset": in soft_reset(), or on its way there
  g_settings,  \* the settings in use
  source,      \* where they are from: "default", "eeprom", "rejected", "set"
  writing,     \* history: what the operation in progress stores, by store
  stored,      \* history: what each store should hold, when known
  last         \* history: the settings the last complete save was about, or << >>

histVars == <<writing, stored, last>>
vars == <<eeprom, todo, power, g_settings, source, histVars>>

Cells ==
  ({"head", "crc", "callHead", "textHead"} \X {0})
    \cup ({"params"} \X (1 .. ParamsLen))
    \cup ({"call"} \X (1 .. CallLen))
    \cup ({"text"} \X (1 .. TextMax))

Default == [params |-> DefaultParams, call |-> DefaultCall, text |-> DefaultText]
Known(v) == [known |-> TRUE, value |-> v]
Unknown(over) == [known |-> FALSE, over |-> over]   \* over: old contents were in use

Init ==
  /\ eeprom = [c \in Cells |-> Blank]
  /\ todo = << >>
  /\ power = "off"
  /\ g_settings = DefaultParams
  /\ source = "default"
  /\ writing = << >>
  /\ stored = [s \in Stores |-> Known(Default[s])]
  /\ last = << >>

-----------------------------------------------------------------------------
(* EEPROM.                                                                 *)

\* eeprom_update_byte() and eeprom_update_block(): the bytes of one call.
Put(cell, v) == {[cell |-> <<cell, 0>>, byte |-> v]}
PutBlock(store, bytes) ==
  {[cell |-> <<store, i>>, byte |-> bytes[i]] : i \in DOMAIN bytes}

\* eeprom_read_block()
Block(store, len) == [i \in 1 .. len |-> eeprom[<<store, i>>]]

calc_crc(bytes) == ByteMod - 1 - (FoldFunction(+, 0, bytes) % ByteMod)

settings_get_call_data ==
  IF eeprom[<<"callHead", 0>>] = SettingsHead THEN Block("call", CallLen) ELSE DefaultCall

\* Up to the first zero.
Strlen(bytes) ==
  Min({i - 1 : i \in {j \in DOMAIN bytes : bytes[j] = 0}} \cup {Len(bytes)})

settings_get_beacon_text ==
  IF eeprom[<<"textHead", 0>>] = TextHead
  THEN LET buf == Block("text", Min({TextBuf - 1, TextMax})) IN SubSeq(buf, 1, Strlen(buf))
  ELSE DefaultText

InUse == [params |-> g_settings,
          call |-> settings_get_call_data,
          text |-> settings_get_beacon_text]

-----------------------------------------------------------------------------
(* Operations.  The main loop runs one at a time, to its end.              *)

HeadSet == [params |-> eeprom[<<"head", 0>>] = SettingsHead,
            call |-> eeprom[<<"callHead", 0>>] = SettingsHead,
            text |-> eeprom[<<"textHead", 0>>] = TextHead]

\* An operation that writes calls, to make the stores hold the values of new.
Start(calls, new) ==
  /\ todo' = calls
  /\ writing' = new
  /\ stored' = [s \in Stores |-> IF s \in DOMAIN new THEN Unknown(HeadSet[s]) ELSE stored[s]]
  /\ UNCHANGED last

Idle == power = "on" /\ todo = << >>

\* Mutant: the checksum is not written.
SaveCalls_CrcMissing(p) ==
  << PutBlock("params", p), Put("head", SettingsHead) >>

\* settings_save()
SaveCalls(p) ==
  << PutBlock("params", p), Put("head", SettingsHead), Put("crc", calc_crc(p)) >>

\* settings_set_params(): one field; settings_set_params_bytes(): all of them.
Changed == {[g_settings EXCEPT ![i] = p[i]] : i \in 1 .. ParamsLen, p \in Params}

\* settings_set_params() or settings_set_params_bytes(), then settings_save().
settings_save ==
  \E p \in Params \cup Changed :
    /\ Idle
    /\ g_settings' = p
    /\ source' = "set"
    /\ Start(SaveCalls(p), [params |-> p])
    /\ UNCHANGED <<eeprom, power>>

\* Mutant: the head byte first.
CallCalls_HeadFirst(c) ==
  << Put("callHead", SettingsHead), PutBlock("call", c) >>

CallCalls(c) ==
  << PutBlock("call", c), Put("callHead", SettingsHead) >>

settings_set_call_data ==
  \E c \in Calls :
    /\ Idle
    /\ Start(CallCalls(c), [call |-> c])
    /\ UNCHANGED <<eeprom, power, g_settings, source>>

TextCalls(t) ==
  << PutBlock("text", t),
     {[cell |-> <<"text", Len(t) + 1>>, byte |-> 0]},
     Put("textHead", TextHead) >>

First(t, n) == SubSeq(t, 1, Min({Len(t), n}))

\* Mutant: no place for the terminator.
ToWrite_OffByOne == TextMax

\* The bytes a text may have.
ToWrite == TextMax - 1

settings_set_beacon_text ==
  \E t \in Texts :
    /\ Idle
    /\ Start(TextCalls(First(t, ToWrite)), [text |-> First(t, Min({ToWrite, TextBuf - 1}))])
    /\ UNCHANGED <<eeprom, power, g_settings, source>>

\* settings_clear()
ClearCalls ==
  << Put("head", Blank), Put("callHead", Blank), Put("textHead", Blank), Put("crc", Blank) >>

\* AT+RESET=2: settings_clear(), then soft_reset(), where nothing happens until
\* the watchdog restarts the station.
cmd_settings_reset ==
  /\ Idle
  /\ power' = "reset"
  /\ Start(ClearCalls, Default)
  /\ UNCHANGED <<eeprom, g_settings, source>>

\* Where a byte goes: one behind the end of a store may hit any other.
Target(cell) == IF cell \in Cells THEN {cell} ELSE Cells

\* One byte of the operation in progress.
Write ==
  /\ todo # << >>
  /\ \E w \in Head(todo) :
       LET rest == Head(todo) \ {w} IN
         /\ \E cell \in Target(w.cell) : eeprom' = [eeprom EXCEPT ![cell] = w.byte]
         /\ todo' = IF rest = {} THEN Tail(todo) ELSE <<rest>> \o Tail(todo)
  /\ IF todo' = << >>
     THEN /\ stored' = [s \in Stores |-> IF s \in DOMAIN writing THEN Known(writing[s]) ELSE stored[s]]
          /\ writing' = << >>
          /\ last' = CASE writing = Default -> << >>
                       [] DOMAIN writing = {"params"} -> writing.params
                       [] OTHER -> last
     ELSE UNCHANGED histVars
  /\ UNCHANGED <<power, g_settings, source>>

-----------------------------------------------------------------------------
(* Power.                                                                  *)

\* Also the end of soft_reset().
PowerFails ==
  /\ power # "off"
  /\ power' = "off"
  /\ todo' = << >>
  /\ writing' = << >>
  /\ g_settings' = DefaultParams
  /\ source' = "default"
  /\ UNCHANGED <<eeprom, stored, last>>

Load_None ==
  /\ power = "off"
  /\ eeprom[<<"head", 0>>] # SettingsHead
  /\ power' = "on"
  /\ UNCHANGED <<eeprom, todo, g_settings, source, histVars>>

\* Mutant: no checksum.
SumOK_Always == TRUE

SumOK == eeprom[<<"crc", 0>>] = calc_crc(Block("params", ParamsLen))

Load_Good ==
  /\ power = "off"
  /\ eeprom[<<"head", 0>>] = SettingsHead
  /\ SumOK
  /\ power' = "on"
  /\ g_settings' = Block("params", ParamsLen)
  /\ source' = "eeprom"
  /\ UNCHANGED <<eeprom, todo, histVars>>

Load_Bad ==
  /\ power = "off"
  /\ eeprom[<<"head", 0>>] = SettingsHead
  /\ ~SumOK
  /\ power' = "on"
  /\ g_settings' = Block("params", ParamsLen)
  /\ source' = "rejected"
  /\ Start(ClearCalls, Default)
  /\ UNCHANGED eeprom

\* init() of main.c: the station starts by settings_load().
settings_load == Load_None \/ Load_Good \/ Load_Bad

Next ==
  \/ settings_save
  \/ settings_set_call_data
  \/ settings_set_beacon_text
  \/ cmd_settings_reset
  \/ Write
  \/ PowerFails
  \/ settings_load

Spec == Init /\ [][Next]_vars

-----------------------------------------------------------------------------
(* Properties.                                                             *)

\* Whatever was stored by an operation that ran to its end is what the station
\* uses from then on, after any number of power failures, also when one hits an
\* operation on another store: nothing that settings_load(),
\* settings_get_call_data() or settings_get_beacon_text() returns is ever older
\* or mixed, and no text is so long that it spills into another store.  The one
\* exception are parameters that fail the checksum: "if sum
\* check failed, clear the setting data" clears the EEPROM, and g_settings keeps them.
Durable ==
  power = "on" =>
    \A s \in Stores :
      stored[s].known /\ ~(s = "params" /\ source = "rejected") =>
        InUse[s] = stored[s].value

\* settings_load() never rejects, and so never clears, settings that were stored
\* by a settings_save() that ran to its end.
NeverRejected ==
  [][source # "rejected" /\ source' = "rejected" => ~stored["params"].known]_vars

\* The sum in the EEPROM after a save of p, or when it is cleared.
SumOf(p) == IF p = << >> THEN Blank ELSE calc_crc(p)

\* settings_load() accepts a block other than the one of the last complete
\* settings_save(), such as one that the power failed in the middle of, only when
\* calc_crc() cannot tell the two.
TornDetected ==
  power = "on" /\ source = "eeprom" => calc_crc(g_settings) = SumOf(last)

\* The head byte is written last: a first call sign or beacon text that is cut
\* short by a power failure is never used in part.  (One that replaces another
\* may be: neither has a checksum.)
FirstWriteWhole ==
  power = "on" =>
    \A s \in {"call", "text"} :
      ~stored[s].known /\ ~stored[s].over => InUse[s] = Default[s]
=============================================================================
