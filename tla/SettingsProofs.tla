--------------------------- MODULE SettingsProofs ---------------------------
(***************************************************************************)
(* For settings, call signs and texts of any length, and a power failure   *)
(* between any two bytes: what settings_load() accepts, what it rejects,   *)
(* that a first call sign or text is never used in part, and that whatever *)
(* an operation that ran to its end has stored is what the station uses    *)
(* from then on.                                                           *)
(*                                                                         *)
(* Nothing is assumed of calc_crc().  The argument is the order of the     *)
(* writes: every operation ends with one write that makes all the others   *)
(* count.  A second invariant says what the writes of one operation amount *)
(* to, and that no other operation touches them.                           *)
(***************************************************************************)
EXTENDS Settings, SequenceTheorems, TLAPS

Blocks == [1 .. ParamsLen -> Byte]

\* What the EEPROM may hold.
Value == Byte \cup {calc_crc(p) : p \in Blocks}

Write1(cell, v) == [cell |-> <<cell, 0>>, byte |-> v]
ParamWrite(i, p) == [cell |-> <<"params", i>>, byte |-> p[i]]
AnyWrite == [cell : Cells, byte : Value]

\* The operation in progress.
IsSave == DOMAIN writing = {"params"} /\ writing.params \in Blocks
IsCall == DOMAIN writing = {"call"}
IsText == DOMAIN writing = {"text"}
IsClear == writing = Default

\* Its last write.
FinalWrite ==
  CASE IsSave -> Write1("crc", calc_crc(writing.params))
    [] IsCall -> Write1("callHead", SettingsHead)
    [] IsText -> Write1("textHead", TextHead)
    [] OTHER -> Write1("crc", Blank)

\* The writes before it.
Earlier(w) ==
  /\ w \in AnyWrite
  /\ IsSave => w = Write1("head", SettingsHead)
                 \/ \E i \in 1 .. ParamsLen : w = ParamWrite(i, writing.params)
  /\ IsCall => w.cell[1] = "call"
  /\ IsText => w.cell[1] = "text"
  /\ IsClear => w \in {Write1(c, Blank) : c \in {"head", "callHead", "textHead"}}

InProgress ==
  todo # << >> =>
    /\ IsSave \/ IsCall \/ IsText \/ IsClear
    /\ todo[Len(todo)] = {FinalWrite}
    /\ \A k \in 1 .. Len(todo) - 1 : \A w \in todo[k] : Earlier(w)

\* A write of the operation is done or still to come.
Pending(w) == \E k \in 1 .. Len(todo) - 1 : w \in todo[k]
Done(w) == eeprom[w.cell] = w.byte \/ Pending(w)

-----------------------------------------------------------------------------

LEMMA Kinds ==
  /\ IsSave => ~IsCall /\ ~IsText /\ ~IsClear
  /\ IsCall => ~IsSave /\ ~IsText /\ ~IsClear
  /\ IsText => ~IsSave /\ ~IsCall /\ ~IsClear
  /\ IsClear => ~IsSave /\ ~IsCall /\ ~IsText
  BY SMTT(30) DEF IsSave, IsCall, IsText, IsClear, Default

LEMMA TextFits ==
  ASSUME NEW t \in Texts
  PROVE  First(t, ToWrite) \in Seq(Byte) /\ Len(First(t, ToWrite)) \in 0 .. TextMax - 1
<1> DEFINE n == Min({Len(t), ToWrite})
<1>1. t \in Seq(Byte) /\ Len(t) \in Nat /\ ToWrite \in Nat /\ ToWrite = TextMax - 1
  <2>1. t \in Seq(Byte \ {0})
    BY TextAssumption
  <2>2. QED
    BY <2>1, TextAssumption DEF ToWrite
<1>2. n \in 0 .. ToWrite /\ n <= Len(t)
  <2>1. \E x \in {Len(t), ToWrite} : \A y \in {Len(t), ToWrite} : x <= y
    BY <1>1
  <2>2. n \in {Len(t), ToWrite} /\ \A y \in {Len(t), ToWrite} : n <= y
    BY <2>1 DEF Min
  <2>3. QED
    BY <1>1, <2>2
<1> HIDE DEF n
<1>3. First(t, ToWrite) = SubSeq(t, 1, n)
  BY DEF First, n
<1>4. QED
  BY <1>1, <1>2, <1>3, SubSeqProperties

\* A write is the last one of its operation, or one of the others.
TypeInv ==
  /\ eeprom \in [Cells -> Value]
  /\ todo \in Seq(SUBSET AnyWrite)

Put1(w) == eeprom' = [eeprom EXCEPT ![w.cell] = w.byte]

WriteFinal ==
  /\ todo # << >> /\ todo' = << >>
  /\ Len(todo) = 1
  /\ FinalWrite \in AnyWrite
  /\ Put1(FinalWrite)

WriteEarlier(w) ==
  /\ Earlier(w)
  /\ Put1(w)
  /\ todo # << >> /\ todo' # << >>
  /\ todo' \in Seq(SUBSET AnyWrite)
  /\ todo'[Len(todo')] = todo[Len(todo)]
  /\ \A k \in 1 .. Len(todo') - 1 : \A v \in todo'[k] : Earlier(v)
  /\ Pending(w)
  /\ \A v : Pending(v)' => Pending(v)
  /\ \A v : v # w /\ Pending(v) => Pending(v)'

LEMMA WriteSteps ==
  ASSUME TypeInv, InProgress, Write
  PROVE  WriteFinal \/ \E w : WriteEarlier(w)
<1>1. todo # << >> /\ Len(todo) \in Nat \ {0} /\ Head(todo) = todo[1]
  BY DEF Write, TypeInv
<1>2. PICK w \in Head(todo) :
        LET rest == Head(todo) \ {w} IN
          /\ \E cell \in Target(w.cell) : eeprom' = [eeprom EXCEPT ![cell] = w.byte]
          /\ todo' = IF rest = {} THEN Tail(todo) ELSE <<rest>> \o Tail(todo)
  BY Zenon DEF Write
<1> DEFINE rest == Head(todo) \ {w}
<1>3. w \in AnyWrite
  BY <1>1, <1>2 DEF TypeInv
<1>4. Put1(w)
  <2>1. w.cell \in Cells
    BY <1>3 DEF AnyWrite
  <2>2. QED
    BY <1>2, <2>1, Zenon DEF Target, Put1
<1>5. CASE Len(todo) = 1
  <2>1. todo[1] = {FinalWrite}
    BY <1>1, <1>5 DEF InProgress
  <2>2. w = FinalWrite /\ rest = {}
    BY <1>1, <1>2, <2>1
  <2>3. todo' = << >>
    BY <1>1, <1>2, <1>5, <2>2 DEF TypeInv
  <2>4. QED
    BY <1>1, <1>3, <1>4, <1>5, <2>2, <2>3 DEF WriteFinal
<1>6. CASE Len(todo) > 1
  <2>1. 1 \in 1 .. Len(todo) - 1
    BY <1>1, <1>6
  <2>2. Earlier(w) /\ Pending(w)
    BY <1>1, <1>2, <2>1 DEF InProgress, Pending
  <2>3. CASE rest = {}
    <3>1. todo' = Tail(todo)
      BY <1>2, <2>3
    <3>2. /\ Len(todo') = Len(todo) - 1 /\ todo' \in Seq(SUBSET AnyWrite)
          /\ \A k \in 1 .. Len(todo') : todo'[k] = todo[k + 1]
      BY <1>1, <3>1 DEF TypeInv
    <3>3. todo' # << >> /\ todo'[Len(todo')] = todo[Len(todo)]
      BY <1>1, <1>6, <3>2
    <3>4. /\ \A k \in 1 .. Len(todo') - 1 : \A v \in todo'[k] : Earlier(v)
          /\ \A v : Pending(v)' => Pending(v)
      <4>1. \A k \in 1 .. Len(todo') - 1 :
              k + 1 \in 1 .. Len(todo) - 1 /\ todo'[k] = todo[k + 1]
        BY <1>1, <1>6, <3>2
      <4>2. \A k \in 1 .. Len(todo') - 1 : \A v \in todo'[k] : Earlier(v)
        BY <1>1, <4>1, Zenon DEF InProgress
      <4>3. \A v : Pending(v)' => Pending(v)
        BY <4>1 DEF Pending
      <4>4. QED
        BY <4>2, <4>3
    <3>5. ASSUME NEW v, v # w, NEW k \in 1 .. Len(todo) - 1, v \in todo[k]
          PROVE  \E j \in 1 .. Len(todo') - 1 : v \in todo'[j]
      <4>1. k # 1
        BY <1>1, <2>3, <3>5
      <4>2. k - 1 \in 1 .. Len(todo') - 1 /\ todo'[k - 1] = todo[k]
        BY <1>1, <3>2, <4>1, SMTT(30)
      <4>3. QED
        BY <3>5, <4>2
    <3>6. QED
      BY <1>1, <1>4, <2>2, <3>2, <3>3, <3>4, <3>5 DEF WriteEarlier, Pending
  <2>4. CASE rest # {}
    <3>1. todo' = <<rest>> \o Tail(todo)
      BY <1>2, <2>4
    <3>2. rest \in SUBSET AnyWrite
      BY <1>1 DEF TypeInv
    <3> HIDE DEF rest
    <3>3. /\ Len(todo') = Len(todo) /\ todo' \in Seq(SUBSET AnyWrite)
          /\ todo'[1] = rest
          /\ \A k \in 2 .. Len(todo) : todo'[k] = todo[k]
      BY <1>1, <3>1, <3>2 DEF TypeInv
    <3>4. todo' # << >> /\ todo'[Len(todo')] = todo[Len(todo)]
      BY <1>1, <1>6, <3>3
    <3>5. \A k \in 1 .. Len(todo') - 1 : \A v \in todo'[k] : v \in todo[k]
      BY <1>1, <1>6, <3>3 DEF rest
    <3>6. \A k \in 1 .. Len(todo') - 1 : \A v \in todo'[k] : Earlier(v)
      BY <1>1, <3>3, <3>5 DEF InProgress
    <3>7. ASSUME NEW v, v # w, NEW k \in 1 .. Len(todo) - 1, v \in todo[k]
          PROVE  v \in todo'[k]
      BY <1>1, <1>6, <3>3, <3>7 DEF rest
    <3>8. /\ \A v : Pending(v)' => Pending(v)
          /\ \A v : v # w /\ Pending(v) => Pending(v)'
      BY <3>3, <3>5, <3>7 DEF Pending
    <3>9. QED
      BY <1>1, <1>4, <2>2, <3>3, <3>4, <3>6, <3>8 DEF WriteEarlier
  <2>5. QED
    BY <2>3, <2>4
<1>7. Len(todo) = 1 \/ Len(todo) > 1
  BY <1>1
<1>8. QED
  BY <1>5, <1>6, <1>7

-----------------------------------------------------------------------------
(* The invariant.                                                          *)

Param(i) == eeprom[<<"params", i>>]
Sum == eeprom[<<"crc", 0>>]
OtherStore == todo # << >> => IsCall \/ IsText

RamInv ==
  /\ g_settings \in Blocks
  /\ \A i \in 1 .. ParamsLen : Param(i) \in Byte
  /\ power = "off" => todo = << >> /\ source # "eeprom"

\* The sum is that of the last complete save.
SumInv == Sum = SumOf(last)

\* What is known to be stored is there, sum included, and nobody is changing it.
KnownInv ==
  stored["params"].known =>
    /\ OtherStore
    /\ stored["params"].value \in Blocks
    /\ \/ eeprom[<<"head", 0>>] # SettingsHead
       \/ /\ Sum = calc_crc(stored["params"].value)
          /\ \A i \in 1 .. ParamsLen : Param(i) = stored["params"].value[i]

\* Of a save, and of a clearing, nothing gets lost.
DoneInv ==
  todo # << >> =>
    /\ IsSave => \A i \in 1 .. ParamsLen : Done(ParamWrite(i, writing.params))
    /\ IsClear => Done(Write1("head", Blank))

\* The settings in use, from settings_load() until they are changed.
LoadedInv ==
  power = "on" /\ source = "eeprom" =>
    calc_crc(g_settings) = SumOf(last) /\ OtherStore

\* A head byte that was not set when the store was changed is not set yet.
HeadInv ==
  /\ ~stored["call"].known /\ ~stored["call"].over => eeprom[<<"callHead", 0>>] # SettingsHead
  /\ ~stored["text"].known /\ ~stored["text"].over => eeprom[<<"textHead", 0>>] # TextHead

IInv ==
  /\ TypeInv /\ InProgress
  /\ RamInv /\ SumInv /\ KnownInv /\ DoneInv /\ LoadedInv /\ HeadInv

LEMMA CellFacts ==
  /\ \A c \in {"head", "crc", "callHead", "textHead"} : <<c, 0>> \in Cells
  /\ \A i \in 1 .. ParamsLen : <<"params", i>> \in Cells
  /\ \A i \in 1 .. CallLen : <<"call", i>> \in Cells
  /\ \A i \in 1 .. TextMax : <<"text", i>> \in Cells
  BY DEF Cells

LEMMA ValueFacts ==
  /\ Byte \subseteq Value /\ Blank \in Byte
  /\ SettingsHead \in Byte /\ TextHead \in Byte
  /\ SettingsHead # Blank /\ TextHead # Blank
  /\ \A p \in Blocks : calc_crc(p) \in Value
  BY ByteAssumption DEF Value, Byte, Blank

LEMMA BlockFacts ==
  /\ DefaultParams \in Blocks /\ Params \subseteq Blocks
  /\ \A p \in Blocks : p # << >> /\ SumOf(p) = calc_crc(p)
<1>1. DefaultParams \in Blocks /\ Params \subseteq Blocks
  BY ParamsAssumption DEF Blocks
<1>2. ASSUME NEW p \in Blocks
      PROVE  p # << >>
  <2>1. 1 \in DOMAIN p
    BY ParamsAssumption DEF Blocks
  <2>2. DOMAIN << >> = {}
    OBVIOUS
  <2>3. QED
    BY <2>1, <2>2
<1>3. QED
  BY <1>1, <1>2 DEF SumOf

LEMMA InitIInv == Init => IInv
<1> SUFFICES ASSUME Init
             PROVE  IInv
  OBVIOUS
<1>1. todo = << >> /\ last = << >> /\ power = "off" /\ g_settings = DefaultParams
      /\ source = "default"
  BY DEF Init
<1>2. \A c \in Cells : eeprom[c] = Blank
  BY DEF Init
<1>3. TypeInv
  <2>1. eeprom \in [Cells -> Value]
    BY ValueFacts DEF Init
  <2>2. << >> \in Seq(SUBSET AnyWrite)
    OBVIOUS
  <2>3. QED
    BY <1>1, <2>1, <2>2 DEF TypeInv
<1>4. InProgress /\ DoneInv
  BY <1>1 DEF InProgress, DoneInv
<1>5. RamInv /\ LoadedInv
  BY <1>1, <1>2, CellFacts, ValueFacts, BlockFacts DEF RamInv, LoadedInv, Param
<1>6. SumInv
  BY <1>1, <1>2, CellFacts DEF SumInv, Sum, SumOf
<1>7. KnownInv
  <2>1. stored["params"] = Known(DefaultParams)
    BY DEF Init, Stores, Default
  <2>2. QED
    BY <1>1, <1>2, <2>1, CellFacts, ValueFacts, BlockFacts DEF KnownInv, OtherStore, Known
<1>8. HeadInv
  BY <1>2, CellFacts, ValueFacts DEF HeadInv
<1>9. QED
  BY <1>3, <1>4, <1>5, <1>6, <1>7, <1>8 DEF IInv

-----------------------------------------------------------------------------
(* The start of an operation.                                              *)

\* What Start() does to the stores.
LEMMA StartStores ==
  ASSUME NEW calls, NEW new, Start(calls, new)
  PROVE  /\ todo' = calls /\ writing' = new /\ last' = last
         /\ \A s \in Stores :
              /\ s \in DOMAIN new => stored'[s] = Unknown(HeadSet[s])
              /\ s \notin DOMAIN new => stored'[s] = stored[s]
  BY DEF Start

LEMMA StartHeads ==
  ASSUME HeadInv, eeprom' = eeprom, NEW calls, NEW new, Start(calls, new)
  PROVE  HeadInv'
<1>1. stored'["call"] = Unknown(HeadSet["call"]) \/ stored'["call"] = stored["call"]
  BY StartStores DEF Stores
<1>2. stored'["text"] = Unknown(HeadSet["text"]) \/ stored'["text"] = stored["text"]
  BY StartStores DEF Stores
<1>3. /\ HeadSet["call"] = (eeprom[<<"callHead", 0>>] = SettingsHead)
      /\ HeadSet["text"] = (eeprom[<<"textHead", 0>>] = TextHead)
  BY DEF HeadSet
<1>4. \A b : Unknown(b).over = b
  BY DEF Unknown
<1>5. ~stored'["call"].known /\ ~stored'["call"].over => eeprom[<<"callHead", 0>>] # SettingsHead
  BY <1>1, <1>3, <1>4, Zenon DEF HeadInv
<1>6. ~stored'["text"].known /\ ~stored'["text"].over => eeprom[<<"textHead", 0>>] # TextHead
  BY <1>2, <1>3, <1>4, Zenon DEF HeadInv
<1>7. QED
  BY <1>5, <1>6 DEF HeadInv

LEMMA SaveStart ==
  ASSUME IInv, Idle, NEW p \in Blocks, g_settings' = p, source' = "set",
         Start(SaveCalls(p), [params |-> p]), UNCHANGED <<eeprom, power>>
  PROVE  IInv'
<1>1. /\ todo' = SaveCalls(p) /\ writing' = [params |-> p] /\ last' = last
      /\ stored'["params"] = Unknown(HeadSet["params"])
  BY StartStores DEF Stores
<1>2. writing'.params = p /\ IsSave' /\ ~IsCall' /\ ~IsText' /\ ~IsClear'
  BY <1>1 DEF IsSave, IsCall, IsText, IsClear, Default
<1>3. FinalWrite' = Write1("crc", calc_crc(p))
  BY <1>2 DEF FinalWrite
<1>4. /\ Len(todo') = 3 /\ todo' # << >>
      /\ todo'[1] = PutBlock("params", p)
      /\ todo'[2] = {Write1("head", SettingsHead)}
      /\ todo'[3] = {Write1("crc", calc_crc(p))}
  BY <1>1 DEF SaveCalls, Put, Write1
<1>5. PutBlock("params", p) = {ParamWrite(i, p) : i \in 1 .. ParamsLen}
  BY DEF PutBlock, ParamWrite, Blocks
<1>6. /\ \A i \in 1 .. ParamsLen : ParamWrite(i, p) \in AnyWrite
      /\ Write1("head", SettingsHead) \in AnyWrite /\ Write1("crc", calc_crc(p)) \in AnyWrite
  BY CellFacts, ValueFacts DEF ParamWrite, Write1, AnyWrite, Blocks
<1>7. TypeInv'
  <2>1. /\ PutBlock("params", p) \in SUBSET AnyWrite
        /\ Put("head", SettingsHead) \in SUBSET AnyWrite
        /\ Put("crc", calc_crc(p)) \in SUBSET AnyWrite
    BY <1>5, <1>6 DEF Put, Write1
  <2>2. SaveCalls(p) \in Seq(SUBSET AnyWrite)
    BY <2>1 DEF SaveCalls
  <2>3. QED
    BY <1>1, <2>2 DEF IInv, TypeInv
<1>8. InProgress'
  <2>1. \A i \in 1 .. ParamsLen : Earlier(ParamWrite(i, p))'
    BY <1>2, <1>6 DEF Earlier, AnyWrite, Value, Cells
  <2>2. Earlier(Write1("head", SettingsHead))'
    BY <1>2, <1>6 DEF Earlier, AnyWrite, Value, Cells
  <2>3. \A k \in 1 .. 2 : \A w \in todo'[k] : Earlier(w)'
    BY <1>4, <1>5, <2>1, <2>2, SMTT(30)
  <2>4. QED
    BY <1>2, <1>3, <1>4, <2>3 DEF InProgress
<1>9. DoneInv'
  BY <1>2, <1>4, <1>5 DEF DoneInv, Done, Pending
<1>10. RamInv' /\ SumInv' /\ LoadedInv'
  BY <1>1 DEF IInv, RamInv, SumInv, LoadedInv, Param, Sum, SumOf, Idle
<1>11. KnownInv'
  BY <1>1 DEF KnownInv, Unknown
<1>12. HeadInv'
  BY StartHeads DEF IInv
<1>13. QED
  BY <1>7, <1>8, <1>9, <1>10, <1>11, <1>12 DEF IInv

LEMMA CallStart ==
  ASSUME IInv, Idle, NEW c \in Calls, Start(CallCalls(c), [call |-> c]),
         UNCHANGED <<eeprom, power, g_settings, source>>
  PROVE  IInv'
<1>1. /\ todo' = CallCalls(c) /\ writing' = [call |-> c] /\ last' = last
      /\ stored'["params"] = stored["params"] /\ todo = << >>
  BY StartStores DEF Stores, Idle
<1>2. ~IsSave' /\ IsCall' /\ ~IsText' /\ ~IsClear'
  BY <1>1, Zenon DEF IsSave, IsCall, IsText, IsClear, Default
<1>3. FinalWrite' = Write1("callHead", SettingsHead)
  BY <1>2 DEF FinalWrite
<1>4. /\ Len(todo') = 2 /\ todo' # << >>
      /\ todo'[1] = PutBlock("call", c)
      /\ todo'[2] = {Write1("callHead", SettingsHead)}
  BY <1>1 DEF CallCalls, Put, Write1
<1>5. \A w \in PutBlock("call", c) : w \in AnyWrite /\ w.cell[1] = "call"
  <2>1. \A i \in DOMAIN c : i \in 1 .. CallLen /\ c[i] \in Byte
    <3>1. c \in [1 .. CallLen -> Byte]
      BY CallAssumption
    <3>2. QED
      BY <3>1
  <2>2. QED
    BY <2>1, CellFacts, ValueFacts DEF PutBlock, AnyWrite
<1>6. TypeInv'
  <2>1. /\ PutBlock("call", c) \in SUBSET AnyWrite
        /\ Put("callHead", SettingsHead) \in SUBSET AnyWrite
    BY <1>5, CellFacts, ValueFacts DEF Put, AnyWrite
  <2>2. CallCalls(c) \in Seq(SUBSET AnyWrite)
    BY <2>1 DEF CallCalls
  <2>3. QED
    BY <1>1, <2>2 DEF IInv, TypeInv
<1>7. InProgress'
  <2>1. \A w \in PutBlock("call", c) : Earlier(w)'
    BY <1>2, <1>5 DEF Earlier, AnyWrite, Value, Cells
  <2>2. \A k \in 1 .. 1 : \A w \in todo'[k] : Earlier(w)'
    BY <1>4, <2>1
  <2>3. QED
    BY <1>2, <1>3, <1>4, <2>2 DEF InProgress
<1>8. DoneInv'
  BY <1>2 DEF DoneInv
<1>9. RamInv' /\ SumInv' /\ LoadedInv'
  BY <1>1, <1>2, Zenon DEF IInv, RamInv, SumInv, LoadedInv, OtherStore, Param, Sum, SumOf, Idle
<1>10. KnownInv'
  BY <1>1, <1>2 DEF IInv, KnownInv, OtherStore, Sum, Param
<1>11. HeadInv'
  BY StartHeads DEF IInv
<1>12. QED
  BY <1>6, <1>7, <1>8, <1>9, <1>10, <1>11 DEF IInv

LEMMA TextStart ==
  ASSUME IInv, Idle, NEW t \in Texts, NEW v,
         Start(TextCalls(First(t, ToWrite)), [text |-> v]),
         UNCHANGED <<eeprom, power, g_settings, source>>
  PROVE  IInv'
<1> DEFINE f == First(t, ToWrite)
<1>1. /\ todo' = TextCalls(f) /\ writing' = [text |-> v] /\ last' = last
      /\ stored'["params"] = stored["params"] /\ todo = << >>
  BY StartStores DEF Stores, Idle
<1>2. f \in Seq(Byte) /\ Len(f) \in 0 .. TextMax - 1
  BY TextFits, Zenon
<1> HIDE DEF f
<1>3. ~IsSave' /\ ~IsCall' /\ IsText' /\ ~IsClear'
  BY <1>1 DEF IsSave, IsCall, IsText, IsClear, Default
<1>4. FinalWrite' = Write1("textHead", TextHead)
  BY <1>3 DEF FinalWrite
<1> DEFINE zero == [cell |-> <<"text", Len(f) + 1>>, byte |-> 0]
<1>5. /\ Len(todo') = 3 /\ todo' # << >>
      /\ todo'[1] = PutBlock("text", f)
      /\ todo'[2] = {zero}
      /\ todo'[3] = {Write1("textHead", TextHead)}
  BY <1>1 DEF TextCalls, Put, Write1
<1>6. \A w \in PutBlock("text", f) : w \in AnyWrite /\ w.cell[1] = "text"
  <2>1. \A i \in DOMAIN f : i \in 1 .. TextMax /\ f[i] \in Byte
    BY <1>2, TextAssumption
  <2>2. QED
    BY <2>1, CellFacts, ValueFacts DEF PutBlock, AnyWrite
<1>7. zero \in AnyWrite /\ zero.cell[1] = "text"
  <2>1. Len(f) + 1 \in 1 .. TextMax
    BY <1>2, TextAssumption
  <2>2. 0 \in Byte
    BY ByteAssumption DEF Byte
  <2>3. QED
    BY <2>1, <2>2, CellFacts, ValueFacts DEF AnyWrite
<1> HIDE DEF zero
<1>8. TypeInv'
  <2>1. /\ PutBlock("text", f) \in SUBSET AnyWrite
        /\ {zero} \in SUBSET AnyWrite
        /\ Put("textHead", TextHead) \in SUBSET AnyWrite
    BY <1>6, <1>7, CellFacts, ValueFacts DEF Put, AnyWrite
  <2>2. TextCalls(f) \in Seq(SUBSET AnyWrite)
    BY <2>1 DEF TextCalls, zero
  <2>3. QED
    BY <1>1, <2>2 DEF IInv, TypeInv
<1>9. InProgress'
  <2>1. \A w \in PutBlock("text", f) : Earlier(w)'
    BY <1>3, <1>6, Zenon DEF Earlier, AnyWrite, Value, Cells
  <2>2. Earlier(zero)'
    BY <1>3, <1>7 DEF Earlier, AnyWrite, Value, Cells
  <2>3. \A k \in 1 .. 2 : \A w \in todo'[k] : Earlier(w)'
    BY <1>5, <2>1, <2>2
  <2>4. QED
    BY <1>3, <1>4, <1>5, <2>3, SMTT(30) DEF InProgress
<1>10. DoneInv'
  BY <1>3, Zenon DEF DoneInv
<1>11. RamInv' /\ SumInv' /\ LoadedInv'
  BY <1>1, <1>3, Zenon DEF IInv, RamInv, SumInv, LoadedInv, OtherStore, Param, Sum, SumOf, Idle
<1>12. KnownInv'
  BY <1>1, <1>3 DEF IInv, KnownInv, OtherStore, Sum, Param
<1>13. HeadInv'
  BY StartHeads DEF IInv
<1>14. QED
  BY <1>8, <1>9, <1>10, <1>11, <1>12, <1>13 DEF IInv

\* settings_clear(), from AT+RESET=2 or from settings_load().
LEMMA ClearStart ==
  ASSUME IInv, todo = << >>, Start(ClearCalls, Default), eeprom' = eeprom,
         g_settings' \in Blocks, power' \in {"on", "reset"},
         power' = "on" => source' # "eeprom"
  PROVE  IInv'
<1>1. /\ todo' = ClearCalls /\ writing' = Default /\ last' = last
      /\ stored'["params"] = Unknown(HeadSet["params"])
  BY StartStores DEF Stores, Default
<1>2. ~IsSave' /\ ~IsCall' /\ ~IsText' /\ IsClear'
  <2>1. DOMAIN writing' = {"params", "call", "text"}
    BY <1>1 DEF Default
  <2>2. "params" \in DOMAIN writing' /\ "call" \in DOMAIN writing'
    BY <2>1
  <2>3. ~IsSave' /\ ~IsCall' /\ ~IsText'
    BY <2>2 DEF IsSave, IsCall, IsText
  <2>4. IsClear'
    BY <1>1, Zenon DEF IsClear, Default
  <2>5. QED
    BY <2>3, <2>4
<1>3. FinalWrite' = Write1("crc", Blank)
  BY <1>2 DEF FinalWrite, Write1, Blank
<1> DEFINE Heads == {"head", "callHead", "textHead"}
<1>4. /\ Len(todo') = 4 /\ todo' # << >>
      /\ todo'[1] = {Write1("head", Blank)}
      /\ todo'[2] = {Write1("callHead", Blank)}
      /\ todo'[3] = {Write1("textHead", Blank)}
      /\ todo'[4] = {Write1("crc", Blank)}
  BY <1>1 DEF ClearCalls, Put, Write1
<1>5. /\ \A c \in Heads : Write1(c, Blank) \in AnyWrite
      /\ Write1("crc", Blank) \in AnyWrite
  BY CellFacts, ValueFacts DEF Write1, AnyWrite
<1>6. TypeInv'
  <2>1. \A c \in Heads \cup {"crc"} : Put(c, Blank) \in SUBSET AnyWrite
    BY <1>5 DEF Put, Write1
  <2>2. ClearCalls \in Seq(SUBSET AnyWrite)
    BY <2>1 DEF ClearCalls
  <2>3. QED
    BY <1>1, <2>2 DEF IInv, TypeInv
<1>7. InProgress'
  <2>1. \A c \in Heads : Earlier(Write1(c, Blank))'
    BY <1>2, <1>5 DEF Earlier, AnyWrite, Value, Cells, Blank, Byte, Write1
  <2>2. \A k \in 1 .. 3 : \A w \in todo'[k] : Earlier(w)'
    BY <1>4, <2>1
  <2>3. QED
    BY <1>2, <1>3, <1>4, <2>2, SMTT(30) DEF InProgress
<1>8. DoneInv'
  BY <1>2, <1>4 DEF DoneInv, Done, Pending, Blank
<1>9. RamInv' /\ SumInv' /\ LoadedInv'
  BY <1>1 DEF IInv, RamInv, SumInv, LoadedInv, Param, Sum, SumOf
<1>10. KnownInv'
  BY <1>1 DEF KnownInv, Unknown
<1>11. HeadInv'
  BY StartHeads DEF IInv
<1>12. QED
  BY <1>6, <1>7, <1>8, <1>9, <1>10, <1>11, Zenon DEF IInv

-----------------------------------------------------------------------------
(* A write.                                                                *)

\* What a write changes in the EEPROM.
LEMMA PutEffect ==
  ASSUME TypeInv, NEW w \in AnyWrite, Put1(w)
  PROVE  /\ eeprom' \in [Cells -> Value]
         /\ \A c \in Cells : eeprom'[c] = IF c = w.cell THEN w.byte ELSE eeprom[c]
  BY DEF TypeInv, Put1, AnyWrite

\* A write of the operation is not undone by another.
LEMMA DoneKeeps ==
  ASSUME TypeInv, NEW w \in AnyWrite, WriteEarlier(w),
         NEW v \in AnyWrite, Done(v), w.cell = v.cell => w = v
  PROVE  Done(v)'
<1>1. \A c \in Cells : eeprom'[c] = IF c = w.cell THEN w.byte ELSE eeprom[c]
  BY PutEffect DEF WriteEarlier
<1>2. CASE w = v
  BY <1>1, <1>2 DEF Done, AnyWrite
<1>3. CASE w # v
  <2>1. v.cell \in Cells /\ eeprom'[v.cell] = eeprom[v.cell]
    BY <1>1, <1>3 DEF AnyWrite
  <2>2. QED
    BY <1>3, <2>1 DEF Done, WriteEarlier
<1>4. QED
  BY <1>2, <1>3, Zenon

LEMMA EarlierKeeps ==
  ASSUME IInv, NEW w, WriteEarlier(w), UNCHANGED <<histVars, power, g_settings, source>>
  PROVE  IInv'
<1>1. w \in AnyWrite /\ Earlier(w) /\ todo # << >> /\ todo' # << >>
  BY Zenon DEF WriteEarlier, Earlier
<1>2. /\ eeprom' \in [Cells -> Value]
      /\ \A c \in Cells : eeprom'[c] = IF c = w.cell THEN w.byte ELSE eeprom[c]
  BY <1>1, PutEffect DEF IInv, WriteEarlier
<1>3. UNCHANGED <<writing, stored, last>>
  BY DEF histVars
<1>4. IsSave \/ IsCall \/ IsText \/ IsClear
  BY <1>1 DEF IInv, InProgress
<1>5. /\ IsSave' <=> IsSave
      /\ IsCall' <=> IsCall
      /\ IsText' <=> IsText
      /\ IsClear' <=> IsClear
  BY <1>3 DEF IsSave, IsCall, IsText, IsClear, Default, Blocks, Byte
<1>6. FinalWrite' = FinalWrite /\ \A v : Earlier(v)' <=> Earlier(v)
  <2>1. FinalWrite' = FinalWrite
    BY <1>3, <1>5 DEF FinalWrite, Write1, Blank
  <2>2. \A v : Earlier(v)' <=> Earlier(v)
    BY <1>3, <1>5 DEF Earlier
  <2>3. QED
    BY <2>1, <2>2
<1>7. w.cell # <<"crc", 0>>
  BY <1>1, <1>4 DEF Earlier, Write1, ParamWrite
<1>8. IsCall \/ IsText =>
        w.cell # <<"head", 0>> /\ \A i \in 1 .. ParamsLen : w.cell # <<"params", i>>
  BY <1>1, SMTT(30) DEF Earlier
<1>9. TypeInv'
  BY <1>2 DEF TypeInv, WriteEarlier
<1>10. InProgress'
  <2>1. todo'[Len(todo')] = {FinalWrite}
    BY <1>1 DEF IInv, InProgress, WriteEarlier
  <2>2. \A k \in 1 .. Len(todo') - 1 : \A v \in todo'[k] : Earlier(v)'
    BY <1>6 DEF WriteEarlier
  <2>3. QED
    BY <1>4, <1>5, <1>6, <2>1, <2>2 DEF InProgress
<1>11. RamInv'
  <2>1. \A i \in 1 .. ParamsLen : w.cell = <<"params", i>> => w.byte \in Byte
    <3>1. CASE IsSave
      <4>1. \A i \in 1 .. ParamsLen : ParamWrite(i, writing.params).byte \in Byte
        BY <3>1, Zenon DEF IsSave, Blocks, ParamWrite
      <4>2. Write1("head", SettingsHead).byte \in Byte
        BY ValueFacts DEF Write1
      <4>3. QED
        BY <1>1, <3>1, <4>1, <4>2 DEF Earlier
    <3>2. CASE IsClear
      BY <1>1, <3>2, ValueFacts DEF Earlier, Write1
    <3>3. CASE IsCall \/ IsText
      BY <1>8, <3>3
    <3>4. QED
      BY <1>4, <3>1, <3>2, <3>3
  <2>2. \A i \in 1 .. ParamsLen : Param(i)' \in Byte
    BY <1>2, <2>1, CellFacts, Zenon DEF IInv, RamInv, Param
  <2>3. QED
    BY <1>1, <2>2 DEF IInv, RamInv
<1>12. Sum' = Sum
  BY <1>2, <1>7, CellFacts DEF Sum
<1>13. SumInv' /\ LoadedInv'
  BY <1>1, <1>3, <1>5, <1>12, Zenon DEF IInv, SumInv, LoadedInv, OtherStore, SumOf
<1>14. KnownInv'
  <2> SUFFICES ASSUME stored["params"].known
               PROVE  KnownInv'
    BY <1>3, Zenon DEF KnownInv
  <2>1. IsCall \/ IsText
    BY <1>1 DEF IInv, KnownInv, OtherStore
  <2>2. /\ eeprom'[<<"head", 0>>] = eeprom[<<"head", 0>>]
        /\ \A i \in 1 .. ParamsLen : Param(i)' = Param(i)
    BY <1>2, <1>8, <2>1, CellFacts DEF Param
  <2>3. QED
    BY <1>3, <1>5, <1>12, <2>1, <2>2 DEF IInv, KnownInv, OtherStore
<1>15. DoneInv'
  <2>1. ASSUME NEW v \in AnyWrite, Done(v), w.cell = v.cell => w = v
        PROVE  Done(v)'
    BY <1>1, <2>1, DoneKeeps, Zenon DEF IInv
  <2>2. ASSUME IsSave, NEW i \in 1 .. ParamsLen
        PROVE  Done(ParamWrite(i, writing.params))'
    <3>1. ParamWrite(i, writing.params) \in AnyWrite
      BY <2>2, CellFacts, ValueFacts, Zenon DEF IsSave, ParamWrite, AnyWrite, Blocks
    <3>2. w.cell = <<"params", i>> => w = ParamWrite(i, writing.params)
      BY <1>1, <2>2 DEF Earlier, ParamWrite, Write1
    <3>3. Done(ParamWrite(i, writing.params))
      BY <1>1, <2>2 DEF IInv, DoneInv
    <3>4. ParamWrite(i, writing.params).cell = <<"params", i>>
      BY DEF ParamWrite
    <3>5. (ParamWrite(i, writing.params))' = ParamWrite(i, writing.params)
      BY <1>3, Zenon DEF ParamWrite
    <3>6. QED
      BY <2>1, <3>1, <3>2, <3>3, <3>4, <3>5, Zenon DEF Done, Pending
  <2>3. ASSUME IsClear
        PROVE  Done(Write1("head", Blank))'
    <3>1. Write1("head", Blank) \in AnyWrite
      BY CellFacts, ValueFacts, Zenon DEF Write1, AnyWrite
    <3>2. w.cell = <<"head", 0>> => w = Write1("head", Blank)
      BY <1>1, <2>3 DEF Earlier, Write1
    <3>3. Done(Write1("head", Blank))
      BY <1>1, <2>3 DEF IInv, DoneInv
    <3>4. Write1("head", Blank).cell = <<"head", 0>>
      BY Zenon DEF Write1
    <3>5. QED
      BY <2>1, <3>1, <3>2, <3>3, <3>4 DEF Done, Pending, Blank
  <2>4. QED
    BY <1>5, <2>2, <2>3 DEF DoneInv
<1>16. HeadInv'
  <2>1. /\ w.cell = <<"callHead", 0>> => w.byte = Blank
        /\ w.cell = <<"textHead", 0>> => w.byte = Blank
    BY <1>1, <1>4 DEF Earlier, Write1, ParamWrite
  <2>2. QED
    BY <1>2, <1>3, <2>1, CellFacts, ValueFacts DEF IInv, HeadInv
<1>17. QED
  BY <1>9, <1>10, <1>11, <1>13, <1>14, <1>15, <1>16 DEF IInv

LEMMA FinalKeeps ==
  ASSUME IInv, WriteFinal,
         stored' = [s \in Stores |-> IF s \in DOMAIN writing THEN Known(writing[s]) ELSE stored[s]],
         last' = CASE writing = Default -> << >>
                   [] DOMAIN writing = {"params"} -> writing.params
                   [] OTHER -> last,
         UNCHANGED <<power, g_settings, source>>
  PROVE  IInv'
<1> DEFINE w == FinalWrite
<1>1. todo # << >> /\ todo' = << >> /\ Len(todo) = 1 /\ w \in AnyWrite
  BY DEF WriteFinal
<1>2. /\ eeprom' \in [Cells -> Value]
      /\ \A c \in Cells : eeprom'[c] = IF c = w.cell THEN w.byte ELSE eeprom[c]
  BY <1>1, PutEffect DEF IInv, WriteFinal
<1> HIDE DEF w
<1>3. IsSave \/ IsCall \/ IsText \/ IsClear
  BY <1>1 DEF IInv, InProgress
<1>4. /\ IsSave => w = Write1("crc", calc_crc(writing.params))
      /\ IsCall => w = Write1("callHead", SettingsHead)
      /\ IsText => w = Write1("textHead", TextHead)
      /\ IsClear => w = Write1("crc", Blank)
  BY Kinds DEF FinalWrite, w
<1>5. w.cell \in {<<"crc", 0>>, <<"callHead", 0>>, <<"textHead", 0>>}
  BY <1>3, <1>4 DEF Write1
<1>6. /\ \A i \in 1 .. ParamsLen : Param(i)' = Param(i)
      /\ eeprom'[<<"head", 0>>] = eeprom[<<"head", 0>>]
  BY <1>2, <1>5, CellFacts DEF Param
<1>7. TypeInv' /\ InProgress' /\ DoneInv'
  <2>1. << >> \in Seq(SUBSET AnyWrite)
    OBVIOUS
  <2>2. QED
    BY <1>1, <1>2, <2>1 DEF TypeInv, InProgress, DoneInv
<1>8. RamInv'
  BY <1>1, <1>6, Zenon DEF IInv, RamInv
<1>9. /\ IsSave => /\ last' = writing.params
                   /\ stored'["params"] = Known(writing.params)
                   /\ stored'["call"] = stored["call"] /\ stored'["text"] = stored["text"]
      /\ IsCall => /\ last' = last
                   /\ stored'["params"] = stored["params"] /\ stored'["text"] = stored["text"]
                   /\ stored'["call"].known
      /\ IsText => /\ last' = last
                   /\ stored'["params"] = stored["params"] /\ stored'["call"] = stored["call"]
                   /\ stored'["text"].known
      /\ IsClear => /\ last' = << >>
                    /\ stored'["params"] = Known(DefaultParams)
                    /\ stored'["call"].known /\ stored'["text"].known
  <2>1. CASE IsSave
    BY <2>1, Kinds DEF IsSave, IsClear, Stores
  <2>2. CASE IsCall
    BY <2>2, Kinds DEF IsCall, IsClear, Stores, Known
  <2>3. CASE IsText
    BY <2>3, Kinds DEF IsText, IsClear, Stores, Known
  <2>4. CASE IsClear
    <3>1. /\ DOMAIN writing = Stores /\ writing["params"] = DefaultParams
          /\ "params" \in Stores /\ "call" \in Stores /\ "text" \in Stores
      BY <2>4 DEF IsClear, Stores, Default
    <3>2. last' = << >>
      <4>1. DOMAIN writing # {"params"}
        BY <3>1 DEF Stores
      <4>2. QED
        BY <2>4, <4>1 DEF IsClear
    <3>3. \A s \in Stores : stored'[s] = Known(writing[s])
      BY <3>1
    <3>4. stored'["params"] = Known(DefaultParams) /\ stored'["call"].known /\ stored'["text"].known
      BY <3>1, <3>3, Zenon DEF Known
    <3>5. QED
      BY <2>4, <3>2, <3>4, Kinds
  <2>5. QED
    BY <1>3, <2>1, <2>2, <2>3, <2>4, Kinds
<1>10. SumInv'
  <2>1. CASE IsSave
    BY <1>2, <1>4, <1>9, <2>1, CellFacts, BlockFacts DEF SumInv, Sum, Write1, IsSave
  <2>2. CASE IsClear
    BY <1>2, <1>4, <1>9, <2>2, CellFacts DEF SumInv, Sum, SumOf, Write1, Blank
  <2>3. CASE IsCall \/ IsText
    BY <1>2, <1>4, <1>9, <2>3, CellFacts DEF IInv, SumInv, Sum, SumOf, Write1, Blank
  <2>4. QED
    BY <1>3, <2>1, <2>2, <2>3
<1>11. KnownInv'
  <2>1. CASE IsSave
    <3>1. ASSUME NEW i \in 1 .. ParamsLen
          PROVE  Param(i) = writing.params[i]
      <4>1. Done(ParamWrite(i, writing.params))
        BY <1>1, <2>1 DEF IInv, DoneInv
      <4>2. QED
        BY <1>1, <4>1 DEF Done, Pending, ParamWrite, Param
    <3>2. Sum' = calc_crc(writing.params)
      BY <1>2, <1>4, <2>1, CellFacts DEF Sum, Write1
    <3>3. QED
      BY <1>1, <1>6, <1>9, <2>1, <3>1, <3>2 DEF KnownInv, OtherStore, Known, IsSave
  <2>2. CASE IsClear
    <3>1. eeprom[<<"head", 0>>] = Blank
      <4>1. Done(Write1("head", Blank))
        BY <1>1, <2>2 DEF IInv, DoneInv
      <4>2. QED
        BY <1>1, <4>1 DEF Done, Pending, Write1
    <3>2. QED
      BY <1>1, <1>6, <1>9, <2>2, <3>1, BlockFacts, ValueFacts DEF KnownInv, OtherStore, Known
  <2>3. CASE IsCall \/ IsText
    <3>1. Sum' = Sum
      BY <1>2, <1>4, <2>3, CellFacts DEF Sum, Write1
    <3>2. QED
      BY <1>1, <1>6, <1>9, <2>3, <3>1 DEF IInv, KnownInv, OtherStore
  <2>4. QED
    BY <1>3, <2>1, <2>2, <2>3
<1>12. LoadedInv'
  <2> SUFFICES ASSUME power = "on", source = "eeprom"
               PROVE  calc_crc(g_settings) = SumOf(last) /\ last' = last
    BY <1>1 DEF LoadedInv, OtherStore, SumOf
  <2>1. IsCall \/ IsText
    BY <1>1 DEF IInv, LoadedInv, OtherStore
  <2>2. QED
    BY <1>9, <2>1 DEF IInv, LoadedInv
<1>13. HeadInv'
  <2>1. CASE IsSave \/ IsClear
    BY <1>2, <1>4, <1>9, <2>1, CellFacts DEF IInv, HeadInv, Write1
  <2>2. CASE IsCall
    BY <1>2, <1>4, <1>9, <2>2, CellFacts DEF IInv, HeadInv, Write1
  <2>3. CASE IsText
    BY <1>2, <1>4, <1>9, <2>3, CellFacts DEF IInv, HeadInv, Write1
  <2>4. QED
    BY <1>3, <2>1, <2>2, <2>3
<1>14. QED
  BY <1>7, <1>8, <1>10, <1>11, <1>12, <1>13 DEF IInv

LEMMA WriteKeeps == IInv /\ Write => IInv'
<1> SUFFICES ASSUME IInv, Write
             PROVE  IInv'
  OBVIOUS
<1>1. WriteFinal \/ \E w : WriteEarlier(w)
  BY WriteSteps DEF IInv
<1>2. CASE WriteFinal
  <2>1. todo' = << >>
    BY <1>2 DEF WriteFinal
  <2>2. QED
    BY <1>2, <2>1, FinalKeeps, Zenon DEF Write
<1>3. ASSUME NEW w, WriteEarlier(w)
      PROVE  IInv'
  <2>1. todo' # << >>
    BY <1>3 DEF WriteEarlier
  <2>2. UNCHANGED <<histVars, power, g_settings, source>>
    BY <2>1 DEF Write
  <2>3. QED
    BY <1>3, <2>2, EarlierKeeps
<1>4. QED
  BY <1>1, <1>2, <1>3

-----------------------------------------------------------------------------
(* Power, and all together.                                                *)

\* What settings_load() reads.
LEMMA BlockRead ==
  ASSUME IInv
  PROVE  Block("params", ParamsLen) \in Blocks
  BY DEF IInv, RamInv, Param, Block, Blocks

\* settings_set_params() keeps the settings a block of bytes.
LEMMA ChangedIsBlock ==
  ASSUME g_settings \in Blocks, NEW p \in Params \cup Changed
  PROVE  p \in Blocks
<1>1. CASE p \in Params
  BY <1>1, ParamsAssumption DEF Blocks
<1>2. CASE p \in Changed
  <2>1. PICK i \in 1 .. ParamsLen, q \in Params : p = [g_settings EXCEPT ![i] = q[i]]
    BY <1>2 DEF Changed
  <2>2. q \in Blocks
    BY ParamsAssumption DEF Blocks
  <2>3. QED
    BY <2>1, <2>2 DEF Blocks
<1>3. QED
  BY <1>1, <1>2

\* What settings_load() reads is what is known to be stored.
LEMMA KnownBlock ==
  ASSUME KnownInv, stored["params"].known, eeprom[<<"head", 0>>] = SettingsHead
  PROVE  /\ Block("params", ParamsLen) = stored["params"].value
         /\ Sum = calc_crc(stored["params"].value)
<1>1. /\ Sum = calc_crc(stored["params"].value)
      /\ \A i \in 1 .. ParamsLen : Param(i) = stored["params"].value[i]
      /\ stored["params"].value \in Blocks
  BY DEF KnownInv
<1>2. Block("params", ParamsLen) = stored["params"].value
  BY <1>1, Zenon DEF Block, Blocks, Param
<1>3. QED
  BY <1>1, <1>2, Zenon

LEMMA NextIInv == IInv /\ [Next]_vars => IInv'
<1> SUFFICES ASSUME IInv, [Next]_vars
             PROVE  IInv'
  OBVIOUS
<1>1. CASE settings_save
  <2>1. PICK p \in Params \cup Changed :
          /\ Idle /\ g_settings' = p /\ source' = "set"
          /\ Start(SaveCalls(p), [params |-> p])
          /\ UNCHANGED <<eeprom, power>>
    BY <1>1 DEF settings_save
  <2>2. p \in Blocks
    BY ChangedIsBlock DEF IInv, RamInv
  <2>3. QED
    BY <2>1, <2>2, SaveStart
<1>2. CASE settings_set_call_data
  BY <1>2, CallStart, Zenon DEF settings_set_call_data
<1>3. CASE settings_set_beacon_text
  BY <1>3, TextStart DEF settings_set_beacon_text
<1>4. CASE cmd_settings_reset
  BY <1>4, ClearStart DEF cmd_settings_reset, Idle, IInv, RamInv
<1>5. CASE Write
  BY <1>5, WriteKeeps
<1>6. CASE PowerFails
  <2>1. todo' = << >> /\ power' = "off" /\ g_settings' = DefaultParams
        /\ source' = "default" /\ UNCHANGED <<eeprom, stored, last>>
    BY <1>6, Zenon DEF PowerFails
  <2>2. TypeInv' /\ InProgress' /\ DoneInv'
    <3>1. << >> \in Seq(SUBSET AnyWrite)
      OBVIOUS
    <3>2. QED
      BY <2>1, <3>1 DEF IInv, TypeInv, InProgress, DoneInv
  <2>3. RamInv' /\ SumInv' /\ LoadedInv'
    <3>1. RamInv'
      BY <2>1, BlockFacts DEF IInv, RamInv, Param
    <3>2. SumInv'
      BY <2>1 DEF IInv, SumInv, Sum, SumOf
    <3>3. LoadedInv'
      BY <2>1, Zenon DEF LoadedInv
    <3>4. QED
      BY <3>1, <3>2, <3>3
  <2>4. KnownInv' /\ HeadInv'
    BY <2>1, Zenon DEF IInv, KnownInv, HeadInv, OtherStore, Sum, Param
  <2>5. QED
    BY <2>2, <2>3, <2>4 DEF IInv
<1>7. ASSUME UNCHANGED <<eeprom, todo, writing, stored, last>>, todo = << >>,
             power' = "on", g_settings' \in Blocks, LoadedInv'
      PROVE  IInv'
  BY <1>7, Zenon DEF IInv, TypeInv, InProgress, DoneInv, RamInv, SumInv, KnownInv, HeadInv,
              OtherStore, Param, Sum, SumOf
<1>8. CASE Load_None
  <2>1. LoadedInv' /\ todo = << >> /\ g_settings' \in Blocks
    BY <1>8, Zenon DEF Load_None, LoadedInv, IInv, RamInv, OtherStore
  <2>2. QED
    BY <1>7, <1>8, <2>1, Zenon DEF Load_None, histVars
<1>9. CASE Load_Good
  <2>1. g_settings' = Block("params", ParamsLen) /\ todo = << >> /\ todo' = todo
        /\ last' = last
    BY <1>9, Zenon DEF Load_Good, histVars, IInv, RamInv
  <2>2. calc_crc(g_settings') = SumOf(last)
    BY <1>9, <2>1 DEF Load_Good, SumOK, IInv, SumInv, Sum
  <2>3. LoadedInv' /\ g_settings' \in Blocks
    BY <2>1, <2>2, BlockRead, Zenon DEF LoadedInv, OtherStore, SumOf
  <2>4. QED
    BY <1>7, <1>9, <2>1, <2>3, Zenon DEF Load_Good, histVars
<1>10. CASE Load_Bad
  BY <1>10, ClearStart, BlockRead DEF Load_Bad, IInv, RamInv
<1>11. CASE UNCHANGED vars
  BY <1>11 DEF vars, histVars, IInv, TypeInv, InProgress, DoneInv, RamInv, SumInv,
               KnownInv, LoadedInv, HeadInv, OtherStore, Param, Sum, SumOf, Done, Pending,
               FinalWrite, Earlier, IsSave, IsCall, IsText, IsClear
<1>12. QED
  BY <1>1, <1>2, <1>3, <1>4, <1>5, <1>6, <1>8, <1>9, <1>10, <1>11 DEF Next, settings_load

\* Settings that settings_load() accepts have the sum of the last complete save: of
\* a save that the power failed in, calc_crc() lets pass what it cannot tell from it.
THEOREM TornIsDetected == Spec => []TornDetected
<1>1. IInv => TornDetected
  BY DEF IInv, LoadedInv, TornDetected
<1>2. QED
  BY InitIInv, NextIInv, <1>1, PTL DEF Spec

\* settings_load() never rejects what a complete settings_save() has stored.
THEOREM CompleteIsAccepted == Spec => NeverRejected
<1>1. IInv /\ [Next]_vars =>
        [source # "rejected" /\ source' = "rejected" => ~stored["params"].known]_vars
  <2> SUFFICES ASSUME IInv, Next, source # "rejected", source' = "rejected",
                      stored["params"].known
               PROVE  FALSE
    OBVIOUS
  <2>1. Load_Bad
    BY Zenon DEF Next, settings_save, settings_set_call_data, settings_set_beacon_text,
           cmd_settings_reset, Write, PowerFails, settings_load, Load_None, Load_Good
  <2>2. QED
    BY <2>1, KnownBlock DEF Load_Bad, SumOK, Sum, IInv
<1>2. QED
  BY InitIInv, NextIInv, <1>1, PTL DEF Spec, NeverRejected

\* A first call sign, and a first beacon text, is used whole or not at all.
THEOREM FirstIsWhole == Spec => []FirstWriteWhole
<1>1. IInv => FirstWriteWhole
  BY DEF IInv, HeadInv, FirstWriteWhole, InUse, Default, settings_get_call_data,
         settings_get_beacon_text
<1>2. QED
  BY InitIInv, NextIInv, <1>1, PTL DEF Spec

-----------------------------------------------------------------------------
(* What is stored, and what is read of it.                                 *)

\* The texts that fit, and what is read of one.
Fitting == {t \in Seq(Byte \ {0}) : Len(t) <= TextMax - 1}
Read(t) == First(t, TextBuf - 1)

CallWrite(i, c) == [cell |-> <<"call", i>>, byte |-> c[i]]
TextWrite(i, t) == [cell |-> <<"text", i>>, byte |-> t[i]]
EndWrite(t) == [cell |-> <<"text", Len(t) + 1>>, byte |-> 0]

CallHead == eeprom[<<"callHead", 0>>]
TextsHead == eeprom[<<"textHead", 0>>]
CallThere(c) == \A i \in 1 .. CallLen : eeprom[<<"call", i>>] = c[i]
TextThere(t) ==
  /\ \A i \in 1 .. Len(t) : eeprom[<<"text", i>>] = t[i]
  /\ eeprom[<<"text", Len(t) + 1>>] = 0

LEMMA MinIs ==
  ASSUME NEW S, NEW m \in S, \A y \in S : y \in Int /\ m <= y
  PROVE  Min(S) = m
<1>1. \E x \in S : \A y \in S : x <= y
  OBVIOUS
<1>2. Min(S) \in S /\ \A y \in S : Min(S) <= y
  BY <1>1, Zenon DEF Min
<1>3. QED
  BY <1>2

LEMMA FirstIs ==
  ASSUME NEW t \in Seq(Byte \ {0}), NEW n \in Nat
  PROVE  LET m == IF Len(t) <= n THEN Len(t) ELSE n
         IN  /\ First(t, n) \in Seq(Byte \ {0}) /\ Len(First(t, n)) = m
             /\ \A i \in 1 .. m : First(t, n)[i] = t[i]
<1> DEFINE m == IF Len(t) <= n THEN Len(t) ELSE n
<1>1. Len(t) \in Nat /\ m \in Nat /\ m <= Len(t)
  OBVIOUS
<1>2. Min({Len(t), n}) = m
  <2> DEFINE S == {Len(t), n}
  <2>1. m \in S /\ \A y \in S : y \in Int /\ m <= y
    BY <1>1
  <2> HIDE DEF m, S
  <2>2. Min(S) = m
    BY <2>1, MinIs
  <2>3. QED
    BY <2>2 DEF S
<1> HIDE DEF m
<1>3. First(t, n) = SubSeq(t, 1, m)
  BY <1>2, Zenon DEF First
<1>4. /\ First(t, n) \in Seq(Byte \ {0}) /\ Len(First(t, n)) = m
      /\ \A i \in 1 .. m : First(t, n)[i] = t[i]
  BY <1>1, <1>3, SubSeqProperties, SMTT(30)
<1>5. QED
  BY <1>4 DEF m

\* settings_get_beacon_text() finds the end of the text.
LEMMA TextRead ==
  ASSUME TextsHead = TextHead, NEW t \in Fitting, TextThere(t)
  PROVE  settings_get_beacon_text = Read(t)
<1> DEFINE n == Min({TextBuf - 1, TextMax})
           buf == Block("text", n)
           m == IF Len(t) <= TextBuf - 1 THEN Len(t) ELSE TextBuf - 1
           ends == {i - 1 : i \in {j \in DOMAIN buf : buf[j] = 0}} \cup {Len(buf)}
<1>1. /\ t \in Seq(Byte \ {0}) /\ Len(t) \in Nat /\ Len(t) <= TextMax - 1
      /\ TextMax \in Nat \ {0} /\ TextBuf - 1 \in Nat
  BY TextAssumption DEF Fitting
<1>2. n = IF TextBuf - 1 <= TextMax THEN TextBuf - 1 ELSE TextMax
  <2> DEFINE k == IF TextBuf - 1 <= TextMax THEN TextBuf - 1 ELSE TextMax
  <2>1. k \in {TextBuf - 1, TextMax} /\ \A y \in {TextBuf - 1, TextMax} : y \in Int /\ k <= y
    BY <1>1
  <2> HIDE DEF k
  <2>2. Min({TextBuf - 1, TextMax}) = k
    BY <2>1, MinIs
  <2>3. QED
    BY <2>2 DEF k
<1> HIDE DEF n
<1>3. n \in Nat /\ m \in Nat /\ m <= n /\ m <= Len(t) /\ (m < n => m = Len(t))
  BY <1>1, <1>2
<1> DEFINE V == {eeprom[<<"text", i>>] : i \in 1 .. n}
<1>4. /\ DOMAIN buf = 1 .. n /\ Len(buf) = n /\ buf \in Seq(V)
      /\ \A i \in 1 .. n : buf[i] = eeprom[<<"text", i>>]
  <2>1. buf \in [1 .. n -> V] /\ \A i \in 1 .. n : buf[i] = eeprom[<<"text", i>>]
    BY Zenon DEF Block
  <2> HIDE DEF V, buf
  <2>2. DOMAIN buf = 1 .. n /\ Len(buf) = n /\ buf \in Seq(V)
    BY <1>3, <2>1
  <2>3. QED
    BY <2>1, <2>2
<1> HIDE DEF buf, m, V
<1>5. \A i \in 1 .. m : buf[i] = t[i] /\ t[i] # 0
  <2>1. \A i \in 1 .. Len(t) : t[i] \in Byte \ {0}
    BY <1>1
  <2>2. \A i \in 1 .. m : i \in 1 .. n /\ i \in 1 .. Len(t)
    BY <1>1, <1>3
  <2>3. QED
    BY <1>4, <2>1, <2>2, Zenon DEF TextThere
<1>6. m < n => buf[m + 1] = 0
  BY <1>1, <1>3, <1>4 DEF TextThere
<1>7. m \in ends
  <2>1. CASE m < n
    <3>1. m + 1 \in DOMAIN buf /\ buf[m + 1] = 0 /\ m = (m + 1) - 1
      BY <1>3, <1>4, <1>6, <2>1
    <3>2. QED
      BY <3>1
  <2>2. CASE m = n
    BY <1>4, <2>2
  <2>3. QED
    BY <1>3, <2>1, <2>2
<1>8. \A y \in ends : y \in Int /\ m <= y
  <2>1. ASSUME NEW i \in DOMAIN buf, buf[i] = 0
        PROVE  i - 1 \in Int /\ m <= i - 1
    BY <1>3, <1>4, <1>5, <2>1
  <2>2. Len(buf) \in Int /\ m <= Len(buf)
    BY <1>3, <1>4
  <2>3. QED
    BY <2>1, <2>2
<1>9. Strlen(buf) = m
  <2> HIDE DEF ends
  <2>1. Min(ends) = m
    BY <1>7, <1>8, MinIs
  <2>2. QED
    BY <2>1 DEF Strlen, ends
<1>10. settings_get_beacon_text = SubSeq(buf, 1, m)
  BY <1>9, Zenon DEF settings_get_beacon_text, TextsHead, n, buf
<1>11. SubSeq(buf, 1, m) = [i \in 1 .. m |-> t[i]]
  BY <1>3, <1>4, <1>5, SubSeqProperties
<1>12. Read(t) = [i \in 1 .. m |-> t[i]]
  <2>1. /\ Read(t) \in Seq(Byte \ {0}) /\ Len(Read(t)) = m
        /\ \A i \in 1 .. m : Read(t)[i] = t[i]
    BY <1>1, FirstIs, Zenon DEF Read, m
  <2>2. QED
    BY <1>3, <2>1
<1>13. QED
  BY <1>10, <1>11, <1>12
-----------------------------------------------------------------------------
(* The invariant.                                                          *)

\* The operation in progress stores the text t.
TextOp(t) ==
  /\ writing.text = Read(t)
  /\ \A i \in 1 .. Len(t) : Done(TextWrite(i, t))
  /\ Done(EndWrite(t))
  /\ \A v : Pending(v) => v = EndWrite(t) \/ \E i \in 1 .. Len(t) : v = TextWrite(i, t)

CallOp(c) ==
  /\ c \in [1 .. CallLen -> Byte]
  /\ \A i \in 1 .. CallLen : Done(CallWrite(i, c))
  /\ \A v : Pending(v) => \E i \in 1 .. CallLen : v = CallWrite(i, c)

OpInv ==
  todo # << >> =>
    /\ \A s \in DOMAIN writing : ~stored[s].known
    /\ IsSave => g_settings = writing.params /\ Done(Write1("head", SettingsHead))
    /\ IsCall => CallOp(writing.call)
    /\ IsText => \E t \in Fitting : TextOp(t)
    /\ IsClear => /\ Done(Write1("callHead", Blank)) /\ Done(Write1("textHead", Blank))
                  /\ power = "on" => source = "rejected"

\* What is known to be stored is in use, or will be after settings_load().
ParamsUse ==
  /\ power = "off" => g_settings = DefaultParams /\ source = "default"
  /\ stored["params"].known =>
       /\ eeprom[<<"head", 0>>] # SettingsHead => stored["params"].value = DefaultParams
       /\ power = "on" /\ source # "rejected" => g_settings = stored["params"].value

CallUse ==
  stored["call"].known =>
    \/ CallHead # SettingsHead /\ stored["call"].value = DefaultCall
    \/ /\ CallHead = SettingsHead /\ CallThere(stored["call"].value)
       /\ stored["call"].value \in [1 .. CallLen -> Byte]

TextUse ==
  stored["text"].known =>
    \/ TextsHead # TextHead /\ stored["text"].value = DefaultText
    \/ TextsHead = TextHead /\ \E t \in Fitting : TextThere(t) /\ stored["text"].value = Read(t)

UseInv == OpInv /\ ParamsUse /\ CallUse /\ TextUse

LEMMA UseIsDurable == UseInv => Durable
<1> SUFFICES ASSUME UseInv, power = "on"
             PROVE  \A s \in Stores :
                      stored[s].known /\ ~(s = "params" /\ source = "rejected") =>
                        InUse[s] = stored[s].value
  BY DEF Durable
<1>1. stored["params"].known /\ source # "rejected" => InUse["params"] = stored["params"].value
  BY DEF UseInv, ParamsUse, InUse
<1>2. stored["call"].known => InUse["call"] = stored["call"].value
  <2>1. InUse["call"] = settings_get_call_data
    BY DEF InUse
  <2>2. ASSUME NEW c \in [1 .. CallLen -> Byte], CallThere(c)
        PROVE  Block("call", CallLen) = c
    BY <2>2, Zenon DEF CallThere, Block
  <2>3. QED
    BY <2>1, <2>2 DEF UseInv, CallUse, settings_get_call_data, CallHead
<1>3. stored["text"].known => InUse["text"] = stored["text"].value
  <2>1. InUse["text"] = settings_get_beacon_text
    BY DEF InUse
  <2>2. TextsHead # TextHead => settings_get_beacon_text = DefaultText
    BY Zenon DEF settings_get_beacon_text, TextsHead
  <2>3. QED
    BY <2>1, <2>2, TextRead DEF UseInv, TextUse
<1>4. QED
  BY <1>1, <1>2, <1>3 DEF Stores

LEMMA InitUse == Init => UseInv
<1> SUFFICES ASSUME Init
             PROVE  UseInv
  OBVIOUS
<1>1. /\ stored["params"] = Known(DefaultParams) /\ stored["call"] = Known(DefaultCall)
      /\ stored["text"] = Known(DefaultText)
  BY DEF Init, Stores, Default
<1>2. CallHead = Blank /\ TextsHead = Blank
  BY CellFacts DEF Init, CallHead, TextsHead
<1>3. /\ power = "off" /\ g_settings = DefaultParams /\ source = "default" /\ todo = << >>
  BY Zenon DEF Init
<1>4. /\ stored["params"].value = DefaultParams /\ stored["call"].value = DefaultCall
      /\ stored["text"].value = DefaultText
  BY <1>1 DEF Known
<1>5. Blank # SettingsHead /\ Blank # TextHead
  BY ValueFacts
<1>6. OpInv /\ ParamsUse
  BY <1>3, <1>4, Zenon DEF OpInv, ParamsUse
<1>7. CallUse /\ TextUse
  BY <1>2, <1>4, <1>5, Zenon DEF CallUse, TextUse
<1>8. QED
  BY <1>6, <1>7, Zenon DEF UseInv

\* A store that an operation starts to change is not known.
LEMMA StartUse ==
  ASSUME CallUse, TextUse, eeprom' = eeprom, NEW calls, NEW new, Start(calls, new)
  PROVE  /\ CallUse' /\ TextUse'
         /\ stored'["params"].known =>
              stored'["params"] = stored["params"] /\ "params" \notin DOMAIN new
         /\ \A s \in Stores : s \in DOMAIN new => ~stored'[s].known
<1>1. \A s \in Stores :
        /\ s \in DOMAIN new => ~stored'[s].known
        /\ stored'[s].known => stored'[s] = stored[s] /\ s \notin DOMAIN new
  <2>1. \A b : ~Unknown(b).known
    BY DEF Unknown
  <2>2. QED
    BY <2>1, StartStores, Zenon
<1>2. CallHead' = CallHead /\ TextsHead' = TextsHead
  BY Zenon DEF CallHead, TextsHead
<1>3. CallUse'
  BY <1>1, <1>2, Zenon DEF CallUse, CallThere, Stores, CallLen
<1>4. TextUse'
  BY <1>1, <1>2, Zenon DEF TextUse, TextThere, Stores, Fitting, Read, First
<1>5. QED
  BY <1>1, <1>3, <1>4 DEF Stores
-----------------------------------------------------------------------------
(* The operations.                                                         *)

LEMMA SaveUse ==
  ASSUME UseInv, NEW p \in Blocks, g_settings' = p, power' = "on",
         Start(SaveCalls(p), [params |-> p]), eeprom' = eeprom
  PROVE  UseInv'
<1>1. CallUse' /\ TextUse' /\ ~stored'["params"].known
  BY StartUse, SMTT(30) DEF UseInv, Stores
<1>2. ParamsUse'
  BY <1>1, Zenon DEF ParamsUse
<1>3. writing' = [params |-> p] /\ todo' = SaveCalls(p)
  BY StartStores
<1>4. IsSave' /\ writing'.params = p /\ DOMAIN writing' = {"params"}
  BY <1>3, Zenon DEF IsSave
<1>5. ~IsCall' /\ ~IsText' /\ ~IsClear'
  BY <1>3, Zenon DEF IsCall, IsText, IsClear, Default
<1>6. Done(Write1("head", SettingsHead))'
  <2>1. Len(todo') = 3 /\ todo'[2] = {Write1("head", SettingsHead)}
    BY <1>3 DEF SaveCalls, Put, Write1
  <2>2. QED
    BY <2>1, SMTT(30) DEF Done, Pending
<1>7. OpInv'
  BY <1>1, <1>4, <1>5, <1>6, Zenon DEF OpInv
<1>8. QED
  BY <1>1, <1>2, <1>7 DEF UseInv

LEMMA CallUsed ==
  ASSUME UseInv, NEW c \in Calls, Start(CallCalls(c), [call |-> c]),
         UNCHANGED <<eeprom, power, g_settings, source>>
  PROVE  UseInv'
<1>1. CallUse' /\ TextUse' /\ ~stored'["call"].known
  BY StartUse, SMTT(30) DEF UseInv, Stores
<1>2. ParamsUse'
  <2>1. stored'["params"].known => stored'["params"] = stored["params"]
    BY StartUse, Zenon DEF UseInv
  <2>2. QED
    BY <2>1, Zenon DEF UseInv, ParamsUse
<1>3. writing' = [call |-> c] /\ todo' = CallCalls(c)
  BY StartStores, Zenon
<1>4. writing'.call = c /\ DOMAIN writing' = {"call"}
  BY <1>3
<1>5. ~IsSave' /\ ~IsText' /\ ~IsClear'
  BY <1>3, Zenon DEF IsSave, IsText, IsClear, Default
<1>6. c \in [1 .. CallLen -> Byte]
  BY CallAssumption, Zenon
<1>7. PutBlock("call", c) = {CallWrite(i, c) : i \in 1 .. CallLen}
  BY <1>6 DEF PutBlock, CallWrite
<1>8. Len(todo') = 2 /\ todo'[1] = PutBlock("call", c)
  BY <1>3, Zenon DEF CallCalls
<1>9. \A v : Pending(v)' <=> v \in PutBlock("call", c)
  BY <1>8 DEF Pending
<1>10. CallOp(c)'
  <2>1. \A i \in 1 .. CallLen : Pending(CallWrite(i, c))'
    BY <1>7, <1>9
  <2>2. \A v : Pending(v)' => \E i \in 1 .. CallLen : v = CallWrite(i, c)
    BY <1>7, <1>9
  <2>3. QED
    BY <1>6, <2>1, <2>2, Zenon DEF CallOp, Done
<1>11. OpInv'
  BY <1>1, <1>4, <1>5, <1>10, Zenon DEF OpInv, CallOp
<1>12. QED
  BY <1>1, <1>2, <1>11, Zenon DEF UseInv

LEMMA ClearUse ==
  ASSUME UseInv, Start(ClearCalls, Default), eeprom' = eeprom,
         power' \in {"on", "reset"}, power' = "on" => source' = "rejected"
  PROVE  UseInv'
<1>1. CallUse' /\ TextUse' /\ \A s \in Stores : ~stored'[s].known
  BY StartUse DEF UseInv, Stores, Default
<1>2. ParamsUse'
  BY <1>1, Zenon DEF ParamsUse, Stores
<1>3. writing' = Default /\ todo' = ClearCalls
  BY StartStores, Zenon
<1>4. DOMAIN writing' = Stores /\ "params" \in DOMAIN writing' /\ "call" \in DOMAIN writing'
  BY <1>3 DEF Default, Stores
<1>5. ~IsSave' /\ ~IsText' /\ ~IsCall'
  BY <1>4, SMTT(30) DEF IsSave, IsText, IsCall
<1>6. Len(todo') = 4 /\ todo'[2] = {Write1("callHead", Blank)} /\ todo'[3] = {Write1("textHead", Blank)}
  BY <1>3, Zenon DEF ClearCalls, Put, Write1
<1>7. Done(Write1("callHead", Blank))' /\ Done(Write1("textHead", Blank))'
  BY <1>6 DEF Done, Pending, Blank
<1>8. OpInv'
  BY <1>1, <1>4, <1>5, <1>7, Zenon DEF OpInv
<1>9. QED
  BY <1>1, <1>2, <1>8, Zenon DEF UseInv

\* settings_set_beacon_text(): what is read of the text it writes.
LEMMA ReadOfWritten ==
  ASSUME NEW t \in Texts
  PROVE  /\ First(t, ToWrite) \in Fitting
         /\ First(t, Min({ToWrite, TextBuf - 1})) = Read(First(t, ToWrite))
<1> DEFINE a == ToWrite
           b == TextBuf - 1
           k == IF a <= b THEN a ELSE b
           f == First(t, a)
<1>1. t \in Seq(Byte \ {0}) /\ Len(t) \in Nat /\ a \in Nat /\ b \in Nat /\ a = TextMax - 1
  BY TextAssumption DEF ToWrite
<1> HIDE DEF a, b
<1>2. Min({a, b}) = k
  <2> DEFINE S == {a, b}
  <2>1. k \in S /\ \A y \in S : y \in Int /\ k <= y
    BY <1>1
  <2> HIDE DEF k, S
  <2>2. Min(S) = k
    BY <2>1, MinIs
  <2>3. QED
    BY <2>2 DEF S
<1>3. k \in Nat
  BY <1>1, Zenon
<1> DEFINE m == IF Len(t) <= a THEN Len(t) ELSE a
           n == IF Len(t) <= k THEN Len(t) ELSE k
           r == IF Len(f) <= b THEN Len(f) ELSE b
<1>4. f \in Seq(Byte \ {0}) /\ Len(f) = m /\ \A i \in 1 .. m : f[i] = t[i]
  BY <1>1, FirstIs, Zenon
<1>5. /\ First(t, k) \in Seq(Byte \ {0}) /\ Len(First(t, k)) = n
      /\ \A i \in 1 .. n : First(t, k)[i] = t[i]
  BY <1>1, <1>3, FirstIs, Zenon
<1> HIDE DEF f
<1>6. /\ First(f, b) \in Seq(Byte \ {0}) /\ Len(First(f, b)) = r
      /\ \A i \in 1 .. r : First(f, b)[i] = f[i]
  BY <1>1, <1>4, FirstIs, Zenon
<1>7. r = n /\ \A i \in 1 .. n : i \in 1 .. m
  BY <1>1, <1>4, SMTT(30)
<1> HIDE DEF k, m, n, r
<1>8. First(t, k) = First(f, b)
  <2>1. \A i \in 1 .. n : First(t, k)[i] = First(f, b)[i]
    BY <1>4, <1>5, <1>6, <1>7
  <2>2. QED
    BY <1>5, <1>6, <1>7, <2>1, SMTT(30)
<1>9. f \in Fitting
  BY <1>1, <1>4 DEF Fitting, m
<1>10. QED
  BY <1>2, <1>8, <1>9 DEF Read, a, b, f

LEMMA TextUsed ==
  ASSUME UseInv, NEW t \in Fitting, Start(TextCalls(t), [text |-> Read(t)]),
         UNCHANGED <<eeprom, power, g_settings, source>>
  PROVE  UseInv'
<1>1. CallUse' /\ TextUse' /\ ~stored'["text"].known
  BY StartUse, SMTT(30) DEF UseInv, Stores
<1>2. ParamsUse'
  <2>1. stored'["params"].known => stored'["params"] = stored["params"]
    BY StartUse, Zenon DEF UseInv
  <2>2. QED
    BY <2>1, Zenon DEF UseInv, ParamsUse
<1>3. writing' = [text |-> Read(t)] /\ todo' = TextCalls(t)
  BY StartStores, Zenon
<1>4. writing'.text = Read(t) /\ DOMAIN writing' = {"text"}
  BY <1>3
<1>5. ~IsSave' /\ ~IsCall' /\ ~IsClear'
  BY <1>3, Zenon DEF IsSave, IsCall, IsClear, Default
<1>6. PutBlock("text", t) = {TextWrite(i, t) : i \in 1 .. Len(t)}
  BY SMTT(30) DEF PutBlock, TextWrite, Fitting
<1>7. Len(todo') = 3 /\ todo'[1] = PutBlock("text", t) /\ todo'[2] = {EndWrite(t)}
  BY <1>3, Zenon DEF TextCalls, EndWrite
<1>8. \A v : Pending(v)' <=> v = EndWrite(t) \/ v \in PutBlock("text", t)
  <2>1. 1 .. Len(todo') - 1 = {1, 2}
    BY <1>7
  <2>2. QED
    BY <1>7, <2>1, Zenon DEF Pending
<1>9. TextOp(t)'
  <2>1. (\A i \in 1 .. Len(t) : Pending(TextWrite(i, t))') /\ Pending(EndWrite(t))'
    BY <1>6, <1>8, Zenon
  <2>2. \A v : Pending(v)' => v = EndWrite(t) \/ \E i \in 1 .. Len(t) : v = TextWrite(i, t)
    BY <1>6, <1>8
  <2>3. QED
    BY <1>4, <2>1, <2>2, Zenon DEF TextOp, Done, Read, First
<1>10. t \in Fitting'
  BY DEF Fitting, Byte
<1>11. OpInv'
  BY <1>1, <1>4, <1>5, <1>9, <1>10, Zenon DEF OpInv
<1>12. QED
  BY <1>1, <1>2, <1>11, Zenon DEF UseInv
-----------------------------------------------------------------------------
(* The writes.                                                             *)

LEMMA EarlierUse ==
  ASSUME IInv, UseInv, NEW w, WriteEarlier(w), UNCHANGED <<histVars, power, g_settings, source>>
  PROVE  UseInv'
<1>1. w \in AnyWrite /\ Earlier(w) /\ todo # << >> /\ todo' # << >> /\ Pending(w)
  BY Zenon DEF WriteEarlier, Earlier
<1>2. \A c \in Cells : eeprom'[c] = IF c = w.cell THEN w.byte ELSE eeprom[c]
  BY <1>1, PutEffect DEF IInv, WriteEarlier
<1>3. UNCHANGED <<writing, stored, last>>
  BY DEF histVars
<1>4. IsSave \/ IsCall \/ IsText \/ IsClear
  BY <1>1 DEF IInv, InProgress
<1>5. /\ IsSave' <=> IsSave
      /\ IsCall' <=> IsCall
      /\ IsText' <=> IsText
      /\ IsClear' <=> IsClear
  BY <1>3, Zenon DEF IsSave, IsCall, IsText, IsClear, Default, Blocks, Byte
<1>6. \A s \in DOMAIN writing : ~stored[s].known
  BY <1>1, Zenon DEF UseInv, OpInv
<1>7. ASSUME NEW v \in AnyWrite, Done(v), w.cell = v.cell => w = v
      PROVE  Done(v)'
  BY <1>1, <1>7, DoneKeeps, Zenon DEF IInv
<1>8. ParamsUse'
  <2>1. stored["params"].known => IsCall \/ IsText
    BY <1>1 DEF IInv, KnownInv, OtherStore
  <2>2. IsCall \/ IsText => w.cell # <<"head", 0>>
    BY <1>1, SMTT(30) DEF Earlier
  <2>3. stored["params"].known => eeprom'[<<"head", 0>>] = eeprom[<<"head", 0>>]
    BY <1>2, <2>1, <2>2, CellFacts, Zenon
  <2>4. QED
    BY <1>3, <2>3, Zenon DEF UseInv, ParamsUse
<1>9. CallUse'
  <2> SUFFICES ASSUME stored["call"].known
               PROVE  CallUse'
    BY <1>3, Zenon DEF CallUse
  <2>1. IsSave \/ IsText
    BY <1>4, <1>6, Zenon DEF IsCall, IsClear, Default
  <2>2. w.cell # <<"callHead", 0>> /\ \A i \in 1 .. CallLen : w.cell # <<"call", i>>
    BY <1>1, <2>1, SMTT(30) DEF Earlier, Write1, ParamWrite
  <2>3. CallHead' = CallHead /\ \A i \in 1 .. CallLen : eeprom'[<<"call", i>>] = eeprom[<<"call", i>>]
    BY <1>2, <2>2, CellFacts, Zenon DEF CallHead
  <2>4. QED
    BY <1>3, <2>3, Zenon DEF UseInv, CallUse, CallThere, CallLen
<1>10. TextUse'
  <2> SUFFICES ASSUME stored["text"].known
               PROVE  TextUse'
    BY <1>3 DEF TextUse
  <2>1. IsSave \/ IsCall
    BY <1>4, <1>6, Zenon DEF IsText, IsClear, Default
  <2>2. w.cell # <<"textHead", 0>> /\ \A i \in 1 .. TextMax : w.cell # <<"text", i>>
    BY <1>1, <2>1, SMTT(30) DEF Earlier, Write1, ParamWrite
  <2>3. TextsHead' = TextsHead /\ \A i \in 1 .. TextMax : eeprom'[<<"text", i>>] = eeprom[<<"text", i>>]
    BY <1>2, <2>2, CellFacts DEF TextsHead
  <2>4. \A t \in Fitting : TextThere(t) => TextThere(t)'
    <3>1. \A t \in Fitting : Len(t) \in Nat /\ Len(t) + 1 <= TextMax
      BY TextAssumption DEF Fitting
    <3>2. QED
      BY <2>3, <3>1, TextAssumption DEF TextThere
  <2>5. QED
    BY <1>3, <2>3, <2>4, Zenon DEF UseInv, TextUse, Fitting, Read, First
<1>11. ASSUME IsSave
       PROVE  g_settings' = writing'.params /\ Done(Write1("head", SettingsHead))'
  <2>1. g_settings = writing.params /\ Done(Write1("head", SettingsHead))
    BY <1>1, <1>11, Zenon DEF UseInv, OpInv
  <2>2. Write1("head", SettingsHead) \in AnyWrite
    BY CellFacts, ValueFacts, Zenon DEF Write1, AnyWrite
  <2>3. w.cell = Write1("head", SettingsHead).cell => w = Write1("head", SettingsHead)
    BY <1>1, <1>11 DEF Earlier, Write1, ParamWrite
  <2>4. Done(Write1("head", SettingsHead))'
    BY <1>7, <2>1, <2>2, <2>3
  <2>5. QED
    BY <1>3, <2>1, <2>4, Zenon
<1>12. ASSUME IsCall
       PROVE  CallOp(writing.call)'
  <2>0. PICK c : c = writing.call
    OBVIOUS
  <2>1. CallOp(c)
    BY <1>1, <1>12, <2>0, Zenon DEF UseInv, OpInv
  <2>2. PICK j \in 1 .. CallLen : w = CallWrite(j, c)
    BY <1>1, <2>1 DEF CallOp
  <2>3. ASSUME NEW i \in 1 .. CallLen
        PROVE  Done(CallWrite(i, c))'
    <3>1. CallWrite(i, c) \in AnyWrite
      BY <2>1, CellFacts, ValueFacts DEF CallOp, CallWrite, AnyWrite
    <3>2. w.cell = CallWrite(i, c).cell => w = CallWrite(i, c)
      BY <2>2 DEF CallWrite
    <3>3. Done(CallWrite(i, c))
      BY <2>1, Zenon DEF CallOp
    <3>4. QED
      BY <1>7, <3>1, <3>2, <3>3, Zenon
  <2>4. \A v : Pending(v)' => \E i \in 1 .. CallLen : v = CallWrite(i, c)
    BY <2>1 DEF CallOp, WriteEarlier
  <2>5. CallOp(c)'
    BY <2>1, <2>3, <2>4 DEF CallOp
  <2>6. QED
    BY <1>3, <2>0, <2>5
<1>13. ASSUME IsText
       PROVE  \E t \in Fitting : TextOp(t)'
  <2>1. PICK t \in Fitting : TextOp(t)
    BY <1>1, <1>13 DEF UseInv, OpInv
  <2>2. Len(t) \in Nat /\ Len(t) + 1 <= TextMax /\ TextMax \in Nat
        /\ \A i \in 1 .. Len(t) : t[i] \in Byte
    BY TextAssumption DEF Fitting
  <2>3. w = EndWrite(t) \/ \E j \in 1 .. Len(t) : w = TextWrite(j, t)
    BY <1>1, <2>1, Zenon DEF TextOp
  <2>4. ASSUME NEW i \in 1 .. Len(t)
        PROVE  Done(TextWrite(i, t))'
    <3>1. TextWrite(i, t) \in AnyWrite
      BY <2>2, CellFacts, ValueFacts, SMTT(30) DEF TextWrite, AnyWrite
    <3>2. w.cell = TextWrite(i, t).cell => w = TextWrite(i, t)
      <4>1. CASE w = EndWrite(t)
        BY <2>2, <4>1 DEF TextWrite, EndWrite
      <4>2. ASSUME NEW j \in 1 .. Len(t), w = TextWrite(j, t)
            PROVE  w.cell = TextWrite(i, t).cell => w = TextWrite(i, t)
        BY <4>2 DEF TextWrite
      <4>3. QED
        BY <2>3, <4>1, <4>2, Zenon
    <3>3. QED
      BY <1>7, <2>1, <3>1, <3>2, Zenon DEF TextOp
  <2>5. Done(EndWrite(t))'
    <3>1. EndWrite(t) \in AnyWrite
      <4>1. Len(t) + 1 \in 1 .. TextMax /\ 0 \in Byte
        BY <2>2, ByteAssumption, SMTT(30) DEF Byte
      <4>2. QED
        BY <4>1, CellFacts, ValueFacts DEF EndWrite, AnyWrite
    <3>2. w.cell = EndWrite(t).cell => w = EndWrite(t)
      BY <2>2, <2>3, SMTT(30) DEF TextWrite, EndWrite
    <3>3. QED
      BY <1>7, <2>1, <3>1, <3>2, Zenon DEF TextOp
  <2>6. \A v : Pending(v)' => v = EndWrite(t) \/ \E i \in 1 .. Len(t) : v = TextWrite(i, t)
    BY <2>1 DEF TextOp, WriteEarlier
  <2>7. writing'.text = Read(t)
    BY <1>3, <2>1 DEF TextOp
  <2>8. TextOp(t)'
    BY <2>4, <2>5, <2>6, <2>7, Zenon DEF TextOp, Read, First
  <2>9. QED
    BY <2>8, Zenon
<1>14. ASSUME IsClear, NEW h \in {"callHead", "textHead"}, Done(Write1(h, Blank))
       PROVE  Done(Write1(h, Blank))'
  <2>1. Write1(h, Blank) \in AnyWrite
    BY CellFacts, ValueFacts, Zenon DEF Write1, AnyWrite
  <2>2. w.cell = Write1(h, Blank).cell => w = Write1(h, Blank)
    BY <1>1, <1>14 DEF Earlier, Write1
  <2>3. QED
    BY <1>7, <1>14, <2>1, <2>2, Zenon
<1>15. IsClear => /\ Done(Write1("callHead", Blank))' /\ Done(Write1("textHead", Blank))'
                  /\ power' = "on" => source' = "rejected"
  BY <1>1, <1>14, Zenon DEF UseInv, OpInv
<1>16. OpInv'
  <2>1. \A s \in DOMAIN writing' : ~stored'[s].known
    BY <1>3, <1>6
  <2>2. IsText => \E t \in Fitting' : TextOp(t)'
    BY <1>13, Zenon DEF Fitting, Byte
  <2>3. QED
    BY <1>5, <1>11, <1>12, <1>15, <2>1, <2>2, Zenon DEF OpInv
<1>17. QED
  BY <1>8, <1>9, <1>10, <1>16, Zenon DEF UseInv

LEMMA FinalUse ==
  ASSUME IInv, UseInv, WriteFinal,
         stored' = [s \in Stores |-> IF s \in DOMAIN writing THEN Known(writing[s]) ELSE stored[s]],
         UNCHANGED <<power, g_settings, source>>
  PROVE  UseInv'
<1> DEFINE w == FinalWrite
<1>1. todo # << >> /\ todo' = << >> /\ Len(todo) = 1 /\ w \in AnyWrite
  BY Zenon DEF WriteFinal
<1>2. \A c \in Cells : eeprom'[c] = IF c = w.cell THEN w.byte ELSE eeprom[c]
  BY <1>1, PutEffect, Zenon DEF IInv, WriteFinal
<1> HIDE DEF w
<1>3. IsSave \/ IsCall \/ IsText \/ IsClear
  BY <1>1 DEF IInv, InProgress
<1>4. /\ IsSave => w = Write1("crc", calc_crc(writing.params))
      /\ IsCall => w = Write1("callHead", SettingsHead)
      /\ IsText => w = Write1("textHead", TextHead)
      /\ IsClear => w = Write1("crc", Blank)
  BY Kinds, Zenon DEF FinalWrite, w
<1>5. w.cell \in {<<"crc", 0>>, <<"callHead", 0>>, <<"textHead", 0>>}
  BY <1>3, <1>4, SMTT(30) DEF Write1
<1>6. \A v : Done(v) => eeprom[v.cell] = v.byte
  BY <1>1 DEF Done, Pending
<1>7. \A s \in Stores : stored'[s] = IF s \in DOMAIN writing THEN Known(writing[s]) ELSE stored[s]
  BY Zenon
<1>8. /\ eeprom'[<<"head", 0>>] = eeprom[<<"head", 0>>]
      /\ \A i \in 1 .. CallLen : eeprom'[<<"call", i>>] = eeprom[<<"call", i>>]
      /\ \A i \in 1 .. TextMax : eeprom'[<<"text", i>>] = eeprom[<<"text", i>>]
      /\ ~IsCall => CallHead' = CallHead
      /\ ~IsText => TextsHead' = TextsHead
      /\ IsCall => CallHead' = SettingsHead
      /\ IsText => TextsHead' = TextHead
  <2>1. /\ ~IsCall => w.cell # <<"callHead", 0>>
        /\ ~IsText => w.cell # <<"textHead", 0>>
        /\ IsCall => w.cell = <<"callHead", 0>> /\ w.byte = SettingsHead
        /\ IsText => w.cell = <<"textHead", 0>> /\ w.byte = TextHead
    BY <1>3, <1>4 DEF Write1
  <2>2. QED
    BY <1>2, <1>5, <2>1, CellFacts, SMTT(30) DEF CallHead, TextsHead
<1>9. /\ IsSave => "params" \in DOMAIN writing /\ "call" \notin DOMAIN writing /\ "text" \notin DOMAIN writing
      /\ IsCall => "params" \notin DOMAIN writing /\ "call" \in DOMAIN writing /\ "text" \notin DOMAIN writing
      /\ IsText => "params" \notin DOMAIN writing /\ "call" \notin DOMAIN writing /\ "text" \in DOMAIN writing
  BY DEF IsSave, IsCall, IsText
<1>10. IsClear => /\ "params" \in DOMAIN writing /\ "call" \in DOMAIN writing /\ "text" \in DOMAIN writing
                  /\ writing["params"] = DefaultParams /\ writing["call"] = DefaultCall
                  /\ writing["text"] = DefaultText
  BY SMTT(30) DEF IsClear, Default
<1>11. \A v : Known(v).known /\ Known(v).value = v
  BY DEF Known
<1>12. OpInv'
  BY <1>1, Zenon DEF OpInv
<1>13. ParamsUse'
  <2>1. CASE IsSave
    <3>1. g_settings = writing.params /\ eeprom[<<"head", 0>>] = SettingsHead
      BY <1>1, <1>6, <2>1, SMTT(30) DEF UseInv, OpInv, Write1
    <3>2. stored'["params"].value = writing.params
      BY <1>7, <1>9, <1>11, <2>1, Zenon DEF Stores
    <3>3. QED
      BY <1>8, <3>1, <3>2, Zenon DEF UseInv, ParamsUse
  <2>2. CASE IsClear
    <3>1. stored'["params"].value = DefaultParams
      BY <1>7, <1>10, <1>11, <2>2, Zenon DEF Stores
    <3>2. power = "on" => source = "rejected"
      BY <1>1, <2>2, Zenon DEF UseInv, OpInv
    <3>3. QED
      BY <3>1, <3>2, Zenon DEF UseInv, ParamsUse
  <2>3. CASE IsCall \/ IsText
    <3>1. stored'["params"] = stored["params"]
      BY <1>7, <1>9, <2>3, Zenon DEF Stores
    <3>2. QED
      BY <1>8, <3>1 DEF UseInv, ParamsUse
  <2>4. QED
    BY <1>3, <2>1, <2>2, <2>3
<1>14. CallUse'
  <2>1. CASE IsCall
    <3>1. PICK c : c = writing.call
      OBVIOUS
    <3>2. CallOp(c)
      BY <1>1, <2>1, <3>1, Zenon DEF UseInv, OpInv
    <3>3. stored'["call"].value = c
      BY <1>7, <1>9, <1>11, <2>1, <3>1, Zenon DEF Stores
    <3>4. CallThere(c)'
      <4>1. \A i \in 1 .. CallLen : eeprom[CallWrite(i, c).cell] = CallWrite(i, c).byte
        BY <1>6, <3>2, Zenon DEF CallOp
      <4>2. QED
        BY <1>8, <4>1, Zenon DEF CallThere, CallWrite
    <3>5. c \in [1 .. CallLen -> Byte]
      BY <3>2, Zenon DEF CallOp
    <3>6. QED
      BY <1>8, <2>1, <3>3, <3>4, <3>5, Zenon DEF CallUse, CallThere
  <2>2. CASE IsClear
    <3>1. CallHead = Blank
      <4>1. Done(Write1("callHead", Blank))
        BY <1>1, <2>2, Zenon DEF UseInv, OpInv
      <4>2. QED
        BY <1>6, <4>1 DEF Write1, CallHead
    <3>2. stored'["call"].value = DefaultCall
      BY <1>7, <1>10, <1>11, <2>2, Zenon DEF Stores
    <3>3. QED
      BY <1>8, <2>2, <3>1, <3>2, Kinds, ValueFacts, Zenon DEF CallUse
  <2>3. CASE IsSave \/ IsText
    <3>1. stored'["call"] = stored["call"]
      BY <1>7, <1>9, <2>3 DEF Stores
    <3>2. QED
      BY <1>8, <2>3, <3>1, Kinds, Zenon DEF UseInv, CallUse, CallThere, CallLen
  <2>4. QED
    BY <1>3, <2>1, <2>2, <2>3
<1>15. TextUse'
  <2>0. ASSUME NEW t \in Fitting, TextThere(t)
        PROVE  TextThere(t)'
    <3>1. Len(t) \in Nat /\ Len(t) + 1 <= TextMax /\ TextMax \in Nat
      BY TextAssumption, SMTT(30) DEF Fitting
    <3>2. QED
      BY <1>8, <2>0, <3>1 DEF TextThere
  <2>1. CASE IsText
    <3>1. PICK t \in Fitting : TextOp(t)
      BY <1>1, <2>1, Zenon DEF UseInv, OpInv
    <3>2. stored'["text"].value = Read(t)
      BY <1>7, <1>9, <1>11, <2>1, <3>1, Zenon DEF Stores, TextOp
    <3>3. TextThere(t)
      <4>1. /\ \A i \in 1 .. Len(t) : eeprom[TextWrite(i, t).cell] = TextWrite(i, t).byte
            /\ eeprom[EndWrite(t).cell] = EndWrite(t).byte
        BY <1>6, <3>1, Zenon DEF TextOp
      <4>2. QED
        BY <4>1 DEF TextThere, TextWrite, EndWrite
    <3>4. QED
      BY <1>8, <2>0, <2>1, <3>2, <3>3, Zenon DEF TextUse, Fitting, Read, First
  <2>2. CASE IsClear
    <3>1. TextsHead = Blank
      <4>1. Done(Write1("textHead", Blank))
        BY <1>1, <2>2, Zenon DEF UseInv, OpInv
      <4>2. QED
        BY <1>6, <4>1 DEF Write1, TextsHead
    <3>2. stored'["text"].value = DefaultText
      BY <1>7, <1>10, <1>11, <2>2, Zenon DEF Stores
    <3>3. QED
      BY <1>8, <2>2, <3>1, <3>2, Kinds, ValueFacts, Zenon DEF TextUse
  <2>3. CASE IsSave \/ IsCall
    <3>1. stored'["text"] = stored["text"]
      BY <1>7, <1>9, <2>3 DEF Stores
    <3>2. QED
      BY <1>8, <2>0, <2>3, <3>1, Kinds, Zenon DEF UseInv, TextUse, Fitting, Read, First
  <2>4. QED
    BY <1>3, <2>1, <2>2, <2>3
<1>16. QED
  BY <1>12, <1>13, <1>14, <1>15 DEF UseInv
-----------------------------------------------------------------------------
(* All together.                                                           *)

LEMMA NextUse == IInv /\ UseInv /\ [Next]_vars => UseInv'
<1> SUFFICES ASSUME IInv, UseInv, [Next]_vars
             PROVE  UseInv'
  OBVIOUS
<1>1. CASE settings_save
  <2>1. PICK p \in Params \cup Changed :
          /\ Idle /\ g_settings' = p /\ source' = "set"
          /\ Start(SaveCalls(p), [params |-> p])
          /\ UNCHANGED <<eeprom, power>>
    BY <1>1, Zenon DEF settings_save
  <2>2. p \in Blocks
    BY ChangedIsBlock DEF IInv, RamInv
  <2>3. QED
    BY <2>1, <2>2, SaveUse, Zenon DEF Idle
<1>2. CASE settings_set_call_data
  BY <1>2, CallUsed, Zenon DEF settings_set_call_data
<1>3. CASE settings_set_beacon_text
  BY <1>3, TextUsed, ReadOfWritten DEF settings_set_beacon_text
<1>4. CASE cmd_settings_reset
  BY <1>4, ClearUse DEF cmd_settings_reset
<1>5. CASE Write
  <2>1. WriteFinal \/ \E w : WriteEarlier(w)
    BY <1>5, WriteSteps DEF IInv
  <2>2. CASE WriteFinal
    <3>1. todo' = << >>
      BY <2>2 DEF WriteFinal
    <3>2. QED
      BY <1>5, <2>2, <3>1, FinalUse, Zenon DEF Write
  <2>3. ASSUME NEW w, WriteEarlier(w)
        PROVE  UseInv'
    <3>1. todo' # << >>
      BY <2>3 DEF WriteEarlier
    <3>2. UNCHANGED <<histVars, power, g_settings, source>>
      BY <1>5, <3>1 DEF Write
    <3>3. QED
      BY <2>3, <3>2, EarlierUse
  <2>4. QED
    BY <2>1, <2>2, <2>3
<1>6. ASSUME UNCHANGED <<eeprom, stored>>, todo' = << >>, ParamsUse'
      PROVE  UseInv'
  BY <1>6, Zenon DEF UseInv, OpInv, CallUse, TextUse, CallHead, TextsHead, CallThere, TextThere,
              Fitting, Read, First
<1>7. CASE PowerFails
  <2>1. ParamsUse'
    BY <1>7 DEF PowerFails, UseInv, ParamsUse
  <2>2. QED
    BY <1>6, <1>7, <2>1, Zenon DEF PowerFails
<1>8. CASE Load_None
  <2>1. ParamsUse' /\ todo' = << >>
    BY <1>8, Zenon DEF Load_None, histVars, UseInv, ParamsUse, IInv, RamInv
  <2>2. QED
    BY <1>6, <1>8, <2>1, Zenon DEF Load_None, histVars
<1>9. CASE Load_Good
  <2>1. stored["params"].known => Block("params", ParamsLen) = stored["params"].value
    BY <1>9, KnownBlock, Zenon DEF IInv, Load_Good
  <2>2. ParamsUse' /\ todo' = << >>
    BY <1>9, <2>1, Zenon DEF Load_Good, histVars, UseInv, ParamsUse, IInv, RamInv
  <2>3. QED
    BY <1>6, <1>9, <2>2, Zenon DEF Load_Good, histVars
<1>10. CASE Load_Bad
  BY <1>10, ClearUse DEF Load_Bad
<1>11. CASE UNCHANGED vars
  <2>1. UNCHANGED <<eeprom, todo, power, g_settings, source, writing, stored>>
    BY <1>11 DEF vars, histVars
  <2>2. ParamsUse' /\ CallUse' /\ TextUse'
    BY <2>1, Zenon DEF UseInv, ParamsUse, CallUse, TextUse, CallHead, TextsHead, CallThere, TextThere,
                Fitting, Read, First
  <2>3. \A v : (Done(v)' <=> Done(v)) /\ (Pending(v)' <=> Pending(v))
    BY <2>1 DEF Done, Pending
  <2>4. /\ \A c : CallOp(c)' <=> CallOp(c)
        /\ \A t : TextOp(t)' <=> TextOp(t)
    BY <2>1, <2>3, Zenon DEF CallOp, TextOp
  <2>5. /\ IsSave' <=> IsSave
        /\ IsCall' <=> IsCall
        /\ IsText' <=> IsText
        /\ IsClear' <=> IsClear
    BY <2>1 DEF IsSave, IsCall, IsText, IsClear
  <2>6. OpInv'
    <3>1. CallOp(writing.call) => CallOp(writing.call)'
      BY <2>1, <2>4
    <3>2. QED
      BY <2>1, <2>3, <2>4, <2>5, <3>1, Zenon DEF UseInv, OpInv
  <2>7. QED
    BY <2>2, <2>6 DEF UseInv
<1>12. QED
  BY <1>1, <1>2, <1>3, <1>4, <1>5, <1>7, <1>8, <1>9, <1>10, <1>11 DEF Next, settings_load

\* What an operation that ran to its end has stored is what the station uses from
\* then on: settings_load(), settings_get_call_data() and settings_get_beacon_text()
\* return it whole, whatever power failures and other operations follow.
THEOREM StoredIsUsed == Spec => []Durable
  BY InitIInv, NextIInv, InitUse, NextUse, UseIsDurable, PTL DEF Spec
=============================================================================
