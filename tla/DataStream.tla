---------------------------- MODULE DataStream ----------------------------
(***************************************************************************)
(* The bytes of a 5250 data stream: command and order codes, and how far   *)
(* each construct reaches (src/tn5250/client/decoder.cpp and               *)
(* src/tn5250/protocol_constants.h).  Positions count from 1; s is a whole *)
(* payload, and everything is clamped to its end, as the code clamps it.   *)
(***************************************************************************)
EXTENDS GdsRepair

ESC == 4
SOH == 1

CcClearUnit == 64
CcClearUnitAlternate == 32
CcClearFormatTable == 80
CcWriteToDisplay == 17
CcRoll == 35
CcWriteStructuredField == 243
CcWriteErrorCodes == {33, 34}
CcReadCommands == {66, 82, 98, 102, 114}

OpInvite == 1
OpOutputOnly == 2
OpPutGet == 3
OpSaveScreen == 4
OpRestore == 5
OpReadScreen == 8
OpCancelInvite == 10
OpMsgLightOn == 11
OpMsgLightOff == 12

OrderSBA == 17
OrderSF == 29
OrderRA == 2
OrderEA == 3
OrderIC == 19
OrderMC == 20
OrderTD == 16
OrderWDSF == 21

StrpccmdTrigger == 128
StrpccmdSignature == <<252, 215, 195, 214, 64, 131, 128, 161, 128>>
StrpccmdMarkerLen == 10
StrpccmdMaxCommandLen == 123

EndOf(s) == Len(s) + 1
Clamp(s, k) == IF k > EndOf(s) THEN EndOf(s) ELSE k

\* The bytes of s from position j on that are there: none past the end.
Left(s, j) == EndOf(s) - j

\* The first position from k on that holds a byte of stop, or the end.
Until(s, k, stop) ==
  CHOOSE n \in k..EndOf(s) :
    /\ n = EndOf(s) \/ s[n] \in stop
    /\ \A m \in k..(n - 1) : s[m] \notin stop

IsAttribute(byte) == byte \in 32..63

\* The pairs of control words from position k on: where they stop.
ControlWordsEnd(s, k) ==
  LET end[n \in 1..EndOf(s)] ==
        IF Left(s, n) >= 2 /\ ~IsAttribute(s[n]) THEN end[n + 2] ELSE n
  IN  end[k]

\* A start of field: format words, pairs of control words up to an
\* attribute, the attribute and the field length, as far as they are there.
FieldEnd(s, j) ==
  LET attribute == ControlWordsEnd(s, IF Left(s, j) >= 3 THEN j + 3 ELSE EndOf(s))
      after     == Clamp(s, attribute + 1)
  IN  IF Left(s, after) >= 2 THEN after + 2 ELSE after

\* Mutant: an address has one byte.
OrderEndOfOneByteAddress(s, j) ==
  Clamp(s,
    CASE s[j] \in {OrderSBA, OrderIC, OrderMC} -> j + 2
      [] s[j] \in {OrderRA, OrderEA}           -> j + 4
      [] s[j] = OrderTD /\ Left(s, j) >= 2     -> j + 2 + s[j + 1]
      [] s[j] = OrderSF                        -> FieldEnd(s, j)
      [] OTHER                                 -> j + 1)

\* Where the display order, or the text byte, at j ends.
OrderEnd(s, j) ==
  Clamp(s,
    CASE s[j] \in {OrderSBA, OrderIC, OrderMC} -> j + 3
      [] s[j] \in {OrderRA, OrderEA}           -> j + 4
      [] s[j] = OrderTD /\ Left(s, j) >= 2     -> j + 2 + s[j + 1]
      [] s[j] = OrderSF                        -> FieldEnd(s, j)
      [] OTHER                                 -> j + 1)

SohEnd(s, j) == Clamp(s, IF Left(s, j) >= 2 THEN j + 2 + s[j + 1] ELSE EndOf(s))

\* The error row and the three command key masks, zero where they are missing.
SohFields(s, j) ==
  [n \in 1..4 |-> IF s[j + 1] >= 3 + n /\ j + 4 + n <= Len(s) THEN s[j + 4 + n] ELSE 0]

\* A window structured field has its own length, of at least the two bytes
\* that hold it.
WdsfEnd(s, j) ==
  IF Left(s, j) < 3 THEN EndOf(s)
  ELSE Clamp(s, j + 1 + (IF Length16(s, j) < 2 THEN 2 ELSE Length16(s, j)))

IsStrpccmd(s, j) ==
  /\ s[j] = StrpccmdTrigger
  /\ Left(s, j) >= StrpccmdMarkerLen
  /\ SubSeq(s, j + 1, j + 9) = StrpccmdSignature

\* The command after the marker and its wait flag: bytes that are not below
\* 64, and no more than the parameter can hold.
StrpccmdEnd(s, j) ==
  LET flag == j + StrpccmdMarkerLen
      end  == Until(s, flag + 1, 0..63)
  IN  IF Left(s, flag) < 1 \/ s[flag] = ESC THEN flag
      ELSE IF end > flag + 1 + StrpccmdMaxCommandLen
           THEN flag + 1 + StrpccmdMaxCommandLen ELSE end

\* The structured fields after a Write Structured Field command: each has a
\* length, and they go on to the next ESC in front of one.  Where that walk
\* ends, and whether a length was out of range.
StructuredFields(s, j) ==
  LET walk[k \in 1..EndOf(s)] ==
        IF Left(s, k) < 2 \/ s[k] = ESC THEN [end |-> k, good |-> TRUE]
        ELSE IF Length16(s, k - 1) < 2 \/ k + Length16(s, k - 1) > EndOf(s)
        THEN [end |-> EndOf(s), good |-> FALSE]
        ELSE walk[k + Length16(s, k - 1)]
  IN  walk[j]
===========================================================================
