---------------------------- MODULE GdsRepair ----------------------------
(***************************************************************************)
(* The GDS record header as the client handler sees it, and the repair of  *)
(* its length field at an IAC EOR boundary                                 *)
(* (src/tn5250/client/protocol_handler.cpp, repairGdsRecordLength).        *)
(*                                                                         *)
(* A record is a sequence of bytes.  The walk along the chain of length    *)
(* fields is a recursive function, so this module can be used from modules *)
(* that state theorems.                                                    *)
(***************************************************************************)
EXTENDS Integers, Sequences

Byte == 0..255

GdsMinRecordLen == 6
GdsMaxRecordLen == 65535
GdsHeaderSize   == 10
GdsTypeHi       == 18     \* 0x12
GdsTypeLo       == 160    \* 0xA0

\* The big-endian 16-bit number in the two bytes that follow the first pos.
Length16(record, pos) == 256 * record[pos + 1] + record[pos + 2]

\* The next length field exists, is large enough and stays in the record.
IsWholeAt(record, pos) ==
  /\ pos + 2 <= Len(record)
  /\ Length16(record, pos) >= GdsMinRecordLen
  /\ pos + Length16(record, pos) <= Len(record)

\* How many bytes of the record the chain of length fields accounts for.
WalkEnd(record) ==
  LET walk[pos \in 0..Len(record)] ==
        IF IsWholeAt(record, pos) THEN walk[pos + Length16(record, pos)] ELSE pos
  IN  walk[0]

\* The rest of the record can carry a corrected length: it has a GDS header
\* of the general data stream type and its size fits the length field.
IsRepairable(record, pos) ==
  /\ Len(record) - pos \in GdsHeaderSize..GdsMaxRecordLen
  /\ record[pos + 3] = GdsTypeHi
  /\ record[pos + 4] = GdsTypeLo

WithLength(record, pos, len) ==
  [record EXCEPT ![pos + 1] = (len \div 256) % 256, ![pos + 2] = len % 256]

RepairGdsRecordLength(record) ==
  LET pos == WalkEnd(record)
  IN  IF pos # Len(record) /\ IsRepairable(record, pos)
      THEN WithLength(record, pos, Len(record) - pos)
      ELSE record
===========================================================================
