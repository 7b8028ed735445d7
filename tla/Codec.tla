------------------------------- MODULE Codec -------------------------------
(***************************************************************************)
(* The message object of src/tn5250/message: how a record is read into a   *)
(* header, commands and orders, and how it is written.                     *)
(*                                                                         *)
(* A message is a record: header (record type and reserved bytes),         *)
(* variableLength, variable (flags, reserved, opcode), commands.  The      *)
(* recordLength field is left out: nothing but describe reads it.  A       *)
(* command has a code, its control bytes and its orders; an order has a    *)
(* code, its operands and the display data that follows it.                *)
(*                                                                         *)
(* Reading an order or a command gives a set: what was read and how many   *)
(* bytes that took, or nothing for a failure.  Of a message it gives the   *)
(* bytes read, 0 for a failure, as the code does.                          *)
(***************************************************************************)
EXTENDS DataStream, SequencesExt

CodecIC == 3     \* INSERT_CURSOR is 0x03 here and 0x13 in the decoder
CodecOrders == {SOH, OrderRA, CodecIC, OrderSBA, OrderSF}

CcReadMdtFields == 82

BigEndian16(n) == <<(n \div 256) % 256, n % 256>>

-----------------------------------------------------------------------------
(* Orders. *)

OrderOf(s, j, operandsEnd, dataEnd) ==
  [code     |-> s[j],
   operands |-> SubSeq(s, j + 1, operandsEnd - 1),
   data     |-> SubSeq(s, operandsEnd, dataEnd - 1)]

\* An order of a fixed size.
FixedOrder(s, j, size) ==
  IF Left(s, j) < size THEN {}
  ELSE {[read |-> size, order |-> OrderOf(s, j, j + size, j + size)]}

\* The length byte of a start of header is kept and not looked at.
UnmarshalSoh(s, j) == FixedOrder(s, j, 9)
UnmarshalRa(s, j)  == FixedOrder(s, j, 4)
UnmarshalIc(s, j)  == FixedOrder(s, j, 3)

\* A set buffer address takes the text up to the next byte that is an order.
UnmarshalSba(s, j) ==
  IF Left(s, j) < 3 THEN {}
  ELSE {[read |-> end - j, order |-> OrderOf(s, j, j + 3, end)] :
          end \in {Until(s, j + 3, CodecOrders)}}

\* Mutant: the last byte of a field is left out.
SfDataEndShort(s, attribute) ==
  Clamp(s, attribute + 3 + Length16(s, attribute) - 1)

\* A field's data follows its attribute and its length: as many bytes as the
\* length says, or as there are.
SfDataEnd(s, attribute) == Clamp(s, attribute + 3 + Length16(s, attribute))

\* A start of field; the length itself is written from the data.
UnmarshalSf(s, j) ==
  IF Left(s, j) < 5 THEN {}
  ELSE {[read  |-> SfDataEnd(s, attribute) - j,
         order |-> [code     |-> OrderSF,
                    operands |-> SubSeq(s, j + 1, attribute),
                    data     |-> SubSeq(s, attribute + 3, SfDataEnd(s, attribute) - 1)]] :
          attribute \in {a \in {ControlWordsEnd(s, j + 3)} : Left(s, a) >= 3}}

UnmarshalOrder(s, j) ==
  CASE s[j] = SOH      -> UnmarshalSoh(s, j)
    [] s[j] = OrderRA  -> UnmarshalRa(s, j)
    [] s[j] = CodecIC  -> UnmarshalIc(s, j)
    [] s[j] = OrderSBA -> UnmarshalSba(s, j)
    [] s[j] = OrderSF  -> UnmarshalSf(s, j)

\* Bytes that are no order are skipped, and one order that cannot be read
\* makes all of them unreadable.
UnmarshalOrders(s, j) ==
  LET ordersFrom[k \in j..EndOf(s)] ==
        IF k = EndOf(s) THEN {<<>>}
        ELSE IF s[k] \notin CodecOrders THEN ordersFrom[k + 1]
        ELSE UNION {{<<this.order>> \o rest : rest \in ordersFrom[k + this.read]} :
                      this \in UnmarshalOrder(s, k)}
  IN  ordersFrom[j]

\* Mutant: a field is written without its length.
MarshalOrderWithoutLength(order) == <<order.code>> \o order.operands \o order.data

MarshalOrder(order) ==
  <<order.code>> \o order.operands
    \o (IF order.code = OrderSF THEN BigEndian16(Len(order.data)) ELSE <<>>)
    \o order.data

-----------------------------------------------------------------------------
(* Commands. *)

ClearUnit == [code |-> CcClearUnit, control |-> <<>>, orders |-> <<>>]

UnmarshalCs == {[read |-> 2, command |-> ClearUnit]}

\* A Write To Display reads to the end of the record, other commands
\* included, and fails when that holds no order.
UnmarshalWtd(s, j) ==
  IF Left(s, j) < 4 THEN {}
  ELSE {[read |-> Left(s, j),
         command |-> [code |-> CcWriteToDisplay, control |-> <<s[j + 2], s[j + 3]>>,
                      orders |-> orders]] :
          orders \in {o \in UnmarshalOrders(s, j + 4) : o = <<>> => Left(s, j) = 4}}

UnmarshalRmf(s, j) ==
  IF Left(s, j) < 4 THEN {}
  ELSE {[read |-> 4,
         command |-> [code |-> CcReadMdtFields, control |-> <<s[j + 2], s[j + 3]>>,
                      orders |-> <<>>]]}

\* A command without a parser takes the rest of the record and stays what a
\* command is by default: a clear unit.
UnmarshalCommand(s, j) ==
  IF Left(s, j) < 2 \/ s[j] # ESC THEN {}
  ELSE CASE s[j + 1] = CcClearUnit      -> UnmarshalCs
         [] s[j + 1] = CcWriteToDisplay -> UnmarshalWtd(s, j)
         [] s[j + 1] = CcReadMdtFields  -> UnmarshalRmf(s, j)
         [] OTHER -> {[read |-> Left(s, j), command |-> ClearUnit]}

MarshalCommand(command) ==
  <<ESC, command.code>> \o command.control
    \o FlattenSeq([n \in DOMAIN command.orders |-> MarshalOrder(command.orders[n])])

-----------------------------------------------------------------------------
(* Messages. *)

NewMessage ==
  [header |-> <<0, 0, 0, 0>>, variableLength |-> 0, variable |-> <<0, 0, 0>>,
   commands |-> <<>>]

\* The commands of a record from j on, as far as they can be read, and where
\* that ends.
UnmarshalCommands(s, j) ==
  LET commandsFrom[k \in j..EndOf(s)] ==
        IF k = EndOf(s) \/ UnmarshalCommand(s, k) = {} THEN {[end |-> k, commands |-> <<>>]}
        ELSE UNION {{[rest EXCEPT !.commands = <<this.command>> \o @] :
                       rest \in commandsFrom[k + this.read]} :
                      this \in UnmarshalCommand(s, k)}
  IN  CHOOSE all \in commandsFrom[j] : TRUE

\* Record type and reserved bytes.
HeaderOf(s) == SubSeq(s, 3, 6)

\* Message::unmarshal into a message that may have been used before: what
\* was read before a failure stays, and commands are added to those there.
Unmarshal(message, s) ==
  LET withHeader   == [message EXCEPT !.header = HeaderOf(s)]
      withLength   == [withHeader EXCEPT !.variableLength = s[7]]
      withVariable == [withLength EXCEPT !.variable = SubSeq(s, 8, 10)]
      payload      == UnmarshalCommands(s, 7 + s[7])
  IN  CASE Len(s) < 6 -> [read |-> 0, message |-> message]
        [] Len(s) = 6 -> [read |-> 0, message |-> withHeader]
        [] Len(s) > 6 /\ (s[7] < 4 \/ Len(s) < 6 + s[7]) ->
             [read |-> 0, message |-> withLength]
        [] OTHER ->
             [read |-> IF payload.end = EndOf(s) THEN Len(s) ELSE 0,
              message |-> [withVariable EXCEPT !.commands = @ \o payload.commands]]

\* Message::marshal: nothing when the record does not fit its length field.
Marshal(message) ==
  LET varLen  == IF message.variableLength < 4 THEN 4 ELSE message.variableLength
      payload == FlattenSeq([n \in DOMAIN message.commands |->
                               MarshalCommand(message.commands[n])])
      total   == 6 + varLen + Len(payload)
  IN  IF total > GdsMaxRecordLen THEN <<>>
      ELSE BigEndian16(total) \o message.header \o <<varLen>> \o message.variable
             \o [n \in 1..(varLen - 4) |-> 0] \o payload
-----------------------------------------------------------------------------
(* What an order, a command and a message can be, so that it is read as it *)
(* was written.                                                            *)

\* Pairs of control words between the format word and the attribute.
IsField(w) ==
  \E p \in 0..Len(w) :
    /\ Len(w) = 3 + 2 * p /\ IsAttribute(w[3 + 2 * p])
    /\ \A i \in 0..(p - 1) : ~IsAttribute(w[3 + 2 * i])

OrderShape == [code : CodecOrders, operands : Seq(Byte), data : Seq(Byte)]

Legible(code, w, data) ==
  \/ code = SOH /\ Len(w) = 8 /\ data = <<>>
  \/ code = OrderRA /\ Len(w) = 3 /\ data = <<>>
  \/ code = CodecIC /\ Len(w) = 2 /\ data = <<>>
  \/ code = OrderSBA /\ Len(w) = 2 /\ \A n \in 1..Len(data) : data[n] \notin CodecOrders
  \/ code = OrderSF /\ IsField(w) /\ Len(data) <= GdsMaxRecordLen

Orders == {order \in OrderShape : Legible(order.code, order.operands, order.data)}

Pairs == {w \in Seq(Byte) : Len(w) = 2}

IsPlain(code, control, orders) ==
  \/ code = CcClearUnit /\ control = <<>> /\ orders = <<>>
  \/ code = CcReadMdtFields /\ control \in Pairs /\ orders = <<>>
  \/ code = CcWriteToDisplay /\ control \in Pairs

CommandShape == [code : {CcClearUnit, CcReadMdtFields, CcWriteToDisplay},
                 control : Seq(Byte), orders : Seq(Orders)]

Commands == {command \in CommandShape : IsPlain(command.code, command.control, command.orders)}

\* A Write To Display reads to the end: it is the last command.
IsLast(commands) ==
  \A n \in 1..Len(commands) : commands[n].code = CcWriteToDisplay => n = Len(commands)

MessageShape == [header : Seq(Byte), variableLength : Byte, variable : Seq(Byte),
                 commands : Seq(Commands)]

ReadableMessages ==
  {m \in MessageShape : /\ Len(m.header) = 4 /\ Len(m.variable) = 3
                        /\ m.variableLength >= 4 /\ IsLast(m.commands)}
=============================================================================
