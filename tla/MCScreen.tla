----------------------------- MODULE MCScreen -----------------------------
(***************************************************************************)
(* Messages of up to three commands and three orders.  Text is printable   *)
(* EBCDIC; the insert cursor order of the codec is left out, because its   *)
(* code is another order's for the decoder.                                *)
(***************************************************************************)
EXTENDS Screen

Order(code, operands, data) == [code |-> code, operands |-> operands, data |-> data]

Sba   == Order(OrderSBA, <<ESC, SOH>>, <<200, 64>>)
Ra    == Order(OrderRA, <<SOH, 80, 64>>, <<>>)
Soh   == Order(SOH, <<7, 0, 0, ESC, 24, 1, 2, ESC>>, <<>>)
Sf    == Order(OrderSF, <<64, 0, 128, ESC, 32>>, <<201, 202>>)
SfAll == Order(OrderSF, <<96, SOH, 36>>, <<>>)

WriteToDisplay(control, orders) ==
  [code |-> CcWriteToDisplay, control |-> control, orders |-> orders]
ReadMdt == [code |-> CcReadMdtFields, control |-> <<ESC, CcClearUnit>>, orders |-> <<>>]

Message(opcode, varLen, commands) ==
  [header |-> <<GdsTypeHi, GdsTypeLo, 0, 0>>, variableLength |-> varLen,
   variable |-> <<0, 0, opcode>>, commands |-> commands]

\* A Write To Display comes last, as the message object reads it.
Messages ==
  {Message(OpPutGet, 4, before \o <<WriteToDisplay(<<0, 8>>, <<first, second>>)>>) :
     before \in {<<>>, <<ClearUnit>>, <<ClearUnit, ReadMdt>>},
     first \in {Sba, Ra, Soh, Sf}, second \in {Soh, SfAll, Sf}}
  \cup {Message(op, 6, <<ClearUnit, WriteToDisplay(<<32, 0>>, <<Soh, Ra, Sba>>)>>) :
          op \in {OpInvite, OpSaveScreen, OpMsgLightOff, 0}}
  \cup {Message(OpRestore, 4, <<ReadMdt, WriteToDisplay(<<0, 24>>, <<>>)>>)}

LengthsInstead == {0, 5, 4000}

NoStreams == {<<>>}

\* What ScreenProofs supposes of a host holds here.
ASSUME SettingAssumption ==
  MenuIsReadable /\ MenuIsShown /\ EndOutside(LengthsInstead) /\ Streams = NoStreams
==========================================================================
