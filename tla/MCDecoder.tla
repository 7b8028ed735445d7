---------------------------- MODULE MCDecoder ----------------------------
(***************************************************************************)
(* The decoder on single records whose payload is any two constructs, in   *)
(* or outside of a Write To Display and the last of them cut off anywhere, *)
(* and on streams of several records that come in any three pieces.        *)
(***************************************************************************)
EXTENDS Reader

Header(opcode, payload) ==
  LET len == GdsHeaderSize + Len(payload)
  IN  <<len \div 256, len % 256, GdsTypeHi, GdsTypeLo, 0, 0, 4, 0, 0, opcode>> \o payload

Wtd    == <<ESC, CcWriteToDisplay, 0, 8>>
Clear  == <<ESC, CcClearUnit>>
Pccmd  == <<StrpccmdTrigger>> \o StrpccmdSignature

\* Operands that look like an ESC, an SOH or an order are among them, and
\* lengths of zero, one and more than there is.
Constructs == {
  Clear, Wtd, <<ESC, CcClearUnitAlternate>>, <<ESC, CcClearFormatTable>>,
  <<ESC, CcRoll, 128, 37, 0, 24>>, <<ESC, 82, ESC, CcClearUnit>>, <<ESC, 33, 200>>,
  <<ESC, CcWriteStructuredField, 0, 4, 217, ESC, 0, 0>>, <<ESC, 112, OrderSF>>,
  <<SOH, 7, 0, 0, 0, 24, 1, 2, ESC>>, <<SOH, 0>>, <<200>>,
  <<OrderSBA, ESC, SOH>>, <<OrderRA, SOH, 4, 64>>, <<OrderTD, 2, ESC, SOH>>,
  <<CodecIC, 5, 6>>, <<OrderSF, 64, 0, 32, 0, 2, 200, 200>>,
  <<OrderWDSF, 0, 4, ESC, SOH>>, <<OrderWDSF, 0, 0>>,
  <<OrderSF, 64, 0, 128, ESC, 32, 0, ESC>>, Pccmd \o <<129, 200, OrderSBA, 1, 1>> }

Payloads == UNION {
  {first \o second \o rest : rest \in Prefixes(last)} :
    <<first, second, last>> \in {<<>>, Wtd} \X (Constructs \cup {<<>>}) \X Constructs }

SingleRecords ==
  {<<Header(OpPutGet, p)>> : p \in Payloads}
    \cup {<<Header(op, <<200>> \o Wtd)>> : op \in 0..13}
    \cup {<<Header(OpOutputOnly, Wtd \o Pccmd \o <<64>> \o [n \in 1..125 |-> 200])>>,
          <<Header(OpPutGet, Wtd \o <<OrderTD>>), Header(OpPutGet, <<200>>),
            Header(OpPutGet, Wtd \o <<OrderTD>>)>>,
          <<Header(OpPutGet, Wtd \o <<64>>) \o Header(OpPutGet, <<64>>)
              \o Header(OpPutGet, Wtd \o <<64>>)>>}

Pieces(s) == {
  <<SubSeq(s, 1, j), SubSeq(s, j + 1, k), SubSeq(s, k + 1, Len(s))>> :
    <<j, k>> \in {c \in (0..Len(s)) \X (0..Len(s)) : c[1] <= c[2]} }

Invite   == Header(OpInvite, <<0>>)
Minimal  == <<0, 6, GdsTypeHi, GdsTypeLo, 0, 0>>
OtherType == <<0, 7, 0, 0, 0, 0, 9>>
TooLong  == <<0, 20, GdsTypeHi, GdsTypeLo, 0, 0, 4, 0>>

CutStreams == UNION {Pieces(s) : s \in {
  Minimal \o Invite, <<0, 0>> \o OtherType \o Invite, Invite \o TooLong,
  Header(OpPutGet, Wtd \o <<OrderSBA, 1, 1>>) \o Minimal }}

AllStreams == SingleRecords \cup CutStreams

AfterReset == {<<Invite \o Invite>>, <<OtherType, Invite, Minimal>>}
==========================================================================
