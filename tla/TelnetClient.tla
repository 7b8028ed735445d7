--------------------------- MODULE TelnetClient ---------------------------
(***************************************************************************)
(* telnet::Client (src/tn5250/telnet/client.cpp), the library's stand-     *)
(* alone telnet parser: bytes are fed in pieces cut anywhere, and come out *)
(* as application data, negotiation commands, subnegotiations and commands *)
(* without an option.  One action is the handling of one byte, as the      *)
(* state machine of feed has it, or the end of a call of feed.             *)
(***************************************************************************)
EXTENDS Telnet, SequencesExt

Byte == 0..255

CONSTANTS
  Items,       \* what the peer may write: its bytes, and what they mean
  MaxItems,    \* bound: items written, one fewer after each reset
  MaxResets    \* bound: calls of reset

ASSUME ItemsAssumption == \A item \in Items : item.bytes \in Seq(Byte)
ASSUME BoundsAssumption == MaxItems \in Nat /\ MaxResets \in Nat

VARIABLES
  state, appBuffer, pendingCmd, sbOpt, sbBuffer,
  input,      \* bytes of the running call of feed that were not handled yet
  feeding,    \* inside a call of feed
  wire,       \* bytes the peer wrote that were not fed yet
  written,    \* the items written on this connection
  outputs,    \* the callbacks of this connection, in order; one of
              \* application data is kept as one event for each byte
  resets      \* how often reset was called

parser  == <<pendingCmd, sbOpt, sbBuffer>>
peer    == <<wire, written, resets>>
vars    == <<state, appBuffer, parser, input, feeding, peer, outputs>>

States == {"Data", "IAC", "NegotiationOption", "SubnegotiationOption",
           "SubnegotiationData", "SubnegotiationIAC"}

Init ==
  /\ state = "Data" /\ appBuffer = <<>>
  /\ pendingCmd = IAC /\ sbOpt = TransmitBinary /\ sbBuffer = <<>>
  /\ input = <<>> /\ feeding = FALSE
  /\ wire = <<>> /\ written = <<>> /\ resets = 0 /\ outputs = <<>>

-----------------------------------------------------------------------------
(* The peer. *)

EncodeData(data) ==
  FlattenSeq([n \in DOMAIN data |-> IF data[n] = IAC THEN <<IAC, IAC>> ELSE <<data[n]>>])

EncodeSubnegotiation(opt, data) ==
  <<IAC, SB, opt>> \o EncodeData(data) \o <<IAC, SE>>

\* What the parser owes its user for an item.
MeansData(data) == [n \in DOMAIN data |-> <<"AppData", data[n]>>]
MeansSubnegotiation(opt, data) == <<<<"Subnegotiation", opt, data>>>>
MeansNegotiation(cmd, opt) == <<<<"Negotiation", cmd, opt>>>>
MeansCommand(cmd) == <<<<"Command", cmd>>>>

PeerWrites ==
  \E item \in Items :
    /\ Len(written) + resets < MaxItems
    /\ written' = Append(written, item)
    /\ wire' = wire \o item.bytes
    /\ UNCHANGED <<state, appBuffer, parser, input, feeding, resets, outputs>>

Feed ==
  \E n \in 1..Len(wire) :
    /\ ~feeding /\ feeding' = TRUE
    /\ input' = SubSeq(wire, 1, n)
    /\ wire' = SubSeq(wire, n + 1, Len(wire))
    /\ UNCHANGED <<state, appBuffer, parser, written, resets, outputs>>

-----------------------------------------------------------------------------
(* One byte. *)

This == Head(input)

\* In state s, the next byte is one of these.
Handles(s, bytes) ==
  /\ feeding /\ input # <<>> /\ state = s
  /\ This \in bytes /\ input' = Tail(input)
  /\ UNCHANGED <<feeding, peer>>

\* What flushAppData hands over.
Flushed == [n \in DOMAIN appBuffer |-> <<"AppData", appBuffer[n]>>]

DataByte ==
  /\ Handles("Data", Byte \ {IAC})
  /\ appBuffer' = Append(appBuffer, This)
  /\ UNCHANGED <<state, parser, outputs>>

\* Mutant: the data in front of a command is not handed over.
DataIacKeeps ==
  /\ Handles("Data", {IAC})
  /\ state' = "IAC"
  /\ UNCHANGED <<appBuffer, parser, outputs>>

DataIac ==
  /\ Handles("Data", {IAC})
  /\ state' = "IAC"
  /\ outputs' = outputs \o Flushed /\ appBuffer' = <<>>
  /\ UNCHANGED parser

EscapedIac ==
  /\ Handles("IAC", {IAC})
  /\ state' = "Data"
  /\ appBuffer' = Append(appBuffer, IAC)
  /\ UNCHANGED <<parser, outputs>>

BeginSubnegotiation ==
  /\ Handles("IAC", {SB})
  /\ state' = "SubnegotiationOption"
  /\ UNCHANGED <<appBuffer, parser, outputs>>

StraySe ==
  /\ Handles("IAC", {SE})
  /\ state' = "Data"
  /\ UNCHANGED <<appBuffer, parser, outputs>>

StandaloneCommand ==
  /\ Handles("IAC", Standalone \ {SE})
  /\ state' = "Data"
  /\ outputs' = Append(outputs, <<"Command", This>>)
  /\ UNCHANGED <<appBuffer, parser>>

\* Every other byte after IAC is taken for a command with an option, also
\* one that is no command.
NegotiationCommand ==
  /\ Handles("IAC", Byte \ (Standalone \cup {IAC, SB}))
  /\ state' = "NegotiationOption" /\ pendingCmd' = This
  /\ UNCHANGED <<appBuffer, sbOpt, sbBuffer, outputs>>

NegotiationOption ==
  /\ Handles("NegotiationOption", Byte)
  /\ state' = "Data"
  /\ outputs' = Append(outputs, <<"Negotiation", pendingCmd, This>>)
  /\ UNCHANGED <<appBuffer, parser>>

SubnegotiationOption ==
  /\ Handles("SubnegotiationOption", Byte)
  /\ state' = "SubnegotiationData" /\ sbOpt' = This /\ sbBuffer' = <<>>
  /\ UNCHANGED <<appBuffer, pendingCmd, outputs>>

SubnegotiationByte ==
  /\ Handles("SubnegotiationData", Byte \ {IAC})
  /\ sbBuffer' = Append(sbBuffer, This)
  /\ UNCHANGED <<state, appBuffer, pendingCmd, sbOpt, outputs>>

SubnegotiationIac ==
  /\ Handles("SubnegotiationData", {IAC})
  /\ state' = "SubnegotiationIAC"
  /\ UNCHANGED <<appBuffer, parser, outputs>>

\* Mutant: an escape leaves the subnegotiation in a state of its own.
SubnegotiationEscapedApart ==
  /\ Handles("SubnegotiationIAC", {IAC})
  /\ state' = "SubnegotiationEscape" /\ sbBuffer' = Append(sbBuffer, IAC)
  /\ UNCHANGED <<appBuffer, pendingCmd, sbOpt, outputs>>

SubnegotiationEscaped ==
  /\ Handles("SubnegotiationIAC", {IAC})
  /\ state' = "SubnegotiationData" /\ sbBuffer' = Append(sbBuffer, IAC)
  /\ UNCHANGED <<appBuffer, pendingCmd, sbOpt, outputs>>

EndSubnegotiation ==
  /\ Handles("SubnegotiationIAC", {SE})
  /\ state' = "Data" /\ sbBuffer' = <<>>
  /\ outputs' = Append(outputs, <<"Subnegotiation", sbOpt, sbBuffer>>)
  /\ UNCHANGED <<appBuffer, pendingCmd, sbOpt>>

\* Another command inside a subnegotiation is dropped.
CommandInside ==
  /\ Handles("SubnegotiationIAC", Byte \ {IAC, SE})
  /\ state' = "SubnegotiationData"
  /\ UNCHANGED <<appBuffer, parser, outputs>>

\* Mutant: the end of a call does not flush.
EndFeedKeeps ==
  /\ feeding /\ input = <<>> /\ feeding' = FALSE
  /\ UNCHANGED <<state, appBuffer, parser, input, peer, outputs>>

\* The end of a call flushes, so that no data waits for the next one.
EndFeed ==
  /\ feeding /\ input = <<>> /\ feeding' = FALSE
  /\ outputs' = outputs \o Flushed /\ appBuffer' = <<>>
  /\ UNCHANGED <<state, parser, input, peer>>

HandleByte ==
  \/ DataByte \/ DataIac
  \/ EscapedIac \/ BeginSubnegotiation \/ StraySe \/ StandaloneCommand
  \/ NegotiationCommand \/ NegotiationOption
  \/ SubnegotiationOption \/ SubnegotiationByte \/ SubnegotiationIac
  \/ SubnegotiationEscaped \/ EndSubnegotiation \/ CommandInside

\* Mutant: the state survives a reset.
ResetBuffersOnly ==
  /\ ~feeding /\ resets < MaxResets /\ resets' = resets + 1
  /\ appBuffer' = <<>> /\ sbBuffer' = <<>>
  /\ wire' = <<>> /\ written' = <<>> /\ outputs' = <<>>
  /\ UNCHANGED <<state, pendingCmd, sbOpt, input, feeding>>

\* The connection is lost in the middle of anything; after reset the next
\* one begins.
Reset ==
  /\ ~feeding /\ resets < MaxResets /\ resets' = resets + 1
  /\ state' = "Data" /\ appBuffer' = <<>> /\ sbBuffer' = <<>>
  /\ wire' = <<>> /\ written' = <<>> /\ outputs' = <<>>
  /\ UNCHANGED <<pendingCmd, sbOpt, input, feeding>>

Next == PeerWrites \/ Feed \/ HandleByte \/ EndFeed \/ Reset

Spec == Init /\ [][Next]_vars

-----------------------------------------------------------------------------
(* Properties. *)

\* The types of the variables.
TypeOK ==
  /\ state \in States /\ feeding \in BOOLEAN
  /\ appBuffer \in Seq(Byte) /\ sbBuffer \in Seq(Byte)
  /\ pendingCmd \in Byte /\ sbOpt \in Byte
  /\ input \in Seq(Byte) /\ wire \in Seq(Byte)
  /\ written \in Seq(Items) /\ resets \in 0..MaxResets

Owed == FlattenSeq([n \in DOMAIN written |-> written[n].means])

\* Wherever the stream is cut, the callbacks are what the peer's items mean,
\* in their order: data is neither lost nor moved past a command, and a
\* command or subnegotiation cut in two is still one.  That holds on every
\* connection, whatever the one before it was lost in.
CallbacksAreTheItems == IsPrefix(outputs, Owed)

\* When all the bytes were fed and no call is running, nothing is held back:
\* neither data nor a command.
NothingIsHeldBack == (~feeding /\ wire = <<>>) => outputs = Owed

\* Data comes before the command that follows it: when the parser is inside a
\* command, and when no call is running, it keeps no data.
DataComesFirst == (state # "Data" \/ ~feeding) => appBuffer = <<>>

===========================================================================
