------------------------------ MODULE Outbound ------------------------------
(***************************************************************************)
(* What the client's handler writes, apart from the three-byte commands:   *)
(* records (sendData, sendGDS, sendRawData) and the answers to the         *)
(* TERMINAL-TYPE and NEW-ENVIRON requests (sendDeviceName, sendNewEnviron, *)
(* IBMRSeed::escapeNewEnviron).  They are a peer's items, so that          *)
(* telnet::Client is the host's end of the connection.                     *)
(*                                                                         *)
(* The name of a variable is one byte here; its characters are letters, so *)
(* that none of them is a mark or an IAC, and one stands for them all.     *)
(***************************************************************************)
EXTENDS TelnetClient

Gds == INSTANCE GdsRepair

IS      == 0
Value   == 1
Esc     == 2
UserVar == 3

DEVNAME    == 65
IBMRSEED   == 66
IBMSUBSPW  == 67
IBMSUBSVAR == 68
KBDTYPE    == 69
CODEPAGE   == 70
CHARSET    == 71

OpPutGet == 3

-----------------------------------------------------------------------------
(* Records. *)

\* Mutant: the header is not counted.
RecordOfPayloadLength(flags, opcode, payload) ==
  LET len == Len(payload)
  IN  <<(len \div 256) % 256, len % 256, Gds!GdsTypeHi, Gds!GdsTypeLo, 0, 0, 4, flags, 0, opcode>>
        \o payload

\* The record sendGDS builds; its length is cut to 16 bits.
Record(flags, opcode, payload) ==
  LET len == Gds!GdsHeaderSize + Len(payload)
  IN  <<(len \div 256) % 256, len % 256, Gds!GdsTypeHi, Gds!GdsTypeLo, 0, 0, 4, flags, 0, opcode>>
        \o payload

\* The record of sendData.
DataRecord(data) == Record(0, OpPutGet, data)

SendRawData(data) ==
  FlattenSeq([n \in DOMAIN data |-> IF data[n] = IAC THEN <<IAC, IAC>> ELSE <<data[n]>>])
    \o <<IAC, EOR>>

-----------------------------------------------------------------------------
(* Answers. *)

\* escapeNewEnviron: a byte that is a mark, or 255, has an ESC before it.
EscapeNewEnviron(data) ==
  FlattenSeq([n \in DOMAIN data |->
                IF data[n] <= 3 \/ data[n] = IAC THEN <<Esc, data[n]>> ELSE <<data[n]>>])

\* The variables sendNewEnviron names, with their values; config has a device
\* name, whether there are credentials, and the code page.  A password goes
\* encrypted or not at all: it takes a server seed of eight bytes and a cipher
\* that works.
EnvironVariables(config, serverSeed, clientSeed, substitute) ==
  << <<DEVNAME, config.deviceName>> >>
    \o (IF Len(serverSeed) = 8 /\ config.credentials /\ substitute # <<>>
        THEN << <<IBMRSEED, clientSeed>>, <<IBMSUBSPW, substitute>> >>
        ELSE << <<IBMRSEED, <<>>>> >>)
    \o << <<IBMSUBSVAR, <<>>>>, <<KBDTYPE, config.keyboard>>,
          <<CODEPAGE, config.codePage>>, <<CHARSET, config.charset>> >>

\* Mutant: the encrypted password is not escaped.
EnvironDataUnescaped(variables) ==
  <<IS>> \o FlattenSeq([n \in DOMAIN variables |->
    LET name == variables[n][1]  value == variables[n][2]
    IN  <<UserVar, name, Value>> \o IF name = IBMRSEED THEN EscapeNewEnviron(value) ELSE value])

\* Only the seed and the password are escaped; the rest is text.
EnvironData(variables) ==
  <<IS>> \o FlattenSeq([n \in DOMAIN variables |->
    LET name == variables[n][1]  value == variables[n][2]
    IN  <<UserVar, name, Value>>
          \o IF name \in {IBMRSEED, IBMSUBSPW} THEN EscapeNewEnviron(value) ELSE value])

\* The answer is put between IAC SB and IAC SE as it stands.
Answer(opt, data) == <<IAC, SB, opt>> \o data \o <<IAC, SE>>

SendNewEnviron(variables) == Answer(NewEnviron, EnvironData(variables))

SendDeviceName(terminalType) == Answer(TerminalType, <<IS>> \o terminalType)

-----------------------------------------------------------------------------
(* The host, above telnet. *)

\* What was read so far: the records, and the data behind the last of them.
NothingRead == [records |-> <<>>, open |-> <<>>]

TakeEvent(read, event) ==
  IF event[1] = "AppData" THEN [read EXCEPT !.open = Append(@, event[2])]
  ELSE IF event = <<"Command", EOR>> THEN [records |-> Append(read.records, read.open), open |-> <<>>]
  ELSE read

\* The records of a connection: the data up to each end of record.
RecordsIn(events) ==
  LET read[n \in 0..Len(events)] ==
        IF n = 0 THEN NothingRead ELSE TakeEvent(read[n - 1], events[n])
  IN  read[Len(events)].records

RecordsRead == RecordsIn(outputs)

\* A host that has read no variable yet: it reads the name or the value of
\* one, and the next byte may be escaped.
NothingParsed ==
  [variables |-> <<>>, part |-> "name", name |-> <<>>, value |-> <<>>, escaped |-> FALSE]

Extend(parsed, b) ==
  IF parsed.part = "name" THEN [parsed EXCEPT !.name = Append(@, b)]
  ELSE [parsed EXCEPT !.value = Append(@, b)]

\* The variables, with the one that is read now.
Closed(parsed) ==
  IF parsed.name = <<>> THEN parsed.variables
  ELSE Append(parsed.variables, <<Head(parsed.name), parsed.value>>)

TakeByte(parsed, b) ==
  IF parsed.escaped THEN Extend([parsed EXCEPT !.escaped = FALSE], b)
  ELSE IF b = Esc THEN [parsed EXCEPT !.escaped = TRUE]
  ELSE IF b \in {0, UserVar} THEN [NothingParsed EXCEPT !.variables = Closed(parsed)]
  ELSE IF b = Value THEN [parsed EXCEPT !.part = "value"]
  ELSE Extend(parsed, b)

\* How RFC 1572 has the host read the variables that follow IS.
ReadVariables(data) ==
  LET body == Tail(data)
      parsed[n \in 0..Len(body)] ==
        IF n = 0 THEN NothingParsed ELSE TakeByte(parsed[n - 1], body[n])
  IN  Closed(parsed[Len(body)])

-----------------------------------------------------------------------------
(* Properties.  An item says which record or which variables it carries.   *)

\* Where the client writes nothing but records, the host reads these records,
\* in order and whole, and each is as long as it says (protocol_handler.cpp:
\* 318-356, 358-375).
RecordsArriveWhole ==
  (\A n \in DOMAIN written : written[n].record # <<>>) =>
    /\ IsPrefix(RecordsRead, [n \in DOMAIN written |-> written[n].record])
    /\ \A n \in DOMAIN RecordsRead : Gds!Length16(RecordsRead[n], 0) = Len(RecordsRead[n])

\* Every NEW-ENVIRON answer that reaches the host's end is read back as the
\* variables it was made from: no byte of a random seed or of an encrypted
\* password is taken for a mark, ends a value or opens a new variable.  It
\* holds of seeds and passwords without a byte 255 (protocol_handler.cpp:
\* 423-434, ibmrseed.cpp:100-110).
AnswersAreRead ==
  \A n \in DOMAIN outputs :
    (outputs[n][1] = "Subnegotiation" /\ outputs[n][2] = NewEnviron) =>
      \E m \in DOMAIN written : written[m].variables = ReadVariables(outputs[n][3])
=============================================================================
