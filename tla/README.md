# TLA+ models of protocol-tn5250

The repository is a C++ library that lets a client talk TN5250 (IBM 5250 over
telnet, RFC 1205). This directory holds TLA+ models of it, the TLC
configurations that check them on small instances, and proofs checked by TLAPS.
Everything is translated from the source; line numbers of what each definition
models are in `PROJECT.json` under `map`.

## 1. The system

The library does no I/O and starts no thread. Its user owns the socket, feeds
the bytes it read into the library and gets results through callbacks.

```
 TCP bytes --> ProtocolHandler --records--> (application) --> Decoder --> screen callbacks
                   |      ^
       onSendBytes v      | sendData / sendGDS
 TCP bytes <-------+------+
```

| Component | State | Operations |
|---|---|---|
| `ProtocolHandler` (client/protocol_handler) | connection state, handshake flags, open subnegotiation and its bytes, server seed, receive buffer, handshake buffer, record buffer | `onSocketConnected`, `onSocketDisconnected`, `onBytesReceived`; `sendData`, `sendGDS`, `heartbeatPayload` |
| GDS length repair (same file) | none | `repairGdsRecordLength` |
| `Decoder` (client/decoder) | bytes not yet forming a record | `parseData`, `reset` |
| `telnet::Client` (telnet/client) | automaton state, application and subnegotiation buffers, pending option | `feed`, `reset` |
| telnet tables (telnet/commands, options) | none | codes, `isStandaloneTelnetCommand`, names |
| `IBMRSeed` (client/ibmrseed) | none | client seed, DES password substitute, NEW-ENVIRON escaping |
| `Message`, `Header` (message) | header fields, commands | marshal, unmarshal, describe |
| commands and orders (message/command) | fields of each order | marshal, unmarshal, describe |
| code pages, devices, utils | none | tables and conversions |

How they interact. The handler calls the application inside
`onBytesReceived`; the application is expected to pass what it gets to
`Decoder::parseData`, which keeps what is not a whole record. `telnet::Client`
is a second telnet parser that the handler does not use. The message classes
are a second reader of the records the decoder reads. `CodePage` serves the
sign-on (`IBMRSeed`) and the application, which shows and sends the fields.

What is hard in it:

* **Where TCP cuts the stream.** Every parser is called with arbitrary pieces
  and must give the result it would give for the whole.
* **Meaning that depends on history.** 0xFF 0xF1 is data inside a record and a
  keep-alive between records; a record ends at IAC EOR only once EOR is
  negotiated *and* the handshake is complete, and either can happen in the
  middle of a read.
* **Four buffers for one stream.** An application byte may wait in the
  handshake buffer, in a local of the call, or in the record buffer; three
  different places put them together again.
* **Any order of negotiation.** BINARY, EOR, TERMINAL-TYPE, NEW-ENVIRON and early
  data may come in any order, and the handshake must complete exactly once.
* **Connections.** One handler object may see several.
* **Lengths.** A record carries its length in a field that may disagree with
  where IAC EOR is.

What makes each component correct:

* Handler: every application byte is delivered once and in order; nothing is
  held back without a reason; data does not come before the connection report; records leave
  whole; each request is answered and nothing else; the connection is reported in every order
  of negotiation, once.
* Repair: a record with a usable header leaves with a chain of lengths that
  ends at its end; other records are untouched.
* Decoder: what it reports does not depend on how records are cut; every walk
  advances and stays inside; no good record stalls behind a bad one.
* `telnet::Client`: the concatenated output does not depend on the cuts; it
  agrees with the handler on streams where 0xFF is doubled.
* Codecs: what is marshalled is unmarshalled with the same meaning, by the message
  object and by the decoder.
* Sign-on and code pages: a substitute belongs to one account and one pair of
  seeds; a field that is shown and sent back says what it said.

## 2. Modules

| Module | Models |
|---|---|
| `Telnet` | The telnet codes both parsers act on, and `isStandaloneTelnetCommand`. |
| `GdsRepair` | The GDS header and `repairGdsRecordLength`. The walk is a recursive *function*, so that modules with proofs may use it. |
| `ProtocolHandler` | `class ProtocolHandler`, inbound, fed by an arbitrary byte stream. |
| `RecordChannel` | The abstract specification: a FIFO channel of whole records. |
| `Session` | The handler and a host that speaks TN5250; implements `RecordChannel`. |
| `DataStream` | The bytes of a 5250 data stream: codes, and how far each construct reaches. |
| `Decoder` | `Decoder::parseData` and `reset`. |
| `Codec` | `Message::marshal` and `unmarshal`, and those of its commands and orders, as operators. |
| `Reader` | What must hold of a record that both the decoder and the message object read. |
| `Screen` | From a host's message through marshal, repair and decoder to the callbacks; implements `RecordChannel`. |
| `TelnetClient` | `telnet::Client` and a peer. |
| `Outbound` | What the handler writes: records and answers, with `telnet::Client` as the host's end. |
| `CodePage` | The thirteen tables and both conversions. |
| `Signon` | `IBMRSeed::encryptPassword`, and the fields of the screen as text. |
| `MCHandler`, `MCSession`, `MCDecoder`, `MCScreen`, `MCTelnet`, `MCSignon` | Instances for TLC. |
| `HandlerClaims`, `ReaderClaims`, `ScreenClaims`, `SignonClaims` | Statements of comments and tests that the code does not keep. |
| `Recursion` | Induction over numbers and sequences, that recursive functions exist, from the well-foundedness of < alone, and machines that read byte by byte. |
| `SessionProofs` | The safety half of the refinement of `RecordChannel` by `Session`. |
| `ProtocolHandlerProofs` | Theorems on the handler: types, single steps, and the inductive invariant on its buffers. |
| `TelnetClientProofs` | Theorems on the other telnet parser: types, order, what a stream of items is taken for, and that the host reads the client's records and answers as they were made. |
| `SignonProofs` | What the code page tables and UTF-8 give back, and which accounts a substitute tells apart. |
| `DecoderProofs` | How far each construct of the data stream reaches, and the decoder: types, the screen update, what each turn of its loops uses up, that a record's callbacks depend on the record alone, that records do not depend on the pieces they come in, and what the owner of the screen reads in the display bytes. |
| `CodecProofs` | The message object: what is written is read as it was, and what was read is stable. |
| `ScreenProofs` | From the host's message to the callbacks: the safety half of the refinement of `RecordChannel` by `Screen`, and what a message object that is used again holds. |

### ProtocolHandler

Variables have the member names without `m_`. One call of `onBytesReceived`
is `Read(n)` (the insertion into `m_receiveBuffer`), then one action per
iteration of the loop, then `FinishRead`, the code after the loop. The loop
index is not kept: `receiveBuffer` is what lies at and after it, which is what
the `erase` leaves. `processed` is the local of the call.

| Code | Action |
|---|---|
| IAC IAC | `EscapedIac` |
| unescaped 0xFF | `UnescapedIac` (guard `IsUnescaped`) |
| data byte, subnegotiation byte | `DataByte`, `SubnegotiationByte` |
| IAC EOR with framing | `EndRecord` (`FlushRecord`, with the repair) |
| other two-byte commands | `DropStandalone` |
| IAC SE, by option | `EndTerminalType`, `EndNewEnviron`, `EndOtherSubnegotiation` |
| `handleTelnetCommand` | `Will`, `Do`, `BeginSubnegotiation`, `IgnoreCommand` |
| both `break`s and the end of the loop | `FinishRead` (guard: nothing left, or `IsIncomplete`) |
| `checkHandshakeComplete` | operator `CheckHandshakeComplete`, part of the action that calls it |
| `onSocketConnected` + `performHandshake` | `SocketConnected` |
| `onSocketDisconnected` | `SocketDisconnected` |

Abstractions. Bytes are the integers 0..255, of which a configuration uses a
few. A message to the host is its verb and option; the text of an answer to
a subnegotiation is left out. Password encryption is a choice between success
and failure. The name `IBMRSEED` and the 8 bytes of a seed are a shorter tag and
length. Logging is left out. `extracted` and `handed` are history variables: the
application bytes taken out of the stream, and those given to the application.
The menu of mutants that check the properties stands next to the definitions they
change, under comments that begin with "Mutant".

Assumptions on the surroundings. `onBytesReceived` is called while a connection
is up ("Call when raw bytes arrive from the network"). Callbacks do not call back into
the handler. The host's writes happen between calls: a write during a call
commutes with every step of the call, which does not touch the wire, so nothing
is lost by this.

### Session and RecordChannel

The host writes its negotiation in any order, without waiting, and then
records. It writes 0xFF doubled, with the function the client uses itself
(`sendRawData`), or undoubled as Host Integration Server 2000 does; the second
only for records in which no 0xFF is followed by a byte that makes it IAC IAC or
IAC EOR, and in which a leading 0xFF is not followed by a telnet command. Those
records are lost for any receiver; the condition is `IsRecoverable`. Keep-alives
come between records.

The refinement maps the channel's `sent` to the records written, as
`repairGdsRecordLength` leaves them, and its `delivered` to what
`onDataReceived` was called with. `Send` is the host's write, `Deliver` is
`EndRecord`; every other step stutters. The run checks the channel's two halves apart:
`ImplementsRecordChannel` is its safety, which is also proved, and `EveryRecordArrives` its fairness.

### Decoder and DataStream

`buffer` is `m_buffer`, `record` is `rec`, `at` is `i` (and `j` inside a Write To
Display), `display` the display bytes collected so far, and `mode` the loop that
runs. An action is one turn of a loop. A callback is an event, a tuple that begins
with its name; `reported` keeps every record with its events, and `fed` all bytes
passed in, for the properties.

| Code | Action |
|---|---|
| `parseData` is called; it returns | `Feed`; `Return` |
| a length no record has | `SkipByte` |
| bad header, other record type, other opcode | `RejectRecord`, `PassThrough`, `IgnoreRecord` |
| invite, cancel invite, message light | `Signal` |
| a display opcode | `BeginWalk`, then the walk, then `EndWalk` |
| commands | `ClearScreen`, `ReadCommand`, `WriteErrorCode`, `Roll`, `WriteStructuredField`, `UnknownCommand` |
| SOH or a stray byte outside of a Write To Display | `TopSoh`, `StrayByte` |
| Write To Display: control characters, ESC or the end | `OpenWtd`, `CloseWtd` |
| inside of it | `WtdSoh`, `SkipWdsf`, `Strpccmd`, `CopyOrder` (an order with its operands, or a text byte) |
| `reset` | `Reset` |

Loops over operands are operators of `DataStream` that say where a construct ends:
control word pairs of a field, structured fields, text up to the next ESC. Every
one of them is clamped to the record, as in the code. The text of a parse error is
left out. A connection is a sequence of pieces out of `Streams`; after `Reset`
another one out of `NextStreams` follows.

### Codec and Reader

A message, a command and an order are records; `Unmarshal...` and `Marshal...`
are operators on byte sequences. Reading an order or a command gives a set with what was
read and the bytes it took, or an empty set where the method fails; reading a message gives
the bytes read, 0 for a failure. What the class does and a reader might not expect is kept:
`Unmarshal` adds to the commands already in the object, and leaves what it read
before a failure; a Write To Display takes the rest of the record; a command
without a parser becomes a clear unit; Insert Cursor is 3 here and 19 in the
decoder. `Reader` has no state of its own. Its two invariants are over the records
the decoder dispatched in the run, so that they cover every record of `MCDecoder`.
The last section of `Codec` models no code: `ReadableMessages` says which messages are
read as they were written, for the proofs.

### Screen

The host writes a message of `MessageMenu` with the length it has, or with one of
`WrongLengths` in its place. The record goes through `RepairGdsRecordLength` to
the decoder and to a message object that is never cleared. That the handler hands
over whole records in order is what `Session` shows; here it is one step. The
refinement maps the channel's `sent` to `Meaning` of the messages, a definition
made from the message's fields and not from the decoder, and `delivered` to the
callbacks record by record. Its step `Deliver` is `EndWalk`, `Signal` or `IgnoreRecord`. As for `Session`, the channel's halves are checked apart:
`ScreenIsTheMessages` is its safety, which is also proved, and `EveryMessageShows` its fairness.

### TelnetClient and Outbound

One action per state and class of byte of the automaton in `feed`, and `EndFeed`
for the flush at its end. The peer writes items, each with its bytes and with the
callbacks it stands for; they are cut into calls anywhere, and `Reset` may come
between any two calls. A callback of application data is one event per byte, so
that where it was cut does not show. `Outbound` adds what `ProtocolHandler` writes
as further items: `sendGDS`, `sendData`, `sendDeviceName`, `sendNewEnviron`. The name of a
variable is one byte, since no character of the names is special.

### CodePage and Signon

All thirteen tables, most of them as differences from page 037, the reverse table with the rule that a
later byte wins, and the conversions with UTF-8. In `Signon` an account may log on
a few times with different seeds, or a field is written by the host, shown, typed over
and sent. DES is a term: equal results mean equal texts and keys, up to the parity bits.
What is around it, the padding to 8 and 16 characters, the shift, the addition of eight
byte numbers and the chain of blocks, is modelled as the code has it.

## 3. Runs

| Run | Question | Result |
|---|---|---|
| `handler_stream` | What holds for every stream, over two connections? | 3 invariants, 3 action properties hold |
| `session` | What does the application see with a real host? | refinement and 3 liveness properties hold |
| `decoder` | What holds for every record, in any pieces, and do both readers agree? | 7 invariants, 1 liveness property hold |
| `screen` | Does the application see what the host's messages mean? | refinement, 1 liveness property and 1 invariant hold |
| `telnet_client` | Does the other parser give what the peer, or this client, wrote? | 6 invariants hold |
| `signon` | Do substitutes and fields say what they should on every page? | 5 invariants hold |
| `claim_reconnect`, `claim_seed`, `claim_header_only`, `claim_fields`, `claim_repair`, `claim_codepage` | Do comments and tests tell the truth? | each is refuted |

Properties of `handler_stream`, each over all the actions above:

* `InOrder`: extracted bytes = given to the application, then the handshake
  buffer, then `processed`, then the record buffer. The code inserts
  `processed` *in front* of the record buffer at one place and *behind* it at
  another; both are right only because of `HeldForRecordOnly` and its
  strengthening.
* `HeldForRecordOnly`: between two reads only the record buffer holds data,
  and only while framing.
* `ReportedOnce`: the connection is reported exactly once in the life of the handler, in the
  step that delivers the first data or sends the first terminal type. It does not say that
  data comes only while connected: on a later connection it comes without a report (finding 1).
* `FramedDelivery`: once framed, with nothing left from before, only IAC EOR
  delivers, and it empties the record buffer.
* `RequestsAreAnswered`: each WILL, DO and question about the terminal is answered in the step that
  reads it, by one message of its kind and about its option; nothing else is sent but the four
  messages of `performHandshake`.

Properties of `decoder`:

* `FramedAsAWhole`: when no call runs, the records dispatched are those of all bytes
  read as a whole, wherever they were cut, and over a reset. It says how the
  decoder resynchronises, and that `reset` keeps the buffer.
* `NothingCarriesOver`: equal records give equal callbacks, whatever came between.
* `ScreenUpdateComesLast`: a display record ends with exactly one screen update. The
  code relies on it to unlock the keyboard when there is nothing to draw.
* `NothingLeaksToTheScreen`: the owner of the screen reads the display bytes with
  order lengths of its own; it never meets an ESC, SOH or structured field where an order begins.
* `RereadIsStable`: what the message object read and wrote is read and written unchanged.
* `SameCommandsForBoth`: the decoder's commands begin with the message object's.
* `CallsReturn`: every call returns, whatever the bytes.

Properties of `screen`: `ScreenIsTheMessages`, the callbacks are what the messages mean, in order and record
by record; `EveryMessageShows`, no message stays in the decoder's buffer, whatever its length field
said; `ReadingAddsUp`, the message object holds the last header and the commands of all records.

Properties of `telnet_client`: `CallbacksAreTheItems`, the callbacks are what the
items mean, wherever they are cut; `NothingIsHeldBack`, all of them when all was fed;
`DataComesFirst`, data never waits behind a command; `RecordsArriveWhole` and
`AnswersAreRead`, records and NEW-ENVIRON answers of the client are read back as
they were made.

Properties of `signon`: `SubstitutesTellApart`, substitutes are equal exactly for the
same account and seeds; `SequenceNumberIsUndone`, the addition carries; `SentIsWhatIsShown`,
a field says after sending what the user saw, and a NUL is sent as no character, though not always as 0 (finding 7); `LettersDoNotDependOnThePage`, names and
passwords have the same bytes on every page.

Bounds of `handler_stream`. 13 segments, of which any three, with repetition,
are written, in any order, cut anywhere, with reconnections in between. The menu has a whole
subnegotiation, one that is followed by a command, one never ended; SE, EOR and NOP outside of
anything; doubled and undoubled 0xFF; data before, in and after a record. Three
segments are enough for: negotiate EOR, complete the handshake, data; and for a
subnegotiation cut by a disconnect and ended on the second connection. One
segment completes the handshake and negotiates EOR at once, so that data
written before it in the same read is in `processed` when framing begins, and
a third segment can end the record. One DO is of an option the client refuses. 1.7 million states.

Bounds of `session`. Three segments of negotiation, two records and one keep-alive or
three, at most six writes. Four records: a wrong length, a right one that ends in 0xFF, one without a
header that begins with 0xFF, one in which an undoubled 0xFF reads like NOP.
Two records are what it takes for one to spoil the next.

Bounds of `decoder`. A payload is any two of 21 constructs, inside or outside a Write
To Display, the last cut off anywhere: a construct's walk depends on the one before
it only by the position and the mode it leaves, so that two reach every pair.
Operands look like ESC, SOH and orders; lengths are zero, one, right and too big. A
command line of 125 bytes passes the limit of 123. The streams with garbage,
a record of another type, a header alone and a length that waits come in any three
pieces: each byte of a header is once the last of a call. One reset, since
nothing counts resets. 40,660 states.

Bounds of `screen`. Up to three commands and three orders, two messages, and
lengths of 0, 5 and 4000 where the right ones are below 100: no length, one below the
header, one that waits. A length that is too small and still valid is `claim_repair`.
34,770 states.

Bounds of `telnet_client`. 15 items, any two in a row, cut anywhere, one reset in the
place of an item; all states of the automaton are left at a cut and at a
reset. 170,510 states.

Bounds of `signon`. Thirteen pages, all 256 bytes in a field, every ASCII character and
those on both sides of each boundary of UTF-8 typed over it. Accounts differ in case, in
length, after the eighth and the sixteenth character and in an accent; seeds have carries through
some and all bytes, and one has the wrong length. Two logons are what it takes to compare.
32,052 states; the longest run, at about a minute and a half.

Fairness of `SessionSpec`. `WF(HandlerStep)`: a call runs to its end, the code
has no waiting in it. `WF(ReadSome)`: the user of the library keeps reading the socket.
`WF(SocketConnected)`: it connects. `WF(HostNegotiates)`: the host goes through
with what it has to say. No fairness is assumed of sending records; no strong
fairness anywhere. `CHECK_DEADLOCK FALSE`: the bounds stop the host, and then
nothing is left to do.

Fairness of the other specifications. `Decoder`: `WF(Step)`, `parseData` is a plain call with no
waiting in it. `ScreenSpec`: that, and `WF(Feed)`, as the application calls the decoder
from the handler's callback. `TelnetClient` and `Signon` state none: their properties are
safety. `CHECK_DEADLOCK FALSE` stands in every configuration that bounds what a peer or
user does, for then nothing is left to do.

### Findings

1. `claim_reconnect` (protocol_handler.cpp:55). `onSocketDisconnected` resets
   the state alone. On a second connection with the same object the handshake counts as
   complete from the start, so the state stays `Negotiating` and `onConnected`
   is not called. A half-received record or an open subnegotiation is carried
   over as well.
2. `claim_seed` (protocol_handler.cpp:95). IAC IAC is taken for application
   data before the code looks whether a subnegotiation is open. A seed that holds
   0xFF loses it, and the byte lands in the data. `telnet::Client` does this
   right.
3. `claim_header_only` (decoder.cpp:62). The check of the variable header asks for
   one byte more than it has. A record that is its header alone, as a cancel invite
   or message light without payload is, becomes a parse error and is dropped. The message
   object reads it, and the handler's test calls such records well-formed.
4. `claim_fields` (decoder.cpp:196). The walk over structured fields stops at an ESC at the
   start of a field, which is also the high byte of each length from 1024 to 1279. The comment
   above it says that ESC must not end the walk.
5. `claim_repair` (protocol_handler.cpp:197). A length field that is too small but
   leaves something that reads like a length behind it sends the walk into the record; there it
   finds no header and gives up. The record leaves as it came, and the decoder puts its rest in
   front of the next one, against the comment "Trust the EOR so the decoder neither waits for
   bytes that will never come nor reads into the next record".
6. `claim_codepage` (codepage.cpp:128). Where two bytes stand for one character, the
   later one wins the reverse table. A field that is shown and sent back unchanged
   may hold another byte, though the mapping is called bidirectional. The bytes that a page leaves
   undefined are entered as well, all of them for the code point 0: a byte 0 that was shown is sent
   as 0xFF on the pages 420, 424 and 838 and as 0xBF on 870, which `SentIsWhatIsShown`
   allows for.

## 4. Proofs

TLAPS proves, for every menu of segments, streams and items, every number of
segments, items, connections and resets, every tag and seed length:

| Theorem | States |
|---|---|
| `ProtocolHandlerProofs!TypeCorrect` | `Spec => []TypeOK` |
| `OrderKept` | `Spec => []InOrder` |
| `OnlyRecordsHeld` | `Spec => []HeldForRecordOnly` |
| `ReportedWhenItBegins` | `Spec => ReportedOnce` |
| `Framed` | `Spec => FramedDelivery` |
| `EveryRequestIsAnswered` | `Spec => RequestsAreAnswered` |
| `SessionProofs!RecordsAreWhole` | any negotiation of requests and subnegotiations: `SessionSpec => ImplementsRecordChannel` |
| `TelnetClientProofs!TypeCorrect` | `Spec => []TypeOK` |
| `DataFirst` | `Spec => []DataComesFirst` |
| `CallbacksAreOwed` | items of what a peer can write: `Spec => []CallbacksAreTheItems` |
| `NothingStays` | the same items: `Spec => []NothingIsHeldBack` |
| `RecordsComeWhole` | records of up to 65525 bytes of payload: `Spec => []RecordsArriveWhole` |
| `AnswersComeBack` | variables without the byte 255: `Spec => []AnswersAreRead` |
| `DecoderProofs!TypesAreKept` | `Spec => []TypeOK` |
| `DecoderProofs!NothingIsLeft` | `Spec => []NothingCarriesOver` |
| `UpdateComesLast` | `Spec => []ScreenUpdateComesLast` |
| `EveryTurnUsesUp` | a number that each turn of a loop of `parseData` makes smaller |
| `RecordsAreFramed` | `Spec => []FramedAsAWhole` |
| `OnlyOrdersReachTheScreen` | `Spec => []NothingLeaksToTheScreen` |
| `CodecProofs!MessagesComeBack` | every readable message that its length field can count: `Unmarshal(NewMessage, Marshal(m))` is `m` |
| `ReadingIsStable` | `Spec => []RereadIsStable` |
| `ScreenProofs!ReadingKeepsAll` | readable messages, lengths that do not end inside a record: `ScreenSpec => []ReadingAddsUp` |
| `MessagesShow` | the same, and orders the decoder takes for what they are: `ScreenSpec => ScreenIsTheMessages` |
| `SignonProofs!TypeCorrect` | `Spec => []TypeOK` |
| `ShownIsSent` | `Spec => []SentIsWhatIsShown` |
| `LettersAreTheSame` | `Spec => []LettersDoNotDependOnThePage` |
| `SeedComesBack` | `Spec => []SequenceNumberIsUndone` |
| `AccountsToldApart` | passwords of letters, digits and blanks: `Spec => []SubstitutesTellApart` |

### Recursion

The library's induction theorems take an operator as a parameter and cannot be used. What can be used is
`WFMin`: a set with a well-founded relation has a least element. `Recursion` derives from it, for
< on the natural numbers, induction over numbers and sequences as statements about
*sets* (a set of numbers that holds 0 and the successor of each of its members holds all), and that a recursive
function whose body looks only at arguments of smaller measure exists and equals its body. `Backwards` and
`Fixpoint` are the form the data stream needs: functions over the positions of a record that look
ahead. The walks of `DataStream` are recursive functions, so that what they compute can be proved about.

### The handler

The theorems of `ProtocolHandlerProofs` rest on the four named assumptions of `ProtocolHandler` (segments are byte
sequences, the bounds are natural numbers, the tag is a byte sequence, the
credentials are a Boolean).

The argument. `InOrder` is not inductive: if `processed` and the record buffer
could be filled at once, `appendData` would put the new byte in one place and
IAC EOR in the other. The inductive invariant `IInv`
is `TypeOK` and `Held`, which adds what rules this out:

* `processed` or the record buffer is empty, and `processed` is empty between
  calls;
* the handshake buffer is empty between any two steps: data that completes a
  read counts as BINARY, so `FinishRead` fills and releases the buffer in one
  step;
* the record buffer is filled only while framing, and neither flag of
  `Framing` is ever cleared;
* the handshake is complete exactly when data was delivered or the terminal type sent, and the state is
  `Connected` only then. From this `ReportedOnce` follows by one lemma on `checkHandshakeComplete`
  (`CheckReports`), which changes the state and the flag together or neither.

Given `Held`, each action either moves bytes from the end of one buffer to the
beginning of the next, or leaves all of them alone. There is one lemma per action
or group of actions that disturbs the same buffers, and the theorems follow
from `Spec => []IInv`.

`RequestsAreAnswered` needs the types only. What a step took off the buffer tells it from the others: three bytes that
begin with IAC and WILL or DO, or the end of a subnegotiation.

The repair is opaque in these proofs but for one lemma: it returns a byte
sequence.

### The session

`RecordsAreWhole` is a step-by-step refinement: initial states map to initial states, and each step of
`SessionSpec` to `Send`, to `Deliver` or to a stutter. It holds for every menu of non-empty records
(`RecordsAssumption`), every size of read and every bound. Its hypothesis `Negotiates` is about the host:
the segments of `Handshake` are made of WILL, WONT, DO and DONT with any option and of subnegotiations of
any option without 0xFF in them, and among these are one that puts EOR into force and one that asks for the
terminal type. `UsualNegotiation` shows that the negotiation of the run is one of these. Without the
two requests records are not framed, and nothing of the kind could hold.

The invariant must say what the handler is still going to find in bytes it has not looked at yet, and the
handler's buffers are in the way. `Reader` is the handler without them: a machine that stands at one of a few
places (between commands, behind an IAC, behind IAC and a command) with the flags and the open
record, and that reads one byte after the other. `Recursion` shows of any such machine what it tells of a
sequence, and how that splits. The reader tells one thing more, `Broken`, when it meets data outside of records.
`SessionInv` says that there is a place `host`, between records, at which the handler will
stand when it has read everything written, and that for *every* continuation `x` the records sent followed by what the reader
tells of `x` from `host` are the records delivered followed by what it tells, from where the handler
stands now, of the receive buffer, the wire and `x`.

* *The host.* `EncodedRecordRead` and `RecoverableRecordRead` show, by induction over the record, that from any place between
  records the reader takes both ways to write a record for that record and comes back to where
  it was. `PieceRead` and `SegmentRead` do this for the negotiation: nothing is told, and the flags only rise.
* *The handler.* Each iteration of the loop reads from the head of the buffer what the reader reads
  there, and delivers what it tells. An IAC that was not doubled is taken alone, and its next byte decides: there
  (`UnescapedIacKeeps`) the two steps of the handler are one pair for the reader.
* *No data outside of records.* As `Broken` is no record and the records sent do not hold it, the handler
  never meets such data: `NeverBroken`. This is why `processed` stays empty and the tail of a
  call does nothing.
* `x` empty: what is delivered next is the oldest record owed (`OldestDelivered`).

### telnet::Client

`TypeCorrect` and `DataFirst` rest on `ItemsAssumption` (items are byte sequences) and
`BoundsAssumption`. `DataComesFirst` is inductive as it stands, since every way out of the state
`Data` flushes; the type of `sbBuffer` and of `input` is kept byte by byte.

That the callbacks are the items cannot be an invariant of the present alone: inside an item the parser has
read bytes whose meaning is still open. `StreamInv` therefore speaks of what is to come.
`Means(q, s)` is what the parser, standing at `q`, makes of the bytes `s`: a machine of
`Recursion` that reads one byte after the other, without calls, buffers and flushes. The invariant says that
for *every* continuation `x`, what is owed for the items followed by what `x` means is what was said and kept so far, followed by
what the bytes on their way and then `x` mean. Each action that handles a byte moves one step of
`Means` from the right to what was said (`HandledAsItReads`, which needs `DataComesFirst`, or
data would come after a command); a call and its end regroup sequences; and an item that is written adds
its meaning, if its bytes mean that in front of anything (`IsRead`). With nothing on its way, `x` empty gives both properties.

The hypothesis of the two theorems, `IsWritten`, names no part of the parser. It lists what may be on a telnet line: a byte of data (255
doubled), a command, a stray IAC SE, IAC with any other byte and an option, and a subnegotiation of bytes (255 doubled) and of
other commands, which are dropped. An item is any sequence of these, with what each of them means; `WrittenRead` shows by
induction over the sequence that the parser reads it so. `DataIsWritten`, `SubnegotiationIsWritten` and
`RecordIsWritten` show that `EncodeData`, `EncodeSubnegotiation` and a record of the client are of this
form, for every content.

### What the client writes

The last part of `TelnetClientProofs` puts the host's reading on top of `CallbacksAreOwed`: by `StillOwed` the callbacks of the host's
parser are a beginning of what the items written mean, so both theorems are about functions of a sequence of
events or bytes, and the parser, its calls and the cuts of the stream are gone from the argument.

* *Records.* `RecordsComeWhole` is for items that either carry a record, `Record(flags, opcode, payload)` of any payload of
  at most 65525 bytes, or are anything else a peer can write. For a longer payload the 16 bits of the length
  field cannot hold the length, so that the bound is that of the property. `RecordsAreRead` folds `TakeEvent` over what the items mean: after
  each item the records read are those written and no data is open. What the host has read of a
  beginning of the events is a prefix of that, since a fold only appends records.
* *Answers.* `AnswersComeBack` is for items that either answer with a sequence of variables, whose names are bytes other than the marks
  and 255, or are not NEW-ENVIRON subnegotiations. The two values that the code escapes, the seed and the
  substitute, may hold any byte but 255; the others, which it does not escape, no marks either. `VariablesAreRead` shows that `TakeByte`, from a closed variable, reads an escaped value back byte by
  byte, so that the variables before it are closed and in order; marks (0, 1, 2, 3) inside a value are
  the case that needs the escape. `HandlersVariables` shows that what `EnvironVariables` makes of a configuration is of
  that form when its texts hold no marks and its seed and password no 255.

### Decoder

`DecoderProofs` assumes nothing of the streams but that they are byte sequences.

* *Types.* `TypesAreKept` needs to know how far the constructs reach: the first part of the module shows of each
  walk, by induction from the end of the record backwards, that it ends inside it, so that `at` does.
* *Progress.* `EveryTurnUsesUp` is the safety part of `CallsReturn`. Every turn shortens the
  buffer, or advances in the record, or goes on to a later mode at the same place; `Work` weighs the three.
  Some turns advance by a length taken from the data, which is where a walk could stand still: the lemmas on
  extents say that it is never zero.
* *Screen update.* `ScreenUpdateComesLast` speaks of records already reported
  and is not inductive: the running walk could have reported an update before `EndWalk` adds the last
  one. `UpdateInv` adds that the events of the running walk hold no `RawScreenData`.
* *Nothing is left.* `NothingCarriesOver` compares two records that were reported at different times. `Goes` is
  the turn that follows a walk, as a function of where the walk stands, and `Reaches` is the closure of it; they are not
  in the model but in the proof. `AloneInv` says that the running walk reaches the same ends as
  one that has just begun on its record, and that what is reported is the only end such a walk has. Each action takes the turn
  `Goes` names, and `BeginWalk` resets all of the walk: with the display bytes of the record before it, its step is not provable.
* *Framing.* `FramedAsAWhole` compares with a recursive function over all bytes fed. Its inductive form says that for the records
  reported so far, those of the rest of the buffer are what is missing, and it holds in front of any
  further bytes: where the function stops for want of bytes it stops at the same place later on. The hard step is a
  turn that skips or takes a record, for which the function at the old position unrolls to the one at the
  new.
* *The screen.* `NothingLeaksToTheScreen` says that no turn copies ESC, SOH or a structured field where the
  reader of the display bytes looks for an order. The decoder finds the end of an order in the record,
  the reader in the copy, behind which other bytes follow. `OrderMoved` shows that the two
  agree when the copy is the whole of the order or ends with the display bytes; `OrdersOfACopy` adds an order
  at the end of those already read. `CopiedInv` is that the orders read so far end where the display
  bytes end, and are all harmless.

### The message object

`CodecProofs` goes both ways, each from the inside out: an order, the orders of a Write To Display, a command, the
commands, the message.

* *Forward.* `MarshalReads` is for a record that *carries* a readable message, whatever its first six bytes are: the
  reader takes the operands that were written (`OrderRead`), the text of an address up to the next order, the orders up to the
  end, and so on. The readers of lists are recursive functions over the places of the record that look ahead; they are
  unrolled at the places where an order or a command begins. `ReadableMessages` is what this needs and is the weakest we
  know: start of header with eight operands (the class knows no other), a field with an attribute
  where the reader looks for it, text behind an address without bytes that are orders, Write To Display as the
  last command, since it takes the rest. Every message that was read is one of these.
* *Backward.* `ReadIsAMessage`: what is read of any record is a readable message, and needs no more bytes to write than the record
  had. The second half matters: without it the length written might not fit its 16 bits, and the message would not
  be read again. The length of a field's text is the place where the class takes bytes and writes others.
  The two directions give `RecordIsStable`.
* *In the decoder.* `ReadingIsStable` needs that the records dispatched are no longer than the length field counts. `SizeInv` says
  this of the reported records and of the one a walk is in, and is inductive with the types.

### From message to screen

`ScreenProofs` puts the parts together, for every set of messages and wrong lengths under these hypotheses, which
are about the host alone and are evaluated for the setting of the run, as `SettingAssumption` of `MCScreen`:

* `MenuIsReadable`: the messages are readable and fit their length field.
* `EndOutside`: no wrong length ends inside the record. Where one does, the repair goes on in the data and may
  write there, which is what `claim_repair` finds, so that this cannot be dropped.
* `MenuIsShown`, for `MessagesShow` only: the decoder takes each order for the one it was written as. Three things
  the code does are in the way otherwise: Insert Cursor of the message object is another order for the decoder; a start of
  header is as long as its first operand says, which the message object ignores; and text holds no byte at
  which the decoder finds an order, an ESC or its trigger byte. Also, records are data records with commands, for the
  decoder ignores the others.
* `Streams = {<<>>}`: nothing but the host's records comes in.

The argument:

* *The repair.* `WrittenArrives`: what leaves the repair *carries* the message (`Arrives`), that is all of what was
  written behind the length field, and the length field counts the record (`WrittenComes`). With `MarshalReads`, which is about any record that carries a
  message, this gives `ReadingKeepsAll`.
* *The walk.* The decoder's walk over a record is a function of where it stands (`Goes` of `DecoderProofs`). `SameEnd(w, u)`
  says that a walk that stands at `w` ends where one that stands at `u` does. From the inside out, a text, an order,
  the orders, a command and the commands each take the walk to behind them, with the events
  and display bytes they stand for added (`TextWalk`, `OrderWalk`, `OrdersWalk`, `CommandWalk`, `CommandsWalk`). A
  text is the part where the decoder copies bytes one by one that were written at once. The result is `ArrivedIsMeant`:
  a record that carries a message has one end, with the events of `Meaning`.
* *The queue.* `ArrivalInv`: the records under way, in the walk, in the buffer and in the calls, in this order, are those of the messages
  sent and not yet reported (`IsQueue`), and what is reported is what the others mean. The record in the
  walk is known by `AloneInv` of `DecoderProofs`: its walk reaches the same ends as one that has just begun. Each record
  counts its own bytes, so that the buffer is cut where the records end (`BufferComes`); then each action of the decoder leaves the
  queue alone, moves its head, or reports it.

### Sign-on and code pages

`SignonProofs` assumes of accounts and seeds that they are byte sequences, and of typed texts that they are sequences of code
points. Of the thirteen tables it uses `TablesAssumption` and `LettersAssumption` and no entry. Both are
closed formulas about constants, so that TLC's evaluation of them, in every run that extends `CodePage`, is
complete: no parameter is left open.

The inductive invariant `IInv` adds to `TypeOK` that a field that was sent is what was shown, character by character
(`SentByCharacter`), and that each substitute was made by `EncryptPassword` on this page (`IsMade`). The five theorems are then about
operators.

* *Tables.* `ReverseTable`: a code point of the page has the last byte that stands for it, so that it comes back
  (`CharacterComesBack`), and any other is a blank (`SentCode`). The code point 0 has the last byte the table has 0 for, which is 0 or an
  undefined one: all that is proved of it is that it is no character of the page.
* *UTF-8.* `SentText`: the code points read from the UTF-8 of a text are the text. For one character, `ReadFirst` shows that
  its one to four bytes are read as its code and not beyond; `ReadBehind` that what lies in front does not
  change how the rest is read; `TextRead` puts them together by induction over the text. `CodePoints` is a recursive function
  that looks ahead in the bytes, whatever they are: the lemmas of `Recursion` say that it exists.
* *Seeds.* `AddUndone`: the carry `c` into a byte when one is added to the seed, and the carry `d` when 255s are added to the
  result, satisfy `one + c + d = 1` at every byte, `one` being 1 at the last byte and 0 at the
  others. This goes by induction from the last byte on, and gives the byte of the seed back.
* *Substitutes.* `XorTells`: an exclusive or with a known byte can be undone. Bytes are identified with their patterns of eight bits
  (`PatternOf`, `WeightTells`). From equal substitutes this gives back the seeds, the padded name and what the cipher uses
  of the password; `SamePad`, `SameCounts` and `SameName` show that padded texts are equal exactly when what counts of
  them is, since each character of the page comes back from its byte.

The hypothesis of `AccountsToldApart` is what the key schedule leaves. The shift pushes the
highest bit of the password out, and the highest bit of every other byte into the bit of its neighbour that DES ignores:
the lower seven bits of a byte count (`ShiftedBits`). The bytes of capitals and digits are above 192 and the blank is 64, so that
these are told apart; J and é of page 037 (0xD1 and 0x51) are not. All accounts of the run satisfy the
hypothesis. It is about passwords only, names may hold anything.

### Model-checked only

* Liveness (`EveryRecordArrives`, `HandshakeCompletes`, `EverythingIsConsumed`, `EveryMessageShows`, and `CallsReturn`
  beyond the number that shrinks): fairness is out of the prover's reach.
* The agreement of decoder and message object (`SameCommandsForBoth`).

## 5. Not modelled

* Callbacks that call back into the handler or into a parser.
* 255 in the seed or password of an answer: `sendNewEnviron` does not double it, so that
  the answer is broken up by telnet. `AnswersAreRead` is about answers without it and says so.
* Records of more than 65525 bytes: the length is cut to 16 bits, which `Record` has, but no
  run writes one.
* The inner working of DES and the source of random seeds.
* `describe`, the names of codes, the text of errors, hex and binary output, the device table: wording.
  Little-endian and 32-bit helpers: no code calls them.
* The reverse table of a code page is built at once; the code builds it at its first
  use, which one thread cannot tell apart.
* `heartbeatPayload`: it returns the constant IAC NOP and keeps no state.

## 6. What is left

1. Reentrant callbacks: `sendData` or a parser's `feed` from inside a callback, and `reset` from there.
2. Two handlers that negotiate with each other, and a peer that follows RFC 1143: quiescence.
