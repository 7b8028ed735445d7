------------------------- MODULE TelnetClientProofs -------------------------
(***************************************************************************)
(* telnet::Client for every menu of items and every bound: its types, that *)
(* data never stays behind a command, and that a host which reads what the *)
(* handler writes gets the records and the variables back.                 *)
(***************************************************************************)
EXTENDS Outbound, Recursion, SequenceTheorems, TLAPS

USE DEF Byte

\* The codes of Telnet are bytes.
LEMMA CodesAreBytes == {TransmitBinary, IAC, SB, SE} \cup Standalone \subseteq Byte
  BY DEF TransmitBinary, IAC, SB, SE, EOR, GA, Standalone

\* Handling a byte takes one from the input and nothing else.
LEMMA HandledByte ==
  ASSUME TypeOK, HandleByte
  PROVE  /\ This \in Byte /\ input' \in Seq(Byte)
         /\ UNCHANGED <<feeding, wire, written, resets>>
<1>1. input # <<>> /\ input' = Tail(input) /\ UNCHANGED <<feeding, wire, written, resets>>
  <2>1. ASSUME NEW s, NEW bytes, Handles(s, bytes)
        PROVE  input # <<>> /\ input' = Tail(input) /\ UNCHANGED <<feeding, wire, written, resets>>
    BY <2>1 DEF Handles, peer
  <2> QED
    BY <2>1 DEF HandleByte, DataByte, DataIac, EscapedIac, BeginSubnegotiation, StraySe,
         StandaloneCommand, NegotiationCommand, NegotiationOption, SubnegotiationOption,
         SubnegotiationByte, SubnegotiationIac, SubnegotiationEscaped, EndSubnegotiation,
         CommandInside
<1>2. input \in Seq(Byte)
  BY DEF TypeOK
<1> QED
  BY <1>1, <1>2, HeadTailProperties DEF This

\* The two parts of a sequence that is cut.
LEMMA CutType ==
  ASSUME NEW S, NEW s \in Seq(S), NEW n \in 1..Len(s)
  PROVE  SubSeq(s, 1, n) \in Seq(S) /\ SubSeq(s, n + 1, Len(s)) \in Seq(S)
BY SubSeqProperties, LenProperties

LEMMA InitTypeOK == Init => TypeOK
<1>1. \A S : <<>> \in Seq(S)
  BY EmptySeq
<1>2. IAC \in Byte /\ TransmitBinary \in Byte
  BY CodesAreBytes
<1>3. 0 \in 0..MaxResets
  BY BoundsAssumption
<1> HIDE DEF Byte
<1> QED
  BY <1>1, <1>2, <1>3 DEF Init, TypeOK, States

LEMMA HandleByteTypeOK ==
  ASSUME TypeOK, HandleByte
  PROVE  TypeOK'
<1> DEFINE b == This
<1>1. b \in Byte /\ input' \in Seq(Byte) /\ UNCHANGED <<feeding, wire, written, resets>>
  BY HandledByte
<1>2. IAC \in Byte /\ IAC \in 0..255
  BY CodesAreBytes
<1>3. <<>> \in Seq(Byte)
  BY EmptySeq
<1>4. /\ Append(appBuffer, b) \in Seq(Byte) /\ Append(appBuffer, IAC) \in Seq(Byte)
      /\ Append(sbBuffer, b) \in Seq(Byte) /\ Append(sbBuffer, IAC) \in Seq(Byte)
  BY <1>1, <1>2, AppendProperties DEF TypeOK
<1> SUFFICES /\ state' \in States /\ pendingCmd' \in Byte /\ sbOpt' \in Byte
             /\ appBuffer' \in Seq(Byte) /\ sbBuffer' \in Seq(Byte)
  BY <1>1 DEF TypeOK
<1> HIDE DEF Byte
<1>5. CASE DataByte \/ DataIac \/ EscapedIac
  BY <1>3, <1>4, <1>5 DEF DataByte, DataIac, EscapedIac, parser, States, TypeOK
<1>6. CASE BeginSubnegotiation \/ StraySe \/ StandaloneCommand
  BY <1>6 DEF BeginSubnegotiation, StraySe, StandaloneCommand, parser, States, TypeOK
<1>7. CASE NegotiationCommand \/ NegotiationOption
  BY <1>1, <1>7 DEF NegotiationCommand, NegotiationOption, parser, States, TypeOK
<1>8. CASE SubnegotiationOption \/ SubnegotiationByte \/ SubnegotiationIac
  BY <1>1, <1>3, <1>4, <1>8 DEF SubnegotiationOption, SubnegotiationByte, SubnegotiationIac,
       parser, States, TypeOK
<1>9. CASE SubnegotiationEscaped \/ EndSubnegotiation \/ CommandInside
  BY <1>3, <1>4, <1>9 DEF SubnegotiationEscaped, EndSubnegotiation, CommandInside,
       parser, States, TypeOK
<1> QED
  BY <1>5, <1>6, <1>7, <1>8, <1>9 DEF HandleByte

\* The types of the variables, whatever the peer writes and wherever the
\* stream is cut.
THEOREM TypeCorrect == Spec => []TypeOK
<1>1. Init => TypeOK
  BY InitTypeOK
<1>2. TypeOK /\ [Next]_vars => TypeOK'
  <2> SUFFICES ASSUME TypeOK, [Next]_vars
               PROVE  TypeOK'
    OBVIOUS
  <2>1. CASE PeerWrites
    <3>1. PICK item \in Items :
            /\ written' = Append(written, item)
            /\ wire' = wire \o item.bytes
            /\ UNCHANGED <<state, appBuffer, parser, input, feeding, resets, outputs>>
      BY <2>1 DEF PeerWrites
    <3>2. wire' \in Seq(Byte)
      BY <3>1, ItemsAssumption DEF TypeOK
    <3> QED
      BY <3>1, <3>2 DEF TypeOK, parser
  <2>2. CASE Feed
    <3>1. PICK n \in 1..Len(wire) :
            /\ feeding' = TRUE
            /\ input' = SubSeq(wire, 1, n) /\ wire' = SubSeq(wire, n + 1, Len(wire))
            /\ UNCHANGED <<state, appBuffer, parser, written, resets, outputs>>
      BY <2>2 DEF Feed
    <3>2. wire \in Seq(Byte)
      BY DEF TypeOK
    <3>3. input' \in Seq(Byte) /\ wire' \in Seq(Byte)
      <4> HIDE DEF Byte
      <4> QED BY <3>1, <3>2, CutType
    <3> QED
      BY <3>1, <3>3 DEF TypeOK, parser
  <2>3. CASE HandleByte
    BY <2>3, HandleByteTypeOK
  <2>4. CASE EndFeed
    BY <2>4 DEF EndFeed, TypeOK, parser, peer
  <2>5. CASE Reset
    BY <2>5, BoundsAssumption DEF Reset, TypeOK, States
  <2>6. CASE UNCHANGED vars
    BY <2>6 DEF vars, TypeOK, parser, peer
  <2> QED
    BY <2>1, <2>2, <2>3, <2>4, <2>5, <2>6 DEF Next
<1> QED
  BY <1>1, <1>2, PTL DEF Spec

\* A command begins only after the data before it was handed over, and a call
\* ends only after that: no data is left behind or overtaken.
THEOREM DataFirst == Spec => []DataComesFirst
<1>1. Init => DataComesFirst
  BY DEF Init, DataComesFirst
<1>2. DataComesFirst /\ [Next]_vars => DataComesFirst'
  <2> SUFFICES ASSUME DataComesFirst, [Next]_vars
               PROVE  DataComesFirst'
    OBVIOUS
  <2>1. CASE HandleByte
    <3>1. CASE DataByte \/ DataIac \/ EscapedIac
      BY <2>1, <3>1 DEF DataByte, DataIac, EscapedIac, Handles, DataComesFirst
    <3>2. CASE \/ BeginSubnegotiation \/ StraySe \/ StandaloneCommand
               \/ NegotiationCommand \/ NegotiationOption
      BY <2>1, <3>2 DEF BeginSubnegotiation, StraySe, StandaloneCommand,
           NegotiationCommand, NegotiationOption, Handles, DataComesFirst
    <3>3. CASE \/ SubnegotiationOption \/ SubnegotiationByte \/ SubnegotiationIac
               \/ SubnegotiationEscaped \/ EndSubnegotiation \/ CommandInside
      BY <2>1, <3>3 DEF SubnegotiationOption, SubnegotiationByte, SubnegotiationIac,
           SubnegotiationEscaped, EndSubnegotiation, CommandInside, Handles, DataComesFirst
    <3> QED
      BY <2>1, <3>1, <3>2, <3>3 DEF HandleByte
  <2>2. CASE PeerWrites
    BY <2>2 DEF PeerWrites, DataComesFirst
  <2>3. CASE Feed
    BY <2>3 DEF Feed, DataComesFirst
  <2>4. CASE EndFeed \/ Reset
    BY <2>4 DEF EndFeed, Reset, DataComesFirst
  <2>5. CASE UNCHANGED vars
    BY <2>5 DEF vars, DataComesFirst
  <2> QED
    BY <2>1, <2>2, <2>3, <2>4, <2>5 DEF Next
<1> QED
  BY <1>1, <1>2, PTL DEF Spec

-----------------------------------------------------------------------------
(* What a stream means.                                                    *)
(*                                                                         *)
(* The parser without its variables: where it stands, where a byte takes   *)
(* it and what it says then, with data handed over at once.                *)

HIDE DEF Byte

Event ==
  ({"AppData", "Command"} \X Byte) \cup ({"Negotiation"} \X Byte \X Byte)
    \cup ({"Subnegotiation"} \X Byte \X Seq(Byte))

Standings == [state : States, cmd : Byte, opt : Byte, sb : Seq(Byte)]

At(s)             == [state |-> s, cmd |-> 0, opt |-> 0, sb |-> <<>>]
AwaitsOption(cmd) == [state |-> "NegotiationOption", cmd |-> cmd, opt |-> 0, sb |-> <<>>]
Inside(s, opt, sb) == [state |-> s, cmd |-> 0, opt |-> opt, sb |-> sb]

AfterIac(b) ==
  IF b = SB THEN At("SubnegotiationOption")
  ELSE IF b \in Standalone \cup {IAC} THEN At("Data") ELSE AwaitsOption(b)

Goes(q, b) ==
  IF q.state = "Data" THEN At(IF b = IAC THEN "IAC" ELSE "Data")
  ELSE IF q.state = "IAC" THEN AfterIac(b)
  ELSE IF q.state = "NegotiationOption" THEN At("Data")
  ELSE IF q.state = "SubnegotiationOption" THEN Inside("SubnegotiationData", b, <<>>)
  ELSE IF q.state = "SubnegotiationData" THEN
    IF b = IAC THEN Inside("SubnegotiationIAC", q.opt, q.sb)
    ELSE Inside("SubnegotiationData", q.opt, Append(q.sb, b))
  ELSE IF b = SE THEN At("Data")
  ELSE Inside("SubnegotiationData", q.opt, IF b = IAC THEN Append(q.sb, b) ELSE q.sb)

Says(q, b) ==
  IF (q.state = "Data" /\ b # IAC) \/ (q.state = "IAC" /\ b = IAC) THEN <<<<"AppData", b>>>>
  ELSE IF q.state = "IAC" /\ b \in Standalone \ {SE} THEN <<<<"Command", b>>>>
  ELSE IF q.state = "NegotiationOption" THEN <<<<"Negotiation", q.cmd, b>>>>
  ELSE IF q.state = "SubnegotiationIAC" /\ b = SE THEN <<<<"Subnegotiation", q.opt, q.sb>>>>
  ELSE <<>>

Parser ==
  [states |-> Standings, reads |-> Byte, tells |-> Event,
   goes |-> [q \in Standings |-> [b \in Byte |-> Goes(q, b)]],
   says |-> [q \in Standings |-> [b \in Byte |-> Says(q, b)]]]

\* What the parser says of the bytes s when it stands at q.
Means(q, s) == Told(Parser, q, s)

LEMMA StandingsKnown ==
  /\ \A s \in States : At(s) \in Standings
  /\ \A cmd \in Byte : AwaitsOption(cmd) \in Standings
  /\ \A s \in States, opt \in Byte, sb \in Seq(Byte) : Inside(s, opt, sb) \in Standings
<1>1. 0 \in Byte /\ <<>> \in Seq(Byte)
  BY EmptySeq DEF Byte
<1> QED
  BY <1>1 DEF At, AwaitsOption, Inside, Standings, States

LEMMA GoesToAStanding ==
  ASSUME NEW q \in Standings, NEW b \in Byte
  PROVE  Goes(q, b) \in Standings
<1>1. /\ q.state \in States /\ q.opt \in Byte /\ q.sb \in Seq(Byte) /\ <<>> \in Seq(Byte)
      /\ Append(q.sb, b) \in Seq(Byte)
  BY EmptySeq, AppendProperties DEF Standings
<1>2. {"Data", "IAC", "SubnegotiationOption", "SubnegotiationData", "SubnegotiationIAC"}
        \subseteq States
  BY DEF States
<1> QED
  BY <1>1, <1>2, StandingsKnown DEF Goes, AfterIac

LEMMA SaysEvents ==
  ASSUME NEW q \in Standings, NEW b \in Byte
  PROVE  Says(q, b) \in Seq(Event)
<1>1. q.cmd \in Byte /\ q.opt \in Byte /\ q.sb \in Seq(Byte)
  BY DEF Standings
<1>2. /\ <<"AppData", b>> \in Event /\ <<"Command", b>> \in Event
      /\ <<"Negotiation", q.cmd, b>> \in Event /\ <<"Subnegotiation", q.opt, q.sb>> \in Event
  BY <1>1 DEF Event
<1>3. <<>> \in Seq(Event) /\ \A e \in Event : <<e>> \in Seq(Event)
  BY EmptySeq
<1> QED
  BY <1>2, <1>3 DEF Says

LEMMA ParserIsMachine == IsMachine(Parser)
<1>1. /\ [q \in Standings |-> [b \in Byte |-> Goes(q, b)]] \in [Standings -> [Byte -> Standings]]
      /\ [q \in Standings |-> [b \in Byte |-> Says(q, b)]] \in [Standings -> [Byte -> Seq(Event)]]
  BY GoesToAStanding, SaysEvents
<1> QED
  BY <1>1 DEF IsMachine, Parser

LEMMA ParserIs ==
  /\ Parser.states = Standings /\ Parser.reads = Byte /\ Parser.tells = Event
  /\ \A q \in Standings, b \in Byte :
       Parser.goes[q][b] = Goes(q, b) /\ Parser.says[q][b] = Says(q, b)
BY DEF Parser

\* The meaning of a stream, byte by byte.
LEMMA MeaningOf ==
  ASSUME NEW q \in Standings
  PROVE  /\ Means(q, <<>>) = <<>>
         /\ \A s \in Seq(Byte) : Means(q, s) \in Seq(Event)
         /\ \A b \in Byte, s \in Seq(Byte) :
              Means(q, <<b>> \o s) = Says(q, b) \o Means(Goes(q, b), s)
<1>1. /\ Told(Parser, q, <<>>) = <<>>
      /\ \A s \in Seq(Parser.reads) : Told(Parser, q, s) \in Seq(Parser.tells)
      /\ \A b \in Parser.reads, s \in Seq(Parser.reads) :
           Told(Parser, q, <<b>> \o s) = Parser.says[q][b] \o Told(Parser, Parser.goes[q][b], s)
  <2> HIDE DEF Byte
  <2>1. q \in Parser.states
    BY ParserIs
  <2>2. ToldUnrolls(Parser, q)
    BY <2>1, ParserIsMachine, ToldUnrolled, Zenon
  <2> QED
    BY <2>2 DEF ToldUnrolls
<1> HIDE DEF Byte
<1>2. /\ Means(q, <<>>) = <<>>
      /\ \A s \in Seq(Byte) : Means(q, s) \in Seq(Event)
  BY <1>1, ParserIs DEF Means
<1>3. ASSUME NEW b \in Byte, NEW s \in Seq(Byte)
      PROVE  Means(q, <<b>> \o s) = Says(q, b) \o Means(Goes(q, b), s)
  <2>1. Told(Parser, q, <<b>> \o s) = Parser.says[q][b] \o Told(Parser, Parser.goes[q][b], s)
    BY <1>1, ParserIs
  <2> QED
    BY <2>1, ParserIs DEF Means
<1> QED
  BY <1>2, <1>3

-----------------------------------------------------------------------------
(* The invariant. *)

InData == At("Data")

\* From q on, the parser takes these bytes for this, and stands at r then.
ReadsTo(q, bytes, means, r) ==
  /\ bytes \in Seq(Byte) /\ means \in Seq(Event)
  /\ \A x \in Seq(Byte) : Means(q, bytes \o x) = means \o Means(r, x)

LEMMA ReadsToLeads ==
  \A q, bytes, means, r : ReadsTo(q, bytes, means, r) = Leads(Parser, q, bytes, means, r)
BY ParserIs DEF ReadsTo, Leads, Means

IsRead(bytes, means) == ReadsTo(InData, bytes, means, InData)

Standing ==
  IF state = "NegotiationOption" THEN AwaitsOption(pendingCmd)
  ELSE IF state \in {"SubnegotiationData", "SubnegotiationIAC"} THEN Inside(state, sbOpt, sbBuffer)
  ELSE At(state)

Said == outputs \o Flushed

\* Whatever the peer goes on to write: what its items mean is what the parser
\* said and is still going to say of the bytes that are on their way.
StreamInv ==
  /\ outputs \in Seq(Event) /\ (~feeding => input = <<>>)
  /\ \A x \in Seq(Byte) :
       Owed \o Means(InData, x) = Said \o Means(Standing, (input \o wire) \o x)

LEMMA StandingIsOne == TypeOK => Standing \in Standings
BY StandingsKnown DEF Standing, TypeOK, States

\* Data as events: one for each byte.
AsData == [b \in Byte |-> <<"AppData", b>>]

LEMMA DataEvents ==
  ASSUME NEW d \in Seq(Byte)
  PROVE  /\ MeansData(d) \in Seq(Event)
         /\ \A b \in Byte : MeansData(Append(d, b)) = Append(MeansData(d), <<"AppData", b>>)
         /\ MeansData(<<>>) = <<>>
<1>1. MapsInto(AsData, Byte, Event)
  BY DEF MapsInto, AsData, Event
<1>2. \A s \in Seq(Byte) : Mapped(AsData, s) = MeansData(s)
  <2>1. ASSUME NEW s \in Seq(Byte)
        PROVE  Mapped(AsData, s) = MeansData(s)
    <3>1. \A n \in DOMAIN s : s[n] \in Byte
      BY LenProperties, ElementOfSeq
    <3> QED
      BY <3>1 DEF Mapped, MeansData, AsData
  <2> QED
    BY <2>1
<1>3. \A b \in Byte : Append(d, b) \in Seq(Byte) /\ AsData[b] = <<"AppData", b>>
  BY AppendProperties DEF AsData
<1>4. MeansData(<<>>) = <<>>
  <2>1. DOMAIN <<>> = {}
    BY EmptySeq
  <2> QED
    BY <2>1 DEF MeansData
<1>5. \A b \in Byte : Mapped(AsData, Append(d, b)) = Append(Mapped(AsData, d), AsData[b])
  BY <1>1, MappedAppend
<1>6. \A b \in Byte : MeansData(Append(d, b)) = Append(MeansData(d), <<"AppData", b>>)
  BY <1>2, <1>3, <1>5
<1>7. Mapped(AsData, d) \in Seq(Event)
  BY <1>1, MappedSeq
<1> QED
  BY <1>2, <1>4, <1>6, <1>7

LEMMA FlushedIsMeant == Flushed = MeansData(appBuffer)
BY DEF Flushed, MeansData

\* What the items mean, and one more of them.
LEMMA OwedGrows ==
  ASSUME \A item \in Items : item.means \in Seq(Event), NEW w \in Seq(Items)
  PROVE  /\ FlattenSeq([n \in DOMAIN w |-> w[n].means]) \in Seq(Event)
         /\ \A item \in Items :
              FlattenSeq([n \in DOMAIN Append(w, item) |-> Append(w, item)[n].means])
                = FlattenSeq([n \in DOMAIN w |-> w[n].means]) \o item.means
<1> DEFINE f == [item \in Items |-> item.means]
           M(s) == [n \in DOMAIN s |-> s[n].means]
<1>1. MapsInto(f, Items, Seq(Event))
  BY DEF MapsInto
<1>2. ASSUME NEW s \in Seq(Items)
      PROVE  Mapped(f, s) = M(s)
  <2>1. \A n \in DOMAIN s : s[n] \in Items
    BY LenProperties, ElementOfSeq
  <2> QED
    BY <2>1 DEF Mapped
<1>3. M(w) \in Seq(Seq(Event))
  <2> HIDE DEF f, M
  <2>1. Mapped(f, w) \in Seq(Seq(Event))
    BY <1>1, MappedSeq
  <2> QED
    BY <1>2, <2>1
<1>4. ASSUME NEW item \in Items
      PROVE  M(Append(w, item)) = Append(M(w), item.means)
  <2>1. Append(w, item) \in Seq(Items) /\ f[item] = item.means
    BY AppendProperties
  <2> HIDE DEF f, M
  <2>2. Mapped(f, Append(w, item)) = Append(Mapped(f, w), f[item])
    BY <1>1, MappedAppend
  <2> QED
    BY <1>2, <2>1, <2>2
<1> HIDE DEF M
<1>5. FlattenSeq(M(w)) \in Seq(Event)
  <2>1. <<>> \in Seq(Event)
    BY EmptySeq
  <2> QED
    BY <1>3, <2>1, FlattenAppend
<1>6. ASSUME NEW item \in Items
      PROVE  FlattenSeq(M(Append(w, item))) = FlattenSeq(M(w)) \o item.means
  BY <1>3, <1>4, FlattenAppend
<1> QED
  BY <1>5, <1>6 DEF M

LEMMA NothingOwed == FlattenSeq([n \in DOMAIN <<>> |-> <<>>[n].means]) = <<>>
<1>1. [n \in DOMAIN <<>> |-> <<>>[n].means] = <<>>
  <2>1. DOMAIN <<>> = {}
    BY EmptySeq
  <2> QED
    BY <2>1
<1> QED
  BY <1>1, FlattenIsTo, EmptySeq

LEMMA StreamTypes ==
  ASSUME \A item \in Items : IsRead(item.bytes, item.means), TypeOK, StreamInv
  PROVE  /\ Owed \in Seq(Event) /\ Flushed \in Seq(Event) /\ Said \in Seq(Event)
         /\ input \o wire \in Seq(Byte) /\ Standing \in Standings /\ InData \in Standings
         /\ outputs \in Seq(Event) /\ input \in Seq(Byte) /\ wire \in Seq(Byte)
<1>1. Flushed \in Seq(Event)
  BY FlushedIsMeant, DataEvents DEF TypeOK
<1>2. Owed \in Seq(Event)
  BY OwedGrows DEF Owed, IsRead, ReadsTo, TypeOK
<1>3. InData \in Standings
  BY StandingsKnown DEF InData, States
<1>4. input \in Seq(Byte) /\ wire \in Seq(Byte) /\ outputs \in Seq(Event)
  BY DEF TypeOK, StreamInv
<1> QED
  BY <1>1, <1>2, <1>3, <1>4, StandingIsOne, ConcatProperties DEF Said

\* Standing where a byte is handled, and what is said of it.
LEMMA HandledAsItReads ==
  ASSUME TypeOK, DataComesFirst, DataComesFirst', HandleByte, outputs \in Seq(Event)
  PROVE  Standing' = Goes(Standing, This) /\ Said' = Said \o Says(Standing, This)
<1>1. /\ This \in Byte /\ appBuffer \in Seq(Byte) /\ state \in States
      /\ MeansData(appBuffer) \in Seq(Event)
  BY HandledByte, DataEvents DEF TypeOK
<1>2. Said \in Seq(Event) /\ Said \o <<>> = Said
  <2>1. Said \in Seq(Event)
    BY <1>1, FlushedIsMeant, ConcatProperties DEF Said
  <2> QED
    BY <2>1, ConcatEmptySeq
\* A byte of data is kept.
<1>3. ASSUME appBuffer' = Append(appBuffer, This), outputs' = outputs
      PROVE  Said' = Said \o <<<<"AppData", This>>>>
  <2>1. MeansData(appBuffer') = Append(MeansData(appBuffer), <<"AppData", This>>)
    BY <1>1, <1>3, DataEvents
  <2>2. <<"AppData", This>> \in Event /\ <<<<"AppData", This>>>> \in Seq(Event)
    BY <1>1 DEF Event
  <2>3. Append(MeansData(appBuffer), <<"AppData", This>>) = MeansData(appBuffer) \o <<<<"AppData", This>>>>
    BY <1>1, <2>2, AppendIsConcat
  <2>4. (outputs \o MeansData(appBuffer)) \o <<<<"AppData", This>>>>
          = outputs \o (MeansData(appBuffer) \o <<<<"AppData", This>>>>)
    BY <1>1, <2>2, Regroup DEF IsRegrouped
  <2> QED
    BY <1>3, <2>1, <2>3, <2>4 DEF Said, Flushed, MeansData
\* A command is handed over, with no data before it.
<1>4. ASSUME NEW e \in Event, appBuffer' = appBuffer, appBuffer = <<>>, outputs' = Append(outputs, e)
      PROVE  Said' = Said \o <<e>>
  <2>1. Flushed = <<>> /\ Flushed' = <<>>
    BY <1>4, DataEvents DEF Flushed, MeansData
  <2>2. Append(outputs, e) = outputs \o <<e>> /\ outputs \o <<>> = outputs
        /\ (outputs \o <<e>>) \o <<>> = outputs \o <<e>>
    <3>1. Append(outputs, e) \in Seq(Event) /\ Append(outputs, e) = outputs \o <<e>>
      BY AppendProperties, AppendIsConcat
    <3> QED
      BY <3>1, ConcatEmptySeq
  <2> QED
    BY <1>4, <2>1, <2>2 DEF Said
\* Nothing is said.
<1>5. ASSUME appBuffer' = appBuffer, outputs' = outputs
      PROVE  Said' = Said \o <<>>
  BY <1>2, <1>5 DEF Said, Flushed
<1>6. CASE DataByte
  <2>1. state = "Data" /\ state' = "Data" /\ This # IAC
        /\ appBuffer' = Append(appBuffer, This) /\ outputs' = outputs
    BY <1>6 DEF DataByte, Handles
  <2>2. Standing = At("Data") /\ Standing' = At("Data")
    BY <2>1 DEF Standing
  <2>3. At("Data").state = "Data"
    BY DEF At
  <2> QED
    BY <1>3, <2>1, <2>2, <2>3 DEF Goes, Says
<1>7. CASE DataIac
  <2>1. state = "Data" /\ state' = "IAC" /\ This = IAC
        /\ outputs' = outputs \o Flushed /\ appBuffer' = <<>>
    BY <1>7 DEF DataIac, Handles
  <2>2. Standing = At("Data") /\ Standing' = At("IAC") /\ At("Data").state = "Data"
    BY <2>1 DEF Standing, At
  <2>3. Flushed' = <<>>
    BY <2>1, DataEvents DEF Flushed, MeansData
  <2>4. Said' = Said \o <<>>
    BY <1>2, <2>1, <2>3 DEF Said
  <2> QED
    BY <2>1, <2>2, <2>4 DEF Goes, Says
<1>8. CASE EscapedIac
  <2>1. state = "IAC" /\ state' = "Data" /\ This = IAC
        /\ appBuffer' = Append(appBuffer, This) /\ outputs' = outputs
    BY <1>8 DEF EscapedIac, Handles
  <2>2. Standing = At("IAC") /\ Standing' = At("Data") /\ At("IAC").state = "IAC"
    BY <2>1 DEF Standing, At
  <2>3. IAC # SB
    BY DEF IAC, SB
  <2> QED
    BY <1>3, <2>1, <2>2, <2>3 DEF Goes, Says, AfterIac
<1>9. CASE BeginSubnegotiation \/ StraySe \/ StandaloneCommand \/ NegotiationCommand
  <2>1. state = "IAC" /\ Standing = At("IAC") /\ At("IAC").state = "IAC" /\ appBuffer = <<>>
    BY <1>9 DEF BeginSubnegotiation, StraySe, StandaloneCommand, NegotiationCommand, Handles,
                Standing, At, DataComesFirst
  <2>2. SB # IAC /\ SE # IAC /\ IAC \notin Standalone /\ SB \notin Standalone /\ SE \in Standalone
    BY DEF SB, SE, IAC, Standalone, EOR, GA
  <2>3. CASE BeginSubnegotiation
    <3>1. This = SB /\ state' = "SubnegotiationOption" /\ UNCHANGED <<appBuffer, outputs>>
      BY <2>3 DEF BeginSubnegotiation, Handles
    <3>2. Standing' = At("SubnegotiationOption")
      BY <3>1 DEF Standing
    <3> QED
      BY <1>5, <2>1, <2>2, <3>1, <3>2 DEF Goes, Says, AfterIac
  <2>4. CASE StraySe
    <3>1. This = SE /\ state' = "Data" /\ UNCHANGED <<appBuffer, outputs>>
      BY <2>4 DEF StraySe, Handles
    <3>2. Standing' = At("Data") /\ SE # SB
      BY <3>1 DEF Standing, SE, SB
    <3> QED
      BY <1>5, <2>1, <2>2, <3>1, <3>2 DEF Goes, Says, AfterIac
  <2>5. CASE StandaloneCommand
    <3>1. This \in Standalone \ {SE} /\ state' = "Data" /\ appBuffer' = appBuffer
          /\ outputs' = Append(outputs, <<"Command", This>>)
      BY <2>5 DEF StandaloneCommand, Handles
    <3>2. Standing' = At("Data") /\ <<"Command", This>> \in Event
      BY <1>1, <3>1 DEF Standing, Event
    <3>3. Said' = Said \o <<<<"Command", This>>>>
      BY <1>4, <2>1, <3>1, <3>2
    <3>4. This # IAC /\ This # SB
      BY <2>2, <3>1
    <3> QED
      BY <2>1, <3>1, <3>2, <3>3, <3>4 DEF Goes, Says, AfterIac
  <2>6. CASE NegotiationCommand
    <3>1. This \notin Standalone \cup {IAC, SB} /\ state' = "NegotiationOption"
          /\ pendingCmd' = This /\ UNCHANGED <<appBuffer, outputs>>
      BY <2>6 DEF NegotiationCommand, Handles
    <3>2. Standing' = AwaitsOption(This)
      BY <3>1 DEF Standing
    <3> QED
      BY <1>5, <2>1, <3>1, <3>2 DEF Goes, Says, AfterIac
  <2> QED
    BY <1>9, <2>3, <2>4, <2>5, <2>6
<1>10. CASE NegotiationOption
  <2>1. state = "NegotiationOption" /\ state' = "Data" /\ appBuffer' = appBuffer
        /\ outputs' = Append(outputs, <<"Negotiation", pendingCmd, This>>) /\ appBuffer = <<>>
    BY <1>10 DEF NegotiationOption, Handles, DataComesFirst
  <2>2. Standing = AwaitsOption(pendingCmd) /\ Standing' = At("Data")
        /\ Standing.state = "NegotiationOption" /\ Standing.cmd = pendingCmd
    BY <2>1 DEF Standing, AwaitsOption
  <2>3. <<"Negotiation", pendingCmd, This>> \in Event
    BY <1>1 DEF Event, TypeOK
  <2>4. Said' = Said \o <<<<"Negotiation", pendingCmd, This>>>>
    BY <1>4, <2>1, <2>3
  <2> QED
    BY <2>1, <2>2, <2>4 DEF Goes, Says
<1>11. CASE SubnegotiationOption
  <2>1. state = "SubnegotiationOption" /\ state' = "SubnegotiationData" /\ sbOpt' = This
        /\ sbBuffer' = <<>> /\ UNCHANGED <<appBuffer, outputs>>
    BY <1>11 DEF SubnegotiationOption, Handles
  <2>2. Standing = At("SubnegotiationOption") /\ Standing' = Inside("SubnegotiationData", This, <<>>)
        /\ Standing.state = "SubnegotiationOption"
    BY <2>1 DEF Standing, At
  <2> QED
    BY <1>5, <2>1, <2>2 DEF Goes, Says
<1>12. CASE SubnegotiationByte \/ SubnegotiationIac
  <2>1. state = "SubnegotiationData" /\ UNCHANGED <<appBuffer, outputs>> /\ sbOpt' = sbOpt
    BY <1>12 DEF SubnegotiationByte, SubnegotiationIac, Handles, parser
  <2>2. /\ Standing = Inside("SubnegotiationData", sbOpt, sbBuffer)
        /\ Standing.state = "SubnegotiationData" /\ Standing.opt = sbOpt /\ Standing.sb = sbBuffer
    BY <2>1 DEF Standing, Inside
  <2>3. CASE SubnegotiationByte
    <3>1. This # IAC /\ state' = state /\ sbBuffer' = Append(sbBuffer, This)
      BY <2>3 DEF SubnegotiationByte, Handles
    <3>2. Standing' = Inside("SubnegotiationData", sbOpt, Append(sbBuffer, This))
      BY <2>1, <3>1 DEF Standing
    <3> QED
      BY <1>5, <2>1, <2>2, <3>1, <3>2 DEF Goes, Says
  <2>4. CASE SubnegotiationIac
    <3>1. This = IAC /\ state' = "SubnegotiationIAC" /\ sbBuffer' = sbBuffer
      BY <2>4 DEF SubnegotiationIac, Handles, parser
    <3>2. Standing' = Inside("SubnegotiationIAC", sbOpt, sbBuffer)
      BY <2>1, <3>1 DEF Standing
    <3> QED
      BY <1>5, <2>1, <2>2, <3>1, <3>2 DEF Goes, Says
  <2> QED
    BY <1>12, <2>3, <2>4
<1>13. CASE SubnegotiationEscaped \/ EndSubnegotiation \/ CommandInside
  <2>1. state = "SubnegotiationIAC" /\ appBuffer' = appBuffer /\ sbOpt' = sbOpt /\ appBuffer = <<>>
    BY <1>13 DEF SubnegotiationEscaped, EndSubnegotiation, CommandInside, Handles, parser,
                 DataComesFirst
  <2>2. /\ Standing = Inside("SubnegotiationIAC", sbOpt, sbBuffer)
        /\ Standing.state = "SubnegotiationIAC" /\ Standing.opt = sbOpt /\ Standing.sb = sbBuffer
    BY <2>1 DEF Standing, Inside
  <2>3. IAC # SE
    BY DEF IAC, SE
  <2>4. CASE SubnegotiationEscaped
    <3>1. This = IAC /\ state' = "SubnegotiationData" /\ sbBuffer' = Append(sbBuffer, IAC)
          /\ outputs' = outputs
      BY <2>4 DEF SubnegotiationEscaped, Handles
    <3>2. Standing' = Inside("SubnegotiationData", sbOpt, Append(sbBuffer, IAC))
      BY <2>1, <3>1 DEF Standing
    <3> QED
      BY <1>5, <2>1, <2>2, <2>3, <3>1, <3>2 DEF Goes, Says
  <2>5. CASE EndSubnegotiation
    <3>1. This = SE /\ state' = "Data" /\ outputs' = Append(outputs, <<"Subnegotiation", sbOpt, sbBuffer>>)
      BY <2>5 DEF EndSubnegotiation, Handles
    <3>2. Standing' = At("Data") /\ <<"Subnegotiation", sbOpt, sbBuffer>> \in Event
      BY <3>1 DEF Standing, Event, TypeOK
    <3>3. Said' = Said \o <<<<"Subnegotiation", sbOpt, sbBuffer>>>>
      BY <1>4, <2>1, <3>1, <3>2
    <3> QED
      BY <2>2, <3>1, <3>2, <3>3 DEF Goes, Says
  <2>6. CASE CommandInside
    <3>1. This \notin {IAC, SE} /\ state' = "SubnegotiationData" /\ sbBuffer' = sbBuffer
          /\ outputs' = outputs
      BY <2>6 DEF CommandInside, Handles, parser
    <3>2. Standing' = Inside("SubnegotiationData", sbOpt, sbBuffer)
      BY <2>1, <3>1 DEF Standing
    <3> QED
      BY <1>5, <2>1, <2>2, <3>1, <3>2 DEF Goes, Says
  <2> QED
    BY <1>13, <2>4, <2>5, <2>6
<1> QED
  BY <1>6, <1>7, <1>8, <1>9, <1>10, <1>11, <1>12, <1>13 DEF HandleByte

\* The bytes on their way, when one of them is handled.
LEMMA OneFewer ==
  ASSUME TypeOK, HandleByte, NEW x \in Seq(Byte)
  PROVE  /\ (input' \o wire') \o x \in Seq(Byte)
         /\ (input \o wire) \o x = <<This>> \o ((input' \o wire') \o x)
<1>1. /\ This \in Byte /\ input' \in Seq(Byte) /\ wire' = wire
      /\ input \in Seq(Byte) /\ wire \in Seq(Byte) /\ <<This>> \in Seq(Byte)
  BY HandledByte DEF TypeOK
<1>2. input = <<This>> \o input'
  <2>1. input # <<>> /\ input' = Tail(input)
    <3>1. ASSUME NEW s, NEW bytes, Handles(s, bytes)
          PROVE  input # <<>> /\ input' = Tail(input)
      BY <3>1 DEF Handles
    <3> QED
      BY <3>1 DEF HandleByte, DataByte, DataIac, EscapedIac, BeginSubnegotiation, StraySe,
           StandaloneCommand, NegotiationCommand, NegotiationOption, SubnegotiationOption,
           SubnegotiationByte, SubnegotiationIac, SubnegotiationEscaped, EndSubnegotiation,
           CommandInside
  <2>2. Len(input) \in Nat \ {0} /\ 1 \in 1..Len(input) /\ Len(input) \in 1..Len(input)
    BY <1>1, <2>1, EmptySeq
  <2>3. SubSeq(input, 1, Len(input)) = <<input[1]>> \o SubSeq(input, 1 + 1, Len(input))
    BY <1>1, <2>2, SubSeqRecursiveFirst
  <2>4. SubSeq(input, 1, Len(input)) = input /\ Tail(input) = SubSeq(input, 2, Len(input))
    BY <1>1, <2>1, SubSeqFull, TailIsSubSeq
  <2>5. This = input[1] /\ 1 + 1 = 2
    BY <1>1, <2>1 DEF This
  <2> QED
    BY <2>1, <2>3, <2>4, <2>5
<1>3. input' \o wire' \in Seq(Byte) /\ (input' \o wire') \o x \in Seq(Byte)
  BY <1>1, ConcatProperties
<1>4. /\ IsRegrouped(<<This>>, input', wire') /\ IsRegrouped(<<This>>, input' \o wire', x)
  BY <1>1, <1>3, Regroup
<1> QED
  BY <1>1, <1>2, <1>3, <1>4 DEF IsRegrouped

LEMMA HandleByteKeepsStream ==
  ASSUME \A item \in Items : IsRead(item.bytes, item.means),
         TypeOK, TypeOK', DataComesFirst, DataComesFirst', StreamInv, HandleByte
  PROVE  StreamInv'
<1>1. /\ Standing' = Goes(Standing, This) /\ Said' = Said \o Says(Standing, This)
      /\ This \in Byte /\ UNCHANGED <<feeding, wire, written>> /\ feeding
  <2>1. feeding
    <3>1. ASSUME NEW s, NEW bytes, Handles(s, bytes)
          PROVE  feeding
      BY <3>1 DEF Handles
    <3> QED
      BY <3>1 DEF HandleByte, DataByte, DataIac, EscapedIac, BeginSubnegotiation, StraySe,
           StandaloneCommand, NegotiationCommand, NegotiationOption, SubnegotiationOption,
           SubnegotiationByte, SubnegotiationIac, SubnegotiationEscaped, EndSubnegotiation,
           CommandInside
  <2> QED
    BY <2>1, HandledAsItReads, HandledByte DEF StreamInv
<1>2. /\ Said \in Seq(Event) /\ Standing \in Standings
      /\ Says(Standing, This) \in Seq(Event) /\ Goes(Standing, This) \in Standings
  BY <1>1, StreamTypes, SaysEvents, GoesToAStanding
<1>3. outputs' \in Seq(Event)
  <2>1. /\ Flushed \in Seq(Event) /\ outputs \in Seq(Event) /\ This \in Byte
    BY StreamTypes, HandledByte
  <2>2. /\ <<"Command", This>> \in Event /\ <<"Negotiation", pendingCmd, This>> \in Event
        /\ <<"Subnegotiation", sbOpt, sbBuffer>> \in Event
    BY <2>1 DEF Event, TypeOK
  <2>3. outputs \o Flushed \in Seq(Event) /\ \A e \in Event : Append(outputs, e) \in Seq(Event)
    BY <2>1, ConcatProperties, AppendProperties
  <2> QED
    BY <2>1, <2>2, <2>3
       DEF HandleByte, DataByte, DataIac, EscapedIac, BeginSubnegotiation, StraySe,
           StandaloneCommand, NegotiationCommand, NegotiationOption, SubnegotiationOption,
           SubnegotiationByte, SubnegotiationIac, SubnegotiationEscaped, EndSubnegotiation,
           CommandInside
<1>4. ASSUME NEW x \in Seq(Byte)
      PROVE  Owed' \o Means(InData, x) = Said' \o Means(Standing', (input' \o wire') \o x)
  <2> DEFINE rest == (input' \o wire') \o x
  <2>1. rest \in Seq(Byte) /\ (input \o wire) \o x = <<This>> \o rest
    BY OneFewer
  <2> HIDE DEF rest
  <2>2. Means(Standing, <<This>> \o rest) = Says(Standing, This) \o Means(Goes(Standing, This), rest)
    BY <1>1, <1>2, <2>1, MeaningOf
  <2>3. Means(Goes(Standing, This), rest) \in Seq(Event)
    BY <1>2, <2>1, MeaningOf
  <2>4. IsRegrouped(Said, Says(Standing, This), Means(Goes(Standing, This), rest))
    BY <1>2, <2>3, Regroup
  <2>5. Owed \o Means(InData, x) = Said \o Means(Standing, (input \o wire) \o x)
    BY DEF StreamInv
  <2>6. Owed' = Owed
    BY <1>1 DEF Owed
  <2>7. Owed' \o Means(InData, x) = Said' \o Means(Standing', rest)
    BY <1>1, <2>1, <2>2, <2>4, <2>5, <2>6 DEF IsRegrouped
  <2> QED
    BY <2>7 DEF rest
<1> QED
  BY <1>1, <1>3, <1>4 DEF StreamInv

LEMMA PeerKeepsStream ==
  ASSUME \A item \in Items : IsRead(item.bytes, item.means),
         TypeOK, StreamInv, PeerWrites
  PROVE  StreamInv'
<1>1. PICK item \in Items :
        /\ written' = Append(written, item)
        /\ wire' = wire \o item.bytes
        /\ UNCHANGED <<state, appBuffer, parser, input, feeding, outputs>>
  BY DEF PeerWrites
<1>2. /\ Standing' = Standing /\ Said' = Said
  BY <1>1 DEF Standing, Said, Flushed, parser
<1>3. Owed' = Owed \o item.means
  BY <1>1, OwedGrows DEF Owed, IsRead, ReadsTo, TypeOK
<1>4. ASSUME NEW x \in Seq(Byte)
      PROVE  Owed' \o Means(InData, x) = Said' \o Means(Standing', (input' \o wire') \o x)
  <2>1. /\ Owed \in Seq(Event) /\ input \in Seq(Byte) /\ wire \in Seq(Byte) /\ InData \in Standings
        /\ item.bytes \in Seq(Byte) /\ item.means \in Seq(Event) /\ input \o wire \in Seq(Byte)
    BY <1>1, StreamTypes DEF IsRead, ReadsTo
  <2>2. item.bytes \o x \in Seq(Byte) /\ Means(InData, x) \in Seq(Event)
    BY <2>1, ConcatProperties, MeaningOf
  <2>3. Means(InData, item.bytes \o x) = item.means \o Means(InData, x)
    BY <1>1 DEF IsRead, ReadsTo
  <2>4. Owed \o Means(InData, item.bytes \o x)
          = Said \o Means(Standing, (input \o wire) \o (item.bytes \o x))
    BY <2>2 DEF StreamInv
  <2>5. /\ IsRegrouped(Owed, item.means, Means(InData, x))
        /\ IsRegrouped(input, wire, item.bytes) /\ IsRegrouped(input \o wire, item.bytes, x)
    BY <2>1, <2>2, Regroup
  <2> QED
    BY <1>1, <1>2, <1>3, <2>3, <2>4, <2>5 DEF IsRegrouped
<1> QED
  BY <1>1, <1>4 DEF StreamInv

LEMMA FeedKeepsStream ==
  ASSUME TypeOK, StreamInv, Feed
  PROVE  StreamInv'
<1>1. PICK n \in 1..Len(wire) :
        /\ ~feeding /\ feeding' = TRUE
        /\ input' = SubSeq(wire, 1, n) /\ wire' = SubSeq(wire, n + 1, Len(wire))
        /\ UNCHANGED <<state, appBuffer, parser, written, outputs>>
  BY DEF Feed
<1>2. input = <<>> /\ wire \in Seq(Byte)
  BY <1>1 DEF StreamInv, TypeOK
<1>3. input' \o wire' = wire
  <2>1. Len(wire) \in Nat
    BY <1>2, LenProperties
  <2>2. 1 \in 1..(Len(wire) + 1) /\ n \in (1 - 1)..Len(wire) /\ Len(wire) \in n..Len(wire)
    BY <2>1
  <2>3. SubSeq(wire, 1, n) \o SubSeq(wire, n + 1, Len(wire)) = SubSeq(wire, 1, Len(wire))
    BY <1>2, <2>2, ConcatAdjacentSubSeq
  <2> QED
    BY <1>1, <1>2, <2>3, SubSeqFull
<1>4. input \o wire = wire
  BY <1>2, ConcatEmptySeq
<1>5. Standing' = Standing /\ Said' = Said /\ Owed' = Owed
  BY <1>1 DEF Standing, Said, Flushed, Owed, parser
<1> QED
  BY <1>1, <1>3, <1>4, <1>5 DEF StreamInv

LEMMA EndFeedKeepsStream ==
  ASSUME \A item \in Items : IsRead(item.bytes, item.means), TypeOK, StreamInv, EndFeed
  PROVE  StreamInv'
<1>1. /\ input = <<>> /\ outputs' = outputs \o Flushed /\ appBuffer' = <<>>
      /\ UNCHANGED <<state, parser, input, wire, written>>
  BY DEF EndFeed, peer
<1>2. Flushed' = <<>>
  BY <1>1, DataEvents, EmptySeq DEF Flushed, MeansData
<1>3. outputs' = Said /\ Said \in Seq(Event)
  BY <1>1, StreamTypes DEF Said
<1>4. Said' = Said
  BY <1>2, <1>3, ConcatEmptySeq DEF Said
<1>5. Standing' = Standing /\ Owed' = Owed
  BY <1>1 DEF Standing, Owed, parser
<1> QED
  BY <1>1, <1>3, <1>4, <1>5 DEF StreamInv

\* A connection begins.
LEMMA BeginsStream ==
  /\ Init => StreamInv
  /\ StreamInv /\ Reset => StreamInv'
<1>1. <<>> \in Seq(Byte) /\ <<>> \in Seq(Event) /\ MeansData(<<>>) = <<>>
  BY EmptySeq, DataEvents
<1>2. \A x \in Seq(Byte) : Means(InData, x) \in Seq(Event)
  BY StandingsKnown, MeaningOf DEF InData, States
<1>3. /\ \A x \in Seq(Byte) : <<>> \o x = x
      /\ \A x \in Seq(Event) : <<>> \o x = x
  BY ConcatEmptySeq
<1>4. \A x \in Seq(Byte) :
        <<>> \o Means(InData, x) = (<<>> \o <<>>) \o Means(InData, (<<>> \o <<>>) \o x)
  BY <1>1, <1>2, <1>3
<1>5. Init => StreamInv
  <2> SUFFICES ASSUME Init PROVE StreamInv
    OBVIOUS
  <2>1. Owed = <<>> /\ Flushed = <<>> /\ Standing = InData
    BY <1>1, NothingOwed DEF Init, Owed, Flushed, MeansData, Standing, InData
  <2> QED
    BY <1>1, <1>4, <2>1 DEF Init, StreamInv, Said
<1>6. StreamInv /\ Reset => StreamInv'
  <2> SUFFICES ASSUME StreamInv, Reset PROVE StreamInv'
    OBVIOUS
  <2>1. /\ input' = <<>> /\ wire' = <<>> /\ outputs' = <<>> /\ appBuffer' = <<>>
        /\ written' = <<>> /\ state' = "Data"
    BY DEF Reset, StreamInv
  <2>2. Owed' = <<>> /\ Flushed' = <<>> /\ Standing' = InData
    BY <1>1, <2>1, NothingOwed DEF Owed, Flushed, MeansData, Standing, InData
  <2> QED
    BY <1>1, <1>4, <2>1, <2>2 DEF StreamInv, Said
<1> QED
  BY <1>5, <1>6

LEMMA NextKeepsStream ==
  ASSUME \A item \in Items : IsRead(item.bytes, item.means),
         TypeOK, TypeOK', DataComesFirst, DataComesFirst', StreamInv, [Next]_vars
  PROVE  StreamInv'
<1>1. CASE UNCHANGED vars
  <2>1. /\ UNCHANGED <<outputs, feeding, input, wire>>
        /\ Owed' = Owed /\ Said' = Said /\ Standing' = Standing
    BY <1>1 DEF vars, peer, parser, Owed, Said, Flushed, Standing
  <2> QED
    BY <2>1 DEF StreamInv
<1>2. CASE Reset
  BY <1>2, BeginsStream
<1> QED
  BY <1>1, <1>2, HandleByteKeepsStream, PeerKeepsStream, FeedKeepsStream, EndFeedKeepsStream
     DEF Next

\* What was said so far, and what is still to be said, are what is owed.
StillOwed ==
  outputs \in Seq(Event) /\ \E unsaid \in Seq(Event) : Owed = outputs \o unsaid

\* At any time, what was said so far is a prefix of what is owed, and when
\* nothing is on its way and nothing is kept it is all of it.
LEMMA WhatIsSaid ==
  ASSUME \A item \in Items : IsRead(item.bytes, item.means),
         TypeOK, DataComesFirst, StreamInv
  PROVE  CallbacksAreTheItems /\ NothingIsHeldBack /\ StillOwed
<1> DEFINE rest == Flushed \o Means(Standing, input \o wire)
<1>1. /\ Owed \in Seq(Event) /\ Flushed \in Seq(Event) /\ outputs \in Seq(Event)
      /\ input \o wire \in Seq(Byte) /\ Standing \in Standings /\ InData \in Standings
      /\ input \in Seq(Byte) /\ wire \in Seq(Byte)
  BY StreamTypes
<1>2. Means(Standing, input \o wire) \in Seq(Event) /\ rest \in Seq(Event)
  BY <1>1, MeaningOf, ConcatProperties
<1>3. Owed = outputs \o rest
  <2>1. Owed \o Means(InData, <<>>) = Said \o Means(Standing, (input \o wire) \o <<>>)
    BY EmptySeq DEF StreamInv
  <2>2. /\ Means(InData, <<>>) = <<>> /\ Owed \o <<>> = Owed
        /\ (input \o wire) \o <<>> = input \o wire
    BY <1>1, MeaningOf, ConcatEmptySeq
  <2>3. IsRegrouped(outputs, Flushed, Means(Standing, input \o wire))
    BY <1>1, <1>2, Regroup
  <2> QED
    BY <2>1, <2>2, <2>3 DEF IsRegrouped, Said
<1>4. CallbacksAreTheItems
  <2> HIDE DEF rest
  <2>1. /\ Len(Owed) = Len(outputs) + Len(rest) /\ Len(rest) \in Nat /\ Len(outputs) \in Nat
        /\ \A i \in 1..Len(outputs) : Owed[i] = outputs[i]
    BY <1>1, <1>2, <1>3, ConcatProperties, LenProperties
  <2>2. SubSeq(Owed, 1, Len(outputs)) = SubSeq(outputs, 1, Len(outputs))
    <3>1. Len(outputs) <= Len(Owed) /\ outputs \in Seq(Event) /\ Owed \in Seq(Event)
      BY <1>1, <2>1
    <3> DEFINE u == SubSeq(Owed, 1, Len(outputs))
    <3>2. /\ u \in Seq(Event) /\ Len(u) = Len(outputs)
          /\ \A i \in 1..Len(outputs) : u[i] = Owed[i]
      BY <2>1, <3>1, SubSeqProperties
    <3> HIDE DEF u
    <3>3. u = outputs
      BY <2>1, <3>1, <3>2, SeqEqual
    <3> QED
      BY <3>1, <3>3, SubSeqFull DEF u
  <2> QED
    BY <2>1, <2>2 DEF CallbacksAreTheItems, IsPrefix
<1>5. NothingIsHeldBack
  <2> SUFFICES ASSUME ~feeding, wire = <<>>
               PROVE  outputs = Owed
    BY DEF NothingIsHeldBack
  <2>1. input = <<>> /\ appBuffer = <<>>
    BY DEF StreamInv, DataComesFirst
  <2>2. Flushed = <<>>
    BY <2>1, FlushedIsMeant, DataEvents, EmptySeq
  <2>3. input \o wire = <<>> /\ Means(Standing, <<>>) = <<>>
    BY <1>1, <2>1, MeaningOf, ConcatEmptySeq
  <2>4. rest = <<>> /\ outputs \o <<>> = outputs
    BY <1>1, <2>2, <2>3, ConcatEmptySeq, EmptySeq
  <2> HIDE DEF rest
  <2> QED
    BY <1>3, <2>4
<1>6. StillOwed
  BY <1>1, <1>2, <1>3 DEF StillOwed
<1> QED
  BY <1>4, <1>5, <1>6

LEMMA StreamHolds ==
  ASSUME \A item \in Items : IsRead(item.bytes, item.means)
  PROVE  Spec => [](CallbacksAreTheItems /\ NothingIsHeldBack /\ StillOwed)
<1>1. Init => StreamInv
  BY BeginsStream
<1>2. TypeOK /\ TypeOK' /\ DataComesFirst /\ DataComesFirst' /\ StreamInv /\ [Next]_vars
        => StreamInv'
  BY NextKeepsStream
<1>3. TypeOK /\ DataComesFirst /\ StreamInv
        => CallbacksAreTheItems /\ NothingIsHeldBack /\ StillOwed
  BY WhatIsSaid
<1> QED
  BY <1>1, <1>2, <1>3, TypeCorrect, DataFirst, PTL DEF Spec

-----------------------------------------------------------------------------
(* What may be written.                                                    *)
(*                                                                         *)
(* The stream as a list of pieces: bytes of data, commands with and        *)
(* without an option, subnegotiations, each with what it means.            *)

Escaped(b) == IF b = IAC THEN <<IAC, IAC>> ELSE <<b>>

\* Inside a subnegotiation: a byte, or another command, which is dropped.
Inner ==
  {[bytes |-> Escaped(b), keeps |-> <<b>>] : b \in Byte}
    \cup {[bytes |-> <<IAC, cmd>>, keeps |-> <<>>] : cmd \in Byte \ {IAC, SE}}

InnerBytes == [t \in Inner |-> t.bytes]
InnerKeeps == [t \in Inner |-> t.keeps]

Subnegotiated(opt, ts) ==
  [bytes |-> (<<IAC, SB, opt>> \o All(InnerBytes, ts)) \o <<IAC, SE>>,
   means |-> <<<<"Subnegotiation", opt, All(InnerKeeps, ts)>>>>]

DataPiece(b) == [bytes |-> Escaped(b), means |-> <<<<"AppData", b>>>>]

Pieces ==
  {DataPiece(b) : b \in Byte}
    \cup {[bytes |-> <<IAC, cmd>>, means |-> <<<<"Command", cmd>>>>] : cmd \in Standalone \ {SE}}
    \cup {[bytes |-> <<IAC, SE>>, means |-> <<>>]}
    \cup {[bytes |-> <<IAC, cmd, opt>>, means |-> <<<<"Negotiation", cmd, opt>>>>] :
            cmd \in Byte \ (Standalone \cup {IAC, SB}), opt \in Byte}
    \cup {Subnegotiated(opt, ts) : opt \in Byte, ts \in Seq(Inner)}

PieceBytes == [p \in Pieces |-> p.bytes]
PieceMeans == [p \in Pieces |-> p.means]

\* These bytes are pieces that mean this.
IsWritten(bytes, means) ==
  \E ps \in Seq(Pieces) : bytes = All(PieceBytes, ps) /\ means = All(PieceMeans, ps)

\* One byte, and one thing after the other.
LEMMA ByteReads ==
  ASSUME NEW q \in Standings, NEW b \in Byte
  PROVE  ReadsTo(q, <<b>>, Says(q, b), Goes(q, b))
<1>1. Leads(Parser, q, <<b>>, Parser.says[q][b], Parser.goes[q][b])
  BY ParserIs, ParserIsMachine, OneLeads
<1> QED
  BY <1>1, ParserIs, ReadsToLeads

LEMMA ReadsOn ==
  ASSUME NEW q \in Standings, NEW p \in Standings, NEW r \in Standings,
         NEW s, NEW t, NEW u, NEW v, ReadsTo(q, s, u, p), ReadsTo(p, t, v, r)
  PROVE  ReadsTo(q, s \o t, u \o v, r)
<1>1. q \in Parser.states /\ p \in Parser.states /\ r \in Parser.states
  BY ParserIs
<1>2. Leads(Parser, q, s, u, p) /\ Leads(Parser, p, t, v, r)
  BY ReadsToLeads
<1>3. Leads(Parser, q, s \o t, u \o v, r)
  BY <1>1, <1>2, ParserIsMachine, LeadsOn
<1> QED
  BY <1>3, ReadsToLeads

\* The same where nothing is said of the first part.
LEMMA QuietlyReadsOn ==
  ASSUME NEW q \in Standings, NEW p \in Standings, NEW r \in Standings,
         NEW s, NEW t, NEW v, ReadsTo(q, s, <<>>, p), ReadsTo(p, t, v, r)
  PROVE  ReadsTo(q, s \o t, v, r)
<1>1. q \in Parser.states /\ p \in Parser.states /\ r \in Parser.states
  BY ParserIs
<1>2. Leads(Parser, q, s, <<>>, p) /\ Leads(Parser, p, t, v, r)
  BY ReadsToLeads
<1>3. Leads(Parser, q, s \o t, v, r)
  BY <1>1, <1>2, ParserIsMachine, QuietlyLeadsOn
<1> QED
  BY <1>3, ReadsToLeads

\* Bytes nothing is said of but the last.
LEMMA QuietTwo ==
  ASSUME NEW q \in Standings, NEW a \in Byte, NEW b \in Byte, NEW p \in Standings,
         Goes(q, a) = p, Says(q, a) = <<>>
  PROVE  ReadsTo(q, <<a, b>>, Says(p, b), Goes(p, b))
<1>1. /\ q \in Parser.states /\ p \in Parser.states /\ a \in Parser.reads /\ b \in Parser.reads
      /\ Parser.goes[q][a] = p /\ Parser.says[q][a] = <<>>
  BY ParserIs
<1>2. Leads(Parser, q, <<a, b>>, Parser.says[p][b], Parser.goes[p][b])
  BY <1>1, ParserIsMachine, TwoLead
<1> QED
  BY <1>2, ParserIs, ReadsToLeads

LEMMA QuietThree ==
  ASSUME NEW q \in Standings, NEW a \in Byte, NEW b \in Byte, NEW c \in Byte,
         NEW p \in Standings, NEW r \in Standings,
         Goes(q, a) = p, Says(q, a) = <<>>, Goes(p, b) = r, Says(p, b) = <<>>
  PROVE  ReadsTo(q, <<a, b, c>>, Says(r, c), Goes(r, c))
<1>1. /\ q \in Parser.states /\ p \in Parser.states /\ r \in Parser.states
      /\ a \in Parser.reads /\ b \in Parser.reads /\ c \in Parser.reads
      /\ Parser.goes[q][a] = p /\ Parser.says[q][a] = <<>>
      /\ Parser.goes[p][b] = r /\ Parser.says[p][b] = <<>>
  BY ParserIs
<1>2. Leads(Parser, q, <<a, b, c>>, Parser.says[r][c], Parser.goes[r][c])
  BY <1>1, ParserIsMachine, ThreeLead
<1> QED
  BY <1>2, ParserIs, ReadsToLeads

\* Every code the parser tells apart.
LEMMA CodesApart ==
  /\ IAC \in Byte /\ SB \in Byte /\ SE \in Byte /\ SE \in Standalone
  /\ IAC # SB /\ IAC # SE /\ SB # SE /\ SB \notin Standalone /\ IAC \notin Standalone
  /\ Standalone \subseteq Byte
BY CodesAreBytes DEF IAC, SB, SE, Standalone, EOR, GA

\* What a subnegotiation keeps of a byte, escaped or not, and of a command.
LEMMA InnerRead ==
  ASSUME NEW t \in Inner, NEW opt \in Byte, NEW sb \in Seq(Byte)
  PROVE  /\ t.bytes \in Seq(Byte) /\ t.keeps \in Seq(Byte)
         /\ ReadsTo(Inside("SubnegotiationData", opt, sb), t.bytes, <<>>,
                    Inside("SubnegotiationData", opt, sb \o t.keeps))
<1> DEFINE q == Inside("SubnegotiationData", opt, sb)
           r == Inside("SubnegotiationIAC", opt, sb)
           To(s) == Inside("SubnegotiationData", opt, s)
<1>1. /\ q \in Standings /\ r \in Standings
      /\ q.state = "SubnegotiationData" /\ q.opt = opt /\ q.sb = sb
      /\ r.state = "SubnegotiationIAC" /\ r.opt = opt /\ r.sb = sb
  BY StandingsKnown DEF Inside, States
<1>2. /\ Goes(q, IAC) = r /\ Says(q, IAC) = <<>>
      /\ \A b \in Byte \ {IAC} : Goes(q, b) = To(Append(sb, b)) /\ Says(q, b) = <<>>
      /\ Goes(r, IAC) = To(Append(sb, IAC)) /\ Says(r, IAC) = <<>>
      /\ \A c \in Byte \ {IAC, SE} : Goes(r, c) = To(sb) /\ Says(r, c) = <<>>
  BY <1>1, CodesApart DEF Goes, Says
<1> HIDE DEF q, r, To
<1>3. /\ \A b \in Byte : <<b>> \in Seq(Byte) /\ Append(sb, b) = sb \o <<b>>
      /\ sb \o <<>> = sb /\ <<>> \in Seq(Byte)
  BY AppendIsConcat, ConcatEmptySeq, EmptySeq
\* A byte.
<1>4. ASSUME NEW b \in Byte
      PROVE  ReadsTo(q, Escaped(b), <<>>, To(sb \o <<b>>))
  <2>1. CASE b = IAC
    <3>1. ReadsTo(q, <<IAC, IAC>>, Says(r, IAC), Goes(r, IAC))
      BY <1>1, <1>2, CodesApart, QuietTwo
    <3> QED
      BY <1>2, <1>3, <2>1, <3>1 DEF Escaped
  <2>2. CASE b # IAC
    <3>1. ReadsTo(q, <<b>>, Says(q, b), Goes(q, b))
      BY <1>1, ByteReads
    <3> QED
      BY <1>2, <1>3, <2>2, <3>1 DEF Escaped
  <2> QED
    BY <2>1, <2>2
\* A command.
<1>5. ASSUME NEW c \in Byte, c \notin {IAC, SE}
      PROVE  ReadsTo(q, <<IAC, c>>, <<>>, To(sb \o <<>>))
  <2>1. ReadsTo(q, <<IAC, c>>, Says(r, c), Goes(r, c))
    BY <1>1, <1>2, CodesApart, QuietTwo
  <2> QED
    BY <1>2, <1>3, <1>5, <2>1
<1>6. CASE \E b \in Byte : t.bytes = Escaped(b) /\ t.keeps = <<b>>
  BY <1>3, <1>4, <1>6 DEF q, To, ReadsTo
<1>7. CASE \E c \in Byte \ {IAC, SE} : t.bytes = <<IAC, c>> /\ t.keeps = <<>>
  BY <1>3, <1>5, <1>7 DEF q, To, ReadsTo
<1> QED
  BY <1>6, <1>7 DEF Inner

LEMMA InnerMaps ==
  MapsInto(InnerBytes, Inner, Seq(Byte)) /\ MapsInto(InnerKeeps, Inner, Seq(Byte))
<1>1. 0 \in Byte /\ <<>> \in Seq(Byte)
  BY EmptySeq DEF Byte
<1>2. \A t \in Inner : t.bytes \in Seq(Byte) /\ t.keeps \in Seq(Byte)
  BY <1>1, InnerRead
<1> QED
  BY <1>2 DEF MapsInto, InnerBytes, InnerKeeps

\* And of all of them.
LEMMA AllInnerRead ==
  ASSUME NEW opt \in Byte, NEW ts \in Seq(Inner)
  PROVE  /\ All(InnerBytes, ts) \in Seq(Byte) /\ All(InnerKeeps, ts) \in Seq(Byte)
         /\ ReadsTo(Inside("SubnegotiationData", opt, <<>>), All(InnerBytes, ts), <<>>,
                    Inside("SubnegotiationData", opt, All(InnerKeeps, ts)))
<1> DEFINE K(s) == All(InnerKeeps, s)
           B(s) == All(InnerBytes, s)
           To(s) == Inside("SubnegotiationData", opt, s)
           T == {s \in Seq(Inner) : ReadsTo(To(<<>>), B(s), <<>>, To(K(s)))}
<1>1. ASSUME NEW s \in Seq(Inner)
      PROVE  /\ B(s) \in Seq(Byte) /\ K(s) \in Seq(Byte)
             /\ \A t \in Inner : B(Append(s, t)) = B(s) \o t.bytes /\ K(Append(s, t)) = K(s) \o t.keeps
  <2>1. \A t \in Inner : InnerBytes[t] = t.bytes /\ InnerKeeps[t] = t.keeps
    BY DEF InnerBytes, InnerKeeps
  <2>2. B(s) \in Seq(Byte) /\ \A t \in Inner : B(Append(s, t)) = B(s) \o InnerBytes[t]
    BY InnerMaps, AllGrows
  <2>3. K(s) \in Seq(Byte) /\ \A t \in Inner : K(Append(s, t)) = K(s) \o InnerKeeps[t]
    BY InnerMaps, AllGrows
  <2> QED
    BY <2>1, <2>2, <2>3
<1>2. <<>> \in Seq(Inner) /\ B(<<>>) = <<>> /\ K(<<>>) = <<>>
  <2>1. <<>> \in Seq(Inner)
    BY EmptySeq
  <2>2. B(<<>>) = <<>>
    BY <2>1, InnerMaps, AllGrows
  <2>3. K(<<>>) = <<>>
    BY <2>1, InnerMaps, AllGrows
  <2> QED
    BY <2>1, <2>2, <2>3
<1>3. \A s \in Seq(Byte) : To(s) \in Standings
  BY StandingsKnown DEF States
<1>4. ASSUME NEW t \in Inner, NEW s \in Seq(Byte)
      PROVE  ReadsTo(To(s), t.bytes, <<>>, To(s \o t.keeps)) /\ s \o t.keeps \in Seq(Byte)
  BY InnerRead, ConcatProperties
<1> HIDE DEF K, B, To
<1>5. <<>> \in T
  <2>1. \A x \in Seq(Byte) : <<>> \o x = x /\ Means(To(<<>>), x) \in Seq(Event)
    BY <1>3, ConcatEmptySeq, EmptySeq, MeaningOf
  <2>2. \A x \in Seq(Event) : <<>> \o x = x
    BY ConcatEmptySeq
  <2> QED
    BY <1>2, <2>1, <2>2, EmptySeq DEF ReadsTo
<1>6. ASSUME NEW s \in Seq(Inner), NEW t \in Inner, s \in T
      PROVE  Append(s, t) \in T
  <2>1. ReadsTo(To(<<>>), B(s), <<>>, To(K(s))) /\ K(s) \in Seq(Byte)
    BY <1>1, <1>6
  <2>2. ReadsTo(To(K(s)), t.bytes, <<>>, To(K(s) \o t.keeps)) /\ K(s) \o t.keeps \in Seq(Byte)
    BY <1>4, <2>1
  <2>3. To(<<>>) \in Standings /\ To(K(s)) \in Standings /\ To(K(s) \o t.keeps) \in Standings
    BY <1>3, <2>1, <2>2, EmptySeq
  <2>4. ReadsTo(To(<<>>), B(s) \o t.bytes, <<>>, To(K(s) \o t.keeps))
    BY <2>1, <2>2, <2>3, QuietlyReadsOn
  <2> QED
    BY <1>1, <2>4, AppendProperties
<1>7. Seq(Inner) \subseteq T
  <2> HIDE DEF T
  <2> QED BY <1>5, <1>6, AppendInduction
<1> QED
  BY <1>1, <1>7 DEF K, B, To

\* Each piece is taken for what it means.
LEMMA ShortRead ==
  /\ \A b \in Byte : IsRead(Escaped(b), <<<<"AppData", b>>>>)
  /\ \A cmd \in Standalone \ {SE} : IsRead(<<IAC, cmd>>, <<<<"Command", cmd>>>>)
  /\ IsRead(<<IAC, SE>>, <<>>)
  /\ \A cmd \in Byte \ (Standalone \cup {IAC, SB}), opt \in Byte :
       IsRead(<<IAC, cmd, opt>>, <<<<"Negotiation", cmd, opt>>>>)
<1> DEFINE q == At("IAC")
<1>1. /\ InData \in Standings /\ InData.state = "Data"
      /\ q \in Standings /\ q.state = "IAC"
  BY StandingsKnown DEF At, InData, States
<1>2. /\ Goes(InData, IAC) = q /\ Says(InData, IAC) = <<>>
      /\ \A b \in Standalone \cup {IAC} : Goes(q, b) = InData
      /\ Says(q, IAC) = <<<<"AppData", IAC>>>> /\ Says(q, SE) = <<>>
      /\ \A b \in Standalone \ {SE} : Says(q, b) = <<<<"Command", b>>>>
      /\ \A b \in Byte \ {IAC} : Goes(InData, b) = InData /\ Says(InData, b) = <<<<"AppData", b>>>>
  BY <1>1, CodesApart DEF Goes, Says, AfterIac, InData
<1>3. \A cmd \in Byte \ (Standalone \cup {IAC, SB}) :
        Goes(q, cmd) = AwaitsOption(cmd) /\ Says(q, cmd) = <<>>
  BY <1>1, CodesApart DEF Goes, Says, AfterIac
<1> HIDE DEF q
<1>4. ASSUME NEW b \in Byte, b \in Standalone \cup {IAC}
      PROVE  ReadsTo(InData, <<IAC, b>>, Says(q, b), InData)
  <2>1. ReadsTo(InData, <<IAC, b>>, Says(q, b), Goes(q, b))
    BY <1>1, <1>2, CodesApart, QuietTwo
  <2> QED
    BY <1>2, <1>4, <2>1
<1>5. ASSUME NEW b \in Byte
      PROVE  ReadsTo(InData, Escaped(b), <<<<"AppData", b>>>>, InData)
  <2>1. CASE b = IAC
    <3>1. ReadsTo(InData, <<IAC, IAC>>, Says(q, IAC), InData)
      BY <1>4, CodesApart
    <3> QED
      BY <1>2, <2>1, <3>1 DEF Escaped
  <2>2. CASE b # IAC
    <3>1. ReadsTo(InData, <<b>>, Says(InData, b), Goes(InData, b))
      BY <1>1, ByteReads
    <3> QED
      BY <1>2, <2>2, <3>1 DEF Escaped
  <2> QED
    BY <2>1, <2>2
<1>6. ASSUME NEW cmd \in Byte, cmd \notin Standalone \cup {IAC, SB}, NEW opt \in Byte
      PROVE  ReadsTo(InData, <<IAC, cmd, opt>>, <<<<"Negotiation", cmd, opt>>>>, InData)
  <2> DEFINE r == AwaitsOption(cmd)
  <2>1. r \in Standings /\ r.state = "NegotiationOption" /\ r.cmd = cmd
    BY StandingsKnown DEF AwaitsOption
  <2>2. Goes(r, opt) = InData /\ Says(r, opt) = <<<<"Negotiation", cmd, opt>>>>
    BY <2>1 DEF Goes, Says, InData
  <2>3. Goes(q, cmd) = r /\ Says(q, cmd) = <<>>
    BY <1>3, <1>6
  <2> HIDE DEF r
  <2>4. ReadsTo(InData, <<IAC, cmd, opt>>, Says(r, opt), Goes(r, opt))
    BY <1>1, <1>2, <2>1, <2>3, CodesApart, QuietThree
  <2> QED
    BY <2>2, <2>4
<1>7. \A cmd \in Standalone \ {SE} : ReadsTo(InData, <<IAC, cmd>>, <<<<"Command", cmd>>>>, InData)
  <2> SUFFICES ASSUME NEW cmd \in Standalone, cmd # SE
               PROVE  ReadsTo(InData, <<IAC, cmd>>, <<<<"Command", cmd>>>>, InData)
    OBVIOUS
  <2>1. ReadsTo(InData, <<IAC, cmd>>, Says(q, cmd), InData)
    BY <1>4, CodesApart
  <2> QED
    BY <1>2, <2>1
<1>8. ReadsTo(InData, <<IAC, SE>>, <<>>, InData)
  <2>1. ReadsTo(InData, <<IAC, SE>>, Says(q, SE), InData)
    BY <1>4, CodesApart
  <2> QED
    BY <1>2, <2>1
<1> QED
  BY <1>5, <1>6, <1>7, <1>8 DEF IsRead

LEMMA SubnegotiationRead ==
  ASSUME NEW opt \in Byte, NEW ts \in Seq(Inner)
  PROVE  IsRead(Subnegotiated(opt, ts).bytes, Subnegotiated(opt, ts).means)
<1> DEFINE K == All(InnerKeeps, ts)
           B == All(InnerBytes, ts)
           q == At("IAC")
           r == At("SubnegotiationOption")
           p == Inside("SubnegotiationData", opt, <<>>)
           d == Inside("SubnegotiationData", opt, K)
           e == Inside("SubnegotiationIAC", opt, K)
           means == <<<<"Subnegotiation", opt, K>>>>
<1>1. B \in Seq(Byte) /\ K \in Seq(Byte) /\ ReadsTo(p, B, <<>>, d)
  BY AllInnerRead
<1> HIDE DEF B, K
<1>2. /\ InData \in Standings /\ InData.state = "Data" /\ q \in Standings /\ q.state = "IAC"
      /\ p \in Standings /\ r \in Standings /\ r.state = "SubnegotiationOption"
      /\ d \in Standings /\ d.state = "SubnegotiationData" /\ d.opt = opt /\ d.sb = K
      /\ e \in Standings /\ e.state = "SubnegotiationIAC" /\ e.opt = opt /\ e.sb = K
  BY <1>1, StandingsKnown, EmptySeq DEF At, InData, Inside, States
<1>3. /\ Goes(InData, IAC) = q /\ Says(InData, IAC) = <<>> /\ Goes(q, SB) = r /\ Says(q, SB) = <<>>
      /\ Goes(r, opt) = p /\ Says(r, opt) = <<>>
      /\ Goes(d, IAC) = e /\ Says(d, IAC) = <<>>
      /\ Goes(e, SE) = InData /\ Says(e, SE) = means
  BY <1>2, CodesApart DEF Goes, Says, AfterIac, InData
<1> HIDE DEF q, r, p, d, e, means
<1>4. ReadsTo(InData, <<IAC, SB, opt>>, <<>>, p)
  <2>1. ReadsTo(InData, <<IAC, SB, opt>>, Says(r, opt), Goes(r, opt))
    BY <1>2, <1>3, CodesApart, QuietThree
  <2> QED
    BY <1>3, <2>1
<1>5. ReadsTo(d, <<IAC, SE>>, means, InData)
  <2>1. ReadsTo(d, <<IAC, SE>>, Says(e, SE), Goes(e, SE))
    BY <1>2, <1>3, CodesApart, QuietTwo
  <2> QED
    BY <1>3, <2>1
<1>6. ReadsTo(InData, <<IAC, SB, opt>> \o B, <<>>, d)
  BY <1>1, <1>2, <1>4, QuietlyReadsOn
<1>7. ReadsTo(InData, (<<IAC, SB, opt>> \o B) \o <<IAC, SE>>, means, InData)
  BY <1>2, <1>5, <1>6, QuietlyReadsOn
<1> QED
  BY <1>7 DEF IsRead, Subnegotiated, means, B, K

LEMMA PieceRead ==
  ASSUME NEW piece \in Pieces
  PROVE  IsRead(piece.bytes, piece.means)
<1>1. CASE \E b \in Byte : piece = DataPiece(b)
  BY <1>1, ShortRead DEF DataPiece
<1>2. CASE \E opt \in Byte, ts \in Seq(Inner) : piece = Subnegotiated(opt, ts)
  <2>1. PICK opt \in Byte, ts \in Seq(Inner) : piece = Subnegotiated(opt, ts)
    BY <1>2
  <2> QED
    BY <2>1, SubnegotiationRead
<1>3. CASE piece \in {[bytes |-> <<IAC, cmd>>, means |-> <<<<"Command", cmd>>>>] :
                        cmd \in Standalone \ {SE}}
  BY <1>3, ShortRead
<1>4. CASE piece = [bytes |-> <<IAC, SE>>, means |-> <<>>]
  BY <1>4, ShortRead
<1>5. CASE piece \in {[bytes |-> <<IAC, cmd, opt>>, means |-> <<<<"Negotiation", cmd, opt>>>>] :
                        cmd \in Byte \ (Standalone \cup {IAC, SB}), opt \in Byte}
  BY <1>5, ShortRead
<1> QED
  BY <1>1, <1>2, <1>3, <1>4, <1>5 DEF Pieces

LEMMA PieceMaps ==
  MapsInto(PieceBytes, Pieces, Seq(Byte)) /\ MapsInto(PieceMeans, Pieces, Seq(Event))
<1>1. \A piece \in Pieces : piece.bytes \in Seq(Byte) /\ piece.means \in Seq(Event)
  BY PieceRead DEF IsRead, ReadsTo
<1> QED
  BY <1>1 DEF MapsInto, PieceBytes, PieceMeans

\* And a stream of them.
LEMMA WrittenRead ==
  ASSUME NEW bytes, NEW means, IsWritten(bytes, means)
  PROVE  IsRead(bytes, means)
<1> DEFINE M(s) == All(PieceMeans, s)
           B(s) == All(PieceBytes, s)
           T == {s \in Seq(Pieces) : ReadsTo(InData, B(s), M(s), InData)}
<1>1. ASSUME NEW s \in Seq(Pieces)
      PROVE  \A t \in Pieces : B(Append(s, t)) = B(s) \o t.bytes /\ M(Append(s, t)) = M(s) \o t.means
  <2>1. \A t \in Pieces : PieceBytes[t] = t.bytes /\ PieceMeans[t] = t.means
    BY DEF PieceBytes, PieceMeans
  <2>2. \A t \in Pieces : B(Append(s, t)) = B(s) \o PieceBytes[t]
    BY PieceMaps, AllGrows
  <2>3. \A t \in Pieces : M(Append(s, t)) = M(s) \o PieceMeans[t]
    BY PieceMaps, AllGrows
  <2> QED
    BY <2>1, <2>2, <2>3
<1>2. <<>> \in Seq(Pieces) /\ B(<<>>) = <<>> /\ M(<<>>) = <<>>
  <2>1. <<>> \in Seq(Pieces)
    BY EmptySeq
  <2>2. B(<<>>) = <<>>
    BY <2>1, PieceMaps, AllGrows
  <2>3. M(<<>>) = <<>>
    BY <2>1, PieceMaps, AllGrows
  <2> QED
    BY <2>1, <2>2, <2>3
<1>3. InData \in Standings
  BY StandingsKnown DEF InData, States
<1> HIDE DEF M, B
<1>4. <<>> \in T
  <2>1. \A x \in Seq(Byte) : <<>> \o x = x /\ Means(InData, x) \in Seq(Event)
    BY <1>3, ConcatEmptySeq, MeaningOf
  <2>2. \A x \in Seq(Event) : <<>> \o x = x
    BY ConcatEmptySeq
  <2> QED
    BY <1>2, <2>1, <2>2, EmptySeq DEF ReadsTo
<1>5. ASSUME NEW s \in Seq(Pieces), NEW t \in Pieces, s \in T
      PROVE  Append(s, t) \in T
  <2>1. ReadsTo(InData, B(s), M(s), InData) /\ ReadsTo(InData, t.bytes, t.means, InData)
    BY <1>5, PieceRead DEF IsRead
  <2>2. ReadsTo(InData, B(s) \o t.bytes, M(s) \o t.means, InData)
    BY <1>3, <2>1, ReadsOn
  <2> QED
    BY <1>1, <2>2, AppendProperties
<1>6. Seq(Pieces) \subseteq T
  <2> HIDE DEF T
  <2> QED BY <1>4, <1>5, AppendInduction
<1>7. PICK ps \in Seq(Pieces) : bytes = B(ps) /\ means = M(ps)
  BY DEF IsWritten, B, M
<1> QED
  BY <1>6, <1>7 DEF IsRead

\* Wherever the stream is cut and whatever a reset interrupts, the callbacks
\* are a prefix of what the peer's items mean: no byte of data is lost, moved
\* past a command or made up, and a command or a subnegotiation cut in two is
\* still one (client.cpp:43-109).
THEOREM CallbacksAreOwed ==
  ASSUME \A item \in Items : IsWritten(item.bytes, item.means)
  PROVE  Spec => []CallbacksAreTheItems
<1>1. \A item \in Items : IsRead(item.bytes, item.means)
  BY WrittenRead
<1>2. Spec => [](CallbacksAreTheItems /\ NothingIsHeldBack /\ StillOwed)
  BY <1>1, StreamHolds
<1> QED
  BY <1>2, PTL

\* And when all that was written was fed, they are all of it: neither data nor
\* a command waits for bytes that do not come (client.cpp:43-109).
THEOREM NothingStays ==
  ASSUME \A item \in Items : IsWritten(item.bytes, item.means)
  PROVE  Spec => []NothingIsHeldBack
<1>1. \A item \in Items : IsRead(item.bytes, item.means)
  BY WrittenRead
<1>2. Spec => [](CallbacksAreTheItems /\ NothingIsHeldBack /\ StillOwed)
  BY <1>1, StreamHolds
<1> QED
  BY <1>2, PTL

-----------------------------------------------------------------------------
(* The peer's encodings are such pieces. *)

\* One piece, and one more of them.
LEMMA PiecesAdd ==
  ASSUME NEW piece \in Pieces
  PROVE  /\ IsWritten(piece.bytes, piece.means)
         /\ \A bytes, means : IsWritten(bytes, means)
              => IsWritten(bytes \o piece.bytes, means \o piece.means)
<1>1. piece.bytes \in Seq(Byte) /\ piece.means \in Seq(Event)
  BY PieceRead DEF IsRead, ReadsTo
<1>2. ASSUME NEW ps \in Seq(Pieces)
      PROVE  /\ Append(ps, piece) \in Seq(Pieces)
             /\ All(PieceBytes, Append(ps, piece)) = All(PieceBytes, ps) \o piece.bytes
             /\ All(PieceMeans, Append(ps, piece)) = All(PieceMeans, ps) \o piece.means
  <2>1. PieceBytes[piece] = piece.bytes /\ PieceMeans[piece] = piece.means
    BY DEF PieceBytes, PieceMeans
  <2>2. All(PieceBytes, Append(ps, piece)) = All(PieceBytes, ps) \o PieceBytes[piece]
    BY PieceMaps, AllGrows
  <2>3. All(PieceMeans, Append(ps, piece)) = All(PieceMeans, ps) \o PieceMeans[piece]
    BY PieceMaps, AllGrows
  <2> QED
    BY <2>1, <2>2, <2>3, AppendProperties
<1>3. ASSUME NEW bytes, NEW means, IsWritten(bytes, means)
      PROVE  IsWritten(bytes \o piece.bytes, means \o piece.means)
  BY <1>2, <1>3 DEF IsWritten
<1>4. IsWritten(<<>>, <<>>)
  <2>1. <<>> \in Seq(Pieces)
    BY EmptySeq
  <2>2. All(PieceBytes, <<>>) = <<>>
    BY <2>1, PieceMaps, AllGrows
  <2>3. All(PieceMeans, <<>>) = <<>>
    BY <2>1, PieceMaps, AllGrows
  <2> QED
    BY <2>1, <2>2, <2>3 DEF IsWritten
<1>5. IsWritten(<<>> \o piece.bytes, <<>> \o piece.means)
  BY <1>3, <1>4
<1>6. <<>> \o piece.bytes = piece.bytes /\ <<>> \o piece.means = piece.means
  BY <1>1, ConcatEmptySeq
<1> QED
  BY <1>3, <1>5, <1>6

\* Data is encoded byte by byte.
LEMMA EncodedGrows ==
  ASSUME NEW d \in Seq(Byte)
  PROVE  /\ EncodeData(d) \in Seq(Byte) /\ EncodeData(<<>>) = <<>>
         /\ \A b \in Byte : EncodeData(Append(d, b)) = EncodeData(d) \o Escaped(b)
<1> DEFINE f == [b \in Byte |-> Escaped(b)]
<1>1. MapsInto(f, Byte, Seq(Byte))
  <2>1. \A b \in Byte : Escaped(b) \in Seq(Byte)
    BY ShortRead DEF IsRead, ReadsTo
  <2> QED
    BY <2>1 DEF MapsInto
<1>2. ASSUME NEW s \in Seq(Byte)
      PROVE  All(f, s) = EncodeData(s)
  <2>1. \A n \in DOMAIN s : s[n] \in Byte
    BY LenProperties, ElementOfSeq
  <2>2. Mapped(f, s) = [n \in DOMAIN s |-> IF s[n] = IAC THEN <<IAC, IAC>> ELSE <<s[n]>>]
    BY <2>1 DEF Mapped, Escaped
  <2> QED
    BY <2>2 DEF All, EncodeData
<1>3. \A b \in Byte : f[b] = Escaped(b) /\ Append(d, b) \in Seq(Byte)
  BY AppendProperties
<1>4. <<>> \in Seq(Byte)
  BY EmptySeq
<1> HIDE DEF f
<1>5. /\ All(f, d) \in Seq(Byte) /\ All(f, <<>>) = <<>>
      /\ \A b \in Byte : All(f, Append(d, b)) = All(f, d) \o f[b]
  BY <1>1, AllGrows
<1> QED
  BY <1>2, <1>3, <1>4, <1>5

LEMMA DataIsWritten ==
  ASSUME NEW d \in Seq(Byte)
  PROVE  IsWritten(EncodeData(d), MeansData(d))
<1> DEFINE T == {s \in Seq(Byte) : IsWritten(EncodeData(s), MeansData(s))}
<1>1. <<>> \in T
  <2>1. EncodeData(<<>>) = <<>> /\ MeansData(<<>>) = <<>> /\ <<>> \in Seq(Byte)
    BY EncodedGrows, DataEvents, EmptySeq
  <2>2. <<>> \in Seq(Pieces)
    BY EmptySeq
  <2>3. All(PieceBytes, <<>>) = <<>>
    BY <2>2, PieceMaps, AllGrows
  <2>4. All(PieceMeans, <<>>) = <<>>
    BY <2>2, PieceMaps, AllGrows
  <2> QED
    BY <2>1, <2>2, <2>3, <2>4 DEF IsWritten
<1>2. ASSUME NEW s \in Seq(Byte), NEW b \in Byte, s \in T
      PROVE  Append(s, b) \in T
  <2> DEFINE e == <<"AppData", b>>
  <2>1. DataPiece(b) \in Pieces /\ DataPiece(b).bytes = Escaped(b) /\ DataPiece(b).means = <<e>>
    BY DEF Pieces, DataPiece
  <2>2. IsWritten(EncodeData(s) \o Escaped(b), MeansData(s) \o <<e>>)
    BY <1>2, <2>1, PiecesAdd
  <2>3. EncodeData(Append(s, b)) = EncodeData(s) \o Escaped(b)
    BY EncodedGrows
  <2>4. MeansData(Append(s, b)) = MeansData(s) \o <<e>>
    <3>1. e \in Event
      BY DEF Event
    <3>2. MeansData(s) \in Seq(Event) /\ MeansData(Append(s, b)) = Append(MeansData(s), e)
      BY DataEvents
    <3> HIDE DEF e
    <3> QED
      BY <3>1, <3>2, AppendIsConcat
  <2> QED
    BY <2>2, <2>3, <2>4, AppendProperties
<1>3. Seq(Byte) \subseteq T
  <2> HIDE DEF T
  <2> QED BY <1>1, <1>2, AppendInduction
<1> QED
  BY <1>3

\* A subnegotiation with every 255 doubled is one, and keeps its data.
LEMMA SubnegotiationIsWritten ==
  ASSUME NEW opt \in Byte, NEW d \in Seq(Byte)
  PROVE  IsWritten(EncodeSubnegotiation(opt, d), MeansSubnegotiation(opt, d))
<1> DEFINE Of(b) == [bytes |-> Escaped(b), keeps |-> <<b>>]
           K(ts) == All(InnerKeeps, ts)
           B(ts) == All(InnerBytes, ts)
           T == {s \in Seq(Byte) : \E ts \in Seq(Inner) : B(ts) = EncodeData(s) /\ K(ts) = s}
<1>1. \A b \in Byte : Of(b) \in Inner /\ InnerBytes[Of(b)] = Escaped(b) /\ InnerKeeps[Of(b)] = <<b>>
  <2>1. \A b \in Byte : Of(b) \in Inner
    BY DEF Inner
  <2> QED
    BY <2>1 DEF InnerBytes, InnerKeeps
<1>2. ASSUME NEW ts \in Seq(Inner), NEW t \in Inner
      PROVE  /\ Append(ts, t) \in Seq(Inner)
             /\ B(Append(ts, t)) = B(ts) \o InnerBytes[t] /\ K(Append(ts, t)) = K(ts) \o InnerKeeps[t]
  <2>1. B(Append(ts, t)) = B(ts) \o InnerBytes[t]
    BY InnerMaps, AllGrows
  <2>2. K(Append(ts, t)) = K(ts) \o InnerKeeps[t]
    BY InnerMaps, AllGrows
  <2> QED
    BY <2>1, <2>2, AppendProperties
<1>3. <<>> \in Seq(Inner) /\ B(<<>>) = <<>> /\ K(<<>>) = <<>>
  <2>1. <<>> \in Seq(Inner)
    BY EmptySeq
  <2>2. B(<<>>) = <<>>
    BY <2>1, InnerMaps, AllGrows
  <2>3. K(<<>>) = <<>>
    BY <2>1, InnerMaps, AllGrows
  <2> QED
    BY <2>1, <2>2, <2>3
<1> HIDE DEF Of, B, K
<1>4. <<>> \in T
  <2>1. EncodeData(<<>>) = <<>> /\ <<>> \in Seq(Byte)
    BY EncodedGrows, EmptySeq
  <2> QED
    BY <1>3, <2>1
<1>5. ASSUME NEW s \in Seq(Byte), NEW b \in Byte, s \in T
      PROVE  Append(s, b) \in T
  <2>1. PICK ts \in Seq(Inner) : B(ts) = EncodeData(s) /\ K(ts) = s
    BY <1>5
  <2>2. B(Append(ts, Of(b))) = EncodeData(s) \o Escaped(b) /\ K(Append(ts, Of(b))) = s \o <<b>>
    BY <1>1, <1>2, <2>1
  <2>3. EncodeData(Append(s, b)) = EncodeData(s) \o Escaped(b)
    BY EncodedGrows
  <2>4. Append(s, b) = s \o <<b>> /\ Append(s, b) \in Seq(Byte)
    BY AppendIsConcat, AppendProperties
  <2>5. Append(ts, Of(b)) \in Seq(Inner)
    BY <1>1, <1>2
  <2> QED
    BY <2>2, <2>3, <2>4, <2>5
<1>6. Seq(Byte) \subseteq T
  <2> HIDE DEF T
  <2> QED BY <1>4, <1>5, AppendInduction
<1>7. PICK ts \in Seq(Inner) : B(ts) = EncodeData(d) /\ K(ts) = d
  BY <1>6
<1>8. Subnegotiated(opt, ts) \in Pieces
  BY DEF Pieces
<1>9. /\ Subnegotiated(opt, ts).bytes = (<<IAC, SB, opt>> \o EncodeData(d)) \o <<IAC, SE>>
      /\ Subnegotiated(opt, ts).means = <<<<"Subnegotiation", opt, d>>>>
  BY <1>7 DEF Subnegotiated, B, K
<1>10. IsWritten(Subnegotiated(opt, ts).bytes, Subnegotiated(opt, ts).means)
  BY <1>8, PiecesAdd
<1> QED
  BY <1>9, <1>10 DEF EncodeSubnegotiation, MeansSubnegotiation

\* A record of the client: its data, and the end of record.
LEMMA RecordIsWritten ==
  ASSUME NEW d \in Seq(Byte)
  PROVE  IsWritten(EncodeData(d) \o <<IAC, EOR>>, MeansData(d) \o MeansCommand(EOR))
<1> DEFINE piece == [bytes |-> <<IAC, EOR>>, means |-> <<<<"Command", EOR>>>>]
<1>1. EOR \in Standalone \ {SE}
  BY DEF Standalone, EOR, SE, GA
<1>2. piece \in Pieces
  BY <1>1 DEF Pieces
<1> HIDE DEF piece
<1>3. IsWritten(EncodeData(d) \o piece.bytes, MeansData(d) \o piece.means)
  BY <1>2, DataIsWritten, PiecesAdd
<1>4. piece.bytes = <<IAC, EOR>> /\ piece.means = <<<<"Command", EOR>>>>
  BY DEF piece
<1> QED
  BY <1>3, <1>4 DEF MeansCommand

-----------------------------------------------------------------------------
(* Reading the records. *)

Reads == [records : Seq(Seq(Byte)), open : Seq(Byte)]

EventTable == [read \in Reads |-> [event \in Event |-> TakeEvent(read, event)]]

\* What a host that has read this reads with these events.
ReadOn(read, events) == Folded(EventTable, read, events)

LEMMA EventsApart ==
  /\ \A b : <<"Command", b>>[1] # "AppData" /\ <<"AppData", b>>[1] = "AppData" /\ <<"AppData", b>>[2] = b
  /\ \A event \in Event : event[1] = "AppData" => event[2] \in Byte
  /\ \A b \in Byte : <<"AppData", b>> \in Event /\ <<"Command", b>> \in Event
BY DEF Event

LEMMA TakesEvent ==
  ASSUME NEW read \in Reads, NEW event \in Event
  PROVE  TakeEvent(read, event) \in Reads
<1>1. read.records \in Seq(Seq(Byte)) /\ read.open \in Seq(Byte) /\ <<>> \in Seq(Byte)
  BY EmptySeq DEF Reads
<1>2. CASE event[1] = "AppData"
  <2>1. event[2] \in Byte
    BY <1>2, EventsApart
  <2>2. Append(read.open, event[2]) \in Seq(Byte)
    BY <1>1, <2>1, AppendProperties
  <2> QED
    BY <1>2, <2>2 DEF TakeEvent, Reads
<1>3. CASE event[1] # "AppData"
  <2>1. Append(read.records, read.open) \in Seq(Seq(Byte))
    BY <1>1, AppendProperties
  <2> QED
    BY <1>1, <1>3, <2>1 DEF TakeEvent, Reads
<1> QED
  BY <1>2, <1>3

LEMMA EventTableIsOne ==
  /\ IsTable(EventTable, Reads, Event) /\ NothingRead \in Reads
  /\ \A read \in Reads, event \in Event : EventTable[read][event] = TakeEvent(read, event)
<1>1. NothingRead \in Reads
  BY EmptySeq DEF NothingRead, Reads
<1>2. EventTable \in [Reads -> [Event -> Reads]]
  BY TakesEvent DEF EventTable
<1>3. \A read \in Reads, event \in Event : EventTable[read][event] = TakeEvent(read, event)
  BY DEF EventTable
<1> QED
  BY <1>1, <1>2, <1>3 DEF IsTable

\* The recursive function of RecordsIn.
ReadStep(events, g) ==
  [n \in 0..Len(events) |-> IF n = 0 THEN NothingRead ELSE TakeEvent(g[n - 1], events[n])]

ReadsOf(events) == CHOOSE g : g = ReadStep(events, g)

LEMMA RecordsAreThese == \A events : RecordsIn(events) = ReadsOf(events)[Len(events)].records
BY DEF RecordsIn, ReadsOf, ReadStep

LEMMA RecordsAreFolded ==
  ASSUME NEW s \in Seq(Event)
  PROVE  RecordsIn(s) = ReadOn(NothingRead, s).records
<1> DEFINE h == ReadsOf(s)
<1>1. Len(s) \in Nat /\ \A n \in 1..Len(s) : s[n] \in Event
  BY LenProperties, ElementOfSeq
<1>2. \E g : g = ReadStep(s, g)
  <2>1. PICK g \in [0..Len(s) -> Reads] : g = FoldStep(EventTable, NothingRead, s, g)
    BY EventTableIsOne, FoldExists
  <2>2. ASSUME NEW n \in 0..Len(s), n # 0
        PROVE  EventTable[g[n - 1]][s[n]] = TakeEvent(g[n - 1], s[n])
    <3>1. n - 1 \in 0..Len(s) /\ n \in 1..Len(s)
      BY <1>1, <2>2
    <3>2. g[n - 1] \in Reads /\ s[n] \in Event
      BY <1>1, <3>1
    <3> QED
      BY <3>2, EventTableIsOne
  <2>3. FoldStep(EventTable, NothingRead, s, g) = ReadStep(s, g)
    BY <2>2 DEF FoldStep, ReadStep
  <2> QED
    BY <2>1, <2>3
<1>3. h = ReadStep(s, h)
  BY <1>2 DEF ReadsOf
<1> HIDE DEF h
<1>4. \A n \in 0..Len(s) : h[n] = IF n = 0 THEN NothingRead ELSE TakeEvent(h[n - 1], s[n])
  BY <1>3 DEF ReadStep
<1>5. h[0] = NothingRead
  BY <1>1, <1>4
<1>6. ASSUME NEW n \in 1..Len(s), h[n - 1] \in Reads
      PROVE  h[n] = EventTable[h[n - 1]][s[n]]
  <2>1. n \in 0..Len(s) /\ n # 0 /\ s[n] \in Event
    BY <1>1
  <2>2. h[n] = TakeEvent(h[n - 1], s[n])
    BY <1>4, <2>1
  <2> QED
    BY <1>6, <2>1, <2>2, EventTableIsOne
<1>7. h[Len(s)] = Folded(EventTable, NothingRead, s)
  BY <1>5, <1>6, EventTableIsOne, FoldIsFolded
<1> QED
  BY <1>7, RecordsAreThese DEF h, ReadOn

\* Nothing, one event more, and one thing after the other.
ReadsFurther(read) ==
  /\ ReadOn(read, <<>>) = read
  /\ \A s \in Seq(Event) : ReadOn(read, s) \in Reads
  /\ \A s \in Seq(Event), event \in Event :
       ReadOn(read, Append(s, event)) = TakeEvent(ReadOn(read, s), event)
  /\ \A s, t \in Seq(Event) : ReadOn(read, s \o t) = ReadOn(ReadOn(read, s), t)

LEMMA ReadingFurther == ASSUME NEW read \in Reads PROVE ReadsFurther(read)
<1>1. IsTable(EventTable, Reads, Event)
  BY EventTableIsOne
<1>2. FoldUnrolls(EventTable, read, Event)
  BY <1>1, FoldedGrows, Zenon
<1>3. \A s \in Seq(Event) : ReadOn(read, s) \in Reads
  BY <1>1, FoldedType DEF ReadOn
<1>4. \A s, t \in Seq(Event) : ReadOn(read, s \o t) = ReadOn(ReadOn(read, s), t)
  BY <1>1, FoldedConcat DEF ReadOn
<1>5. \A s \in Seq(Event), event \in Event :
        ReadOn(read, Append(s, event)) = TakeEvent(ReadOn(read, s), event)
  BY <1>2, <1>3, EventTableIsOne DEF FoldUnrolls, ReadOn
<1>6. ReadOn(read, <<>>) = read
  BY <1>2 DEF FoldUnrolls, ReadOn
<1> QED
  BY <1>3, <1>4, <1>5, <1>6 DEF ReadsFurther

\* Data stays open, and an end of record closes it.
Open(read, d) == [records |-> read.records, open |-> read.open \o d]

LEMMA DataIsOpen ==
  ASSUME NEW read \in Reads
  PROVE  \A d \in Seq(Byte) : ReadOn(read, MeansData(d)) = Open(read, d)
<1> DEFINE T == {d \in Seq(Byte) : ReadOn(read, MeansData(d)) = Open(read, d)}
<1>1. ReadsFurther(read) /\ read.records \in Seq(Seq(Byte)) /\ read.open \in Seq(Byte)
      /\ read = [records |-> read.records, open |-> read.open]
  BY ReadingFurther DEF Reads
<1>2. <<>> \in T
  <2>1. <<>> \in Seq(Byte) /\ MeansData(<<>>) = <<>>
    BY EmptySeq, DataEvents
  <2>2. read.open \o <<>> = read.open
    BY <1>1, ConcatEmptySeq
  <2>3. ReadOn(read, <<>>) = read
    BY <1>1 DEF ReadsFurther
  <2> QED
    BY <1>1, <2>1, <2>2, <2>3 DEF Open
<1>3. ASSUME NEW d \in Seq(Byte), NEW b \in Byte, d \in T
      PROVE  Append(d, b) \in T
  <2> DEFINE e == <<"AppData", b>>
  <2>1. e \in Event /\ e[1] = "AppData" /\ e[2] = b
    BY EventsApart
  <2>2. MeansData(d) \in Seq(Event) /\ MeansData(Append(d, b)) = Append(MeansData(d), e)
    BY DataEvents
  <2> HIDE DEF e
  <2>3. ReadOn(read, Append(MeansData(d), e)) = TakeEvent(ReadOn(read, MeansData(d)), e)
    BY <1>1, <2>1, <2>2 DEF ReadsFurther
  <2>4. ReadOn(read, MeansData(d)) = Open(read, d)
    BY <1>3
  <2>5. TakeEvent(Open(read, d), e)
          = [records |-> read.records, open |-> Append(read.open \o d, b)]
    BY <2>1 DEF TakeEvent, Open
  <2>6. Append(read.open \o d, b) = read.open \o Append(d, b)
    <3>1. read.open \o d \in Seq(Byte) /\ <<b>> \in Seq(Byte)
      BY <1>1, ConcatProperties
    <3>2. Append(d, b) = d \o <<b>>
      BY AppendIsConcat
    <3>3. Append(read.open \o d, b) = (read.open \o d) \o <<b>>
      BY <3>1, AppendIsConcat
    <3>4. IsRegrouped(read.open, d, <<b>>)
      BY <1>1, <3>1, Regroup
    <3> QED
      BY <3>2, <3>3, <3>4 DEF IsRegrouped
  <2> QED
    BY <2>2, <2>3, <2>4, <2>5, <2>6, AppendProperties DEF Open
<1>4. Seq(Byte) \subseteq T
  <2> HIDE DEF T
  <2> QED BY <1>2, <1>3, AppendInduction
<1> QED
  BY <1>4

LEMMA RecordIsRead ==
  ASSUME NEW read \in Reads, NEW d \in Seq(Byte)
  PROVE  ReadOn(read, MeansData(d) \o MeansCommand(EOR))
           = [records |-> Append(read.records, read.open \o d), open |-> <<>>]
<1> DEFINE e == <<"Command", EOR>>
<1>1. MeansData(d) \in Seq(Event) /\ ReadsFurther(read)
  BY DataEvents, ReadingFurther
<1>2. e \in Event /\ e[1] # "AppData"
  <2>1. EOR \in Standalone
    BY DEF EOR, GA, Standalone
  <2>2. EOR \in Byte
    BY <2>1, CodesAreBytes
  <2> QED
    BY <2>2, EventsApart
<1>3. MeansData(d) \o MeansCommand(EOR) = Append(MeansData(d), e)
  BY <1>1, <1>2, AppendIsConcat DEF MeansCommand
<1>4. ReadOn(read, MeansData(d)) = Open(read, d)
  BY DataIsOpen
<1>5. ReadOn(read, Append(MeansData(d), e)) = TakeEvent(Open(read, d), e)
  BY <1>1, <1>2, <1>4 DEF ReadsFurther
<1>6. TakeEvent(Open(read, d), e)
        = [records |-> Append(read.records, read.open \o d), open |-> <<>>]
  BY <1>2 DEF TakeEvent, Open
<1> QED
  BY <1>3, <1>5, <1>6

\* What was read stays read.
LEMMA RecordsStay ==
  ASSUME NEW read \in Reads
  PROVE  \A s \in Seq(Event) :
           \E more \in Seq(Seq(Byte)) : ReadOn(read, s).records = read.records \o more
<1> DEFINE T == {s \in Seq(Event) :
                   \E more \in Seq(Seq(Byte)) : ReadOn(read, s).records = read.records \o more}
<1>1. ReadsFurther(read) /\ read.records \in Seq(Seq(Byte))
  BY ReadingFurther DEF Reads
<1>2. <<>> \in T
  <2>1. <<>> \in Seq(Event) /\ <<>> \in Seq(Seq(Byte)) /\ read.records \o <<>> = read.records
    BY <1>1, EmptySeq, ConcatEmptySeq
  <2> QED
    BY <1>1, <2>1 DEF ReadsFurther
<1>3. ASSUME NEW s \in Seq(Event), NEW e \in Event, s \in T
      PROVE  Append(s, e) \in T
  <2> DEFINE r == ReadOn(read, s)
  <2>1. PICK more \in Seq(Seq(Byte)) : r.records = read.records \o more
    BY <1>3
  <2>2. r \in Reads /\ ReadOn(read, Append(s, e)) = TakeEvent(r, e)
    BY <1>1 DEF ReadsFurther
  <2> HIDE DEF r
  <2>3. r.open \in Seq(Byte) /\ Append(more, r.open) \in Seq(Seq(Byte))
    BY <2>2, AppendProperties DEF Reads
  <2>4. Append(r.records, r.open) = read.records \o Append(more, r.open)
    <3>1. read.records \o more \in Seq(Seq(Byte)) /\ <<r.open>> \in Seq(Seq(Byte))
      BY <1>1, <2>3, ConcatProperties
    <3>2. Append(more, r.open) = more \o <<r.open>>
      BY <2>3, AppendIsConcat
    <3>3. Append(read.records \o more, r.open) = (read.records \o more) \o <<r.open>>
      BY <2>3, <3>1, AppendIsConcat
    <3>4. IsRegrouped(read.records, more, <<r.open>>)
      BY <1>1, <3>1, Regroup
    <3> QED
      BY <2>1, <3>2, <3>3, <3>4 DEF IsRegrouped
  <2>5. TakeEvent(r, e).records \in {r.records, Append(r.records, r.open)}
    BY DEF TakeEvent
  <2> QED
    BY <2>1, <2>2, <2>3, <2>4, <2>5, AppendProperties
<1>4. Seq(Event) \subseteq T
  <2> HIDE DEF T
  <2> QED BY <1>2, <1>3, AppendInduction
<1> QED
  BY <1>4

-----------------------------------------------------------------------------
(* The client's records. *)

\* An item that carries a record sendGDS built, whose length fits its field.
CarriesRecord(item) ==
  \E flags, opcode \in Byte, payload \in Seq(Byte) :
    /\ Len(payload) <= Gds!GdsMaxRecordLen - Gds!GdsHeaderSize
    /\ item.record = Record(flags, opcode, payload)
    /\ item.bytes = SendRawData(item.record)
    /\ item.means = MeansData(item.record) \o MeansCommand(EOR)

Carriers == {item \in Items : CarriesRecord(item)}

LEMMA LengthField ==
  ASSUME NEW n \in Nat, n <= 65535
  PROVE  /\ (n \div 256) % 256 \in Byte /\ n % 256 \in Byte
         /\ 256 * ((n \div 256) % 256) + (n % 256) = n
<1> DEFINE hi == n \div 256
           lo == n % 256
<1>1. hi \in Int /\ lo \in Int /\ n = 256 * hi + lo /\ 0 <= lo /\ lo <= 255
  OBVIOUS
<1> HIDE DEF hi, lo
<1>2. 0 <= hi /\ hi <= 255
  BY <1>1
<1>3. hi % 256 = hi
  BY <1>1, <1>2
<1>4. hi \in Byte /\ lo \in Byte
  BY <1>1, <1>2 DEF Byte
<1>5. hi % 256 \in Byte /\ lo \in Byte /\ 256 * (hi % 256) + lo = n
  BY <1>1, <1>3, <1>4
<1> QED
  BY <1>5 DEF hi, lo

LEMMA ARecord ==
  ASSUME NEW flags \in Byte, NEW opcode \in Byte, NEW payload \in Seq(Byte),
         Len(payload) <= Gds!GdsMaxRecordLen - Gds!GdsHeaderSize
  PROVE  /\ Record(flags, opcode, payload) \in Seq(Byte)
         /\ Gds!Length16(Record(flags, opcode, payload), 0) = Len(Record(flags, opcode, payload))
<1> DEFINE len == Gds!GdsHeaderSize + Len(payload)
           hi == (len \div 256) % 256
           lo == len % 256
           header == <<hi, lo, Gds!GdsTypeHi, Gds!GdsTypeLo, 0, 0, 4, flags, 0, opcode>>
<1>1. len = 10 + Len(payload) /\ len <= 65535 /\ Len(payload) \in Nat /\ len \in Nat
  <2>1. Len(payload) \in Nat
    BY LenProperties
  <2>2. Gds!GdsHeaderSize = 10 /\ Gds!GdsMaxRecordLen = 65535
    BY DEF Gds!GdsHeaderSize, Gds!GdsMaxRecordLen
  <2> QED
    BY <2>1, <2>2
<1> HIDE DEF len
<1>2. hi \in Byte /\ lo \in Byte /\ 256 * hi + lo = len
  BY <1>1, LengthField
<1> HIDE DEF hi, lo
<1>3. Gds!GdsTypeHi \in Byte /\ Gds!GdsTypeLo \in Byte /\ 0 \in Byte /\ 4 \in Byte
      /\ hi \in Int /\ lo \in Int
  BY <1>2 DEF Gds!GdsTypeHi, Gds!GdsTypeLo, Byte
<1>4. header \in Seq(Byte) /\ Len(header) = 10 /\ header[1] = hi /\ header[2] = lo
  BY <1>2, <1>3
<1>5. Record(flags, opcode, payload) = header \o payload
  BY DEF Record, header, hi, lo, len
<1> HIDE DEF header
<1> DEFINE r == header \o payload
<1>6. /\ r \in Seq(Byte) /\ Len(r) = 10 + Len(payload)
      /\ \A i \in 1..(10 + Len(payload)) : r[i] = IF i <= 10 THEN header[i] ELSE payload[i - 10]
  <2>1. /\ r \in Seq(Byte) /\ Len(r) = Len(header) + Len(payload)
        /\ \A i \in 1..(Len(header) + Len(payload)) :
             r[i] = IF i <= Len(header) THEN header[i] ELSE payload[i - Len(header)]
    <3>1. header \in Seq(Byte)
      BY <1>4
    <3> QED
      BY <3>1, ConcatProperties, Zenon
  <2>2. Len(header) = 10
    BY <1>4
  <2> HIDE DEF r
  <2> QED
    BY <2>1, <2>2
<1> HIDE DEF r
<1>7. r[1] = hi /\ r[2] = lo
  <2>1. 1 \in 1..(10 + Len(payload)) /\ 2 \in 1..(10 + Len(payload))
    BY <1>1
  <2> QED
    BY <1>4, <1>6, <2>1
<1>8. Gds!Length16(r, 0) = Len(r)
  <2>1. Gds!Length16(r, 0) = 256 * r[1] + r[2]
    BY DEF Gds!Length16
  <2> QED
    BY <1>1, <1>2, <1>6, <1>7, <2>1
<1> QED
  BY <1>5, <1>6, <1>8 DEF r

LEMMA ACarrier ==
  ASSUME NEW item, CarriesRecord(item)
  PROVE  /\ item.record \in Seq(Byte)
         /\ Gds!Length16(item.record, 0) = Len(item.record)
         /\ item.means = MeansData(item.record) \o MeansCommand(EOR)
         /\ IsWritten(item.bytes, item.means)
<1>1. PICK flags \in Byte, opcode \in Byte, payload \in Seq(Byte) :
        /\ Len(payload) <= Gds!GdsMaxRecordLen - Gds!GdsHeaderSize
        /\ item.record = Record(flags, opcode, payload)
        /\ item.bytes = SendRawData(item.record)
        /\ item.means = MeansData(item.record) \o MeansCommand(EOR)
  BY DEF CarriesRecord
<1>2. item.record \in Seq(Byte) /\ Gds!Length16(item.record, 0) = Len(item.record)
  BY <1>1, ARecord
<1>3. SendRawData(item.record) = EncodeData(item.record) \o <<IAC, EOR>>
  BY DEF SendRawData, EncodeData
<1>4. IsWritten(item.bytes, item.means)
  BY <1>1, <1>2, <1>3, RecordIsWritten
<1> QED
  BY <1>1, <1>2, <1>4

RecordsOf(w) == [n \in DOMAIN w |-> w[n].record]
MeansOf(w)   == FlattenSeq([n \in DOMAIN w |-> w[n].means])

\* A list of records is read as these records.
LEMMA RecordsAreRead ==
  ASSUME \A item \in Items : item.means \in Seq(Event)
  PROVE  \A w \in Seq(Carriers) :
           ReadOn(NothingRead, MeansOf(w)) = [records |-> RecordsOf(w), open |-> <<>>]
<1> DEFINE f == [item \in Carriers |-> item.record]
           T == {w \in Seq(Carriers) :
                   ReadOn(NothingRead, MeansOf(w)) = [records |-> RecordsOf(w), open |-> <<>>]}
<1>1. MapsInto(f, Carriers, Seq(Byte)) /\ \A item \in Carriers : f[item] = item.record
  <2>1. \A item \in Carriers : item.record \in Seq(Byte)
    BY ACarrier DEF Carriers
  <2> QED
    BY <2>1 DEF MapsInto
<1>2. \A w \in Seq(Carriers) : Mapped(f, w) = RecordsOf(w) /\ w \in Seq(Items)
  <2> SUFFICES ASSUME NEW w \in Seq(Carriers)
               PROVE  Mapped(f, w) = RecordsOf(w) /\ w \in Seq(Items)
    OBVIOUS
  <2>1. \A n \in DOMAIN w : w[n] \in Carriers
    BY LenProperties, ElementOfSeq
  <2>2. w \in Seq(Items)
    BY SeqMonotonic DEF Carriers
  <2> QED
    BY <2>1, <2>2 DEF Mapped, RecordsOf
<1> HIDE DEF f
<1>3. ReadsFurther(NothingRead)
  BY EventTableIsOne, ReadingFurther
<1>4. <<>> \in T
  <2>1. <<>> \in Seq(Carriers) /\ MeansOf(<<>>) = <<>>
    BY EmptySeq, NothingOwed DEF MeansOf
  <2>2. RecordsOf(<<>>) = <<>>
    <3>1. DOMAIN <<>> = {}
      BY EmptySeq
    <3> QED
      BY <3>1 DEF RecordsOf
  <2>3. ReadOn(NothingRead, <<>>) = NothingRead
    BY <1>3 DEF ReadsFurther
  <2> QED
    BY <2>1, <2>2, <2>3 DEF NothingRead
<1>5. ASSUME NEW w \in Seq(Carriers), NEW item \in Carriers, w \in T
      PROVE  Append(w, item) \in T
  <2> DEFINE r == [records |-> RecordsOf(w), open |-> <<>>]
  <2>1. MeansOf(w) \in Seq(Event) /\ MeansOf(Append(w, item)) = MeansOf(w) \o item.means
        /\ item.means \in Seq(Event)
    <3>1. item \in Items /\ w \in Seq(Items)
      BY <1>2 DEF Carriers
    <3> QED
      BY <3>1, OwedGrows DEF MeansOf
  <2>2. item.record \in Seq(Byte) /\ item.means = MeansData(item.record) \o MeansCommand(EOR)
    BY ACarrier DEF Carriers
  <2>3. ReadOn(NothingRead, MeansOf(w)) = r /\ r \in Reads
    BY <1>3, <1>5, <2>1 DEF ReadsFurther
  <2>4. ReadOn(NothingRead, MeansOf(w) \o item.means) = ReadOn(r, item.means)
    BY <1>3, <2>1, <2>3 DEF ReadsFurther
  <2>5. ReadOn(r, item.means) = [records |-> Append(RecordsOf(w), item.record), open |-> <<>>]
    <3>1. ReadOn(r, item.means) = [records |-> Append(r.records, r.open \o item.record), open |-> <<>>]
      BY <2>2, <2>3, RecordIsRead
    <3>2. r.records = RecordsOf(w) /\ r.open \o item.record = item.record
      BY <2>2, ConcatEmptySeq
    <3> QED
      BY <3>1, <3>2
  <2>6. RecordsOf(Append(w, item)) = Append(RecordsOf(w), item.record)
        /\ Append(w, item) \in Seq(Carriers)
    <3>1. Append(w, item) \in Seq(Carriers)
      BY AppendProperties
    <3>2. Mapped(f, Append(w, item)) = Append(Mapped(f, w), f[item])
      BY <1>1, MappedAppend
    <3> QED
      BY <1>1, <1>2, <3>1, <3>2
  <2> QED
    BY <2>1, <2>4, <2>5, <2>6
<1>6. Seq(Carriers) \subseteq T
  <2> HIDE DEF T
  <2> QED BY <1>4, <1>5, AppendInduction
<1> QED
  BY <1>6

LEMMA PrefixOf ==
  ASSUME NEW S, NEW s \in Seq(S), NEW t \in Seq(S)
  PROVE  IsPrefix(s, s \o t) /\ \A n \in DOMAIN s : n \in DOMAIN (s \o t) /\ (s \o t)[n] = s[n]
<1> DEFINE r == s \o t
           u == SubSeq(r, 1, Len(s))
<1>1. /\ r \in Seq(S) /\ Len(r) = Len(s) + Len(t) /\ Len(s) \in Nat /\ Len(t) \in Nat
      /\ DOMAIN s = 1..Len(s) /\ DOMAIN r = 1..Len(r)
      /\ \A i \in 1..(Len(s) + Len(t)) : r[i] = IF i <= Len(s) THEN s[i] ELSE t[i - Len(s)]
  BY ConcatProperties, LenProperties
<1> HIDE DEF r
<1>2. \A i \in 1..Len(s) : i \in 1..Len(r) /\ r[i] = s[i] /\ r[i] \in S
  <2>1. \A i \in 1..Len(s) : i \in 1..(Len(s) + Len(t)) /\ i <= Len(s) /\ s[i] \in S
    BY <1>1, ElementOfSeq
  <2> QED
    BY <1>1, <2>1
<1>3. u \in Seq(S) /\ Len(u) = Len(s) /\ \A i \in 1..Len(s) : u[i] = s[i]
  <2>1. /\ u \in Seq(S) /\ Len(u) = (IF 1 <= Len(s) THEN Len(s) - 1 + 1 ELSE 0)
        /\ \A i \in 1..(Len(s) - 1 + 1) : u[i] = r[1 + i - 1]
    BY <1>1, <1>2, SubSeqProperties
  <2> HIDE DEF u
  <2>2. Len(u) = Len(s) /\ \A i \in 1..Len(s) : u[i] = r[i]
    BY <1>1, <2>1
  <2> QED
    BY <1>2, <2>1, <2>2
<1> HIDE DEF u
<1>4. u = s
  BY <1>3, SeqEqual
<1>5. SubSeq(s, 1, Len(s)) = s
  BY SubSeqFull
<1>6. IsPrefix(s, r)
  BY <1>1, <1>4, <1>5 DEF IsPrefix, u
<1> QED
  BY <1>1, <1>2, <1>6 DEF r

\* Every item carries a record or nothing of the kind, and is what telnet has.
CarriesOnlyRecords(item) ==
  IF item.record # <<>> THEN CarriesRecord(item) ELSE IsWritten(item.bytes, item.means)

\* In a state.
LEMMA RecordsArrive ==
  ASSUME \A item \in Items : CarriesOnlyRecords(item), TypeOK, StillOwed
  PROVE  RecordsArriveWhole
<1> SUFFICES ASSUME \A n \in DOMAIN written : written[n].record # <<>>
             PROVE  /\ IsPrefix(RecordsRead, RecordsOf(written))
                    /\ \A n \in DOMAIN RecordsRead :
                         Gds!Length16(RecordsRead[n], 0) = Len(RecordsRead[n])
  BY DEF RecordsArriveWhole, RecordsOf
<1>1. \A item \in Items : item.means \in Seq(Event)
  <2>1. \A item \in Items : IsWritten(item.bytes, item.means)
    BY ACarrier DEF CarriesOnlyRecords
  <2> QED
    BY <2>1, WrittenRead DEF IsRead, ReadsTo
<1>2. written \in Seq(Carriers)
  <2>1. written \in Seq(Items)
    BY DEF TypeOK
  <2>2. Len(written) \in Nat /\ written \in [1..Len(written) -> Items] /\ DOMAIN written = 1..Len(written)
    BY <2>1, LenProperties
  <2>3. \A n \in 1..Len(written) : written[n] \in Carriers
    BY <2>2 DEF CarriesOnlyRecords, Carriers
  <2>4. written \in [1..Len(written) -> Carriers]
    BY <2>2, <2>3
  <2> QED
    BY <2>2, <2>4
<1>3. ReadOn(NothingRead, MeansOf(written)) = [records |-> RecordsOf(written), open |-> <<>>]
  BY <1>1, <1>2, RecordsAreRead
<1>4. PICK unsaid \in Seq(Event) : MeansOf(written) = outputs \o unsaid /\ outputs \in Seq(Event)
  BY DEF StillOwed, Owed, MeansOf
<1> DEFINE r == ReadOn(NothingRead, outputs)
<1>5. r \in Reads /\ ReadOn(NothingRead, outputs \o unsaid) = ReadOn(r, unsaid)
  BY <1>4, EventTableIsOne, ReadingFurther DEF ReadsFurther
<1>6. RecordsRead = r.records
  BY <1>4, RecordsAreFolded DEF RecordsRead
<1> HIDE DEF r
<1>7. PICK more \in Seq(Seq(Byte)) : ReadOn(r, unsaid).records = r.records \o more
  BY <1>4, <1>5, RecordsStay
<1>8. RecordsOf(written) = RecordsRead \o more /\ RecordsRead \in Seq(Seq(Byte))
  BY <1>3, <1>4, <1>5, <1>6, <1>7 DEF Reads
<1>9. IsPrefix(RecordsRead, RecordsOf(written))
      /\ \A n \in DOMAIN RecordsRead :
           n \in DOMAIN RecordsOf(written) /\ RecordsOf(written)[n] = RecordsRead[n]
  BY <1>8, PrefixOf
<1>10. ASSUME NEW n \in DOMAIN RecordsRead
       PROVE  Gds!Length16(RecordsRead[n], 0) = Len(RecordsRead[n])
  <2>1. n \in DOMAIN written /\ RecordsRead[n] = written[n].record
    BY <1>9 DEF RecordsOf
  <2>2. written[n] \in Carriers
    BY <1>2, <2>1, LenProperties, ElementOfSeq
  <2>3. CarriesRecord(written[n])
    BY <2>2 DEF Carriers
  <2> QED
    BY <2>1, <2>3, ACarrier
<1> QED
  BY <1>9, <1>10

\* For every menu of records, wherever the stream is cut: the host reads the
\* records the client sent, whole and in order, and each is as long as its
\* length field says, as long as the payload of each is at most 65525 bytes
\* (protocol_handler.cpp:318-375).
THEOREM RecordsComeWhole ==
  ASSUME \A item \in Items : CarriesOnlyRecords(item)
  PROVE  Spec => []RecordsArriveWhole
<1>1. \A item \in Items : IsRead(item.bytes, item.means)
  BY ACarrier, WrittenRead DEF CarriesOnlyRecords
<1>2. Spec => [](CallbacksAreTheItems /\ NothingIsHeldBack /\ StillOwed)
  BY <1>1, StreamHolds
<1>3. TypeOK /\ StillOwed => RecordsArriveWhole
  BY RecordsArrive
<1> QED
  BY <1>2, <1>3, TypeCorrect, PTL

-----------------------------------------------------------------------------
(* Reading the variables. *)

Secret == {IBMRSEED, IBMSUBSPW}
Plain  == Byte \ {IAC}
Text   == Plain \ {0, Value, Esc, UserVar}

\* A value that is escaped may hold any mark, another one none.
Variables == (Secret \X Seq(Plain)) \cup (Text \X Seq(Text))

Variable == Byte \X Seq(Byte)

Parsings ==
  [variables : Seq(Variable), part : {"name", "value"}, name : Seq(Byte), value : Seq(Byte),
   escaped : BOOLEAN]

\* Between two bytes, no escape pending.
Parsing(variables, part, name, value) ==
  [variables |-> variables, part |-> part, name |-> name, value |-> value, escaped |-> FALSE]

ByteTable == [parsed \in Parsings |-> [b \in Byte |-> TakeByte(parsed, b)]]

ParseOn(parsed, data) == Folded(ByteTable, parsed, data)

LEMMA ParsingParts ==
  ASSUME NEW parsed \in Parsings
  PROVE  /\ parsed.variables \in Seq(Variable) /\ parsed.part \in {"name", "value"}
         /\ parsed.name \in Seq(Byte) /\ parsed.value \in Seq(Byte) /\ parsed.escaped \in BOOLEAN
         /\ Closed(parsed) \in Seq(Variable)
<1>1. /\ parsed.variables \in Seq(Variable) /\ parsed.part \in {"name", "value"}
      /\ parsed.name \in Seq(Byte) /\ parsed.value \in Seq(Byte) /\ parsed.escaped \in BOOLEAN
  BY DEF Parsings
<1> SUFFICES Closed(parsed) \in Seq(Variable)
  BY <1>1
<1>2. CASE parsed.name = <<>>
  BY <1>1, <1>2 DEF Closed
<1>3. CASE parsed.name # <<>>
  <2>1. Head(parsed.name) \in Byte
    BY <1>1, <1>3, HeadTailProperties
  <2>2. <<Head(parsed.name), parsed.value>> \in Variable
    BY <1>1, <2>1 DEF Variable
  <2>3. Append(parsed.variables, <<Head(parsed.name), parsed.value>>) \in Seq(Variable)
    BY <1>1, <2>2, AppendProperties
  <2> QED
    BY <1>3, <2>3 DEF Closed
<1> QED
  BY <1>1, <1>2, <1>3

LEMMA Extends ==
  ASSUME NEW parsed \in Parsings, NEW b \in Byte
  PROVE  Extend(parsed, b) \in Parsings
<1>1. /\ parsed.name \in Seq(Byte) /\ parsed.value \in Seq(Byte)
      /\ Append(parsed.name, b) \in Seq(Byte) /\ Append(parsed.value, b) \in Seq(Byte)
  BY ParsingParts, AppendProperties
<1> QED
  BY <1>1 DEF Extend, Parsings

LEMMA TakesByte ==
  ASSUME NEW parsed \in Parsings, NEW b \in Byte
  PROVE  TakeByte(parsed, b) \in Parsings
<1>1. Closed(parsed) \in Seq(Variable) /\ <<>> \in Seq(Variable) /\ <<>> \in Seq(Byte)
  BY ParsingParts, EmptySeq
<1>2. [parsed EXCEPT !.escaped = FALSE] \in Parsings
  BY DEF Parsings
<1>3. [parsed EXCEPT !.escaped = TRUE] \in Parsings
  BY DEF Parsings
<1>4. [parsed EXCEPT !.part = "value"] \in Parsings
  BY DEF Parsings
<1>5. [NothingParsed EXCEPT !.variables = Closed(parsed)] \in Parsings
  BY <1>1 DEF NothingParsed, Parsings
<1>6. Extend([parsed EXCEPT !.escaped = FALSE], b) \in Parsings
  BY <1>2, Extends
<1>7. Extend(parsed, b) \in Parsings
  BY Extends
<1> QED
  BY <1>3, <1>4, <1>5, <1>6, <1>7 DEF TakeByte

LEMMA ByteTableIsOne ==
  /\ IsTable(ByteTable, Parsings, Byte) /\ NothingParsed \in Parsings
  /\ \A parsed \in Parsings, b \in Byte : ByteTable[parsed][b] = TakeByte(parsed, b)
<1>1. NothingParsed \in Parsings
  BY EmptySeq DEF NothingParsed, Parsings
<1>2. ByteTable \in [Parsings -> [Byte -> Parsings]]
  BY TakesByte DEF ByteTable
<1>3. \A parsed \in Parsings, b \in Byte : ByteTable[parsed][b] = TakeByte(parsed, b)
  BY DEF ByteTable
<1> QED
  BY <1>1, <1>2, <1>3 DEF IsTable

\* The recursive function of ReadVariables.
ParseStep(body, g) ==
  [n \in 0..Len(body) |-> IF n = 0 THEN NothingParsed ELSE TakeByte(g[n - 1], body[n])]

ParseOf(body) == CHOOSE g : g = ParseStep(body, g)

LEMMA VariablesAreThese ==
  \A data : ReadVariables(data) = Closed(ParseOf(Tail(data))[Len(Tail(data))])
BY DEF ReadVariables, ParseOf, ParseStep

LEMMA VariablesAreFolded ==
  ASSUME NEW s \in Seq(Byte)
  PROVE  ParseOf(s)[Len(s)] = ParseOn(NothingParsed, s)
<1> DEFINE h == ParseOf(s)
<1>1. Len(s) \in Nat /\ \A n \in 1..Len(s) : s[n] \in Byte
  BY LenProperties, ElementOfSeq
<1>2. \E g : g = ParseStep(s, g)
  <2>1. PICK g \in [0..Len(s) -> Parsings] : g = FoldStep(ByteTable, NothingParsed, s, g)
    BY ByteTableIsOne, FoldExists
  <2>2. ASSUME NEW n \in 0..Len(s), n # 0
        PROVE  ByteTable[g[n - 1]][s[n]] = TakeByte(g[n - 1], s[n])
    <3>1. n - 1 \in 0..Len(s) /\ n \in 1..Len(s)
      BY <1>1, <2>2
    <3>2. g[n - 1] \in Parsings /\ s[n] \in Byte
      BY <1>1, <3>1
    <3> QED
      BY <3>2, ByteTableIsOne
  <2>3. FoldStep(ByteTable, NothingParsed, s, g) = ParseStep(s, g)
    BY <2>2 DEF FoldStep, ParseStep
  <2> QED
    BY <2>1, <2>3
<1>3. h = ParseStep(s, h)
  BY <1>2 DEF ParseOf
<1> HIDE DEF h
<1>4. \A n \in 0..Len(s) : h[n] = IF n = 0 THEN NothingParsed ELSE TakeByte(h[n - 1], s[n])
  BY <1>3 DEF ParseStep
<1>5. h[0] = NothingParsed
  BY <1>1, <1>4
<1>6. ASSUME NEW n \in 1..Len(s), h[n - 1] \in Parsings
      PROVE  h[n] = ByteTable[h[n - 1]][s[n]]
  <2>1. n \in 0..Len(s) /\ n # 0 /\ s[n] \in Byte
    BY <1>1
  <2>2. h[n] = TakeByte(h[n - 1], s[n])
    BY <1>4, <2>1
  <2> QED
    BY <1>6, <2>1, <2>2, ByteTableIsOne
<1>7. h[Len(s)] = Folded(ByteTable, NothingParsed, s)
  BY <1>5, <1>6, ByteTableIsOne, FoldIsFolded
<1> QED
  BY <1>7 DEF h, ParseOn

ParsesFurther(parsed) ==
  /\ ParseOn(parsed, <<>>) = parsed
  /\ \A s \in Seq(Byte) : ParseOn(parsed, s) \in Parsings
  /\ \A s \in Seq(Byte), b \in Byte :
       ParseOn(parsed, Append(s, b)) = TakeByte(ParseOn(parsed, s), b)
  /\ \A s, t \in Seq(Byte) : ParseOn(parsed, s \o t) = ParseOn(ParseOn(parsed, s), t)

LEMMA ParsingFurther == ASSUME NEW parsed \in Parsings PROVE ParsesFurther(parsed)
<1>1. IsTable(ByteTable, Parsings, Byte)
  BY ByteTableIsOne
<1>2. FoldUnrolls(ByteTable, parsed, Byte)
  BY <1>1, FoldedGrows, Zenon
<1>3. \A s \in Seq(Byte) : ParseOn(parsed, s) \in Parsings
  BY <1>1, FoldedType DEF ParseOn
<1>4. \A s, t \in Seq(Byte) : ParseOn(parsed, s \o t) = ParseOn(ParseOn(parsed, s), t)
  BY <1>1, FoldedConcat DEF ParseOn
<1>5. \A s \in Seq(Byte), b \in Byte :
        ParseOn(parsed, Append(s, b)) = TakeByte(ParseOn(parsed, s), b)
  BY <1>2, <1>3, ByteTableIsOne DEF FoldUnrolls, ParseOn
<1>6. ParseOn(parsed, <<>>) = parsed
  BY <1>2 DEF FoldUnrolls, ParseOn
<1> QED
  BY <1>3, <1>4, <1>5, <1>6 DEF ParsesFurther

\* A value: bytes that are no marks, and escaped ones that may be.
LEMMA TextIsValue ==
  ASSUME NEW variables \in Seq(Variable), NEW name \in Seq(Byte)
  PROVE  \A d \in Seq(Text) :
           ParseOn(Parsing(variables, "value", name, <<>>), d) = Parsing(variables, "value", name, d)
<1> DEFINE P(d) == Parsing(variables, "value", name, d)
           T == {d \in Seq(Text) : ParseOn(P(<<>>), d) = P(d)}
<1>1. \A d \in Seq(Byte) : P(d) \in Parsings
  BY DEF Parsing, Parsings
<1>2. <<>> \in Seq(Byte) /\ <<>> \in Seq(Text)
  BY EmptySeq
<1>3. ParsesFurther(P(<<>>))
  BY <1>1, <1>2, ParsingFurther
<1>4. <<>> \in T
  BY <1>2, <1>3 DEF ParsesFurther
<1>5. ASSUME NEW d \in Seq(Text), NEW b \in Text, d \in T
      PROVE  Append(d, b) \in T
  <2>1. d \in Seq(Byte) /\ b \in Byte /\ b \notin {0, Value, Esc, UserVar}
    <3>1. Text \subseteq Byte
      BY DEF Text, Plain
    <3> QED
      BY <3>1, SeqMonotonic DEF Text
  <2>2. ParseOn(P(<<>>), Append(d, b)) = TakeByte(P(d), b)
    BY <1>3, <1>5, <2>1 DEF ParsesFurther
  <2>3. TakeByte(P(d), b) = P(Append(d, b))
    BY <2>1 DEF TakeByte, Extend, Parsing
  <2> QED
    BY <2>2, <2>3, AppendProperties
<1>6. Seq(Text) \subseteq T
  <2> HIDE DEF T
  <2> QED BY <1>4, <1>5, AppendInduction
<1> QED
  BY <1>6

Marked(b) == IF b <= 3 \/ b = IAC THEN <<Esc, b>> ELSE <<b>>

MarkTable == [b \in Plain |-> Marked(b)]

LEMMA PlainBytes ==
  /\ Plain \subseteq Byte /\ Text \subseteq Plain /\ Secret \subseteq Text
  /\ {IS, Value, Esc, UserVar} \subseteq Plain
BY DEF Plain, Text, Secret, Byte, IAC, IS, Value, Esc, UserVar, IBMRSEED, IBMSUBSPW

LEMMA Marks ==
  /\ MapsInto(MarkTable, Plain, Seq(Plain))
  /\ \A b \in Plain : MarkTable[b] = Marked(b)
  /\ \A d \in Seq(Plain) : EscapeNewEnviron(d) = All(MarkTable, d)
<1>1. \A b \in Plain : Marked(b) \in Seq(Plain)
  BY PlainBytes DEF Marked
<1>2. ASSUME NEW d \in Seq(Plain)
      PROVE  EscapeNewEnviron(d) = All(MarkTable, d)
  <2>1. \A n \in DOMAIN d : d[n] \in Plain
    BY LenProperties, ElementOfSeq
  <2>2. Mapped(MarkTable, d)
          = [n \in DOMAIN d |-> IF d[n] <= 3 \/ d[n] = IAC THEN <<Esc, d[n]>> ELSE <<d[n]>>]
    BY <2>1 DEF Mapped, MarkTable, Marked
  <2> QED
    BY <2>2 DEF All, EscapeNewEnviron
<1> QED
  BY <1>1, <1>2 DEF MapsInto, MarkTable

LEMMA EscapedIsValue ==
  ASSUME NEW variables \in Seq(Variable), NEW name \in Seq(Byte)
  PROVE  \A d \in Seq(Plain) :
           ParseOn(Parsing(variables, "value", name, <<>>), EscapeNewEnviron(d))
             = Parsing(variables, "value", name, d)
<1> DEFINE P(d) == Parsing(variables, "value", name, d)
           E(d) == All(MarkTable, d)
           T == {d \in Seq(Plain) : ParseOn(P(<<>>), E(d)) = P(d)}
<1>1. \A d \in Seq(Byte) : P(d) \in Parsings
  BY DEF Parsing, Parsings
<1>2. <<>> \in Seq(Byte) /\ <<>> \in Seq(Plain)
  BY EmptySeq
<1>3. ParsesFurther(P(<<>>))
  BY <1>1, <1>2, ParsingFurther
<1>4. ASSUME NEW d \in Seq(Plain)
      PROVE  /\ E(d) \in Seq(Byte) /\ E(<<>>) = <<>> /\ d \in Seq(Byte)
             /\ \A b \in Plain : E(Append(d, b)) = E(d) \o Marked(b)
  <2>1. /\ E(d) \in Seq(Plain) /\ E(<<>>) = <<>>
        /\ \A b \in Plain : E(Append(d, b)) = E(d) \o MarkTable[b]
    BY Marks, AllGrows
  <2>2. E(d) \in Seq(Byte) /\ d \in Seq(Byte)
    BY <2>1, PlainBytes, SeqMonotonic
  <2> QED
    BY <2>1, <2>2, Marks
<1> HIDE DEF E
<1>5. <<>> \in T
  BY <1>2, <1>3, <1>4 DEF ParsesFurther
<1>6. ASSUME NEW d \in Seq(Plain), NEW b \in Plain, d \in T
      PROVE  Append(d, b) \in T
  <2>1. d \in Seq(Byte) /\ b \in Byte /\ Esc \in Byte /\ Append(d, b) \in Seq(Plain)
    BY <1>4, PlainBytes, AppendProperties
  <2>2. P(d) \in Parsings /\ ParsesFurther(P(d))
    BY <1>1, <2>1, ParsingFurther
  <2>3. ParseOn(P(<<>>), E(Append(d, b))) = ParseOn(P(d), Marked(b))
    <3>1. Marked(b) \in Seq(Byte)
      BY <2>1 DEF Marked
    <3>2. ParseOn(P(<<>>), E(d) \o Marked(b)) = ParseOn(ParseOn(P(<<>>), E(d)), Marked(b))
      BY <1>3, <1>4, <3>1 DEF ParsesFurther
    <3> QED
      BY <1>4, <1>6, <3>2
  <2>4. \A p \in Parsings, c \in Byte : ParseOn(p, <<c>>) = TakeByte(p, c)
    <3> SUFFICES ASSUME NEW p \in Parsings, NEW c \in Byte
                 PROVE  ParseOn(p, <<c>>) = TakeByte(p, c)
      OBVIOUS
    <3>1. <<c>> = Append(<<>>, c) /\ <<>> \in Seq(Byte)
      BY EmptySeq, AppendIsConcat, ConcatEmptySeq
    <3>2. ParsesFurther(p)
      BY ParsingFurther
    <3> QED
      BY <3>1, <3>2 DEF ParsesFurther
  <2>5. CASE b <= 3 \/ b = IAC
    <3> DEFINE q == [P(d) EXCEPT !.escaped = TRUE]
    <3>1. Marked(b) = <<Esc>> \o <<b>> /\ <<Esc>> \in Seq(Byte) /\ <<b>> \in Seq(Byte)
      BY <2>1, <2>5, Joined DEF Marked
    <3>2. ParseOn(P(d), Marked(b)) = ParseOn(ParseOn(P(d), <<Esc>>), <<b>>)
      BY <2>2, <3>1 DEF ParsesFurther
    <3>3. ParseOn(P(d), <<Esc>>) = q
      <4>1. TakeByte(P(d), Esc) = q
        BY DEF TakeByte, Parsing
      <4> QED
        BY <2>1, <2>2, <2>4, <4>1
    <3>4. q \in Parsings
      BY <2>2 DEF Parsings
    <3>5. ParseOn(q, <<b>>) = TakeByte(q, b)
      BY <2>1, <2>4, <3>4
    <3>6. TakeByte(q, b) = P(Append(d, b))
      BY DEF TakeByte, Extend, Parsing
    <3> QED
      BY <2>1, <2>3, <3>2, <3>3, <3>5, <3>6
  <2>6. CASE ~(b <= 3 \/ b = IAC)
    <3>1. Marked(b) = <<b>> /\ b \notin {0, Value, Esc, UserVar}
      BY <2>6 DEF Marked, Value, Esc, UserVar
    <3>2. TakeByte(P(d), b) = P(Append(d, b))
      BY <3>1 DEF TakeByte, Extend, Parsing
    <3> QED
      BY <2>1, <2>2, <2>3, <2>4, <3>1, <3>2
  <2> QED
    BY <2>5, <2>6
<1>7. Seq(Plain) \subseteq T
  <2> HIDE DEF T
  <2> QED BY <1>5, <1>6, AppendInduction
<1> QED
  BY <1>7, Marks DEF E

\* One variable, as EnvironData writes it.
VariableBytes(v) ==
  <<UserVar, v[1], Value>> \o (IF v[1] \in Secret THEN EscapeNewEnviron(v[2]) ELSE v[2])

VariableTable == [v \in Variables |-> VariableBytes(v)]

LEMMA AVariable ==
  ASSUME NEW v \in Variables
  PROVE  /\ v[1] \in Text /\ v[2] \in Seq(Plain) /\ (v[1] \notin Secret => v[2] \in Seq(Text))
         /\ v = <<v[1], v[2]>> /\ v \in Variable
<1>1. CASE v \in Secret \X Seq(Plain)
  <2>1. v[1] \in Secret /\ v[2] \in Seq(Plain) /\ v = <<v[1], v[2]>>
    BY <1>1
  <2>2. v[2] \in Seq(Byte)
    BY <2>1, PlainBytes, SeqMonotonic
  <2>3. v[1] \in Text /\ v[1] \in Byte
    BY <2>1, PlainBytes
  <2> QED
    BY <2>1, <2>2, <2>3 DEF Variable
<1>2. CASE v \in Text \X Seq(Text)
  <2>1. v[1] \in Text /\ v[2] \in Seq(Text) /\ v = <<v[1], v[2]>>
    BY <1>2
  <2>2. v[2] \in Seq(Plain) /\ v[2] \in Seq(Byte)
    <3>1. Text \subseteq Byte
      BY PlainBytes
    <3> QED
      BY <2>1, <3>1, PlainBytes, SeqMonotonic
  <2>3. v[1] \in Byte
    BY <2>1, PlainBytes
  <2> QED
    BY <2>1, <2>2, <2>3 DEF Variable
<1> QED
  BY <1>1, <1>2 DEF Variables

LEMMA VariableMaps ==
  /\ MapsInto(VariableTable, Variables, Seq(Plain))
  /\ \A v \in Variables : VariableTable[v] = VariableBytes(v)
  /\ \A vs \in Seq(Variables) : EnvironData(vs) = <<IS>> \o All(VariableTable, vs)
<1>1. ASSUME NEW v \in Variables
      PROVE  VariableBytes(v) \in Seq(Plain)
  <2>1. <<UserVar, v[1], Value>> \in Seq(Plain)
    <3>1. v[1] \in Plain /\ UserVar \in Plain /\ Value \in Plain
      BY AVariable, PlainBytes
    <3> QED
      BY <3>1
  <2>2. EscapeNewEnviron(v[2]) \in Seq(Plain)
    <3>1. v[2] \in Seq(Plain) /\ EscapeNewEnviron(v[2]) = All(MarkTable, v[2])
      BY AVariable, Marks
    <3>2. All(MarkTable, v[2]) \in Seq(Plain)
      BY <3>1, Marks, AllGrows
    <3> QED
      BY <3>1, <3>2
  <2>3. (IF v[1] \in Secret THEN EscapeNewEnviron(v[2]) ELSE v[2]) \in Seq(Plain)
    BY <2>2, AVariable
  <2> QED
    BY <2>1, <2>3, ConcatProperties DEF VariableBytes
<1>2. ASSUME NEW vs \in Seq(Variables)
      PROVE  EnvironData(vs) = <<IS>> \o All(VariableTable, vs)
  <2>1. \A n \in DOMAIN vs : vs[n] \in Variables
    BY LenProperties, ElementOfSeq
  <2>2. Mapped(VariableTable, vs) = [n \in DOMAIN vs |-> VariableBytes(vs[n])]
    BY <2>1 DEF Mapped, VariableTable
  <2> QED
    BY <2>2 DEF All, EnvironData, VariableBytes, Secret
<1> QED
  BY <1>1, <1>2 DEF MapsInto, VariableTable

\* The mark, the name and the mark of the value.
LEMMA NameIsRead ==
  ASSUME NEW parsed \in Parsings, ~parsed.escaped, NEW name \in Text
  PROVE  ParseOn(parsed, <<UserVar, name, Value>>)
           = Parsing(Closed(parsed), "value", <<name>>, <<>>)
<1> DEFINE p == Parsing(Closed(parsed), "name", <<>>, <<>>)
           q == Parsing(Closed(parsed), "name", <<name>>, <<>>)
           r == Parsing(Closed(parsed), "value", <<name>>, <<>>)
<1>1. name \in Byte /\ UserVar \in Byte /\ Value \in Byte /\ name \notin {0, Value, Esc, UserVar}
  BY PlainBytes DEF Text
<1>2. UserVar # Esc /\ Value # Esc /\ Value \notin {0, UserVar}
  BY DEF UserVar, Esc, Value
<1>3. TakeByte(parsed, UserVar) = p
  BY <1>2 DEF TakeByte, NothingParsed, Parsing
<1>4. TakeByte(p, name) = q
  <2>1. Append(<<>>, name) = <<name>>
    BY <1>1, EmptySeq, AppendIsConcat, ConcatEmptySeq
  <2> QED
    BY <1>1, <2>1 DEF TakeByte, Extend, Parsing
<1>5. TakeByte(q, Value) = r
  BY <1>2 DEF TakeByte, Parsing
<1> HIDE DEF p, q, r
<1>6. /\ <<UserVar>> \in Seq(Byte) /\ <<UserVar, name>> \in Seq(Byte) /\ <<>> \in Seq(Byte)
      /\ <<UserVar>> = Append(<<>>, UserVar) /\ <<UserVar, name>> = Append(<<UserVar>>, name)
      /\ <<UserVar, name, Value>> = Append(<<UserVar, name>>, Value)
  <2>1. <<UserVar>> \in Seq(Byte) /\ <<UserVar, name>> \in Seq(Byte) /\ <<>> \in Seq(Byte)
    BY <1>1
  <2>2. <<UserVar>> = Append(<<>>, UserVar)
    BY <1>1, EmptySeq, AppendIsConcat, ConcatEmptySeq
  <2>3. <<UserVar, name>> = Append(<<UserVar>>, name)
    BY <1>1, <2>1, Joined, AppendIsConcat
  <2>4. <<UserVar, name, Value>> = Append(<<UserVar, name>>, Value)
    BY <1>1, <2>1, Joined, AppendIsConcat
  <2> QED
    BY <2>1, <2>2, <2>3, <2>4
<1>7. ParsesFurther(parsed)
  BY ParsingFurther
<1>8. ParseOn(parsed, <<UserVar>>) = p
  BY <1>1, <1>3, <1>6, <1>7 DEF ParsesFurther
<1>9. ParseOn(parsed, <<UserVar, name>>) = q
  BY <1>1, <1>4, <1>6, <1>7, <1>8 DEF ParsesFurther
<1>10. ParseOn(parsed, <<UserVar, name, Value>>) = r
  BY <1>1, <1>5, <1>6, <1>7, <1>9 DEF ParsesFurther
<1> QED
  BY <1>10 DEF r

\* A variable is read as it is.
LEMMA VariableIsRead ==
  ASSUME NEW parsed \in Parsings, ~parsed.escaped, NEW v \in Variables
  PROVE  /\ ~ParseOn(parsed, VariableBytes(v)).escaped
         /\ Closed(ParseOn(parsed, VariableBytes(v))) = Append(Closed(parsed), v)
<1> DEFINE vs == Closed(parsed)
           p == Parsing(vs, "value", <<v[1]>>, <<>>)
           q == Parsing(vs, "value", <<v[1]>>, v[2])
           mark == <<UserVar, v[1], Value>>
           text == IF v[1] \in Secret THEN EscapeNewEnviron(v[2]) ELSE v[2]
<1>1. /\ vs \in Seq(Variable) /\ v[1] \in Byte /\ <<v[1]>> \in Seq(Byte) /\ v[1] \in Text
      /\ mark \in Seq(Byte)
  <2>1. v[1] \in Text /\ v[1] \in Byte /\ UserVar \in Byte /\ Value \in Byte
    BY AVariable, PlainBytes
  <2> QED
    BY <2>1, ParsingParts
<1>2. ParseOn(parsed, mark) = p
  BY <1>1, NameIsRead
<1>3. text \in Seq(Byte)
  <2>1. v[2] \in Seq(Plain) /\ EscapeNewEnviron(v[2]) = All(MarkTable, v[2])
    BY AVariable, Marks
  <2>2. All(MarkTable, v[2]) \in Seq(Plain)
    BY <2>1, Marks, AllGrows
  <2>3. v[2] \in Seq(Byte) /\ EscapeNewEnviron(v[2]) \in Seq(Byte)
    BY <2>1, <2>2, PlainBytes, SeqMonotonic
  <2> QED
    BY <2>3
<1>4. ParseOn(p, text) = q
  <2> HIDE DEF vs
  <2>1. CASE v[1] \in Secret
    <3>1. v[2] \in Seq(Plain)
      BY AVariable
    <3>2. ParseOn(p, EscapeNewEnviron(v[2])) = q
      BY <1>1, <3>1, EscapedIsValue
    <3> QED
      BY <2>1, <3>2
  <2>2. CASE v[1] \notin Secret
    <3>1. v[2] \in Seq(Text)
      BY <2>2, AVariable
    <3>2. ParseOn(p, v[2]) = q
      BY <1>1, <3>1, TextIsValue
    <3> QED
      BY <2>2, <3>2
  <2> QED
    BY <2>1, <2>2
<1>5. Closed(q) = Append(vs, v) /\ ~q.escaped
  <2> HIDE DEF vs
  <2>1. /\ q.name = <<v[1]>> /\ q.variables = vs /\ q.value = v[2] /\ q.escaped = FALSE
    BY DEF Parsing
  <2>2. <<v[1]>> # <<>> /\ Head(<<v[1]>>) = v[1]
    BY <1>1
  <2>3. v = <<v[1], v[2]>>
    BY AVariable
  <2> QED
    BY <2>1, <2>2, <2>3 DEF Closed
<1> HIDE DEF p, q, mark, text, vs
<1>6. ParseOn(parsed, mark \o text) = q
  <2>1. ParsesFurther(parsed)
    BY ParsingFurther
  <2> QED
    BY <1>1, <1>2, <1>3, <1>4, <2>1 DEF ParsesFurther
<1> QED
  BY <1>5, <1>6 DEF VariableBytes, mark, text, vs

LEMMA VariablesAreRead ==
  ASSUME NEW vs \in Seq(Variables)
  PROVE  ReadVariables(EnvironData(vs)) = vs /\ EnvironData(vs) \in Seq(Plain)
<1> DEFINE B(s) == All(VariableTable, s)
           P(s) == ParseOn(NothingParsed, B(s))
           T == {s \in Seq(Variables) : Closed(P(s)) = s /\ ~P(s).escaped}
<1>1. ASSUME NEW s \in Seq(Variables)
      PROVE  /\ B(s) \in Seq(Plain) /\ B(s) \in Seq(Byte) /\ B(<<>>) = <<>>
             /\ \A v \in Variables : B(Append(s, v)) = B(s) \o VariableBytes(v)
  <2>1. /\ B(s) \in Seq(Plain) /\ B(<<>>) = <<>>
        /\ \A v \in Variables : B(Append(s, v)) = B(s) \o VariableTable[v]
    BY VariableMaps, AllGrows
  <2>2. B(s) \in Seq(Byte)
    BY <2>1, PlainBytes, SeqMonotonic
  <2> QED
    BY <2>1, <2>2, VariableMaps
<1>2. ParsesFurther(NothingParsed) /\ <<>> \in Seq(Variables)
  BY ByteTableIsOne, ParsingFurther, EmptySeq
<1> HIDE DEF B
<1>3. <<>> \in T
  <2>1. P(<<>>) = NothingParsed
    BY <1>1, <1>2 DEF ParsesFurther
  <2>2. Closed(NothingParsed) = <<>> /\ ~NothingParsed.escaped
    BY DEF Closed, NothingParsed
  <2> QED
    BY <1>2, <2>1, <2>2
<1>4. ASSUME NEW s \in Seq(Variables), NEW v \in Variables, s \in T
      PROVE  Append(s, v) \in T
  <2>1. P(s) \in Parsings /\ ~P(s).escaped /\ Closed(P(s)) = s
    BY <1>1, <1>2, <1>4 DEF ParsesFurther
  <2>2. VariableBytes(v) \in Seq(Byte)
    <3>1. VariableBytes(v) \in Seq(Plain)
      BY VariableMaps DEF MapsInto
    <3> QED
      BY <3>1, PlainBytes, SeqMonotonic
  <2>3. P(Append(s, v)) = ParseOn(P(s), VariableBytes(v))
    BY <1>1, <1>2, <2>2 DEF ParsesFurther
  <2> HIDE DEF P
  <2>4. Closed(P(Append(s, v))) = Append(s, v) /\ ~P(Append(s, v)).escaped
    BY <2>1, <2>3, VariableIsRead
  <2> QED
    BY <2>4, AppendProperties
<1>5. Seq(Variables) \subseteq T
  <2> HIDE DEF T
  <2> QED BY <1>3, <1>4, AppendInduction
<1>6. EnvironData(vs) = <<IS>> \o B(vs) /\ IS \in Plain /\ <<IS>> \in Seq(Plain)
  BY VariableMaps, PlainBytes DEF B
<1>7. Tail(<<IS>> \o B(vs)) = B(vs) /\ <<IS>> \o B(vs) \in Seq(Plain)
  BY <1>1, <1>6, Prefixed DEF IsHeadAndTail
<1>8. ReadVariables(EnvironData(vs)) = Closed(P(vs))
  <2>1. ParseOf(B(vs))[Len(B(vs))] = P(vs)
    BY <1>1, VariablesAreFolded
  <2> HIDE DEF P
  <2> QED
    BY <1>6, <1>7, <2>1, VariablesAreThese
<1>9. Closed(P(vs)) = vs
  BY <1>5
<1> QED
  BY <1>6, <1>7, <1>8, <1>9

-----------------------------------------------------------------------------
(* The client's answers. *)

\* Data without a byte 255 is its own encoding.
LEMMA PlainIsItsEncoding == \A d \in Seq(Plain) : EncodeData(d) = d /\ d \in Seq(Byte)
<1> DEFINE T == {d \in Seq(Plain) : EncodeData(d) = d /\ d \in Seq(Byte)}
<1>1. <<>> \in T
  <2>1. <<>> \in Seq(Byte) /\ <<>> \in Seq(Plain)
    BY EmptySeq
  <2> QED
    BY <2>1, EncodedGrows
<1>2. ASSUME NEW d \in Seq(Plain), NEW b \in Plain, d \in T
      PROVE  Append(d, b) \in T
  <2>1. b \in Byte /\ b # IAC /\ d \in Seq(Byte)
    BY <1>2, PlainBytes DEF Plain
  <2>2. EncodeData(Append(d, b)) = d \o <<b>>
    BY <1>2, <2>1, EncodedGrows DEF Escaped
  <2>3. Append(d, b) = d \o <<b>> /\ Append(d, b) \in Seq(Byte) /\ Append(d, b) \in Seq(Plain)
    BY <2>1, AppendIsConcat, AppendProperties
  <2> QED
    BY <2>2, <2>3
<1>3. Seq(Plain) \subseteq T
  <2> HIDE DEF T
  <2> QED BY <1>1, <1>2, AppendInduction
<1> QED
  BY <1>3

LEMMA AnswerIsWritten ==
  ASSUME NEW opt \in Byte, NEW d \in Seq(Plain)
  PROVE  IsWritten(Answer(opt, d), MeansSubnegotiation(opt, d))
<1>1. EncodeData(d) = d /\ d \in Seq(Byte)
  BY PlainIsItsEncoding
<1>2. Answer(opt, d) = EncodeSubnegotiation(opt, d)
  BY <1>1 DEF Answer, EncodeSubnegotiation
<1> QED
  BY <1>1, <1>2, SubnegotiationIsWritten

\* An item that carries these variables, as sendNewEnviron writes them.
CarriesVariables(item) ==
  /\ item.variables \in Seq(Variables)
  /\ item.bytes = SendNewEnviron(item.variables)
  /\ item.means = MeansSubnegotiation(NewEnviron, EnvironData(item.variables))

IsEnviron(event) == event[1] = "Subnegotiation" /\ event[2] = NewEnviron

\* Every item carries variables, or no NEW-ENVIRON answer, and is what telnet
\* has.
CarriesOnlyVariables(item) ==
  IF item.variables # <<>> THEN CarriesVariables(item)
  ELSE IsWritten(item.bytes, item.means) /\ \A n \in DOMAIN item.means : ~IsEnviron(item.means[n])

\* What sendNewEnviron writes are such variables, if the texts of the
\* configuration hold no mark, and the seed and the password no byte 255.
LEMMA HandlersVariables ==
  ASSUME NEW config, NEW serverSeed, NEW clientSeed \in Seq(Plain), NEW substitute \in Seq(Plain),
         config.deviceName \in Seq(Text), config.keyboard \in Seq(Text),
         config.codePage \in Seq(Text), config.charset \in Seq(Text)
  PROVE  EnvironVariables(config, serverSeed, clientSeed, substitute) \in Seq(Variables)
<1>1. /\ {DEVNAME, IBMSUBSVAR, KBDTYPE, CODEPAGE, CHARSET} \subseteq Text
      /\ <<>> \in Seq(Text) /\ <<>> \in Seq(Plain)
  BY EmptySeq
     DEF DEVNAME, IBMSUBSVAR, KBDTYPE, CODEPAGE, CHARSET, Text, Plain, Byte, IAC, Value, Esc, UserVar
<1>2. /\ <<DEVNAME, config.deviceName>> \in Variables /\ <<IBMRSEED, clientSeed>> \in Variables
      /\ <<IBMSUBSPW, substitute>> \in Variables /\ <<IBMRSEED, <<>>>> \in Variables
      /\ <<IBMSUBSVAR, <<>>>> \in Variables /\ <<KBDTYPE, config.keyboard>> \in Variables
      /\ <<CODEPAGE, config.codePage>> \in Variables /\ <<CHARSET, config.charset>> \in Variables
  BY <1>1 DEF Variables, Secret
<1> DEFINE first == << <<DEVNAME, config.deviceName>> >>
           secret == << <<IBMRSEED, clientSeed>>, <<IBMSUBSPW, substitute>> >>
           none == << <<IBMRSEED, <<>>>> >>
           rest == << <<IBMSUBSVAR, <<>>>>, <<KBDTYPE, config.keyboard>>,
                      <<CODEPAGE, config.codePage>>, <<CHARSET, config.charset>> >>
           sent == IF Len(serverSeed) = 8 /\ config.credentials /\ substitute # <<>>
                   THEN secret ELSE none
<1>3. first \in Seq(Variables) /\ secret \in Seq(Variables) /\ none \in Seq(Variables)
      /\ rest \in Seq(Variables)
  <2> HIDE DEF Variables
  <2> QED BY <1>2
<1>4. EnvironVariables(config, serverSeed, clientSeed, substitute) = (first \o sent) \o rest
  BY DEF EnvironVariables
<1> HIDE DEF first, secret, none, rest
<1>5. sent \in Seq(Variables)
  BY <1>3
<1> HIDE DEF sent
<1>6. first \o sent \in Seq(Variables)
  BY <1>3, <1>5, ConcatProperties
<1>7. (first \o sent) \o rest \in Seq(Variables)
  BY <1>3, <1>6, ConcatProperties
<1> QED
  BY <1>4, <1>7

\* What the items mean, event by event.
PartOf(w, event) == \E m \in DOMAIN w : \E n \in DOMAIN w[m].means : event = w[m].means[n]

LEMMA EventsOfItems ==
  ASSUME \A item \in Items : item.means \in Seq(Event)
  PROVE  \A w \in Seq(Items) : \A k \in DOMAIN MeansOf(w) : PartOf(w, MeansOf(w)[k])
<1> DEFINE T == {w \in Seq(Items) : \A k \in DOMAIN MeansOf(w) : PartOf(w, MeansOf(w)[k])}
<1>1. <<>> \in T
  <2>1. <<>> \in Seq(Items) /\ MeansOf(<<>>) = <<>> /\ DOMAIN <<>> = {}
    BY EmptySeq, NothingOwed DEF MeansOf
  <2> QED
    BY <2>1
<1>2. ASSUME NEW w \in Seq(Items), NEW item \in Items, w \in T
      PROVE  Append(w, item) \in T
  <2> DEFINE s == MeansOf(w)
             t == item.means
             v == Append(w, item)
  <2>1. s \in Seq(Event) /\ t \in Seq(Event) /\ MeansOf(v) = s \o t
    BY OwedGrows DEF MeansOf
  <2>2. /\ v \in Seq(Items) /\ DOMAIN w = 1..Len(w) /\ DOMAIN v = 1..(Len(w) + 1) /\ Len(w) \in Nat
        /\ \A m \in 1..Len(w) : v[m] = w[m]
        /\ v[Len(w) + 1] = item
    <3>1. v \in Seq(Items) /\ Len(v) = Len(w) + 1 /\ DOMAIN v = 1..Len(v)
      BY AppendProperties, LenProperties
    <3> QED
      BY <3>1, AppendProperties, LenProperties
  <2> HIDE DEF s, t, v
  <2>3. /\ DOMAIN (s \o t) = 1..(Len(s) + Len(t)) /\ Len(s) \in Nat /\ Len(t) \in Nat
        /\ DOMAIN s = 1..Len(s) /\ DOMAIN t = 1..Len(t)
        /\ \A k \in 1..(Len(s) + Len(t)) : (s \o t)[k] = IF k <= Len(s) THEN s[k] ELSE t[k - Len(s)]
    <3>1. s \o t \in Seq(Event) /\ Len(s \o t) = Len(s) + Len(t)
      BY <2>1, ConcatProperties
    <3>2. DOMAIN (s \o t) = 1..Len(s \o t)
      BY <3>1, LenProperties
    <3> QED
      BY <2>1, <3>1, <3>2, ConcatProperties, LenProperties
  <2>4. ASSUME NEW k \in DOMAIN (s \o t)
        PROVE  PartOf(v, (s \o t)[k])
    <3>1. CASE k <= Len(s)
      <4>1. k \in DOMAIN s /\ (s \o t)[k] = s[k]
        BY <2>3, <3>1
      <4>2. PartOf(w, s[k])
        BY <1>2, <4>1 DEF s
      <4>3. PICK m \in DOMAIN w : \E n \in DOMAIN w[m].means : s[k] = w[m].means[n]
        BY <4>2 DEF PartOf
      <4>4. m \in DOMAIN v /\ v[m] = w[m]
        BY <2>2, <4>3
      <4> QED
        BY <4>1, <4>3, <4>4 DEF PartOf
    <3>2. CASE ~(k <= Len(s))
      <4>1. k - Len(s) \in DOMAIN t /\ (s \o t)[k] = t[k - Len(s)]
        BY <2>3, <3>2
      <4>2. Len(w) + 1 \in DOMAIN v /\ v[Len(w) + 1].means = t
        BY <2>2 DEF t
      <4> QED
        BY <4>1, <4>2 DEF PartOf
    <3> QED
      BY <3>1, <3>2
  <2>5. \A k \in DOMAIN MeansOf(v) : PartOf(v, MeansOf(v)[k])
    BY <2>1, <2>4
  <2> QED
    BY <2>2, <2>5 DEF v
<1>3. Seq(Items) \subseteq T
  <2> HIDE DEF T
  <2> QED BY <1>1, <1>2, AppendInduction
<1> QED
  BY <1>3

LEMMA VariablesWritten ==
  ASSUME NEW item, CarriesOnlyVariables(item)
  PROVE  IsWritten(item.bytes, item.means)
<1>1. CASE CarriesVariables(item)
  <2>1. EnvironData(item.variables) \in Seq(Plain)
    BY <1>1, VariablesAreRead DEF CarriesVariables
  <2>2. NewEnviron \in Byte
    BY DEF NewEnviron, Byte
  <2>3. IsWritten(Answer(NewEnviron, EnvironData(item.variables)),
                  MeansSubnegotiation(NewEnviron, EnvironData(item.variables)))
    BY <2>1, <2>2, AnswerIsWritten
  <2> QED
    BY <1>1, <2>3 DEF CarriesVariables, SendNewEnviron
<1> QED
  BY <1>1 DEF CarriesOnlyVariables

\* In a state.
LEMMA AnswersArrive ==
  ASSUME \A item \in Items : CarriesOnlyVariables(item), TypeOK, StillOwed
  PROVE  AnswersAreRead
<1> SUFFICES ASSUME NEW n \in DOMAIN outputs, IsEnviron(outputs[n])
             PROVE  \E m \in DOMAIN written : written[m].variables = ReadVariables(outputs[n][3])
  BY DEF AnswersAreRead, IsEnviron
<1>1. \A item \in Items : item.means \in Seq(Event)
  BY VariablesWritten, WrittenRead DEF IsRead, ReadsTo
<1>2. PICK unsaid \in Seq(Event) : MeansOf(written) = outputs \o unsaid /\ outputs \in Seq(Event)
  BY DEF StillOwed, Owed, MeansOf
<1>3. n \in DOMAIN MeansOf(written) /\ outputs[n] = MeansOf(written)[n]
  BY <1>2, PrefixOf
<1>4. written \in Seq(Items)
  BY DEF TypeOK
<1>5. PartOf(written, outputs[n])
  BY <1>1, <1>3, <1>4, EventsOfItems
<1>6. PICK m \in DOMAIN written : \E k \in DOMAIN written[m].means : outputs[n] = written[m].means[k]
  BY <1>5 DEF PartOf
<1>7. written[m] \in Items
  BY <1>4, <1>6, LenProperties, ElementOfSeq
<1> DEFINE item == written[m]
<1>8. CarriesVariables(item)
  BY <1>6, <1>7 DEF CarriesOnlyVariables
<1>9. outputs[n] = <<"Subnegotiation", NewEnviron, EnvironData(item.variables)>>
  <2>1. item.means = <<<<"Subnegotiation", NewEnviron, EnvironData(item.variables)>>>>
    BY <1>8 DEF CarriesVariables, MeansSubnegotiation
  <2> QED
    BY <1>6, <2>1
<1>10. outputs[n][3] = EnvironData(item.variables)
  BY <1>9
<1>11. ReadVariables(EnvironData(item.variables)) = item.variables
  BY <1>8, VariablesAreRead DEF CarriesVariables
<1> QED
  BY <1>6, <1>10, <1>11

\* For every menu of answers and other items, wherever the stream is cut: each
\* NEW-ENVIRON answer the host reads is read as the variables it was made
\* from, whatever marks the seed and the password hold, as long as neither
\* holds a byte 255 (protocol_handler.cpp:404-471, ibmrseed.cpp:100-110).
THEOREM AnswersComeBack ==
  ASSUME \A item \in Items : CarriesOnlyVariables(item)
  PROVE  Spec => []AnswersAreRead
<1>1. \A item \in Items : IsRead(item.bytes, item.means)
  BY VariablesWritten, WrittenRead
<1>2. Spec => [](CallbacksAreTheItems /\ NothingIsHeldBack /\ StillOwed)
  BY <1>1, StreamHolds
<1>3. TypeOK /\ StillOwed => AnswersAreRead
  BY AnswersArrive
<1> QED
  BY <1>2, <1>3, TypeCorrect, PTL
=============================================================================
