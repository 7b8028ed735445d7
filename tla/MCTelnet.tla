------------------------------ MODULE MCTelnet ------------------------------
(***************************************************************************)
(* Items of every kind in every order, cut anywhere: data with and without *)
(* 255, commands, subnegotiations with an escape in them, what no sender   *)
(* should write, and the client's own records and answers.                 *)
(***************************************************************************)
EXTENDS Outbound

Item(bytes, means) == 
  [bytes |-> bytes, means |-> means, variables |-> <<>>, record |-> <<>>]

EnvironItem(variables) ==
  [bytes |-> SendNewEnviron(variables),
   means |-> MeansSubnegotiation(NewEnviron, EnvironData(variables)),
   variables |-> variables, record |-> <<>>]

RecordItem(record) ==
  [bytes |-> SendRawData(record),
   means |-> MeansData(record) \o MeansCommand(EOR),
   variables |-> <<>>, record |-> record]

Config == [deviceName |-> <<72>>, credentials |-> TRUE, keyboard |-> <<85>>,
           codePage |-> <<51, 55>>, charset |-> <<54>>]
Seed8  == <<3, 1, 2, 0, 9, 9, 9, 9>>

AllItems == {
  Item(EncodeData(<<5, IAC>>), MeansData(<<5, IAC>>)),
  Item(EncodeData(<<6, SE>>), MeansData(<<6, SE>>)),
  Item(EncodeSubnegotiation(EndOfRecord, <<7, IAC, SB>>),
       MeansSubnegotiation(EndOfRecord, <<7, IAC, SB>>)),
  Item(EncodeSubnegotiation(IAC, <<>>), MeansSubnegotiation(IAC, <<>>)),
  Item(<<IAC, DO, SE>>, MeansNegotiation(DO, SE)),
  Item(<<IAC, WILL, IAC>>, MeansNegotiation(WILL, IAC)),
  Item(<<IAC, EOR>>, MeansCommand(EOR)),
  Item(<<IAC, SE>>, <<>>),
  Item(<<IAC, 64, 65>>, MeansNegotiation(64, 65)),
  Item(<<IAC, SB, Echo, 1, IAC, GA, 2, IAC, SE>>, MeansSubnegotiation(Echo, <<1, 2>>)),
  RecordItem(Record(IAC, 4, <<IAC>>)), RecordItem(DataRecord(<<IAC, EOR>>)),
  Item(SendDeviceName(<<73>>), MeansSubnegotiation(TerminalType, <<IS, 73>>)),
  EnvironItem(EnvironVariables(Config, Seed8, <<0, 3, 2>>, <<1, 2, 64>>)),
  EnvironItem(EnvironVariables(Config, <<9>>, <<0, 3, 2>>, <<1, 2, 64>>)) }
=============================================================================
