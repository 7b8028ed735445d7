---------------------------- MODULE MCHandler ----------------------------
(***************************************************************************)
(* The handler fed with a byte stream that respects no protocol: segments  *)
(* in any order, commands before, during and after the handshake, records  *)
(* with escaped and unescaped 0xFF, keep-alives, an unfinished and a       *)
(* nested subnegotiation.                                                  *)
(***************************************************************************)
EXTENDS ProtocolHandler

Data == 64
Tag == <<201>>

\* The two subnegotiations come whole, cut short and with what follows them.
StreamSegments == {
  <<IAC, SB, TerminalType, 1, IAC, SE, IAC, WILL, EndOfRecord>>,
  <<IAC, SB, TerminalType, 1, IAC, SE>>,
  <<IAC, SB, NewEnviron, 1, 3>> \o Tag \o <<7, 8, IAC, SE>>,
  <<IAC, SB, Echo>>,
  <<IAC, DO, EndOfRecord>>,
  <<IAC, WONT, Echo, IAC, DO, Echo>>,
  <<IAC, SE>>,
  <<IAC, EOR>>,
  <<Data>>,
  <<Data, IAC, EOR>>,
  <<Data, IAC, 241, Data>>,
  <<IAC, IAC, IAC, EOR>>,
  <<IAC, Data>> }

==========================================================================
