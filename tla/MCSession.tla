---------------------------- MODULE MCSession ----------------------------
(***************************************************************************)
(* A session with records that exercise the repair of the GDS length and   *)
(* both ways to write 0xFF.                                                *)
(***************************************************************************)
EXTENDS Session

Tag == <<201>>

NoSegments == {}

HostHandshake == {
  <<IAC, DO, TransmitBinary>>,
  <<IAC, WILL, EndOfRecord>>,
  <<IAC, SB, TerminalType, 1, IAC, SE>> }

Header(len) == <<0, len, GdsTypeHi, GdsTypeLo, 0, 0, 4, 0, 0, 3>>

\* A record that claims three bytes too many, a good one whose payload ends
\* with 0xFF, one without a header that begins with 0xFF, and one in which an
\* unescaped 0xFF reads like IAC NOP.
HostRecords == {
  Header(14) \o <<64>>,
  Header(11) \o <<IAC>>,
  <<IAC, 64>>,
  <<64, IAC, NOP>> }
==========================================================================
