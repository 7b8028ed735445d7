-------------------------- MODULE HandlerClaims --------------------------
(***************************************************************************)
(* What comments and tests of the repository say of the handler and the    *)
(* handler does not do: each is refuted by a run of its own.               *)
(***************************************************************************)
EXTENDS ProtocolHandler

Tag  == <<201>>

TerminalTypeRequest == <<IAC, SB, TerminalType, 1, IAC, SE>>

ReconnectSegments == {TerminalTypeRequest}
SeedSegments      == {<<IAC, SB, NewEnviron, 1, 3>> \o Tag \o <<IAC, IAC, 7, IAC, SE>>}

\* "then SB TERMINAL-TYPE SEND, which completes the handshake"
\* (src/tests/test_protocol_handler.cpp:25-26): after the request was read the
\* connection is reported.  It is not on a second connection, because
\* onSocketDisconnected leaves the handshake marked complete.
TerminalTypeCompletesHandshake ==
  [][ EndTerminalType => state' = "Connected" ]_vars

\* The record and the data buffers hold "Application bytes"
\* (protocol_handler.h:98-99): no byte between SB and SE becomes one.  A
\* doubled 0xFF of a subnegotiation does, and the subnegotiation loses it.
SubnegotiationStaysInside ==
  [][ inSubnegotiation => extracted' = extracted ]_vars
==========================================================================
