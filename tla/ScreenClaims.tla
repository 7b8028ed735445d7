---------------------------- MODULE ScreenClaims ----------------------------
(***************************************************************************)
(* What a comment says of the repair of a record length and what it does   *)
(* not do.                                                                 *)
(***************************************************************************)
EXTENDS MCScreen

\* The end of record is trusted, so that the decoder neither waits for bytes
\* that will never come nor reads into the next record
\* (protocol_handler.cpp:193-195): whatever the length field says, the
\* decoder keeps no byte of a record that it was given.
RecordsStayApart == (mode = "idle" /\ calls = <<>>) => buffer = <<>>

TooShort == {16}
=============================================================================
