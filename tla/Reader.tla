------------------------------- MODULE Reader -------------------------------
(***************************************************************************)
(* The two readers of a record in this repository side by side: the        *)
(* decoder, which walks it, and the message object, which parses it.  This *)
(* module has no state of its own: it says what must hold of every record  *)
(* the decoder dispatched when it is read into a message as well.          *)
(***************************************************************************)
EXTENDS Decoder, Codec

Dispatched == {reported[k].record : k \in DOMAIN reported}

\* What is read is a normal form: writing it and reading that again gives the
\* same commands, so that a record can be read, kept and written without a
\* change after the first time.  Text outside of orders, commands without a
\* parser and a length beyond the data are normalised by the first reading
\* (message.cpp:71-90, order.cpp:144-162, order_sf_start_field.cpp:86-94).
RereadIsStable ==
  \A rec \in Dispatched :
    LET first  == Unmarshal(NewMessage, rec)
        second == Unmarshal(NewMessage, Marshal(first.message))
    IN  first.read # 0 =>
          /\ second.read = Len(Marshal(first.message))
          /\ Marshal(second.message) = Marshal(first.message)

CommandEvent(command) ==
  CASE command.code = CcClearUnit      -> <<"ClearScreen">>
    [] command.code = CcReadMdtFields  -> <<"Read", CcReadMdtFields>>
    [] command.code = CcWriteToDisplay ->
         <<"ControlCharacters", command.control[1], command.control[2]>>

CommandEventsOf(callbacks) ==
  FlattenSeq([n \in DOMAIN callbacks |->
    IF callbacks[n][1] \in {"ClearScreen", "Read", "ControlCharacters"}
    THEN <<callbacks[n]>> ELSE <<>>])

\* Of a record that the message object writes as it read it, the decoder
\* reports the same commands in the same order, as far as the message lists
\* them: a Write To Display hides those that follow it
\* (command_wtd_write_to_display.cpp:65-84, decoder.cpp:104-217).
SameCommandsForBoth ==
  \A k \in DOMAIN reported :
    LET rec  == reported[k].record
        read == Unmarshal(NewMessage, rec)
        commands == read.message.commands
    IN  (read.read # 0 /\ Marshal(read.message) = rec /\ IsDisplayRecord(rec)) =>
          IsPrefix([n \in DOMAIN commands |-> CommandEvent(commands[n])],
                   CommandEventsOf(reported[k].events))
=============================================================================
