---------------------------- MODULE ReaderClaims ----------------------------
(***************************************************************************)
(* What tests and comments say of the decoder and what it does not do; one *)
(* configuration per claim.                                                *)
(***************************************************************************)
EXTENDS MCDecoder

\* A record that is its header alone is well-formed: the handler's tests call
\* it so (test_protocol_handler.cpp:87-88) and the message object reads it
\* (test_message.cpp:38-47).  What the message object reads whole is no parse
\* error of its header for the decoder (decoder.cpp:60-69).
WellFormedHeadersAreRead ==
  \A k \in DOMAIN reported :
    Unmarshal(NewMessage, reported[k].record).read # 0 => reported[k].events # <<ParseError>>

HeaderOnly == {<<Header(op, payload)>> : op \in 1..12, payload \in {<<>>, <<ESC, CcClearUnit>>}}

\* Where the chain of structured field lengths from k on ends.
ChainEnd(s, k) ==
  LET end[j \in k..EndOf(s)] ==
        IF Left(s, j) < 2 \/ Length16(s, j - 1) < 2 \/ Length16(s, j - 1) > Left(s, j)
        THEN j ELSE end[j + Length16(s, j - 1)]
  IN  end[k]

\* Structured fields are taken by their lengths, and a byte 4 in them is no
\* ESC (decoder.cpp:185-192, test_decoder.cpp:137-140): when the fields after
\* the command fill the record, all of them are reported.
StructuredFieldsAreWhole ==
  \A k \in DOMAIN reported :
    LET rec   == reported[k].record
        begin == GdsHeaderSize + 3
    IN  (Len(rec) >= begin /\ rec[begin - 1] = CcWriteStructuredField
           /\ ChainEnd(rec, begin) = EndOf(rec)) =>
          <<"WriteStructuredField", SubSeq(rec, begin, Len(rec))>> \in
             {reported[k].events[n] : n \in DOMAIN reported[k].events}

Field(len) == BigEndian16(len) \o [n \in 1..(len - 2) |-> IF n % 2 = 0 THEN ESC ELSE 217]

Fields == {<<Header(OpPutGet, <<ESC, CcWriteStructuredField>> \o Field(first) \o Field(last))>> :
             first \in {5, 9, 300}, last \in {4, 8, 600, 1030}}
=============================================================================
