---------------------------- MODULE SignonClaims ----------------------------
(***************************************************************************)
(* What a comment says of the code pages and what they do not do.          *)
(***************************************************************************)
EXTENDS MCSignon

\* "Each code page defines a bidirectional mapping between EBCDIC bytes and
\* Unicode" (codepage.h:27): a field whose byte is a character of the page
\* and no control byte has that byte still after it was shown and sent.
SentBackUnchanged ==
  phase = "shown" /\ phase' = "sent" /\ field[1] > Space /\ HasCharacter(shown[1]) =>
    field' = field

FieldsKeepTheirBytes == [][SentBackUnchanged]_vars
=============================================================================
