------------------------------ MODULE Telnet ------------------------------
(***************************************************************************)
(* The telnet commands and options of src/tn5250/telnet/commands.h and     *)
(* options.h that this library acts on.                                    *)
(***************************************************************************)
EXTENDS Integers

EOR  == 239
SE   == 240
GA   == 249
SB   == 250
WILL == 251
WONT == 252
DO   == 253
DONT == 254
IAC  == 255

Standalone == EOR..GA        \* isStandaloneTelnetCommand

TransmitBinary   == 0
Echo             == 1
SuppressGoAhead  == 3
TerminalType     == 24
EndOfRecord      == 25
NewEnviron       == 39
===========================================================================
