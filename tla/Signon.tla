------------------------------- MODULE Signon -------------------------------
(***************************************************************************)
(* Where the library converts text: the automatic sign-on, for which the   *)
(* user name and the password go through IBMRSeed::encryptPassword         *)
(* (src/tn5250/client/ibmrseed.cpp), and then the fields of the screen,    *)
(* which the application shows and sends back through CodePage.            *)
(*                                                                         *)
(* DES is external: its result is the term of what it was given, so that   *)
(* two results are equal only when their inputs are, up to the bit of each *)
(* key byte that the cipher does not use.                                  *)
(***************************************************************************)
EXTENDS CodePage

CONSTANTS
  Accounts,     \* [user, password], both UTF-8
  Seeds,        \* seeds of the server and of the client, mostly of eight bytes
  Texts,        \* what a user may type, as code points
  MaxLogons     \* bound: requests for the password

ASSUME AccountsAssumption ==
  \A account \in Accounts : account.user \in Seq(Byte) /\ account.password \in Seq(Byte)

ASSUME SeedsAssumption == Seeds \subseteq Seq(Byte)

ASSUME TextsAssumption == Texts \subseteq Seq(CodePoint)

VARIABLES
  page,      \* Config::codePage
  logons,    \* history: the substitutes sent, with what they were made from
  phase,     \* "signon", and what was done last with the field after it
  field,     \* the bytes of the field on the screen
  shown      \* what the user sees in it, as code points

vars == <<page, logons, phase, field, shown>>

Init ==
  /\ page \in Pages /\ logons = {} /\ phase = "signon" /\ field = <<>> /\ shown = <<>>

-----------------------------------------------------------------------------
(* IBMRSeed. *)

\* std::toupper on each byte: in the C locale nothing but a..z changes.
Upper(utf8) == [n \in DOMAIN utf8 |-> IF utf8[n] \in 97..122 THEN utf8[n] - 32 ELSE utf8[n]]

\* Mutant: the UTF-8 bytes are cut to the length, and not the characters.
PadCutFirst(text, len, cp) ==
  LET ebcdic == FromUnicodeString(cp, SubSeq(Upper(text), 1, Min({len, Len(text)})))
  IN  [n \in 1..len |-> IF n <= Len(ebcdic) THEN ebcdic[n] ELSE Space]

\* padUserIdEBCDIC
PadEbcdic(text, len, cp) ==
  LET ebcdic == FromUnicodeString(cp, Upper(text))
  IN  [n \in 1..len |-> IF n <= Len(ebcdic) THEN ebcdic[n] ELSE Space]

PadPasswordEbcdic(text, cp) == PadEbcdic(text, 8, cp)

\* Bytes have eight bits, of these powers of two.
Bit(b, power) == (b \div power) % 2

Xor(a, b) ==
  LET bit(power) == power * ((Bit(a, power) + Bit(b, power)) % 2)
  IN  bit(1) + bit(2) + bit(4) + bit(8) + bit(16) + bit(32) + bit(64) + bit(128)

XorBlock(a, b) == [n \in 1..8 |-> Xor(a[n], b[n])]

XorWith55(data) == XorBlock(data, [n \in 1..8 |-> 85])

LeftShift1(data) ==
  [n \in 1..8 |-> ((2 * data[n]) % 256) + (IF n < 8 THEN data[n + 1] \div 128 ELSE 0)]

One == [n \in 1..8 |-> IF n = 8 THEN 1 ELSE 0]

\* Mutant: the carry is lost.
AddWithoutCarry(a, b) == [n \in 1..8 |-> (a[n] + b[n]) % 256]

\* addBigEndian8
AddBigEndian8(a, b) ==
  LET carry[n \in 1..8] == IF n = 8 THEN 0 ELSE (a[n + 1] + b[n + 1] + carry[n + 1]) \div 256
  IN  [n \in 1..8 |-> (a[n] + b[n] + carry[n]) % 256]

\* The cipher, external: the lowest bit of a key byte has no effect.
Des(key, text) == <<[n \in 1..8 |-> key[n] \div 2], text>>

\* encryptPassword: the last block of the chain depends on all of them.
EncryptPassword(account, serverSeed, clientSeed, cp) ==
  IF Len(serverSeed) # 8 \/ Len(clientSeed) # 8 THEN <<>>
  ELSE LET pwToken == Des(LeftShift1(XorWith55(PadPasswordEbcdic(account.password, cp))),
                          PadEbcdic(account.user, 8, cp))
           rdrseq  == AddBigEndian8(serverSeed, One)
           name    == PadEbcdic(account.user, 16, cp)
       IN  <<pwToken, rdrseq, clientSeed, XorBlock(SubSeq(name, 1, 8), rdrseq),
             XorBlock(SubSeq(name, 9, 16), rdrseq), One>>

-----------------------------------------------------------------------------
(* The sign-on, and then the screen. *)

\* Mutant: a substitute is remembered although there is none.
LogonAnyway ==
  /\ phase = "signon" /\ Cardinality(logons) < MaxLogons
  /\ \E account \in Accounts, serverSeed, clientSeed \in Seeds :
       logons' = logons \cup {[account |-> account, serverSeed |-> serverSeed,
                                clientSeed |-> clientSeed,
                                substitute |-> EncryptPassword(account, serverSeed, clientSeed, page)]}
  /\ UNCHANGED <<page, phase, field, shown>>

Logon ==
  /\ phase = "signon" /\ Cardinality(logons) < MaxLogons
  /\ \E account \in Accounts, serverSeed, clientSeed \in Seeds :
       LET substitute == EncryptPassword(account, serverSeed, clientSeed, page)
       IN  /\ substitute # <<>>
           /\ logons' = logons \cup {[account |-> account, serverSeed |-> serverSeed,
                                      clientSeed |-> clientSeed, substitute |-> substitute]}
  /\ UNCHANGED <<page, phase, field, shown>>

\* The host has put a byte into the field, which was not shown yet.  Bound:
\* the screen is looked at where no logon was.
HostWrites ==
  \E b \in Byte :
    /\ phase \in {"signon", "sent"} /\ logons = {}
    /\ phase' = "written" /\ field' = <<b>> /\ shown' = <<>>
    /\ UNCHANGED <<page, logons>>

Show ==
  /\ phase = "written" /\ phase' = "shown"
  /\ shown' = [n \in DOMAIN field |-> ToUnicode(page, field[n])]
  /\ UNCHANGED <<page, logons, field>>

\* Bound: only a blank field is typed over.
Type ==
  \E text \in Texts :
    /\ phase = "shown" /\ field = <<Space>>
    /\ phase' = "typed" /\ shown' = text
    /\ UNCHANGED <<page, logons, field>>

\* UTF-8, as the application has its text.
Utf8(code) ==
  IF code < 128 THEN <<code>>
  ELSE IF code < 2048 THEN <<192 + code \div 64, 128 + (code % 64)>>
  ELSE IF code < 65536 THEN <<224 + code \div 4096, 128 + ((code \div 64) % 64), 128 + (code % 64)>>
  ELSE <<240 + code \div 262144, 128 + ((code \div 4096) % 64),
         128 + ((code \div 64) % 64), 128 + (code % 64)>>

Send ==
  /\ phase \in {"shown", "typed"} /\ phase' = "sent"
  /\ field' = FromUnicodeString(page, FlattenSeq([n \in DOMAIN shown |-> Utf8(shown[n])]))
  /\ UNCHANGED <<page, logons, shown>>

Next == Logon \/ HostWrites \/ Show \/ Type \/ Send

Spec == Init /\ [][Next]_vars

-----------------------------------------------------------------------------
(* Properties. *)

\* The types of the variables.
TypeOK ==
  /\ page \in Pages /\ phase \in {"signon", "written", "shown", "typed", "sent"}
  /\ field \in Seq(Byte) /\ shown \in Seq(CodePoint)
  /\ \A logon \in logons : logon.account \in Accounts /\ logon.substitute # <<>>

\* What counts of a name: its first characters, whatever their case, without
\* the blanks at its end.
Counts(text, len) ==
  LET codes == CodePoints(Upper(text))
      used(n) == n <= Len(codes) /\ n <= len
      last == Max({0} \cup {n \in 1..len : used(n) /\ codes[n] # 32})
  IN  SubSeq(codes, 1, last)

\* The characters a page has.
Characters == [p \in Pages |-> {ToUnicode(p, b) : b \in Byte} \ {0, Replacement}]

HasCharacter(code) == code \in Characters[page]

\* A character that the page does not have is a blank in the name.
IsOnPage(text) == \A n \in DOMAIN CodePoints(Upper(text)) : HasCharacter(CodePoints(Upper(text))[n])

\* Two substitutes of accounts the page can spell are equal exactly when the
\* same account signs on with the same seeds: an answer to one seed is no
\* answer to another, and neither a long name nor one in another case, with
\* an accent or in a page with other bytes for it, is taken for another
\* user's (ibmrseed.cpp:45-87, 219-229).
SubstitutesTellApart ==
  \A a, b \in {logon \in logons : IsOnPage(logon.account.user)} :
    a.substitute = b.substitute <=>
      /\ a.serverSeed = b.serverSeed /\ a.clientSeed = b.clientSeed
      /\ Counts(a.account.user, 16) = Counts(b.account.user, 16)
      /\ Counts(a.account.password, 8) = Counts(b.account.password, 8)

\* The sequence number is added to the seed as one number of eight bytes:
\* adding the complement of one and one again gives the seed back, carries
\* through any bytes of 255 included (ibmrseed.cpp:231-242).
SequenceNumberIsUndone ==
  \A logon \in logons :
    AddBigEndian8(logon.substitute[2], [n \in 1..8 |-> 255]) = logon.serverSeed

\* What the user sees in a field is what the host has in it once it was sent,
\* byte by character: a character of the page survives although several bytes
\* may stand for it, one that is not on the page is a blank, and characters of
\* one to four bytes of UTF-8 are one byte each.  A NUL, as which an empty byte
\* is shown, is never sent as a character, but need not be 0 again: the bytes a
\* page does not define take the place of 0 in the reverse table, so that it is
\* 255 on the pages 420, 424 and 838 and 191 on 870
\* (codepage.cpp:74-131).
SentIsWhatIsShown ==
  phase = "sent" =>
    /\ Len(field) = Len(shown)
    /\ \A n \in DOMAIN shown :
         CASE HasCharacter(shown[n]) -> ToUnicode(page, field[n]) = shown[n]
           [] shown[n] = 0           -> ToUnicode(page, field[n]) \in {0, Replacement}
           [] OTHER                  -> field[n] = Space

\* A letter or a digit is the same byte on every page, and so never a control
\* byte, although its ASCII code may be one: user names, passwords and
\* commands do not depend on the page (codepage.cpp:133-148).
LettersDoNotDependOnThePage ==
  phase = "sent" =>
    \A n \in DOMAIN shown : shown[n] \in LettersAndDigits =>
      /\ field[n] = FromUnicode("037", shown[n])
      /\ field[n] > Space
=============================================================================
