------------------------------ MODULE MCSignon ------------------------------
(***************************************************************************)
(* Every code page with every byte and with characters on both sides of    *)
(* each boundary of UTF-8; accounts that differ in case, after the eighth  *)
(* and the sixteenth character, in an accent and in their length; seeds    *)
(* with carries.                                                           *)
(***************************************************************************)
EXTENDS Signon

Account(user, password) == [user |-> user, password |-> password]

Abc == <<65, 66, 67>>
LongName(last) == <<65, 65, 65, 65, 65, 65, 65, 65, 66>> \o last

\* abc, ABC, a name with e-acute (cut off in its second byte in the last one)
\* or a letter instead, and long ones.
AllAccounts ==
  {Account(<<97, 98, 67>>, <<65, 49>>), Account(Abc, <<97, 49>>), Account(Abc, <<65, 50>>),
   Account(Abc \o <<32>>, <<65, 49>>), Account(<<65, 195, 137>>, <<65, 49>>),
   Account(<<65, 69>>, <<65, 49>>), Account(<<65>>, <<65, 49>>), Account(<<65, 195>>, <<65, 49>>),
   Account(LongName(<<>>), <<65, 49>>), Account(LongName(<<66>>), <<65, 49>>),
   Account(LongName(<<195, 137, 65, 65, 65, 65, 65, 66>>), LongName(<<>>)),
   Account(LongName(<<195, 137, 65, 65, 65, 65, 65, 67>>), LongName(<<>>)),
   Account(LongName(Abc \o Abc \o <<65, 66>>), LongName(<<>>)),
   Account(LongName(Abc \o Abc \o <<65, 67>>), LongName(<<66>>))}

AllSeeds == {<<0, 0, 0, 0, 0, 0, 255, 255>>, [n \in 1..8 |-> 255], <<1, 2>>}

AllTexts ==
  {<<code>> : code \in (0..127) \cup {127, 128, 2047, 2048, 65533, 65535, 65536, 1114111}}
    \cup {<<128512, 65, 233, 281, 1575, 1488, 3585, 36>>}
=============================================================================
