-------------------------- MODULE RecordChannel --------------------------
(***************************************************************************)
(* What the client owes its application once EOR is in force: a FIFO       *)
(* channel of whole records.  The peer sends records; each one is handed   *)
(* to the application exactly once, whole, and in the order it was sent.   *)
(* Telnet, escaping and the way TCP cuts the stream do not appear here.    *)
(***************************************************************************)
EXTENDS Naturals, Sequences

CONSTANT Records      \* the records the peer may send

VARIABLES sent,       \* every record the peer has sent, in order
          delivered   \* every record the application was handed, in order

vars == <<sent, delivered>>

Init == sent = <<>> /\ delivered = <<>>

Send(r) ==
  /\ sent' = Append(sent, r)
  /\ UNCHANGED delivered

Deliver ==
  /\ Len(delivered) < Len(sent)
  /\ delivered' = Append(delivered, sent[Len(delivered) + 1])
  /\ UNCHANGED sent

Next == (\E r \in Records : Send(r)) \/ Deliver

\* What is delivered are the records sent, in order and once each.
Safety == Init /\ [][Next]_vars

\* And each of them is delivered in the end.
Liveness == WF_vars(Deliver)

Spec == Safety /\ Liveness
===========================================================================
