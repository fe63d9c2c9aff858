---------------------------- MODULE BoundedFifo ----------------------------
(***************************************************************************)
(* What an OSMesgQueue promises its users: a bounded sequence of messages, *)
(* sent at the tail or jammed at the head and received from the head.      *)
(***************************************************************************)
EXTENDS Naturals, Sequences

CONSTANTS Mesgs, msgCount

VARIABLES
    buf,   \* the messages in the queue, the next to be received first
    last   \* the message that the last receive or peek handed out

Init == buf = <<>> /\ last \in Mesgs

Send(m) == Len(buf) < msgCount /\ buf' = Append(buf, m) /\ UNCHANGED last
Jam(m)  == Len(buf) < msgCount /\ buf' = <<m>> \o buf /\ UNCHANGED last
Recv    == buf # <<>> /\ last' = Head(buf) /\ buf' = Tail(buf)
Peek    == buf # <<>> /\ last' = Head(buf) /\ UNCHANGED buf

Next == (\E m \in Mesgs : Send(m) \/ Jam(m)) \/ Recv \/ Peek

Spec == Init /\ [][Next]_<<buf, last>>

=============================================================================
