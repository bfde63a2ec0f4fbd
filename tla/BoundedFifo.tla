---------------------------- MODULE BoundedFifo ----------------------------
(***************************************************************************)
(* What a ring buffer promises to its two users: a bounded first-in        *)
(* first-out channel of messages.  sent is the history of the messages     *)
(* accepted from the producer and rcvd the history of the messages handed  *)
(* to the consumer.  A message is a sequence of data units; the consumer   *)
(* may ask for fewer units than were sent (the tail is cut off) or for     *)
(* more (the surplus units are unspecified, the slot keeps old contents).  *)
(***************************************************************************)
EXTENDS Integers, Sequences

CONSTANTS
    Capacity      \* number of messages the channel holds

VARIABLES
    sent,         \* messages accepted so far, oldest first
    rcvd          \* messages delivered so far, oldest first

vars == <<sent, rcvd>>

\* m agrees with s on the units both of them have.
Agree(m, s) == \A k \in 1..Len(m) : k <= Len(s) => m[k] = s[k]

\* The history t continues the history s.
Extends(t, s) ==
    /\ Len(s) <= Len(t)
    /\ \A i \in 1..Len(s) : t[i] = s[i]

Init ==
    /\ sent = <<>>
    /\ rcvd = <<>>

\* The producer hands over one message or a batch of them.
Put ==
    /\ Extends(sent', sent)
    /\ Len(sent') - Len(rcvd) <= Capacity
    /\ UNCHANGED rcvd

\* The consumer takes the oldest messages, in order.
Get ==
    /\ Extends(rcvd', rcvd)
    /\ Len(rcvd') <= Len(sent)
    /\ \A i \in (Len(rcvd) + 1)..Len(rcvd') : Agree(rcvd'[i], sent[i])
    /\ UNCHANGED sent

Next == Put \/ Get

Spec == Init /\ [][Next]_vars
=============================================================================
