--------------------------- MODULE OrderedChannel ---------------------------
(***************************************************************************)
(* What a packet carrier promises to the transport that uses it: one       *)
(* direction of a reliable, ordered, exactly-once message channel.  The    *)
(* receiver has at any time been handed a prefix of what was sent.  One    *)
(* arrival may release several buffered messages at once, so a Deliver     *)
(* step may extend the delivered prefix by more than one message.          *)
(***************************************************************************)
EXTENDS Naturals, Sequences

CONSTANT Messages     \* the messages that can be sent

VARIABLES sent,       \* the messages accepted for sending, in order
          delivered   \* the messages handed to the receiver, in order

chanVars == <<sent, delivered>>

Init == sent = <<>> /\ delivered = <<>>

Send == /\ \E m \in Messages : sent' = Append(sent, m)
        /\ UNCHANGED delivered

Deliver == /\ \E k \in (Len(delivered) + 1)..Len(sent) :
                delivered' = SubSeq(sent, 1, k)
           /\ UNCHANGED sent

Next == Send \/ Deliver

Spec == Init /\ [][Next]_chanVars
=============================================================================
