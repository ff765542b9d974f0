------------------------------ MODULE Channel ------------------------------
(***************************************************************************)
(* What one direction of a SocketSerialized connection promises: messages  *)
(* are delivered intact and in the order they were sent.  Only the loss of *)
(* the connection may tear a message, and nothing is delivered after it.   *)
(***************************************************************************)
EXTENDS Naturals, Sequences

CONSTANTS Messages  \* records of a status and a body

VARIABLES up,         \* the connection is there
          sent,       \* the messages sent so far
          delivered,  \* the messages delivered intact
          torn        \* a torn message was delivered

vars == <<up, sent, delivered, torn>>

Init == up = TRUE /\ sent = <<>> /\ delivered = <<>> /\ torn = FALSE

Send(m) == sent' = Append(sent, m) /\ UNCHANGED <<up, delivered, torn>>

Deliver ==
    /\ ~torn
    /\ Len(delivered) < Len(sent)
    /\ delivered' = Append(delivered, sent[Len(delivered) + 1])
    /\ UNCHANGED <<up, sent, torn>>

Lose == up' = FALSE /\ UNCHANGED <<sent, delivered, torn>>

Tear ==
    /\ ~up
    /\ ~torn
    /\ Len(delivered) < Len(sent)
    /\ torn' = TRUE
    /\ UNCHANGED <<up, sent, delivered>>

Next == Lose \/ Deliver \/ Tear \/ \E m \in Messages : Send(m)

Spec == Init /\ [][Next]_vars
=============================================================================
