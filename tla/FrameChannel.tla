---------------------------- MODULE FrameChannel ----------------------------
(***************************************************************************)
(* What one direction of a connection promises (endpoint.h, protocol.h):   *)
(* whole messages, in the order they were sent, each at most once and with *)
(* the meaning the protocol gives them; then, perhaps, the end. Which of    *)
(* the last messages are lost with the connection is not promised.          *)
(***************************************************************************)
EXTENDS Sequences, Naturals

CONSTANTS
  Bodies,      \* what may be sent
  Meaning(_),  \* what a body means, or
  Nothing      \* no message at all

VARIABLES
  sent,      \* bodies, in the order they were sent
  received,  \* messages, in the order they were handed on
  sending,   \* the sender has not given up the connection
  receiving  \* neither has the receiver

vars == <<sent, received, sending, receiving>>

Init == sent = <<>> /\ received = <<>> /\ sending = TRUE /\ receiving = TRUE

Send(b) ==
  /\ sending
  /\ sent' = Append(sent, b)
  /\ UNCHANGED <<received, sending, receiving>>

Receive ==
  /\ receiving
  /\ Len(received) < Len(sent)
  /\ Meaning(sent[Len(received) + 1]) # Nothing
  /\ received' = Append(received, Meaning(sent[Len(received) + 1]))
  /\ UNCHANGED <<sent, sending, receiving>>

End ==
  /\ \/ sending' = FALSE /\ UNCHANGED receiving
     \/ receiving' = FALSE /\ UNCHANGED sending
  /\ UNCHANGED <<sent, received>>

Next == (\E b \in Bodies : Send(b)) \/ Receive \/ End

Spec == Init /\ [][Next]_vars
=============================================================================
