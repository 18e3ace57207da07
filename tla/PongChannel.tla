---------------------------- MODULE PongChannel ----------------------------
(***************************************************************************)
(* What xcmpong's framing promises its callers: a reliable, ordered       *)
(* message channel from one sender to one receiver, with a receive         *)
(* capacity.  The sender hands over whole messages (a send may be begun   *)
(* and completed in two steps, and it may be cut short by the sender       *)
(* going away).  The receiver gets exactly the completed messages, in     *)
(* order, each whole; it may give up with EMSGSIZE on a message larger    *)
(* than its capacity; it reports end-of-stream only once the sender is    *)
(* gone and every completed message has been delivered.                   *)
(***************************************************************************)
EXTENDS Naturals, Sequences

CONSTANTS Payloads,   \* the messages a sender may send
          Capacity,   \* the receiver's buffer size
          NoMsg       \* no send in progress

VARIABLES completed,  \* messages whose send has completed
          sending,    \* the message whose send is in progress, or NoMsg
          delivered,  \* messages the receiver has returned
          closed,     \* the sender has gone
          outcome     \* "open", or why the receiver stopped

vars == <<completed, sending, delivered, closed, outcome>>

Init == /\ completed = <<>>
        /\ sending = NoMsg
        /\ delivered = <<>>
        /\ closed = FALSE
        /\ outcome = "open"

Begin(m) == /\ ~closed /\ sending = NoMsg
            /\ sending' = m
            /\ UNCHANGED <<completed, delivered, closed, outcome>>

Complete(m) == /\ ~closed /\ sending \in {m, NoMsg}
               /\ completed' = Append(completed, m)
               /\ sending' = NoMsg
               /\ UNCHANGED <<delivered, closed, outcome>>

\* The sender closes or dies; a send in progress is never completed.
Close == /\ ~closed
         /\ closed' = TRUE
         /\ UNCHANGED <<completed, sending, delivered, outcome>>

NextUndelivered == Len(delivered) + 1

Deliver == /\ outcome = "open"
           /\ NextUndelivered <= Len(completed)
           /\ delivered' = Append(delivered, completed[NextUndelivered])
           /\ UNCHANGED <<completed, sending, closed, outcome>>

\* The next message the receiver would read, complete or in progress.
Upcoming == IF NextUndelivered <= Len(completed) THEN completed[NextUndelivered]
            ELSE sending

Reject == /\ outcome = "open"
          /\ Upcoming # NoMsg
          /\ Len(Upcoming) > Capacity
          /\ outcome' = "emsgsize"
          /\ UNCHANGED <<completed, sending, delivered, closed>>

Eof == /\ outcome = "open"
       /\ closed
       /\ Len(delivered) = Len(completed)
       /\ outcome' = "eof"
       /\ UNCHANGED <<completed, sending, delivered, closed>>

Receive == Deliver \/ Reject \/ Eof

Next == \/ \E m \in Payloads : Begin(m) \/ Complete(m)
        \/ Close
        \/ Receive

Spec == Init /\ [][Next]_vars

\* A receiver that is not blocked by its caller keeps reading.
Progress == WF_vars(Receive)

FairSpec == Spec /\ Progress

=============================================================================
