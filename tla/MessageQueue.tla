---------------------------- MODULE MessageQueue ----------------------------
(***************************************************************************)
(* What the window server promises of its message queue: a bounded FIFO     *)
(* that loses a message only when it is full, and then only the new one.    *)
(***************************************************************************)
EXTENDS Naturals, Sequences

CONSTANTS Messages,   \* the messages that can be posted
          QueueSize   \* CE_MESSAGE_QUEUE_SIZE

VARIABLE queue

\* The queue q after an attempt to post m.
Posted(q, m) == IF Len(q) = QueueSize THEN q ELSE Append(q, m)

Init == queue = <<>>
Post(m) == queue' = Posted(queue, m)
Get == queue # <<>> /\ queue' = Tail(queue)

Next == Get \/ \E m \in Messages : Post(m)

Spec == Init /\ [][Next]_queue
=============================================================================
