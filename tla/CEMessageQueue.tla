--------------------------- MODULE CEMessageQueue ---------------------------
(***************************************************************************)
(* The ring buffer behind CEPostMessage and CEGetMessage: an array of slots *)
(* with the index of the oldest message and the number of messages.  A      *)
(* taken message stays in its slot until it is overwritten.                 *)
(***************************************************************************)
EXTENDS Naturals, Sequences

CONSTANTS Messages, QueueSize

ASSUME QueueSizeAssumption == QueueSize \in Nat \ {0}

VARIABLES messages,     \* server->messages, indices from 0
          queue_head,   \* server->queue_head
          queue_count   \* server->queue_count

vars == <<messages, queue_head, queue_count>>

Slots == 0 .. QueueSize - 1

\* The array is zeroed: every slot holds the same message, which is never read.
Init ==
  /\ \E zero \in Messages : messages = [i \in Slots |-> zero]
  /\ queue_head = 0
  /\ queue_count = 0

\* Faulty variant of CEPostMessage: the slot does not take the head into account.
PostFromZero(m) ==
  /\ queue_count # QueueSize
  /\ messages' = [messages EXCEPT ![queue_count] = m]
  /\ queue_count' = queue_count + 1
  /\ UNCHANGED queue_head

CEPostMessage(m) ==
  /\ queue_count # QueueSize
  /\ messages' = [messages EXCEPT ![(queue_head + queue_count) % QueueSize] = m]
  /\ queue_count' = queue_count + 1
  /\ UNCHANGED queue_head

\* The message a successful CEGetMessage copies out.
Oldest == messages[queue_head]

CEGetMessage ==
  /\ queue_count # 0
  /\ queue_head' = (queue_head + 1) % QueueSize
  /\ queue_count' = queue_count - 1
  /\ UNCHANGED messages

Next == CEGetMessage \/ \E m \in Messages : CEPostMessage(m)

Spec == Init /\ [][Next]_vars
-----------------------------------------------------------------------------
\* The head is a slot and the count never exceeds the ring (66-76).
TypeOK ==
  /\ messages \in [Slots -> Messages]
  /\ queue_head \in Slots
  /\ queue_count \in 0 .. QueueSize

\* The queued messages, oldest first, read across the end of the array.
RingContents(slots, head, count) ==
  [k \in 1 .. count |-> slots[(head + (k - 1)) % QueueSize]]

Contents == RingContents(messages, queue_head, queue_count)

Abstract == INSTANCE MessageQueue WITH queue <- Contents

\* Wrapping indices lose, duplicate and reorder nothing: the ring is the FIFO,
\* and CEGetMessage hands out its oldest message.
RefinesMessageQueue == Abstract!Spec

=============================================================================
