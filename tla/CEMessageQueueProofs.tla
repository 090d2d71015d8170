------------------------ MODULE CEMessageQueueProofs ------------------------
(***************************************************************************)
(* The ring buffer implements the bounded FIFO for every ring size and every*)
(* set of messages.                                                         *)
(***************************************************************************)
EXTENDS CEMessageQueue, SequenceTheorems, TLAPS

\* One wrap is all an index that starts inside the ring can need.
LEMMA ModWrap ==
  ASSUME NEW n \in Nat \ {0}, NEW a \in Nat, a < n + n
  PROVE  a % n = IF a < n THEN a ELSE a - n
<1>1. CASE a < n
  BY <1>1
<1>2. CASE a >= n
  <2>1. a - n \in 0 .. n - 1 /\ a = (a - n) + n
    BY <1>2
  <2> QED
    BY <2>1, <1>2
<1> QED
  BY <1>1, <1>2

LEMMA SlotOf ==
  ASSUME NEW h \in Slots, NEW k \in 0 .. QueueSize
  PROVE  /\ (h + k) % QueueSize = IF h + k < QueueSize THEN h + k ELSE h + k - QueueSize
         /\ (h + k) % QueueSize \in Slots
<1> DEFINE a == h + k
<1>1. QueueSize \in Nat \ {0} /\ h \in Nat /\ h < QueueSize
  BY QueueSizeAssumption DEF Slots
<1>2. a \in Nat /\ a < QueueSize + QueueSize
  BY <1>1
<1> HIDE DEF a
<1>3. a % QueueSize = IF a < QueueSize THEN a ELSE a - QueueSize
  BY <1>1, <1>2, ModWrap
<1>4. a % QueueSize \in Slots
  BY <1>1, <1>2, <1>3 DEF Slots
<1>5. h + k = a
  BY DEF a
<1> QED
  BY <1>1, <1>2, <1>3, <1>4, <1>5

LEMMA ContentsType ==
  ASSUME NEW slots \in [Slots -> Messages], NEW head \in Slots, NEW count \in 0 .. QueueSize
  PROVE  LET c == RingContents(slots, head, count) IN
         /\ c \in Seq(Messages)
         /\ Len(c) = count
         /\ \A k \in 1 .. count : c[k] = slots[(head + (k - 1)) % QueueSize]
<1> DEFINE c == RingContents(slots, head, count)
<1>1. count \in Nat /\ count <= QueueSize
  BY QueueSizeAssumption
<1>2. \A k \in 1 .. count : (head + (k - 1)) % QueueSize \in Slots
  <2>1. SUFFICES ASSUME NEW k \in 1 .. count
                 PROVE  (head + (k - 1)) % QueueSize \in Slots
    OBVIOUS
  <2>2. k - 1 \in 0 .. QueueSize
    BY <1>1, QueueSizeAssumption
  <2> QED
    BY <2>2, SlotOf
<1>3. \A k \in 1 .. count : c[k] = slots[(head + (k - 1)) % QueueSize]
  BY DEF RingContents
<1>4. c \in Seq(Messages) /\ Len(c) = count
  BY <1>1, <1>2 DEF RingContents
<1> QED
  BY <1>3, <1>4

\* The ring never overflows and its head stays inside it.
THEOREM TypeCorrect == Spec => []TypeOK
<1>1. Init => TypeOK
  BY QueueSizeAssumption DEF Init, TypeOK, Slots
<1>2. TypeOK /\ [Next]_vars => TypeOK'
  <2> SUFFICES ASSUME TypeOK, [Next]_vars PROVE TypeOK'
    OBVIOUS
  <2>1. CASE CEGetMessage
    <3>1. queue_head' \in Slots
      BY <2>1, SlotOf, QueueSizeAssumption DEF CEGetMessage, TypeOK
    <3> QED
      BY <2>1, <3>1, QueueSizeAssumption DEF CEGetMessage, TypeOK
  <2>2. ASSUME NEW m \in Messages, CEPostMessage(m) PROVE TypeOK'
    <3>1. messages' \in [Slots -> Messages] /\ queue_head' \in Slots
      BY <2>2 DEF CEPostMessage, TypeOK
    <3>2. queue_count' \in 0 .. QueueSize
      BY <2>2, QueueSizeAssumption DEF CEPostMessage, TypeOK
    <3> QED
      BY <3>1, <3>2 DEF TypeOK
  <2>3. CASE UNCHANGED vars
    BY <2>3 DEF vars, TypeOK
  <2> QED
    BY <2>1, <2>2, <2>3 DEF Next
<1> QED
  BY <1>1, <1>2, PTL DEF Spec

LEMMA PostAppends ==
  ASSUME TypeOK, TypeOK', NEW m \in Messages, CEPostMessage(m)
  PROVE  Contents' = Append(Contents, m)
<1> DEFINE n == queue_count
           tail == (queue_head + n) % QueueSize
<1>1. n \in Nat /\ n < QueueSize /\ n + 1 \in Nat /\ queue_count' = n + 1
  BY QueueSizeAssumption DEF CEPostMessage, TypeOK
<1>2. /\ Len(Contents') = n + 1 /\ Contents' \in Seq(Messages)
      /\ \A k \in 1 .. n + 1 : Contents'[k] = messages'[(queue_head + (k - 1)) % QueueSize]
  <2>1. Contents' = RingContents(messages', queue_head, n + 1)
    BY DEF Contents, CEPostMessage
  <2>2. messages' \in [Slots -> Messages] /\ queue_head \in Slots /\ n + 1 \in 0 .. QueueSize
    BY <1>1, QueueSizeAssumption DEF TypeOK
  <2> QED
    BY <2>1, <2>2, ContentsType
<1>3. tail \in Slots
  BY <1>1, SlotOf DEF TypeOK
<1>4. messages' = [messages EXCEPT ![tail] = m]
  BY DEF CEPostMessage
<1>5. Contents'[n + 1] = m
  BY <1>1, <1>2, <1>3, <1>4 DEF TypeOK
<1>7. /\ Contents \in Seq(Messages) /\ Len(Contents) = n
      /\ \A k \in 1 .. n : Contents[k] = messages[(queue_head + (k - 1)) % QueueSize]
  BY ContentsType DEF Contents, TypeOK
<1>6. ASSUME NEW k \in 1 .. n PROVE Contents'[k] = Contents[k]
  <2>1. (queue_head + (k - 1)) % QueueSize # tail
    <3>1. queue_head \in Slots /\ k - 1 \in 0 .. QueueSize /\ n \in 0 .. QueueSize
      BY <1>1, QueueSizeAssumption DEF TypeOK
    <3>2. queue_head \in Nat /\ queue_head < QueueSize
      BY <3>1, QueueSizeAssumption DEF Slots
    <3> QED
      BY <1>1, <3>1, <3>2, SlotOf, QueueSizeAssumption
  <2>2. (queue_head + (k - 1)) % QueueSize \in Slots
    BY <1>1, SlotOf, QueueSizeAssumption DEF TypeOK
  <2>3. k \in 1 .. n + 1
    BY <1>1
  <2> QED
    BY <1>2, <1>4, <1>7, <2>1, <2>2, <2>3 DEF TypeOK
<1>8. /\ Append(Contents, m) \in Seq(Messages) /\ Len(Append(Contents, m)) = n + 1
      /\ Append(Contents, m)[n + 1] = m
      /\ \A k \in 1 .. n : Append(Contents, m)[k] = Contents[k]
  BY <1>7, AppendProperties
<1> HIDE DEF n
<1>9. \A k \in 1 .. n + 1 : Contents'[k] = Append(Contents, m)[k]
  BY <1>1, <1>5, <1>6, <1>8
<1> QED
  BY <1>2, <1>8, <1>9, SeqEqual

LEMMA GetTakesHead ==
  ASSUME TypeOK, TypeOK', CEGetMessage
  PROVE  Contents # <<>> /\ Contents' = Tail(Contents) /\ Oldest = Head(Contents)
<1> DEFINE n == queue_count
<1>1. n \in Nat /\ n > 0 /\ n <= QueueSize /\ queue_count' = n - 1
  BY QueueSizeAssumption DEF CEGetMessage, TypeOK
<1>2. /\ Contents \in Seq(Messages) /\ Len(Contents) = n
      /\ \A k \in 1 .. n : Contents[k] = messages[(queue_head + (k - 1)) % QueueSize]
  BY ContentsType DEF Contents, TypeOK
<1>3. Contents # <<>>
  BY <1>1, <1>2
<1>4. /\ Contents' \in Seq(Messages) /\ Len(Contents') = n - 1
      /\ \A k \in 1 .. n - 1 : Contents'[k] = messages[(queue_head' + (k - 1)) % QueueSize]
  <2>1. Contents' = RingContents(messages, queue_head', n - 1)
    BY DEF Contents, CEGetMessage
  <2>2. messages \in [Slots -> Messages] /\ queue_head' \in Slots /\ n - 1 \in 0 .. QueueSize
    BY <1>1, QueueSizeAssumption DEF TypeOK
  <2> QED
    BY <2>1, <2>2, ContentsType
<1>5. queue_head \in Slots /\ queue_head' \in Slots /\ queue_head' = (queue_head + 1) % QueueSize
  BY DEF TypeOK, CEGetMessage
<1> HIDE DEF n
<1>6. ASSUME NEW k \in 1 .. n - 1 PROVE Contents'[k] = Contents[k + 1]
  <2>1. (queue_head' + (k - 1)) % QueueSize = (queue_head + k) % QueueSize
    <3>1. queue_head \in Nat /\ queue_head < QueueSize /\ QueueSize \in Nat \ {0}
      BY <1>5, QueueSizeAssumption DEF Slots
    <3>2. k \in 0 .. QueueSize /\ k - 1 \in 0 .. QueueSize /\ 1 \in 0 .. QueueSize
      BY <1>1, <3>1
    <3>3. queue_head' = IF queue_head + 1 < QueueSize THEN queue_head + 1
                        ELSE queue_head + 1 - QueueSize
      BY <1>5, <3>2, SlotOf
    <3>4. (queue_head + k) % QueueSize = IF queue_head + k < QueueSize THEN queue_head + k
                                         ELSE queue_head + k - QueueSize
      BY <1>5, <3>2, SlotOf
    <3>5. (queue_head' + (k - 1)) % QueueSize =
             IF queue_head' + (k - 1) < QueueSize THEN queue_head' + (k - 1)
             ELSE queue_head' + (k - 1) - QueueSize
      BY <1>5, <3>2, SlotOf
    <3> HIDE DEF n
    <3> QED
      BY <1>1, <3>1, <3>2, <3>3, <3>4, <3>5
  <2>2. k + 1 \in 1 .. n /\ (k + 1) - 1 = k
    BY <1>1
  <2>3. Contents[k + 1] = messages[(queue_head + k) % QueueSize]
    BY <1>2, <2>2
  <2> QED
    BY <1>4, <2>1, <2>3
<1>7. /\ Tail(Contents) \in Seq(Messages) /\ Len(Tail(Contents)) = n - 1
      /\ \A k \in 1 .. n - 1 : Tail(Contents)[k] = Contents[k + 1]
  BY <1>1, <1>2, <1>3, HeadTailProperties
<1>8. Contents' = Tail(Contents)
  BY <1>4, <1>6, <1>7, SeqEqual
<1>9. Oldest = Head(Contents)
  <2>1. (queue_head + (1 - 1)) % QueueSize = queue_head
    <3>1. 0 \in 0 .. QueueSize /\ queue_head \in Nat /\ queue_head < QueueSize
      BY <1>5, QueueSizeAssumption DEF Slots
    <3>2. (queue_head + 0) % QueueSize = queue_head
      BY <1>5, <3>1, SlotOf
    <3> QED
      BY <3>2
  <2>2. Head(Contents) = Contents[1] /\ 1 \in 1 .. n
    BY <1>1, <1>2, <1>3, HeadTailProperties
  <2>3. Contents[1] = messages[(queue_head + (1 - 1)) % QueueSize]
    BY <1>2, <2>2
  <2> QED
    BY <2>1, <2>2, <2>3 DEF Oldest
<1> QED
  BY <1>3, <1>8, <1>9

\* The ring, its wrapping head and its count implement the bounded FIFO.
THEOREM Refinement == Spec => RefinesMessageQueue
<1>1. Init => Abstract!Init
  <2>1. ASSUME Init PROVE Contents = <<>>
    BY <2>1 DEF Init, Contents, RingContents
  <2> QED
    BY <2>1 DEF Abstract!Init
<1>2. TypeOK /\ TypeOK' /\ [Next]_vars => [Abstract!Next]_Contents
  <2> SUFFICES ASSUME TypeOK, TypeOK', [Next]_vars PROVE [Abstract!Next]_Contents
    OBVIOUS
  <2>1. CASE CEGetMessage
    BY <2>1, GetTakesHead DEF Abstract!Next, Abstract!Get
  <2>2. ASSUME NEW m \in Messages, CEPostMessage(m) PROVE [Abstract!Next]_Contents
    <3>1. Contents' = Append(Contents, m)
      BY <2>2, PostAppends
    <3>2. Len(Contents) # QueueSize
      BY <2>2, ContentsType DEF CEPostMessage, Contents, TypeOK
    <3> QED
      BY <3>1, <3>2 DEF Abstract!Next, Abstract!Post, Abstract!Posted
  <2>3. CASE UNCHANGED vars
    BY <2>3 DEF vars, Contents, RingContents
  <2> QED
    BY <2>1, <2>2, <2>3 DEF Next
<1> QED
  BY <1>1, <1>2, TypeCorrect, PTL DEF Spec, RefinesMessageQueue, Abstract!Spec
=============================================================================
