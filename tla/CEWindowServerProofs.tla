------------------------ MODULE CEWindowServerProofs ------------------------
(***************************************************************************)
(* Proofs about CEWindowServer for every size of its tables.  The inductive *)
(* invariant adds to the type that nothing in the server - no window, no    *)
(* parent, timer, queued or taken message, focus or capture - carries a     *)
(* handle that was not issued yet.  That is why a fresh handle meets no     *)
(* stale reference: CreateLeads and HandleNeverReused rest on it.  Along     *)
(* with it: what CEGDI draws, for every screen and every coordinate.        *)
(***************************************************************************)
EXTENDS MCWindowServer, NumberLemmas, SequenceTheorems, FiniteSetTheorems, TLAPS

\* A queue that fits the ring and holds messages.
QueueOK(q) == q \in Seq(AMessage) /\ Len(q) <= QueueSize

\* Every message of q names a handle below n.
NamesBelow(q, n) == \A k \in 1 .. Len(q) : q[k].hwnd < n

\* CreateLeads of any queue.
CreatesFirst(q) ==
  \A i, j \in 1 .. Len(q) : i < j /\ q[j].message = "CREATE" => q[i].hwnd # q[j].hwnd

\* CommandFollowsRelease of any queue.
CommandsBehind(q) ==
  \A i \in 2 .. Len(q) : q[i].message = "COMMAND" =>
     q[i - 1] = Message(q[i].param, "LBUTTONUP", 0)

\* What holds of a queue when n is the next handle.
GoodQueue(q, n) ==
  QueueOK(q) /\ NamesBelow(q, n) /\ CreatesFirst(q) /\ CommandsBehind(q)

\* What a batch of new messages must satisfy to keep that.
GoodBatch(ms, n) ==
  /\ ms \in Seq(AMessage)
  /\ NamesBelow(ms, n)
  /\ \A k \in 1 .. Len(ms) : ms[k].message # "CREATE"
  /\ \A k \in 1 .. Len(ms) : ms[k].message = "COMMAND" =>
        k > 1 /\ ms[k - 1] = Message(ms[k].param, "LBUTTONUP", 0)

KnownWindows(ws, n) == \A i \in 1 .. Len(ws) : ws[i].handle < n /\ ws[i].parent < n

\* No reference to a handle that was not issued yet.
HandlesKnown ==
  /\ KnownWindows(windows, next_handle)
  /\ \A i \in 1 .. MaxTimers : timers[i].hwnd < next_handle
  /\ focus < next_handle
  /\ capture < next_handle

IInv == TypeOK /\ GoodQueue(queue, next_handle) /\ HandlesKnown
-----------------------------------------------------------------------------
\* The sizes are numbers.
LEMMA Sizes == MaxWindows \in Nat /\ QueueSize \in Nat /\ QueueSize > 0 /\ MaxTimers \in Nat
  BY MaxWindowsAssumption, QueueSizeAssumption, MaxTimersAssumption

\* What a message literal is, and when it is a message.
LEMMA MessageType ==
  ASSUME NEW h \in Nat, NEW m \in MessageKinds, NEW p \in Nat \cup Keys
  PROVE  /\ Message(h, m, p) \in AMessage
         /\ Message(h, m, p).hwnd = h
         /\ Message(h, m, p).message = m
         /\ Message(h, m, p).param = p
  BY DEF Message, AMessage

\* One attempt to post: the old messages in place, at most the new one behind.
LEMMA PostedShape ==
  ASSUME NEW q \in Seq(AMessage), Len(q) <= QueueSize, NEW m \in AMessage
  PROVE  /\ QueueOK(Fifo!Posted(q, m))
         /\ Len(Fifo!Posted(q, m)) >= Len(q)
         /\ Len(Fifo!Posted(q, m)) <= Len(q) + 1
         /\ \A k \in 1 .. Len(q) : Fifo!Posted(q, m)[k] = q[k]
         /\ \A k \in 1 .. Len(Fifo!Posted(q, m)) : k > Len(q) => Fifo!Posted(q, m)[k] = m
  BY Sizes DEF Fifo!Posted, QueueOK

\* A batch: the old messages in place, a prefix of the new ones behind.
LEMMA PostedAllShape ==
  ASSUME NEW q \in Seq(AMessage), Len(q) <= QueueSize, NEW ms \in Seq(AMessage)
  PROVE  /\ QueueOK(PostedAll(q, ms))
         /\ Len(PostedAll(q, ms)) >= Len(q)
         /\ Len(PostedAll(q, ms)) <= Len(q) + Len(ms)
         /\ \A k \in 1 .. Len(q) : PostedAll(q, ms)[k] = q[k]
         /\ \A k \in 1 .. Len(PostedAll(q, ms)) :
               k > Len(q) => PostedAll(q, ms)[k] = ms[k - Len(q)]
<1> DEFINE n == IF Len(q) + Len(ms) <= QueueSize THEN Len(q) + Len(ms) ELSE QueueSize
<1>1. n \in Nat /\ n >= Len(q) /\ n <= Len(q) + Len(ms) /\ n <= QueueSize
  BY Sizes
<1>2. (q \o ms) \in Seq(AMessage) /\ Len(q \o ms) = Len(q) + Len(ms)
  OBVIOUS
<1>3. PostedAll(q, ms) = SubSeq(q \o ms, 1, n)
  BY DEF PostedAll
<1> HIDE DEF n
<1>4. PostedAll(q, ms) \in Seq(AMessage) /\ Len(PostedAll(q, ms)) = n
  BY <1>1, <1>2, <1>3
<1>5. \A k \in 1 .. n : PostedAll(q, ms)[k] = (q \o ms)[k]
  BY <1>1, <1>2, <1>3
<1>6. \A k \in 1 .. Len(q) : (q \o ms)[k] = q[k]
  OBVIOUS
<1>7. \A k \in Len(q) + 1 .. Len(q) + Len(ms) : (q \o ms)[k] = ms[k - Len(q)]
  OBVIOUS
<1> QED
  BY <1>1, <1>4, <1>5, <1>6, <1>7, SMTT(40) DEF QueueOK

\* A larger next handle keeps a queue good.
LEMMA GoodQueueGrows ==
  ASSUME NEW q, NEW n \in Nat, GoodQueue(q, n)
  PROVE  GoodQueue(q, n + 1)
<1>1. \A k \in 1 .. Len(q) : q[k] \in AMessage
  BY DEF GoodQueue, QueueOK
<1>2. \A k \in 1 .. Len(q) : q[k].hwnd \in Nat
  BY <1>1 DEF AMessage
<1> QED
  BY <1>2 DEF GoodQueue, NamesBelow

\* Any queue whose first messages are those of q and whose others are taken in
\* order from a good batch is good.
LEMMA ExtendedQueue ==
  ASSUME NEW q, NEW ms, NEW r, NEW n \in Nat, GoodQueue(q, n), GoodBatch(ms, n),
         QueueOK(r), Len(r) >= Len(q), Len(r) <= Len(q) + Len(ms),
         \A k \in 1 .. Len(q) : r[k] = q[k],
         \A k \in 1 .. Len(r) : k > Len(q) => r[k] = ms[k - Len(q)]
  PROVE  GoodQueue(r, n)
<1>1. Len(q) \in Nat /\ Len(r) \in Nat /\ Len(ms) \in Nat
  BY DEF GoodQueue, GoodBatch, QueueOK
<1>2. \A k \in 1 .. Len(r) : k > Len(q) => k - Len(q) \in 1 .. Len(ms)
  BY <1>1
<1>3. NamesBelow(r, n)
  <2> SUFFICES ASSUME NEW k \in 1 .. Len(r) PROVE r[k].hwnd < n
    BY DEF NamesBelow
  <2>1. CASE k <= Len(q)
    BY <2>1, <1>1 DEF GoodQueue, NamesBelow
  <2>2. CASE k > Len(q)
    BY <2>2, <1>1, <1>2 DEF GoodBatch, NamesBelow
  <2> QED BY <2>1, <2>2, <1>1
<1>4. CreatesFirst(r)
  <2> SUFFICES ASSUME NEW i \in 1 .. Len(r), NEW j \in 1 .. Len(r), i < j,
                      r[j].message = "CREATE"
               PROVE  r[i].hwnd # r[j].hwnd
    BY DEF CreatesFirst
  <2>1. j <= Len(q)
    <3> SUFFICES ASSUME j > Len(q) PROVE FALSE
      BY <1>1
    <3>1. j - Len(q) \in 1 .. Len(ms) /\ ms[j - Len(q)].message = "CREATE"
      BY <1>2
    <3>2. \A k \in 1 .. Len(ms) : ms[k].message # "CREATE"
      BY DEF GoodBatch
    <3> QED BY <3>1, <3>2
  <2>2. i <= Len(q) /\ r[i] = q[i] /\ r[j] = q[j]
    BY <2>1, <1>1
  <2> QED BY <2>1, <2>2, <1>1 DEF GoodQueue, CreatesFirst
<1>5. CommandsBehind(r)
  <2> SUFFICES ASSUME NEW i \in 2 .. Len(r), r[i].message = "COMMAND"
               PROVE  r[i - 1] = Message(r[i].param, "LBUTTONUP", 0)
    BY DEF CommandsBehind
  <2>1. CASE i <= Len(q)
    <3>1. i \in 2 .. Len(q) /\ r[i] = q[i] /\ r[i - 1] = q[i - 1]
      BY <2>1, <1>1
    <3> QED BY <3>1 DEF GoodQueue, CommandsBehind
  <2>2. CASE i > Len(q)
    <3>1. i - Len(q) \in 1 .. Len(ms) /\ r[i] = ms[i - Len(q)]
      BY <2>2, <1>1, <1>2
    <3>2. i - Len(q) > 1 /\ ms[(i - Len(q)) - 1] = Message(r[i].param, "LBUTTONUP", 0)
      BY <3>1 DEF GoodBatch
    <3>3. i - 1 \in 1 .. Len(r) /\ i - 1 > Len(q) /\ (i - 1) - Len(q) = (i - Len(q)) - 1
      BY <3>2, <1>1
    <3> QED BY <3>2, <3>3
  <2> QED BY <2>1, <2>2, <1>1
<1> QED
  BY <1>3, <1>4, <1>5 DEF GoodQueue

\* Posting a batch of known messages keeps the queue good.
LEMMA PostBatch ==
  ASSUME NEW q, NEW ms, NEW n \in Nat, GoodQueue(q, n), GoodBatch(ms, n)
  PROVE  GoodQueue(PostedAll(q, ms), n)
<1>1. q \in Seq(AMessage) /\ Len(q) <= QueueSize /\ ms \in Seq(AMessage)
  BY DEF GoodQueue, QueueOK, GoodBatch
<1> QED
  BY <1>1, PostedAllShape, ExtendedQueue

\* Posting one message that is neither a WM_CREATE nor a WM_COMMAND does.
LEMMA PostOne ==
  ASSUME NEW q, NEW m \in AMessage, NEW n \in Nat, GoodQueue(q, n), m.hwnd < n,
         m.message \notin {"CREATE", "COMMAND"}
  PROVE  GoodQueue(Fifo!Posted(q, m), n)
<1>1. q \in Seq(AMessage) /\ Len(q) <= QueueSize /\ Len(q) \in Nat
  BY DEF GoodQueue, QueueOK
<1>2. GoodBatch(<<m>>, n)
  BY DEF GoodBatch, NamesBelow
<1> DEFINE r == Fifo!Posted(q, m)
<1>3. /\ QueueOK(r) /\ Len(r) >= Len(q) /\ Len(r) <= Len(q) + 1
      /\ \A k \in 1 .. Len(q) : r[k] = q[k]
      /\ \A k \in 1 .. Len(r) : k > Len(q) => r[k] = m
  BY <1>1, PostedShape
<1> HIDE DEF r
<1>4. \A k \in 1 .. Len(r) : k > Len(q) => r[k] = <<m>>[k - Len(q)]
  <2> SUFFICES ASSUME NEW k \in 1 .. Len(r), k > Len(q) PROVE r[k] = <<m>>[k - Len(q)]
    OBVIOUS
  <2>1. k - Len(q) = 1
    BY <1>1, <1>3 DEF QueueOK
  <2> QED BY <2>1, <1>3
<1>5. GoodQueue(r, n)
  BY <1>2, <1>3, <1>4, ExtendedQueue
<1> QED BY <1>5 DEF r

\* The WM_CREATE of a window with the next handle keeps the queue good.
LEMMA PostCreate ==
  ASSUME NEW q, NEW n \in Nat, GoodQueue(q, n)
  PROVE  GoodQueue(Fifo!Posted(q, Message(n, "CREATE", 0)), n + 1)
<1> DEFINE m == Message(n, "CREATE", 0)
           r == Fifo!Posted(q, m)
<1>1. q \in Seq(AMessage) /\ Len(q) <= QueueSize /\ Len(q) \in Nat
  BY DEF GoodQueue, QueueOK
<1>2. m \in AMessage /\ m.hwnd = n /\ m.message = "CREATE"
  BY MessageType DEF MessageKinds
<1> HIDE DEF m
<1>3. /\ QueueOK(r) /\ Len(r) >= Len(q) /\ Len(r) <= Len(q) + 1
      /\ \A k \in 1 .. Len(q) : r[k] = q[k]
      /\ \A k \in 1 .. Len(r) : k > Len(q) => r[k] = m
  BY <1>1, <1>2, PostedShape
<1> HIDE DEF r
<1>4. Len(r) \in Nat
  BY <1>3 DEF QueueOK
<1>5. \A k \in 1 .. Len(q) : q[k].hwnd \in Nat /\ q[k].hwnd < n
  <2>1. \A k \in 1 .. Len(q) : q[k] \in AMessage
    BY <1>1
  <2> QED BY <2>1 DEF GoodQueue, NamesBelow, AMessage
<1>6. NamesBelow(r, n + 1)
  BY <1>1, <1>2, <1>3, <1>4, <1>5 DEF NamesBelow
<1>7. CreatesFirst(r)
  <2> SUFFICES ASSUME NEW i \in 1 .. Len(r), NEW j \in 1 .. Len(r), i < j,
                      r[j].message = "CREATE"
               PROVE  r[i].hwnd # r[j].hwnd
    BY DEF CreatesFirst
  <2>1. i \in 1 .. Len(q) /\ r[i] = q[i]
    BY <1>1, <1>3, <1>4
  <2>2. CASE j <= Len(q)
    BY <2>1, <2>2, <1>1, <1>3 DEF GoodQueue, CreatesFirst
  <2>3. CASE j > Len(q)
    BY <2>1, <2>3, <1>2, <1>3, <1>5
  <2> QED BY <2>2, <2>3, <1>1
<1>8. CommandsBehind(r)
  <2> SUFFICES ASSUME NEW i \in 2 .. Len(r), r[i].message = "COMMAND"
               PROVE  r[i - 1] = Message(r[i].param, "LBUTTONUP", 0)
    BY DEF CommandsBehind
  <2>1. i <= Len(q)
    BY <1>1, <1>2, <1>3, <1>4
  <2>2. i \in 2 .. Len(q) /\ r[i] = q[i] /\ r[i - 1] = q[i - 1]
    BY <2>1, <1>1, <1>3
  <2> QED BY <2>2 DEF GoodQueue, CommandsBehind
<1>9. GoodQueue(r, n + 1)
  BY <1>3, <1>6, <1>7, <1>8 DEF GoodQueue
<1> QED BY <1>9 DEF r, m

\* Taking the oldest message keeps the queue good, and that message is known.
LEMMA TakeOldest ==
  ASSUME NEW q, NEW n \in Nat, GoodQueue(q, n), q # <<>>
  PROVE  GoodQueue(Tail(q), n) /\ Head(q) \in AMessage /\ Head(q).hwnd < n
<1>1. q \in Seq(AMessage) /\ Len(q) <= QueueSize /\ Len(q) \in Nat /\ Len(q) > 0
  BY DEF GoodQueue, QueueOK
<1>2. Tail(q) \in Seq(AMessage) /\ Len(Tail(q)) = Len(q) - 1
  BY <1>1
<1>3. \A k \in 1 .. Len(q) - 1 : Tail(q)[k] = q[k + 1]
  BY <1>1
<1>4. QueueOK(Tail(q))
  BY <1>1, <1>2, Sizes DEF QueueOK
<1>5. NamesBelow(Tail(q), n)
  BY <1>1, <1>2, <1>3 DEF GoodQueue, NamesBelow
<1>6. CreatesFirst(Tail(q))
  <2> SUFFICES ASSUME NEW i \in 1 .. Len(q) - 1, NEW j \in 1 .. Len(q) - 1, i < j,
                      q[j + 1].message = "CREATE"
               PROVE  q[i + 1].hwnd # q[j + 1].hwnd
    BY <1>2, <1>3 DEF CreatesFirst
  <2>1. i + 1 \in 1 .. Len(q) /\ j + 1 \in 1 .. Len(q) /\ i + 1 < j + 1
    BY <1>1
  <2> QED BY <2>1 DEF GoodQueue, CreatesFirst
<1>7. CommandsBehind(Tail(q))
  <2> SUFFICES ASSUME NEW i \in 2 .. Len(q) - 1, q[i + 1].message = "COMMAND"
               PROVE  q[(i - 1) + 1] = Message(q[i + 1].param, "LBUTTONUP", 0)
    <3>1. \A i \in 2 .. Len(q) - 1 : i - 1 \in 1 .. Len(q) - 1 /\ i \in 1 .. Len(q) - 1
      BY <1>1
    <3> QED BY <3>1, <1>2, <1>3 DEF CommandsBehind
  <2>1. i + 1 \in 2 .. Len(q) /\ (i - 1) + 1 = (i + 1) - 1
    BY <1>1
  <2> QED BY <2>1 DEF GoodQueue, CommandsBehind
<1>8. Head(q) = q[1] /\ 1 \in 1 .. Len(q)
  BY <1>1
<1> QED
  BY <1>1, <1>4, <1>5, <1>6, <1>7, <1>8 DEF GoodQueue, NamesBelow
-----------------------------------------------------------------------------
\* The initial state satisfies the inductive invariant.
LEMMA InitIInv == Init => IInv
<1> SUFFICES ASSUME Init PROVE IInv
  OBVIOUS
<1>1. NoTimer \in Timer
  BY DEF NoTimer, Timer
<1>2. IsFiniteSet({}) /\ Cardinality({}) = 0
  BY FS_EmptySet
<1>3. TypeOK
  BY <1>1, <1>2, Sizes, MaxClassesAssumption DEF Init, TypeOK
<1>4. GoodQueue(queue, next_handle)
  BY Sizes DEF Init, GoodQueue, QueueOK, NamesBelow, CreatesFirst, CommandsBehind
<1>5. HandlesKnown
  BY Sizes DEF Init, HandlesKnown, KnownWindows, NoTimer
<1> QED BY <1>3, <1>4, <1>5 DEF IInv

\* Live handles are numbers below the next one.
LEMMA LiveHandles ==
  ASSUME IInv
  PROVE  /\ \A h \in Handles : h \in Nat \ {0} /\ h < next_handle
         /\ \A h \in Issued : h \in Nat \ {0} /\ h < next_handle
         /\ \A i \in 1 .. Len(windows) : windows[i] \in Window
<1>1. next_handle \in Nat \ {0} /\ windows \in Seq(Window)
  BY DEF IInv, TypeOK
<1>2. \A i \in 1 .. Len(windows) : windows[i] \in Window /\ windows[i].handle < next_handle
  BY <1>1 DEF IInv, HandlesKnown, KnownWindows
<1>3. \A i \in 1 .. Len(windows) : windows[i].handle \in Nat \ {0}
  BY <1>2 DEF Window
<1>4. \A h \in Handles : \E i \in 1 .. Len(windows) : h = windows[i].handle
  BY DEF Handles
<1> QED
  BY <1>1, <1>2, <1>3, <1>4 DEF Issued

\* The window of a live handle.
LEMMA FoundWindow ==
  ASSUME IInv, NEW h \in Handles
  PROVE  CEWindowFind(h) \in Window /\ CEWindowFind(h).handle = h /\ CEWindowFind(h).parent < next_handle
<1>1. \E i \in 1 .. Len(windows) : windows[i].handle = h
  BY DEF Handles
<1> DEFINE i == CHOOSE i \in 1 .. Len(windows) : windows[i].handle = h
<1>2. i \in 1 .. Len(windows) /\ windows[i].handle = h
  BY <1>1
<1> HIDE DEF i
<1>3. CEWindowFind(h) = windows[i]
  BY DEF CEWindowFind, i
<1> QED
  BY <1>2, <1>3, LiveHandles DEF IInv, HandlesKnown, KnownWindows

\* Creating a window: the new handle is above every other, in the windows, the
\* queue and the timers.
LEMMA CreateWindowStep ==
  ASSUME IInv, NEW name \in ClassNames, NEW frame \in Frames, NEW visible \in BOOLEAN,
         NEW parent \in Issued \cup {0}, CreateWindow(name, frame, visible, parent)
  PROVE  IInv'
<1> DEFINE w == [handle |-> next_handle, parent |-> parent, class_name |-> name,
                 wndproc |-> name \in classes, visible |-> visible, enabled |-> TRUE,
                 x |-> frame.x + (IF parent \in Handles THEN CEWindowFind(parent).x ELSE 0),
                 width |-> frame.width]
<1>1. next_handle \in Nat \ {0} /\ parent \in Nat /\ parent < next_handle
  BY LiveHandles DEF IInv, TypeOK
<1>2. frame.x \in Nat /\ frame.width \in Nat \ {0}
  BY FramesAssumption
<1>3. (IF parent \in Handles THEN CEWindowFind(parent).x ELSE 0) \in Nat
  BY FoundWindow DEF Window
<1>4. w \in Window /\ w.handle = next_handle /\ w.parent = parent
  BY <1>1, <1>2, <1>3 DEF Window
<1>5. windows' = Append(windows, w) /\ windows \in Seq(Window) /\ Len(windows) < MaxWindows
  BY DEF CreateWindow, IInv, TypeOK
<1> HIDE DEF w
<1>6. /\ windows' \in Seq(Window) /\ Len(windows') = Len(windows) + 1
      /\ \A i \in 1 .. Len(windows) : windows'[i] = windows[i]
      /\ windows'[Len(windows) + 1] = w
  BY <1>4, <1>5
<1>7. GoodQueue(queue', next_handle')
  BY <1>1, PostCreate DEF CreateWindow, IInv
<1>8. KnownWindows(windows', next_handle')
  <2> SUFFICES ASSUME NEW i \in 1 .. Len(windows')
               PROVE  windows'[i].handle < next_handle + 1 /\ windows'[i].parent < next_handle + 1
    BY DEF KnownWindows, CreateWindow
  <2>1. CASE i <= Len(windows)
    <3>1. i \in 1 .. Len(windows) /\ windows'[i] = windows[i] /\ windows[i] \in Window
      BY <2>1, <1>5, <1>6
    <3>2. windows[i].handle < next_handle /\ windows[i].parent < next_handle
      BY <3>1 DEF IInv, HandlesKnown, KnownWindows
    <3>3. windows[i].handle \in Nat /\ windows[i].parent \in Nat
      BY <3>1 DEF Window
    <3> QED BY <3>1, <3>2, <3>3, <1>1
  <2>2. CASE i > Len(windows)
    BY <2>2, <1>1, <1>4, <1>5, <1>6
  <2> QED BY <2>1, <2>2, <1>5
<1>9. TypeOK'
  <2>1. TypeOK
    BY DEF IInv
  <2>2. queue' \in Seq(AMessage) /\ Len(queue') <= QueueSize
    BY <1>7 DEF GoodQueue, QueueOK
  <2>3. next_handle' \in Nat \ {0} /\ focus' \in Nat
    BY <1>1 DEF CreateWindow
  <2>4. UNCHANGED <<capture, classes, timers, key_state>>
    BY DEF CreateWindow
  <2>5. windows' \in Seq(Window) /\ Len(windows') <= MaxWindows
    BY <1>5, <1>6, Sizes DEF CreateWindow
  <2> QED BY <2>1, <2>2, <2>3, <2>4, <2>5 DEF TypeOK
<1>10. \A i \in 1 .. MaxTimers : timers'[i].hwnd < next_handle'
  BY <1>1 DEF IInv, HandlesKnown, CreateWindow, TypeOK, Timer
<1>11. focus' < next_handle' /\ capture' < next_handle'
  BY <1>1 DEF IInv, HandlesKnown, CreateWindow, TypeOK
<1> QED
  BY <1>7, <1>8, <1>9, <1>10, <1>11 DEF IInv, HandlesKnown

LEMMA DestroyStep ==
  ASSUME IInv, NEW h \in Issued, CEWindowDestroy(h)
  PROVE  IInv'
<1>1. PICK i \in 1 .. Len(windows) :
        windows' = [j \in 1 .. Len(windows) - 1 |->
                      IF j < i THEN windows[j] ELSE windows[j + 1]]
  BY DEF CEWindowDestroy
<1>2. windows \in Seq(Window) /\ Len(windows) \in Nat
  BY DEF IInv, TypeOK
<1>3. \A j \in 1 .. Len(windows) - 1 :
         /\ windows'[j] = IF j < i THEN windows[j] ELSE windows[j + 1]
         /\ windows'[j] \in Window
  BY <1>1, <1>2
<1>4. windows' \in Seq(Window) /\ Len(windows') = Len(windows) - 1
  BY <1>1, <1>2, <1>3
<1>5. KnownWindows(windows', next_handle')
  BY <1>2, <1>3, <1>4 DEF CEWindowDestroy, IInv, HandlesKnown, KnownWindows
<1>6. /\ focus' \in {0, focus} /\ capture' \in {0, capture}
      /\ UNCHANGED <<next_handle, classes, queue, timers, key_state>>
  BY DEF CEWindowDestroy
<1>7. focus' < next_handle' /\ capture' < next_handle'
  BY <1>6 DEF IInv, TypeOK, HandlesKnown
<1>8. TypeOK'
  BY <1>2, <1>4, <1>6, Sizes DEF IInv, TypeOK
<1> QED
  BY <1>5, <1>6, <1>7, <1>8 DEF IInv, HandlesKnown

LEMMA ShowWindowStep ==
  ASSUME IInv, NEW h \in Issued, NEW show \in BOOLEAN, ShowWindow(h, show)
  PROVE  IInv'
<1>1. windows \in Seq(Window) /\ Len(windows) \in Nat
  BY DEF IInv, TypeOK
<1>2. windows' = [i \in 1 .. Len(windows) |->
                    IF windows[i].handle = h THEN [windows[i] EXCEPT !.visible = show]
                    ELSE windows[i]]
  BY DEF ShowWindow
<1>3. \A i \in 1 .. Len(windows) :
         /\ windows'[i] \in Window
         /\ windows'[i].handle = windows[i].handle
         /\ windows'[i].parent = windows[i].parent
  <2> SUFFICES ASSUME NEW i \in 1 .. Len(windows)
               PROVE  /\ windows'[i] \in Window
                      /\ windows'[i].handle = windows[i].handle
                      /\ windows'[i].parent = windows[i].parent
    OBVIOUS
  <2>1. windows[i] \in Window
    BY <1>1
  <2>2. [windows[i] EXCEPT !.visible = show] \in Window
    BY <2>1 DEF Window
  <2>3. /\ [windows[i] EXCEPT !.visible = show].handle = windows[i].handle
        /\ [windows[i] EXCEPT !.visible = show].parent = windows[i].parent
    BY <2>1 DEF Window
  <2>4. windows'[i] = IF windows[i].handle = h THEN [windows[i] EXCEPT !.visible = show]
                      ELSE windows[i]
    BY <1>2
  <2> QED BY <2>1, <2>2, <2>3, <2>4
<1>4. windows' \in Seq(Window) /\ Len(windows') = Len(windows)
  BY <1>1, <1>2, <1>3
<1>5. Message(h, "PAINT", 0) \in AMessage /\ Message(h, "PAINT", 0).hwnd < next_handle
      /\ Message(h, "PAINT", 0).message = "PAINT"
  BY MessageType, LiveHandles DEF MessageKinds
<1>6. GoodQueue(queue', next_handle)
  <2>1. GoodQueue(Fifo!Posted(queue, Message(h, "PAINT", 0)), next_handle)
    BY <1>5, PostOne DEF IInv, TypeOK
  <2> QED BY <2>1 DEF ShowWindow, IInv
<1>7. UNCHANGED <<next_handle, classes, inputVars, timers>>
  BY DEF ShowWindow
<1>8. TypeOK'
  BY <1>1, <1>4, <1>6, <1>7 DEF IInv, TypeOK, inputVars, GoodQueue, QueueOK
<1>9. HandlesKnown'
  BY <1>3, <1>4, <1>7 DEF IInv, HandlesKnown, KnownWindows, inputVars
<1> QED
  BY <1>6, <1>7, <1>8, <1>9 DEF IInv

\* A step that only adds good messages, and changes the input state within what is
\* known, keeps the invariant.
LEMMA QueueStep ==
  ASSUME IInv, GoodQueue(queue', next_handle), UNCHANGED <<windowVars, timers>>,
         focus' \in Nat, focus' < next_handle, capture' \in Nat, capture' < next_handle,
         key_state' \subseteq Keys
  PROVE  IInv'
<1>1. TypeOK'
  BY DEF IInv, TypeOK, windowVars, GoodQueue, QueueOK
<1>2. HandlesKnown'
  BY DEF IInv, HandlesKnown, windowVars
<1> QED
  BY <1>1, <1>2 DEF IInv, windowVars

LEMMA TimerTableStep ==
  ASSUME IInv, UNCHANGED <<windowVars, inputVars, queue>>,
         timers' \in [1 .. MaxTimers -> Timer],
         \A i \in 1 .. MaxTimers : timers'[i].hwnd < next_handle
  PROVE  IInv'
<1>1. TypeOK'
  BY DEF IInv, TypeOK, windowVars, inputVars
<1>2. HandlesKnown'
  BY DEF IInv, HandlesKnown, windowVars, inputVars
<1> QED
  BY <1>1, <1>2 DEF IInv, windowVars

LEMMA SetTimerStep ==
  ASSUME IInv, NEW h \in Issued \cup {0}, NEW id \in TimerIds, SetTimer(h, id)
  PROVE  IInv'
<1>1. PICK i \in 1 .. MaxTimers :
        timers' = [timers EXCEPT ![i] =
          [hwnd |-> h, identifier |-> IF id = 0 THEN i ELSE id, due |-> FALSE, active |-> TRUE]]
  BY DEF SetTimer
<1>2. id \in Nat /\ h \in Nat /\ h < next_handle /\ next_handle \in Nat
  BY TimerIdsAssumption, LiveHandles DEF IInv, TypeOK
<1>3. timers' \in [1 .. MaxTimers -> Timer]
  BY <1>1, <1>2, Sizes DEF IInv, TypeOK, Timer
<1>4. \A j \in 1 .. MaxTimers : timers'[j].hwnd < next_handle
  BY <1>1, <1>2 DEF IInv, TypeOK, HandlesKnown
<1> QED
  BY <1>3, <1>4, TimerTableStep DEF SetTimer

LEMMA KillTimerStep ==
  ASSUME IInv, NEW h \in Issued \cup {0}, NEW id \in TimerIds, KillTimer(h, id)
  PROVE  IInv'
<1>1. timers' \in [1 .. MaxTimers -> {timers[i] : i \in 1 .. MaxTimers}
                                      \cup {Killed(timers[i]) : i \in 1 .. MaxTimers}]
  BY DEF KillTimer
<1>2. \A i \in 1 .. MaxTimers :
         /\ timers[i] \in Timer /\ timers[i].hwnd < next_handle
         /\ Killed(timers[i]) \in Timer /\ Killed(timers[i]).hwnd < next_handle
  <2>1. ASSUME NEW t \in Timer PROVE Killed(t) \in Timer /\ Killed(t).hwnd = 0
    BY DEF Killed, NoTimer, Timer
  <2>2. next_handle > 0 /\ \A i \in 1 .. MaxTimers :
           timers[i] \in Timer /\ timers[i].hwnd < next_handle
    BY DEF IInv, TypeOK, HandlesKnown
  <2> QED BY <2>1, <2>2
<1>3. timers' \in [1 .. MaxTimers -> Timer]
  BY <1>1, <1>2
<1>4. \A j \in 1 .. MaxTimers : timers'[j].hwnd < next_handle
  BY <1>1, <1>2
<1> QED
  BY <1>3, <1>4, TimerTableStep DEF KillTimer

LEMMA ElapseStep ==
  ASSUME IInv, NEW i \in 1 .. MaxTimers, Elapse(i)
  PROVE  IInv'
<1>1. timers' = [timers EXCEPT ![i].due = TRUE]
  BY DEF Elapse
<1>2. timers' \in [1 .. MaxTimers -> Timer]
  BY <1>1 DEF IInv, TypeOK, Timer
<1>3. \A j \in 1 .. MaxTimers : timers'[j].hwnd < next_handle
  BY <1>1 DEF IInv, TypeOK, HandlesKnown, Timer
<1> QED
  BY <1>2, <1>3, TimerTableStep DEF Elapse

LEMMA FireTimersStep ==
  ASSUME IInv, FireTimers
  PROVE  IInv'
<1>1. IsFiniteSet(Due)
  <2>1. IsFiniteSet(1 .. MaxTimers) /\ Due \subseteq 1 .. MaxTimers
    BY Sizes, FS_Interval DEF Due
  <2> QED BY <2>1, FS_Subset
<1>2. Cardinality(Due) \in Nat
  BY <1>1, FS_CardinalityType
<1>3. PICK slot \in [1 .. Cardinality(Due) -> Due] :
        queue' = PostedAll(queue, [k \in 1 .. Cardinality(Due) |->
             Message(timers[slot[k]].hwnd, "TIMER", timers[slot[k]].identifier)])
  BY DEF FireTimers
<1> DEFINE n == Cardinality(Due)
           ms == [k \in 1 .. n |->
                    Message(timers[slot[k]].hwnd, "TIMER", timers[slot[k]].identifier)]
<1>4. \A k \in 1 .. n : /\ ms[k] \in AMessage
                        /\ ms[k].hwnd < next_handle
                        /\ ms[k].message = "TIMER"
  <2> SUFFICES ASSUME NEW k \in 1 .. n
               PROVE  ms[k] \in AMessage /\ ms[k].hwnd < next_handle /\ ms[k].message = "TIMER"
    OBVIOUS
  <2>1. slot[k] \in 1 .. MaxTimers
    BY DEF Due
  <2>2. /\ timers[slot[k]].hwnd \in Nat /\ timers[slot[k]].identifier \in Nat
        /\ timers[slot[k]].hwnd < next_handle
    BY <2>1 DEF IInv, TypeOK, Timer, HandlesKnown
  <2>3. "TIMER" \in MessageKinds
    BY DEF MessageKinds
  <2> QED BY <2>2, <2>3, MessageType
<1>5. n \in Nat
  BY <1>2
<1>6. ms \in Seq(AMessage) /\ Len(ms) = n
  <2> HIDE DEF n
  <2>1. ms = [k \in 1 .. n |-> ms[k]]
    OBVIOUS
  <2> HIDE DEF ms
  <2> QED BY <1>4, <1>5, <2>1
<1>7. GoodBatch(ms, next_handle)
  <2> HIDE DEF n, ms
  <2> QED BY <1>4, <1>5, <1>6 DEF GoodBatch, NamesBelow
<1>8. next_handle \in Nat
  BY DEF IInv, TypeOK
<1>9. GoodQueue(queue', next_handle)
  <2>1. queue' = PostedAll(queue, ms)
    BY <1>3
  <2> HIDE DEF n, ms
  <2> QED BY <2>1, <1>7, <1>8, PostBatch DEF IInv
<1>10. timers' \in [1 .. MaxTimers -> Timer]
       /\ \A j \in 1 .. MaxTimers : timers'[j].hwnd < next_handle
  <2>1. timers' = [j \in 1 .. MaxTimers |->
                     IF j \in Due THEN [timers[j] EXCEPT !.due = FALSE] ELSE timers[j]]
    BY DEF FireTimers
  <2>2. ASSUME NEW j \in 1 .. MaxTimers
        PROVE  timers[j] \in Timer /\ timers[j].hwnd < next_handle
    BY DEF IInv, TypeOK, HandlesKnown
  <2>3. ASSUME NEW j \in 1 .. MaxTimers
        PROVE  /\ [timers[j] EXCEPT !.due = FALSE] \in Timer
               /\ [timers[j] EXCEPT !.due = FALSE].hwnd = timers[j].hwnd
    BY <2>2 DEF Timer
  <2> QED BY <2>1, <2>2, <2>3
<1>11. UNCHANGED <<windowVars, inputVars>>
  BY DEF FireTimers
<1>12. TypeOK'
  <2>1. queue' \in Seq(AMessage) /\ Len(queue') <= QueueSize
    BY <1>9 DEF GoodQueue, QueueOK
  <2>2. UNCHANGED <<windows, next_handle, classes, focus, capture, key_state>>
    BY <1>11 DEF windowVars, inputVars
  <2>3. TypeOK
    BY DEF IInv
  <2> QED BY <2>1, <2>2, <2>3, <1>10 DEF TypeOK
<1>13. HandlesKnown'
  BY <1>10, <1>11, SMTT(40) DEF IInv, HandlesKnown, windowVars, inputVars
<1> QED
  BY <1>9, <1>11, <1>12, <1>13 DEF IInv, windowVars

LEMMA PointerDownStep ==
  ASSUME IInv, NEW x \in Points, PointerDown(x)
  PROVE  IInv'
<1>1. PICK target \in Handles \cup {0} :
        /\ capture' = IF target # 0 THEN target ELSE capture
        /\ focus' = IF target # 0 THEN target ELSE focus
        /\ queue' = Fifo!Posted(queue,
                      Message(IF target # 0 THEN target ELSE focus, "LBUTTONDOWN", 0))
  BY DEF PointerDown
<1>2. target \in Nat /\ target < next_handle /\ next_handle \in Nat
  BY LiveHandles DEF IInv, TypeOK
<1>3. /\ capture' \in Nat /\ capture' < next_handle
      /\ focus' \in Nat /\ focus' < next_handle
  BY <1>1, <1>2 DEF IInv, TypeOK, HandlesKnown
<1>4. queue' = Fifo!Posted(queue, Message(focus', "LBUTTONDOWN", 0))
  BY <1>1
<1>5. /\ Message(focus', "LBUTTONDOWN", 0) \in AMessage
      /\ Message(focus', "LBUTTONDOWN", 0).hwnd < next_handle
      /\ Message(focus', "LBUTTONDOWN", 0).message = "LBUTTONDOWN"
  BY <1>3, MessageType DEF MessageKinds
<1>6. GoodQueue(queue', next_handle)
  BY <1>2, <1>4, <1>5, PostOne DEF IInv
<1> QED
  BY <1>3, <1>6, QueueStep DEF PointerDown, IInv, TypeOK, HandlesKnown

LEMMA PointerUpStep ==
  ASSUME IInv, NEW x \in Points, PointerUp(x)
  PROVE  IInv'
<1>1. PICK target \in Handles \cup {0} :
        /\ queue' = PostedAll(queue,
             <<Message(IF target # 0 THEN target ELSE focus, "LBUTTONUP", 0)>>
               \o CommandOf(target))
        /\ capture' = IF target # 0 THEN 0 ELSE capture
  BY DEF PointerUp
<1> DEFINE to == IF target # 0 THEN target ELSE focus
           up == Message(to, "LBUTTONUP", 0)
           ms == <<up>> \o CommandOf(target)
<1>2. target \in Nat /\ target < next_handle /\ next_handle \in Nat \ {0}
  BY LiveHandles DEF IInv, TypeOK
<1>3. to \in Nat /\ to < next_handle
  BY <1>2 DEF IInv, TypeOK, HandlesKnown
<1>4. up \in AMessage /\ up.hwnd < next_handle /\ up.message = "LBUTTONUP"
  BY <1>3, MessageType DEF MessageKinds
<1>5. GoodBatch(ms, next_handle)
  <2>1. CASE CommandOf(target) = <<>>
    <3>1. ms = <<up>>
      BY <2>1, <1>4
    <3> HIDE DEF ms, up
    <3> QED BY <3>1, <1>4 DEF GoodBatch, NamesBelow
  <2>2. CASE CommandOf(target) # <<>>
    <3> DEFINE w == CEWindowFind(target)
               command == Message(w.parent, "COMMAND", target)
    <3>1. target # 0 /\ CommandOf(target) = <<command>>
      BY <2>2 DEF CommandOf
    <3>2. w.parent \in Nat /\ w.parent < next_handle
      BY <3>1, FoundWindow DEF Window
    <3>3. /\ command \in AMessage /\ command.hwnd < next_handle
          /\ command.message = "COMMAND" /\ command.param = target
      BY <3>2, <1>2, MessageType DEF MessageKinds
    <3>4. /\ ms \in Seq(AMessage) /\ Len(ms) = 2
          /\ ms[1] = up /\ ms[2] = command
      <4>1. ms = <<up>> \o <<command>>
        BY <3>1
      <4> HIDE DEF ms, up, command
      <4> QED BY <4>1, <1>4, <3>3
    <3>5. up = Message(command.param, "LBUTTONUP", 0)
      BY <3>1, <3>3
    <3> HIDE DEF ms, up, command
    <3> QED BY <3>3, <3>4, <3>5, <1>4 DEF GoodBatch, NamesBelow
  <2> QED BY <2>1, <2>2
<1>6. GoodQueue(queue', next_handle)
  BY <1>1, <1>2, <1>5, PostBatch DEF IInv
<1>7. capture' \in Nat /\ capture' < next_handle
  BY <1>1, <1>2 DEF IInv, TypeOK, HandlesKnown
<1> QED
  BY <1>6, <1>7, QueueStep DEF PointerUp, IInv, TypeOK, HandlesKnown
-----------------------------------------------------------------------------
\* A message for a known handle, neither a WM_CREATE nor a WM_COMMAND.
LEMMA PostKnown ==
  ASSUME IInv, NEW h \in Nat, h < next_handle, NEW m \in MessageKinds \ {"CREATE", "COMMAND"},
         NEW p \in Nat \cup Keys
  PROVE  GoodQueue(Fifo!Posted(queue, Message(h, m, p)), next_handle)
<1>1. /\ Message(h, m, p) \in AMessage /\ Message(h, m, p).hwnd = h
      /\ Message(h, m, p).message = m
  BY MessageType
<1>2. next_handle \in Nat /\ GoodQueue(queue, next_handle)
  BY DEF IInv, TypeOK
<1>3. Message(h, m, p).hwnd < next_handle
      /\ Message(h, m, p).message \notin {"CREATE", "COMMAND"}
  BY <1>1
<1> HIDE DEF Message
<1> QED BY <1>1, <1>2, <1>3, PostOne

LEMMA KeyStep ==
  ASSUME IInv, NEW k \in Keys, NEW down \in BOOLEAN, PostKey(k, down)
  PROVE  IInv'
<1> DEFINE kind == IF down THEN "KEYDOWN" ELSE "KEYUP"
<1>1. focus \in Nat /\ focus < next_handle /\ next_handle \in Nat
  BY DEF IInv, TypeOK, HandlesKnown
<1>2. kind \in MessageKinds /\ kind \notin {"CREATE", "COMMAND"}
  BY DEF MessageKinds
<1>3. queue' = Fifo!Posted(queue, Message(focus, kind, k))
  BY DEF PostKey
<1> HIDE DEF kind
<1>4. GoodQueue(queue', next_handle)
  BY <1>1, <1>2, <1>3, PostKnown
<1>5. key_state' \subseteq Keys
  BY DEF PostKey, IInv, TypeOK
<1> QED
  BY <1>1, <1>4, <1>5, QueueStep DEF PostKey, IInv, TypeOK, HandlesKnown

LEMMA CharacterStep ==
  ASSUME IInv, NEW k \in Keys, PostCharacter(k)
  PROVE  IInv'
<1>1. focus \in Nat /\ focus < next_handle /\ next_handle \in Nat
  BY DEF IInv, TypeOK, HandlesKnown
<1>2. queue' = Fifo!Posted(queue, Message(focus, "CHAR", k)) /\ "CHAR" \in MessageKinds
  BY DEF PostCharacter, MessageKinds
<1>3. GoodQueue(queue', next_handle)
  BY <1>1, <1>2, PostKnown
<1> QED
  BY <1>3, QueueStep DEF PostCharacter, inputVars, IInv, TypeOK, HandlesKnown

LEMMA GetMessageStep ==
  ASSUME IInv, GetMessage
  PROVE  IInv'
<1>1. next_handle \in Nat \ {0} /\ queue # <<>>
  BY DEF GetMessage, IInv, TypeOK
<1>2. GoodQueue(Tail(queue), next_handle)
  BY <1>1, TakeOldest DEF IInv
<1>3. GoodQueue(queue', next_handle)
  BY <1>2 DEF GetMessage
<1> QED
  BY <1>3, QueueStep DEF GetMessage, inputVars, IInv, TypeOK, HandlesKnown

LEMMA TranslateStep ==
  ASSUME IInv, NEW h \in Issued \cup {0}, NEW k \in Keys, TranslateMessage(h, k)
  PROVE  IInv'
<1>1. h \in Nat /\ h < next_handle /\ next_handle \in Nat
  BY LiveHandles DEF IInv, TypeOK
<1>2. queue' = Fifo!Posted(queue, Message(h, "CHAR", k)) /\ "CHAR" \in MessageKinds
  BY DEF TranslateMessage, MessageKinds
<1>3. GoodQueue(queue', next_handle)
  BY <1>1, <1>2, PostKnown
<1> QED
  BY <1>3, QueueStep DEF TranslateMessage, inputVars, IInv, TypeOK, HandlesKnown

\* InvalidateRect and PostMessage: a handle the guest was given, and any kind.
LEMMA GuestPostStep ==
  ASSUME IInv, NEW h \in Issued \cup {0}, InvalidateRect(h) \/ PostMessage(h)
  PROVE  IInv'
<1>1. h \in Nat /\ h < next_handle /\ next_handle \in Nat
  BY LiveHandles DEF IInv, TypeOK
<1>2. PICK kind \in {"PAINT", "USER"} : queue' = Fifo!Posted(queue, Message(h, kind, 0))
  BY DEF InvalidateRect, PostMessage
<1>3. kind \in MessageKinds
  BY DEF MessageKinds
<1>4. GoodQueue(queue', next_handle)
  BY <1>1, <1>2, <1>3, PostKnown
<1> QED
  BY <1>4, QueueStep DEF InvalidateRect, PostMessage, inputVars, IInv, TypeOK, HandlesKnown

LEMMA RegisterClassStep ==
  ASSUME IInv, NEW name \in ClassNames, CEWindowRegisterClass(name)
  PROVE  IInv'
<1>1. TypeOK'
  <2>1. IsFiniteSet(classes) /\ name \notin classes /\ classes' = classes \cup {name}
    BY DEF CEWindowRegisterClass, IInv, TypeOK
  <2>2. IsFiniteSet(classes') /\ Cardinality(classes') = Cardinality(classes) + 1
    BY <2>1, FS_AddElement
  <2>3. Cardinality(classes) \in Nat
    BY <2>1, FS_CardinalityType
  <2>4. Cardinality(classes') <= MaxClasses
    BY <2>2, <2>3, MaxClassesAssumption DEF CEWindowRegisterClass
  <2> QED BY <2>2, <2>4 DEF CEWindowRegisterClass, IInv, TypeOK, inputVars
<1>2. HandlesKnown'
  BY DEF CEWindowRegisterClass, IInv, HandlesKnown, inputVars
<1> QED
  BY <1>1, <1>2 DEF CEWindowRegisterClass, IInv

\* Every step keeps the inductive invariant.
LEMMA StepIInv == IInv /\ [Next]_vars => IInv'
<1> SUFFICES ASSUME IInv, [Next]_vars PROVE IInv'
  OBVIOUS
<1>1. CASE GuestStep
  <2>1. CASE \E name \in ClassNames : CEWindowRegisterClass(name)
    BY <2>1, RegisterClassStep
  <2>2. CASE \E name \in ClassNames, frame \in Frames, visible \in BOOLEAN,
                parent \in Issued \cup {0} : CreateWindow(name, frame, visible, parent)
    BY <2>2, CreateWindowStep
  <2>3. CASE \E h \in Issued : CEWindowDestroy(h)
    BY <2>3, DestroyStep
  <2>4. CASE \E h \in Issued, show \in BOOLEAN : ShowWindow(h, show)
    BY <2>4, ShowWindowStep
  <2>5. CASE \E h \in Issued : InvalidateRect(h)
    BY <2>5, GuestPostStep
  <2>6. CASE \E h \in Issued \cup {0} : PostMessage(h)
    BY <2>6, GuestPostStep
  <2>7. CASE GetMessage
    BY <2>7, GetMessageStep
  <2>8. CASE \E h \in Issued \cup {0}, k \in Keys : TranslateMessage(h, k)
    BY <2>8, TranslateStep
  <2>9. CASE \E h \in Issued \cup {0}, id \in TimerIds : SetTimer(h, id)
    BY <2>9, SetTimerStep
  <2>10. CASE \E h \in Issued \cup {0}, id \in TimerIds : KillTimer(h, id)
    BY <2>10, KillTimerStep
  <2> QED
    BY <1>1, <2>1, <2>2, <2>3, <2>4, <2>5, <2>6, <2>7, <2>8, <2>9, <2>10 DEF GuestStep
<1>2. CASE HostStep
  <2>1. CASE \E i \in 1 .. MaxTimers : Elapse(i)
    BY <2>1, ElapseStep
  <2>2. CASE FireTimers
    BY <2>2, FireTimersStep
  <2>3. CASE \E x \in Points : PointerDown(x)
    BY <2>3, PointerDownStep
  <2>4. CASE \E x \in Points : PointerUp(x)
    BY <2>4, PointerUpStep
  <2>5. CASE \E k \in Keys, down \in BOOLEAN : PostKey(k, down)
    BY <2>5, KeyStep
  <2>6. CASE \E k \in Keys : PostCharacter(k)
    BY <2>6, CharacterStep
  <2> QED
    BY <1>2, <2>1, <2>2, <2>3, <2>4, <2>5, <2>6 DEF HostStep
<1>3. CASE UNCHANGED vars
  BY <1>3 DEF vars, IInv, TypeOK, HandlesKnown
<1> QED
  BY <1>1, <1>2, <1>3 DEF Next

THEOREM Invariance == Spec => []IInv
<1> QED BY InitIInv, StepIInv, PTL DEF Spec

\* The tables of windows, classes and timers and the queue keep within their limits and
\* hold values of their kind.
THEOREM TypeCorrect == Spec => []TypeOK
<1>1. IInv => TypeOK
  BY DEF IInv
<1> QED BY Invariance, <1>1, PTL

\* No message for a window precedes its WM_CREATE in the queue.
THEOREM CreateFirst == Spec => []CreateLeads
<1>1. IInv => CreateLeads
  BY DEF IInv, GoodQueue, CreatesFirst, CreateLeads
<1> QED BY Invariance, <1>1, PTL

\* A WM_COMMAND is always right behind the release it reports.
THEOREM CommandBehindRelease == Spec => []CommandFollowsRelease
<1>1. IInv => CommandFollowsRelease
  BY DEF IInv, GoodQueue, CommandsBehind, CommandFollowsRelease
<1> QED BY Invariance, <1>1, PTL
-----------------------------------------------------------------------------
\* What each kind of step does to the set of live handles.
LEMMA CreateHandles ==
  ASSUME IInv, NEW name, NEW frame, NEW visible, NEW parent,
         CreateWindow(name, frame, visible, parent)
  PROVE  Handles' = Handles \cup {next_handle}
<1> DEFINE w == [handle |-> next_handle, parent |-> parent, class_name |-> name,
                 wndproc |-> name \in classes, visible |-> visible, enabled |-> TRUE,
                 x |-> frame.x + (IF parent \in Handles THEN CEWindowFind(parent).x ELSE 0),
                 width |-> frame.width]
<1>1. windows' = Append(windows, w) /\ windows \in Seq(Window) /\ w.handle = next_handle
  BY DEF CreateWindow, IInv, TypeOK
<1> HIDE DEF w
<1>2. /\ Len(windows') = Len(windows) + 1 /\ Len(windows) \in Nat
      /\ \A i \in 1 .. Len(windows) : windows'[i] = windows[i]
      /\ windows'[Len(windows) + 1] = w
  BY <1>1
<1>3. ASSUME NEW h \in Handles' PROVE h \in Handles \cup {next_handle}
  <2>1. PICK i \in 1 .. Len(windows') : h = windows'[i].handle
    BY <1>3 DEF Handles
  <2>2. CASE i = Len(windows) + 1
    BY <2>1, <2>2, <1>1, <1>2
  <2>3. CASE i \in 1 .. Len(windows)
    BY <2>1, <2>3, <1>2 DEF Handles
  <2> QED BY <1>2, <2>2, <2>3
<1>4. ASSUME NEW h \in Handles PROVE h \in Handles'
  <2>1. PICK i \in 1 .. Len(windows) : h = windows[i].handle
    BY DEF Handles
  <2>2. i \in 1 .. Len(windows') /\ windows'[i] = windows[i]
    BY <1>2
  <2> QED BY <2>1, <2>2 DEF Handles
<1>5. next_handle \in Handles'
  <2>1. Len(windows) + 1 \in 1 .. Len(windows')
    BY <1>2
  <2> QED BY <2>1, <1>1, <1>2 DEF Handles
<1> QED BY <1>3, <1>4, <1>5

LEMMA DestroyHandles ==
  ASSUME IInv, NEW h, CEWindowDestroy(h)
  PROVE  Handles' \subseteq Handles /\ Handles \ {h} \subseteq Handles'
<1>1. PICK i \in 1 .. Len(windows) :
        /\ windows[i].handle = h
        /\ windows' = [j \in 1 .. Len(windows) - 1 |->
                         IF j < i THEN windows[j] ELSE windows[j + 1]]
  BY DEF CEWindowDestroy
<1>2. Len(windows) \in Nat
  BY DEF IInv, TypeOK
<1>3. /\ Len(windows') = Len(windows) - 1
      /\ \A j \in 1 .. Len(windows) - 1 :
            windows'[j] = IF j < i THEN windows[j] ELSE windows[j + 1]
  BY <1>1, <1>2
<1>4. ASSUME NEW g \in Handles' PROVE g \in Handles
  <2>1. PICK j \in 1 .. Len(windows) - 1 : g = windows'[j].handle
    BY <1>3 DEF Handles
  <2>2. PICK k \in 1 .. Len(windows) : windows'[j] = windows[k]
    <3>1. j \in 1 .. Len(windows) /\ j + 1 \in 1 .. Len(windows)
      BY <1>2
    <3> QED BY <3>1, <1>3
  <2> QED BY <2>1, <2>2 DEF Handles
<1>5. ASSUME NEW g \in Handles \ {h} PROVE g \in Handles'
  <2>1. PICK k \in 1 .. Len(windows) : g = windows[k].handle
    BY DEF Handles
  <2>2. CASE k < i
    <3>1. k \in 1 .. Len(windows) - 1 /\ windows'[k] = windows[k]
      BY <2>2, <1>2, <1>3
    <3> QED BY <2>1, <3>1, <1>3 DEF Handles
  <2>3. CASE k > i
    <3>1. k - 1 \in 1 .. Len(windows) - 1 /\ windows'[k - 1] = windows[k]
      BY <2>3, <1>2, <1>3
    <3> QED BY <2>1, <3>1, <1>3 DEF Handles
  <2>4. k # i
    BY <1>1, <2>1, <1>5
  <2> QED BY <2>2, <2>3, <2>4, <1>2
<1> QED BY <1>4, <1>5

LEMMA ShowHandles ==
  ASSUME IInv, NEW h, NEW show \in BOOLEAN, ShowWindow(h, show)
  PROVE  Handles' = Handles
<1>1. windows \in Seq(Window) /\ Len(windows) \in Nat
  BY DEF IInv, TypeOK
<1>2. windows' = [i \in 1 .. Len(windows) |->
                    IF windows[i].handle = h THEN [windows[i] EXCEPT !.visible = show]
                    ELSE windows[i]]
  BY DEF ShowWindow
<1>3. Len(windows') = Len(windows)
  BY <1>1, <1>2
<1>4. \A i \in 1 .. Len(windows) : windows'[i].handle = windows[i].handle
  <2> SUFFICES ASSUME NEW i \in 1 .. Len(windows)
               PROVE  windows'[i].handle = windows[i].handle
    OBVIOUS
  <2>1. windows[i] \in Window
    BY <1>1
  <2>2. [windows[i] EXCEPT !.visible = show].handle = windows[i].handle
    BY <2>1 DEF Window
  <2> QED BY <1>2, <2>2
<1> QED BY <1>3, <1>4 DEF Handles

\* A step creates one window, destroys one, or leaves the live handles alone.
LEMMA HandleSteps ==
  ASSUME IInv, [Next]_vars
  PROVE  \/ Handles' = Handles
         \/ Handles' = Handles \cup {next_handle}
         \/ \E h \in Issued : /\ CEWindowDestroy(h)
                              /\ Handles' \subseteq Handles /\ Handles \ {h} \subseteq Handles'
<1>1. CASE \E name \in ClassNames, frame \in Frames, visible \in BOOLEAN,
              parent \in Issued \cup {0} : CreateWindow(name, frame, visible, parent)
  BY <1>1, CreateHandles DEF CreateWindow
<1>2. CASE \E h \in Issued : CEWindowDestroy(h)
  BY <1>2, DestroyHandles
<1>3. CASE \E h \in Issued, show \in BOOLEAN : ShowWindow(h, show)
  BY <1>3, ShowHandles
<1>4. CASE UNCHANGED windows
  BY <1>4 DEF Handles
<1> QED
  BY <1>1, <1>2, <1>3, <1>4
     DEF Next, GuestStep, HostStep, CEWindowRegisterClass, InvalidateRect, PostMessage,
         GetMessage, TranslateMessage, SetTimer, KillTimer, Elapse, FireTimers, PointerDown,
         PointerUp, PostKey, PostCharacter, windowVars, vars

\* A step gives out one handle or none.
LEMMA HandleCount ==
  ASSUME [Next]_vars
  PROVE  next_handle' = next_handle \/ next_handle' = next_handle + 1
<1>1. CASE \E name \in ClassNames, frame \in Frames, visible \in BOOLEAN,
              parent \in Issued \cup {0} : CreateWindow(name, frame, visible, parent)
  BY <1>1 DEF CreateWindow
<1>2. CASE \E h \in Issued : CEWindowDestroy(h)
  BY <1>2 DEF CEWindowDestroy
<1>3. CASE \E h \in Issued, show \in BOOLEAN : ShowWindow(h, show)
  BY <1>3 DEF ShowWindow
<1>4. CASE UNCHANGED next_handle
  BY <1>4
<1> QED
  BY <1>1, <1>2, <1>3, <1>4
     DEF Next, GuestStep, HostStep, CEWindowRegisterClass, InvalidateRect, PostMessage,
         GetMessage, TranslateMessage, SetTimer, KillTimer, Elapse, FireTimers, PointerDown,
         PointerUp, PostKey, PostCharacter, windowVars, vars

\* Handles are given out once.
THEOREM HandlesNeverReused == Spec => HandleNeverReused
<1>1. IInv /\ [Next]_vars =>
        [\A h \in Issued : h \in Issued' /\ (h \notin Handles => h \notin Handles')]_vars
  <2> SUFFICES ASSUME IInv, [Next]_vars, NEW h \in Issued
               PROVE  h \in Issued' /\ (h \notin Handles => h \notin Handles')
    OBVIOUS
  <2>1. next_handle \in Nat /\ h \in Nat \ {0} /\ h < next_handle
    BY LiveHandles DEF IInv, TypeOK
  <2>2. next_handle' = next_handle \/ next_handle' = next_handle + 1
    BY HandleCount
  <2>3. h \in Issued'
    BY <2>1, <2>2 DEF Issued
  <2>4. h \notin Handles => h \notin Handles'
    BY <2>1, HandleSteps
  <2> QED BY <2>3, <2>4
<1> QED BY <1>1, Invariance, PTL DEF Spec, HandleNeverReused

\* Focus and capture name live windows only.
THEOREM FocusAndCaptureLive == Spec => []FocusCaptureLive
<1>1. Init => FocusCaptureLive
  BY DEF Init, FocusCaptureLive
<1>2. IInv /\ FocusCaptureLive /\ [Next]_vars => FocusCaptureLive'
  <2> SUFFICES ASSUME IInv, FocusCaptureLive, [Next]_vars PROVE FocusCaptureLive'
    OBVIOUS
  <2>1. CASE \E h \in Issued : CEWindowDestroy(h)
    <3>1. PICK h \in Issued : CEWindowDestroy(h)
      BY <2>1
    <3>2. Handles \ {h} \subseteq Handles'
      BY <3>1, DestroyHandles
    <3> QED BY <3>1, <3>2 DEF CEWindowDestroy, FocusCaptureLive
  <2>2. CASE \E x \in Points : PointerDown(x) \/ PointerUp(x)
    <3>1. {focus', capture'} \subseteq Handles \cup {0}
      BY <2>2 DEF PointerDown, PointerUp, FocusCaptureLive
    <3>2. Handles' = Handles
      BY <2>2 DEF PointerDown, PointerUp, windowVars, Handles
    <3> QED BY <3>1, <3>2 DEF FocusCaptureLive
  <2>3. CASE \E name \in ClassNames, frame \in Frames, visible \in BOOLEAN,
                parent \in Issued \cup {0} : CreateWindow(name, frame, visible, parent)
    <3>1. focus' = next_handle /\ capture' = capture
      BY <2>3 DEF CreateWindow
    <3>2. Handles' = Handles \cup {next_handle}
      BY <2>3, CreateHandles
    <3> QED BY <3>1, <3>2 DEF FocusCaptureLive
  <2>4. CASE UNCHANGED <<focus, capture>> /\ Handles \subseteq Handles'
    BY <2>4 DEF FocusCaptureLive
  <2>5. CASE \E h \in Issued, show \in BOOLEAN : ShowWindow(h, show)
    <3>1. Handles' = Handles
      BY <2>5, ShowHandles
    <3>2. UNCHANGED <<focus, capture>>
      BY <2>5 DEF ShowWindow, inputVars
    <3> QED BY <3>1, <3>2, <2>4
  <2>6. CASE UNCHANGED <<windows, focus, capture>>
    <3>1. Handles' = Handles /\ UNCHANGED <<focus, capture>>
      BY <2>6 DEF Handles
    <3> QED BY <3>1, <2>4
  <2> QED
    BY <2>1, <2>2, <2>3, <2>5, <2>6
       DEF Next, GuestStep, HostStep, CEWindowRegisterClass, InvalidateRect, PostMessage,
           GetMessage, TranslateMessage, SetTimer, KillTimer, Elapse, FireTimers, PostKey,
           PostCharacter, windowVars, inputVars, vars
<1> QED BY <1>1, <1>2, Invariance, PTL DEF Spec
-----------------------------------------------------------------------------
\* What a step appends to the queue.
LEMMA NewPosted ==
  ASSUME IInv, NEW m \in AMessage, queue' = Fifo!Posted(queue, m)
  PROVE  \A n \in NewMessages : n = m
<1>1. queue \in Seq(AMessage) /\ Len(queue) <= QueueSize /\ Len(queue) \in Nat
  BY DEF IInv, TypeOK
<1>2. /\ Len(queue') \in Nat
      /\ \A k \in 1 .. Len(queue') : k > Len(queue) => queue'[k] = m
  <2> DEFINE p == Fifo!Posted(queue, m)
  <2>1. QueueOK(p) /\ \A k \in 1 .. Len(p) : k > Len(queue) => p[k] = m
    BY <1>1, PostedShape
  <2>2. queue' = p
    OBVIOUS
  <2> HIDE DEF p
  <2> QED BY <2>1, <2>2 DEF QueueOK
<1> QED BY <1>1, <1>2 DEF NewMessages

LEMMA NewPostedAll ==
  ASSUME IInv, NEW ms \in Seq(AMessage), queue' = PostedAll(queue, ms)
  PROVE  /\ \A n \in NewMessages : \E k \in 1 .. Len(ms) : n = ms[k]
         /\ \/ Len(queue') >= QueueSize
            \/ \A k \in 1 .. Len(ms) : ms[k] \in NewMessages
<1>1. queue \in Seq(AMessage) /\ Len(queue) <= QueueSize /\ Len(queue) \in Nat /\ Len(ms) \in Nat
  BY DEF IInv, TypeOK
<1>2. /\ Len(queue') \in Nat
      /\ Len(queue') <= Len(queue) + Len(ms)
      /\ \A k \in 1 .. Len(queue') : k > Len(queue) => queue'[k] = ms[k - Len(queue)]
  BY <1>1, PostedAllShape DEF QueueOK
<1>3. ASSUME NEW n \in NewMessages PROVE \E k \in 1 .. Len(ms) : n = ms[k]
  <2>1. PICK k \in Len(queue) + 1 .. Len(queue') : n = queue'[k]
    BY DEF NewMessages
  <2>2. k - Len(queue) \in 1 .. Len(ms) /\ n = ms[k - Len(queue)]
    BY <1>1, <1>2, <2>1
  <2> QED BY <2>2
<1>4. Len(queue') >= QueueSize \/ Len(queue') = Len(queue) + Len(ms)
  <2> DEFINE n == IF Len(queue) + Len(ms) <= QueueSize THEN Len(queue) + Len(ms) ELSE QueueSize
  <2>1. n \in Nat /\ n <= Len(queue) + Len(ms)
    BY <1>1, Sizes
  <2>2. queue' = SubSeq(queue \o ms, 1, n)
    BY DEF PostedAll
  <2>3. (queue \o ms) \in Seq(AMessage) /\ Len(queue \o ms) = Len(queue) + Len(ms)
    BY <1>1
  <2>4. Len(queue') = n
    <3> HIDE DEF n
    <3> QED BY <2>1, <2>2, <2>3
  <2> QED BY <2>4, <1>1, Sizes
<1>5. ASSUME Len(queue') = Len(queue) + Len(ms), NEW k \in 1 .. Len(ms)
      PROVE  ms[k] \in NewMessages
  <2>1. Len(queue) + k \in Len(queue) + 1 .. Len(queue') /\ queue'[Len(queue) + k] = ms[k]
    BY <1>1, <1>2, <1>5
  <2> QED BY <2>1 DEF NewMessages
<1> QED BY <1>3, <1>4, <1>5

LEMMA NothingNew ==
  ASSUME IInv, queue' = queue \/ (queue # <<>> /\ queue' = Tail(queue))
  PROVE  NewMessages = {}
<1>1. queue \in Seq(AMessage) /\ Len(queue) \in Nat
  BY DEF IInv, TypeOK
<1>2. Len(queue') \in Nat /\ Len(queue') <= Len(queue)
  BY <1>1
<1> QED BY <1>1, <1>2 DEF NewMessages
-----------------------------------------------------------------------------
\* Time and fires neither arm nor disarm a slot.
LEMMA NamesKept ==
  ASSUME IInv, (\E i \in 1 .. MaxTimers : Elapse(i)) \/ FireTimers
  PROVE  \A j \in 1 .. MaxTimers : /\ timers'[j].active = timers[j].active
                                   /\ timers'[j].identifier = timers[j].identifier
                                   /\ timers'[j].hwnd = timers[j].hwnd
<1>1. \A j \in 1 .. MaxTimers : timers[j] \in Timer
  BY DEF IInv, TypeOK
<1>2. ASSUME NEW i \in 1 .. MaxTimers, Elapse(i)
      PROVE  \A j \in 1 .. MaxTimers : /\ timers'[j].active = timers[j].active
                                       /\ timers'[j].identifier = timers[j].identifier
                                       /\ timers'[j].hwnd = timers[j].hwnd
  BY <1>2 DEF Elapse, IInv, TypeOK, Timer
<1>3. CASE FireTimers
  BY <1>1, <1>3 DEF FireTimers, Timer
<1> QED BY <1>2, <1>3

\* An armed timer has an identifier, its slot's number when the guest gave none: that is
\* why SetTimer, asked for a number, never takes the slot of another timer.
TimersInv == \A i \in 1 .. MaxTimers : timers[i].active => timers[i].identifier # 0

LEMMA TimersInvStep ==
  ASSUME IInv, TimersInv, [Next]_vars
  PROVE  TimersInv'
<1>1. timers \in [1 .. MaxTimers -> Timer] /\ MaxTimers \in Nat
  BY Sizes DEF IInv, TypeOK
<1>2. ASSUME NEW h, NEW id \in TimerIds, SetTimer(h, id) PROVE TimersInv'
  <2>1. PICK i \in 1 .. MaxTimers : timers' = [timers EXCEPT ![i] =
             [hwnd |-> h, identifier |-> IF id = 0 THEN i ELSE id, due |-> FALSE,
              active |-> TRUE]]
    BY <1>2 DEF SetTimer
  <2>2. /\ timers'[i].identifier # 0
        /\ \A j \in 1 .. MaxTimers : j # i => timers'[j] = timers[j]
    BY <1>1, <2>1
  <2> QED BY <2>2 DEF TimersInv
<1>3. ASSUME NEW h, NEW id, KillTimer(h, id) PROVE TimersInv'
  BY <1>3 DEF KillTimer, TimersInv, Killed, NoTimer
<1>4. CASE (\E i \in 1 .. MaxTimers : Elapse(i)) \/ FireTimers
  BY <1>4, NamesKept DEF TimersInv
<1>5. CASE UNCHANGED timers
  BY <1>5 DEF TimersInv
<1> QED
  BY <1>2, <1>3, <1>4, <1>5
     DEF Next, GuestStep, HostStep, CEWindowRegisterClass, CreateWindow, CEWindowDestroy,
         ShowWindow, InvalidateRect, PostMessage, GetMessage, TranslateMessage, PointerDown,
         PointerUp, PostKey, PostCharacter, vars

LEMMA TimersInvAlways == Spec => []TimersInv
<1>1. Init => TimersInv
  BY DEF Init, TimersInv, NoTimer
<1>2. IInv /\ TimersInv /\ [Next]_vars => TimersInv'
  BY TimersInvStep
<1> QED BY <1>1, <1>2, Invariance, PTL DEF Spec

\* What is armed after a step.
LEMMA ArmedAfter ==
  Armed' = {<<timers'[j].hwnd, timers'[j].identifier>> : j \in {k \in 1 .. MaxTimers : timers'[k].active}}
  BY DEF Armed

LEMMA SetArmed ==
  ASSUME IInv, TimersInv, NEW h \in Nat, NEW id \in TimerIds, SetTimer(h, id)
  PROVE  \E n \in IF id = 0 THEN 1 .. MaxTimers ELSE {id} :
            Armed' = Armed \cup {<<h, n>>} /\ OthersKept(h, n)
<1>1. timers \in [1 .. MaxTimers -> Timer] /\ MaxTimers \in Nat
  BY Sizes DEF IInv, TypeOK
<1>2. PICK i \in 1 .. MaxTimers :
        /\ ~timers[i].active \/ (timers[i].hwnd = h /\ timers[i].identifier = id)
        /\ timers' = [timers EXCEPT ![i] =
             [hwnd |-> h, identifier |-> IF id = 0 THEN i ELSE id, due |-> FALSE,
              active |-> TRUE]]
  BY DEF SetTimer
<1> DEFINE number == IF id = 0 THEN i ELSE id
<1>3. /\ timers'[i].hwnd = h /\ timers'[i].identifier = number /\ timers'[i].active = TRUE
      /\ \A j \in 1 .. MaxTimers : j # i => timers'[j] = timers[j]
  BY <1>1, <1>2
<1>4. timers[i].active => <<timers[i].hwnd, timers[i].identifier>> = <<h, number>>
  BY <1>2 DEF TimersInv
<1>5. number \in IF id = 0 THEN 1 .. MaxTimers ELSE {id}
  OBVIOUS
<1> HIDE DEF number
<1>6. Armed' = Armed \cup {<<h, number>>}
  <2>1. ASSUME NEW t \in Armed' PROVE t \in Armed \cup {<<h, number>>}
    <3>1. PICK j \in 1 .. MaxTimers : timers'[j].active /\ t = <<timers'[j].hwnd, timers'[j].identifier>>
      BY <2>1, ArmedAfter
    <3> QED BY <3>1, <1>3 DEF Armed
  <2>2. ASSUME NEW t \in Armed PROVE t \in Armed'
    <3>1. PICK j \in 1 .. MaxTimers : timers[j].active /\ t = <<timers[j].hwnd, timers[j].identifier>>
      BY <2>2 DEF Armed
    <3> QED BY <3>1, <1>3, <1>4, ArmedAfter
  <2>3. <<h, number>> \in Armed'
    BY <1>3, ArmedAfter
  <2> QED BY <2>1, <2>2, <2>3
<1>7. OthersKept(h, number)
  BY <1>3, <1>4 DEF OthersKept
<1> QED BY <1>5, <1>6, <1>7

LEMMA KillArmed ==
  ASSUME NEW h, NEW id, KillTimer(h, id)
  PROVE  Armed' = Armed \ {<<h, id>>} /\ OthersKept(h, id)
<1>1. \A i \in 1 .. MaxTimers :
        IF timers[i].active /\ timers[i].hwnd = h /\ timers[i].identifier = id
        THEN ~timers'[i].active ELSE timers'[i] = timers[i]
  BY DEF KillTimer, Killed, NoTimer
<1>2. Armed' = Armed \ {<<h, id>>}
  <2>1. ASSUME NEW t \in Armed' PROVE t \in Armed \ {<<h, id>>}
    <3>1. PICK j \in 1 .. MaxTimers : timers'[j].active /\ t = <<timers'[j].hwnd, timers'[j].identifier>>
      BY <2>1, ArmedAfter
    <3>2. timers'[j] = timers[j] /\ ~(timers[j].hwnd = h /\ timers[j].identifier = id)
      BY <3>1, <1>1
    <3> QED BY <3>1, <3>2 DEF Armed
  <2>2. ASSUME NEW t \in Armed \ {<<h, id>>} PROVE t \in Armed'
    <3>1. PICK j \in 1 .. MaxTimers : timers[j].active /\ t = <<timers[j].hwnd, timers[j].identifier>>
      BY <2>2 DEF Armed
    <3>2. timers'[j] = timers[j]
      BY <2>2, <3>1, <1>1
    <3> QED BY <3>1, <3>2, ArmedAfter
  <2> QED BY <2>1, <2>2
<1>3. OthersKept(h, id)
  BY <1>1 DEF OthersKept
<1> QED BY <1>2, <1>3

\* SetTimer arms the timer it names and KillTimer disarms the one it names in all its
\* slots; no other timer is touched (CEKernel.c 344 and 345).
THEOREM TimersStayIndependent == Spec => TimersIndependent
<1> DEFINE Independent ==
        timers' # timers =>
          \/ \E h \in Issued \cup {0}, id \in TimerIds :
                \/ /\ SetTimer(h, id)
                   /\ \E n \in IF id = 0 THEN 1 .. MaxTimers ELSE {id} :
                         Armed' = Armed \cup {<<h, n>>} /\ OthersKept(h, n)
                \/ KillTimer(h, id) /\ Armed' = Armed \ {<<h, id>>} /\ OthersKept(h, id)
          \/ ((\E i \in 1 .. MaxTimers : Elapse(i)) \/ FireTimers) /\ Armed' = Armed
<1>1. IInv /\ TimersInv /\ [Next]_vars => [Independent]_vars
  <2> SUFFICES ASSUME IInv, TimersInv, [Next]_vars, timers' # timers
               PROVE  Independent
    OBVIOUS
  <2>1. ASSUME NEW h \in Issued \cup {0}, NEW id \in TimerIds, SetTimer(h, id)
        PROVE  Independent
    <3>1. h \in Nat
      BY LiveHandles
    <3>2. \E n \in IF id = 0 THEN 1 .. MaxTimers ELSE {id} :
             Armed' = Armed \cup {<<h, n>>} /\ OthersKept(h, n)
      BY <2>1, <3>1, SetArmed
    <3> QED BY <2>1, <3>2
  <2>2. ASSUME NEW h \in Issued \cup {0}, NEW id \in TimerIds, KillTimer(h, id)
        PROVE  Independent
    BY <2>2, KillArmed
  <2>3. CASE (\E i \in 1 .. MaxTimers : Elapse(i)) \/ FireTimers
    <3>1. Armed' = Armed
      BY <2>3, NamesKept, ArmedAfter DEF Armed
    <3> QED BY <2>3, <3>1
  <2> HIDE DEF Independent
  <2> QED
    BY <2>1, <2>2, <2>3
       DEF Next, GuestStep, HostStep, CEWindowRegisterClass, CreateWindow, CEWindowDestroy,
           ShowWindow, InvalidateRect, PostMessage, GetMessage, TranslateMessage, PointerDown,
           PointerUp, PostKey, PostCharacter, vars
<1> QED BY <1>1, Invariance, TimersInvAlways, PTL DEF Spec, TimersIndependent
-----------------------------------------------------------------------------
\* A step that appends m, for one message m.
Appends(m) == queue' = Fifo!Posted(queue, m)

\* Every step appends nothing, one message that is neither a timer's nor the pointer's, the
\* messages of the timers that are due, or those of a pointer event.
LEMMA WhatIsNew ==
  ASSUME IInv, [Next]_vars
  PROVE  \/ \A m \in NewMessages : m.message \notin PointerKinds \cup {"TIMER"}
         \/ FireTimers
         \/ \E x \in Points : PointerDown(x) \/ PointerUp(x)
<1>1. queue \in Seq(AMessage) /\ Len(queue) <= QueueSize /\ next_handle \in Nat \ {0}
      /\ focus \in Nat
  BY DEF IInv, TypeOK
<1>2. ASSUME NEW h \in Nat, NEW kind \in MessageKinds \ (PointerKinds \cup {"TIMER"}),
             NEW p \in Nat \cup Keys, Appends(Message(h, kind, p))
      PROVE  \A m \in NewMessages : m.message \notin PointerKinds \cup {"TIMER"}
  <2>1. Message(h, kind, p) \in AMessage /\ Message(h, kind, p).message = kind
    BY MessageType
  <2> QED BY <1>2, <2>1, NewPosted DEF Appends
<1>3. {"CREATE", "PAINT", "USER", "CHAR", "KEYDOWN", "KEYUP"} \subseteq
         MessageKinds \ (PointerKinds \cup {"TIMER"})
  BY DEF MessageKinds, PointerKinds
<1>4. Issued \cup {0} \subseteq Nat
  BY LiveHandles
<1>5. CASE UNCHANGED queue
  BY <1>5, NothingNew
<1>6. CASE GetMessage
  <2>1. queue # <<>> /\ queue' = Tail(queue)
    BY <1>6 DEF GetMessage
  <2> QED BY <2>1, NothingNew
<1>7. CASE \E name \in ClassNames, frame \in Frames, visible \in BOOLEAN,
              parent \in Issued \cup {0} : CreateWindow(name, frame, visible, parent)
  <2>1. Appends(Message(next_handle, "CREATE", 0))
    BY <1>7 DEF CreateWindow, Appends
  <2> QED BY <2>1, <1>1, <1>2, <1>3
<1>8. CASE \E h \in Issued, show \in BOOLEAN : ShowWindow(h, show)
  <2>1. PICK h \in Issued : UNCHANGED queue \/ Appends(Message(h, "PAINT", 0))
    BY <1>8 DEF ShowWindow, Appends
  <2> QED BY <2>1, <1>2, <1>3, <1>4, <1>5
<1>9. CASE \E h \in Issued \cup {0} : InvalidateRect(h) \/ PostMessage(h)
  <2>1. PICK h \in Issued \cup {0} : Appends(Message(h, "PAINT", 0)) \/ Appends(Message(h, "USER", 0))
    BY <1>9 DEF InvalidateRect, PostMessage, Appends
  <2> QED BY <2>1, <1>2, <1>3, <1>4
<1>10. CASE \E h \in Issued \cup {0}, k \in Keys : TranslateMessage(h, k)
  <2>1. PICK h \in Issued \cup {0}, k \in Keys : Appends(Message(h, "CHAR", k))
    BY <1>10 DEF TranslateMessage, Appends
  <2> QED BY <2>1, <1>2, <1>3, <1>4
<1>11. CASE \E k \in Keys, down \in BOOLEAN : PostKey(k, down)
  <2>1. PICK k \in Keys : Appends(Message(focus, "KEYDOWN", k)) \/ Appends(Message(focus, "KEYUP", k))
    BY <1>11 DEF PostKey, Appends
  <2> QED BY <2>1, <1>1, <1>2, <1>3
<1>12. CASE \E k \in Keys : PostCharacter(k)
  <2>1. PICK k \in Keys : Appends(Message(focus, "CHAR", k))
    BY <1>12 DEF PostCharacter, Appends
  <2> QED BY <2>1, <1>1, <1>2, <1>3
<1> QED
  BY <1>5, <1>6, <1>7, <1>8, <1>9, <1>10, <1>11, <1>12
     DEF Next, GuestStep, HostStep, CEWindowRegisterClass, CEWindowDestroy, SetTimer, KillTimer,
         Elapse, vars

\* The messages of FireTimers are those of armed timers.
LEMMA FiredArmed ==
  ASSUME IInv, FireTimers
  PROVE  \A m \in NewMessages : m.message = "TIMER" /\ <<m.hwnd, m.param>> \in Armed
<1>1. Cardinality(Due) \in Nat
  <2>1. IsFiniteSet(1 .. MaxTimers) /\ Due \subseteq 1 .. MaxTimers
    BY Sizes, FS_Interval DEF Due
  <2>2. IsFiniteSet(Due)
    BY <2>1, FS_Subset
  <2> QED BY <2>2, FS_CardinalityType
<1>2. PICK slot \in [1 .. Cardinality(Due) -> Due] :
        queue' = PostedAll(queue, [k \in 1 .. Cardinality(Due) |->
             Message(timers[slot[k]].hwnd, "TIMER", timers[slot[k]].identifier)])
  BY DEF FireTimers
<1> DEFINE n == Cardinality(Due)
           ms == [k \in 1 .. n |->
                    Message(timers[slot[k]].hwnd, "TIMER", timers[slot[k]].identifier)]
<1>3. \A k \in 1 .. n : /\ ms[k] \in AMessage
                        /\ ms[k].message = "TIMER"
                        /\ <<ms[k].hwnd, ms[k].param>> \in Armed
  <2> SUFFICES ASSUME NEW k \in 1 .. n
               PROVE  /\ ms[k] \in AMessage /\ ms[k].message = "TIMER"
                      /\ <<ms[k].hwnd, ms[k].param>> \in Armed
    OBVIOUS
  <2>1. slot[k] \in 1 .. MaxTimers /\ timers[slot[k]].active
    BY DEF Due
  <2>2. timers[slot[k]].hwnd \in Nat /\ timers[slot[k]].identifier \in Nat
    BY <2>1 DEF IInv, TypeOK, Timer
  <2>3. "TIMER" \in MessageKinds
    BY DEF MessageKinds
  <2>4. <<timers[slot[k]].hwnd, timers[slot[k]].identifier>> \in Armed
    BY <2>1 DEF Armed
  <2> QED BY <2>2, <2>3, <2>4, MessageType
<1>0. n \in Nat
  BY <1>1
<1>4. ms \in Seq(AMessage) /\ Len(ms) = n
  <2> HIDE DEF n
  <2>1. ms = [k \in 1 .. n |-> ms[k]]
    OBVIOUS
  <2>2. \A k \in 1 .. n : ms[k] \in AMessage
    BY <1>3
  <2> HIDE DEF ms
  <2> QED BY <1>0, <2>1, <2>2
<1>5. queue' = PostedAll(queue, ms)
  BY <1>2
<1> HIDE DEF n, ms
<1> QED BY <1>3, <1>4, <1>5, NewPostedAll

\* A press appends one message and a release its message and a button's command.
LEMMA PressNew ==
  ASSUME IInv, NEW x \in Points, PointerDown(x)
  PROVE  \E target \in Handles \cup {0} :
           /\ IsPointerTarget(x, target)
           /\ capture' = IF target # 0 THEN target ELSE capture
           /\ \A m \in NewMessages :
                 m = Message(IF target # 0 THEN target ELSE focus, "LBUTTONDOWN", 0)
<1>1. PICK target \in Handles \cup {0} :
        /\ IsPointerTarget(x, target)
        /\ capture' = IF target # 0 THEN target ELSE capture
        /\ queue' = Fifo!Posted(queue,
                      Message(IF target # 0 THEN target ELSE focus, "LBUTTONDOWN", 0))
  BY DEF PointerDown
<1>2. target \in Nat /\ focus \in Nat
  BY LiveHandles DEF IInv, TypeOK
<1>3. Message(IF target # 0 THEN target ELSE focus, "LBUTTONDOWN", 0) \in AMessage
  BY <1>2, MessageType DEF MessageKinds
<1> QED BY <1>1, <1>3, NewPosted

LEMMA ReleaseNew ==
  ASSUME IInv, NEW x \in Points, PointerUp(x)
  PROVE  \E target \in Handles \cup {0} :
           /\ IsPointerTarget(x, target)
           /\ capture' = IF target # 0 THEN 0 ELSE capture
           /\ \A m \in NewMessages :
                 \/ m = Message(IF target # 0 THEN target ELSE focus, "LBUTTONUP", 0)
                 \/ m.message = "COMMAND"
           /\ \/ Len(queue') >= QueueSize
              \/ Message(IF target # 0 THEN target ELSE focus, "LBUTTONUP", 0) \in NewMessages
<1>1. PICK target \in Handles \cup {0} :
        /\ IsPointerTarget(x, target)
        /\ queue' = PostedAll(queue,
             <<Message(IF target # 0 THEN target ELSE focus, "LBUTTONUP", 0)>>
               \o CommandOf(target))
        /\ capture' = IF target # 0 THEN 0 ELSE capture
  BY DEF PointerUp
<1> DEFINE up == Message(IF target # 0 THEN target ELSE focus, "LBUTTONUP", 0)
           ms == <<up>> \o CommandOf(target)
<1>2. target \in Nat /\ focus \in Nat
  BY LiveHandles DEF IInv, TypeOK
<1>3. up \in AMessage
  BY <1>2, MessageType DEF MessageKinds
<1>4. /\ CommandOf(target) \in Seq(AMessage)
      /\ \A k \in 1 .. Len(CommandOf(target)) : CommandOf(target)[k].message = "COMMAND"
  <2>1. CASE CommandOf(target) = <<>>
    BY <2>1
  <2>2. CASE CommandOf(target) # <<>>
    <3> DEFINE command == Message(CEWindowFind(target).parent, "COMMAND", target)
    <3>1. target # 0 /\ CommandOf(target) = <<command>>
      BY <2>2 DEF CommandOf
    <3>2. CEWindowFind(target).parent \in Nat
      BY <3>1, FoundWindow DEF Window
    <3>3. command \in AMessage /\ command.message = "COMMAND"
      BY <3>2, <1>2, MessageType DEF MessageKinds
    <3> HIDE DEF command
    <3> QED BY <3>1, <3>3
  <2> QED BY <2>1, <2>2
<1>5. queue' = PostedAll(queue, ms)
  BY <1>1
<1>6. /\ ms \in Seq(AMessage) /\ 1 \in 1 .. Len(ms) /\ ms[1] = up
      /\ \A k \in 1 .. Len(ms) : ms[k] = up \/ ms[k].message = "COMMAND"
  <2> HIDE DEF up
  <2> DEFINE rest == CommandOf(target)
  <2>1. /\ rest \in Seq(AMessage) /\ Len(rest) \in Nat
        /\ \A k \in 1 .. Len(rest) : rest[k].message = "COMMAND"
    BY <1>4
  <2>2. ms = <<up>> \o rest
    BY DEF up
  <2> HIDE DEF ms, rest
  <2>3. /\ <<up>> \in Seq(AMessage)
        /\ ms \in Seq(AMessage) /\ Len(ms) = Len(rest) + 1 /\ ms[1] = up
    BY <1>3, <2>1, <2>2
  <2>4. \A k \in 1 .. Len(ms) : k # 1 => ms[k] = rest[k - 1]
    BY <1>3, <2>1, <2>2, <2>3
  <2> QED BY <2>1, <2>3, <2>4
<1> HIDE DEF ms
<1>7. /\ \A m \in NewMessages : m = up \/ m.message = "COMMAND"
      /\ Len(queue') >= QueueSize \/ up \in NewMessages
  BY <1>5, <1>6, NewPostedAll
<1> QED BY <1>1, <1>7

\* A WM_TIMER is only queued for a timer that is armed (CERuntime.c 295).
THEOREM TimerMessagesOfArmed == Spec => TimerMessagesArmed
<1>1. IInv /\ [Next]_vars =>
        [\A m \in NewMessages : m.message = "TIMER" => <<m.hwnd, m.param>> \in Armed]_vars
  <2> SUFFICES ASSUME IInv, [Next]_vars, NEW m \in NewMessages, m.message = "TIMER"
               PROVE  <<m.hwnd, m.param>> \in Armed
    OBVIOUS
  <2>1. CASE FireTimers
    BY <2>1, FiredArmed
  <2>2. ASSUME NEW x \in Points, PointerDown(x) \/ PointerUp(x) PROVE FALSE
    <3>1. CASE PointerDown(x)
      <4>1. \E h : m = Message(h, "LBUTTONDOWN", 0)
        BY <3>1, PressNew
      <4> QED BY <4>1 DEF Message
    <3>2. CASE PointerUp(x)
      <4>1. m.message = "COMMAND" \/ \E h : m = Message(h, "LBUTTONUP", 0)
        BY <3>2, ReleaseNew
      <4> QED BY <4>1 DEF Message
    <3> QED BY <2>2, <3>1, <3>2
  <2> QED BY <2>1, <2>2, WhatIsNew
<1> QED BY <1>1, Invariance, PTL DEF Spec, TimerMessagesArmed
-----------------------------------------------------------------------------
\* No two windows have the same handle, so a destroyed one is gone.
HandlesDistinct ==
  \A i, j \in 1 .. Len(windows) : windows[i].handle = windows[j].handle => i = j

LEMMA HandlesDistinctStep ==
  ASSUME IInv, HandlesDistinct, [Next]_vars
  PROVE  HandlesDistinct'
<1>1. windows \in Seq(Window) /\ Len(windows) \in Nat /\ next_handle \in Nat
  BY DEF IInv, TypeOK
<1>2. CASE \E name \in ClassNames, frame \in Frames, visible \in BOOLEAN,
              parent \in Issued \cup {0} : CreateWindow(name, frame, visible, parent)
  <2>1. PICK w : windows' = Append(windows, w) /\ w.handle = next_handle
    BY <1>2 DEF CreateWindow
  <2>2. /\ Len(windows') = Len(windows) + 1
        /\ \A i \in 1 .. Len(windows) : windows'[i] = windows[i]
        /\ windows'[Len(windows) + 1].handle = next_handle
    BY <1>1, <2>1
  <2>3. \A i \in 1 .. Len(windows) : windows[i].handle # next_handle
    BY <1>1 DEF IInv, HandlesKnown, KnownWindows, Window
  <2> QED BY <1>1, <2>2, <2>3 DEF HandlesDistinct
<1>3. CASE \E h \in Issued : CEWindowDestroy(h)
  <2>1. PICK i \in 1 .. Len(windows) :
          windows' = [j \in 1 .. Len(windows) - 1 |->
                         IF j < i THEN windows[j] ELSE windows[j + 1]]
    BY <1>3 DEF CEWindowDestroy
  <2>2. /\ Len(windows') = Len(windows) - 1
        /\ \A j \in 1 .. Len(windows) - 1 :
              windows'[j] = IF j < i THEN windows[j] ELSE windows[j + 1]
    BY <1>1, <2>1
  <2> QED BY <1>1, <2>2 DEF HandlesDistinct
<1>4. CASE \E h \in Issued, show \in BOOLEAN : ShowWindow(h, show)
  <2>1. PICK h \in Issued, show \in BOOLEAN :
          windows' = [i \in 1 .. Len(windows) |->
                   IF windows[i].handle = h THEN [windows[i] EXCEPT !.visible = show]
                   ELSE windows[i]]
    BY <1>4 DEF ShowWindow
  <2>2. Len(windows') = Len(windows)
        /\ \A i \in 1 .. Len(windows) : windows'[i].handle = windows[i].handle
    BY <1>1, <2>1 DEF Window
  <2> QED BY <2>2 DEF HandlesDistinct
<1>5. CASE UNCHANGED windows
  BY <1>5 DEF HandlesDistinct
<1> QED
  BY <1>2, <1>3, <1>4, <1>5
     DEF Next, GuestStep, HostStep, CEWindowRegisterClass, InvalidateRect, PostMessage,
         GetMessage, TranslateMessage, SetTimer, KillTimer, Elapse, FireTimers, PointerDown,
         PointerUp, PostKey, PostCharacter, windowVars, vars

LEMMA HandlesDistinctAlways == Spec => []HandlesDistinct
<1>1. Init => HandlesDistinct
  BY DEF Init, HandlesDistinct
<1>2. IInv /\ HandlesDistinct /\ [Next]_vars => HandlesDistinct'
  BY HandlesDistinctStep
<1> QED BY <1>1, <1>2, Invariance, PTL DEF Spec

\* While a window has the pointer, pointer messages go to it and to no other, until a release
\* or its end (CERuntime.c 315-326).
THEOREM CaptureIsKept == Spec => CaptureKept
<1> DEFINE Kept ==
        capture # 0 =>
          /\ \A m \in NewMessages : m.message \in PointerKinds => m.hwnd = capture
          /\ capture' \in {0, capture}
          /\ capture' # capture =>
                \/ capture \notin Handles'
                \/ Len(queue') >= QueueSize
                \/ Message(capture, "LBUTTONUP", 0) \in NewMessages
<1>1. IInv /\ FocusCaptureLive /\ HandlesDistinct /\ [Next]_vars => [Kept]_vars
  <2> SUFFICES ASSUME IInv, FocusCaptureLive, HandlesDistinct, [Next]_vars,
                      capture # 0
               PROVE  /\ \A m \in NewMessages : m.message \in PointerKinds => m.hwnd = capture
                      /\ capture' \in {0, capture}
                      /\ capture' # capture =>
                            \/ capture \notin Handles'
                            \/ Len(queue') >= QueueSize
                            \/ Message(capture, "LBUTTONUP", 0) \in NewMessages
    OBVIOUS
  <2>1. capture \in Handles
    BY DEF FocusCaptureLive
  <2>2. \A x \in Points : \A t : IsPointerTarget(x, t) => t = capture
    BY <2>1 DEF IsPointerTarget
  <2>3. CASE \E x \in Points : PointerDown(x)
    <3>1. /\ capture' = capture
          /\ \A m \in NewMessages : m = Message(capture, "LBUTTONDOWN", 0)
      BY <2>2, <2>3, PressNew
    <3> QED BY <3>1 DEF Message
  <2>4. CASE \E x \in Points : PointerUp(x)
    <3>1. /\ capture' = 0
          /\ \A m \in NewMessages :
                m = Message(capture, "LBUTTONUP", 0) \/ m.message = "COMMAND"
          /\ Len(queue') >= QueueSize \/ Message(capture, "LBUTTONUP", 0) \in NewMessages
      BY <2>2, <2>4, ReleaseNew
    <3> QED BY <3>1 DEF Message, PointerKinds
  <2>5. CASE \E h \in Issued : CEWindowDestroy(h)
    <3>1. PICK h \in Issued : CEWindowDestroy(h)
      BY <2>5
    <3>2. NewMessages = {}
      BY <3>1, NothingNew DEF CEWindowDestroy
    <3>3. capture' = IF capture = h THEN 0 ELSE capture
      BY <3>1 DEF CEWindowDestroy
    <3>4. h \notin Handles'
      <4>1. PICK i \in 1 .. Len(windows) :
              /\ windows[i].handle = h
              /\ windows' = [j \in 1 .. Len(windows) - 1 |->
                             IF j < i THEN windows[j] ELSE windows[j + 1]]
        BY <3>1 DEF CEWindowDestroy
      <4>2. Len(windows) \in Nat
        BY DEF IInv, TypeOK
      <4>3. /\ Len(windows') = Len(windows) - 1
            /\ \A j \in 1 .. Len(windows) - 1 :
                  windows'[j] = IF j < i THEN windows[j] ELSE windows[j + 1]
        BY <4>1, <4>2
      <4>4. \A j \in 1 .. Len(windows) - 1 : windows'[j].handle # h
        BY <4>1, <4>2, <4>3 DEF HandlesDistinct
      <4> QED BY <4>3, <4>4 DEF Handles
    <3> QED BY <3>2, <3>3, <3>4
  <2>6. CASE UNCHANGED capture /\ ~(\E x \in Points : PointerDown(x) \/ PointerUp(x))
    <3>1. \A m \in NewMessages : m.message \notin PointerKinds
      <4>1. CASE FireTimers
        <5>1. \A m \in NewMessages : m.message = "TIMER"
          BY <4>1, FiredArmed
        <5> QED BY <5>1 DEF PointerKinds
      <4> QED BY <2>6, <4>1, WhatIsNew
    <3> QED BY <2>6, <3>1
  <2> QED
    BY <2>3, <2>4, <2>5, <2>6
       DEF Next, GuestStep, HostStep, CEWindowRegisterClass, CreateWindow, ShowWindow,
           InvalidateRect, PostMessage, GetMessage, TranslateMessage, SetTimer, KillTimer, Elapse,
           FireTimers, PostKey, PostCharacter, windowVars, inputVars, vars
<1> QED
  BY <1>1, Invariance, FocusAndCaptureLive, HandlesDistinctAlways, PTL
     DEF Spec, CaptureKept
-----------------------------------------------------------------------------
\* Drawing.

\* The greater and the lesser of two numbers, which clip a rectangle.
LEMMA MaxOfTwo ==
  ASSUME NEW a \in Int, NEW b \in Int
  PROVE  Max({a, b}) = IF a >= b THEN a ELSE b
<1> DEFINE Greatest(c) == \A d \in {a, b} : c >= d
<1>1. \E c \in {a, b} : Greatest(c)
  OBVIOUS
<1>2. Max({a, b}) = (CHOOSE c \in {a, b} : Greatest(c))
  BY Zenon DEF Max
<1>3. Max({a, b}) \in {a, b} /\ Greatest(Max({a, b}))
  <2> HIDE DEF Greatest
  <2> QED
    BY <1>1, <1>2, Zenon
<1> QED
  BY <1>3

LEMMA MinOfTwo ==
  ASSUME NEW a \in Int, NEW b \in Int
  PROVE  Min({a, b}) = IF a <= b THEN a ELSE b
<1> DEFINE Smallest(c) == \A d \in {a, b} : c =< d
<1>1. \E c \in {a, b} : Smallest(c)
  OBVIOUS
<1>2. Min({a, b}) = (CHOOSE c \in {a, b} : Smallest(c))
  BY Zenon DEF Min
<1>3. Min({a, b}) \in {a, b} /\ Smallest(Min({a, b}))
  <2> HIDE DEF Smallest
  <2> QED
    BY <1>1, <1>2, Zenon
<1> QED
  BY <1>3

\* A line's error term is, up to the constant part that the next turn tests,
\* the longer side times the pixels moved across it, minus the turns times the shorter
\* side.  Each turn moves along the longer side, and across it exactly when that keeps
\* the term within half the longer side.

\* A place on the line, with the error term.
Place == [x : Int, y : Int, error : Int]

\* One turn of the loop, the last one included, which changes nothing.
Turn(at, x0, y0, x1, y1) ==
  IF at.x = x1 /\ at.y = y1 THEN at
  ELSE LineStep(at, Distance(x0, x1), -Distance(y0, y1), Toward(x0, x1), Toward(y0, y1))

LEMMA TurnType ==
  ASSUME NEW x0 \in Int, NEW y0 \in Int, NEW x1 \in Int, NEW y1 \in Int, NEW at \in Place
  PROVE  Turn(at, x0, y0, x1, y1) \in Place
BY DEF Turn, LineStep, Place, Distance, Toward

Walks(x0, y0, x1, y1) ==
  {at \in [0 .. Distance(x0, x1) + Distance(y0, y1) -> Place] :
     /\ at[0] = [x |-> x0, y |-> y0, error |-> Distance(x0, x1) - Distance(y0, y1)]
     /\ \A k \in 1 .. Distance(x0, x1) + Distance(y0, y1) :
           at[k] = Turn(at[k - 1], x0, y0, x1, y1)}

\* The loop is what its recursion says.
LEMMA LineSteps ==
  ASSUME NEW x0 \in Int, NEW y0 \in Int, NEW x1 \in Int, NEW y1 \in Int
  PROVE  LineWalk(x0, y0, x1, y1) \in Walks(x0, y0, x1, y1)
<1> DEFINE dx == Distance(x0, x1)
           dy == -Distance(y0, y1)
           n == dx - dy
           start == [x |-> x0, y |-> y0, error |-> dx + dy]
           step == [k \in 1 .. n |-> [at \in Place |-> Turn(at, x0, y0, x1, y1)]]
           Walked(f) == f = [k \in 0 .. n |->
                               IF k = 0 THEN start
                               ELSE LET last == f[k - 1] IN
                                    IF last.x = x1 /\ last.y = y1 THEN last
                                    ELSE LineStep(last, dx, dy, Toward(x0, x1), Toward(y0, y1))]
<1>1. /\ dx \in Nat /\ dy \in Int /\ n \in Nat /\ start \in Place
      /\ n = Distance(x0, x1) + Distance(y0, y1)
      /\ dx + dy = Distance(x0, x1) - Distance(y0, y1)
  BY DEF Distance, Place
<1>2. step \in [1 .. n -> [Place -> Place]]
  BY TurnType
<1>3. PICK g \in [0 .. n -> Place] : g[0] = start /\ \A k \in 1 .. n : g[k] = step[k][g[k - 1]]
  <2> HIDE DEF step, n, start
  <2>1. Turns(Place, start, step, n) # {}
    BY <1>1, <1>2, Iterated
  <2> QED
    BY <2>1 DEF Turns
<1>4. \E f : Walked(f)
  <2>1. ASSUME NEW k \in 1 .. n
        PROVE  g[k] = Turn(g[k - 1], x0, y0, x1, y1)
    <3>1. g[k - 1] \in Place
      <4> HIDE DEF n
      <4> QED
        BY <1>1, <1>3
    <3> QED
      BY <1>3, <3>1
  <2> HIDE DEF start
  <2>2. g = [k \in 0 .. n |-> IF k = 0 THEN start ELSE Turn(g[k - 1], x0, y0, x1, y1)]
    <3> HIDE DEF n
    <3>1. g = [k \in 0 .. n |-> g[k]]
      BY <1>3
    <3>2. \A k \in 0 .. n : g[k] = IF k = 0 THEN start ELSE Turn(g[k - 1], x0, y0, x1, y1)
      BY <1>1, <1>3, <2>1
    <3> QED
      BY <3>1, <3>2
  <2>3. Walked(g)
    BY <2>2, Zenon DEF Turn
  <2> QED
    BY <2>3
<1> DEFINE f == CHOOSE h : Walked(h)
<1>5. Walked(f)
  <2> HIDE DEF Walked
  <2> QED
    BY <1>4, Zenon
<1>6. LineWalk(x0, y0, x1, y1) = f
  BY Zenon DEF LineWalk
<1> HIDE DEF f
<1>7. f = [k \in 0 .. n |-> IF k = 0 THEN start ELSE Turn(f[k - 1], x0, y0, x1, y1)]
  BY <1>5, Zenon DEF Turn
<1>8. /\ f[0] = start
      /\ \A k \in 1 .. n : f[k] = Turn(f[k - 1], x0, y0, x1, y1)
  <2> HIDE DEF n, start
  <2>1. 0 \in 0 .. n /\ \A k \in 1 .. n : k \in 0 .. n /\ k # 0
    BY <1>1
  <2> QED
    BY <1>7, <2>1
<1>9. f \in [0 .. n -> Place]
  <2> HIDE DEF n, start
  <2> DEFINE Good == {k \in 0 .. n : f[k] \in Place}
  <2>1. 0 \in Good
    BY <1>1, <1>8
  <2>2. ASSUME NEW k \in 0 .. n - 1, k \in Good
        PROVE  k + 1 \in Good
    <3>1. k + 1 \in 1 .. n /\ k + 1 \in 0 .. n /\ k + 1 - 1 = k
      BY <1>1
    <3>2. f[k + 1] = Turn(f[k], x0, y0, x1, y1)
      BY <1>8, <3>1
    <3> QED
      BY <2>2, <3>1, <3>2, TurnType
  <2> HIDE DEF Good
  <2>3. 0 .. n \subseteq Good
    BY <1>1, <2>1, <2>2, UpToBound
  <2> QED
    BY <1>7, <2>3 DEF Good
<1> QED
  <2> HIDE DEF n
  <2> QED
    BY <1>1, <1>6, <1>8, <1>9 DEF Walks

\* Where a line is after k turns that is at least as wide as high: k pixels along, and so
\* many up or down that the error term, freed of the next turn, is at most half the width.
AlongRow(at, k, x0, y0, x1, y1) ==
  \E up, t \in Int :
     /\ at.x = x0 + Toward(x0, x1) * k
     /\ at.y = y0 + Toward(y0, y1) * up
     /\ t = up * Distance(x0, x1) - k * Distance(y0, y1)
     /\ at.error = t + Distance(x0, x1) - Distance(y0, y1)
     /\ -Distance(x0, x1) <= 2 * t
     /\ 2 * t <= Distance(x0, x1)

\* The same for a line that is at least as high as wide.
AlongColumn(at, k, x0, y0, x1, y1) ==
  \E over, t \in Int :
     /\ at.y = y0 + Toward(y0, y1) * k
     /\ at.x = x0 + Toward(x0, x1) * over
     /\ t = over * Distance(y0, y1) - k * Distance(x0, x1)
     /\ at.error = Distance(x0, x1) - Distance(y0, y1) - t
     /\ -Distance(y0, y1) <= 2 * t
     /\ 2 * t <= Distance(y0, y1)

LEMMA Directions ==
  ASSUME NEW a \in Int, NEW b \in Int
  PROVE  /\ Distance(a, b) \in Nat
         /\ Toward(a, b) \in {-1, 1}
         /\ b = a + Toward(a, b) * Distance(a, b)
BY DEF Distance, Toward

LEMMA OneMore ==
  ASSUME NEW a \in Int, NEW b \in Int
  PROVE  a * b \in Int /\ (a + 1) * b = a * b + b /\ (-a) * b = -(a * b)
OBVIOUS

LEMMA RowTurn ==
  ASSUME NEW x0 \in Int, NEW y0 \in Int, NEW x1 \in Int, NEW y1 \in Int,
         Distance(y0, y1) <= Distance(x0, x1),
         NEW at \in Place, NEW k \in 0 .. Distance(x0, x1) - 1,
         AlongRow(at, k, x0, y0, x1, y1)
  PROVE  AlongRow(Turn(at, x0, y0, x1, y1), k + 1, x0, y0, x1, y1)
<1> DEFINE dx == Distance(x0, x1)
           d == Distance(y0, y1)
           sx == Toward(x0, x1)
           sy == Toward(y0, y1)
           next == Turn(at, x0, y0, x1, y1)
<1>1. /\ dx \in Nat /\ d \in Nat /\ sx \in {-1, 1} /\ sy \in {-1, 1} /\ d <= dx
      /\ x1 = x0 + sx * dx /\ k \in Nat /\ k < dx
  <2>1. k \in Nat /\ k < dx
    BY Directions
  <2> QED
    BY <2>1, Directions
<1>2. PICK up \in Int, t \in Int :
        /\ at.x = x0 + sx * k
        /\ at.y = y0 + sy * up
        /\ t = up * dx - k * d
        /\ at.error = t + dx - d
        /\ -dx <= 2 * t
        /\ 2 * t <= dx
  BY DEF AlongRow
<1> HIDE DEF dx, d, sx, sy
<1>3. at.x # x1
  <2>1. CASE sx = 1
    BY <1>1, <1>2, <2>1
  <2>2. CASE sx = -1
    BY <1>1, <1>2, <2>2
  <2> QED
    BY <1>1, <2>1, <2>2
<1>4. next = LineStep(at, dx, -d, sx, sy)
  BY <1>3 DEF Turn, dx, d, sx, sy
<1>5. /\ next.x = at.x + sx
      /\ next.y = IF at.error * 2 <= dx THEN at.y + sy ELSE at.y
      /\ next.error = at.error - d + (IF at.error * 2 <= dx THEN dx ELSE 0)
  <2>1. at.error * 2 >= -d
    BY <1>1, <1>2
  <2>2. at.x \in Int /\ at.y \in Int /\ at.error \in Int
    BY DEF Place
  <2> HIDE DEF next
  <2> QED
    BY <1>1, <1>4, <2>1, <2>2 DEF LineStep
<1> HIDE DEF next
<1>6. next.x = x0 + sx * (k + 1)
  BY <1>1, <1>2, <1>5
<1>7. /\ (k + 1) * d = k * d + d /\ k * d \in Int
      /\ (up + 1) * dx = up * dx + dx /\ up * dx \in Int
  BY <1>1, OneMore
<1>8. CASE at.error * 2 <= dx
  <2>1. next.y = y0 + sy * (up + 1)
    BY <1>1, <1>2, <1>5, <1>8
  <2>2. /\ t - d + dx = (up + 1) * dx - (k + 1) * d
        /\ next.error = (t - d + dx) + dx - d
        /\ -dx <= 2 * (t - d + dx)
        /\ 2 * (t - d + dx) <= dx
    BY <1>1, <1>2, <1>5, <1>7, <1>8
  <2>3. up + 1 \in Int /\ t - d + dx \in Int
    BY <1>1
  <2> QED
    BY <1>6, <2>1, <2>2, <2>3 DEF AlongRow, dx, d, sx, sy, next
<1>9. CASE ~(at.error * 2 <= dx)
  <2>1. next.y = y0 + sy * up
    BY <1>1, <1>2, <1>5, <1>9
  <2>2. /\ t - d = up * dx - (k + 1) * d
        /\ next.error = (t - d) + dx - d
        /\ -dx <= 2 * (t - d)
        /\ 2 * (t - d) <= dx
    BY <1>1, <1>2, <1>5, <1>7, <1>9
  <2>3. t - d \in Int
    BY <1>1
  <2> QED
    BY <1>6, <2>1, <2>2, <2>3 DEF AlongRow, dx, d, sx, sy, next
<1> QED
  BY <1>8, <1>9

LEMMA ColumnTurn ==
  ASSUME NEW x0 \in Int, NEW y0 \in Int, NEW x1 \in Int, NEW y1 \in Int,
         Distance(x0, x1) <= Distance(y0, y1),
         NEW at \in Place, NEW k \in 0 .. Distance(y0, y1) - 1,
         AlongColumn(at, k, x0, y0, x1, y1)
  PROVE  AlongColumn(Turn(at, x0, y0, x1, y1), k + 1, x0, y0, x1, y1)
<1> DEFINE dx == Distance(x0, x1)
           d == Distance(y0, y1)
           sx == Toward(x0, x1)
           sy == Toward(y0, y1)
           next == Turn(at, x0, y0, x1, y1)
<1>1. /\ dx \in Nat /\ d \in Nat /\ sx \in {-1, 1} /\ sy \in {-1, 1} /\ dx <= d
      /\ y1 = y0 + sy * d /\ k \in Nat /\ k < d
  <2>1. k \in Nat /\ k < d
    BY Directions
  <2> QED
    BY <2>1, Directions
<1>2. PICK over \in Int, t \in Int :
        /\ at.y = y0 + sy * k
        /\ at.x = x0 + sx * over
        /\ t = over * d - k * dx
        /\ at.error = dx - d - t
        /\ -d <= 2 * t
        /\ 2 * t <= d
  BY DEF AlongColumn
<1> HIDE DEF dx, d, sx, sy
<1>3. at.y # y1
  <2>1. CASE sy = 1
    BY <1>1, <1>2, <2>1
  <2>2. CASE sy = -1
    BY <1>1, <1>2, <2>2
  <2> QED
    BY <1>1, <2>1, <2>2
<1>4. next = LineStep(at, dx, -d, sx, sy)
  BY <1>3 DEF Turn, dx, d, sx, sy
<1>5. /\ next.y = at.y + sy
      /\ next.x = IF at.error * 2 >= -d THEN at.x + sx ELSE at.x
      /\ next.error = at.error + dx - (IF at.error * 2 >= -d THEN d ELSE 0)
  <2>1. at.error * 2 <= dx
    BY <1>1, <1>2
  <2>2. at.x \in Int /\ at.y \in Int /\ at.error \in Int
    BY DEF Place
  <2> HIDE DEF next
  <2> QED
    BY <1>1, <1>4, <2>1, <2>2 DEF LineStep
<1> HIDE DEF next
<1>6. next.y = y0 + sy * (k + 1)
  BY <1>1, <1>2, <1>5
<1>7. /\ (k + 1) * dx = k * dx + dx /\ k * dx \in Int
      /\ (over + 1) * d = over * d + d /\ over * d \in Int
  BY <1>1, OneMore
<1>8. CASE at.error * 2 >= -d
  <2>1. next.x = x0 + sx * (over + 1)
    BY <1>1, <1>2, <1>5, <1>8
  <2>2. /\ t - dx + d = (over + 1) * d - (k + 1) * dx
        /\ next.error = dx - d - (t - dx + d)
        /\ -d <= 2 * (t - dx + d)
        /\ 2 * (t - dx + d) <= d
    BY <1>1, <1>2, <1>5, <1>7, <1>8
  <2>3. over + 1 \in Int /\ t - dx + d \in Int
    BY <1>1
  <2> QED
    BY <1>6, <2>1, <2>2, <2>3 DEF AlongColumn, dx, d, sx, sy, next
<1>9. CASE ~(at.error * 2 >= -d)
  <2>1. next.x = x0 + sx * over
    BY <1>1, <1>2, <1>5, <1>9
  <2>2. /\ t - dx = over * d - (k + 1) * dx
        /\ next.error = dx - d - (t - dx)
        /\ -d <= 2 * (t - dx)
        /\ 2 * (t - dx) <= d
    BY <1>1, <1>2, <1>5, <1>7, <1>9
  <2>3. t - dx \in Int
    BY <1>1
  <2> QED
    BY <1>6, <2>1, <2>2, <2>3 DEF AlongColumn, dx, d, sx, sy, next
<1> QED
  BY <1>8, <1>9

\* A line that is at least as wide as high is at every turn one pixel further along.
LEMMA LineAlongRow ==
  ASSUME NEW x0 \in Int, NEW y0 \in Int, NEW x1 \in Int, NEW y1 \in Int,
         Distance(y0, y1) <= Distance(x0, x1), NEW k \in 0 .. Distance(x0, x1)
  PROVE  AlongRow(LineWalk(x0, y0, x1, y1)[k], k, x0, y0, x1, y1)
<1> DEFINE at == LineWalk(x0, y0, x1, y1)
           n == Distance(x0, x1)
           d == Distance(y0, y1)
           Good == {i \in 0 .. n : AlongRow(at[i], i, x0, y0, x1, y1)}
<1>1. n \in Nat /\ d \in Nat
  BY Directions
<1>2. at \in Walks(x0, y0, x1, y1)
  BY LineSteps
<1> HIDE DEF at
<1>3. /\ at[0] = [x |-> x0, y |-> y0, error |-> n - d]
      /\ \A i \in 0 .. n + d : at[i] \in Place
      /\ \A i \in 1 .. n + d : at[i] = Turn(at[i - 1], x0, y0, x1, y1)
  BY <1>2 DEF Walks
<1>4. 0 \in Good
  <2>1. /\ at[0].x = x0 + Toward(x0, x1) * 0
        /\ at[0].y = y0 + Toward(y0, y1) * 0
        /\ 0 = 0 * n - 0 * d
        /\ at[0].error = 0 + n - d
        /\ -n <= 2 * 0 /\ 2 * 0 <= n
    <3>1. Toward(x0, x1) \in {-1, 1} /\ Toward(y0, y1) \in {-1, 1}
      BY Directions
    <3> HIDE DEF n, d
    <3> QED
      BY <1>1, <1>3, <3>1
  <2>2. AlongRow(at[0], 0, x0, y0, x1, y1)
    BY <2>1 DEF AlongRow
  <2> QED
    BY <1>1, <2>2
<1>5. ASSUME NEW i \in 0 .. n - 1, i \in Good
      PROVE  i + 1 \in Good
  <2>1. i + 1 \in 1 .. n + d /\ i + 1 - 1 = i /\ i \in 0 .. n + d /\ i + 1 \in 0 .. n
    <3> HIDE DEF n, d
    <3> QED
      BY <1>1
  <2>2. at[i + 1] = Turn(at[i], x0, y0, x1, y1) /\ at[i] \in Place
    <3> HIDE DEF n, d
    <3> QED
      BY <1>3, <2>1
  <2>3. AlongRow(Turn(at[i], x0, y0, x1, y1), i + 1, x0, y0, x1, y1)
    BY <1>5, <2>2, RowTurn
  <2> QED
    BY <2>1, <2>2, <2>3
<1> HIDE DEF Good
<1>6. 0 .. n \subseteq Good
  BY <1>1, <1>4, <1>5, UpToBound
<1> QED
  BY <1>6 DEF Good, at

LEMMA LineAlongColumn ==
  ASSUME NEW x0 \in Int, NEW y0 \in Int, NEW x1 \in Int, NEW y1 \in Int,
         Distance(x0, x1) <= Distance(y0, y1), NEW k \in 0 .. Distance(y0, y1)
  PROVE  AlongColumn(LineWalk(x0, y0, x1, y1)[k], k, x0, y0, x1, y1)
<1> DEFINE at == LineWalk(x0, y0, x1, y1)
           d == Distance(x0, x1)
           n == Distance(y0, y1)
           Good == {i \in 0 .. n : AlongColumn(at[i], i, x0, y0, x1, y1)}
<1>1. n \in Nat /\ d \in Nat
  BY Directions
<1>2. at \in Walks(x0, y0, x1, y1)
  BY LineSteps
<1> HIDE DEF at
<1>3. /\ at[0] = [x |-> x0, y |-> y0, error |-> d - n]
      /\ \A i \in 0 .. d + n : at[i] \in Place
      /\ \A i \in 1 .. d + n : at[i] = Turn(at[i - 1], x0, y0, x1, y1)
  BY <1>2 DEF Walks
<1>4. 0 \in Good
  <2>1. /\ at[0].y = y0 + Toward(y0, y1) * 0
        /\ at[0].x = x0 + Toward(x0, x1) * 0
        /\ 0 = 0 * n - 0 * d
        /\ at[0].error = d - n - 0
        /\ -n <= 2 * 0 /\ 2 * 0 <= n
    <3>1. Toward(x0, x1) \in {-1, 1} /\ Toward(y0, y1) \in {-1, 1}
      BY Directions
    <3> HIDE DEF n, d
    <3> QED
      BY <1>1, <1>3, <3>1
  <2>2. AlongColumn(at[0], 0, x0, y0, x1, y1)
    BY <2>1 DEF AlongColumn
  <2> QED
    BY <1>1, <2>2
<1>5. ASSUME NEW i \in 0 .. n - 1, i \in Good
      PROVE  i + 1 \in Good
  <2>1. i + 1 \in 1 .. d + n /\ i + 1 - 1 = i /\ i \in 0 .. d + n /\ i + 1 \in 0 .. n
    <3> HIDE DEF n, d
    <3> QED
      BY <1>1
  <2>2. at[i + 1] = Turn(at[i], x0, y0, x1, y1) /\ at[i] \in Place
    <3> HIDE DEF n, d
    <3> QED
      BY <1>3, <2>1
  <2>3. AlongColumn(Turn(at[i], x0, y0, x1, y1), i + 1, x0, y0, x1, y1)
    BY <1>5, <2>2, ColumnTurn
  <2> QED
    BY <2>1, <2>2, <2>3
<1> HIDE DEF Good
<1>6. 0 .. n \subseteq Good
  BY <1>1, <1>4, <1>5, UpToBound
<1> QED
  BY <1>6 DEF Good, at

\* The distance that LineClosest is about, from how far the line got.
LEMMA Nearness ==
  ASSUME NEW a \in Int, NEW s \in {-1, 1}, NEW u \in Int, NEW n \in Nat, NEW k \in Nat,
         NEW d \in Nat, -n <= 2 * (u * n - k * d), 2 * (u * n - k * d) <= n,
         NEW p, p = a + s * u, NEW b, b = a + s * d
  PROVE  2 * Distance((p - a) * n, k * (b - a)) <= n
<1>1. u * n \in Int /\ k * d \in Int
  OBVIOUS
<1>2. CASE s = 1
  <2>1. p - a = u /\ b - a = d
    BY <1>2
  <2> QED
    BY <1>1, <2>1 DEF Distance
<1>3. CASE s = -1
  <2>1. p - a = -u /\ b - a = -d
    BY <1>3
  <2>2. (p - a) * n = -(u * n) /\ k * (b - a) = -(k * d)
    BY <2>1
  <2> QED
    BY <1>1, <2>2 DEF Distance
<1> QED
  BY <1>2, <1>3

\* At its end a line has no distance left.
LEMMA NothingLeft ==
  ASSUME NEW u \in Int, NEW n \in Nat, NEW d \in Nat, d <= n,
         -n <= 2 * (u * n - n * d), 2 * (u * n - n * d) <= n
  PROVE  n = 0 \/ u = d
<1> SUFFICES ASSUME n # 0, u # d
             PROVE  FALSE
  OBVIOUS
<1> DEFINE v == u - d
<1>1. v \in Int /\ v # 0 /\ u * n - n * d = v * n /\ v * n \in Int
  OBVIOUS
<1> HIDE DEF v
<1>2. CASE v >= 1
  <2>1. (v - 1) * n >= 0 /\ v * n = (v - 1) * n + n
    BY <1>1, <1>2
  <2> QED
    BY <1>1, <2>1
<1>3. CASE v <= -1
  <2>1. (-1 - v) * n >= 0 /\ v * n = -((-1 - v) * n) - n
    BY <1>1, <1>3
  <2> QED
    BY <1>1, <2>1
<1> QED
  BY <1>1, <1>2, <1>3

\* LineClosest of one line.
Closest(x0, y0, x1, y1) ==
  LET at == LineWalk(x0, y0, x1, y1)
      n == Max({Distance(x0, x1), Distance(y0, y1)})
  IN  /\ at[n].x = x1 /\ at[n].y = y1
      /\ \A k \in 0 .. n :
            /\ 2 * Distance((at[k].x - x0) * n, k * (x1 - x0)) <= n
            /\ 2 * Distance((at[k].y - y0) * n, k * (y1 - y0)) <= n

LEMMA LineIsClosest ==
  ASSUME NEW x0 \in Int, NEW y0 \in Int, NEW x1 \in Int, NEW y1 \in Int
  PROVE  Closest(x0, y0, x1, y1)
<1> DEFINE at == LineWalk(x0, y0, x1, y1)
           dx == Distance(x0, x1)
           dy == Distance(y0, y1)
           sx == Toward(x0, x1)
           sy == Toward(y0, y1)
           n == Max({dx, dy})
<1>1. /\ dx \in Nat /\ dy \in Nat /\ sx \in {-1, 1} /\ sy \in {-1, 1}
      /\ x1 = x0 + sx * dx
      /\ y1 = y0 + sy * dy
  BY Directions
<1>2. n = IF dx >= dy THEN dx ELSE dy
  <2> HIDE DEF dx, dy
  <2> QED
    BY <1>1, MaxOfTwo
<1> HIDE DEF n
<1>3. CASE dy <= dx
  <2>1. n = dx
    BY <1>1, <1>2, <1>3
  <2>2. ASSUME NEW k \in 0 .. n
        PROVE  \E up, t \in Int :
                  /\ at[k].x = x0 + sx * k
                  /\ at[k].y = y0 + sy * up
                  /\ t = up * n - k * dy
                  /\ -n <= 2 * t
                  /\ 2 * t <= n
    <3>1. k \in 0 .. dx
      BY <2>1
    <3>2. AlongRow(at[k], k, x0, y0, x1, y1)
      BY <1>3, <3>1, LineAlongRow
    <3> HIDE DEF at
    <3> QED
      BY <2>1, <3>2 DEF AlongRow
  <2> HIDE DEF at, dx, dy, sx, sy
  <2>3. n \in Nat /\ dy \in Nat /\ dy <= n
    BY <1>1, <1>3, <2>1
  <2>4. at[n].x = x1 /\ at[n].y = y1
    <3>1. n \in 0 .. n
      BY <2>3
    <3>2. PICK up \in Int :
            /\ at[n].x = x0 + sx * n
            /\ at[n].y = y0 + sy * up
            /\ -n <= 2 * (up * n - n * dy)
            /\ 2 * (up * n - n * dy) <= n
      BY <2>2, <3>1
    <3>3. n = 0 \/ up = dy
      BY <2>3, <3>2, NothingLeft
    <3>4. CASE up = dy
      BY <1>1, <2>1, <3>2, <3>4
    <3>5. CASE n = 0
      <4>1. LineWalk(x0, y0, x1, y1) \in Walks(x0, y0, x1, y1)
        BY LineSteps
      <4>2. at[0].x = x0 /\ at[0].y = y0
        BY <4>1 DEF Walks, at
      <4>3. x1 = x0 /\ y1 = y0
        BY <1>1, <2>1, <2>3, <3>5
      <4> QED
        BY <3>5, <4>2, <4>3
    <3> QED
      BY <3>3, <3>4, <3>5
  <2>5. ASSUME NEW k \in 0 .. n
        PROVE  /\ 2 * Distance((at[k].x - x0) * n, k * (x1 - x0)) <= n
               /\ 2 * Distance((at[k].y - y0) * n, k * (y1 - y0)) <= n
    <3>1. PICK up \in Int, t \in Int :
            /\ at[k].x = x0 + sx * k
            /\ at[k].y = y0 + sy * up
            /\ t = up * n - k * dy
            /\ -n <= 2 * t
            /\ 2 * t <= n
      BY <2>2
    <3>2. 2 * Distance((at[k].x - x0) * n, k * (x1 - x0)) <= n
      <4>1. -n <= 2 * (k * n - k * n) /\ 2 * (k * n - k * n) <= n /\ k \in Nat /\ k \in Int
        <5>1. k \in Nat /\ k * n \in Int
          BY <2>3
        <5> QED
          BY <2>3, <5>1
      <4>2. x1 = x0 + sx * n
        BY <1>1, <2>1, Zenon
      <4> QED
        BY <1>1, <2>3, <3>1, <4>1, <4>2, Nearness
    <3>3. 2 * Distance((at[k].y - y0) * n, k * (y1 - y0)) <= n
      <4>1. k \in Nat /\ -n <= 2 * (up * n - k * dy) /\ 2 * (up * n - k * dy) <= n
        BY <2>3, <3>1
      <4> QED
        BY <1>1, <2>3, <3>1, <4>1, Nearness
    <3> QED
      BY <3>2, <3>3
  <2> QED
    BY <2>4, <2>5 DEF Closest, at, n, dx, dy
<1>4. CASE ~(dy <= dx)
  <2>1. n = dy
    BY <1>1, <1>2, <1>4
  <2>2. ASSUME NEW k \in 0 .. n
        PROVE  \E over, t \in Int :
                  /\ at[k].y = y0 + sy * k
                  /\ at[k].x = x0 + sx * over
                  /\ t = over * n - k * dx
                  /\ -n <= 2 * t
                  /\ 2 * t <= n
    <3>1. dx <= dy
      BY <1>1, <1>4
    <3>2. k \in 0 .. dy
      BY <2>1
    <3>3. AlongColumn(at[k], k, x0, y0, x1, y1)
      BY <3>1, <3>2, LineAlongColumn
    <3> HIDE DEF at
    <3> QED
      BY <2>1, <3>3 DEF AlongColumn
  <2> HIDE DEF at, dx, dy, sx, sy
  <2>3. n \in Nat /\ dx \in Nat /\ dx <= n /\ n # 0
    BY <1>1, <1>4, <2>1
  <2>4. at[n].x = x1 /\ at[n].y = y1
    <3>1. n \in 0 .. n
      BY <2>3
    <3>2. PICK over \in Int :
            /\ at[n].y = y0 + sy * n
            /\ at[n].x = x0 + sx * over
            /\ -n <= 2 * (over * n - n * dx)
            /\ 2 * (over * n - n * dx) <= n
      BY <2>2, <3>1
    <3>3. n = 0 \/ over = dx
      BY <2>3, <3>2, NothingLeft
    <3> QED
      BY <1>1, <2>1, <2>3, <3>2, <3>3
  <2>5. ASSUME NEW k \in 0 .. n
        PROVE  /\ 2 * Distance((at[k].x - x0) * n, k * (x1 - x0)) <= n
               /\ 2 * Distance((at[k].y - y0) * n, k * (y1 - y0)) <= n
    <3>1. PICK over \in Int, t \in Int :
            /\ at[k].y = y0 + sy * k
            /\ at[k].x = x0 + sx * over
            /\ t = over * n - k * dx
            /\ -n <= 2 * t
            /\ 2 * t <= n
      BY <2>2
    <3>2. 2 * Distance((at[k].y - y0) * n, k * (y1 - y0)) <= n
      <4>1. -n <= 2 * (k * n - k * n) /\ 2 * (k * n - k * n) <= n /\ k \in Nat /\ k \in Int
        <5>1. k \in Nat /\ k * n \in Int
          BY <2>3
        <5> QED
          BY <2>3, <5>1
      <4>2. y1 = y0 + sy * n
        BY <1>1, <2>1, Zenon
      <4> QED
        BY <1>1, <2>3, <3>1, <4>1, <4>2, Nearness
    <3>3. 2 * Distance((at[k].x - x0) * n, k * (x1 - x0)) <= n
      <4>1. k \in Nat /\ -n <= 2 * (over * n - k * dx) /\ 2 * (over * n - k * dx) <= n
        BY <2>3, <3>1
      <4> QED
        BY <1>1, <2>3, <3>1, <4>1, Nearness
    <3> QED
      BY <3>2, <3>3
  <2> QED
    BY <2>4, <2>5 DEF Closest, at, n, dx, dy
<1> QED
  BY <1>3, <1>4

\* Lines along an axis.
LEMMA LevelLine ==
  ASSUME NEW x0 \in Int, NEW x1 \in Int, NEW y \in Int, x0 <= x1
  PROVE  CEGDIDrawLine(x0, y, x1, y) = ((x0 .. x1) \X {y}) \cap Screen
<1> DEFINE at == LineWalk(x0, y, x1, y)
           n == x1 - x0
<1>1. Distance(x0, x1) = n /\ Distance(y, y) = 0 /\ n \in Nat
  BY DEF Distance
<1>2. DOMAIN at = 0 .. n
  <2>1. at \in Walks(x0, y, x1, y)
    BY LineSteps
  <2> HIDE DEF at, n
  <2>2. at \in [0 .. n + 0 -> Place]
    BY <1>1, <2>1 DEF Walks
  <2> QED
    BY <1>1, <2>2
<1>3. ASSUME NEW k \in 0 .. n
      PROVE  at[k].x = x0 + k /\ at[k].y = y
  <2>1. AlongRow(at[k], k, x0, y, x1, y)
    BY <1>1, LineAlongRow
  <2> HIDE DEF at
  <2>2. PICK up \in Int : /\ at[k].x = x0 + Toward(x0, x1) * k
                          /\ at[k].y = y + Toward(y, y) * up
                          /\ -n <= 2 * (up * n - k * 0)
                          /\ 2 * (up * n - k * 0) <= n
    <3> HIDE DEF n
    <3> QED
      BY <1>1, <2>1 DEF AlongRow
  <2>3. Toward(y, y) = -1
    BY DEF Toward
  <2>4. CASE n = 0
    <3>1. LineWalk(x0, y, x1, y) \in Walks(x0, y, x1, y)
      BY LineSteps
    <3>2. at[0].x = x0 /\ at[0].y = y
      BY <3>1 DEF Walks, at
    <3> QED
      BY <2>4, <3>2
  <2>5. CASE n # 0
    <3>1. Toward(x0, x1) = 1
      BY <2>5 DEF Toward
    <3>2. up = 0
      <4> HIDE DEF n
      <4>1. up * n - k * 0 = up * n - n * 0
        BY <1>1
      <4> QED
        BY <1>1, <2>2, <2>5, <4>1, NothingLeft
    <3> HIDE DEF n
    <3> QED
      BY <1>1, <2>2, <2>3, <3>1, <3>2
  <2> QED
    BY <2>4, <2>5
<1>4. {<<at[k].x, at[k].y>> : k \in 0 .. n} = (x0 .. x1) \X {y}
  <2> HIDE DEF at
  <2>1. {<<at[k].x, at[k].y>> : k \in 0 .. n} = {<<x0 + k, y>> : k \in 0 .. n}
    BY <1>3
  <2>2. ASSUME NEW p \in (x0 .. x1) \X {y}
        PROVE  p \in {<<x0 + k, y>> : k \in 0 .. n}
    <3>1. p[1] - x0 \in 0 .. n /\ p = <<x0 + (p[1] - x0), y>>
      OBVIOUS
    <3> QED
      BY <3>1, Zenon
  <2>3. \A k \in 0 .. n : <<x0 + k, y>> \in (x0 .. x1) \X {y}
    OBVIOUS
  <2> QED
    BY <2>1, <2>2, <2>3
<1> QED
  BY <1>2, <1>4, Zenon DEF CEGDIDrawLine

LEMMA UprightLine ==
  ASSUME NEW y0 \in Int, NEW y1 \in Int, NEW x \in Int, y0 <= y1
  PROVE  CEGDIDrawLine(x, y0, x, y1) = ({x} \X (y0 .. y1)) \cap Screen
<1> DEFINE at == LineWalk(x, y0, x, y1)
           n == y1 - y0
<1>1. Distance(y0, y1) = n /\ Distance(x, x) = 0 /\ n \in Nat
  BY DEF Distance
<1>2. DOMAIN at = 0 .. n
  <2>1. at \in Walks(x, y0, x, y1)
    BY LineSteps
  <2> HIDE DEF at, n
  <2>2. at \in [0 .. 0 + n -> Place]
    BY <1>1, <2>1 DEF Walks
  <2> QED
    BY <1>1, <2>2
<1>3. ASSUME NEW k \in 0 .. n
      PROVE  at[k].y = y0 + k /\ at[k].x = x
  <2>1. AlongColumn(at[k], k, x, y0, x, y1)
    BY <1>1, LineAlongColumn
  <2> HIDE DEF at
  <2>2. PICK over \in Int : /\ at[k].y = y0 + Toward(y0, y1) * k
                            /\ at[k].x = x + Toward(x, x) * over
                            /\ -n <= 2 * (over * n - k * 0)
                            /\ 2 * (over * n - k * 0) <= n
    <3> HIDE DEF n
    <3> QED
      BY <1>1, <2>1 DEF AlongColumn
  <2>3. Toward(x, x) = -1
    BY DEF Toward
  <2>4. CASE n = 0
    <3>1. LineWalk(x, y0, x, y1) \in Walks(x, y0, x, y1)
      BY LineSteps
    <3>2. at[0].x = x /\ at[0].y = y0
      BY <3>1 DEF Walks, at
    <3> QED
      BY <2>4, <3>2
  <2>5. CASE n # 0
    <3>1. Toward(y0, y1) = 1
      BY <2>5 DEF Toward
    <3>2. over = 0
      <4> HIDE DEF n
      <4>1. over * n - k * 0 = over * n - n * 0
        BY <1>1
      <4> QED
        BY <1>1, <2>2, <2>5, <4>1, NothingLeft
    <3> HIDE DEF n
    <3> QED
      BY <1>1, <2>2, <2>3, <3>1, <3>2
  <2> QED
    BY <2>4, <2>5
<1>4. {<<at[k].x, at[k].y>> : k \in 0 .. n} = {x} \X (y0 .. y1)
  <2> HIDE DEF at
  <2>1. {<<at[k].x, at[k].y>> : k \in 0 .. n} = {<<x, y0 + k>> : k \in 0 .. n}
    BY <1>3
  <2>2. ASSUME NEW p \in {x} \X (y0 .. y1)
        PROVE  p \in {<<x, y0 + k>> : k \in 0 .. n}
    <3>1. p[2] - y0 \in 0 .. n /\ p = <<x, y0 + (p[2] - y0)>>
      OBVIOUS
    <3> QED
      BY <3>1, Zenon
  <2>3. \A k \in 0 .. n : <<x, y0 + k>> \in {x} \X (y0 .. y1)
    OBVIOUS
  <2> QED
    BY <2>1, <2>2, <2>3
<1> QED
  BY <1>2, <1>4, Zenon DEF CEGDIDrawLine

LEMMA FilledIs ==
  ASSUME NEW left \in Int, NEW top \in Int, NEW right \in Int, NEW bottom \in Int
  PROVE  CEGDIFillRect(left, top, right, bottom) =
            ((left .. right - 1) \X (top .. bottom - 1)) \cap Screen
<1>1. /\ Max({left, 0}) = IF left >= 0 THEN left ELSE 0
      /\ Max({top, 0}) = IF top >= 0 THEN top ELSE 0
      /\ Min({right, Width}) = IF right <= Width THEN right ELSE Width
      /\ Min({bottom, Height}) = IF bottom <= Height THEN bottom ELSE Height
  BY ScreenAssumption, MaxOfTwo, MinOfTwo
<1>2. Max({left, 0}) .. Min({right, Width}) - 1 = (left .. right - 1) \cap (0 .. Width - 1)
  BY <1>1, ScreenAssumption
<1>3. Max({top, 0}) .. Min({bottom, Height}) - 1 = (top .. bottom - 1) \cap (0 .. Height - 1)
  BY <1>1, ScreenAssumption
<1> QED
  BY <1>2, <1>3 DEF CEGDIFillRect, Screen

LEMMA EdgesAreInside == EdgesInside
<1> SUFFICES ASSUME NEW left \in Int, NEW top \in Int, NEW right \in Int, NEW bottom \in Int,
                    left < right, top < bottom
             PROVE  RectangleEdge(left, top, right, bottom) =
                       {p \in RectangleInside(left, top, right, bottom) :
                          p[1] = left \/ p[2] = top}
  BY CoordinatesAssumption DEF EdgesInside
<1>1. RectangleInside(left, top, right, bottom) =
        ((left .. right - 1) \X (top .. bottom - 1)) \cap Screen
  BY FilledIs DEF RectangleInside
<1>2. RectangleEdge(left, top, right, bottom) =
        (((left .. right - 1) \X {top}) \cap Screen) \cup
        (({left} \X (top .. bottom - 1)) \cap Screen)
  BY LevelLine, UprightLine DEF RectangleEdge
<1>3. /\ (left .. right - 1) \X {top} =
           {p \in (left .. right - 1) \X (top .. bottom - 1) : p[2] = top}
      /\ {left} \X (top .. bottom - 1) =
           {p \in (left .. right - 1) \X (top .. bottom - 1) : p[1] = left}
  OBVIOUS
<1> QED
  BY <1>1, <1>2, <1>3

-----------------------------------------------------------------------------
\* Texts.  The characters drawn so far are counted, and so are the line feeds.
LEMMA MaxIs ==
  ASSUME NEW S, S \subseteq Int, NEW a \in S, \A b \in S : b <= a
  PROVE  Max(S) = a
<1> DEFINE Greatest(c) == \A b \in S : c >= b
<1>1. \E c \in S : Greatest(c)
  OBVIOUS
<1>2. Max(S) = (CHOOSE c \in S : Greatest(c))
  BY Zenon DEF Max
<1>3. Max(S) \in S /\ Greatest(Max(S))
  <2> HIDE DEF Greatest
  <2> QED
    BY <1>1, <1>2, Zenon
<1>4. Max(S) \in Int /\ Max(S) >= a /\ Max(S) <= a
  BY <1>3
<1> QED
  BY <1>4

\* The column in which the next character stands, and the cell of a character.
LastFeed(text, i) == Max({0} \cup Feeds(text, i))
CellOf(x, y, text, i) ==
  <<x + 6 * (i - LastFeed(text, i) - 1), y + 8 * Cardinality(Feeds(text, i))>>

LEMMA NoCharacters ==
  ASSUME NEW text
  PROVE  /\ Feeds(text, 0) = {} /\ Drawn(text, 0) = {}
         /\ Cardinality(Feeds(text, 0)) = 0 /\ Cardinality(Drawn(text, 0)) = 0
         /\ LastFeed(text, 0) = 0
<1>1. Feeds(text, 0) = {} /\ Drawn(text, 0) = {}
  BY DEF Feeds, Drawn
<1>2. Max({0}) = 0
  BY MaxIs
<1> QED
  BY <1>1, <1>2, FS_EmptySet DEF LastFeed

LEMMA FiniteParts ==
  ASSUME NEW text, NEW i \in Nat
  PROVE  /\ IsFiniteSet(Feeds(text, i)) /\ IsFiniteSet(Drawn(text, i))
         /\ Cardinality(Feeds(text, i)) \in Nat /\ Cardinality(Drawn(text, i)) \in Nat
<1>1. IsFiniteSet(1 .. i) /\ Feeds(text, i) \subseteq 1 .. i /\ Drawn(text, i) \subseteq 1 .. i
  BY FS_Interval DEF Feeds, Drawn
<1> QED
  BY <1>1, FS_Subset, FS_CardinalityType

LEMMA OneFeedMore ==
  ASSUME NEW text, NEW i \in Nat, text[i + 1] = "\n"
  PROVE  /\ Drawn(text, i + 1) = Drawn(text, i)
         /\ Cardinality(Feeds(text, i + 1)) = Cardinality(Feeds(text, i)) + 1
         /\ LastFeed(text, i + 1) = i + 1
<1>1. \A j : j \in 1 .. i + 1 <=> j \in 1 .. i \/ j = i + 1
  OBVIOUS
<1>2. Drawn(text, i + 1) = Drawn(text, i)
  BY <1>1 DEF Drawn
<1>3. Feeds(text, i + 1) = Feeds(text, i) \cup {i + 1} /\ i + 1 \notin Feeds(text, i)
  BY <1>1 DEF Feeds
<1>4. Cardinality(Feeds(text, i + 1)) = Cardinality(Feeds(text, i)) + 1
  BY <1>3, FiniteParts, FS_AddElement
<1>5. LastFeed(text, i + 1) = i + 1
  <2> DEFINE S == {0} \cup Feeds(text, i + 1)
  <2>1. S \subseteq Int /\ i + 1 \in S /\ \A b \in S : b <= i + 1
    BY <1>3 DEF Feeds
  <2> HIDE DEF S
  <2>2. Max(S) = i + 1
    BY <2>1, MaxIs
  <2> QED
    BY <2>2 DEF LastFeed, S
<1> QED
  BY <1>2, <1>4, <1>5

LEMMA OneCharacterMore ==
  ASSUME NEW text, NEW i \in Nat, text[i + 1] # "\n"
  PROVE  /\ Feeds(text, i + 1) = Feeds(text, i)
         /\ Drawn(text, i + 1) = Drawn(text, i) \cup {i + 1}
         /\ Cardinality(Drawn(text, i + 1)) = Cardinality(Drawn(text, i)) + 1
         /\ LastFeed(text, i + 1) = LastFeed(text, i)
<1>1. \A j : j \in 1 .. i + 1 <=> j \in 1 .. i \/ j = i + 1
  OBVIOUS
<1>2. Feeds(text, i + 1) = Feeds(text, i)
  BY <1>1 DEF Feeds
<1>3. Drawn(text, i + 1) = Drawn(text, i) \cup {i + 1} /\ i + 1 \notin Drawn(text, i)
  BY <1>1 DEF Drawn
<1>4. Cardinality(Drawn(text, i + 1)) = Cardinality(Drawn(text, i)) + 1
  BY <1>3, FiniteParts, FS_AddElement
<1> QED
  BY <1>2, <1>3, <1>4 DEF LastFeed

\* Where a text is when its first i characters have been drawn.
Cursor == [x : Int, y : Int, cells : Seq(Int \X Int)]

Laid(at, x, y, text, i) ==
  /\ LastFeed(text, i) \in 0 .. i
  /\ at.x = x + 6 * (i - LastFeed(text, i))
  /\ at.y = y + 8 * Cardinality(Feeds(text, i))
  /\ Len(at.cells) = Cardinality(Drawn(text, i))
  /\ \A j \in Drawn(text, i) :
        /\ Cardinality(Drawn(text, j)) \in 1 .. Cardinality(Drawn(text, i))
        /\ at.cells[Cardinality(Drawn(text, j))] = CellOf(x, y, text, j)

LEMMA NextType ==
  ASSUME NEW x \in Int, NEW at \in Cursor, NEW c
  PROVE  NextCell(at, x, c) \in Cursor
<1>1. /\ at.x \in Int /\ at.y \in Int /\ at.cells \in Seq(Int \X Int)
      /\ <<at.x, at.y>> \in Int \X Int
  BY DEF Cursor
<1>2. Append(at.cells, <<at.x, at.y>>) \in Seq(Int \X Int)
  BY <1>1, AppendProperties
<1> QED
  BY <1>1, <1>2 DEF NextCell, Cursor

LEMMA LaidWhen ==
  ASSUME NEW x, NEW y, NEW text, NEW i, NEW at,
         LastFeed(text, i) \in 0 .. i,
         at.x = x + 6 * (i - LastFeed(text, i)),
         at.y = y + 8 * Cardinality(Feeds(text, i)),
         Len(at.cells) = Cardinality(Drawn(text, i)),
         \A j \in Drawn(text, i) :
            /\ Cardinality(Drawn(text, j)) \in 1 .. Cardinality(Drawn(text, i))
            /\ at.cells[Cardinality(Drawn(text, j))] = CellOf(x, y, text, j)
  PROVE  Laid(at, x, y, text, i)
BY DEF Laid

LEMMA NextLaid ==
  ASSUME NEW x \in Int, NEW y \in Int, NEW text, NEW i \in Nat, NEW at \in Cursor,
         Laid(at, x, y, text, i)
  PROVE  Laid(NextCell(at, x, text[i + 1]), x, y, text, i + 1)
<1> DEFINE next == NextCell(at, x, text[i + 1])
           n == Cardinality(Drawn(text, i))
           f == Cardinality(Feeds(text, i))
           l == LastFeed(text, i)
<1>1. /\ at.x \in Int /\ at.y \in Int /\ at.cells \in Seq(Int \X Int)
      /\ n \in Nat /\ f \in Nat
  BY FiniteParts DEF Cursor
<1>2. /\ l \in 0 .. i
      /\ at.x = x + 6 * (i - l)
      /\ at.y = y + 8 * f
      /\ Len(at.cells) = n
      /\ \A j \in Drawn(text, i) :
            /\ Cardinality(Drawn(text, j)) \in 1 .. n
            /\ at.cells[Cardinality(Drawn(text, j))] = CellOf(x, y, text, j)
  BY DEF Laid
<1>3. CASE text[i + 1] = "\n"
  <2>1. next = [x |-> x, y |-> at.y + 8, cells |-> at.cells]
    BY <1>3 DEF NextCell
  <2>2. next.x = x /\ next.y = at.y + 8 /\ next.cells = at.cells
    BY <2>1
  <2> HIDE DEF next
  <2>3. /\ Drawn(text, i + 1) = Drawn(text, i)
        /\ Cardinality(Feeds(text, i + 1)) = f + 1
        /\ LastFeed(text, i + 1) = i + 1
    BY <1>3, OneFeedMore
  <2> HIDE DEF n, f, l
  <2>4. next.x = x + 6 * (i + 1 - (i + 1)) /\ i + 1 \in 0 .. i + 1
    BY <2>2
  <2>5. next.y = y + 8 * (f + 1)
    BY <1>1, <1>2, <2>2
  <2>6. Laid(next, x, y, text, i + 1)
    BY <1>2, <2>2, <2>3, <2>4, <2>5 DEF Laid, n
  <2> QED
    BY <2>6 DEF next
<1>4. CASE text[i + 1] # "\n"
  <2> DEFINE cell == <<at.x, at.y>>
  <2>1. next = [x |-> at.x + 6, y |-> at.y, cells |-> Append(at.cells, cell)]
    BY <1>4 DEF NextCell
  <2>2. next.x = at.x + 6 /\ next.y = at.y /\ next.cells = Append(at.cells, cell)
    BY <2>1
  <2> HIDE DEF next
  <2>3. /\ Feeds(text, i + 1) = Feeds(text, i)
        /\ Drawn(text, i + 1) = Drawn(text, i) \cup {i + 1}
        /\ Cardinality(Drawn(text, i + 1)) = n + 1
        /\ LastFeed(text, i + 1) = l
    BY <1>4, OneCharacterMore
  <2>4. cell \in Int \X Int
    BY <1>1
  <2>5. cell = CellOf(x, y, text, i + 1)
    <3>1. at.x = x + 6 * (i + 1 - l - 1)
      <4> HIDE DEF l, f
      <4> QED
        BY <1>1, <1>2
    <3>2. CellOf(x, y, text, i + 1) = <<x + 6 * (i + 1 - l - 1), y + 8 * f>>
      <4>1. /\ LastFeed(text, i + 1) = l /\ Cardinality(Feeds(text, i + 1)) = f
            /\ l \in Int /\ f \in Int
        BY <1>1, <1>2, <2>3
      <4> HIDE DEF l, f, n, cell
      <4> QED
        BY <4>1 DEF CellOf
    <3> QED
      <4> HIDE DEF l, f
      <4> QED
        BY <1>2, <3>1, <3>2
  <2> HIDE DEF cell, n, f, l
  <2>6. /\ Len(next.cells) = n + 1
        /\ \A k \in 1 .. n : next.cells[k] = at.cells[k]
        /\ next.cells[n + 1] = cell
    <3>1. at.cells \in Seq(Int \X Int) /\ Len(at.cells) = n
      BY <1>1, <1>2
    <3> DEFINE cells == at.cells
    <3> HIDE DEF cells
    <3>2. /\ Len(Append(cells, cell)) = Len(cells) + 1
          /\ \A k \in 1 .. Len(cells) : Append(cells, cell)[k] = cells[k]
          /\ Append(cells, cell)[Len(cells) + 1] = cell
      BY <2>4, <3>1, AppendProperties DEF cells
    <3> QED
      BY <2>2, <3>1, <3>2, Zenon DEF cells
  <2>7. next.x = x + 6 * (i + 1 - l) /\ l \in 0 .. i + 1
    BY <1>1, <1>2, <2>2
  <2>8. ASSUME NEW j \in Drawn(text, i + 1)
        PROVE  /\ Cardinality(Drawn(text, j)) \in 1 .. n + 1
               /\ next.cells[Cardinality(Drawn(text, j))] = CellOf(x, y, text, j)
    <3>1. CASE j \in Drawn(text, i)
      <4>1. /\ Cardinality(Drawn(text, j)) \in 1 .. n
            /\ at.cells[Cardinality(Drawn(text, j))] = CellOf(x, y, text, j)
        BY <1>2, <3>1
      <4> DEFINE m == Cardinality(Drawn(text, j))
      <4> HIDE DEF m
      <4>2. m \in 1 .. n /\ at.cells[m] = CellOf(x, y, text, j)
        BY <4>1 DEF m
      <4>3. m \in 1 .. n + 1
        BY <1>1, <4>2
      <4>4. next.cells[m] = at.cells[m]
        BY <2>6, <4>2, Zenon
      <4> QED
        BY <4>2, <4>3, <4>4 DEF m
    <3>2. CASE j = i + 1
      <4>1. Cardinality(Drawn(text, j)) = n + 1 /\ next.cells[n + 1] = CellOf(x, y, text, j)
        BY <2>3, <2>5, <2>6, <3>2, Zenon
      <4>2. n + 1 \in 1 .. n + 1
        BY <1>1
      <4> QED
        BY <4>1, <4>2, Zenon
    <3> QED
      BY <2>3, <3>1, <3>2
  <2>9. Laid(next, x, y, text, i + 1)
    <3>1. next.y = y + 8 * Cardinality(Feeds(text, i + 1))
      BY <1>2, <2>2, <2>3 DEF f
    <3>2. /\ LastFeed(text, i + 1) \in 0 .. i + 1
          /\ next.x = x + 6 * (i + 1 - LastFeed(text, i + 1))
      BY <2>3, <2>7
    <3>3. /\ Len(next.cells) = Cardinality(Drawn(text, i + 1))
          /\ \A j \in Drawn(text, i + 1) :
                Cardinality(Drawn(text, j)) \in 1 .. Cardinality(Drawn(text, i + 1))
      BY <2>3, <2>6, <2>8
    <3>4. \A j \in Drawn(text, i + 1) :
            next.cells[Cardinality(Drawn(text, j))] = CellOf(x, y, text, j)
      BY <2>8
    <3> QED
      BY <3>1, <3>2, <3>3, <3>4, LaidWhen
  <2> QED
    BY <2>9 DEF next
<1> QED
  BY <1>3, <1>4

LEMMA TextIsLaid ==
  ASSUME NEW x \in Int, NEW y \in Int, NEW C, NEW text \in Seq(C)
  PROVE  LET cells == TextCells(x, y, text) IN
         /\ Len(cells) = Cardinality(Drawn(text, Len(text)))
         /\ \A i \in Drawn(text, Len(text)) :
               cells[Cardinality(Drawn(text, i))] = CellOf(x, y, text, i)
<1> DEFINE n == Len(text)
           start == [x |-> x, y |-> y, cells |-> <<>>]
           step == [i \in 1 .. n |-> [at \in Cursor |-> NextCell(at, x, text[i])]]
           Walked(f) == f = [i \in 0 .. n |-> IF i = 0 THEN start
                                              ELSE NextCell(f[i - 1], x, text[i])]
<1>1. n \in Nat /\ start \in Cursor
  <2>1. <<>> \in Seq(Int \X Int)
    BY EmptySeq
  <2> QED
    BY <2>1, LenProperties DEF Cursor
<1>2. step \in [1 .. n -> [Cursor -> Cursor]]
  BY NextType
<1>3. PICK g \in [0 .. n -> Cursor] : g[0] = start /\ \A i \in 1 .. n : g[i] = step[i][g[i - 1]]
  <2> HIDE DEF step, n, start
  <2>1. Turns(Cursor, start, step, n) # {}
    BY <1>1, <1>2, Iterated
  <2> QED
    BY <2>1 DEF Turns
<1>4. \E f : Walked(f)
  <2>1. ASSUME NEW i \in 1 .. n
        PROVE  g[i] = NextCell(g[i - 1], x, text[i])
    <3>1. g[i - 1] \in Cursor
      <4> HIDE DEF n
      <4> QED
        BY <1>1, <1>3
    <3> QED
      BY <1>3, <3>1
  <2> HIDE DEF start, n
  <2>2. g = [i \in 0 .. n |-> g[i]]
    BY <1>3
  <2>3. \A i \in 0 .. n : g[i] = IF i = 0 THEN start ELSE NextCell(g[i - 1], x, text[i])
    BY <1>1, <1>3, <2>1
  <2>4. Walked(g)
    BY <2>2, <2>3
  <2> QED
    BY <2>4
<1> DEFINE f == CHOOSE h : Walked(h)
<1>5. Walked(f)
  <2> HIDE DEF Walked
  <2> QED
    BY <1>4, Zenon
<1>6. TextCells(x, y, text) = f[n].cells
  BY Zenon DEF TextCells
<1> HIDE DEF f
<1>7. /\ f[0] = start
      /\ \A i \in 1 .. n : f[i] = NextCell(f[i - 1], x, text[i])
  <2> HIDE DEF n, start
  <2>1. 0 \in 0 .. n /\ \A i \in 1 .. n : i \in 0 .. n /\ i # 0
    BY <1>1
  <2> QED
    BY <1>5, <2>1
<1>8. f[n] \in Cursor /\ Laid(f[n], x, y, text, n)
  <2> DEFINE Good == {i \in 0 .. n : f[i] \in Cursor /\ Laid(f[i], x, y, text, i)}
  <2>1. 0 \in Good
    <3>1. Laid(start, x, y, text, 0)
      <4>1. start.x = x /\ start.y = y /\ Len(start.cells) = 0
        OBVIOUS
      <4> HIDE DEF start
      <4> QED
        BY <4>1, NoCharacters DEF Laid
    <3> QED
      BY <1>1, <1>7, <3>1
  <2>2. ASSUME NEW i \in 0 .. n - 1, i \in Good
        PROVE  i + 1 \in Good
    <3>1. i \in Nat /\ i + 1 \in 1 .. n /\ i + 1 \in 0 .. n /\ i + 1 - 1 = i
      <4> HIDE DEF n
      <4> QED
        BY <1>1
    <3>2. f[i + 1] = NextCell(f[i], x, text[i + 1])
      BY <1>7, <3>1
    <3>3. f[i] \in Cursor /\ Laid(f[i], x, y, text, i)
      BY <2>2
    <3>4. NextCell(f[i], x, text[i + 1]) \in Cursor
      BY <3>3, NextType
    <3>5. Laid(NextCell(f[i], x, text[i + 1]), x, y, text, i + 1)
      BY <3>1, <3>3, NextLaid
    <3> QED
      BY <3>1, <3>2, <3>4, <3>5
  <2> HIDE DEF Good
  <2>3. 0 .. n \subseteq Good
    BY <1>1, <2>1, <2>2, UpToBound
  <2> QED
    BY <1>1, <2>3 DEF Good
<1> QED
  BY <1>6, <1>8 DEF Laid

LEMMA TextsAreLaidOut == TextLaidOut
<1> SUFFICES ASSUME NEW x \in Int, NEW y \in Int, NEW text \in Seq(STRING)
             PROVE  LET cells == TextCells(x, y, text) IN
                    /\ Len(cells) = Cardinality(Drawn(text, Len(text)))
                    /\ \A i \in Drawn(text, Len(text)) :
                          cells[Cardinality(Drawn(text, i))] =
                             <<x + 6 * (i - Max({0} \cup Feeds(text, i)) - 1),
                               y + 8 * Cardinality(Feeds(text, i))>>
  BY CoordinatesAssumption, TextsAssumption DEF TextLaidOut
<1> QED
  BY TextIsLaid DEF CellOf, LastFeed

\* Lines are the straight lines to within half a pixel, the edges of a rectangle lie inside
\* its filling, and texts have their cells in rows and columns, for every screen, every
\* coordinate and every text (CEWindowServer.c 77-88, 120-151 and CEKernel.c:341).
THEOREM DrawingIsExact == Spec => []DrawingExact
<1>1. LineClosest
  <2>1. \A c \in Coordinates : c \in Int
    BY CoordinatesAssumption
  <2>2. \A x0, y0, x1, y1 \in Coordinates : Closest(x0, y0, x1, y1)
    BY <2>1, LineIsClosest
  <2> QED
    BY <2>2, Zenon DEF LineClosest, Closest
<1>2. DrawingExact
  BY <1>1, EdgesAreInside, TextsAreLaidOut DEF DrawingExact
<1> QED
  BY <1>2, PTL
=============================================================================
