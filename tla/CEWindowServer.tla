--------------------------- MODULE CEWindowServer ---------------------------
(***************************************************************************)
(* The window server with everything that drives it: the guest's window,    *)
(* message and timer calls (CEKernelDispatch), the host's touch and         *)
(* keyboard input (CERuntimePostPointer, ...PostKey, ...PostCharacter) and  *)
(* the timers CERuntimeRunSlice fires.  All of them run on one thread, but  *)
(* the host posts between any two slices, that is between any two guest     *)
(* calls, so the actions interleave freely.                                 *)
(*                                                                          *)
(* The message queue is the bounded FIFO that CEMessageQueue implements.    *)
(* A message keeps who produced it instead of its number: "USER" is what    *)
(* the guest posts itself.  Coordinates are one-dimensional.                *)
(***************************************************************************)
EXTENDS Naturals, Sequences, FiniteSets

CONSTANTS MaxWindows,   \* CE_MAX_WINDOWS
          MaxHandles,   \* bound on the windows ever created in the model
          MaxClasses,   \* CE_MAX_WINDOW_CLASSES
          QueueSize,    \* CE_MESSAGE_QUEUE_SIZE
          MaxTimers,    \* CE_MAX_TIMERS
          ClassNames,   \* window class names, among them "BUTTON"
          Frames,       \* [x, width] of the windows the guest asks for
          Points,       \* where the host's pointer can be
          Keys,         \* virtual keys
          CharacterKeys, \* those TranslateMessage makes a character of
          TimerIds      \* identifiers the guest passes to SetTimer, 0 = choose

ASSUME MaxWindowsAssumption == MaxWindows \in Nat
ASSUME MaxHandlesAssumption == MaxHandles \in Nat
ASSUME MaxClassesAssumption == MaxClasses \in Nat
ASSUME QueueSizeAssumption == QueueSize \in Nat \ {0}
ASSUME MaxTimersAssumption == MaxTimers \in Nat
ASSUME FramesAssumption == Frames \subseteq [x : Nat, width : Nat \ {0}]
ASSUME PointsAssumption == Points \subseteq Nat
ASSUME TimerIdsAssumption == TimerIds \subseteq Nat

VARIABLES windows,      \* server->windows, bottom to top
          next_handle,
          focus,        \* a window handle, 0 for none
          capture,
          classes,      \* names registered with a window procedure
          queue,        \* the contents of the message ring
          timers,       \* server->timers: NoTimer, or one Killed, is an inactive slot
          key_state     \* the keys that are down

vars == <<windows, next_handle, focus, capture, classes, queue, timers, key_state>>

windowVars == <<windows, next_handle, classes>>
inputVars == <<focus, capture, key_state>>

NoTimer == [hwnd |-> 0, identifier |-> 0, due |-> FALSE, active |-> FALSE]

Fifo == INSTANCE MessageQueue WITH Messages <- {}
-----------------------------------------------------------------------------
Handles == {windows[i].handle : i \in 1 .. Len(windows)}

\* Handles the guest was ever given; it may still use those of dead windows.
Issued == 1 .. next_handle - 1

\* CEWindowFind: handles are unique, so the first match is the only one.
CEWindowFind(h) == windows[CHOOSE i \in 1 .. Len(windows) : windows[i].handle = h]

Message(h, m, p) == [hwnd |-> h, message |-> m, param |-> p]

\* Faulty variant of PostedAll: the queue grows beyond its size.
PostedBeyond(q, ms) == q \o ms

\* Post the messages ms in order; those that find the queue full are lost.
PostedAll(q, ms) ==
  SubSeq(q \o ms, 1, IF Len(q) + Len(ms) <= QueueSize THEN Len(q) + Len(ms) ELSE QueueSize)

Covers(w, x) == w.visible /\ w.enabled /\ x >= w.x /\ x < w.x + w.width

\* t is the topmost visible window under x, or 0 when there is none.
IsHit(x, t) ==
  \/ t = 0 /\ \A i \in 1 .. Len(windows) : ~Covers(windows[i], x)
  \/ \E i \in 1 .. Len(windows) :
        /\ t = windows[i].handle
        /\ Covers(windows[i], x)
        /\ \A j \in i + 1 .. Len(windows) : ~Covers(windows[j], x)

\* Faulty variant of IsPointerTarget: the hit test ignores the capture.
IsHitTarget(x, t) == IsHit(x, t)

\* Where a pointer event goes: the capturing window wins over the hit test.
IsPointerTarget(x, t) == IF capture \in Handles THEN t = capture ELSE IsHit(x, t)
-----------------------------------------------------------------------------
Init ==
  /\ windows = <<>>
  /\ next_handle = 1
  /\ focus = 0
  /\ capture = 0
  /\ classes = {}
  /\ queue = <<>>
  /\ timers = [i \in 1 .. MaxTimers |-> NoTimer]
  /\ key_state = {}

\* Faulty variant of CEWindowRegisterClass: one class too many.
RegisterClassBeyond(name) ==
  /\ name \notin classes
  /\ Cardinality(classes) <= MaxClasses
  /\ classes' = classes \cup {name}
  /\ UNCHANGED <<windows, next_handle, inputVars, queue, timers>>

CEWindowRegisterClass(name) ==
  /\ name \notin classes
  /\ Cardinality(classes) < MaxClasses
  /\ classes' = classes \cup {name}
  /\ UNCHANGED <<windows, next_handle, inputVars, queue, timers>>

\* Faulty variant of CreateWindow: one window too many.
CreateWindowBeyond(name, frame, visible, parent) ==
  /\ Len(windows) <= MaxWindows
  /\ next_handle <= MaxHandles
  /\ windows' = Append(windows,
       [handle |-> next_handle, parent |-> parent, class_name |-> name,
        wndproc |-> name \in classes, visible |-> visible, enabled |-> TRUE,
        x |-> frame.x, width |-> frame.width])
  /\ next_handle' = next_handle + 1
  /\ focus' = next_handle
  /\ queue' = Fifo!Posted(queue, Message(next_handle, "CREATE", 0))
  /\ UNCHANGED <<capture, classes, timers, key_state>>

\* CreateWindowExW: the window goes on top, takes the focus even when it is not
\* visible and is sent WM_CREATE; a child's frame is relative to its parent's.
CreateWindow(name, frame, visible, parent) ==
  /\ Len(windows) < MaxWindows
  /\ next_handle <= MaxHandles
  /\ windows' = Append(windows,
       [handle |-> next_handle, parent |-> parent, class_name |-> name,
        wndproc |-> name \in classes, visible |-> visible, enabled |-> TRUE,
        x |-> frame.x + (IF parent \in Handles THEN CEWindowFind(parent).x ELSE 0),
        width |-> frame.width])
  /\ next_handle' = next_handle + 1
  /\ focus' = next_handle
  /\ queue' = Fifo!Posted(queue, Message(next_handle, "CREATE", 0))
  /\ UNCHANGED <<capture, classes, timers, key_state>>

\* Faulty variants of CEWindowDestroy: focus and capture keep the window, and its
\* handle is given back.
DestroyKeepsFocus(h) ==
  /\ \E i \in 1 .. Len(windows) :
        /\ windows[i].handle = h
        /\ windows' = [j \in 1 .. Len(windows) - 1 |->
                         IF j < i THEN windows[j] ELSE windows[j + 1]]
  /\ UNCHANGED <<next_handle, classes, inputVars, queue, timers>>

DestroyFreesHandle(h) ==
  /\ Len(windows) > 0 /\ windows[Len(windows)].handle = h /\ h = next_handle - 1
  /\ windows' = SubSeq(windows, 1, Len(windows) - 1)
  /\ next_handle' = h
  /\ focus' = IF focus = h THEN 0 ELSE focus
  /\ capture' = IF capture = h THEN 0 ELSE capture
  /\ UNCHANGED <<classes, queue, timers, key_state>>

\* DestroyWindow: the windows above move down by one; children, timers and
\* queued messages of the window stay.
CEWindowDestroy(h) ==
  /\ \E i \in 1 .. Len(windows) :
        /\ windows[i].handle = h
        /\ windows' = [j \in 1 .. Len(windows) - 1 |->
                         IF j < i THEN windows[j] ELSE windows[j + 1]]
  /\ focus' = IF focus = h THEN 0 ELSE focus
  /\ capture' = IF capture = h THEN 0 ELSE capture
  /\ UNCHANGED <<next_handle, classes, queue, timers, key_state>>

ShowWindow(h, show) ==
  /\ h \in Handles
  /\ windows' = [i \in 1 .. Len(windows) |->
                   IF windows[i].handle = h THEN [windows[i] EXCEPT !.visible = show]
                   ELSE windows[i]]
  /\ queue' = IF show THEN Fifo!Posted(queue, Message(h, "PAINT", 0)) ELSE queue
  /\ UNCHANGED <<next_handle, classes, inputVars, timers>>

\* InvalidateRect posts WM_PAINT to whatever handle the guest names.
InvalidateRect(h) ==
  /\ queue' = Fifo!Posted(queue, Message(h, "PAINT", 0))
  /\ UNCHANGED <<windowVars, inputVars, timers>>

PostMessage(h) ==
  /\ queue' = Fifo!Posted(queue, Message(h, "USER", 0))
  /\ UNCHANGED <<windowVars, inputVars, timers>>

\* GetMessageW and PeekMessageW both remove the oldest message; with an empty
\* queue they return 0 and change nothing.  If the guest's buffer cannot be written
\* the message is gone as well.
GetMessage ==
  /\ queue # <<>>
  /\ queue' = Tail(queue)
  /\ UNCHANGED <<windowVars, inputVars, timers>>

\* TranslateMessage posts the character of a key press behind what is queued.  The
\* MSG is read from the guest's memory: it may be one that was taken, now or long
\* before, or one the guest has made up.
TranslateMessage(h, k) ==
  /\ k \in CharacterKeys
  /\ queue' = Fifo!Posted(queue, Message(h, "CHAR", k))
  /\ UNCHANGED <<windowVars, inputVars, timers>>

\* Faulty variant of SetTimer: a timer of another window counts as the same timer.
SetTimerByNumber(h, id) ==
  LET Usable(t) == ~t.active \/ t.identifier = id IN
  /\ \E i \in 1 .. MaxTimers :
        /\ Usable(timers[i])
        /\ \A j \in 1 .. i - 1 : ~Usable(timers[j])
        /\ timers' = [timers EXCEPT ![i] =
             [hwnd |-> h, identifier |-> IF id = 0 THEN i ELSE id, due |-> FALSE,
              active |-> TRUE]]
  /\ UNCHANGED <<windowVars, inputVars, queue>>

\* SetTimer takes the first slot that is inactive or holds the same timer; the
\* identifier 0 asks for the number of that slot.
SetTimer(h, id) ==
  LET Usable(t) == ~t.active \/ (t.hwnd = h /\ t.identifier = id) IN
  /\ \E i \in 1 .. MaxTimers :
        /\ Usable(timers[i])
        /\ \A j \in 1 .. i - 1 : ~Usable(timers[j])
        /\ timers' = [timers EXCEPT ![i] =
             [hwnd |-> h, identifier |-> IF id = 0 THEN i ELSE id, due |-> FALSE,
              active |-> TRUE]]
  /\ UNCHANGED <<windowVars, inputVars, queue>>

\* A slot that is free again: of its contents only the time can still tell.
Killed(t) == [NoTimer EXCEPT !.due = t.due]

\* Faulty variant of KillTimer: only the first slot of the timer is found.
KillTimerFirst(h, id) ==
  LET Holds(t) == t.active /\ t.hwnd = h /\ t.identifier = id IN
  /\ timers' = [i \in 1 .. MaxTimers |->
                  IF Holds(timers[i]) /\ \A j \in 1 .. i - 1 : ~Holds(timers[j])
                  THEN Killed(timers[i]) ELSE timers[i]]
  /\ UNCHANGED <<windowVars, inputVars, queue>>

\* KillTimer frees every slot that holds the timer.
KillTimer(h, id) ==
  LET Holds(t) == t.active /\ t.hwnd = h /\ t.identifier = id IN
  /\ timers' = [i \in 1 .. MaxTimers |->
                  IF Holds(timers[i]) THEN Killed(timers[i]) ELSE timers[i]]
  /\ UNCHANGED <<windowVars, inputVars, queue>>

\* Time passes until the slot's next_fire.
Elapse(i) ==
  /\ timers[i].active
  /\ timers' = [timers EXCEPT ![i].due = TRUE]
  /\ UNCHANGED <<windowVars, inputVars, queue>>

\* Faulty variant of Due: whether the slot is in use is not asked.
DueOrKilled == {i \in 1 .. MaxTimers : timers[i].due}

\* The timers that fire: a killed one keeps its time, but not its slot.
Due == {i \in 1 .. MaxTimers : timers[i].active /\ timers[i].due}

\* The start of CERuntimeRunSlice: every due timer is posted in slot order and
\* rearmed, whether or not the queue had room for its message.
FireTimers ==
  /\ Due # {}
  /\ \E slot \in [1 .. Cardinality(Due) -> Due] :
        /\ \A j, k \in 1 .. Cardinality(Due) : j < k => slot[j] < slot[k]
        /\ queue' = PostedAll(queue, [k \in 1 .. Cardinality(Due) |->
             Message(timers[slot[k]].hwnd, "TIMER", timers[slot[k]].identifier)])
  /\ timers' = [i \in 1 .. MaxTimers |->
                  IF i \in Due THEN [timers[i] EXCEPT !.due = FALSE] ELSE timers[i]]
  /\ UNCHANGED <<windowVars, inputVars>>

\* A press captures the pointer for the window it hits and focuses it; off any
\* window the message goes to the focus.
PointerDown(x) ==
  /\ \E target \in Handles \cup {0} :
        /\ IsPointerTarget(x, target)
        /\ capture' = IF target # 0 THEN target ELSE capture
        /\ focus' = IF target # 0 THEN target ELSE focus
        /\ queue' = Fifo!Posted(queue,
                      Message(IF target # 0 THEN target ELSE focus, "LBUTTONDOWN", 0))
  /\ UNCHANGED <<windowVars, timers, key_state>>

\* The WM_COMMAND a release sends to the parent of the BUTTON it hits.
CommandOf(target) ==
  LET w == CEWindowFind(target) IN
  IF target # 0 /\ w.class_name = "BUTTON" /\ w.parent # 0
  THEN <<Message(w.parent, "COMMAND", target)>> ELSE <<>>

\* Faulty variant of PointerUp: the command is posted before the release.
PointerUpCommandFirst(x) ==
  /\ \E target \in Handles \cup {0} :
        /\ IsPointerTarget(x, target)
        /\ queue' = PostedAll(queue, CommandOf(target)
             \o <<Message(IF target # 0 THEN target ELSE focus, "LBUTTONUP", 0)>>)
        /\ capture' = IF target # 0 THEN 0 ELSE capture
  /\ UNCHANGED <<windowVars, focus, timers, key_state>>

\* A release goes to the capturing window and ends the capture.
PointerUp(x) ==
  /\ \E target \in Handles \cup {0} :
        /\ IsPointerTarget(x, target)
        /\ queue' = PostedAll(queue,
             <<Message(IF target # 0 THEN target ELSE focus, "LBUTTONUP", 0)>>
               \o CommandOf(target))
        /\ capture' = IF target # 0 THEN 0 ELSE capture
  /\ UNCHANGED <<windowVars, focus, timers, key_state>>

\* key_state follows the host even when the message is lost to a full queue.
PostKey(k, down) ==
  /\ key_state' = IF down THEN key_state \cup {k} ELSE key_state \ {k}
  /\ queue' = Fifo!Posted(queue, Message(focus, IF down THEN "KEYDOWN" ELSE "KEYUP", k))
  /\ UNCHANGED <<windowVars, focus, capture, timers>>

PostCharacter(k) ==
  /\ queue' = Fifo!Posted(queue, Message(focus, "CHAR", k))
  /\ UNCHANGED <<windowVars, inputVars, timers>>
-----------------------------------------------------------------------------
GuestStep ==
  \/ \E name \in ClassNames : CEWindowRegisterClass(name)
  \/ \E name \in ClassNames, frame \in Frames, visible \in BOOLEAN,
        parent \in Issued \cup {0} : CreateWindow(name, frame, visible, parent)
  \/ \E h \in Issued : CEWindowDestroy(h)
  \/ \E h \in Issued, show \in BOOLEAN : ShowWindow(h, show)
  \/ \E h \in Issued : InvalidateRect(h)
  \/ \E h \in Issued \cup {0} : PostMessage(h)
  \/ GetMessage
  \/ \E h \in Issued \cup {0}, k \in Keys : TranslateMessage(h, k)
  \/ \E h \in Issued \cup {0}, id \in TimerIds : SetTimer(h, id)
  \/ \E h \in Issued \cup {0}, id \in TimerIds : KillTimer(h, id)

HostStep ==
  \/ \E i \in 1 .. MaxTimers : Elapse(i)
  \/ FireTimers
  \/ \E x \in Points : PointerDown(x)
  \/ \E x \in Points : PointerUp(x)
  \/ \E k \in Keys, down \in BOOLEAN : PostKey(k, down)
  \/ \E k \in Keys : PostCharacter(k)

Next == GuestStep \/ HostStep

Spec == Init /\ [][Next]_vars
-----------------------------------------------------------------------------
Window == [handle : Nat \ {0}, parent : Nat, class_name : ClassNames, wndproc : BOOLEAN,
           visible : BOOLEAN, enabled : BOOLEAN, x : Nat, width : Nat \ {0}]

MessageKinds == {"CREATE", "PAINT", "TIMER", "LBUTTONDOWN", "LBUTTONUP", "COMMAND",
                 "KEYDOWN", "KEYUP", "CHAR", "USER"}

AMessage == [hwnd : Nat, message : MessageKinds, param : Nat \cup Keys]

Timer == [hwnd : Nat, identifier : Nat, due : BOOLEAN, active : BOOLEAN]

\* Every table stays within its limit and holds values of its kind.
TypeOK ==
  /\ windows \in Seq(Window) /\ Len(windows) <= MaxWindows
  /\ next_handle \in Nat \ {0}
  /\ focus \in Nat
  /\ capture \in Nat
  /\ classes \subseteq ClassNames
  /\ IsFiniteSet(classes) /\ Cardinality(classes) <= MaxClasses
  /\ queue \in Seq(AMessage) /\ Len(queue) <= QueueSize
  /\ timers \in [1 .. MaxTimers -> Timer]
  /\ key_state \subseteq Keys

\* Keyboard focus and pointer capture never name a destroyed window, whichever
\* of creation, presses, releases and destruction come between (CEWindowDestroy
\* 33-34, CreateWindow 257, PostPointer 317 and 326).
FocusCaptureLive == {focus, capture} \subseteq Handles \cup {0}

\* Handles are given out once: a window that is gone never comes back, now or later,
\* under a handle the guest may still hold, in a timer, a message or a child's parent.
HandleNeverReused ==
  [][\A h \in Issued : h \in Issued' /\ (h \notin Handles => h \notin Handles')]_vars

\* No message for a window is queued ahead of its WM_CREATE, though timers and
\* posts may name any handle the guest ever held (CreateWindow 257 against the
\* FIFO; it rests on handles that are never reused).
CreateLeads ==
  \A i, j \in 1 .. Len(queue) :
     i < j /\ queue[j].message = "CREATE" => queue[i].hwnd # queue[j].hwnd

\* A WM_COMMAND is queued only directly behind the release of the very BUTTON it
\* reports; nothing can come between them, and a lost release loses it as well.
CommandFollowsRelease ==
  \A i \in 2 .. Len(queue) : queue[i].message = "COMMAND" =>
     queue[i - 1] = Message(queue[i].param, "LBUTTONUP", 0)

\* The messages a step has appended (steps that take a message append none).
NewMessages == {queue'[k] : k \in Len(queue) + 1 .. Len(queue')}

PointerKinds == {"LBUTTONDOWN", "LBUTTONUP"}

\* While a window holds the pointer, every pointer message goes to it, even when
\* another window appears on top, and the capture is never handed to another
\* window: it ends with a release or with the window (CERuntimePostPointer).
CaptureKept ==
  [][capture # 0 =>
       /\ \A m \in NewMessages : m.message \in PointerKinds => m.hwnd = capture
       /\ capture' \in {0, capture}
       /\ capture' # capture =>
             \/ capture \notin Handles'
             \/ Len(queue') >= QueueSize
             \/ Message(capture, "LBUTTONUP", 0) \in NewMessages]_vars

\* What timers are armed, whatever slots hold them.
Armed == {<<timers[i].hwnd, timers[i].identifier>> : i \in {k \in 1 .. MaxTimers : timers[k].active}}

\* Every slot that holds another armed timer than <<h, id>> stays as it is.
OthersKept(h, id) ==
  \A i \in 1 .. MaxTimers :
     timers[i].active /\ <<timers[i].hwnd, timers[i].identifier>> # <<h, id>> =>
       timers'[i] = timers[i]

\* SetTimer arms the timer it names, under the number of its slot if it asked for a
\* number, and KillTimer disarms the one it names in every slot it holds; the slots of
\* all other timers stay as they are, their times included, and nothing else arms or
\* disarms a timer (SetTimer's slot choice 344, KillTimer's loop 345, RunSlice 295).
TimersIndependent ==
  [][timers' # timers =>
       \/ \E h \in Issued \cup {0}, id \in TimerIds :
             \/ /\ SetTimer(h, id)
                /\ \E n \in IF id = 0 THEN 1 .. MaxTimers ELSE {id} :
                      Armed' = Armed \cup {<<h, n>>} /\ OthersKept(h, n)
             \/ KillTimer(h, id) /\ Armed' = Armed \ {<<h, id>>} /\ OthersKept(h, id)
       \/ ((\E i \in 1 .. MaxTimers : Elapse(i)) \/ FireTimers) /\ Armed' = Armed]_vars

\* A WM_TIMER enters the queue only for a timer that is armed, so none follows a
\* KillTimer that found no message queued, though the killed slot keeps its time.
TimerMessagesArmed ==
  [][\A m \in NewMessages : m.message = "TIMER" => <<m.hwnd, m.param>> \in Armed]_vars
=============================================================================
