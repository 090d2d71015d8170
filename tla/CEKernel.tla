------------------------------ MODULE CEKernel ------------------------------
(***************************************************************************)
(* The kernel's handle table and the host objects behind it: the FILE of a  *)
(* file handle and the DIR of a find handle.  A handle is the index of its  *)
(* slot, the lowest free one when it was made, so a closed handle comes     *)
(* back.  Every call that makes, uses or closes a handle is an action; what *)
(* the host does and what the guest's pointers allow is left open.          *)
(***************************************************************************)
EXTENDS Naturals, FiniteSets

CONSTANTS MaxHandles,    \* CE_MAX_KERNEL_HANDLES; handle 0 is never used
          MaxResources   \* bound on the host objects ever opened in the model

ASSUME MaxHandlesAssumption == MaxHandles \in Nat \ {0}
ASSUME MaxResourcesAssumption == MaxResources \in Nat

VARIABLES handles,    \* kernel->handles
          open,       \* host objects that are open
          opened,     \* how many host objects were ever opened
          known,      \* handles the guest was given since their slot was taken
          alive       \* the runtime exists

vars == <<handles, open, opened, known, alive>>

CEHandle == 1 .. MaxHandles - 1

Free == [type |-> "NONE", resource |-> 0, signaled |-> FALSE]
Object(type, resource, signaled) == [type |-> type, resource |-> resource, signaled |-> signaled]

HasType(h, types) == h \in CEHandle /\ handles[h].type \in types

Full == \A h \in CEHandle : handles[h].type # "NONE"

\* Faulty variant of IsLowestFree: the slot behind as many slots as are taken.
IsNextByCount(h) == h = Cardinality({g \in CEHandle : handles[g].type # "NONE"}) + 1

\* h is the slot CEKernelAddHandle takes.
IsLowestFree(h) ==
  /\ h \in CEHandle
  /\ handles[h].type = "NONE"
  /\ \A g \in 1 .. h - 1 : handles[g].type # "NONE"

\* CEKernelAddHandle for an object; with a full table the caller gets 0.
CEKernelAddHandle(h, object) ==
  IsLowestFree(h) /\ handles' = [handles EXCEPT ![h] = object]

\* Faulty variant of CEKernelCloseHandle: the slot keeps its object after the host object
\* is closed.
CloseKeepsSlot(h) ==
  /\ handles[h].type # "NONE"
  /\ open' = open \ {handles[h].resource}
  /\ UNCHANGED <<handles, known>>

\* CEKernelCloseHandle: references is 1 for every object there is, so the host
\* object is closed and the slot is free again.
CEKernelCloseHandle(h) ==
  /\ handles[h].type # "NONE"
  /\ handles' = [handles EXCEPT ![h] = Free]
  /\ open' = open \ {handles[h].resource}
  /\ known' = known \ {h}
-----------------------------------------------------------------------------
Init ==
  /\ handles = [h \in CEHandle |-> Free]
  /\ open = {}
  /\ opened = 0
  /\ known = {}
  /\ alive = TRUE

\* CreateFileW once fopen has succeeded; without a slot the FILE stays open and
\* nothing refers to it.
CreateFile ==
  /\ alive /\ opened < MaxResources
  /\ opened' = opened + 1
  /\ open' = open \cup {opened + 1}
  /\ \/ \E h \in CEHandle :
           CEKernelAddHandle(h, Object("FILE", opened + 1, FALSE)) /\ known' = known \cup {h}
     \/ Full /\ UNCHANGED <<handles, known>>
  /\ UNCHANGED alive

\* CreateEventW, CreateSolidBrush, CreatePen and GetStockObject, which makes a new
\* brush every time.
CreateObject(type, signaled) ==
  /\ alive
  /\ \E h \in CEHandle :
        CEKernelAddHandle(h, Object(type, 0, signaled)) /\ known' = known \cup {h}
  /\ UNCHANGED <<open, opened, alive>>

\* SetEvent and ResetEvent.
SetEvent(h, signaled) ==
  /\ alive /\ HasType(h, {"EVENT"})
  /\ handles' = [handles EXCEPT ![h].signaled = signaled]
  /\ UNCHANGED <<open, opened, known, alive>>

\* RegCreateKeyExW and RegOpenKeyExW: the slot is taken before the arguments on the
\* stack are read.  Unreadable arguments leave it taken; an unwritable result
\* pointer closes it again, which changes nothing.
RegOpenKey ==
  /\ alive
  /\ \E h \in CEHandle :
        /\ CEKernelAddHandle(h, Object("REGISTRY_KEY", 0, FALSE))
        /\ known' \in {known, known \cup {h}}
  /\ UNCHANGED <<open, opened, alive>>

\* Faulty variant of FindFirstFile: a handle whose first match cannot be reported to
\* the guest is not closed.
FindFirstKeepsHandle ==
  /\ alive /\ opened < MaxResources
  /\ opened' = opened + 1
  /\ open' = open \cup {opened + 1}
  /\ \E h \in CEHandle :
        /\ CEKernelAddHandle(h, Object("FIND", opened + 1, FALSE))
        /\ known' \in {known, known \cup {h}}
  /\ UNCHANGED alive

\* FindFirstFileW with a match: when there is no slot, or the guest's buffer cannot
\* be written, the DIR is closed again and so is the handle.
FindFirstFile ==
  /\ alive /\ opened < MaxResources
  /\ opened' = opened + 1
  /\ \/ /\ \E h \in CEHandle :
              /\ CEKernelAddHandle(h, Object("FIND", opened + 1, FALSE))
              /\ known' = known \cup {h}
        /\ open' = open \cup {opened + 1}
     \/ UNCHANGED <<handles, open, known>>
  /\ UNCHANGED alive

CloseHandle(h) == alive /\ CEKernelCloseHandle(h) /\ UNCHANGED <<opened, alive>>

\* The calls that close handles of their own kind only.
DeleteObject(h) ==
  alive /\ HasType(h, {"BRUSH", "PEN"}) /\ CEKernelCloseHandle(h) /\ UNCHANGED <<opened, alive>>

FindClose(h) ==
  alive /\ HasType(h, {"FIND"}) /\ CEKernelCloseHandle(h) /\ UNCHANGED <<opened, alive>>

RegCloseKey(h) ==
  alive /\ HasType(h, {"REGISTRY_KEY"}) /\ CEKernelCloseHandle(h) /\ UNCHANGED <<opened, alive>>

\* CERuntimeDestroy closes every handle.
CERuntimeDestroy ==
  /\ alive
  /\ alive' = FALSE
  /\ handles' = [h \in CEHandle |-> Free]
  /\ open' = open \ {handles[h].resource : h \in CEHandle}
  /\ known' = {}
  /\ UNCHANGED opened

Next ==
  \/ CreateFile
  \/ \E type \in {"BRUSH", "PEN"} : CreateObject(type, FALSE)
  \/ \E signaled \in BOOLEAN : CreateObject("EVENT", signaled)
  \/ \E h \in CEHandle, signaled \in BOOLEAN : SetEvent(h, signaled)
  \/ RegOpenKey
  \/ FindFirstFile
  \/ \E h \in CEHandle :
        CloseHandle(h) \/ DeleteObject(h) \/ FindClose(h) \/ RegCloseKey(h)
  \/ CERuntimeDestroy

Spec == Init /\ [][Next]_vars
-----------------------------------------------------------------------------
HostTypes == {"FILE", "FIND"}

Owned == {handles[h].resource : h \in {g \in CEHandle : handles[g].type \in HostTypes}}

\* A file or find handle always has its host object, open and its own alone, so no
\* call uses a closed FILE and none is closed twice, however often slots are reused
\* (66-84 and the failure paths at 226 and 323).
OneOwner ==
  \A h, g \in CEHandle : handles[h].type \in HostTypes =>
     /\ handles[h].resource \in open
     /\ handles[g].type \in HostTypes /\ handles[g].resource = handles[h].resource => h = g

\* A host object is orphaned only by a CreateFileW that found no slot; no close, no
\* failed search and no other call loses one (226 against 323).
OrphansOnlyWhenFull ==
  [][open' \ Owned' # open \ Owned =>
        Full /\ handles' = handles /\ open \ Owned \subseteq open' \ Owned']_vars

\* A slot the guest was not told of is a registry key's: every other call that fails
\* after taking a slot gives it back (304 against 305 and 323).
UntoldAreKeys ==
  \A h \in CEHandle : handles[h].type # "NONE" /\ h \notin known =>
     handles[h].type = "REGISTRY_KEY"
=============================================================================
