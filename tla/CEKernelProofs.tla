--------------------------- MODULE CEKernelProofs ---------------------------
(***************************************************************************)
(* Proofs about CEKernel and CEFind: a search is a behaviour of the handle   *)
(* table; in every behaviour of the handle table each file and find handle   *)
(* owns the host object behind it; the matcher decides what a pattern means, *)
(* for every pattern and name; searches are exact; and paths and the names    *)
(* that searches report are converted as PathsRight says.                   *)
(***************************************************************************)
EXTENDS MCFind, NumberLemmas, SequenceTheorems, TLAPS

Types == {"NONE", "FILE", "FIND", "EVENT", "BRUSH", "PEN", "REGISTRY_KEY"}

\* The slots have their shape, and host objects are numbered as they were opened.  Only
\* files and searches have one: closing any other object closes the resource 0, which
\* is nothing.
ResourcesInv ==
  /\ opened \in Nat
  /\ open \subseteq 1 .. opened
  /\ handles \in [CEHandle -> [type : Types, resource : Nat, signaled : BOOLEAN]]
  /\ \A h \in CEHandle : handles[h].type \notin HostTypes => handles[h].resource = 0

IInv == ResourcesInv /\ OneOwner /\ UntoldAreKeys
-----------------------------------------------------------------------------
\* A slot is taken for an object without a resource, or for a host object that has just
\* been opened.  known' does not forget another handle and has this one, unless it is a
\* registry key.
LEMMA TakeSlot ==
  ASSUME IInv, NEW h, NEW object \in [type : Types \ {"NONE"}, resource : Nat, signaled : BOOLEAN],
         CEKernelAddHandle(h, object),
         known \subseteq known',
         h \in known' \/ object.type = "REGISTRY_KEY",
         \/ /\ object.type \notin HostTypes /\ object.resource = 0
            /\ open' = open /\ opened' = opened
         \/ /\ object.type \in HostTypes /\ object.resource = opened + 1
            /\ open' = open \cup {opened + 1} /\ opened' = opened + 1
  PROVE  IInv' /\ open' \ Owned' = open \ Owned
<1>1. /\ h \in CEHandle
      /\ handles[h].type = "NONE"
      /\ handles' = [handles EXCEPT ![h] = object]
  BY DEF CEKernelAddHandle, IsLowestFree
<1>2. /\ handles'[h] = object
      /\ \A g \in CEHandle : g # h => handles'[g] = handles[g]
  BY <1>1 DEF IInv, ResourcesInv
<1>3. ResourcesInv'
  <2>1. opened' \in Nat /\ open' \subseteq 1 .. opened'
    <3>1. CASE open' = open /\ opened' = opened
      BY <3>1 DEF IInv, ResourcesInv
    <3>2. CASE open' = open \cup {opened + 1} /\ opened' = opened + 1
      BY <3>2 DEF IInv, ResourcesInv
    <3> QED BY <3>1, <3>2
  <2>2. handles' \in [CEHandle -> [type : Types, resource : Nat, signaled : BOOLEAN]]
    BY <1>1 DEF IInv, ResourcesInv
  <2>3. \A g \in CEHandle : handles'[g].type \notin HostTypes => handles'[g].resource = 0
    BY <1>2 DEF IInv, ResourcesInv
  <2> QED BY <2>1, <2>2, <2>3 DEF ResourcesInv
<1>4. OneOwner'
  <2> SUFFICES ASSUME NEW f \in CEHandle, NEW g \in CEHandle, handles'[f].type \in HostTypes
               PROVE  /\ handles'[f].resource \in open'
                      /\ handles'[g].type \in HostTypes
                         /\ handles'[g].resource = handles'[f].resource => f = g
    BY DEF OneOwner, CEHandle
  <2>1. handles'[f].resource \in open'
    BY <1>2 DEF IInv, OneOwner
  <2>2. ASSUME handles'[g].type \in HostTypes, handles'[g].resource = handles'[f].resource
        PROVE  f = g
    <3>1. opened + 1 \notin open
      BY DEF IInv, ResourcesInv
    <3> QED BY <1>2, <2>2, <3>1 DEF IInv, OneOwner
  <2> QED BY <2>1, <2>2
<1>5. UntoldAreKeys'
  BY <1>2 DEF IInv, UntoldAreKeys, CEHandle
<1>6. open' \ Owned' = open \ Owned
  <2>1. CASE object.type \notin HostTypes
    <3>1. \A g \in CEHandle : /\ handles'[g].type \in HostTypes <=> handles[g].type \in HostTypes
                              /\ handles[g].type \in HostTypes => handles'[g] = handles[g]
      BY <1>1, <1>2, <2>1 DEF HostTypes
    <3>2. Owned' = Owned
      BY <3>1 DEF Owned, CEHandle
    <3> QED BY <2>1, <3>2
  <2>2. CASE object.type \in HostTypes
    <3>1. opened + 1 \notin open /\ open' = open \cup {opened + 1}
      BY <2>2 DEF IInv, ResourcesInv
    <3>2. \A g \in CEHandle : handles'[g].type \in HostTypes <=> handles[g].type \in HostTypes \/ g = h
      BY <1>2, <2>2
    <3>3. Owned' = Owned \cup {opened + 1}
      <4>1. Owned' = {handles'[g].resource : g \in {f \in CEHandle : handles'[f].type \in HostTypes}}
        BY DEF Owned, CEHandle
      <4>2. handles[h].type \notin HostTypes /\ handles'[h].resource = opened + 1
        BY <1>1, <1>2, <2>2 DEF HostTypes
      <4> QED BY <1>1, <1>2, <3>2, <4>1, <4>2 DEF Owned
    <3> QED BY <3>1, <3>3
  <2> QED BY <2>1, <2>2
<1> QED BY <1>3, <1>4, <1>5, <1>6 DEF IInv

\* A closed handle takes its own host object with it and no other.
LEMMA CloseSlot ==
  ASSUME IInv, NEW h \in CEHandle, CEKernelCloseHandle(h), opened' = opened
  PROVE  IInv' /\ open' \ Owned' = open \ Owned
<1>1. /\ handles[h].type # "NONE"
      /\ handles' = [handles EXCEPT ![h] = Free]
      /\ open' = open \ {handles[h].resource}
      /\ known' = known \ {h}
  BY DEF CEKernelCloseHandle
<1>2. /\ handles'[h] = Free
      /\ \A g \in CEHandle : g # h => handles'[g] = handles[g]
  BY <1>1 DEF IInv, ResourcesInv
<1>3. ResourcesInv'
  <2>1. Free \in [type : Types, resource : Nat, signaled : BOOLEAN] /\ Free.resource = 0
    BY DEF Free, Types
  <2>2. handles' \in [CEHandle -> [type : Types, resource : Nat, signaled : BOOLEAN]]
    BY <1>1, <2>1 DEF IInv, ResourcesInv
  <2>3. \A g \in CEHandle : handles'[g].type \notin HostTypes => handles'[g].resource = 0
    BY <1>2, <2>1 DEF IInv, ResourcesInv
  <2> QED BY <1>1, <2>2, <2>3 DEF IInv, ResourcesInv
<1>4. \A g \in CEHandle : handles'[g].type \in HostTypes <=> handles[g].type \in HostTypes /\ g # h
  BY <1>2 DEF Free, HostTypes
<1>5. \A g \in CEHandle : handles[g].type \in HostTypes /\ g # h =>
         handles[g].resource # handles[h].resource
  <2> SUFFICES ASSUME NEW g \in CEHandle, handles[g].type \in HostTypes, g # h,
                      handles[g].resource = handles[h].resource
               PROVE  FALSE
    OBVIOUS
  <2>1. handles[g].resource \in 1 .. opened
    BY DEF IInv, ResourcesInv, OneOwner
  <2>2. handles[h].type \in HostTypes
    BY <2>1 DEF IInv, ResourcesInv
  <2> QED BY <2>2 DEF IInv, OneOwner
<1>6. OneOwner'
  BY <1>1, <1>2, <1>4, <1>5 DEF IInv, OneOwner, CEHandle
<1>7. UntoldAreKeys'
  BY <1>1, <1>2 DEF IInv, UntoldAreKeys, CEHandle, Free
<1>8. open' \ Owned' = open \ Owned
  <2>1. Owned' = {handles[g].resource : g \in {f \in CEHandle : handles[f].type \in HostTypes /\ f # h}}
    BY <1>2, <1>4 DEF Owned, CEHandle
  <2>2. Owned' = Owned \ {handles[h].resource}
    BY <1>5, <2>1 DEF Owned
  <2>3. handles[h].type \in HostTypes => handles[h].resource \in Owned
    BY DEF Owned
  <2>4. handles[h].type \notin HostTypes => handles[h].resource \notin open
    BY DEF IInv, ResourcesInv
  <2> QED BY <1>1, <2>2, <2>3, <2>4
<1> QED BY <1>3, <1>6, <1>7, <1>8 DEF IInv

\* A state that is like the one before in all that the invariant speaks of, except that
\* more host objects may have been opened and closed again.
LEMMA Unchanged ==
  ASSUME IInv, UNCHANGED <<handles, open, known>>, opened' \in Nat, opened <= opened'
  PROVE  IInv' /\ open' \ Owned' = open \ Owned
<1>1. ResourcesInv'
  <2>1. opened \in Nat /\ open' \subseteq 1 .. opened'
    BY DEF IInv, ResourcesInv
  <2> QED BY <2>1 DEF IInv, ResourcesInv
<1>2. OneOwner' /\ UntoldAreKeys' /\ Owned' = Owned
  BY DEF IInv, OneOwner, UntoldAreKeys, Owned
<1> QED BY <1>1, <1>2 DEF IInv

\* Every step keeps the invariant, and leaves the same host objects without an owner unless
\* it is a CreateFileW that finds no slot.
LEMMA Step ==
  ASSUME IInv, [Next]_vars
  PROVE  /\ IInv'
         /\ \/ open' \ Owned' = open \ Owned
            \/ Full /\ handles' = handles /\ open \ Owned \subseteq open' \ Owned'
<1>0. opened \in Nat
  BY DEF IInv, ResourcesInv
<1>1. CASE CreateFile
  <2>1. CASE \E h \in CEHandle :
               CEKernelAddHandle(h, Object("FILE", opened + 1, FALSE)) /\ known' = known \cup {h}
    <3>1. PICK h \in CEHandle :
               CEKernelAddHandle(h, Object("FILE", opened + 1, FALSE)) /\ known' = known \cup {h}
      BY <2>1
    <3>2. Object("FILE", opened + 1, FALSE) \in
            [type : Types \ {"NONE"}, resource : Nat, signaled : BOOLEAN]
      BY <1>0 DEF Object, Types
    <3>3. /\ Object("FILE", opened + 1, FALSE).type \in HostTypes
          /\ Object("FILE", opened + 1, FALSE).resource = opened + 1
      BY DEF Object, HostTypes
    <3>4. open' = open \cup {opened + 1} /\ opened' = opened + 1
      BY <1>1 DEF CreateFile
    <3> QED BY <3>1, <3>2, <3>3, <3>4, TakeSlot
  <2>2. CASE Full /\ UNCHANGED <<handles, known>>
    <3>1. open' = open \cup {opened + 1} /\ opened' = opened + 1 /\ opened + 1 \notin open
      BY <1>1 DEF CreateFile, IInv, ResourcesInv
    <3>2. ResourcesInv'
      <4>1. open' \subseteq 1 .. opened' /\ opened' \in Nat
        BY <1>0, <3>1 DEF IInv, ResourcesInv
      <4> QED BY <2>2, <4>1 DEF IInv, ResourcesInv
    <3>3. OneOwner' /\ UntoldAreKeys' /\ Owned' = Owned
      BY <2>2, <3>1 DEF IInv, OneOwner, UntoldAreKeys, Owned
    <3> QED BY <2>2, <3>1, <3>2, <3>3 DEF IInv
  <2> QED BY <1>1, <2>1, <2>2 DEF CreateFile
<1>2. ASSUME NEW type \in {"BRUSH", "PEN", "EVENT"}, NEW signaled \in BOOLEAN,
             CreateObject(type, signaled)
      PROVE  IInv' /\ open' \ Owned' = open \ Owned
  <2>1. PICK h \in CEHandle :
             CEKernelAddHandle(h, Object(type, 0, signaled)) /\ known' = known \cup {h}
    BY <1>2 DEF CreateObject
  <2>2. Object(type, 0, signaled) \in [type : Types \ {"NONE"}, resource : Nat, signaled : BOOLEAN]
    BY DEF Object, Types
  <2>3. /\ Object(type, 0, signaled).type \notin HostTypes
        /\ Object(type, 0, signaled).resource = 0
    BY DEF Object, HostTypes
  <2>4. open' = open /\ opened' = opened
    BY <1>2 DEF CreateObject
  <2> QED BY <2>1, <2>2, <2>3, <2>4, TakeSlot
<1>3. ASSUME NEW h \in CEHandle, NEW signaled \in BOOLEAN, SetEvent(h, signaled)
      PROVE  IInv' /\ open' \ Owned' = open \ Owned
  <2>1. /\ handles[h].type = "EVENT"
        /\ handles' = [handles EXCEPT ![h].signaled = signaled]
        /\ UNCHANGED <<open, opened, known>>
    BY <1>3 DEF SetEvent, HasType
  <2>2. /\ handles' \in [CEHandle -> [type : Types, resource : Nat, signaled : BOOLEAN]]
        /\ \A g \in CEHandle : /\ handles'[g].type = handles[g].type
                               /\ handles'[g].resource = handles[g].resource
    BY <2>1 DEF IInv, ResourcesInv
  <2>3. ResourcesInv' /\ OneOwner' /\ UntoldAreKeys'
    BY <2>1, <2>2 DEF IInv, ResourcesInv, OneOwner, UntoldAreKeys, CEHandle
  <2>4. Owned' = Owned
    BY <2>2 DEF Owned, CEHandle
  <2> QED BY <2>1, <2>3, <2>4 DEF IInv
<1>4. CASE RegOpenKey
  <2>1. PICK h \in CEHandle : /\ CEKernelAddHandle(h, Object("REGISTRY_KEY", 0, FALSE))
                              /\ known' \in {known, known \cup {h}}
    BY <1>4 DEF RegOpenKey
  <2>2. Object("REGISTRY_KEY", 0, FALSE) \in
          [type : Types \ {"NONE"}, resource : Nat, signaled : BOOLEAN]
    BY DEF Object, Types
  <2>3. /\ Object("REGISTRY_KEY", 0, FALSE).type = "REGISTRY_KEY"
        /\ Object("REGISTRY_KEY", 0, FALSE).type \notin HostTypes
        /\ Object("REGISTRY_KEY", 0, FALSE).resource = 0
    BY DEF Object, HostTypes
  <2>4. open' = open /\ opened' = opened /\ known \subseteq known'
    BY <1>4, <2>1 DEF RegOpenKey
  <2> QED BY <2>1, <2>2, <2>3, <2>4, TakeSlot
<1>5. CASE FindFirstFile
  <2>1. CASE /\ \E h \in CEHandle :
                   /\ CEKernelAddHandle(h, Object("FIND", opened + 1, FALSE))
                   /\ known' = known \cup {h}
             /\ open' = open \cup {opened + 1}
    <3>1. PICK h \in CEHandle : /\ CEKernelAddHandle(h, Object("FIND", opened + 1, FALSE))
                                /\ known' = known \cup {h}
      BY <2>1
    <3>2. Object("FIND", opened + 1, FALSE) \in
            [type : Types \ {"NONE"}, resource : Nat, signaled : BOOLEAN]
      BY <1>0 DEF Object, Types
    <3>3. /\ Object("FIND", opened + 1, FALSE).type \in HostTypes
          /\ Object("FIND", opened + 1, FALSE).resource = opened + 1
      BY DEF Object, HostTypes
    <3>4. opened' = opened + 1
      BY <1>5 DEF FindFirstFile
    <3> QED BY <2>1, <3>1, <3>2, <3>3, <3>4, TakeSlot
  <2>2. CASE UNCHANGED <<handles, open, known>>
    BY <1>0, <1>5, <2>2, Unchanged DEF FindFirstFile
  <2> QED BY <1>5, <2>1, <2>2 DEF FindFirstFile
<1>6. ASSUME NEW h \in CEHandle,
             CloseHandle(h) \/ DeleteObject(h) \/ FindClose(h) \/ RegCloseKey(h)
      PROVE  IInv' /\ open' \ Owned' = open \ Owned
  <2>1. CEKernelCloseHandle(h) /\ opened' = opened
    BY <1>6 DEF CloseHandle, DeleteObject, FindClose, RegCloseKey
  <2> QED BY <2>1, CloseSlot
<1>7. CASE CERuntimeDestroy
  <2>1. /\ handles' = [h \in CEHandle |-> Free]
        /\ open' = open \ {handles[h].resource : h \in CEHandle}
        /\ opened' = opened
    BY <1>7 DEF CERuntimeDestroy
  <2>2. \A h \in CEHandle : handles'[h] = Free
    BY <2>1
  <2>3. Free \in [type : Types, resource : Nat, signaled : BOOLEAN]
        /\ Free.type = "NONE" /\ Free.type \notin HostTypes /\ Free.resource = 0
    BY DEF Free, Types, HostTypes
  <2>4. ResourcesInv'
    <3>1. handles' \in [CEHandle -> [type : Types, resource : Nat, signaled : BOOLEAN]]
      BY <2>1, <2>3
    <3> QED BY <2>1, <2>2, <2>3, <3>1 DEF IInv, ResourcesInv, CEHandle
  <2>5. OneOwner' /\ UntoldAreKeys' /\ Owned' = {}
    BY <2>2, <2>3 DEF OneOwner, UntoldAreKeys, Owned, CEHandle
  <2>6. open' = open \ Owned
    <3>1. \A h \in CEHandle : handles[h].type \notin HostTypes => handles[h].resource \notin open
      BY DEF IInv, ResourcesInv
    <3> QED BY <2>1, <3>1 DEF Owned
  <2> QED BY <2>4, <2>5, <2>6 DEF IInv
<1>8. CASE UNCHANGED vars
  BY <1>0, <1>8, Unchanged DEF vars
<1> QED BY <1>1, <1>2, <1>3, <1>4, <1>5, <1>6, <1>7, <1>8 DEF Next

LEMMA Start == Init => IInv
<1> SUFFICES ASSUME Init PROVE IInv
  OBVIOUS
<1>1. \A h \in CEHandle : handles[h] = Free
  BY DEF Init
<1>2. Free \in [type : Types, resource : Nat, signaled : BOOLEAN]
      /\ Free.type = "NONE" /\ Free.type \notin HostTypes /\ Free.resource = 0
  BY DEF Free, Types, HostTypes
<1>3. ResourcesInv
  BY <1>1, <1>2 DEF Init, ResourcesInv
<1>4. OneOwner /\ UntoldAreKeys
  BY <1>1, <1>2 DEF OneOwner, UntoldAreKeys
<1> QED BY <1>3, <1>4 DEF IInv
-----------------------------------------------------------------------------
\* What the searches do to handles and host objects, and everything else in CEFind, is what
\* the handle table allows (CEKernel.c 66-84 and 320-324).
THEOREM SearchesUseHandles == FilesSpec => Spec
<1>1. FilesInit => Init
  BY DEF FilesInit
<1>2. [FilesNext]_filesVars => [Next]_vars
  <2> SUFFICES ASSUME [FilesNext]_filesVars PROVE [Next]_vars
    OBVIOUS
  <2>1. ASSUME NEW pattern \in Patterns, FindFirst(pattern) PROVE Next
    BY <2>1 DEF FindFirst, Next
  <2>2. ASSUME NEW pattern \in Patterns, FindFirstNone(pattern) PROVE Next
    BY <2>2 DEF FindFirstNone, FindFirstFile, Next
  <2>3. ASSUME NEW h \in CEHandle, FindNext(h) \/ FindNextEnds(h) PROVE UNCHANGED vars
    BY <2>3 DEF FindNext, FindNextEnds
  <2>4. ASSUME NEW h \in CEHandle, CloseFound(h) PROVE Next
    BY <2>4 DEF CloseFound, Next
  <2>5. ASSUME NEW n \in Files, OpenFile(n) PROVE Next
    BY <2>5 DEF OpenFile, Next
  <2>6. ASSUME NEW n \in Files, CreateEntry(n) \/ DeleteEntry(n) PROVE UNCHANGED vars
    BY <2>6 DEF CreateEntry, DeleteEntry
  <2>7. ASSUME NEW from \in Files, NEW to \in Files, MoveEntry(from, to) PROVE UNCHANGED vars
    BY <2>7 DEF MoveEntry
  <2>8. CASE OtherHandles
    <3>1. ASSUME NEW type \in {"BRUSH", "EVENT"}, CreateObject(type, FALSE) PROVE Next
      BY <3>1 DEF Next
    <3>2. ASSUME NEW h \in CEHandle, SetEvent(h, TRUE) PROVE Next
      BY <3>2 DEF Next
    <3> QED BY <2>8, <3>1, <3>2 DEF OtherHandles, Next
  <2>9. CASE Destroy
    BY <2>9 DEF Destroy, Next
  <2>10. CASE UNCHANGED filesVars
    BY <2>10 DEF filesVars
  <2> QED BY <2>1, <2>2, <2>3, <2>4, <2>5, <2>6, <2>7, <2>8, <2>9, <2>10 DEF FilesNext
<1> QED BY <1>1, <1>2, PTL DEF Spec, FilesSpec

\* The inductive invariant of the handle table (CEKernel.c 66-84).
THEOREM Invariant == Spec => []IInv
<1>1. IInv /\ [Next]_vars => IInv'
  BY Step
<1> QED BY <1>1, Start, PTL DEF Spec

\* However handles are made, closed and made again, a file or find handle has its host
\* object, open and for itself (CEKernel.c 66-84, 226 and 323).
THEOREM HostObjectsOwned == FilesSpec => []OneOwner
<1>1. IInv => OneOwner
  BY DEF IInv
<1> QED BY <1>1, Invariant, SearchesUseHandles, PTL

\* Only RegOpenKeyExW and RegCreateKeyExW leave a slot taken that the guest was not told of
\* (CEKernel.c 304).
THEOREM OnlyKeysUntold == FilesSpec => []UntoldAreKeys
<1>1. IInv => UntoldAreKeys
  BY DEF IInv
<1> QED BY <1>1, Invariant, SearchesUseHandles, PTL

\* No step loses the last reference to an open host object, except a CreateFileW that finds
\* the table full (CEKernel.c 226).
THEOREM OrphansNeedFullTable == FilesSpec => OrphansOnlyWhenFull
<1>1. IInv /\ [Next]_vars =>
        [open' \ Owned' # open \ Owned =>
           Full /\ handles' = handles /\ open \ Owned \subseteq open' \ Owned']_vars
  BY Step
<1> QED BY <1>1, Invariant, SearchesUseHandles, PTL DEF Spec, OrphansOnlyWhenFull
-----------------------------------------------------------------------------
\* The calls for the pattern from i on, given those from i + 1 on.
Row(pattern, value, i, next) ==
  [j \in 1 .. Len(value) + 1 |->
     IF pattern[i] = "*"
     THEN i = Len(pattern) \/ \E k \in j .. Len(value) : next[k]
     ELSE j <= Len(value) /\ Equals(pattern[i], value[j]) /\ next[j + 1]]

LEMMA RowType ==
  ASSUME NEW C, NEW D, NEW pattern \in Seq(C), NEW value \in Seq(D), NEW i \in 1 .. Len(pattern),
         NEW next \in [1 .. Len(value) + 1 -> BOOLEAN]
  PROVE  Row(pattern, value, i, next) \in [1 .. Len(value) + 1 -> BOOLEAN]
<1>1. ASSUME NEW j \in 1 .. Len(value) + 1
      PROVE  (IF pattern[i] = "*"
              THEN i = Len(pattern) \/ \E k \in j .. Len(value) : next[k]
              ELSE j <= Len(value) /\ Equals(pattern[i], value[j]) /\ next[j + 1]) \in BOOLEAN
  <2>1. Len(value) \in Nat
    BY LenProperties
  <2>2. \A k \in j .. Len(value) : next[k] \in BOOLEAN
    BY <2>1
  <2>3. j <= Len(value) => next[j + 1] \in BOOLEAN
    BY <2>1
  <2> QED
    BY <2>2, <2>3
<1> QED
  BY <1>1 DEF Row

\* wildcard_match is the last of the rows, of which each follows from the one before.
MatchTables(pattern, value) ==
  {row \in [1 .. Len(pattern) + 1 -> [1 .. Len(value) + 1 -> BOOLEAN]] :
     /\ row[Len(pattern) + 1] = [j \in 1 .. Len(value) + 1 |-> j > Len(value)]
     /\ \A i \in 1 .. Len(pattern) : row[i] = Row(pattern, value, i, row[i + 1])
     /\ wildcard_match(pattern, value) = row[1][1]}

LEMMA MatchRows ==
  ASSUME NEW C, NEW D, NEW pattern \in Seq(C), NEW value \in Seq(D)
  PROVE  MatchTables(pattern, value) # {}
<1> DEFINE P == Len(pattern)
           V == Len(value)
           Rows == [1 .. V + 1 -> BOOLEAN]
           last == [j \in 1 .. V + 1 |-> j > V]
           step == [k \in 1 .. P |-> [next \in Rows |-> Row(pattern, value, P + 1 - k, next)]]
           Matches(row) ==
             row = [i \in 1 .. P + 1 |->
                      [j \in 1 .. V + 1 |->
                         IF i > P THEN j > V
                         ELSE IF pattern[i] = "*"
                         THEN i = P \/ \E k \in j .. V : row[i + 1][k]
                         ELSE j <= V /\ Equals(pattern[i], value[j]) /\ row[i + 1][j + 1]]]
<1>1. P \in Nat /\ V \in Nat
  BY LenProperties
<1>2. last \in Rows
  OBVIOUS
<1>3. step \in [1 .. P -> [Rows -> Rows]]
  <2>1. ASSUME NEW k \in 1 .. P, NEW next \in Rows
        PROVE  Row(pattern, value, P + 1 - k, next) \in Rows
    <3>1. P + 1 - k \in 1 .. P
      BY <1>1
    <3> QED
      BY <3>1, RowType
  <2> QED
    BY <2>1
<1>4. PICK f \in [0 .. P -> Rows] : f[0] = last /\ \A k \in 1 .. P : f[k] = step[k][f[k - 1]]
  <2> HIDE DEF step, last, Rows
  <2> HIDE DEF P
  <2>1. Turns(Rows, last, step, P) # {}
    BY <1>1, <1>2, <1>3, Iterated
  <2> QED
    BY <2>1 DEF Turns
<1> DEFINE rows == [i \in 1 .. P + 1 |-> f[P + 1 - i]]
<1>5. rows \in [1 .. P + 1 -> Rows]
  <2>1. \A i \in 1 .. P + 1 : P + 1 - i \in 0 .. P
    BY <1>1
  <2> HIDE DEF Rows
  <2> QED
    BY <1>4, <2>1
<1>6. rows[P + 1] = last
  <2>1. P + 1 \in 1 .. P + 1 /\ P + 1 - (P + 1) = 0
    BY <1>1
  <2> HIDE DEF last
  <2> QED
    BY <1>4, <2>1
<1>7. ASSUME NEW i \in 1 .. P
      PROVE  rows[i] = Row(pattern, value, i, rows[i + 1])
  <2> DEFINE k == P + 1 - i
  <2>1. /\ k \in 1 .. P /\ P + 1 - k = i /\ k - 1 \in 0 .. P
        /\ i \in 1 .. P + 1 /\ i + 1 \in 1 .. P + 1 /\ P + 1 - (i + 1) = k - 1
    BY <1>1
  <2>2. rows[i] = f[k] /\ rows[i + 1] = f[k - 1]
    BY <2>1
  <2> HIDE DEF rows, k, P
  <2>3. f[k] = step[k][f[k - 1]] /\ f[k - 1] \in Rows
    <3> HIDE DEF step, Rows
    <3> QED
      BY <1>4, <2>1
  <2>4. step[k][f[k - 1]] = Row(pattern, value, i, f[k - 1])
    <3> HIDE DEF Rows
    <3> QED
      BY <2>1, <2>3
  <2> QED
    BY <2>2, <2>3, <2>4
<1>8. ASSUME NEW row \in [1 .. P + 1 -> Rows], row[P + 1] = last,
             \A i \in 1 .. P : row[i] = Row(pattern, value, i, row[i + 1])
      PROVE  Matches(row)
  <2> DEFINE body(i) == [j \in 1 .. V + 1 |->
                           IF i > P THEN j > V
                           ELSE IF pattern[i] = "*"
                           THEN i = P \/ \E k \in j .. V : row[i + 1][k]
                           ELSE j <= V /\ Equals(pattern[i], value[j]) /\ row[i + 1][j + 1]]
  <2>1. ASSUME NEW i \in 1 .. P + 1
        PROVE  row[i] = body(i)
    <3>1. CASE i = P + 1
      <4>1. i > P
        BY <1>1, <3>1
      <4>2. body(i) = last
        BY <4>1
      <4> QED
        BY <1>8, <3>1, <4>2
    <3>2. CASE i # P + 1
      <4>1. i \in 1 .. P /\ ~(i > P)
        BY <1>1, <3>2
      <4>2. body(i) = Row(pattern, value, i, row[i + 1])
        BY <4>1 DEF Row
      <4> QED
        BY <1>8, <4>1, <4>2
    <3> QED
      BY <3>1, <3>2
  <2>2. row = [i \in 1 .. P + 1 |-> row[i]]
    <3> HIDE DEF Rows
    <3> QED BY <1>8
  <2>3. Matches(row) <=> row = [i \in 1 .. P + 1 |-> body(i)]
    BY Zenon
  <2> HIDE DEF body, Matches
  <2>4. [i \in 1 .. P + 1 |-> row[i]] = [i \in 1 .. P + 1 |-> body(i)]
    BY <2>1
  <2> QED
    BY <2>2, <2>3, <2>4, Zenon
<1>9. ASSUME NEW row, Matches(row)
      PROVE  /\ row = [i \in 1 .. P + 1 |-> row[i]]
             /\ row[P + 1] = last
             /\ \A i \in 1 .. P : row[i] = Row(pattern, value, i, row[i + 1])
  <2> DEFINE body(i) == [j \in 1 .. V + 1 |->
                           IF i > P THEN j > V
                           ELSE IF pattern[i] = "*"
                           THEN i = P \/ \E k \in j .. V : row[i + 1][k]
                           ELSE j <= V /\ Equals(pattern[i], value[j]) /\ row[i + 1][j + 1]]
  <2>1. row = [i \in 1 .. P + 1 |-> body(i)]
    BY <1>9, Zenon
  <2>2. \A i \in 1 .. P + 1 : row[i] = body(i)
    <3> HIDE DEF body
    <3> QED
      BY <2>1
  <2>3. body(P + 1) = last /\ P + 1 \in 1 .. P + 1
    BY <1>1
  <2>4. ASSUME NEW i \in 1 .. P
        PROVE  body(i) = Row(pattern, value, i, row[i + 1]) /\ i \in 1 .. P + 1
    BY <1>1 DEF Row
  <2> HIDE DEF body
  <2> QED
    BY <2>1, <2>2, <2>3, <2>4
<1> DEFINE match == CHOOSE row : Matches(row)
<1>10. Matches(match)
  <2>1. \E row : Matches(row)
    <3> HIDE DEF Matches, rows
    <3> QED BY <1>5, <1>6, <1>7, <1>8
  <2> HIDE DEF Matches
  <2> QED
    BY <2>1, Zenon
<1>11. wildcard_match(pattern, value) = match[1][1]
  BY Zenon DEF wildcard_match
<1> HIDE DEF match
<1>12. /\ match = [i \in 1 .. P + 1 |-> match[i]]
       /\ match[P + 1] = last
       /\ \A i \in 1 .. P : match[i] = Row(pattern, value, i, match[i + 1])
  <2> HIDE DEF Matches
  <2> QED
    BY <1>9, <1>10
<1>13. match \in [1 .. P + 1 -> Rows]
  <2> HIDE DEF Rows, last, P
  <2> DEFINE Good == {k \in 0 .. P : match[P + 1 - k] \in Rows}
  <2>1. 0 \in Good
    BY <1>1, <1>2, <1>12
  <2>2. ASSUME NEW k \in 0 .. P - 1, k \in Good
        PROVE  k + 1 \in Good
    <3>1. /\ P - k \in 1 .. P /\ P + 1 - k = P - k + 1 /\ P + 1 - (k + 1) = P - k
          /\ k + 1 \in 0 .. P
      BY <1>1
    <3>2. match[P - k + 1] \in Rows
      BY <2>2, <3>1
    <3>3. match[P - k] = Row(pattern, value, P - k, match[P - k + 1])
      BY <1>12, <3>1
    <3>4. match[P - k] \in Rows
      BY <3>1, <3>2, <3>3, RowType DEF P, Rows
    <3> QED
      BY <3>1, <3>4
  <2> HIDE DEF Good
  <2>3. 0 .. P \subseteq Good
    BY <1>1, <2>1, <2>2, UpToBound
  <2>4. ASSUME NEW i \in 1 .. P + 1
        PROVE  match[i] \in Rows
    <3>1. P + 1 - i \in 0 .. P /\ P + 1 - (P + 1 - i) = i
      BY <1>1
    <3> QED
      BY <2>3, <3>1 DEF Good
  <2> QED
    BY <1>12, <2>4
<1>14. match \in MatchTables(pattern, value)
  BY <1>11, <1>12, <1>13 DEF MatchTables
<1> QED
  BY <1>14

-----------------------------------------------------------------------------
\* The piece from one cut to the next is one for character i of the pattern.
Piece(pattern, name, i, from, to) ==
  /\ from <= to
  /\ \/ pattern[i] = "*"
     \/ /\ to = from + 1
        /\ pattern[i] = "?" \/ SameLetter(pattern[i], name[to])

\* The name behind the first n characters can be cut into pieces for the pattern from i on.
GlobFrom(pattern, name, i, n) ==
  \E cut \in [i - 1 .. Len(pattern) -> 0 .. Len(name)] :
     /\ cut[i - 1] = n /\ cut[Len(pattern)] = Len(name)
     /\ \A m \in i .. Len(pattern) : Piece(pattern, name, m, cut[m - 1], cut[m])

LEMMA GlobIsFromStart ==
  ASSUME NEW C, NEW D, NEW pattern \in Seq(C), NEW name \in Seq(D)
  PROVE  Glob(pattern, name) <=> GlobFrom(pattern, name, 1, 0)
<1>1. 1 - 1 = 0
  OBVIOUS
<1> QED
  BY <1>1 DEF Glob, GlobFrom, Piece

LEMMA GlobEnd ==
  ASSUME NEW C, NEW D, NEW pattern \in Seq(C), NEW name \in Seq(D), NEW n \in 0 .. Len(name)
  PROVE  GlobFrom(pattern, name, Len(pattern) + 1, n) <=> n = Len(name)
<1> DEFINE P == Len(pattern)
<1>1. P \in Nat /\ Len(name) \in Nat /\ P + 1 - 1 = P
  BY LenProperties
<1>2. ASSUME n = Len(name)
      PROVE  GlobFrom(pattern, name, P + 1, n)
  <2> DEFINE cut == [m \in P + 1 - 1 .. P |-> n]
  <2>1. cut \in [P + 1 - 1 .. P -> 0 .. Len(name)] /\ cut[P] = n /\ cut[P + 1 - 1] = n
    BY <1>1
  <2>2. \A m \in P + 1 .. P : FALSE
    BY <1>1
  <2> HIDE DEF cut, P
  <2> QED
    BY <1>2, <2>1, <2>2 DEF GlobFrom, P
<1>3. ASSUME GlobFrom(pattern, name, P + 1, n)
      PROVE  n = Len(name)
  <2>1. PICK cut \in [P + 1 - 1 .. P -> 0 .. Len(name)] : cut[P + 1 - 1] = n /\ cut[P] = Len(name)
    BY <1>3 DEF GlobFrom
  <2> QED
    BY <1>1, <2>1
<1> QED
  BY <1>2, <1>3

LEMMA GlobStep ==
  ASSUME NEW C, NEW D, NEW pattern \in Seq(C), NEW name \in Seq(D), NEW i \in 1 .. Len(pattern),
         NEW n \in 0 .. Len(name)
  PROVE  GlobFrom(pattern, name, i, n) <=>
           \E to \in 0 .. Len(name) :
              Piece(pattern, name, i, n, to) /\ GlobFrom(pattern, name, i + 1, to)
<1> DEFINE P == Len(pattern)
           V == Len(name)
           Fits(m, from, to) == Piece(pattern, name, m, from, to)
<1>1. P \in Nat /\ V \in Nat /\ i + 1 - 1 = i /\ i \in i - 1 .. P /\ i - 1 \in i - 1 .. P
      /\ i .. P \subseteq i - 1 .. P /\ P \in i .. P
  BY LenProperties
<1> HIDE DEF Fits
<1>2. ASSUME NEW cut \in [i - 1 .. P -> 0 .. V], cut[i - 1] = n, cut[P] = V,
             \A m \in i .. P : Fits(m, cut[m - 1], cut[m])
      PROVE  \E to \in 0 .. V : Fits(i, n, to) /\ GlobFrom(pattern, name, i + 1, to)
  <2> DEFINE rest == [m \in i .. P |-> cut[m]]
  <2>1. cut[i] \in 0 .. V /\ Fits(i, n, cut[i])
    BY <1>1, <1>2
  <2>2. rest \in [i .. P -> 0 .. V] /\ rest[i] = cut[i] /\ rest[P] = V
    BY <1>1, <1>2
  <2>3. ASSUME NEW m \in i + 1 .. P
        PROVE  Fits(m, rest[m - 1], rest[m])
    <3>1. m \in i .. P /\ m - 1 \in i .. P
      BY <1>1
    <3> QED
      BY <1>2, <3>1
  <2> HIDE DEF rest
  <2>4. GlobFrom(pattern, name, i + 1, cut[i])
    <3>1. rest \in [i + 1 - 1 .. P -> 0 .. V] /\ rest[i + 1 - 1] = cut[i]
      BY <1>1, <2>2
    <3> QED
      BY <2>2, <2>3, <3>1 DEF GlobFrom, Fits
  <2> QED
    BY <2>1, <2>4
<1>3. ASSUME NEW to \in 0 .. V, Fits(i, n, to),
             NEW cut \in [i .. P -> 0 .. V], cut[i] = to, cut[P] = V,
             \A m \in i + 1 .. P : Fits(m, cut[m - 1], cut[m])
      PROVE  GlobFrom(pattern, name, i, n)
  <2> DEFINE longer == [m \in i - 1 .. P |-> IF m = i - 1 THEN n ELSE cut[m]]
  <2>1. longer \in [i - 1 .. P -> 0 .. V]
    <3>1. ASSUME NEW m \in i - 1 .. P
          PROVE  (IF m = i - 1 THEN n ELSE cut[m]) \in 0 .. V
      <4>1. m # i - 1 => m \in i .. P
        BY <1>1
      <4> QED
        BY <1>3, <4>1
    <3> QED
      BY <3>1
  <2>2. /\ longer[i - 1] = n
        /\ \A m \in i .. P : longer[m] = cut[m]
    BY <1>1
  <2> HIDE DEF longer
  <2>3. ASSUME NEW m \in i .. P
        PROVE  Fits(m, longer[m - 1], longer[m])
    <3>1. CASE m = i
      BY <1>1, <1>3, <2>2, <3>1
    <3>2. CASE m # i
      <4>1. m \in i + 1 .. P /\ m - 1 \in i .. P
        BY <1>1, <3>2
      <4> QED
        BY <1>3, <2>2, <4>1
    <3> QED
      BY <3>1, <3>2
  <2> QED
    BY <1>1, <1>3, <2>1, <2>2, <2>3 DEF GlobFrom, Fits
<1> QED
  <2>1. ASSUME GlobFrom(pattern, name, i, n)
        PROVE  \E to \in 0 .. V : Fits(i, n, to) /\ GlobFrom(pattern, name, i + 1, to)
    BY <1>2, <2>1 DEF GlobFrom, Fits
  <2>2. ASSUME NEW to \in 0 .. V, Fits(i, n, to), GlobFrom(pattern, name, i + 1, to)
        PROVE  GlobFrom(pattern, name, i, n)
    <3>1. PICK cut \in [i + 1 - 1 .. P -> 0 .. V] :
             /\ cut[i + 1 - 1] = to /\ cut[P] = V
             /\ \A m \in i + 1 .. P : Fits(m, cut[m - 1], cut[m])
      BY <2>2 DEF GlobFrom, Fits
    <3> QED
      BY <1>1, <1>3, <2>2, <3>1
  <2> QED
    BY <2>1, <2>2 DEF Fits

\* A pattern with a character other than a star does not match the empty rest of a name.
LEMMA NeedsOne ==
  ASSUME NEW C, NEW D, NEW pattern \in Seq(C), NEW name \in Seq(D), NEW i \in 1 .. Len(pattern),
         NEW l \in i .. Len(pattern), pattern[l] # "*"
  PROVE  ~GlobFrom(pattern, name, i, Len(name))
<1> DEFINE P == Len(pattern)
           V == Len(name)
<1> SUFFICES ASSUME NEW cut \in [i - 1 .. P -> 0 .. V], cut[i - 1] = V,
                    \A m \in i .. P : Piece(pattern, name, m, cut[m - 1], cut[m])
             PROVE  FALSE
  BY DEF GlobFrom
<1>1. P \in Nat /\ V \in Nat
  BY LenProperties
<1> DEFINE S == {k \in 0 .. P : i - 1 + k <= P => cut[i - 1 + k] = V}
<1>2. 0 \in S
  BY <1>1
<1>3. ASSUME NEW k \in 0 .. P - 1, k \in S
      PROVE  k + 1 \in S
  <2> SUFFICES ASSUME i - 1 + (k + 1) <= P
               PROVE  cut[i - 1 + (k + 1)] = V
    BY <1>1
  <2>1. i + k \in i .. P /\ i + k - 1 = i - 1 + k /\ i - 1 + (k + 1) = i + k
        /\ i - 1 + k <= P /\ i + k \in i - 1 .. P
    BY <1>1
  <2>2. cut[i - 1 + k] = V
    BY <1>3, <2>1
  <2>3. cut[i - 1 + k] <= cut[i + k]
    BY <2>1 DEF Piece
  <2>4. cut[i + k] \in 0 .. V
    BY <2>1
  <2> QED
    BY <1>1, <2>1, <2>2, <2>3, <2>4
<1> HIDE DEF S
<1>4. 0 .. P \subseteq S
  BY <1>1, <1>2, <1>3, UpToBound
<1>5. cut[l - 1] = V /\ cut[l] = V
  <2>1. /\ l - i \in 0 .. P /\ i - 1 + (l - i) = l - 1 /\ l - 1 <= P
        /\ l - i + 1 \in 0 .. P /\ i - 1 + (l - i + 1) = l /\ l <= P
    BY <1>1
  <2>2. l - i \in S /\ l - i + 1 \in S
    BY <1>4, <2>1
  <2> QED
    BY <2>1, <2>2 DEF S
<1> QED
  BY <1>1, <1>5 DEF Piece

\* The pattern that is asked for differs from the one given in one place at most.
LEMMA TailTakenIs ==
  ASSUME NEW C, NEW pattern \in Seq(C)
  PROVE  LET asked == TailTaken(pattern)
             P == Len(pattern)
         IN  /\ asked \in Seq(C \cup {"?"}) /\ Len(asked) = P
             /\ \A m \in 1 .. P :
                   \/ asked[m] = pattern[m]
                   \/ m = P - 1 /\ pattern[m] = "*" /\ pattern[P] = "*" /\ asked[m] = "?"
             /\ P > 1 /\ pattern[P] = "*" /\ pattern[P - 1] = "*" => asked[P - 1] = "?"
<1> DEFINE P == Len(pattern)
<1>1. P \in Nat /\ pattern \in [1 .. P -> C]
  BY LenProperties
<1>2. CASE P > 1 /\ pattern[P] = "*" /\ pattern[P - 1] = "*"
  <2>1. TailTaken(pattern) = [pattern EXCEPT ![P - 1] = "?"]
    BY <1>2 DEF TailTaken
  <2>2. P - 1 \in 1 .. P
    BY <1>1, <1>2
  <2>3. [pattern EXCEPT ![P - 1] = "?"] \in Seq(C \cup {"?"})
        /\ Len([pattern EXCEPT ![P - 1] = "?"]) = P
    <3>1. pattern \in Seq(C \cup {"?"})
      BY SeqMonotonic
    <3> QED
      BY <2>2, <3>1, ExceptSeq
  <2>4. \A m \in 1 .. P : [pattern EXCEPT ![P - 1] = "?"][m] =
                              IF m = P - 1 THEN "?" ELSE pattern[m]
    BY <1>1, <2>2
  <2> QED
    BY <1>2, <2>1, <2>2, <2>3, <2>4
<1>3. CASE ~(P > 1 /\ pattern[P] = "*" /\ pattern[P - 1] = "*")
  BY <1>3, SeqMonotonic DEF TailTaken
<1> QED
  BY <1>2, <1>3

LEMMA EqualLetters ==
  ASSUME NEW c, NEW d
  PROVE  Lower(c) = Lower(d) <=> SameLetter(c, d)
  BY DEF Lower, SameLetter

\* Behind a star that is not in last place, and is one of the pattern asked for, there is
\* something else than stars.
LEMMA NotAllStars ==
  ASSUME NEW C, NEW pattern \in Seq(C), NEW i \in 1 .. Len(pattern) - 1,
         TailTaken(pattern)[i] = "*"
  PROVE  \E l \in i + 1 .. Len(pattern) : TailTaken(pattern)[l] # "*"
<1> DEFINE P == Len(pattern)
           asked == TailTaken(pattern)
<1>1. P \in Nat
  BY LenProperties
<1>2. /\ \A m \in 1 .. P :
            \/ asked[m] = pattern[m]
            \/ m = P - 1 /\ pattern[m] = "*" /\ pattern[P] = "*" /\ asked[m] = "?"
      /\ P > 1 /\ pattern[P] = "*" /\ pattern[P - 1] = "*" => asked[P - 1] = "?"
  BY TailTakenIs
<1> HIDE DEF asked
<1>3. P > 1 /\ P \in 1 .. P /\ P - 1 \in 1 .. P /\ i \in 1 .. P /\ P \in i + 1 .. P
      /\ P # P - 1
  BY <1>1
<1>4. asked[P] = pattern[P]
  BY <1>2, <1>3
<1>5. asked[i] = "*"
  BY DEF asked
<1>6. CASE asked[P] # "*"
  BY <1>3, <1>6 DEF asked
<1>7. CASE asked[P] = "*"
  <2>1. asked[P - 1] # "*"
    BY <1>2, <1>3, <1>4, <1>7
  <2>2. i # P - 1
    BY <1>5, <2>1
  <2>3. P - 1 \in i + 1 .. P
    BY <1>1, <2>2
  <2> QED
    BY <2>1, <2>3 DEF asked
<1> QED
  BY <1>6, <1>7

\* The matcher decides what its pattern means (CEKernel.c 157-169).
LEMMA MatcherIsGlob ==
  ASSUME NEW C, NEW D, NEW pattern \in Seq(C), NEW value \in Seq(D)
  PROVE  wildcard_match(pattern, value) <=> Glob(TailTaken(pattern), value)
<1> DEFINE P == Len(pattern)
           V == Len(value)
           asked == TailTaken(pattern)
           Rest(i, n) == GlobFrom(asked, value, i, n)
<1>1. PICK row \in [1 .. P + 1 -> [1 .. V + 1 -> BOOLEAN]] :
        /\ row[P + 1] = [j \in 1 .. V + 1 |-> j > V]
        /\ \A i \in 1 .. P : row[i] = Row(pattern, value, i, row[i + 1])
        /\ wildcard_match(pattern, value) = row[1][1]
  <2>1. MatchTables(pattern, value) # {}
    BY MatchRows
  <2> QED
    BY <2>1 DEF MatchTables
<1>2. P \in Nat /\ V \in Nat
  BY LenProperties
<1>3. /\ asked \in Seq(C \cup {"?"}) /\ Len(asked) = P
      /\ \A m \in 1 .. P :
            \/ asked[m] = pattern[m]
            \/ m = P - 1 /\ pattern[m] = "*" /\ pattern[P] = "*" /\ asked[m] = "?"
      /\ P > 1 /\ pattern[P] = "*" /\ pattern[P - 1] = "*" => asked[P - 1] = "?"
  BY TailTakenIs
<1>4. \A i \in 1 .. P - 1 : asked[i] = "*" => \E l \in i + 1 .. P : asked[l] # "*"
  BY NotAllStars
<1> HIDE DEF asked
<1>5. \A n \in 0 .. V : Rest(P + 1, n) <=> n = V
  BY <1>3, GlobEnd
<1>6. \A i \in 1 .. P, n \in 0 .. V :
        Rest(i, n) <=> \E to \in 0 .. V : Piece(asked, value, i, n, to) /\ Rest(i + 1, to)
  BY <1>3, GlobStep
<1>7. \A i \in 1 .. P, l \in 1 .. P : i <= l /\ asked[l] # "*" => ~Rest(i, V)
  <2> SUFFICES ASSUME NEW i \in 1 .. P, NEW l \in 1 .. P, i <= l, asked[l] # "*"
               PROVE  ~Rest(i, V)
    OBVIOUS
  <2>1. l \in i .. P
    BY <1>2
  <2> QED
    BY <1>3, <2>1, NeedsOne
<1>8. Glob(asked, value) <=> Rest(1, 0)
  BY <1>3, GlobIsFromStart
<1> HIDE DEF Rest
<1> DEFINE Good == {k \in 0 .. P : \A n \in 0 .. V : row[P + 1 - k][n + 1] <=> Rest(P + 1 - k, n)}
<1>9. 0 \in Good
  <2>1. P + 1 - 0 = P + 1
    BY <1>2
  <2>2. ASSUME NEW n \in 0 .. V
        PROVE  row[P + 1][n + 1] <=> Rest(P + 1, n)
    <3>1. n + 1 \in 1 .. V + 1 /\ (n + 1 > V <=> n = V)
      BY <1>2
    <3> QED
      BY <1>1, <1>5, <3>1
  <2> QED
    BY <1>2, <2>1, <2>2
<1>10. ASSUME NEW i \in 1 .. P, \A n \in 0 .. V : row[i + 1][n + 1] <=> Rest(i + 1, n),
              NEW n \in 0 .. V
       PROVE  row[i][n + 1] <=> Rest(i, n)
  <2>1. /\ n + 1 \in 1 .. V + 1
        /\ row[i][n + 1] <=>
              IF pattern[i] = "*" THEN i = P \/ \E k \in n + 1 .. V : row[i + 1][k]
              ELSE n + 1 <= V /\ Equals(pattern[i], value[n + 1]) /\ row[i + 1][n + 1 + 1]
    <3>1. n + 1 \in 1 .. V + 1
      BY <1>2
    <3>2. row[i] = Row(pattern, value, i, row[i + 1])
      BY <1>1
    <3> QED
      BY <3>1, <3>2 DEF Row
  <2>2. \/ asked[i] = pattern[i]
        \/ i = P - 1 /\ pattern[i] = "*" /\ pattern[P] = "*" /\ asked[i] = "?"
    BY <1>3
  <2>3. CASE pattern[i] # "*"
    <3>1. asked[i] = pattern[i]
      BY <2>2, <2>3
    <3>2. Rest(i, n) <=> \E to \in 0 .. V : /\ to = n + 1
                                            /\ Equals(pattern[i], value[to])
                                            /\ Rest(i + 1, to)
      <4>1. \A to \in 0 .. V : Piece(asked, value, i, n, to) <=>
                                 to = n + 1 /\ Equals(pattern[i], value[to])
        BY <1>2, <2>3, <3>1, EqualLetters DEF Piece, Equals
      <4> QED
        BY <1>6, <4>1
    <3>3. n + 1 <= V => (row[i + 1][n + 1 + 1] <=> Rest(i + 1, n + 1))
      BY <1>2, <1>10
    <3> QED
      BY <1>2, <2>1, <2>3, <3>2, <3>3
  <2>4. CASE pattern[i] = "*" /\ asked[i] = "?"
    <3>1. i = P - 1 /\ pattern[P] = "*" /\ i # P /\ P \in 1 .. P /\ i + 1 = P
      BY <1>2, <2>2, <2>4
    <3>2. \A k \in 1 .. V + 1 : row[P][k]
      BY <1>1, <3>1 DEF Row
    <3>3. row[i][n + 1] <=> n + 1 <= V
      BY <1>2, <2>1, <2>4, <3>1, <3>2
    <3>4. \A to \in 0 .. V : Piece(asked, value, i, n, to) <=> to = n + 1
      BY <1>2, <2>4 DEF Piece
    <3>5. n + 1 <= V => Rest(i + 1, n + 1)
      <4> SUFFICES ASSUME n + 1 <= V PROVE Rest(i + 1, n + 1)
        OBVIOUS
      <4>1. n + 1 \in 0 .. V /\ n + 1 + 1 \in 1 .. V + 1
        BY <1>2
      <4>2. row[i + 1][n + 1 + 1]
        BY <3>1, <3>2, <4>1
      <4> QED
        BY <1>10, <4>1, <4>2
    <3> QED
      BY <1>2, <1>6, <3>3, <3>4, <3>5
  <2>5. CASE pattern[i] = "*" /\ asked[i] = "*"
    <3>1. \A to \in 0 .. V : Piece(asked, value, i, n, to) <=> n <= to
      BY <2>5 DEF Piece
    <3>2. Rest(i, n) <=> \E to \in 0 .. V : n <= to /\ Rest(i + 1, to)
      BY <1>6, <3>1
    <3>3. CASE i = P
      <4>1. V \in 0 .. V /\ n <= V /\ Rest(i + 1, V)
        BY <1>2, <1>5, <3>3
      <4> QED
        BY <2>1, <2>5, <3>2, <3>3, <4>1
    <3>4. CASE i # P
      <4>1. ~Rest(i + 1, V)
        <5>1. i \in 1 .. P - 1 /\ i + 1 \in 1 .. P
          BY <1>2, <3>4
        <5>2. PICK l \in i + 1 .. P : asked[l] # "*"
          BY <1>4, <2>5, <5>1
        <5>3. l \in 1 .. P /\ i + 1 <= l
          BY <1>2, <5>1
        <5> QED
          BY <1>7, <5>1, <5>2, <5>3
      <4>2. row[i][n + 1] <=> \E k \in n + 1 .. V : row[i + 1][k]
        BY <2>1, <2>5, <3>4
      <4>3. ASSUME NEW k \in n + 1 .. V, row[i + 1][k]
            PROVE  \E to \in 0 .. V : n <= to /\ Rest(i + 1, to)
        <5>1. k - 1 \in 0 .. V /\ n <= k - 1 /\ k - 1 + 1 = k
          BY <1>2
        <5> QED
          BY <1>10, <4>3, <5>1
      <4>4. ASSUME NEW to \in 0 .. V, n <= to, Rest(i + 1, to)
            PROVE  \E k \in n + 1 .. V : row[i + 1][k]
        <5>1. to # V
          BY <4>1, <4>4
        <5>2. to + 1 \in n + 1 .. V
          BY <1>2, <4>4, <5>1
        <5> QED
          BY <1>10, <4>4, <5>2
      <4> QED
        BY <3>2, <4>2, <4>3, <4>4
    <3> QED
      BY <3>3, <3>4
  <2> QED
    BY <2>2, <2>3, <2>4, <2>5
<1>11. ASSUME NEW k \in 0 .. P - 1, k \in Good
       PROVE  k + 1 \in Good
  <2>1. P - k \in 1 .. P /\ P + 1 - k = P - k + 1 /\ P + 1 - (k + 1) = P - k /\ k + 1 \in 0 .. P
    BY <1>2
  <2>2. \A n \in 0 .. V : row[P - k + 1][n + 1] <=> Rest(P - k + 1, n)
    BY <1>11, <2>1
  <2>3. \A n \in 0 .. V : row[P - k][n + 1] <=> Rest(P - k, n)
    BY <1>10, <2>1, <2>2
  <2> QED
    BY <2>1, <2>3
<1>12. P \in Good
  <2> HIDE DEF Good
  <2>1. 0 .. P \subseteq Good
    BY <1>2, <1>9, <1>11, UpToBound
  <2> QED
    BY <1>2, <2>1
<1>13. row[1][1] <=> Rest(1, 0)
  <2>1. P + 1 - P = 1 /\ 0 \in 0 .. V /\ 0 + 1 = 1
    BY <1>2
  <2>2. row[P + 1 - P][0 + 1] <=> Rest(P + 1 - P, 0)
    BY <1>12, <2>1
  <2> QED
    BY <2>1, <2>2
<1> QED
  BY <1>1, <1>8, <1>13 DEF asked

\* For every pattern and every name, of any length, the recursive matcher decides what the
\* pattern means (CEKernel.c 157-169).
THEOREM MatchesAreMeant == FilesSpec => []MatchesAsMeant
<1>1. MatchesAsMeant
  <2> SUFFICES ASSUME NEW pattern \in TriedPatterns, NEW name \in TriedNames
               PROVE  wildcard_match(pattern, name) <=> Glob(TailTaken(pattern), name)
    BY DEF MatchesAsMeant, WildcardIsGlob
  <2>1. pattern \in Seq(STRING) /\ name \in Seq(STRING)
    BY StringsAssumption
  <2> QED
    BY <2>1, MatcherIsGlob
<1> QED
  BY <1>1, PTL
-----------------------------------------------------------------------------
\* What is asked for is part of what the pattern means.
LEMMA AskedIsMeant ==
  ASSUME NEW C, NEW D, NEW pattern \in Seq(C), NEW name \in Seq(D), Glob(TailTaken(pattern), name)
  PROVE  Glob(pattern, name)
<1> DEFINE P == Len(pattern)
           asked == TailTaken(pattern)
<1>1. Len(asked) = P /\ \A m \in 1 .. P : asked[m] = pattern[m] \/ pattern[m] = "*"
  BY TailTakenIs
<1> HIDE DEF asked
<1>2. P \in Nat /\ Len(name) \in Nat
  BY LenProperties
<1>3. PICK cut \in [0 .. P -> 0 .. Len(name)] :
        /\ cut[0] = 0 /\ cut[P] = Len(name)
        /\ \A i \in 1 .. P : Piece(asked, name, i, cut[i - 1], cut[i])
  <2>1. Glob(asked, name)
    BY DEF asked
  <2> QED
    BY <1>1, <2>1 DEF Glob, Piece
<1>4. ASSUME NEW i \in 1 .. P
      PROVE  Piece(pattern, name, i, cut[i - 1], cut[i])
  BY <1>1, <1>3 DEF Piece
<1> QED
  BY <1>3, <1>4 DEF Glob, Piece

Names == Files \cup Dots
SearchStates ==
  [pattern : Patterns \cup {<<>>}, must : SUBSET Names, may : SUBSET Names,
   told : SUBSET Files, owed : SUBSET Files]

\* An entry that the guest has still to be told of is one that readdir still has to
\* return, unless it does not match, and one it was told of is not returned again.
Accounted(s) ==
  /\ s \in SearchStates
  /\ s.told \cap (s.must \cup s.may) = {}
  /\ \A n \in s.owed \ s.told : n \in s.must \/ ~wildcard_match(s.pattern, n)

\* From s to t the guest is told of nothing that does not match.
ToldRightly(s, t) ==
  \A n \in t.told \ s.told : n \notin Dots /\ Glob(t.pattern, n)

SearchInv ==
  /\ opened \in 0 .. MaxResources
  /\ entries \subseteq Files
  /\ DOMAIN search = 1 .. MaxResources
  /\ \A r \in 1 .. MaxResources : Accounted(search[r])

LEMMA PatternsAndNames ==
  ASSUME NEW pattern \in Patterns \cup {<<>>}, NEW n \in Files
  PROVE  /\ pattern \in Seq(STRING) /\ n \in Seq(STRING)
         /\ wildcard_match(pattern, n) => Glob(pattern, n)
         /\ ~wildcard_match(pattern, n) => ~Glob(TailTaken(pattern), n)
<1>1. pattern \in Seq(STRING) /\ n \in Seq(STRING)
  BY StringsAssumption, EmptySeq
<1>2. wildcard_match(pattern, n) <=> Glob(TailTaken(pattern), n)
  BY <1>1, MatcherIsGlob
<1>3. Glob(TailTaken(pattern), n) => Glob(pattern, n)
  BY <1>1, AskedIsMeant
<1> QED
  BY <1>1, <1>2, <1>3

LEMMA NoSearchAccounted == Accounted(NoSearch) /\ NoSearch.told = {}
  BY DEF NoSearch, Accounted, SearchStates

LEMMA OpenedAccounted ==
  ASSUME entries \subseteq Files, NEW pattern \in Patterns
  PROVE  Accounted(opendir(pattern)) /\ opendir(pattern).told = {}
  BY DEF opendir, Accounted, SearchStates, Names

\* A name that find_next reports.
LEMMA TellAccounted ==
  ASSUME NEW s, Accounted(s), NEW n, find_next(s, n)
  PROVE  /\ Accounted(Tell(s, n)) /\ ToldRightly(s, Tell(s, n))
         /\ Accounted(Lose(s, n)) /\ Lose(s, n).told = s.told
<1>1. /\ s \in SearchStates /\ n \in Files /\ n \notin Dots /\ wildcard_match(s.pattern, n)
  BY DEF find_next, Wanted, Accounted, SearchStates, Names
<1>2. /\ s.must \in SUBSET Names /\ s.may \in SUBSET Names
      /\ s.told \in SUBSET Files /\ s.owed \in SUBSET Files
      /\ s.pattern \in Patterns \cup {<<>>}
  BY <1>1 DEF SearchStates
<1>3. /\ Tell(s, n) = [s EXCEPT !.must = s.must \ {n}, !.may = s.may \ {n},
                                !.told = s.told \cup {n}]
      /\ Lose(s, n) = [s EXCEPT !.must = s.must \ {n}, !.may = s.may \ {n},
                                !.owed = s.owed \ {n}]
  BY <1>1 DEF Tell, Lose, Read, SearchStates
<1> DEFINE must == s.must \ {n}
           may == s.may \ {n}
           told == s.told \cup {n}
           owed == s.owed \ {n}
<1>4. /\ must \in SUBSET Names /\ may \in SUBSET Names
      /\ told \in SUBSET Files /\ owed \in SUBSET Files
  BY <1>1, <1>2
<1>5. /\ Tell(s, n) = [s EXCEPT !.must = must, !.may = may, !.told = told]
      /\ Lose(s, n) = [s EXCEPT !.must = must, !.may = may, !.owed = owed]
  BY <1>3
<1> HIDE DEF must, may, told, owed
<1>6. Tell(s, n) \in SearchStates
      /\ Tell(s, n).told = told /\ Tell(s, n).pattern = s.pattern
      /\ Tell(s, n).owed = s.owed /\ Tell(s, n).must = must /\ Tell(s, n).may = may
  BY <1>1, <1>4, <1>5 DEF SearchStates
<1>7. Lose(s, n) \in SearchStates
      /\ Lose(s, n).told = s.told /\ Lose(s, n).pattern = s.pattern
      /\ Lose(s, n).owed = owed /\ Lose(s, n).must = must /\ Lose(s, n).may = may
  BY <1>1, <1>4, <1>5 DEF SearchStates
<1>8. Glob(s.pattern, n)
  BY <1>1, <1>2, PatternsAndNames
<1> QED
  BY <1>1, <1>6, <1>7, <1>8 DEF Accounted, ToldRightly, must, may, told, owed

LEMMA ChangedAccounted ==
  ASSUME NEW s, Accounted(s), NEW n \in Files
  PROVE  /\ Accounted(Made(s, n)) /\ Made(s, n).told \subseteq s.told
         /\ Accounted(Removed(s, n)) /\ Removed(s, n).told \subseteq s.told
<1>1. /\ s \in SearchStates /\ n \in Names
      /\ s.must \in SUBSET Names /\ s.may \in SUBSET Names
      /\ s.told \in SUBSET Files /\ s.owed \in SUBSET Files
      /\ s.pattern \in Patterns \cup {<<>>}
  BY DEF Accounted, SearchStates, Names
<1>2. Accounted(Made(s, n)) /\ Made(s, n).told \subseteq s.told
  <2>1. Made(s, n) = [s EXCEPT !.may = s.may \cup {n}, !.told = s.told \ {n},
                               !.owed = s.owed \ {n}]
    BY <1>1 DEF Made, SearchStates
  <2>2. /\ Made(s, n) \in SearchStates
        /\ Made(s, n).pattern = s.pattern /\ Made(s, n).must = s.must
        /\ Made(s, n).may = s.may \cup {n}
        /\ Made(s, n).told = s.told \ {n} /\ Made(s, n).owed = s.owed \ {n}
    BY <1>1, <2>1 DEF SearchStates
  <2>3. Made(s, n).told \cap (Made(s, n).must \cup Made(s, n).may) = {}
    BY <2>2 DEF Accounted
  <2> QED
    BY <2>2, <2>3 DEF Accounted
<1>3. Accounted(Removed(s, n)) /\ Removed(s, n).told \subseteq s.told
  <2> DEFINE may == IF n \in s.must THEN s.may \cup {n} ELSE s.may
  <2>1. may \in SUBSET Names
    BY <1>1
  <2>2. Removed(s, n) = [s EXCEPT !.may = may, !.must = s.must \ {n}, !.told = s.told \ {n},
                                  !.owed = s.owed \ {n}]
    BY <1>1 DEF Removed, SearchStates
  <2>3. may \subseteq s.must \cup s.may
    OBVIOUS
  <2> HIDE DEF may
  <2>4. /\ Removed(s, n) \in SearchStates
        /\ Removed(s, n).pattern = s.pattern
        /\ Removed(s, n).must = s.must \ {n} /\ Removed(s, n).may = may
        /\ Removed(s, n).told = s.told \ {n} /\ Removed(s, n).owed = s.owed \ {n}
    BY <1>1, <2>1, <2>2 DEF SearchStates
  <2>5. Removed(s, n).told \cap (Removed(s, n).must \cup Removed(s, n).may) = {}
    BY <2>3, <2>4 DEF Accounted
  <2> QED
    BY <1>1, <2>1, <2>4, <2>5 DEF Accounted
<1> QED
  BY <1>2, <1>3

LEMMA EndedAccounted ==
  ASSUME NEW s, Accounted(s), Exhausted(s)
  PROVE  /\ Accounted([s EXCEPT !.must = {}, !.may = {}])
         /\ [s EXCEPT !.must = {}, !.may = {}].told = s.told
         /\ \A n \in s.owed \ s.told : ~Glob(TailTaken(s.pattern), n)
<1>1. ASSUME NEW n \in s.owed \ s.told
      PROVE  ~wildcard_match(s.pattern, n) /\ ~Glob(TailTaken(s.pattern), n)
  <2>1. n \in Files /\ s.pattern \in Patterns \cup {<<>>}
    BY DEF Accounted, SearchStates
  <2>2. n \notin Dots
    BY <2>1, FilesAssumption
  <2>3. ~wildcard_match(s.pattern, n)
    BY <2>2 DEF Accounted, Exhausted, Wanted
  <2> QED
    BY <2>1, <2>3, PatternsAndNames
<1>2. Accounted([s EXCEPT !.must = {}, !.may = {}])
  BY <1>1 DEF Accounted, SearchStates
<1>3. [s EXCEPT !.must = {}, !.may = {}].told = s.told
  BY DEF Accounted, SearchStates
<1> QED
  BY <1>1, <1>2, <1>3

\* Every step keeps the account of every search, and tells rightly.
LEMMA SearchStep ==
  ASSUME SearchInv, [FilesNext]_filesVars
  PROVE  /\ SearchInv'
         /\ \A r \in 1 .. MaxResources : ToldRightly(search[r], search'[r])
<1>0. /\ opened \in 0 .. MaxResources /\ MaxResources \in Nat
      /\ entries \subseteq Files
      /\ DOMAIN search = 1 .. MaxResources
      /\ \A r \in 1 .. MaxResources : Accounted(search[r])
  BY MaxResourcesAssumption DEF SearchInv
<1> SUFFICES
      /\ opened' \in 0 .. MaxResources
      /\ entries' \subseteq Files
      /\ DOMAIN search' = 1 .. MaxResources
      /\ \A r \in 1 .. MaxResources : Accounted(search'[r]) /\ ToldRightly(search[r], search'[r])
  BY DEF SearchInv
<1> DEFINE Kept(r) == Accounted(search'[r]) /\ ToldRightly(search[r], search'[r])
<1>s. ASSUME NEW r \in 1 .. MaxResources, Accounted(search'[r]), search'[r].told \subseteq search[r].told
      PROVE  Kept(r)
  BY <1>s DEF ToldRightly
<1>u. ASSUME UNCHANGED search
      PROVE  DOMAIN search' = 1 .. MaxResources /\ \A r \in 1 .. MaxResources : Kept(r)
  BY <1>0, <1>u DEF ToldRightly
<1>o. ASSUME opened < MaxResources, opened' = opened + 1
      PROVE  opened' \in 0 .. MaxResources
  BY <1>0, <1>o
<1>f. ASSUME Freed
      PROVE  DOMAIN search' = 1 .. MaxResources /\ \A r \in 1 .. MaxResources : Kept(r)
  <2>1. DOMAIN search' = 1 .. MaxResources
    BY <1>f DEF Freed
  <2>2. ASSUME NEW r \in 1 .. MaxResources
        PROVE  search'[r] = search[r] \/ search'[r] = NoSearch
    BY <1>f DEF Freed
  <2>3. ASSUME NEW r \in 1 .. MaxResources
        PROVE  Accounted(search'[r]) /\ search'[r].told \subseteq search[r].told
    BY <1>0, <2>2, NoSearchAccounted
  <2> QED
    BY <2>1, <2>3, <1>s
<1>m. ASSUME NEW n \in Files, MakeEntry(n)
      PROVE  /\ entries' \subseteq Files
             /\ DOMAIN search' = 1 .. MaxResources /\ \A r \in 1 .. MaxResources : Kept(r)
  <2>1. entries' \subseteq Files
    BY <1>0, <1>m DEF MakeEntry
  <2>2. CASE n \in entries
    BY <1>m, <1>u, <2>1, <2>2 DEF MakeEntry
  <2>3. CASE n \notin entries
    <3>1. search' = [r \in 1 .. MaxResources |->
                       IF r \in Underway THEN Made(search[r], n) ELSE search[r]]
      BY <1>m, <2>3 DEF MakeEntry
    <3>2. ASSUME NEW r \in 1 .. MaxResources
          PROVE  Accounted(search'[r]) /\ search'[r].told \subseteq search[r].told
      BY <1>0, <3>1, ChangedAccounted
    <3> QED
      BY <2>1, <3>1, <3>2, <1>s
  <2> QED
    BY <2>2, <2>3
<1> HIDE DEF Kept
<1>1. ASSUME NEW pattern \in Patterns, FindFirst(pattern)
      PROVE  /\ opened' \in 0 .. MaxResources /\ entries' \subseteq Files
             /\ DOMAIN search' = 1 .. MaxResources /\ \A r \in 1 .. MaxResources : Kept(r)
  <2>1. opened' \in 0 .. MaxResources /\ entries' = entries
    BY <1>1, <1>o DEF FindFirst, FindFirstFile
  <2>2. PICK n : /\ find_next(opendir(pattern), n)
                 /\ search' = IF open' = open THEN search
                              ELSE [search EXCEPT ![opened'] = Tell(opendir(pattern), n)]
    BY <1>1 DEF FindFirst
  <2>3. CASE open' = open
    BY <1>0, <1>u, <2>1, <2>2, <2>3
  <2>4. CASE open' # open
    <3>1. /\ Accounted(Tell(opendir(pattern), n))
          /\ ToldRightly(opendir(pattern), Tell(opendir(pattern), n))
          /\ opendir(pattern).told = {}
      BY <1>0, <2>2, OpenedAccounted, TellAccounted
    <3> DEFINE t == Tell(opendir(pattern), n)
    <3>2. \A m \in t.told : m \notin Dots /\ Glob(t.pattern, m)
      BY <3>1 DEF ToldRightly
    <3>3. /\ DOMAIN search' = 1 .. MaxResources
          /\ \A r \in 1 .. MaxResources : search'[r] = IF r = opened' THEN t ELSE search[r]
      BY <1>0, <2>2, <2>4
    <3> HIDE DEF t
    <3>4. ASSUME NEW r \in 1 .. MaxResources
          PROVE  Kept(r)
      BY <1>0, <3>1, <3>2, <3>3 DEF Kept, ToldRightly, t
    <3> QED
      BY <1>0, <2>1, <3>3, <3>4
  <2> QED
    BY <2>3, <2>4
<1>2. ASSUME NEW pattern \in Patterns, FindFirstNone(pattern)
      PROVE  /\ opened' \in 0 .. MaxResources /\ entries' \subseteq Files
             /\ DOMAIN search' = 1 .. MaxResources /\ \A r \in 1 .. MaxResources : Kept(r)
  BY <1>0, <1>2, <1>o, <1>u DEF FindFirstNone
<1>3. ASSUME NEW h \in CEHandle, FindNext(h)
      PROVE  /\ opened' \in 0 .. MaxResources /\ entries' \subseteq Files
             /\ DOMAIN search' = 1 .. MaxResources /\ \A r \in 1 .. MaxResources : Kept(r)
  <2> DEFINE q == handles[h].resource
  <2>1. PICK n : /\ find_next(search[q], n)
                 /\ \/ search' = [search EXCEPT ![q] = Tell(search[q], n)]
                    \/ search' = [search EXCEPT ![q] = Lose(search[q], n)]
    BY <1>3 DEF FindNext
  <2>2. opened' = opened /\ entries' = entries
    BY <1>3 DEF FindNext, vars
  <2> HIDE DEF q
  <2>3. DOMAIN search' = 1 .. MaxResources
        /\ \A r \in 1 .. MaxResources : \/ search'[r] = search[r]
                                        \/ r = q /\ search'[r] \in {Tell(search[r], n), Lose(search[r], n)}
    BY <1>0, <2>1
  <2>4. ASSUME NEW r \in 1 .. MaxResources
        PROVE  Kept(r)
    <3>1. CASE search'[r] = search[r]
      BY <1>0, <3>1 DEF Kept, ToldRightly
    <3>2. CASE r = q /\ search'[r] \in {Tell(search[r], n), Lose(search[r], n)}
      BY <1>0, <2>1, <3>2, TellAccounted DEF Kept, ToldRightly
    <3> QED
      BY <2>3, <3>1, <3>2
  <2> QED
    BY <1>0, <2>2, <2>3, <2>4
<1>4. ASSUME NEW h \in CEHandle, FindNextEnds(h)
      PROVE  /\ opened' \in 0 .. MaxResources /\ entries' \subseteq Files
             /\ DOMAIN search' = 1 .. MaxResources /\ \A r \in 1 .. MaxResources : Kept(r)
  <2> DEFINE q == handles[h].resource
             Ended(s) == [s EXCEPT !.must = {}, !.may = {}]
  <2>1. /\ Exhausted(search[q])
        /\ search' = [search EXCEPT ![q].must = {}, ![q].may = {}]
        /\ opened' = opened /\ entries' = entries
    BY <1>4 DEF FindNextEnds, vars
  <2> HIDE DEF q
  <2>2. DOMAIN search' = 1 .. MaxResources
        /\ \A r \in 1 .. MaxResources : \/ search'[r] = search[r]
                                        \/ r = q /\ search'[r] = Ended(search[r])
    BY <1>0, <2>1
  <2> HIDE DEF Ended
  <2>3. ASSUME NEW r \in 1 .. MaxResources
        PROVE  Kept(r)
    <3>1. CASE search'[r] = search[r]
      BY <1>0, <3>1 DEF Kept, ToldRightly
    <3>2. CASE r = q /\ search'[r] = Ended(search[r])
      <4>1. Accounted(Ended(search[r])) /\ Ended(search[r]).told = search[r].told
        BY <1>0, <2>1, <3>2, EndedAccounted DEF Ended
      <4> QED
        BY <1>s, <3>2, <4>1 
    <3> QED
      BY <2>2, <3>1, <3>2
  <2> QED
    BY <1>0, <2>1, <2>2, <2>3
<1>5. ASSUME NEW h \in CEHandle, CloseFound(h)
      PROVE  /\ opened' \in 0 .. MaxResources /\ entries' \subseteq Files
             /\ DOMAIN search' = 1 .. MaxResources /\ \A r \in 1 .. MaxResources : Kept(r)
  BY <1>0, <1>5, <1>f DEF CloseFound, CloseHandle, FindClose
<1>6. ASSUME NEW n \in Files, OpenFile(n)
      PROVE  /\ opened' \in 0 .. MaxResources /\ entries' \subseteq Files
             /\ DOMAIN search' = 1 .. MaxResources /\ \A r \in 1 .. MaxResources : Kept(r)
  <2>1. opened' \in 0 .. MaxResources
    BY <1>6, <1>o DEF OpenFile, CreateFile
  <2>2. CASE MakeEntry(n)
    BY <1>m, <2>1, <2>2
  <2>3. CASE UNCHANGED <<entries, search>>
    BY <1>0, <1>u, <2>1, <2>3
  <2> QED
    BY <1>6, <2>2, <2>3 DEF OpenFile
<1>7. ASSUME NEW n \in Files, CreateEntry(n)
      PROVE  /\ opened' \in 0 .. MaxResources /\ entries' \subseteq Files
             /\ DOMAIN search' = 1 .. MaxResources /\ \A r \in 1 .. MaxResources : Kept(r)
  <2>1. MakeEntry(n) /\ opened' = opened
    BY <1>7 DEF CreateEntry, vars
  <2> QED
    BY <1>0, <1>m, <2>1
<1>8. ASSUME NEW n \in Files, DeleteEntry(n)
      PROVE  /\ opened' \in 0 .. MaxResources /\ entries' \subseteq Files
             /\ DOMAIN search' = 1 .. MaxResources /\ \A r \in 1 .. MaxResources : Kept(r)
  <2>1. /\ opened' = opened /\ entries' = entries \ {n}
        /\ search' = [r \in 1 .. MaxResources |->
                        IF r \in Underway THEN Removed(search[r], n) ELSE search[r]]
    BY <1>8 DEF DeleteEntry, RemoveEntry, vars
  <2>2. ASSUME NEW r \in 1 .. MaxResources
        PROVE  Accounted(search'[r]) /\ search'[r].told \subseteq search[r].told
    BY <1>0, <2>1, ChangedAccounted
  <2> QED
    BY <1>0, <1>s, <2>1, <2>2
<1>9. ASSUME NEW from \in Files, NEW to \in Files, MoveEntry(from, to)
      PROVE  /\ opened' \in 0 .. MaxResources /\ entries' \subseteq Files
             /\ DOMAIN search' = 1 .. MaxResources /\ \A r \in 1 .. MaxResources : Kept(r)
  <2>1. /\ opened' = opened /\ entries' = (entries \ {from}) \cup {to}
        /\ search' = [r \in 1 .. MaxResources |->
                        IF r \in Underway
                        THEN Made(Removed(Removed(search[r], from), to), to)
                        ELSE search[r]]
    BY <1>9 DEF MoveEntry, vars
  <2>2. ASSUME NEW r \in 1 .. MaxResources
        PROVE  Accounted(search'[r]) /\ search'[r].told \subseteq search[r].told
    <3>1. /\ Accounted(Removed(search[r], from))
          /\ Removed(search[r], from).told \subseteq search[r].told
      BY <1>0, ChangedAccounted
    <3> DEFINE s == Removed(search[r], from)
               t == Removed(s, to)
    <3> HIDE DEF s
    <3>2. Accounted(t) /\ t.told \subseteq s.told
      BY <3>1, ChangedAccounted DEF s
    <3> HIDE DEF t
    <3>3. Accounted(Made(t, to)) /\ Made(t, to).told \subseteq t.told
      BY <3>2, ChangedAccounted
    <3>4. search'[r] = Made(t, to) \/ search'[r] = search[r]
      BY <2>1 DEF t, s
    <3> QED
      BY <1>0, <3>1, <3>2, <3>3, <3>4 DEF s
  <2> QED
    BY <1>0, <1>s, <2>1, <2>2
<1>10. CASE OtherHandles
  BY <1>0, <1>u, <1>10 DEF OtherHandles, CreateObject, RegOpenKey, SetEvent, DeleteObject, RegCloseKey, Kept
<1>11. CASE Destroy
  BY <1>0, <1>11, <1>f DEF Destroy, CERuntimeDestroy, Kept
<1>12. CASE UNCHANGED filesVars
  BY <1>0, <1>12, <1>u DEF filesVars, vars, Kept
<1> QED
  BY <1>1, <1>2, <1>3, <1>4, <1>5, <1>6, <1>7, <1>8, <1>9, <1>10, <1>11, <1>12 DEF FilesNext, Kept

\* However the directory changes meanwhile, a search tells of what matches, of none again
\* that it has told of since it was made and, at its end, has told of everything that
\* matches, was there all along and was not lost (CEKernel.c 170-189 and 320-324).
THEOREM SearchesAreExact == FilesSpec => SearchExact
<1> DEFINE Told == \A r \in DOMAIN search :
              /\ \A n \in search'[r].told \ search[r].told : n \notin Dots /\ Glob(search'[r].pattern, n)
              /\ \A n \in search[r].told : ~find_next(search[r], n)
           NoneRight == \A pattern \in Patterns :
              FindFirstNone(pattern) => \A n \in entries : ~Glob(TailTaken(pattern), n)
           EndRight == \A h \in CEHandle : FindNextEnds(h) =>
              LET s == search[handles[h].resource] IN
              \A n \in s.owed \ s.told : ~Glob(TailTaken(s.pattern), n)
<1>1. FilesInit => SearchInv
  BY NoSearchAccounted, MaxResourcesAssumption DEF FilesInit, Init, SearchInv
<1>2. SearchInv /\ [FilesNext]_filesVars => SearchInv' /\ Told
  <2>1. SearchInv => \A r \in DOMAIN search : \A n \in search[r].told : ~find_next(search[r], n)
    BY DEF SearchInv, Accounted, find_next, Wanted
  <2> QED
    BY <2>1, SearchStep DEF SearchInv, ToldRightly
<1>3. SearchInv => NoneRight
  <2> SUFFICES ASSUME SearchInv, NEW pattern \in Patterns, FindFirstNone(pattern)
               PROVE  \A n \in entries : ~Glob(TailTaken(pattern), n)
    OBVIOUS
  <2>1. Accounted(opendir(pattern)) /\ Exhausted(opendir(pattern))
    BY OpenedAccounted DEF SearchInv, FindFirstNone
  <2>2. /\ opendir(pattern).owed = entries /\ opendir(pattern).told = {}
        /\ opendir(pattern).pattern = pattern
    BY DEF opendir
  <2>3. \A n \in opendir(pattern).owed \ opendir(pattern).told :
           ~Glob(TailTaken(opendir(pattern).pattern), n)
    BY <2>1, EndedAccounted
  <2> QED
    BY <2>2, <2>3
<1>4. SearchInv /\ IInv => EndRight
  <2> SUFFICES ASSUME SearchInv, IInv, NEW h \in CEHandle, FindNextEnds(h)
               PROVE  \A n \in search[handles[h].resource].owed \ search[handles[h].resource].told :
                         ~Glob(TailTaken(search[handles[h].resource].pattern), n)
    OBVIOUS
  <2>1. handles[h].type \in HostTypes /\ Exhausted(search[handles[h].resource])
    BY DEF FindNextEnds, HasType, HostTypes
  <2>2. handles[h].resource \in 1 .. opened /\ opened \in 0 .. MaxResources
    BY <2>1 DEF IInv, OneOwner, ResourcesInv, SearchInv
  <2>3. handles[h].resource \in 1 .. MaxResources
    BY <2>2, MaxResourcesAssumption
  <2> QED
    BY <2>1, <2>3, EndedAccounted DEF SearchInv
<1>5. SearchInv /\ IInv /\ [FilesNext]_filesVars => [Told /\ NoneRight /\ EndRight]_filesVars
  <2> HIDE DEF Told, NoneRight, EndRight
  <2> QED
    BY <1>2, <1>3, <1>4
<1> QED
  BY <1>1, <1>2, <1>5, Invariant, SearchesUseHandles, PTL DEF FilesSpec, SearchExact
-----------------------------------------------------------------------------
\* The bytes are appended one name's character after the other.
ReportedFrom(name) ==
  {out \in [0 .. Len(name) -> Seq({name[k] : k \in 1 .. Len(name)} \cup {"byte1", "byte2"})] :
     /\ out[0] = <<>>
     /\ \A n \in 1 .. Len(name) : out[n] = Report(out[n - 1], name[n])
     /\ ReportedName(name) = out[Len(name)]}

LEMMA ReportedSteps ==
  ASSUME NEW C, NEW name \in Seq(C)
  PROVE  ReportedFrom(name) # {}
<1> DEFINE L == Len(name)
           S == Seq({name[k] : k \in 1 .. L} \cup {"byte1", "byte2"})
           step == [n \in 1 .. L |-> [out \in S |-> Report(out, name[n])]]
           Reports(f) == f = [n \in 0 .. L |->
                                IF n = 0 THEN <<>>
                                ELSE Report(f[n - 1], name[n])]
<1>1. L \in Nat /\ <<>> \in S
  BY LenProperties, EmptySeq
<1>2. step \in [1 .. L -> [S -> S]]
  <2>1. ASSUME NEW n \in 1 .. L, NEW out \in S
        PROVE  Report(out, name[n]) \in S
    <3>1. CASE name[n] = "wide"
      <4>1. <<"byte1", "byte2">> \in S
        OBVIOUS
      <4> QED
        BY <3>1, <4>1, ConcatProperties DEF Report
    <3>2. CASE name[n] # "wide"
      <4>1. <<name[n]>> \in S
        OBVIOUS
      <4> QED
        BY <3>2, <4>1, ConcatProperties DEF Report
    <3> QED
      BY <3>1, <3>2
  <2> QED
    BY <2>1
<1>3. PICK g \in [0 .. L -> S] : g[0] = <<>> /\ \A n \in 1 .. L : g[n] = step[n][g[n - 1]]
  <2> HIDE DEF step, S, L
  <2>1. Turns(S, <<>>, step, L) # {}
    BY <1>1, <1>2, Iterated
  <2> QED
    BY <2>1 DEF Turns
<1>4. \E f : Reports(f)
  <2>1. ASSUME NEW n \in 1 .. L
        PROVE  g[n] = Report(g[n - 1], name[n])
    <3>1. g[n - 1] \in S
      <4> HIDE DEF S
      <4> QED
        BY <1>1, <1>3
    <3> QED
      BY <1>3, <3>1
  <2>2. g = [n \in 0 .. L |-> g[n]]
    BY <1>3
  <2> HIDE DEF S
  <2>3. \A n \in 0 .. L : g[n] = IF n = 0 THEN <<>>
                                 ELSE Report(g[n - 1], name[n])
    BY <1>1, <1>3, <2>1
  <2>4. Reports(g)
    BY <2>2, <2>3
  <2> QED
    BY <2>4
<1> DEFINE f == CHOOSE h : Reports(h)
<1>5. Reports(f)
  <2> HIDE DEF Reports
  <2> QED
    BY <1>4, Zenon
<1>6. ReportedName(name) = f[L]
  BY Zenon DEF ReportedName
<1> HIDE DEF f
<1>7. /\ f = [n \in 0 .. L |-> f[n]]
      /\ \A n \in 0 .. L : f[n] = IF n = 0 THEN <<>> ELSE Report(f[n - 1], name[n])
  BY <1>5
<1>8. f[0] = <<>>
  BY <1>1, <1>7
<1>9. ASSUME NEW n \in 1 .. L
       PROVE  f[n] = Report(f[n - 1], name[n])
  <2>1. n \in 0 .. L /\ n # 0
    OBVIOUS
  <2> QED
    BY <1>7, <2>1
<1>10. f \in [0 .. L -> S]
  <2> HIDE DEF S, L
  <2> DEFINE Good == {n \in 0 .. L : f[n] \in S}
  <2>1. 0 \in Good
    BY <1>1, <1>8
  <2>2. ASSUME NEW n \in 0 .. L - 1, n \in Good
        PROVE  n + 1 \in Good
    <3>1. n + 1 \in 1 .. L /\ n + 1 - 1 = n /\ f[n] \in S
      BY <1>1, <2>2
    <3>2. step[n + 1][f[n]] \in S
      <4> HIDE DEF step
      <4> QED
        BY <1>2, <3>1
    <3>3. f[n + 1] = Report(f[n], name[n + 1])
      BY <1>9, <3>1
    <3>4. step[n + 1][f[n]] = Report(f[n], name[n + 1])
      BY <3>1
    <3> QED
      BY <3>1, <3>2, <3>3, <3>4
  <2> HIDE DEF Good
  <2>3. 0 .. L \subseteq Good
    BY <1>1, <2>1, <2>2, UpToBound
  <2> QED
    BY <1>7, <2>3 DEF Good
<1>11. f \in ReportedFrom(name)
  BY <1>6, <1>10, <1>8, <1>9 DEF ReportedFrom
<1> QED
  BY <1>11

LEMMA ReportedIsName ==
  ASSUME NEW C, NEW name \in Seq(C)
  PROVE  /\ ReportedName(name) \in Seq({name[k] : k \in 1 .. Len(name)} \cup {"byte1", "byte2"})
         /\ (\A n \in 1 .. Len(name) : name[n] # "wide") => ReportedName(name) = name
<1> DEFINE L == Len(name)
           D == {name[k] : k \in 1 .. L} \cup {"byte1", "byte2"}
<1>1. L \in Nat /\ name \in [1 .. L -> C]
  BY LenProperties
<1>2. PICK out \in [0 .. L -> Seq(D)] :
        /\ out[0] = <<>>
        /\ \A n \in 1 .. L : out[n] = Report(out[n - 1], name[n])
        /\ ReportedName(name) = out[L]
  <2>1. ReportedFrom(name) # {}
    BY ReportedSteps
  <2> QED
    BY <2>1 DEF ReportedFrom
<1>3. ASSUME \A n \in 1 .. L : name[n] # "wide"
      PROVE  out[L] = name
  <2> DEFINE Good == {n \in 0 .. L : out[n] = [m \in 1 .. n |-> name[m]]}
  <2>1. 0 \in Good
    BY <1>1, <1>2
  <2>2. ASSUME NEW n \in 0 .. L - 1, n \in Good
        PROVE  n + 1 \in Good
    <3> DEFINE prefix == [m \in 1 .. n |-> name[m]]
    <3>1. n \in Nat /\ n + 1 \in 1 .. L /\ n + 1 - 1 = n /\ out[n] = prefix
      BY <1>1, <2>2
    <3>2. prefix \in [1 .. n -> C] /\ prefix \in Seq(C) /\ Len(prefix) = n
      <4>1. prefix \in [1 .. n -> C]
        BY <1>1, <3>1
      <4> HIDE DEF prefix
      <4>2. prefix \in Seq(C)
        BY <3>1, <4>1, SeqDef
      <4> QED
        BY <3>1, <4>1, <4>2, LenProperties
    <3>3. out[n + 1] = prefix \o <<name[n + 1]>>
      <4>1. Report(prefix, name[n + 1]) = prefix \o <<name[n + 1]>>
        BY <1>3, <3>1 DEF Report
      <4> HIDE DEF prefix
      <4> QED
        BY <1>2, <3>1, <4>1
    <3>4. name[n + 1] \in C
      BY <1>1, <3>1
    <3>5. <<name[n + 1]>> \in Seq(C) /\ Len(<<name[n + 1]>>) = 1 /\ <<name[n + 1]>>[1] = name[n + 1]
      BY <3>4
    <3>6. \A m \in 1 .. n : prefix[m] = name[m]
      OBVIOUS
    <3> HIDE DEF prefix
    <3> DEFINE s == prefix \o <<name[n + 1]>>
    <3>7. /\ s \in Seq(C) /\ Len(s) = n + 1
          /\ \A m \in 1 .. n + 1 : s[m] = name[m]
      BY <3>1, <3>2, <3>5, <3>6, ConcatProperties
    <3> HIDE DEF s
    <3>8. s \in [1 .. n + 1 -> C]
      BY <3>7, LenProperties
    <3>9. s = [m \in 1 .. n + 1 |-> name[m]]
      BY <3>7, <3>8
    <3>10. out[n + 1] = [m \in 1 .. n + 1 |-> name[m]]
      BY <3>3, <3>9 DEF s
    <3> QED
      BY <1>1, <3>1, <3>10
  <2> HIDE DEF Good
  <2>3. 0 .. L \subseteq Good
    BY <1>1, <2>1, <2>2, UpToBound
  <2>4. out[L] = [m \in 1 .. L |-> name[m]]
    BY <1>1, <2>3 DEF Good
  <2> QED
    BY <1>1, <2>4
<1>4. out[L] \in Seq(D)
  <2> HIDE DEF D
  <2> QED
    BY <1>1, <1>2
<1> QED
  BY <1>2, <1>3, <1>4

-----------------------------------------------------------------------------
PathStates(wide) ==
  [out : Seq({Converted(wide[k]) : k \in 1 .. Len(wide)}), segment : Nat, ok : BOOLEAN]

LEMMA ScanType ==
  ASSUME NEW wide, NEW n \in 1 .. Len(wide), NEW path \in PathStates(wide)
  PROVE  ScanCharacter(path, wide[n]) \in PathStates(wide)
<1> DEFINE D == {Converted(wide[k]) : k \in 1 .. Len(wide)}
           c == Converted(wide[n])
<1>1. c \in D /\ path.out \in Seq(D) /\ path.segment \in Nat /\ path.ok \in BOOLEAN
  BY DEF PathStates
<1> HIDE DEF c, D
<1>2. Append(path.out, c) \in Seq(D)
  BY <1>1, AppendProperties
<1>3. (IF c = "/" THEN 0 ELSE path.segment + 1) \in Nat
  BY <1>1
<1>4. (path.ok /\ ~(c = "/" /\ EndsInDots(path))) \in BOOLEAN
  OBVIOUS
<1> QED
  BY <1>2, <1>3, <1>4 DEF ScanCharacter, PathStates, c, D

\* What the loop over the characters goes through.
ScannedFrom(wide) ==
  {path \in [0 .. Len(wide) -> PathStates(wide)] :
     /\ path[0] = NoPath
     /\ \A n \in 1 .. Len(wide) : path[n] = ScanCharacter(path[n - 1], wide[n])
     /\ LET last == path[Len(wide)] IN
        guest_path(wide) = [last EXCEPT !.ok = last.ok /\ ~EndsInDots(last)]}

LEMMA ScannedSteps ==
  ASSUME NEW C, NEW wide \in Seq(C)
  PROVE  ScannedFrom(wide) # {}
<1> DEFINE L == Len(wide)
           S == PathStates(wide)
           step == [n \in 1 .. L |-> [path \in S |-> ScanCharacter(path, wide[n])]]
           Scans(f) == f = [n \in 0 .. L |->
                              IF n = 0 THEN NoPath ELSE ScanCharacter(f[n - 1], wide[n])]
<1>1. L \in Nat /\ NoPath \in S
  <2>1. <<>> \in Seq({Converted(wide[k]) : k \in 1 .. Len(wide)})
    BY EmptySeq
  <2> QED
    BY <2>1, LenProperties DEF NoPath, PathStates
<1>2. step \in [1 .. L -> [S -> S]]
  BY ScanType
<1> HIDE DEF S, L
<1>3. PICK g \in [0 .. L -> S] : g[0] = NoPath /\ \A n \in 1 .. L : g[n] = step[n][g[n - 1]]
  <2> HIDE DEF step
  <2>1. Turns(S, NoPath, step, L) # {}
    BY <1>1, <1>2, Iterated
  <2> QED
    BY <2>1 DEF Turns
<1>4. \E f : Scans(f)
  <2>1. ASSUME NEW n \in 1 .. L
        PROVE  g[n] = ScanCharacter(g[n - 1], wide[n])
    <3>1. g[n - 1] \in S
      BY <1>1, <1>3
    <3> QED
      BY <1>3, <3>1
  <2>2. g = [n \in 0 .. L |-> g[n]]
    BY <1>3
  <2>3. \A n \in 0 .. L : g[n] = IF n = 0 THEN NoPath ELSE ScanCharacter(g[n - 1], wide[n])
    BY <1>1, <1>3, <2>1
  <2>4. Scans(g)
    BY <2>2, <2>3
  <2> QED
    BY <2>4
<1> DEFINE f == CHOOSE h : Scans(h)
<1>5. Scans(f)
  <2> HIDE DEF Scans
  <2> QED
    BY <1>4, Zenon
<1>6. guest_path(wide) = [f[L] EXCEPT !.ok = f[L].ok /\ ~EndsInDots(f[L])]
  BY Zenon DEF guest_path, L
<1> HIDE DEF f
<1>7. /\ f = [n \in 0 .. L |-> f[n]]
      /\ \A n \in 0 .. L : f[n] = IF n = 0 THEN NoPath ELSE ScanCharacter(f[n - 1], wide[n])
  BY <1>5
<1>8. f[0] = NoPath
  BY <1>1, <1>7
<1>9. ASSUME NEW n \in 1 .. L
      PROVE  f[n] = ScanCharacter(f[n - 1], wide[n])
  <2>1. n \in 0 .. L /\ n # 0
    OBVIOUS
  <2> QED
    BY <1>7, <2>1
<1>10. f \in [0 .. L -> S]
  <2> DEFINE Good == {n \in 0 .. L : f[n] \in S}
  <2>1. 0 \in Good
    BY <1>1, <1>8
  <2>2. ASSUME NEW n \in 0 .. L - 1, n \in Good
        PROVE  n + 1 \in Good
    <3>1. n + 1 \in 1 .. L /\ n + 1 - 1 = n /\ f[n] \in S
      BY <1>1, <2>2
    <3>2. f[n + 1] = ScanCharacter(f[n], wide[n + 1])
      BY <1>9, <3>1
    <3>3. f[n + 1] \in S
      BY <3>1, <3>2, ScanType DEF S, L
    <3> QED
      BY <3>1, <3>3
  <2> HIDE DEF Good
  <2>3. 0 .. L \subseteq Good
    BY <1>1, <2>1, <2>2, UpToBound
  <2> QED
    BY <1>7, <2>3 DEF Good
<1>11. f \in ScannedFrom(wide)
  BY <1>6, <1>8, <1>9, <1>10 DEF ScannedFrom, L, S
<1> QED
  BY <1>11

\* There is a component .. at i, with a separator behind it.
DotsAt(out, i) ==
  /\ out[i] = "." /\ out[i + 1] = "."
  /\ i = 1 \/ out[i - 1] = "/"

\* After n characters: they are converted one by one, segment is how far the last separator
\* is away, and the path is refused if a component .. has ended.
Scanned(path, wide, n) ==
  /\ Len(path.out) = n
  /\ \A m \in 1 .. n : path.out[m] = Converted(wide[m])
  /\ path.segment \in 0 .. n
  /\ \A m \in 1 .. n : m > n - path.segment => path.out[m] # "/"
  /\ path.segment < n => path.out[n - path.segment] = "/"
  /\ path.ok <=> \A i \in 1 .. n - 2 : ~(DotsAt(path.out, i) /\ path.out[i + 2] = "/")

\* The last component is .. exactly if it is two dots long.
LEMMA LastIsDots ==
  ASSUME NEW wide, NEW n \in Nat, NEW path \in PathStates(wide), Scanned(path, wide, n)
  PROVE  EndsInDots(path) <=> n >= 2 /\ DotsAt(path.out, n - 1)
<1>1. path.segment \in 0 .. n /\ Len(path.out) = n
  BY DEF Scanned
<1>2. ASSUME path.segment = 2, path.out[n] = ".", path.out[n - 1] = "."
      PROVE  n >= 2 /\ DotsAt(path.out, n - 1)
  <2>1. n >= 2
    BY <1>1, <1>2
  <2>2. n # 2 => path.out[n - 2] = "/"
    BY <1>1, <1>2, <2>1 DEF Scanned
  <2>3. n - 1 + 1 = n /\ n - 1 - 1 = n - 2 /\ (n - 1 = 1 <=> n = 2)
    BY <2>1
  <2> QED
    BY <1>2, <2>1, <2>2, <2>3 DEF DotsAt
<1>3. ASSUME n >= 2, DotsAt(path.out, n - 1)
      PROVE  path.segment = 2 /\ path.out[n] = "." /\ path.out[n - 1] = "."
  <2>1. n - 1 + 1 = n /\ n - 1 - 1 = n - 2 /\ (n - 1 = 1 <=> n = 2)
    BY <1>3
  <2>2. path.out[n] = "." /\ path.out[n - 1] = "." /\ (n = 2 \/ path.out[n - 2] = "/")
    BY <1>3, <2>1 DEF DotsAt
  <2>3. path.segment # 0
    <3>1. path.segment = 0 => path.out[n] = "/"
      BY <1>1, <1>3 DEF Scanned
    <3> QED
      BY <2>2, <3>1
  <2>4. path.segment # 1
    <3>1. path.segment = 1 => path.out[n - 1] = "/"
      BY <1>1, <1>3 DEF Scanned
    <3> QED
      BY <2>2, <3>1
  <2>5. path.segment <= 2
    <3>1. n # 2 => n - 2 \in 1 .. n
      BY <1>3
    <3>2. n # 2 => ~(n - 2 > n - path.segment)
      BY <2>2, <3>1 DEF Scanned
    <3> QED
      BY <1>1, <1>3, <3>2
  <2> QED
    BY <1>1, <2>2, <2>3, <2>4, <2>5
<1> QED
  BY <1>1, <1>2, <1>3 DEF EndsInDots

LEMMA ScanKeeps ==
  ASSUME NEW wide, NEW n \in Nat, n + 1 \in 1 .. Len(wide),
         NEW path \in PathStates(wide), Scanned(path, wide, n)
  PROVE  Scanned(ScanCharacter(path, wide[n + 1]), wide, n + 1)
<1> DEFINE c == Converted(wide[n + 1])
           D == {Converted(wide[k]) : k \in 1 .. Len(wide)}
           next == ScanCharacter(path, wide[n + 1])
           Ended(out, i) == DotsAt(out, i) /\ out[i + 2] = "/"
<1>1. /\ path.out \in Seq(D) /\ Len(path.out) = n /\ c \in D
      /\ path.segment \in 0 .. n
  BY DEF PathStates, Scanned
<1>2. /\ next.out = Append(path.out, c)
      /\ next.segment = IF c = "/" THEN 0 ELSE path.segment + 1
      /\ next.ok <=> path.ok /\ ~(c = "/" /\ EndsInDots(path))
  BY DEF ScanCharacter
<1>3. EndsInDots(path) <=> n >= 2 /\ DotsAt(path.out, n - 1)
  BY LastIsDots
<1> HIDE DEF D
<1>4. /\ Len(next.out) = n + 1
      /\ \A m \in 1 .. n : next.out[m] = path.out[m]
      /\ next.out[n + 1] = c
  BY <1>1, <1>2, AppendProperties
<1> HIDE DEF next
<1>5. \A m \in 1 .. n + 1 : next.out[m] = Converted(wide[m])
  BY <1>4 DEF Scanned
<1>6. next.segment \in 0 .. n + 1
  BY <1>1, <1>2
<1>7. ASSUME NEW m \in 1 .. n + 1, m > n + 1 - next.segment
      PROVE  next.out[m] # "/"
  <2>1. c # "/" /\ m > n - path.segment
    BY <1>1, <1>2, <1>7
  <2>2. CASE m = n + 1
    BY <1>4, <2>1, <2>2
  <2>3. CASE m # n + 1
    BY <1>4, <2>1, <2>3 DEF Scanned
  <2> QED
    BY <2>2, <2>3
<1>8. ASSUME next.segment < n + 1
      PROVE  next.out[n + 1 - next.segment] = "/"
  <2>1. CASE c = "/"
    BY <1>2, <1>4, <2>1
  <2>2. CASE c # "/"
    <3>1. /\ path.segment < n /\ n + 1 - next.segment = n - path.segment
          /\ n - path.segment \in 1 .. n
      BY <1>1, <1>2, <1>8, <2>2
    <3> QED
      BY <1>4, <3>1 DEF Scanned
  <2> QED
    BY <2>1, <2>2
<1>9. \A i \in 1 .. n - 2 : Ended(next.out, i) <=> Ended(path.out, i)
  <2> SUFFICES ASSUME NEW i \in 1 .. n - 2
               PROVE  Ended(next.out, i) <=> Ended(path.out, i)
    OBVIOUS
  <2>1. i \in 1 .. n /\ i + 1 \in 1 .. n /\ i + 2 \in 1 .. n /\ (i # 1 => i - 1 \in 1 .. n)
    OBVIOUS
  <2> QED
    BY <1>4, <2>1 DEF DotsAt
<1>10. n >= 2 => (Ended(next.out, n - 1) <=> c = "/" /\ DotsAt(path.out, n - 1))
  <2> SUFFICES ASSUME n >= 2
               PROVE  Ended(next.out, n - 1) <=> c = "/" /\ DotsAt(path.out, n - 1)
    OBVIOUS
  <2>1. /\ n - 1 \in 1 .. n /\ n - 1 + 1 \in 1 .. n /\ n - 1 + 2 = n + 1
        /\ (n - 1 # 1 => n - 1 - 1 \in 1 .. n)
    OBVIOUS
  <2> QED
    BY <1>4, <2>1 DEF DotsAt
<1>11. next.ok <=> \A i \in 1 .. n + 1 - 2 : ~Ended(next.out, i)
  <2>1. path.ok <=> \A i \in 1 .. n - 2 : ~Ended(path.out, i)
    BY DEF Scanned
  <2> HIDE DEF Ended
  <2>2. \A i : i \in 1 .. n + 1 - 2 <=> i \in 1 .. n - 2 \/ (n >= 2 /\ i = n - 1)
    OBVIOUS
  <2> QED
    BY <1>2, <1>3, <1>9, <1>10, <2>1, <2>2
<1> QED
  BY <1>4, <1>5, <1>6, <1>7, <1>8, <1>11 DEF Scanned, next

\* out holds a component .., as the characters of it.
Upwards(out) ==
  \E i \in 1 .. Len(out) - 1 : DotsAt(out, i) /\ (i + 2 <= Len(out) => out[i + 2] = "/")

LEMMA PathIs ==
  ASSUME NEW C, NEW wide \in Seq(C)
  PROVE  LET path == guest_path(wide) IN
         /\ path.out \in Seq({Converted(wide[k]) : k \in 1 .. Len(wide)})
         /\ Len(path.out) = Len(wide)
         /\ \A m \in 1 .. Len(wide) : path.out[m] = Converted(wide[m])
         /\ path.ok \in BOOLEAN
         /\ path.ok <=> ~Upwards(path.out)
<1> DEFINE L == Len(wide)
           S == PathStates(wide)
<1>1. L \in Nat
  BY LenProperties
<1>2. PICK path \in [0 .. L -> S] :
        /\ path[0] = NoPath
        /\ \A n \in 1 .. L : path[n] = ScanCharacter(path[n - 1], wide[n])
        /\ guest_path(wide) = [path[L] EXCEPT !.ok = path[L].ok /\ ~EndsInDots(path[L])]
  <2>1. ScannedFrom(wide) # {}
    BY ScannedSteps
  <2> QED
    BY <2>1 DEF ScannedFrom
<1> HIDE DEF S
<1>3. Scanned(path[L], wide, L)
  <2> DEFINE Good == {n \in 0 .. L : Scanned(path[n], wide, n)}
  <2>1. 0 \in Good
    <3>1. Scanned(NoPath, wide, 0)
      BY DEF NoPath, Scanned
    <3> QED
      BY <1>1, <1>2, <3>1
  <2>2. ASSUME NEW n \in 0 .. L - 1, n \in Good
        PROVE  n + 1 \in Good
    <3>1. /\ n \in Nat /\ n \in 0 .. L /\ n + 1 \in 1 .. L /\ n + 1 - 1 = n
          /\ n + 1 \in 0 .. L
      BY <1>1
    <3>2. path[n] \in S /\ Scanned(path[n], wide, n)
      BY <1>2, <2>2, <3>1
    <3>3. Scanned(ScanCharacter(path[n], wide[n + 1]), wide, n + 1)
      BY <3>1, <3>2, ScanKeeps DEF S
    <3>4. path[n + 1] = ScanCharacter(path[n], wide[n + 1])
      BY <1>2, <3>1
    <3> QED
      BY <3>1, <3>3, <3>4
  <2> HIDE DEF Good
  <2>3. 0 .. L \subseteq Good
    BY <1>1, <2>1, <2>2, UpToBound
  <2> QED
    BY <1>1, <2>3 DEF Good
<1> DEFINE last == path[L]
<1>4. last \in S
  BY <1>1, <1>2
<1>5. EndsInDots(last) <=> L >= 2 /\ DotsAt(last.out, L - 1)
  BY <1>1, <1>3, <1>4, LastIsDots DEF S
<1>6. guest_path(wide) = [last EXCEPT !.ok = last.ok /\ ~EndsInDots(last)]
  BY <1>2
<1>7. /\ Len(last.out) = L
      /\ \A m \in 1 .. L : last.out[m] = Converted(wide[m])
      /\ last.ok <=> \A i \in 1 .. L - 2 : ~(DotsAt(last.out, i) /\ last.out[i + 2] = "/")
  BY <1>3 DEF Scanned
<1> HIDE DEF last, L
<1>8. /\ guest_path(wide).out = last.out
      /\ guest_path(wide).ok = (last.ok /\ ~EndsInDots(last))
  BY <1>4, <1>6 DEF S, PathStates
<1>9. guest_path(wide).ok <=> ~Upwards(last.out)
  <2>1. \A i : i \in 1 .. L - 1 <=> i \in 1 .. L - 2 \/ (L >= 2 /\ i = L - 1)
    BY <1>1
  <2>2. \A i \in 1 .. L - 2 : i + 2 <= L
    BY <1>1
  <2>3. ~(L - 1 + 2 <= L)
    BY <1>1
  <2> QED
    BY <1>5, <1>7, <1>8, <2>1, <2>2, <2>3 DEF Upwards
<1>10. last.out \in Seq({Converted(wide[k]) : k \in 1 .. Len(wide)})
  BY <1>4 DEF S, PathStates
<1> QED
  BY <1>7, <1>8, <1>9, <1>10 DEF L

\* A component .. is one of the pieces between separators.
LEMMA UpwardsIsComponent ==
  ASSUME NEW C, NEW out \in Seq(C)
  PROVE  Upwards(out) <=> <<".", ".">> \in Components(out)
<1> DEFINE L == Len(out)
           Starts(i) == i = 1 \/ out[i - 1] = "/"
           Ends(j) == j = L \/ out[j + 1] = "/"
<1>1. L \in Nat
  BY LenProperties
<1>2. <<".", ".">> \in Components(out) <=>
        \E i, j \in 1 .. L : Starts(i) /\ Ends(j) /\ SubSeq(out, i, j) = <<".", ".">>
  <2> DEFINE F(i, j) == SubSeq(out, i, j)
  <2>1. Components(out) = {F(i, j) : i \in {p \in 1 .. L : Starts(p)}, j \in {p \in 1 .. L : Ends(p)}}
    BY SMT DEF Components
  <2> HIDE DEF F, Starts, Ends, L
  <2>2. \A x : x \in Components(out) <=> \E i, j \in 1 .. L : Starts(i) /\ Ends(j) /\ F(i, j) = x
    BY <2>1
  <2> QED
    BY <2>2 DEF F
<1>3. ASSUME NEW i \in 1 .. L, NEW j \in 1 .. L
      PROVE  SubSeq(out, i, j) = <<".", ".">> <=>
               j = i + 1 /\ out[i] = "." /\ out[i + 1] = "."
  <2> DEFINE s == SubSeq(out, i, j)
  <2>1. /\ s \in Seq(C)
        /\ Len(s) = IF i <= j THEN j - i + 1 ELSE 0
        /\ \A k \in 1 .. j - i + 1 : s[k] = out[i + k - 1]
    BY SubSeqProperties
  <2> HIDE DEF s
  <2>2. ASSUME s = <<".", ".">>
        PROVE  j = i + 1 /\ out[i] = "." /\ out[i + 1] = "."
    <3>1. Len(s) = 2 /\ s[1] = "." /\ s[2] = "."
      BY <2>2
    <3>2. j = i + 1
      <4>1. i \in Int /\ j \in Int
        BY <1>1
      <4>2. i <= j
        <5>1. ~(i <= j) => Len(s) = 0
          BY <2>1
        <5> QED
          BY <3>1, <5>1
      <4>3. j - i + 1 = 2
        BY <2>1, <3>1, <4>2
      <4> QED
        BY <4>1, <4>3
    <3>3. 1 \in 1 .. j - i + 1 /\ 2 \in 1 .. j - i + 1 /\ i + 1 - 1 = i /\ i + 2 - 1 = i + 1
      BY <3>2
    <3> QED
      BY <2>1, <3>1, <3>2, <3>3
  <2>3. ASSUME j = i + 1, out[i] = ".", out[i + 1] = "."
        PROVE  s = <<".", ".">>
    <3>1. 1 \in 1 .. j - i + 1 /\ 2 \in 1 .. j - i + 1 /\ i + 1 - 1 = i /\ i + 2 - 1 = i + 1
      BY <2>3
    <3>2. Len(s) = 2 /\ s[1] = "." /\ s[2] = "."
      BY <2>1, <2>3, <3>1
    <3>3. "." \in C
      <4>1. out[i] \in C
        BY ElementOfSeq
      <4> QED
        BY <2>3, <4>1
    <3>4. <<".", ".">> \in Seq(C)
      BY <3>3
    <3>5. Len(<<".", ".">>) = 2 /\ <<".", ".">>[1] = "." /\ <<".", ".">>[2] = "."
      OBVIOUS
    <3> DEFINE t == <<".", ".">>
    <3> HIDE DEF t
    <3>6. \A k \in 1 .. 2 : s[k] = t[k]
      BY <3>2, <3>5 DEF t
    <3>7. s = t
      BY <2>1, <3>2, <3>4, <3>5, <3>6, SeqEqual DEF t
    <3> QED
      BY <3>7 DEF t
  <2> QED
    BY <2>2, <2>3 DEF s
<1>4. Upwards(out) <=> \E i, j \in 1 .. L : /\ Starts(i) /\ Ends(j)
                                             /\ j = i + 1 /\ out[i] = "." /\ out[i + 1] = "."
  <2>1. ASSUME NEW i \in 1 .. L - 1, DotsAt(out, i), i + 2 <= L => out[i + 2] = "/"
        PROVE  /\ i \in 1 .. L /\ i + 1 \in 1 .. L
               /\ Starts(i) /\ Ends(i + 1) /\ out[i] = "." /\ out[i + 1] = "."
    <3>1. i + 1 + 1 = i + 2 /\ (i + 1 = L \/ i + 2 <= L)
      BY <1>1
    <3> QED
      BY <1>1, <2>1, <3>1 DEF DotsAt
  <2>2. ASSUME NEW i \in 1 .. L, i + 1 \in 1 .. L, Starts(i), Ends(i + 1),
               out[i] = ".", out[i + 1] = "."
        PROVE  i \in 1 .. L - 1 /\ DotsAt(out, i) /\ (i + 2 <= L => out[i + 2] = "/")
    <3>1. i + 1 + 1 = i + 2 /\ (i + 1 = L => ~(i + 2 <= L)) /\ i \in 1 .. L - 1
      BY <1>1, <2>2
    <3> QED
      BY <2>2, <3>1 DEF DotsAt
  <2> HIDE DEF Starts, Ends
  <2> QED
    BY <2>1, <2>2 DEF Upwards
<1> QED
  BY <1>2, <1>3, <1>4

LEMMA PathRefused ==
  ASSUME NEW C, NEW wide \in Seq(C)
  PROVE  guest_path(wide).ok <=> <<".", ".">> \notin Components(guest_path(wide).out)
<1>1. /\ guest_path(wide).out \in Seq({Converted(wide[k]) : k \in 1 .. Len(wide)})
      /\ guest_path(wide).ok <=> ~Upwards(guest_path(wide).out)
  BY PathIs
<1> QED
  BY <1>1, UpwardsIsComponent

LEMMA ConvertedOnce ==
  ASSUME NEW c
  PROVE  Converted(Converted(c)) = Converted(c) /\ Converted(c) # "wide"
  BY DEF Converted, Wide

\* A name that comes out of the conversion goes through both of them as it is.
LEMMA NameSurvives ==
  ASSUME NEW C, NEW name \in Seq(C), \A m \in 1 .. Len(name) : Converted(name[m]) = name[m]
  PROVE  /\ ReportedName(name) = name
         /\ guest_path(name).out = name
<1>1. \A m \in 1 .. Len(name) : name[m] # "wide"
  BY ConvertedOnce
<1>2. ReportedName(name) = name
  BY <1>1, ReportedIsName
<1> DEFINE out == guest_path(name).out
<1>3. /\ out \in Seq({Converted(name[k]) : k \in 1 .. Len(name)})
      /\ Len(out) = Len(name)
      /\ \A m \in 1 .. Len(name) : out[m] = name[m]
  BY PathIs
<1> HIDE DEF out
<1>4. out = name
  <2>1. out \in [1 .. Len(name) -> {Converted(name[k]) : k \in 1 .. Len(name)}]
    BY <1>3, LenProperties
  <2>2. name \in [1 .. Len(name) -> C]
    BY LenProperties
  <2>3. out = [m \in 1 .. Len(name) |-> out[m]] /\ name = [m \in 1 .. Len(name) |-> name[m]]
    BY <2>1, <2>2
  <2>4. [m \in 1 .. Len(name) |-> out[m]] = [m \in 1 .. Len(name) |-> name[m]]
    BY <1>3
  <2> QED
    BY <2>3, <2>4, Zenon
<1> QED
  BY <1>2, <1>4 DEF out

\* A name can be opened as it was reported exactly if some path of the guest is that name.
LEMMA NameOpens ==
  ASSUME NEW C, NEW name \in Seq(C)
  PROVE  LET path == guest_path(ReportedName(name)) IN
         /\ path.ok /\ path.out = name => guest_path(name).ok /\ guest_path(name).out = name
         /\ \A D : \A wide \in Seq(D) :
               guest_path(wide).ok /\ guest_path(wide).out = name => path.ok /\ path.out = name
<1> DEFINE path == guest_path(ReportedName(name))
<1>1. ASSUME path.ok, path.out = name
      PROVE  guest_path(name).ok /\ guest_path(name).out = name
  <2> DEFINE r == ReportedName(name)
             D == {name[k] : k \in 1 .. Len(name)} \cup {"byte1", "byte2"}
  <2>1. r \in Seq(D)
    BY ReportedIsName
  <2> HIDE DEF r, D
  <2>2. Len(guest_path(r).out) = Len(r) /\ \A m \in 1 .. Len(r) : guest_path(r).out[m] = Converted(r[m])
    BY <2>1, PathIs
  <2>3. \A m \in 1 .. Len(name) : Converted(name[m]) = name[m]
    BY <1>1, <2>2, ConvertedOnce DEF r
  <2>4. ReportedName(name) = name
    BY <2>3, NameSurvives
  <2> QED
    BY <1>1, <2>4
<1>2. ASSUME NEW D, NEW wide \in Seq(D), guest_path(wide).ok, guest_path(wide).out = name
      PROVE  path.ok /\ path.out = name
  <2>1. /\ Len(name) = Len(wide)
        /\ \A m \in 1 .. Len(wide) : name[m] = Converted(wide[m])
        /\ ~Upwards(name)
    BY <1>2, PathIs
  <2>2. \A m \in 1 .. Len(name) : Converted(name[m]) = name[m]
    BY <2>1, ConvertedOnce
  <2>3. ReportedName(name) = name /\ guest_path(name).out = name
    BY <2>2, NameSurvives
  <2>4. guest_path(name).ok
    BY <2>1, <2>3, PathIs
  <2> QED
    BY <2>3, <2>4
<1> HIDE DEF path
<1>3. \A D : \A wide \in Seq(D) :
        guest_path(wide).ok /\ guest_path(wide).out = name => path.ok /\ path.out = name
  BY <1>2, Zenon
<1> QED
  BY <1>1, <1>3, Zenon DEF path

\* No path with a component that leads upwards is accepted and no other is refused, for
\* every path; and a name survives being reported and passed back exactly if a path of the
\* guest can have made it (CEKernel.c 85-98 and 185).
THEOREM PathsAreRight == FilesSpec => []PathsRight
<1>1. UpwardsRefused
  <2> SUFFICES ASSUME NEW wide \in TriedPaths
               PROVE  guest_path(wide).ok <=> <<".", ".">> \notin Components(guest_path(wide).out)
    BY DEF UpwardsRefused
  <2>1. wide \in Seq(STRING)
    BY StringsAssumption
  <2> QED
    BY <2>1, PathRefused
<1>2. FoundNamesOpen
  <2> DEFINE made == {path.out : path \in {p \in {guest_path(wide) : wide \in TriedPaths} : p.ok}}
  <2> SUFFICES ASSUME NEW name \in TriedPaths
               PROVE  LET path == guest_path(ReportedName(name)) IN
                      path.ok /\ path.out = name <=> name \in made
    BY DEF FoundNamesOpen
  <2> DEFINE path == guest_path(ReportedName(name))
  <2>1. \A wide \in TriedPaths : wide \in Seq(STRING)
    BY StringsAssumption
  <2>2. name \in made <=> \E wide \in TriedPaths : guest_path(wide).ok /\ guest_path(wide).out = name
    OBVIOUS
  <2>3. path.ok /\ path.out = name => guest_path(name).ok /\ guest_path(name).out = name
    BY <2>1, NameOpens
  <2>4. \A wide \in TriedPaths : guest_path(wide).ok /\ guest_path(wide).out = name
                                 => path.ok /\ path.out = name
    BY <2>1, NameOpens
  <2> HIDE DEF made, path
  <2> QED
    BY <2>2, <2>3, <2>4 DEF path
<1>3. PathsRight
  BY <1>1, <1>2 DEF PathsRight
<1> QED
  BY <1>3, PTL
=============================================================================
