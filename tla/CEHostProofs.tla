---------------------------- MODULE CEHostProofs ----------------------------
(***************************************************************************)
(* Proofs about CEHost and the registry in it, for every number of values,  *)
(* keys and queued ticks.  The inductive invariant has three parts, one for *)
(* each layer: the table and its file (RegistryInv), the calls on the main  *)
(* actor (CallInv), and what a relaunch owes to the launch before (KeptInv). *)
(* A step of the host is a step of the registry or leaves it alone, so that *)
(* the first part is proved for CERegistry's Next.                          *)
(***************************************************************************)
EXTENDS CEHost, SequenceTheorems, TLAPS

\* No value has two records in the table.
Unique(table) ==
  \A i, j \in 1 .. Len(table) :
     table[i].key = table[j].key /\ table[i].name = table[j].name => i = j

\* The records in the file are the first ones of the table that was flushed last.
PrefixInv ==
  /\ Len(file.values) <= Len(flushed)
  /\ \A i \in 1 .. Len(file.values) : file.values[i] = flushed[i]

RegistryType ==
  /\ registry \in Seq(Value) /\ Len(registry) <= MaxValues
  /\ file \in [header : BOOLEAN, count : 0 .. MaxValues, values : Seq(Value)]
  /\ Len(file.values) <= file.count
  /\ process \in Processes
  /\ flushed \in Seq(Value)
  /\ saved \subseteq Keys \X Names

FlushInv ==
  /\ ~file.header => file.values = <<>>
  /\ process = "flushing" => flushed = registry /\ (file.header => file.count = Len(registry))

RegistryInv == RegistryType /\ FlushInv /\ PrefixInv /\ Unique(registry) /\ Unique(flushed)

\* What each call on the main actor may rely on.
CallInv ==
  /\ call \in Calls /\ ticks \in 0 .. MaxTicks
  /\ timer \in BOOLEAN /\ running \in BOOLEAN /\ paused \in BOOLEAN
  /\ state \in States
  /\ call = "none" => /\ process \in {"none", "running"}
                      /\ process = "running" <=> state # "NONE"
                      /\ timer = running
                      /\ Runnable => running
  /\ call \in {"stop", "launch"} => ~timer
  /\ call = "create" => process = "none" /\ state = "NONE" /\ ~timer /\ ~running /\ ~paused
  /\ call = "load" => process = "running" /\ ~timer /\ ~running /\ ~paused
  /\ call = "slice" => process = "running" /\ timer /\ running /\ ~paused

\* Where the table that the next runtime has to find is kept.
KeptInv ==
  /\ kept \in BOOLEAN /\ before \in Seq(Value)
  /\ kept => /\ process = "running" => call \in {"stop", "launch"} /\ registry = before
             /\ process = "flushing" => registry = before
             /\ process \in {"flushed", "none"} => file.header /\ file.values = before

IInv == RegistryInv /\ CallInv /\ KeptInv
-----------------------------------------------------------------------------
\* The first record with a key and a name is the only one.
LEMMA FoundIfUnique ==
  ASSUME Unique(registry), NEW key, NEW name, NEW i \in 1 .. Len(registry),
         registry \in Seq(Value), registry[i].key = key, registry[i].name = name
  PROVE  registry_value(i, key, name)
  BY DEF Unique, registry_value

\* Replacing a record by one of the same value keeps the table in order.
LEMMA ReplacedUnique ==
  ASSUME NEW table \in Seq(Value), Unique(table), NEW i \in 1 .. Len(table), NEW value \in Value,
         value.key = table[i].key, value.name = table[i].name
  PROVE  LET new == [table EXCEPT ![i] = value] IN
         new \in Seq(Value) /\ Len(new) = Len(table) /\ Unique(new)
<1> DEFINE new == [table EXCEPT ![i] = value]
<1>1. new \in Seq(Value) /\ Len(new) = Len(table)
      /\ \A j \in 1 .. Len(table) : new[j] = IF j = i THEN value ELSE table[j]
  BY ExceptSeq
<1> HIDE DEF new
<1>2. \A j \in 1 .. Len(table) : new[j].key = table[j].key /\ new[j].name = table[j].name
  BY <1>1
<1>3. Unique(new)
  BY <1>1, <1>2 DEF Unique
<1> QED
  BY <1>1, <1>3 DEF new

\* So does a record of a value that had none.
LEMMA AppendedUnique ==
  ASSUME NEW table \in Seq(Value), Unique(table), NEW value \in Value,
         \A i \in 1 .. Len(table) : ~(table[i].key = value.key /\ table[i].name = value.name)
  PROVE  LET new == Append(table, value) IN
         new \in Seq(Value) /\ Len(new) = Len(table) + 1 /\ Unique(new)
<1> DEFINE new == Append(table, value)
<1>1. /\ new \in Seq(Value) /\ Len(new) = Len(table) + 1
      /\ \A j \in 1 .. Len(table) : new[j] = table[j]
      /\ new[Len(table) + 1] = value
  BY AppendProperties
<1> HIDE DEF new
<1>2. Unique(new)
  BY <1>1 DEF Unique
<1> QED
  BY <1>1, <1>2 DEF new

\* And a deletion that moves the records behind up by one.
LEMMA DeletedUnique ==
  ASSUME NEW table \in Seq(Value), Unique(table), NEW i \in 1 .. Len(table)
  PROVE  LET new == [j \in 1 .. Len(table) - 1 |-> IF j < i THEN table[j] ELSE table[j + 1]] IN
         new \in Seq(Value) /\ Len(new) = Len(table) - 1 /\ Unique(new)
<1> DEFINE n == Len(table) - 1
           new == [j \in 1 .. n |-> IF j < i THEN table[j] ELSE table[j + 1]]
<1>1. n \in Nat /\ Len(table) = n + 1
  BY LenProperties
<1>2. \A j \in 1 .. n : j \in 1 .. Len(table) /\ j + 1 \in 1 .. Len(table)
  BY <1>1
<1>3. \A j \in 1 .. n : new[j] \in Value
  BY <1>2, ElementOfSeq
<1>4. new \in Seq(Value)
  BY <1>1, <1>3, IsASeq
<1>5. Len(new) = n
  BY <1>1, <1>4
<1>6. \A j \in 1 .. n : new[j] = IF j < i THEN table[j] ELSE table[j + 1]
  OBVIOUS
<1> HIDE DEF new, n
<1>7. Unique(new)
  <2> SUFFICES ASSUME NEW j \in 1 .. n, NEW k \in 1 .. n,
                      new[j].key = new[k].key, new[j].name = new[k].name
               PROVE  j = k
    BY <1>5 DEF Unique
  <2> DEFINE At(l) == IF l < i THEN l ELSE l + 1
  <2>1. At(j) \in 1 .. Len(table) /\ At(k) \in 1 .. Len(table)
    BY <1>1, <1>2
  <2>2. new[j] = table[At(j)] /\ new[k] = table[At(k)]
    BY <1>6
  <2>3. At(j) = At(k)
    BY <2>1, <2>2 DEF Unique
  <2> QED
    BY <1>1, <2>3
<1> QED
  BY <1>4, <1>5, <1>7 DEF new, n
-----------------------------------------------------------------------------
\* The three calls of the guest change the table only, and keep it in order.
LEMMA GuestChanges ==
  ASSUME RegistryInv, process = "running", UNCHANGED <<file, process, flushed>>,
         registry' \in Seq(Value), Len(registry') <= MaxValues, Unique(registry'),
         saved' \subseteq Keys \X Names
  PROVE  RegistryInv'
  BY DEF RegistryInv, RegistryType, FlushInv, PrefixInv, Unique

LEMMA SetValueStep ==
  ASSUME RegistryInv, NEW key \in Keys, NEW name \in Names, NEW kind \in Kinds, NEW data \in Data,
         RegSetValue(key, name, kind, data)
  PROVE  RegistryInv'
<1> DEFINE value == [key |-> key, name |-> name, kind |-> kind, data |-> data]
<1>1. value \in Value /\ value.key = key /\ value.name = name
  BY DEF Value
<1>2. registry \in Seq(Value) /\ Len(registry) <= MaxValues /\ Unique(registry)
  BY DEF RegistryInv, RegistryType
<1>3. process = "running" /\ UNCHANGED <<file, process, flushed, saved>>
  BY DEF RegSetValue
<1>4. registry' \in Seq(Value) /\ Len(registry') <= MaxValues /\ Unique(registry')
  <2>1. CASE \E i \in 1 .. Len(registry) :
               registry_value(i, key, name) /\ registry' = [registry EXCEPT ![i] = value]
    <3>1. PICK i \in 1 .. Len(registry) :
               registry_value(i, key, name) /\ registry' = [registry EXCEPT ![i] = value]
      BY <2>1
    <3>2. registry[i].key = key /\ registry[i].name = name
      BY <3>1 DEF registry_value
    <3> QED
      BY <1>1, <1>2, <3>1, <3>2, ReplacedUnique
  <2>2. CASE ~Exists(key, name) /\ Len(registry) < MaxValues /\ registry' = Append(registry, value)
    <3>1. \A i \in 1 .. Len(registry) : ~(registry[i].key = key /\ registry[i].name = name)
      BY <1>2, <2>2, FoundIfUnique DEF Exists
    <3>2. Len(registry) + 1 <= MaxValues
      BY <1>2, <2>2, MaxValuesAssumption, LenProperties
    <3> QED
      BY <1>1, <1>2, <2>2, <3>1, <3>2, AppendedUnique
  <2> QED
    BY <2>1, <2>2 DEF RegSetValue
<1> QED
  BY <1>3, <1>4, GuestChanges DEF RegistryInv, RegistryType

LEMMA SetValueUnreadableStep ==
  ASSUME RegistryInv, NEW key \in Keys, NEW name \in Names, NEW kind \in Kinds,
         RegSetValueUnreadable(key, name, kind)
  PROVE  RegistryInv'
<1> DEFINE value == [key |-> key, name |-> name, kind |-> kind, data |-> NoData]
<1>1. value \in Value /\ value.key = key /\ value.name = name
  BY NoDataAssumption DEF Value
<1>2. registry \in Seq(Value) /\ Len(registry) <= MaxValues /\ Unique(registry)
  BY DEF RegistryInv, RegistryType
<1>3. process = "running" /\ UNCHANGED <<file, process, flushed, saved>>
  BY DEF RegSetValueUnreadable
<1>4. registry' \in Seq(Value) /\ Len(registry') <= MaxValues /\ Unique(registry')
  <2>1. CASE \E i \in 1 .. Len(registry) :
               registry_value(i, key, name) /\ registry' = [registry EXCEPT ![i].kind = kind]
    <3>1. PICK i \in 1 .. Len(registry) :
               registry_value(i, key, name) /\ registry' = [registry EXCEPT ![i].kind = kind]
      BY <2>1
    <3>2. registry[i] \in Value
      BY <1>2, ElementOfSeq
    <3> DEFINE new == [registry[i] EXCEPT !.kind = kind]
    <3>3. new \in Value /\ new.key = registry[i].key /\ new.name = registry[i].name
      BY <3>2 DEF Value
    <3>4. registry' = [registry EXCEPT ![i] = new]
      BY <3>1
    <3> HIDE DEF new
    <3> QED
      BY <1>2, <3>3, <3>4, ReplacedUnique
  <2>2. CASE ~Exists(key, name) /\ Len(registry) < MaxValues /\ registry' = Append(registry, value)
    <3>1. \A i \in 1 .. Len(registry) : ~(registry[i].key = key /\ registry[i].name = name)
      BY <1>2, <2>2, FoundIfUnique DEF Exists
    <3>2. Len(registry) + 1 <= MaxValues
      BY <1>2, <2>2, MaxValuesAssumption, LenProperties
    <3> QED
      BY <1>1, <1>2, <2>2, <3>1, <3>2, AppendedUnique
  <2> QED
    BY <2>1, <2>2 DEF RegSetValueUnreadable
<1> QED
  BY <1>3, <1>4, GuestChanges DEF RegistryInv, RegistryType

LEMMA DeleteValueStep ==
  ASSUME RegistryInv, NEW key \in Keys, NEW name \in Names, RegDeleteValue(key, name)
  PROVE  RegistryInv'
<1>1. registry \in Seq(Value) /\ Len(registry) <= MaxValues /\ Unique(registry)
  BY DEF RegistryInv, RegistryType
<1>2. /\ process = "running" /\ UNCHANGED <<file, process, flushed>>
      /\ saved' \subseteq Keys \X Names
  BY DEF RegDeleteValue, RegistryInv, RegistryType
<1>3. PICK i \in 1 .. Len(registry) :
        registry' = [j \in 1 .. Len(registry) - 1 |->
                       IF j < i THEN registry[j] ELSE registry[j + 1]]
  BY DEF RegDeleteValue
<1>4. /\ registry' \in Seq(Value) /\ Len(registry') = Len(registry) - 1
      /\ Unique(registry')
  BY <1>1, <1>3, DeletedUnique
<1>5. Len(registry') <= MaxValues
  BY <1>1, <1>4, MaxValuesAssumption, LenProperties
<1> QED
  BY <1>2, <1>4, <1>5, GuestChanges
\* A new runtime starts with the records that are in the file.
LEMMA KernelInitStep ==
  ASSUME RegistryInv, CEKernelInit
  PROVE  RegistryInv'
<1> USE DEF RegistryInv, RegistryType
<1>1. /\ process' = "running" /\ registry' = ReadBack(file)
      /\ UNCHANGED <<file, flushed, saved>>
  BY DEF CEKernelInit
<1>2. registry' = file.values \/ registry' = <<>>
  BY <1>1 DEF ReadBack
<1>3. file.values \in Seq(Value) /\ Len(file.values) <= MaxValues
  BY MaxValuesAssumption, LenProperties
<1>4. Unique(file.values)
  <2>1. Len(file.values) \in Nat /\ Len(flushed) \in Nat
    BY <1>3, LenProperties
  <2>2. \A i \in 1 .. Len(file.values) : i \in 1 .. Len(flushed) /\ file.values[i] = flushed[i]
    BY <2>1 DEF PrefixInv
  <2> HIDE DEF RegistryInv
  <2>3. Unique(flushed)
    BY DEF RegistryInv
  <2> QED
    BY <2>2, <2>3 DEF Unique
<1>5. <<>> \in Seq(Value) /\ Len(<<>>) = 0 /\ 0 <= MaxValues /\ Unique(<<>>)
  BY MaxValuesAssumption, EmptySeq DEF Unique
<1>6. registry' \in Seq(Value) /\ Len(registry') <= MaxValues /\ Unique(registry')
  BY <1>2, <1>3, <1>4, <1>5
<1> QED
  BY <1>1, <1>6 DEF FlushInv, PrefixInv, Processes, Unique

LEMMA FlushOpensStep ==
  ASSUME RegistryInv, FlushOpens
  PROVE  RegistryInv'
<1> USE DEF RegistryInv, RegistryType
<1>1. CASE process' = "flushing" /\ file' = NoFile /\ flushed' = registry
  <2>1. UNCHANGED <<registry, saved>>
    BY DEF FlushOpens
  <2>2. /\ NoFile \in [header : BOOLEAN, count : 0 .. MaxValues, values : Seq(Value)]
        /\ NoFile.values = <<>> /\ NoFile.header = FALSE /\ NoFile.count = 0 /\ Len(NoFile.values) = 0
    BY MaxValuesAssumption, EmptySeq DEF NoFile
  <2>3. RegistryType' /\ FlushInv'
    BY <1>1, <2>1, <2>2 DEF FlushInv, Processes
  <2>4. PrefixInv'
    BY <1>1, <2>1, <2>2, LenProperties DEF PrefixInv
  <2> QED
    BY <1>1, <2>1, <2>3, <2>4 DEF Unique
<1>2. CASE process' = "none" /\ UNCHANGED <<file, flushed>>
  BY <1>2 DEF FlushOpens, FlushInv, PrefixInv, Processes, Unique
<1> QED
  BY <1>1, <1>2 DEF FlushOpens

LEMMA FlushWritesStep ==
  ASSUME RegistryInv, FlushWrites
  PROVE  RegistryInv'
<1> USE DEF RegistryInv, RegistryType
<1>1. process = "flushing" /\ flushed = registry /\ UNCHANGED <<registry, process, flushed, saved>>
  BY DEF FlushWrites, FlushInv
<1>2. Len(registry) \in 0 .. MaxValues
  BY MaxValuesAssumption, LenProperties
<1>3. CASE ~file.header /\ file' = [header |-> TRUE, count |-> Len(registry), values |-> <<>>]
  <2>1. /\ file' \in [header : BOOLEAN, count : 0 .. MaxValues, values : Seq(Value)]
        /\ file'.header /\ file'.count = Len(registry) /\ file'.values = <<>> /\ Len(file'.values) = 0
    BY <1>2, <1>3, EmptySeq
  <2> QED
    BY <1>1, <1>2, <2>1 DEF FlushInv, PrefixInv, Unique
<1>4. CASE /\ file.header /\ Len(file.values) < Len(registry)
           /\ file' = [file EXCEPT !.values = Append(file.values, registry[Len(file.values) + 1])]
  <2> DEFINE n == Len(file.values)
             record == registry[n + 1]
             values == Append(file.values, record)
  <2>1. n \in Nat /\ n + 1 \in 1 .. Len(registry)
    BY <1>2, <1>4, LenProperties
  <2>2. record \in Value
    BY <2>1, ElementOfSeq
  <2>3. /\ values \in Seq(Value) /\ Len(values) = n + 1
        /\ \A j \in 1 .. n : values[j] = file.values[j]
        /\ values[n + 1] = record
    BY <2>2, AppendProperties
  <2>4. file' = [file EXCEPT !.values = values]
    BY <1>4
  <2> HIDE DEF values
  <2>5. /\ file' \in [header : BOOLEAN, count : 0 .. MaxValues, values : Seq(Value)]
        /\ file'.header /\ file'.count = file.count /\ file'.values = values
    BY <1>4, <2>3, <2>4
  <2>6. file.count = Len(registry)
    BY <1>1, <1>4 DEF FlushInv
  <2>7. RegistryType' /\ FlushInv'
    BY <1>1, <1>2, <2>1, <2>3, <2>5, <2>6 DEF FlushInv
  <2>8. PrefixInv'
    <3>1. \A j \in 1 .. n : file.values[j] = registry[j]
      BY <1>1 DEF PrefixInv
    <3>2. \A j \in 1 .. n + 1 : j \in 1 .. n \/ j = n + 1
      BY <2>1
    <3>3. \A j \in 1 .. n + 1 : values[j] = registry[j]
      BY <2>3, <3>1, <3>2
    <3>4. Len(file'.values) = n + 1 /\ n + 1 <= Len(flushed')
      BY <1>1, <1>2, <2>1, <2>3, <2>5
    <3> HIDE DEF RegistryInv, RegistryType, n
    <3> QED
      BY <1>1, <2>5, <3>3, <3>4 DEF PrefixInv
  <2> QED
    BY <1>1, <2>7, <2>8 DEF Unique
<1> QED
  BY <1>3, <1>4 DEF FlushWrites

\* The three ways in which a runtime ends leave table and file as they are.
LEMMA EndStep ==
  ASSUME RegistryInv, FlushCloses \/ CERuntimeDestroyed \/ Killed
  PROVE  RegistryInv'
<1> USE DEF RegistryInv, RegistryType
<1>1. /\ process' \in {"none", "flushed"} /\ UNCHANGED <<registry, file, flushed>>
  BY DEF FlushCloses, CERuntimeDestroyed, Killed
<1>2. saved' \subseteq Keys \X Names
  <2>1. CASE FlushCloses
    <3>1. \A i \in 1 .. Len(registry) : registry[i] \in Value
      BY ElementOfSeq
    <3> QED
      BY <2>1, <3>1 DEF FlushCloses, Value
  <2>2. CASE CERuntimeDestroyed \/ Killed
    BY <2>2 DEF CERuntimeDestroyed, Killed
  <2> QED
    BY <2>1, <2>2
<1> QED
  BY <1>1, <1>2 DEF FlushInv, PrefixInv, Processes, Unique

LEMMA RegistryNext ==
  ASSUME RegistryInv, [Next]_vars
  PROVE  RegistryInv'
<1>1. CASE UNCHANGED vars
  BY <1>1 DEF vars, RegistryInv, RegistryType, FlushInv, PrefixInv, Unique
<1>2. CASE Next
  BY <1>2, KernelInitStep, SetValueStep, SetValueUnreadableStep, DeleteValueStep,
     FlushOpensStep, FlushWritesStep, EndStep DEF Next
<1> QED
  BY <1>1, <1>2

LEMMA RegistryInit ==
  ASSUME Init
  PROVE  RegistryInv
<1>1. NoFile \in [header : BOOLEAN, count : 0 .. MaxValues, values : Seq(Value)]
      /\ NoFile.values = <<>> /\ NoFile.header = FALSE /\ NoFile.count = 0
  BY MaxValuesAssumption, EmptySeq DEF NoFile
<1>2. <<>> \in Seq(Value) /\ Len(<<>>) = 0 /\ 0 <= MaxValues
  BY MaxValuesAssumption, EmptySeq
<1> QED
  BY <1>1, <1>2 DEF Init, RegistryInv, RegistryType, FlushInv, PrefixInv, Unique, Processes

\* What the parts of the invariant say of the registry's properties.
LEMMA RegistryImplies ==
  ASSUME RegistryInv
  PROVE  TypeOK /\ UniqueValues /\ RestartReadsPrefix
<1> USE DEF RegistryInv, RegistryType
<1>1. TypeOK
  BY DEF TypeOK
<1>2. UniqueValues
  BY DEF UniqueValues, Unique
<1>3. RestartReadsPrefix
  <2>1. CASE ReadBack(file) = file.values
    BY <2>1 DEF RestartReadsPrefix, PrefixInv
  <2>2. CASE ReadBack(file) = <<>>
    BY <2>2, EmptySeq, LenProperties DEF RestartReadsPrefix
  <2> QED
    BY <2>1, <2>2 DEF ReadBack
<1> QED
  BY <1>1, <1>2, <1>3
-----------------------------------------------------------------------------
\* A step of the host is a step of the registry or leaves it alone.
LEMMA HostStepsAreRegistrySteps ==
  ASSUME [HostNext]_allVars
  PROVE  [Next]_vars
<1>1. CASE GuestCall
  BY <1>1 DEF GuestCall, Next
<1>2. CASE Destroy \/ FlushFails \/ Create \/ KilledByHost
  BY <1>2 DEF Destroy, FlushFails, Create, KilledByHost, Next
<1>3. CASE \/ Stop \/ Launch \/ Stopped \/ LaunchFails \/ Loaded \/ LoadFails
           \/ TimerFires \/ Tick \/ SliceEnds \/ TogglePause \/ UNCHANGED allVars
  BY <1>3 DEF Stop, Launch, StopCalled, Stopped, LaunchFails, Loaded, LoadFails, TimerFires,
     Tick, SliceEnds, TogglePause, allVars
<1> QED
  BY <1>1, <1>2, <1>3 DEF HostNext

\* What each call relies on is kept by every step.
LEMMA CallNext ==
  ASSUME RegistryType, CallInv, [HostNext]_allVars
  PROVE  CallInv'
<1> USE DEF CallInv, Calls, States, Runnable
<1>1. CASE Stop \/ Launch
  BY <1>1 DEF Stop, Launch, StopCalled, vars
<1>2. CASE Destroy \/ FlushFails
  <2>1. call \in {"stop", "launch"} /\ UNCHANGED hostVars
    BY <1>2 DEF Destroy, FlushFails
  <2> QED
    BY <2>1 DEF hostVars
<1>3. CASE Stopped
  BY <1>3 DEF Stopped, vars
<1>4. CASE LaunchFails
  BY <1>4 DEF LaunchFails, vars
<1>5. CASE Create
  BY <1>5 DEF Create, CEKernelInit
<1>6. CASE Loaded \/ LoadFails
  BY <1>6 DEF Loaded, LoadFails, vars
<1>7. CASE TimerFires
  <2>1. ticks' \in 0 .. MaxTicks
    BY <1>7, MaxTicksAssumption DEF TimerFires
  <2>2. UNCHANGED <<call, process, timer, running, paused, state>>
    BY <1>7 DEF TimerFires, vars
  <2> QED
    BY <2>1, <2>2
<1>8. CASE Tick
  <2> DEFINE slice == process = "running" /\ ~paused /\ Runnable
  <2>1. /\ call = "none" /\ ticks' \in 0 .. MaxTicks
        /\ UNCHANGED <<process, timer, running, paused>>
    BY <1>8, MaxTicksAssumption DEF Tick, vars
  <2>2. CASE slice /\ call' = "slice" /\ state' = "RUNNING"
    BY <2>1, <2>2
  <2>3. CASE call' = "none" /\ state' = state
    BY <2>1, <2>3
  <2> QED
    BY <1>8, <2>2, <2>3 DEF Tick
<1>9. CASE SliceEnds
  BY <1>9 DEF SliceEnds, vars
<1>10. CASE GuestCall
  <2>1. UNCHANGED <<hostVars, process>>
    BY <1>10 DEF GuestCall, RegSetValue, RegSetValueUnreadable, RegDeleteValue
  <2> QED
    BY <2>1 DEF hostVars
<1>11. CASE TogglePause
  BY <1>11 DEF TogglePause, vars
<1>12. CASE KilledByHost
  <2>1. /\ process' = "none" /\ call' = "none" /\ ticks' = 0 /\ state' = "NONE"
        /\ timer' = FALSE /\ running' = FALSE /\ paused' = FALSE
    BY <1>12 DEF KilledByHost, Killed, vars
  <2>2. 0 \in 0 .. MaxTicks
    BY MaxTicksAssumption
  <2> QED
    BY <2>1, <2>2
<1>13. CASE UNCHANGED allVars
  BY <1>13 DEF allVars, hostVars, vars
<1> QED
  BY <1>1, <1>2, <1>3, <1>4, <1>5, <1>6, <1>7, <1>8, <1>9, <1>10, <1>11, <1>12, <1>13
     DEF HostNext

\* The table of the runtime that was stopped last is in the runtime, in the flush or in
\* the file until the next runtime reads it.
LEMMA KeptNext ==
  ASSUME RegistryInv, CallInv, KeptInv, [HostNext]_allVars
  PROVE  KeptInv'
<1> USE DEF KeptInv
<1>1. registry \in Seq(Value) /\ process \in Processes
  BY DEF RegistryInv, RegistryType
<1>2. CASE Stop \/ Launch
  BY <1>1, <1>2 DEF Stop, Launch, StopCalled, Remember, vars, CallInv, Processes
<1>3. CASE Destroy
  <2>1. CASE FlushOpens
    BY <1>3, <2>1, EmptySeq DEF Destroy, FlushOpens, Forget, hostVars
  <2>2. CASE FlushWrites
    BY <1>3, <2>2 DEF Destroy, FlushWrites, hostVars
  <2>3. CASE FlushCloses
    <3>1. UNCHANGED <<registry, file, before, kept>> /\ process = "flushing" /\ process' = "flushed"
      BY <1>3, <2>3 DEF Destroy, FlushCloses
    <3>2. file.header /\ Len(file.values) = Len(registry) /\ flushed = registry
      BY <2>3 DEF FlushCloses, RegistryInv, FlushInv
    <3>3. file.values \in Seq(Value)
      BY DEF RegistryInv, RegistryType
    <3>4. file.values = registry
      BY <1>1, <3>2, <3>3, SeqEqual DEF RegistryInv, PrefixInv
    <3> QED
      BY <3>1, <3>2, <3>4
  <2>4. CASE CERuntimeDestroyed
    BY <1>3, <2>4 DEF Destroy, CERuntimeDestroyed
  <2> QED
    BY <1>3, <2>1, <2>2, <2>3, <2>4 DEF Destroy
<1>4. CASE FlushFails \/ Create
  BY <1>4, EmptySeq DEF FlushFails, Create, Forget
<1>5. CASE KilledByHost
  BY <1>5, EmptySeq DEF KilledByHost, Killed, Forget, vars
<1>6. CASE GuestCall
  <2>1. call \in {"slice", "load"} /\ UNCHANGED <<call, process, file, before, kept>>
    BY <1>6 DEF GuestCall, hostVars, RegSetValue, RegSetValueUnreadable, RegDeleteValue
  <2>2. process = "running"
    BY <2>1 DEF CallInv
  <2> QED
    BY <2>1, <2>2
<1>7. CASE Stopped
  BY <1>7 DEF Stopped, vars
<1>8. CASE LaunchFails \/ Loaded \/ LoadFails \/ TimerFires \/ Tick \/ SliceEnds \/ TogglePause
  <2>1. UNCHANGED <<registry, file, process, before, kept>> /\ call \notin {"stop", "launch"}
    BY <1>8 DEF LaunchFails, Loaded, LoadFails, TimerFires, Tick, SliceEnds, TogglePause, vars
  <2> QED
    BY <2>1
<1>9. CASE UNCHANGED allVars
  BY <1>9 DEF allVars, hostVars, vars
<1> QED
  BY <1>2, <1>3, <1>4, <1>5, <1>6, <1>7, <1>8, <1>9 DEF HostNext

LEMMA HostInitial == HostInit => IInv
<1> SUFFICES ASSUME HostInit PROVE IInv
  OBVIOUS
<1>1. RegistryInv
  BY RegistryInit DEF HostInit
<1>2. CallInv
  <2>1. /\ process = "none" /\ call = "none" /\ ticks = 0 /\ state = "NONE"
        /\ timer = FALSE /\ running = FALSE /\ paused = FALSE
    BY DEF HostInit, Init
  <2>2. 0 \in 0 .. MaxTicks
    BY MaxTicksAssumption
  <2> QED
    BY <2>1, <2>2 DEF CallInv, Calls, States, Runnable
<1>3. KeptInv
  BY EmptySeq DEF HostInit, KeptInv
<1> QED
  BY <1>1, <1>2, <1>3 DEF IInv

LEMMA HostStep == IInv /\ [HostNext]_allVars => IInv'
<1> SUFFICES ASSUME IInv, [HostNext]_allVars PROVE IInv'
  OBVIOUS
<1>1. RegistryInv'
  BY HostStepsAreRegistrySteps, RegistryNext DEF IInv
<1>2. CallInv'
  BY CallNext DEF IInv, RegistryInv
<1>3. KeptInv'
  BY KeptNext DEF IInv
<1> QED
  BY <1>1, <1>2, <1>3 DEF IInv

\* Whatever the host model does with it, the registry behaves as CERegistry specifies it
\* (CERuntimeModel.swift calls CERuntimeCreate, RunSlice and Destroy and nothing else).
THEOREM HostIsRegistry == HostSpec => Spec
<1>1. HostInit => Init
  BY DEF HostInit
<1>2. [HostNext]_allVars => [Next]_vars
  BY HostStepsAreRegistrySteps
<1> QED
  BY <1>1, <1>2, PTL DEF HostSpec, Spec

\* The inductive invariant of the host and the registry.
THEOREM Invariant == HostSpec => []IInv
  BY HostInitial, HostStep, PTL DEF HostSpec

\* HostTypeOK: between two calls the published state is the runtime's (CERuntimeModel.swift
\* 4-12, 25-34).
THEOREM HostTypeCorrect == HostSpec => []HostTypeOK
<1>1. IInv => HostTypeOK
  BY RegistryImplies DEF IInv, HostTypeOK, CallInv, KeptInv, RegistryInv, RegistryType
<1> QED
  BY <1>1, Invariant, PTL

\* UniqueValues: a value has one record, through relaunches and files cut short
\* (CEKernel.c 152-156, 310, 314, 44-45).
THEOREM ValuesUnique == HostSpec => []UniqueValues
<1>1. IInv => UniqueValues
  BY RegistryImplies DEF IInv
<1> QED
  BY <1>1, Invariant, PTL

\* RestartReadsPrefix: whenever the process dies, the file holds a beginning of the table
\* that was flushed last (CEKernel.c 42-53, 56-65).
THEOREM RestartPrefix == HostSpec => []RestartReadsPrefix
<1>1. IInv => RestartReadsPrefix
  BY RegistryImplies DEF IInv
<1> QED
  BY <1>1, Invariant, PTL

\* SlicesOnlyWhileRunning: late ticks of an earlier launch run no guest code of a runtime
\* that is not shown as running (CERuntimeModel.swift 27-29, 40-42).
THEOREM LateTicksHarmless == HostSpec => []SlicesOnlyWhileRunning
<1>1. IInv => SlicesOnlyWhileRunning
  BY DEF IInv, CallInv, SlicesOnlyWhileRunning
<1> QED
  BY <1>1, Invariant, PTL

\* RelaunchKeepsRegistry: a relaunched program finds the registry as it was left, for any
\* number of values (CERuntimeModel.swift 14-18, 31-35).
THEOREM RelaunchFindsRegistry == HostSpec => RelaunchKeepsRegistry
<1>1. IInv /\ [HostNext]_allVars => [Create => (kept => registry' = before)]_allVars
  <2> SUFFICES ASSUME IInv, Create, kept PROVE registry' = before
    OBVIOUS
  <2>1. process = "none" /\ registry' = ReadBack(file)
    BY DEF Create, CEKernelInit
  <2>2. file.header /\ file.values = before
    BY <2>1 DEF IInv, KeptInv
  <2>3. file.count <= MaxValues
    BY MaxValuesAssumption DEF IInv, RegistryInv, RegistryType
  <2> QED
    BY <2>1, <2>2, <2>3 DEF ReadBack
<1> QED
  BY <1>1, Invariant, PTL DEF HostSpec, RelaunchKeepsRegistry
-----------------------------------------------------------------------------
(***************************************************************************)
(* What the guest sees of the values that a call does not name: the record  *)
(* that is replaced, added or taken out is of the named value, and the      *)
(* others keep their records wherever they move to in the table.            *)
(***************************************************************************)
\* Two tables with the same records of a value show the same of it.
LEMMA SameRecords ==
  ASSUME NEW table \in Seq(Value), NEW new \in Seq(Value), NEW key, NEW name,
         \A i \in 1 .. Len(table) : table[i].key = key /\ table[i].name = name =>
            \E j \in 1 .. Len(new) : new[j] = table[i],
         \A j \in 1 .. Len(new) : new[j].key = key /\ new[j].name = name =>
            \E i \in 1 .. Len(table) : table[i] = new[j]
  PROVE  Lookup(table, key, name) = Lookup(new, key, name)
<1>1. ASSUME NEW v \in Lookup(table, key, name)
      PROVE  v \in Lookup(new, key, name)
  <2>1. PICK i \in 1 .. Len(table) : v = table[i] /\ table[i].key = key /\ table[i].name = name
    BY DEF Lookup
  <2>2. PICK j \in 1 .. Len(new) : new[j] = table[i]
    BY <2>1
  <2> QED
    BY <2>1, <2>2 DEF Lookup
<1>2. ASSUME NEW v \in Lookup(new, key, name)
      PROVE  v \in Lookup(table, key, name)
  <2>1. PICK j \in 1 .. Len(new) : v = new[j] /\ new[j].key = key /\ new[j].name = name
    BY DEF Lookup
  <2>2. PICK i \in 1 .. Len(table) : table[i] = new[j]
    BY <2>1
  <2> QED
    BY <2>1, <2>2 DEF Lookup
<1> QED
  BY <1>1, <1>2

LEMMA ReplacedElsewhere ==
  ASSUME NEW table \in Seq(Value), NEW i \in 1 .. Len(table), NEW value \in Value,
         value.key = table[i].key, value.name = table[i].name,
         NEW key, NEW name, <<key, name>> # <<value.key, value.name>>
  PROVE  Lookup(table, key, name) = Lookup([table EXCEPT ![i] = value], key, name)
<1> DEFINE new == [table EXCEPT ![i] = value]
<1>1. new \in Seq(Value) /\ Len(new) = Len(table)
      /\ \A j \in 1 .. Len(table) : new[j] = IF j = i THEN value ELSE table[j]
  BY ExceptSeq
<1> HIDE DEF new
<1>2. \A j \in 1 .. Len(table) : table[j].key = key /\ table[j].name = name =>
         j \in 1 .. Len(new) /\ new[j] = table[j]
  BY <1>1
<1>3. \A j \in 1 .. Len(new) : new[j].key = key /\ new[j].name = name =>
         j \in 1 .. Len(table) /\ table[j] = new[j]
  BY <1>1
<1>4. Lookup(table, key, name) = Lookup(new, key, name)
  BY <1>1, <1>2, <1>3, SameRecords
<1> QED
  BY <1>4 DEF new

LEMMA AppendedElsewhere ==
  ASSUME NEW table \in Seq(Value), NEW value \in Value,
         NEW key, NEW name, <<key, name>> # <<value.key, value.name>>
  PROVE  Lookup(table, key, name) = Lookup(Append(table, value), key, name)
<1> DEFINE new == Append(table, value)
<1>1. /\ new \in Seq(Value) /\ Len(new) = Len(table) + 1 /\ Len(table) \in Nat
      /\ \A j \in 1 .. Len(table) : new[j] = table[j]
      /\ new[Len(table) + 1] = value
  BY AppendProperties, LenProperties
<1> HIDE DEF new
<1>2. \A j \in 1 .. Len(table) : table[j].key = key /\ table[j].name = name =>
         j \in 1 .. Len(new) /\ new[j] = table[j]
  BY <1>1
<1>3. \A j \in 1 .. Len(new) : new[j].key = key /\ new[j].name = name =>
         j \in 1 .. Len(table) /\ table[j] = new[j]
  BY <1>1
<1>4. Lookup(table, key, name) = Lookup(new, key, name)
  BY <1>1, <1>2, <1>3, SameRecords
<1> QED
  BY <1>4 DEF new

LEMMA DeletedElsewhere ==
  ASSUME NEW table \in Seq(Value), Unique(table), NEW i \in 1 .. Len(table),
         NEW key, NEW name, <<key, name>> # <<table[i].key, table[i].name>>
  PROVE  LET new == [j \in 1 .. Len(table) - 1 |-> IF j < i THEN table[j] ELSE table[j + 1]] IN
         Lookup(table, key, name) = Lookup(new, key, name)
<1> DEFINE n == Len(table) - 1
           new == [j \in 1 .. n |-> IF j < i THEN table[j] ELSE table[j + 1]]
<1>1. n \in Nat /\ Len(table) = n + 1
  BY LenProperties
<1>2. new \in Seq(Value) /\ Len(new) = n
  BY <1>1, DeletedUnique
<1>3. \A j \in 1 .. n : new[j] = IF j < i THEN table[j] ELSE table[j + 1]
  OBVIOUS
<1> HIDE DEF n, new
<1>4. ASSUME NEW j \in 1 .. Len(table), table[j].key = key, table[j].name = name
      PROVE  \E k \in 1 .. Len(new) : new[k] = table[j]
  <2>1. CASE j < i
    BY <1>1, <1>2, <1>3, <2>1
  <2>2. CASE j > i
    <3>1. j - 1 \in 1 .. n /\ ~(j - 1 < i) /\ (j - 1) + 1 = j
      BY <1>1, <2>2
    <3>2. new[j - 1] = table[j]
      BY <1>3, <3>1
    <3> QED
      BY <1>2, <3>1, <3>2
  <2>3. j # i
    BY <1>4
  <2> QED
    BY <1>1, <2>1, <2>2, <2>3
<1>5. ASSUME NEW j \in 1 .. Len(new), new[j].key = key, new[j].name = name
      PROVE  \E k \in 1 .. Len(table) : table[k] = new[j]
  <2>1. j \in 1 .. Len(table) /\ j + 1 \in 1 .. Len(table)
    BY <1>1, <1>2
  <2> QED
    BY <1>2, <1>3, <2>1
<1>6. Lookup(table, key, name) = Lookup(new, key, name)
  BY <1>2, <1>4, <1>5, SameRecords
<1> QED
  BY <1>6 DEF new, n

\* A call of the guest shows itself in the value it names only.
LEMMA CallElsewhere ==
  ASSUME RegistryInv, NEW key \in Keys, NEW name \in Names,
         \/ \E kind \in Kinds, data \in Data : RegSetValue(key, name, kind, data)
         \/ \E kind \in Kinds : RegSetValueUnreadable(key, name, kind)
         \/ RegDeleteValue(key, name),
         NEW l \in Keys \X Names, l # <<key, name>>
  PROVE  Lookup(registry, l[1], l[2]) = Lookup(registry', l[1], l[2])
<1>1. registry \in Seq(Value) /\ Unique(registry)
  BY DEF RegistryInv, RegistryType
<1>2. <<l[1], l[2]>> # <<key, name>>
  OBVIOUS
<1>3. ASSUME NEW i \in 1 .. Len(registry), registry_value(i, key, name),
             NEW value \in Value, value.key = key, value.name = name,
             registry' = [registry EXCEPT ![i] = value]
      PROVE  Lookup(registry, l[1], l[2]) = Lookup(registry', l[1], l[2])
  <2>1. registry[i].key = key /\ registry[i].name = name
    BY <1>3 DEF registry_value
  <2>2. /\ value.key = registry[i].key /\ value.name = registry[i].name
        /\ <<l[1], l[2]>> # <<value.key, value.name>>
    BY <1>2, <1>3, <2>1
  <2>3. Lookup(registry, l[1], l[2]) = Lookup([registry EXCEPT ![i] = value], l[1], l[2])
    BY <1>1, <2>2, ReplacedElsewhere
  <2> QED
    BY <1>3, <2>3
<1>4. ASSUME NEW value \in Value, value.key = key, value.name = name,
             registry' = Append(registry, value)
      PROVE  Lookup(registry, l[1], l[2]) = Lookup(registry', l[1], l[2])
  BY <1>1, <1>2, <1>4, AppendedElsewhere
<1>5. CASE \E kind \in Kinds, data \in Data : RegSetValue(key, name, kind, data)
  <2>1. PICK kind \in Kinds, data \in Data : RegSetValue(key, name, kind, data)
    BY <1>5
  <2> DEFINE value == [key |-> key, name |-> name, kind |-> kind, data |-> data]
  <2>2. value \in Value /\ value.key = key /\ value.name = name
    BY DEF Value
  <2>3. \/ \E i \in 1 .. Len(registry) :
              registry_value(i, key, name) /\ registry' = [registry EXCEPT ![i] = value]
        \/ registry' = Append(registry, value)
    BY <2>1 DEF RegSetValue
  <2> HIDE DEF value
  <2> QED
    BY <1>3, <1>4, <2>2, <2>3
<1>6. CASE \E kind \in Kinds : RegSetValueUnreadable(key, name, kind)
  <2>1. PICK kind \in Kinds : RegSetValueUnreadable(key, name, kind)
    BY <1>6
  <2>2. CASE \E i \in 1 .. Len(registry) :
               registry_value(i, key, name) /\ registry' = [registry EXCEPT ![i].kind = kind]
    <3>1. PICK i \in 1 .. Len(registry) :
               registry_value(i, key, name) /\ registry' = [registry EXCEPT ![i].kind = kind]
      BY <2>2
    <3> DEFINE new == [registry[i] EXCEPT !.kind = kind]
    <3>2. registry[i] \in Value /\ registry[i].key = key /\ registry[i].name = name
      BY <1>1, <3>1, ElementOfSeq DEF registry_value
    <3>3. new \in Value /\ new.key = key /\ new.name = name
      BY <3>2 DEF Value
    <3>4. registry' = [registry EXCEPT ![i] = new]
      BY <3>1
    <3> HIDE DEF new
    <3> QED
      BY <1>3, <3>1, <3>3, <3>4
  <2>3. CASE registry' = Append(registry, [key |-> key, name |-> name, kind |-> kind,
                                           data |-> NoData])
    <3> DEFINE value == [key |-> key, name |-> name, kind |-> kind, data |-> NoData]
    <3>1. value \in Value /\ value.key = key /\ value.name = name
      BY NoDataAssumption DEF Value
    <3> HIDE DEF value
    <3> QED
      BY <1>4, <2>3, <3>1 DEF value
  <2> QED
    BY <2>1, <2>2, <2>3 DEF RegSetValueUnreadable
<1>7. CASE RegDeleteValue(key, name)
  <2>1. PICK i \in 1 .. Len(registry) :
           /\ registry_value(i, key, name)
           /\ registry' = [j \in 1 .. Len(registry) - 1 |->
                             IF j < i THEN registry[j] ELSE registry[j + 1]]
    BY <1>7 DEF RegDeleteValue
  <2>2. registry[i].key = key /\ registry[i].name = name
    BY <2>1 DEF registry_value
  <2> QED
    BY <1>1, <1>2, <2>1, <2>2, DeletedElsewhere
<1> QED
  BY <1>5, <1>6, <1>7

\* OneValueAtATime: no call, whether it succeeds or fails half way, and no deletion that
\* moves the table up, changes what the guest sees of another value (CEKernel.c 309-314).
THEOREM OthersUndisturbed == HostSpec => OneValueAtATime
<1> DEFINE Shown(k) == Lookup(registry, k[1], k[2]) # Lookup(registry', k[1], k[2])
<1>1. ASSUME RegistryInv, Next, process = "running", process' = "running",
             NEW k \in Keys \X Names, NEW l \in Keys \X Names, Shown(k), Shown(l)
      PROVE  k = l
  <2>1. PICK key \in Keys, name \in Names :
           \/ \E kind \in Kinds, data \in Data : RegSetValue(key, name, kind, data)
           \/ \E kind \in Kinds : RegSetValueUnreadable(key, name, kind)
           \/ RegDeleteValue(key, name)
    BY <1>1 DEF Next, CEKernelInit, FlushOpens, FlushWrites, FlushCloses, CERuntimeDestroyed,
       Killed
  <2>2. k = <<key, name>>
    BY <1>1, <2>1, CallElsewhere
  <2>3. l = <<key, name>>
    BY <1>1, <2>1, CallElsewhere
  <2> QED
    BY <2>2, <2>3
<1>2. IInv /\ [HostNext]_allVars =>
        [process = "running" /\ process' = "running" =>
           \A k, l \in Keys \X Names :
              /\ Lookup(registry, k[1], k[2]) # Lookup(registry', k[1], k[2])
              /\ Lookup(registry, l[1], l[2]) # Lookup(registry', l[1], l[2])
              => k = l]_vars
  BY <1>1, HostStepsAreRegistrySteps DEF IInv
<1> HIDE DEF Shown
<1> QED
  BY <1>2, Invariant, PTL DEF HostSpec, OneValueAtATime
=============================================================================
