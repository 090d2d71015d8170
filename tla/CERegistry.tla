----------------------------- MODULE CERegistry -----------------------------
(***************************************************************************)
(* The emulated registry: the table CEKernel keeps in memory, the calls     *)
(* that change it, and the file .celayer-registry.bin it is read from when  *)
(* a runtime is created and written to only when the runtime is destroyed.  *)
(* The process can be killed at any moment, also while the file is written. *)
(*                                                                          *)
(* A key is the path a key handle stands for.  The type and the size of a   *)
(* value are set together before its data and are one field, kind.          *)
(*                                                                          *)
(* Assumption: nobody else writes the file.  It lies in the guest's root     *)
(* directory under a name that CreateFileW would open.                      *)
(***************************************************************************)
EXTENDS Naturals, Sequences

CONSTANTS Keys,       \* key paths
          Names,      \* value names
          Kinds,      \* type and size of a value
          Data,       \* contents of a value, among them NoData
          NoData,     \* the zeroed contents of a new value
          MaxValues   \* CE_MAX_REGISTRY_VALUES

ASSUME NoDataAssumption == NoData \in Data
ASSUME MaxValuesAssumption == MaxValues \in Nat

VARIABLES registry,   \* kernel->registry[0 .. registry_count - 1]
          file,       \* the registry file, or NoFile
          process,    \* what the process is doing, or that there is none
          flushed,    \* history: the table the last flush set out to write
          saved       \* history: values a completed flush wrote and nobody deleted since

vars == <<registry, file, process, flushed, saved>>

\* A file that is shorter than its two header words, and no file at all, are read
\* the same way: as no registry.
NoFile == [header |-> FALSE, count |-> 0, values |-> <<>>]

Processes == {"none", "running", "flushing", "flushed"}
-----------------------------------------------------------------------------
\* i is the index registry_value finds.
registry_value(i, key, name) ==
  /\ i \in 1 .. Len(registry)
  /\ registry[i].key = key /\ registry[i].name = name
  /\ \A j \in 1 .. i - 1 : ~(registry[j].key = key /\ registry[j].name = name)

Exists(key, name) == \E i \in 1 .. Len(registry) : registry_value(i, key, name)

\* The table CEKernelInit reads from a file f; records that are not there yet, or
\* only in part, are not counted.
ReadBack(f) == IF f.header /\ f.count <= MaxValues THEN f.values ELSE <<>>

Init ==
  /\ registry = <<>>
  /\ file = NoFile
  /\ process = "none"
  /\ flushed = <<>>
  /\ saved = {}

CEKernelInit ==
  /\ process = "none"
  /\ process' = "running"
  /\ registry' = ReadBack(file)
  /\ UNCHANGED <<file, flushed, saved>>

\* Faulty variant of RegSetValue: an existing value is not looked for.
SetValueAppends(key, name, kind, data) ==
  /\ process = "running"
  /\ Len(registry) < MaxValues
  /\ registry' = Append(registry, [key |-> key, name |-> name, kind |-> kind, data |-> data])
  /\ UNCHANGED <<file, process, flushed, saved>>

\* RegSetValueExW with data that can be read: an existing value is replaced, a new
\* one goes to the end unless the table is full.
RegSetValue(key, name, kind, data) ==
  /\ process = "running"
  /\ LET value == [key |-> key, name |-> name, kind |-> kind, data |-> data] IN
     \/ \E i \in 1 .. Len(registry) :
           registry_value(i, key, name) /\ registry' = [registry EXCEPT ![i] = value]
     \/ /\ ~Exists(key, name)
        /\ Len(registry) < MaxValues
        /\ registry' = Append(registry, value)
  /\ UNCHANGED <<file, process, flushed, saved>>

\* RegSetValueExW whose data cannot be read returns 87 with the value already found
\* or made, and its type and size already set.
RegSetValueUnreadable(key, name, kind) ==
  /\ process = "running"
  /\ \/ \E i \in 1 .. Len(registry) :
           registry_value(i, key, name) /\ registry' = [registry EXCEPT ![i].kind = kind]
     \/ /\ ~Exists(key, name)
        /\ Len(registry) < MaxValues
        /\ registry' = Append(registry, [key |-> key, name |-> name, kind |-> kind,
                                         data |-> NoData])
  /\ UNCHANGED <<file, process, flushed, saved>>

\* Faulty variant of RegDeleteValue: the values behind are lost.
DeleteTruncates(key, name) ==
  /\ process = "running"
  /\ \E i \in 1 .. Len(registry) :
        registry_value(i, key, name) /\ registry' = SubSeq(registry, 1, i - 1)
  /\ saved' = saved \ {<<key, name>>}
  /\ UNCHANGED <<file, process, flushed>>

\* RegDeleteValueW: the values behind move up by one.
RegDeleteValue(key, name) ==
  /\ process = "running"
  /\ \E i \in 1 .. Len(registry) :
        /\ registry_value(i, key, name)
        /\ registry' = [j \in 1 .. Len(registry) - 1 |->
                          IF j < i THEN registry[j] ELSE registry[j + 1]]
  /\ saved' = saved \ {<<key, name>>}
  /\ UNCHANGED <<file, process, flushed>>

\* Faulty variant of FlushOpens: the old contents are kept to be written over.
FlushOpensInPlace ==
  /\ process = "running"
  /\ process' = "flushing"
  /\ flushed' = registry
  /\ UNCHANGED <<registry, file, saved>>

\* CERuntimeDestroy flushes: fopen(.., "wb") empties the file, or fails and the
\* error is ignored.
FlushOpens ==
  /\ process = "running"
  /\ \/ process' = "flushing" /\ file' = NoFile /\ flushed' = registry
     \/ process' = "none" /\ UNCHANGED <<file, flushed>>
  /\ UNCHANGED <<registry, saved>>

\* The buffered writes reach the file: first the header, then record by record.
FlushWrites ==
  /\ process = "flushing"
  /\ \/ /\ ~file.header
        /\ file' = [header |-> TRUE, count |-> Len(registry), values |-> <<>>]
     \/ /\ file.header /\ Len(file.values) < Len(registry)
        /\ file' = [file EXCEPT !.values = Append(file.values, registry[Len(file.values) + 1])]
  /\ UNCHANGED <<registry, process, flushed, saved>>

\* fclose with everything written, and the runtime is gone.
FlushCloses ==
  /\ process = "flushing"
  /\ file.header /\ Len(file.values) = Len(registry)
  /\ process' = "flushed"
  /\ saved' = {<<registry[i].key, registry[i].name>> : i \in 1 .. Len(registry)}
  /\ UNCHANGED <<registry, file, flushed>>

\* CERuntimeDestroy returns; the next program starts a runtime of its own.
CERuntimeDestroyed ==
  /\ process = "flushed"
  /\ process' = "none"
  /\ UNCHANGED <<registry, file, flushed, saved>>

\* The process is killed, or a write fails and the rest of the file is not written.
Killed ==
  /\ process # "none"
  /\ process' = "none"
  /\ UNCHANGED <<registry, file, flushed, saved>>

Next ==
  \/ CEKernelInit
  \/ \E key \in Keys, name \in Names, kind \in Kinds, data \in Data :
        RegSetValue(key, name, kind, data)
  \/ \E key \in Keys, name \in Names, kind \in Kinds : RegSetValueUnreadable(key, name, kind)
  \/ \E key \in Keys, name \in Names : RegDeleteValue(key, name)
  \/ FlushOpens
  \/ FlushWrites
  \/ FlushCloses
  \/ CERuntimeDestroyed
  \/ Killed

Spec == Init /\ [][Next]_vars
-----------------------------------------------------------------------------
Value == [key : Keys, name : Names, kind : Kinds, data : Data]

\* The table within its limit, and a file that holds no more than it announces.
TypeOK ==
  /\ registry \in Seq(Value) /\ Len(registry) <= MaxValues
  /\ file.header \in BOOLEAN /\ file.count \in 0 .. MaxValues
  /\ file.values \in Seq(Value) /\ Len(file.values) <= file.count
  /\ process \in Processes
  /\ flushed \in Seq(Value)
  /\ saved \subseteq Keys \X Names

\* A value has one record, through updates, deletions that shift the table, failed
\* calls, and restarts from a file that was cut short (152-156, 310, 314, 44-45).
UniqueValues ==
  \A i, j \in 1 .. Len(registry) :
     registry[i].key = registry[j].key /\ registry[i].name = registry[j].name => i = j

\* What the guest sees of a value: its record or none.
Lookup(table, key, name) ==
  {table[i] : i \in {k \in 1 .. Len(table) : table[k].key = key /\ table[k].name = name}}

\* While the process runs, one step changes what the guest sees of one value only:
\* neither a failed call nor a deletion disturbs another value (309-314).
OneValueAtATime ==
  [][process = "running" /\ process' = "running" =>
       \A k, l \in Keys \X Names :
          /\ Lookup(registry, k[1], k[2]) # Lookup(registry', k[1], k[2])
          /\ Lookup(registry, l[1], l[2]) # Lookup(registry', l[1], l[2])
          => k = l]_vars

\* Whatever moment the process is killed at, the next one reads a beginning of the
\* table that was being written, never a mixture of two tables (42-53, 56-65).
RestartReadsPrefix ==
  /\ Len(ReadBack(file)) <= Len(flushed)
  /\ \A i \in 1 .. Len(ReadBack(file)) : ReadBack(file)[i] = flushed[i]

\* "Persistent HKCU/HKLM registry" (README.md 16): a value that a flush has saved
\* and that nobody deleted is there when a runtime runs.
SavedValuesPersist == process = "running" => \A v \in saved : Exists(v[1], v[2])
=============================================================================
