------------------------------ MODULE CERuntime ------------------------------
(***************************************************************************)
(* The life of a runtime: CERuntimeLoadExecutable maps the program and, by  *)
(* recursion through the import resolver, the companion DLLs it needs, runs *)
(* the DLLs' entry points and then gives the program its time slices, in    *)
(* which it may load more DLLs.                                             *)
(*                                                                          *)
(* The recursion CEPEMap -> resolve -> load_dependency -> CEPEMap is the    *)
(* variable stack: one activation of CEPEMap per element, with the import   *)
(* it resolves next.  What files hold is the variable imports, which never  *)
(* changes; whether a file is there, is an image that can be mapped and has *)
(* the export that is asked for is left open at every step.                 *)
(***************************************************************************)
EXTENDS Naturals, Sequences

CONSTANTS Dlls,         \* names of companion DLLs
          EntryDlls,    \* those that have an entry point
          MaxModules,   \* CE_RUNTIME_MAX_MODULES
          ImportTables  \* the import tables considered

\* The program itself, a DLL the runtime implements, and a cleared module name.
Exe == "exe"
Builtin == "coredll"
NoName == ""

Files == Dlls \cup {Exe}

ASSUME MaxModulesAssumption == MaxModules \in Nat
ASSUME EntryDllsAssumption == EntryDlls \subseteq Dlls
ASSUME NamesAssumption == {Exe, Builtin, NoName} \cap Dlls = {}
ASSUME ImportsAssumption == ImportTables \subseteq [Files -> Seq(Dlls \cup {Builtin})]

VARIABLES imports,    \* for every file, symbol by symbol, the DLLs it imports from
          modules,    \* runtime->modules[0 .. module_count - 1]
          stack,      \* activations of CEPEMap, the innermost last; slot 0 is the program
          state,      \* CERuntimeState: IDLE, LOADED, RUNNING, EXITED or FAULTED
          activity,   \* what the runtime executes: "new" before it loads, "host" between calls,
                      \* "map", "attach" and "dllmain" in LoadExecutable, "guest" in RunSlice
          cursor,     \* the loop variable of the attach loop in LoadExecutable
          attached,   \* slots whose entry point was called, in that order
          held        \* slots whose module handle the guest has been given

vars == <<imports, modules, stack, state, activity, cursor, attached, held>>

-----------------------------------------------------------------------------
Named(s) == modules[s].name # NoName

\* s is the slot find_runtime_module returns for the name.
find_runtime_module(s, name) ==
  /\ s \in 1 .. Len(modules)
  /\ modules[s].name = name
  /\ \A t \in 1 .. s - 1 : modules[t].name # name

\* find_runtime_module returns a slot at all.
Loaded(name) == \E s \in 1 .. Len(modules) : modules[s].name = name

Top == stack[Len(stack)]
Popped == [i \in 1 .. Len(stack) - 1 |-> stack[i]]
FileOf(s) == IF s = 0 THEN Exe ELSE modules[s].file

\* The import the innermost activation is at.
Pending == stack # <<>> /\ Top.next <= Len(imports[FileOf(Top.slot)])
Import == imports[FileOf(Top.slot)][Top.next]

\* Faulty variant of NextImport: behind the last import comes the first.
NextImportAround ==
  stack' = [stack EXCEPT ![Len(stack)].next =
              IF Top.next = Len(imports[FileOf(Top.slot)]) THEN 1 ELSE Top.next + 1]

NextImport == stack' = [stack EXCEPT ![Len(stack)].next = Top.next + 1]

\* load_dependency takes a slot, names it and enters CEPEMap.
Enter(name) ==
  /\ modules' = Append(modules, [name |-> name, file |-> name, loading |-> TRUE])
  /\ stack' = Append(stack, [slot |-> Len(modules) + 1, next |-> 1])

\* Faulty variants of Unwind: every module is given up, and only the module whose
\* own load failed is.
UnwindAll ==
  /\ modules' = [s \in 1 .. Len(modules) |->
                   [modules[s] EXCEPT !.name = NoName, !.loading = FALSE]]
  /\ stack' = <<>>
  /\ state' = IF activity = "map" THEN "FAULTED" ELSE state
  /\ activity' = IF activity = "map" THEN "host" ELSE activity

UnwindInnermost ==
  /\ modules' = [s \in 1 .. Len(modules) |->
                   IF s = Top.slot THEN [modules[s] EXCEPT !.name = NoName, !.loading = FALSE]
                   ELSE [modules[s] EXCEPT !.loading = FALSE]]
  /\ stack' = <<>>
  /\ state' = IF activity = "map" THEN "FAULTED" ELSE state
  /\ activity' = IF activity = "map" THEN "host" ELSE activity

\* The error returns through every activation: load_dependency clears the name of
\* each slot that was loading but keeps the slot.  LoadExecutable faults;
\* LoadLibraryW returns 0 to the guest.
Unwind ==
  /\ modules' = [s \in 1 .. Len(modules) |->
                   IF modules[s].loading
                   THEN [modules[s] EXCEPT !.name = NoName, !.loading = FALSE]
                   ELSE modules[s]]
  /\ stack' = <<>>
  /\ state' = IF activity = "map" THEN "FAULTED" ELSE state
  /\ activity' = IF activity = "map" THEN "host" ELSE activity
-----------------------------------------------------------------------------
Init ==
  /\ imports \in ImportTables
  /\ modules = <<>>
  /\ stack = <<>>
  /\ state = "IDLE"
  /\ activity = "new"
  /\ cursor = 0
  /\ attached = <<>>
  /\ held = {}

\* CEPEMap of the program up to its imports.
CERuntimeLoadExecutable ==
  /\ activity = "new"
  /\ activity' = "map"
  /\ stack' = <<[slot |-> 0, next |-> 1]>>
  /\ UNCHANGED <<imports, modules, state, cursor, attached, held>>

\* resolve: the runtime's own DLLs give a trap address, a loaded one - even one
\* still loading - is asked for the export.
ResolveImport ==
  /\ Pending
  /\ Import = Builtin \/ Loaded(Import)
  /\ NextImport
  /\ UNCHANGED <<imports, modules, state, activity, cursor, attached, held>>

\* resolve -> load_dependency -> CEPEMap, up to the imports of the new image.
ResolveDependency ==
  /\ Pending
  /\ Import # Builtin /\ ~Loaded(Import)
  /\ Len(modules) < MaxModules
  /\ Enter(Import)
  /\ UNCHANGED <<imports, state, activity, cursor, attached, held>>

\* CEPEMap gives up on the innermost image before its imports: a malformed header,
\* no room for it, a section outside the file or the image, a bad relocation block.
MapFails ==
  /\ stack # <<>> /\ Top.next = 1
  /\ Unwind
  /\ UNCHANGED <<imports, cursor, attached, held>>

\* The import cannot be resolved: no such file, no slot left, no such export; or the
\* import table is malformed, there or behind its last import.
ImportFails ==
  /\ stack # <<>>
  /\ Unwind
  /\ UNCHANGED <<imports, cursor, attached, held>>

\* All imports are bound: CEPEMap and load_dependency return.
FinishModule ==
  /\ stack # <<>> /\ ~Pending
  /\ modules' = IF Top.slot = 0 THEN modules ELSE [modules EXCEPT ![Top.slot].loading = FALSE]
  /\ stack' = Popped
  /\ held' = IF Popped = <<>> /\ Top.slot # 0 THEN held \cup {Top.slot} ELSE held
  /\ UNCHANGED <<imports, state, activity, cursor, attached>>

\* Faulty variant of AllocateStack: the attach loop starts one slot too low.
AttachFromBelow ==
  /\ activity = "map" /\ stack = <<>>
  /\ activity' = "attach"
  /\ cursor' = IF modules = <<>> THEN 0 ELSE Len(modules) - 1
  /\ UNCHANGED <<imports, modules, stack, state, attached, held>>

\* The main stack; when it cannot be allocated LoadExecutable returns the error
\* without entering the FAULTED state.
AllocateStack ==
  /\ activity = "map" /\ stack = <<>>
  /\ \/ activity' = "attach" /\ cursor' = Len(modules)
     \/ activity' = "host" /\ UNCHANGED cursor
  /\ UNCHANGED <<imports, modules, stack, state, attached, held>>

HasEntry(s) == modules[s].file \in EntryDlls

\* Faulty variant of initialize_dll: the first slot comes first.
InitializeForward ==
  LET s == Len(modules) + 1 - cursor IN
  /\ activity = "attach" /\ cursor > 0
  /\ IF Named(s) /\ HasEntry(s)
     THEN activity' = "dllmain" /\ attached' = Append(attached, s) /\ UNCHANGED cursor
     ELSE cursor' = cursor - 1 /\ UNCHANGED <<activity, attached>>
  /\ UNCHANGED <<imports, modules, stack, state, held>>

\* The loop of LoadExecutable runs the entry points from the last slot down.
initialize_dll ==
  /\ activity = "attach" /\ cursor > 0
  /\ IF Named(cursor) /\ HasEntry(cursor)
     THEN activity' = "dllmain" /\ attached' = Append(attached, cursor) /\ UNCHANGED cursor
     ELSE cursor' = cursor - 1 /\ UNCHANGED <<activity, attached>>
  /\ UNCHANGED <<imports, modules, stack, state, held>>

\* The entry point returns, or calls ExitProcess: the CPU halts with CE_OK, which
\* initialize_dll passes on as success.
DllMainEnds ==
  /\ activity = "dllmain" /\ stack = <<>>
  /\ activity' = "attach"
  /\ cursor' = cursor - 1
  /\ UNCHANGED <<imports, modules, stack, state, attached, held>>

\* The entry point faults or does not return within its 500000 steps.
DllMainFails ==
  /\ activity = "dllmain" /\ stack = <<>>
  /\ activity' = "host"
  /\ state' = "FAULTED"
  /\ UNCHANGED <<imports, modules, stack, cursor, attached, held>>

EnterProgram ==
  /\ activity = "attach" /\ cursor = 0
  /\ activity' = "host"
  /\ state' = "LOADED"
  /\ UNCHANGED <<imports, modules, stack, cursor, attached, held>>

CERuntimeRunSlice ==
  /\ activity = "host"
  /\ state \in {"LOADED", "RUNNING"}
  /\ activity' = "guest"
  /\ state' = "RUNNING"
  /\ UNCHANGED <<imports, modules, stack, cursor, attached, held>>

\* The budget is used up or an unsupported call ends the slice; the guest exits;
\* or the CPU faults.
SliceEnds ==
  /\ activity = "guest" /\ stack = <<>>
  /\ activity' = "host"
  /\ state' \in {"RUNNING", "EXITED", "FAULTED"}
  /\ UNCHANGED <<imports, modules, stack, cursor, attached, held>>

\* LoadLibraryW, called by the program or by an entry point: the loaded module, or
\* a new one whose loading starts.  (When it fails at once nothing changes.)
LoadLibraryW(name) ==
  /\ activity \in {"dllmain", "guest"} /\ stack = <<>>
  /\ \/ /\ \E s \in 1 .. Len(modules) :
              find_runtime_module(s, name) /\ held' = held \cup {s}
        /\ UNCHANGED <<modules, stack>>
     \/ /\ ~Loaded(name)
        /\ Len(modules) < MaxModules
        /\ Enter(name)
        /\ UNCHANGED held
  /\ UNCHANGED <<imports, state, activity, cursor, attached>>

LoaderStep == ResolveImport \/ ResolveDependency \/ MapFails \/ ImportFails \/ FinishModule

Next ==
  \/ CERuntimeLoadExecutable
  \/ LoaderStep
  \/ AllocateStack
  \/ initialize_dll
  \/ DllMainEnds
  \/ DllMainFails
  \/ EnterProgram
  \/ CERuntimeRunSlice
  \/ SliceEnds
  \/ \E name \in Dlls : LoadLibraryW(name)

Spec == Init /\ [][Next]_vars

\* What LoadExecutable and LoadLibraryW do is never interrupted, and a DLL's entry
\* point gets 500000 steps at the most.
HostStep == LoaderStep \/ AllocateStack \/ initialize_dll \/ DllMainEnds \/ DllMainFails
              \/ EnterProgram

FairSpec == Spec /\ WF_vars(HostStep)
-----------------------------------------------------------------------------
\* The import graph has no cycle: DLLs can be ranked below their importers.
Acyclic ==
  \E rank \in [Files -> 0 .. MaxModules] :
     \A f \in Files : \A i \in 1 .. Len(imports[f]) :
        imports[f][i] # Builtin => rank[imports[f][i]] < rank[f]

\* All that the module in slot s imports is loaded.
Bound(s) ==
  \A i \in 1 .. Len(imports[modules[s].file]) :
     imports[modules[s].file][i] = Builtin \/ Loaded(imports[modules[s].file][i])

\* Without import cycles a failed load takes with it every module that needed what
\* is missing, and none that stays was bound to it (112-115 and the recursion).
BoundUnlessCyclic ==
  Acyclic => \A s \in 1 .. Len(modules) : Named(s) /\ ~modules[s].loading => Bound(s)

\* The handle LoadLibraryW gave out stays that of a completely loaded module: no
\* later failure clears it (the unwinding at 114 against 170).
HeldModulesLoaded == \A s \in held : Named(s) /\ ~modules[s].loading

\* The number of files that import the DLL.
OnlyImporter(f, name) ==
  \A g \in Files : (\E i \in 1 .. Len(imports[g]) : imports[g][i] = name) <=> g = f

\* No entry point runs twice, and that of a DLL with a single importer runs before
\* its importer's: slots are taken parent first and walked backwards (110, 280).
AttachOrder ==
  \A i, j \in 1 .. Len(attached) : i < j =>
     /\ attached[i] # attached[j]
     /\ ~OnlyImporter(modules[attached[i]].file, modules[attached[j]].file)

\* The DLLs the program needs, directly or through other DLLs.
Needed ==
  LET ImportedBy(f) == {imports[f][i] : i \in 1 .. Len(imports[f])} \cap Dlls
  IN {d \in Dlls : \A S \in SUBSET Dlls :
        ImportedBy(Exe) \cup UNION {ImportedBy(f) : f \in S} \subseteq S => d \in S}

\* The program never starts before the entry point of every DLL it needs was run;
\* cleared slots and a table filled by other loads do not hide one (280-289).
AttachedBeforeProgram ==
  state \in {"LOADED", "RUNNING"} =>
     \A d \in Needed \cap EntryDlls :
        \E i \in 1 .. Len(attached) : modules[attached[i]].file = d

\* LoadExecutable and LoadLibraryW return whatever the import graph and whatever
\* the entry points do: cycles of imports do not recurse for ever and no entry
\* point waits for another (87-116, 239).
CallsReturn ==
  /\ activity \in {"map", "attach", "dllmain"} ~> activity = "host"
  /\ stack # <<>> ~> stack = <<>>
=============================================================================
