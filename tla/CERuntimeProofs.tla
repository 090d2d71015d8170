--------------------------- MODULE CERuntimeProofs ---------------------------
(***************************************************************************)
(* Proofs about CERuntime, for every set of DLLs, every import table and    *)
(* every number of slots: what the guest holds stays loaded, entry points   *)
(* run once and in the order the slots give, the program starts behind the  *)
(* entry points of all that it needs, and without import cycles what is     *)
(* loaded is bound.  Along with it, for every table and every image: what   *)
(* CEPELoader relocates and looks up.                                       *)
(***************************************************************************)
EXTENDS MCRuntime, NumberLemmas, SequenceTheorems, TLAPS

Module == [name : Dlls \cup {NoName}, file : Dlls, loading : BOOLEAN]
Activation == [slot : Nat, next : Nat \ {0}]

\* The module of slot s is complete.
Complete(s) == Named(s) /\ ~modules[s].loading

\* The tables have their shape.
TableTypes ==
  /\ imports \in [Files -> Seq(Dlls \cup {Builtin})]
  /\ modules \in Seq(Module)
  /\ stack \in Seq(Activation)

\* A slot has the name of its file or none.
SlotNames ==
  \A s \in 1 .. Len(modules) : modules[s].name # NoName => modules[s].name = modules[s].file

\* A slot that is loading has an activation.
LoadingActive ==
  \A s \in 1 .. Len(modules) : modules[s].loading => \E i \in 1 .. Len(stack) : stack[i].slot = s

\* The slot of an activation is there and keeps its name.
ActivationSlots ==
  \A i \in 1 .. Len(stack) :
     /\ stack[i].slot <= Len(modules)
     /\ stack[i].slot # 0 => modules[stack[i].slot].name # NoName

TableInv ==
  /\ TableTypes
  /\ SlotNames
  /\ LoadingActive
  /\ ActivationSlots
  /\ activity = "new" => stack = <<>>

HeldInv == held \subseteq 1 .. Len(modules) /\ HeldModulesLoaded
-----------------------------------------------------------------------------
LEMMA NoNames == NoName \notin Dlls /\ Builtin \notin Dlls /\ Exe \notin Dlls
  BY NamesAssumption

LEMMA Shapes ==
  ASSUME TableInv
  PROVE  /\ modules \in Seq(Module) /\ Len(modules) \in Nat
         /\ \A s \in 1 .. Len(modules) :
               /\ modules[s] \in Module
               /\ modules[s].name \in Dlls \cup {NoName}
               /\ modules[s].file \in Dlls
               /\ modules[s].loading \in BOOLEAN
         /\ stack \in Seq(Activation) /\ Len(stack) \in Nat
         /\ \A i \in 1 .. Len(stack) :
               /\ stack[i] \in Activation
               /\ stack[i].slot \in 0 .. Len(modules)
               /\ stack[i].next \in Nat \ {0}
<1>1. modules \in Seq(Module) /\ stack \in Seq(Activation)
  BY DEF TableInv, TableTypes
<1>2. Len(modules) \in Nat /\ Len(stack) \in Nat
  BY <1>1
<1>3. \A s \in 1 .. Len(modules) : modules[s] \in Module
  BY <1>1
<1>4. \A i \in 1 .. Len(stack) : stack[i] \in Activation
  BY <1>1
<1>5. \A i \in 1 .. Len(stack) : stack[i].slot <= Len(modules)
  BY DEF TableInv, ActivationSlots
<1> QED BY <1>1, <1>2, <1>3, <1>4, <1>5 DEF Module, Activation

\* The innermost activation.
LEMMA TopShape ==
  ASSUME TableInv, stack # <<>>
  PROVE  /\ Len(stack) \in 1 .. Len(stack)
         /\ Top = stack[Len(stack)] /\ Top \in Activation
         /\ Top.slot \in 0 .. Len(modules) /\ Top.next \in Nat \ {0}
<1>1. stack \in Seq(Activation) /\ Len(stack) \in Nat
  BY Shapes
<1>2. Len(stack) \in 1 .. Len(stack)
  BY <1>1
<1> QED BY <1>2, Shapes DEF Top

\* The import that is resolved next is that of a file.
LEMMA ImportType ==
  ASSUME TableInv, Pending
  PROVE  /\ stack # <<>>
         /\ FileOf(Top.slot) \in Files
         /\ Import \in Dlls \cup {Builtin}
<1>1. stack # <<>> /\ Top.next <= Len(imports[FileOf(Top.slot)])
  BY DEF Pending
<1>2. Top.slot \in 0 .. Len(modules) /\ Top.next \in Nat \ {0} /\ Len(modules) \in Nat
  BY <1>1, TopShape, Shapes
<1>3. FileOf(Top.slot) \in Files
  BY <1>2, Shapes DEF FileOf, Files
<1>4. imports[FileOf(Top.slot)] \in Seq(Dlls \cup {Builtin})
  BY <1>3 DEF TableInv, TableTypes
<1>5. imports[FileOf(Top.slot)][Top.next] \in Dlls \cup {Builtin}
  BY <1>1, <1>2, <1>4
<1> QED BY <1>1, <1>3, <1>5 DEF Import

\* What entering a module, going on to the next import, giving up and finishing do to the
\* tables, slot by slot and activation by activation.
Entered(name) ==
  /\ modules' \in Seq(Module) /\ Len(modules') = Len(modules) + 1
  /\ \A s \in 1 .. Len(modules) : modules'[s] = modules[s]
  /\ modules'[Len(modules) + 1] = [name |-> name, file |-> name, loading |-> TRUE]
  /\ stack' \in Seq(Activation) /\ Len(stack') = Len(stack) + 1
  /\ \A i \in 1 .. Len(stack) : stack'[i] = stack[i]
  /\ stack'[Len(stack) + 1] = [slot |-> Len(modules) + 1, next |-> 1]

LEMMA EnterShape ==
  ASSUME TableInv, NEW name \in Dlls, Enter(name)
  PROVE  Entered(name)
<1> DEFINE m == [name |-> name, file |-> name, loading |-> TRUE]
           a == [slot |-> Len(modules) + 1, next |-> 1]
<1>1. modules \in Seq(Module) /\ stack \in Seq(Activation)
      /\ Len(modules) \in Nat /\ Len(stack) \in Nat
  BY Shapes
<1>2. m \in Module /\ a \in Activation
  BY <1>1 DEF Module, Activation
<1>3. modules' = Append(modules, m) /\ stack' = Append(stack, a)
  BY DEF Enter
<1> HIDE DEF m, a
<1>4. /\ modules' \in Seq(Module) /\ Len(modules') = Len(modules) + 1
      /\ \A s \in 1 .. Len(modules) : modules'[s] = modules[s]
      /\ modules'[Len(modules) + 1] = m
  BY <1>1, <1>2, <1>3
<1>5. /\ stack' \in Seq(Activation) /\ Len(stack') = Len(stack) + 1
      /\ \A i \in 1 .. Len(stack) : stack'[i] = stack[i]
      /\ stack'[Len(stack) + 1] = a
  BY <1>1, <1>2, <1>3
<1> QED BY <1>4, <1>5 DEF Entered, m, a

LEMMA UnwindShape ==
  ASSUME TableInv, Unwind
  PROVE  /\ modules' \in Seq(Module) /\ Len(modules') = Len(modules)
         /\ \A s \in 1 .. Len(modules) :
               /\ modules'[s].file = modules[s].file
               /\ modules[s].loading => modules'[s].name = NoName /\ ~modules'[s].loading
               /\ ~modules[s].loading => modules'[s] = modules[s]
         /\ stack' = <<>>
<1> DEFINE cleared(s) == [modules[s] EXCEPT !.name = NoName, !.loading = FALSE]
<1>1. modules' = [s \in 1 .. Len(modules) |->
                   IF modules[s].loading THEN cleared(s) ELSE modules[s]]
  BY DEF Unwind
<1>2. ASSUME NEW s \in 1 .. Len(modules)
      PROVE  /\ cleared(s) \in Module
             /\ cleared(s).name = NoName /\ cleared(s).loading = FALSE
             /\ cleared(s).file = modules[s].file
  <2>1. modules[s] \in Module
    BY Shapes
  <2> QED BY <2>1 DEF Module
<1> HIDE DEF cleared
<1>3. \A s \in 1 .. Len(modules) :
        modules'[s] = IF modules[s].loading THEN cleared(s) ELSE modules[s]
  BY <1>1
<1>4. \A s \in 1 .. Len(modules) : modules'[s] \in Module
  BY <1>2, <1>3, Shapes
<1>5. modules' \in Seq(Module) /\ Len(modules') = Len(modules)
  <2>1. Len(modules) \in Nat
    BY Shapes
  <2>2. modules' = [s \in 1 .. Len(modules) |-> modules'[s]]
    BY <1>1
  <2> QED BY <1>4, <2>1, <2>2
<1> QED BY <1>2, <1>3, <1>5 DEF Unwind

LEMMA FinishShape ==
  ASSUME TableInv, FinishModule
  PROVE  /\ modules' \in Seq(Module) /\ Len(modules') = Len(modules)
         /\ \A s \in 1 .. Len(modules) :
               /\ modules'[s].file = modules[s].file
               /\ modules'[s].name = modules[s].name
               /\ modules'[s].loading <=> modules[s].loading /\ s # Top.slot
         /\ stack' \in Seq(Activation) /\ Len(stack') = Len(stack) - 1
         /\ \A i \in 1 .. Len(stack) - 1 : stack'[i] = stack[i]
<1>1. stack # <<>> /\ stack' = Popped
  BY DEF FinishModule
<1>2. Top.slot \in 0 .. Len(modules) /\ Len(modules) \in Nat
  BY <1>1, TopShape, Shapes
<1>3. /\ modules' \in Seq(Module) /\ Len(modules') = Len(modules)
      /\ \A s \in 1 .. Len(modules) :
            /\ modules'[s].file = modules[s].file
            /\ modules'[s].name = modules[s].name
            /\ modules'[s].loading <=> modules[s].loading /\ s # Top.slot
  <2>1. CASE Top.slot = 0
    <3>1. modules' = modules
      BY <2>1 DEF FinishModule
    <3> QED BY <2>1, <3>1, Shapes
  <2>2. CASE Top.slot # 0
    <3> DEFINE finished(s) == [modules[s] EXCEPT !.loading = FALSE]
    <3>1. modules' = [modules EXCEPT ![Top.slot] = finished(Top.slot)]
      BY <2>2 DEF FinishModule
    <3>2. ASSUME NEW s \in 1 .. Len(modules)
          PROVE  /\ finished(s) \in Module
                 /\ finished(s).name = modules[s].name /\ finished(s).loading = FALSE
                 /\ finished(s).file = modules[s].file
      <4>1. modules[s] \in Module
        BY Shapes
      <4> QED BY <4>1 DEF Module
    <3> HIDE DEF finished
    <3>3. Top.slot \in 1 .. Len(modules)
      BY <1>2, <2>2
    <3>4. modules' \in Seq(Module) /\ Len(modules') = Len(modules)
      <4>1. modules \in Seq(Module) /\ finished(Top.slot) \in Module
        BY <3>2, <3>3, Shapes
      <4> QED BY <3>1, <3>3, <4>1
    <3>5. \A s \in 1 .. Len(modules) :
            modules'[s] = IF s = Top.slot THEN finished(s) ELSE modules[s]
      BY <3>1, Shapes
    <3> QED BY <3>2, <3>4, <3>5
  <2> QED BY <2>1, <2>2
<1>4. /\ stack' \in Seq(Activation) /\ Len(stack') = Len(stack) - 1
      /\ \A i \in 1 .. Len(stack) - 1 : stack'[i] = stack[i]
  <2>1. Len(stack) - 1 \in Nat /\ stack \in Seq(Activation)
    BY <1>1, TopShape, Shapes
  <2>2. stack' = [i \in 1 .. Len(stack) - 1 |-> stack[i]]
    BY <1>1 DEF Popped
  <2> QED BY <2>1, <2>2
<1> QED BY <1>3, <1>4

LEMMA NextShape ==
  ASSUME TableInv, Pending, NextImport
  PROVE  /\ stack' \in Seq(Activation) /\ Len(stack') = Len(stack)
         /\ \A i \in 1 .. Len(stack) :
               /\ stack'[i].slot = stack[i].slot
               /\ stack'[i].next = IF i = Len(stack) THEN Top.next + 1 ELSE stack[i].next
<1> DEFINE a == [stack[Len(stack)] EXCEPT !.next = Top.next + 1]
<1>1. Len(stack) \in 1 .. Len(stack) /\ Top = stack[Len(stack)] /\ Top \in Activation
      /\ stack \in Seq(Activation)
  BY ImportType, TopShape, Shapes
<1>2. stack' = [stack EXCEPT ![Len(stack)] = a]
  BY DEF NextImport
<1>3. a \in Activation /\ a.slot = Top.slot /\ a.next = Top.next + 1
  BY <1>1 DEF Activation
<1> HIDE DEF a
<1>4. stack' \in Seq(Activation) /\ Len(stack') = Len(stack)
  BY <1>1, <1>2, <1>3
<1>5. \A i \in 1 .. Len(stack) : stack'[i] = IF i = Len(stack) THEN a ELSE stack[i]
  BY <1>1, <1>2
<1> QED BY <1>1, <1>3, <1>4, <1>5
-----------------------------------------------------------------------------
\* A complete module stays complete, and no slot is given to another file.
Grows ==
  /\ Len(modules') \in Nat /\ Len(modules) <= Len(modules')
  /\ \A s \in 1 .. Len(modules) : /\ modules'[s].file = modules[s].file
                                  /\ Complete(s) => Complete(s)'

\* What is left as it is by a step, whatever it does to the rest.
Still == UNCHANGED <<imports, modules, stack>>

LEMMA StepShape ==
  ASSUME TableInv, [Next]_vars
  PROVE  \/ Still
         \/ CERuntimeLoadExecutable
         \/ Pending /\ ResolveImport
         \/ \E name \in Dlls : Enter(name) /\ (ResolveDependency \/ LoadLibraryW(name))
         \/ Unwind /\ (MapFails \/ ImportFails)
         \/ FinishModule
<1>1. ASSUME ResolveDependency
      PROVE  \E name \in Dlls : Enter(name) /\ ResolveDependency
  <2>1. Import \in Dlls /\ Enter(Import)
    BY <1>1, ImportType DEF ResolveDependency
  <2> QED BY <1>1, <2>1
<1>2. ASSUME NEW name \in Dlls, LoadLibraryW(name)
      PROVE  Still \/ (Enter(name) /\ LoadLibraryW(name))
  BY <1>2 DEF LoadLibraryW, Still
<1> QED
  BY <1>1, <1>2
     DEF Next, LoaderStep, ResolveImport, MapFails, ImportFails, AllocateStack, initialize_dll,
         DllMainEnds, DllMainFails, EnterProgram, CERuntimeRunSlice, SliceEnds, Still, vars

LEMMA GrowsStep ==
  ASSUME TableInv, [Next]_vars
  PROVE  Grows
<1>1. CASE UNCHANGED modules
  BY <1>1, Shapes DEF Grows, Complete, Named
<1>2. ASSUME NEW name \in Dlls, Enter(name) PROVE Grows
  <2>1. Entered(name)
    BY <1>2, EnterShape
  <2>2. Len(modules) \in Nat
    BY Shapes
  <2> QED BY <2>1, <2>2 DEF Entered, Grows, Complete, Named
<1>3. CASE Unwind
  BY <1>3, UnwindShape, Shapes DEF Grows, Complete, Named
<1>4. CASE FinishModule
  BY <1>4, FinishShape, Shapes DEF Grows, Complete, Named
<1> QED BY <1>1, <1>2, <1>3, <1>4, StepShape DEF Still, CERuntimeLoadExecutable, ResolveImport

LEMMA TableStep ==
  ASSUME TableInv, [Next]_vars
  PROVE  TableInv'
<1>1. TableTypes /\ SlotNames /\ LoadingActive /\ ActivationSlots
  BY DEF TableInv
<1>2. imports' \in [Files -> Seq(Dlls \cup {Builtin})]
  <2>1. imports' = imports
    BY DEF Next, LoaderStep, CERuntimeLoadExecutable, ResolveImport, ResolveDependency, MapFails,
           ImportFails, FinishModule, AllocateStack, initialize_dll, DllMainEnds, DllMainFails,
           EnterProgram, CERuntimeRunSlice, SliceEnds, LoadLibraryW, vars
  <2> QED BY <1>1, <2>1 DEF TableTypes
<1>3. activity' = "new" => stack' = <<>>
  <2>1. activity = "new" => stack = <<>>
    BY DEF TableInv
  <2> QED
    BY <2>1
       DEF Next, LoaderStep, CERuntimeLoadExecutable, ResolveImport, ResolveDependency, MapFails,
           ImportFails, FinishModule, AllocateStack, initialize_dll, DllMainEnds, DllMainFails,
           EnterProgram, CERuntimeRunSlice, SliceEnds, LoadLibraryW, Unwind, Pending, vars
<1>4. SUFFICES TableTypes' /\ SlotNames' /\ LoadingActive' /\ ActivationSlots'
  BY <1>3 DEF TableInv
<1>5. CASE Still
  BY <1>1, <1>2, <1>5 DEF Still, TableTypes, SlotNames, LoadingActive, ActivationSlots
<1>6. CASE CERuntimeLoadExecutable
  <2>1. modules' = modules /\ stack' = <<[slot |-> 0, next |-> 1]>> /\ stack = <<>>
    BY <1>6 DEF CERuntimeLoadExecutable, TableInv
  <2>2. \A s \in 1 .. Len(modules) : ~modules[s].loading
    BY <1>1, <2>1 DEF LoadingActive
  <2>3. stack' \in Seq(Activation) /\ Len(stack') = 1 /\ stack'[1].slot = 0
    BY <2>1 DEF Activation
  <2>4. Len(modules) \in Nat
    BY Shapes
  <2>5. TableTypes'
    BY <1>1, <1>2, <2>1, <2>3 DEF TableTypes
  <2>6. SlotNames' /\ LoadingActive'
    BY <1>1, <2>1, <2>2 DEF SlotNames, LoadingActive
  <2>7. ActivationSlots'
    BY <2>1, <2>3, <2>4 DEF ActivationSlots
  <2> QED BY <2>5, <2>6, <2>7
<1>7. CASE Pending /\ ResolveImport
  <2>1. NextImport /\ modules' = modules
    BY <1>7 DEF ResolveImport
  <2>2. /\ stack' \in Seq(Activation) /\ Len(stack') = Len(stack)
        /\ \A i \in 1 .. Len(stack) : stack'[i].slot = stack[i].slot
    BY <1>7, <2>1, NextShape
  <2>3. TableTypes' /\ SlotNames'
    BY <1>1, <1>2, <2>1, <2>2 DEF TableTypes, SlotNames
  <2>4. LoadingActive'
    BY <1>1, <2>1, <2>2 DEF LoadingActive
  <2>5. ActivationSlots'
    BY <1>1, <2>1, <2>2 DEF ActivationSlots
  <2> QED BY <2>3, <2>4, <2>5
<1>8. ASSUME NEW name \in Dlls, Enter(name)
      PROVE  TableTypes' /\ SlotNames' /\ LoadingActive' /\ ActivationSlots'
  <2>1. Entered(name) /\ Len(modules) \in Nat /\ Len(stack) \in Nat
    BY <1>8, EnterShape, Shapes
  <2>2. TableTypes'
    BY <1>2, <2>1 DEF Entered, TableTypes
  <2>3. SlotNames'
    BY <1>1, <2>1 DEF Entered, SlotNames
  <2>4. LoadingActive'
    <3> SUFFICES ASSUME NEW s \in 1 .. Len(modules'), modules'[s].loading
                 PROVE  \E i \in 1 .. Len(stack') : stack'[i].slot = s
      BY DEF LoadingActive
    <3>1. CASE s = Len(modules) + 1
      BY <2>1, <3>1 DEF Entered
    <3>2. CASE s \in 1 .. Len(modules)
      <4>1. PICK i \in 1 .. Len(stack) : stack[i].slot = s
        BY <1>1, <2>1, <3>2 DEF Entered, LoadingActive
      <4>2. i \in 1 .. Len(stack') /\ stack'[i] = stack[i]
        BY <2>1 DEF Entered
      <4> QED BY <4>1, <4>2
    <3>3. Len(modules') = Len(modules) + 1
      BY <2>1 DEF Entered
    <3>4. s = Len(modules) + 1 \/ s \in 1 .. Len(modules)
      BY <2>1, <3>3
    <3> QED BY <3>1, <3>2, <3>4
  <2>5. ActivationSlots'
    <3> SUFFICES ASSUME NEW i \in 1 .. Len(stack')
                 PROVE  /\ stack'[i].slot <= Len(modules')
                        /\ stack'[i].slot # 0 => modules'[stack'[i].slot].name # NoName
      BY DEF ActivationSlots
    <3>1. CASE i = Len(stack) + 1
      <4>1. stack'[i].slot = Len(modules) + 1 /\ Len(modules') = Len(modules) + 1
        BY <2>1, <3>1 DEF Entered
      <4>2. modules'[Len(modules) + 1].name = name
        BY <2>1 DEF Entered
      <4> QED BY <2>1, <4>1, <4>2, NoNames
    <3>2. CASE i \in 1 .. Len(stack)
      <4>1. stack'[i] = stack[i] /\ Len(modules') = Len(modules) + 1
        BY <2>1, <3>2 DEF Entered
      <4>2. stack[i].slot \in 0 .. Len(modules)
        BY <3>2, Shapes
      <4>3. stack[i].slot # 0 => modules[stack[i].slot].name # NoName
        BY <1>1, <3>2 DEF ActivationSlots
      <4>4. stack[i].slot # 0 => modules'[stack[i].slot] = modules[stack[i].slot]
        BY <2>1, <4>2 DEF Entered
      <4> QED BY <2>1, <4>1, <4>2, <4>3, <4>4
    <3>3. Len(stack') = Len(stack) + 1
      BY <2>1 DEF Entered
    <3>4. i = Len(stack) + 1 \/ i \in 1 .. Len(stack)
      BY <2>1, <3>3
    <3> QED BY <3>1, <3>2, <3>4
  <2> QED BY <2>2, <2>3, <2>4, <2>5
<1>9. CASE Unwind
  <2>1. /\ modules' \in Seq(Module) /\ Len(modules') = Len(modules)
        /\ \A s \in 1 .. Len(modules) :
              /\ modules[s].loading => modules'[s].name = NoName /\ ~modules'[s].loading
              /\ ~modules[s].loading => modules'[s] = modules[s]
        /\ stack' = <<>>
    BY <1>9, UnwindShape
  <2>2. TableTypes'
    BY <1>2, <2>1 DEF TableTypes
  <2>3. SlotNames'
    BY <1>1, <2>1 DEF SlotNames
  <2>4. LoadingActive'
    BY <2>1 DEF LoadingActive
  <2>5. ActivationSlots'
    BY <2>1 DEF ActivationSlots
  <2> QED BY <2>2, <2>3, <2>4, <2>5
<1>10. CASE FinishModule
  <2>1. /\ modules' \in Seq(Module) /\ Len(modules') = Len(modules)
        /\ \A s \in 1 .. Len(modules) :
              /\ modules'[s].file = modules[s].file
              /\ modules'[s].name = modules[s].name
              /\ modules'[s].loading <=> modules[s].loading /\ s # Top.slot
        /\ stack' \in Seq(Activation) /\ Len(stack') = Len(stack) - 1
        /\ \A i \in 1 .. Len(stack) - 1 : stack'[i] = stack[i]
    BY <1>10, FinishShape
  <2>2. Len(stack) \in 1 .. Len(stack) /\ Top = stack[Len(stack)]
    BY <1>10, TopShape DEF FinishModule
  <2>3. TableTypes'
    BY <1>2, <2>1 DEF TableTypes
  <2>4. SlotNames'
    BY <1>1, <2>1 DEF SlotNames
  <2>5. LoadingActive'
    <3> SUFFICES ASSUME NEW s \in 1 .. Len(modules'), modules'[s].loading
                 PROVE  \E i \in 1 .. Len(stack') : stack'[i].slot = s
      BY DEF LoadingActive
    <3>1. PICK i \in 1 .. Len(stack) : stack[i].slot = s
      BY <1>1, <2>1 DEF LoadingActive
    <3>2. i # Len(stack)
      BY <2>1, <2>2, <3>1
    <3>3. i \in 1 .. Len(stack') /\ stack'[i] = stack[i]
      BY <2>1, <2>2, <3>2
    <3> QED BY <3>1, <3>3
  <2>6. ActivationSlots'
    <3> SUFFICES ASSUME NEW i \in 1 .. Len(stack')
                 PROVE  /\ stack'[i].slot <= Len(modules')
                        /\ stack'[i].slot # 0 => modules'[stack'[i].slot].name # NoName
      BY DEF ActivationSlots
    <3>1. i \in 1 .. Len(stack) /\ stack'[i] = stack[i]
      BY <2>1, <2>2
    <3>2. stack[i].slot \in 0 .. Len(modules)
      BY <3>1, Shapes
    <3>3. stack[i].slot # 0 => modules[stack[i].slot].name # NoName
      BY <1>1, <3>1 DEF ActivationSlots
    <3> QED BY <2>1, <3>1, <3>2, <3>3
  <2> QED BY <2>3, <2>4, <2>5, <2>6
<1> QED
  BY <1>5, <1>6, <1>7, <1>8, <1>9, <1>10, StepShape
-----------------------------------------------------------------------------
LEMMA TableInit == Init => TableInv
<1> SUFFICES ASSUME Init PROVE TableInv
  OBVIOUS
<1>1. imports \in [Files -> Seq(Dlls \cup {Builtin})]
  BY ImportsAssumption DEF Init
<1>2. modules = <<>> /\ stack = <<>>
  BY DEF Init
<1> QED
  BY <1>1, <1>2 DEF TableInv, TableTypes, SlotNames, LoadingActive, ActivationSlots

LEMMA TableAlways == Spec => []TableInv
<1>1. TableInv /\ [Next]_vars => TableInv'
  BY TableStep
<1> QED BY <1>1, TableInit, PTL DEF Spec

\* What LoadLibraryW gave to the guest stays loaded under its handle: a later load that
\* fails clears only what was loading (CERuntime.c 114 and 170).
THEOREM HeldStayLoaded == Spec => []HeldModulesLoaded
<1>1. Init => HeldInv
  BY DEF Init, HeldInv, HeldModulesLoaded
<1>2. TableInv /\ HeldInv /\ [Next]_vars => HeldInv'
  <2> SUFFICES ASSUME TableInv, HeldInv, [Next]_vars PROVE HeldInv'
    OBVIOUS
  <2>1. Grows
    BY GrowsStep
  <2>2. Len(modules) \in Nat
    BY Shapes
  <2>3. \A s \in held : s \in 1 .. Len(modules') /\ Complete(s)'
    BY <2>1, <2>2 DEF HeldInv, HeldModulesLoaded, Grows, Complete
  <2>4. \A s \in held' \ held : s \in 1 .. Len(modules') /\ Complete(s)'
    <3>1. CASE UNCHANGED held
      BY <3>1
    <3>2. CASE FinishModule
      <4>1. held' \ held \subseteq {Top.slot} \ {0}
        BY <3>2 DEF FinishModule
      <4>2. Top.slot \in 0 .. Len(modules) /\ Len(stack) \in 1 .. Len(stack)
            /\ Top = stack[Len(stack)]
        BY <3>2, TopShape DEF FinishModule
      <4>3. Top.slot # 0 => Named(Top.slot)
        BY <4>2 DEF TableInv, ActivationSlots, Named
      <4>4. \A s \in 1 .. Len(modules) : /\ modules'[s].name = modules[s].name
                                         /\ modules'[s].loading <=> modules[s].loading /\ s # Top.slot
        BY <3>2, FinishShape
      <4>5. Len(modules') = Len(modules)
        BY <3>2, FinishShape
      <4>6. ASSUME NEW s \in held' \ held PROVE s \in 1 .. Len(modules') /\ Complete(s)'
        <5>1. s = Top.slot /\ s \in 1 .. Len(modules)
          BY <2>2, <4>1, <4>2, <4>6
        <5>2. modules[s].name # NoName
          BY <4>3, <5>1 DEF Named
        <5>3. modules'[s].name # NoName /\ ~modules'[s].loading
          BY <4>4, <5>1, <5>2
        <5> QED BY <4>5, <5>1, <5>3 DEF Complete, Named
      <4> QED BY <4>6
    <3>3. ASSUME NEW name \in Dlls, LoadLibraryW(name), ~UNCHANGED held
          PROVE  \A s \in held' \ held : s \in 1 .. Len(modules') /\ Complete(s)'
      <4>1. PICK s \in 1 .. Len(modules) : /\ modules[s].name = name
                                           /\ held' = held \cup {s}
        BY <3>3 DEF LoadLibraryW, find_runtime_module
      <4>2. UNCHANGED modules /\ stack = <<>>
        BY <3>3 DEF LoadLibraryW
      <4>3. ~modules[s].loading
        BY <4>2 DEF TableInv, LoadingActive
      <4>4. Named(s)
        BY <4>1, NoNames DEF Named
      <4> QED BY <4>1, <4>2, <4>3, <4>4 DEF Complete, Named
    <3> QED
      BY <3>1, <3>2, <3>3
         DEF Next, LoaderStep, CERuntimeLoadExecutable, ResolveImport, ResolveDependency, MapFails,
             ImportFails, AllocateStack, initialize_dll, DllMainEnds, DllMainFails, EnterProgram,
             CERuntimeRunSlice, SliceEnds, vars
  <2> QED BY <2>3, <2>4 DEF HeldInv, HeldModulesLoaded, Complete, Named
<1>3. HeldInv => HeldModulesLoaded
  BY DEF HeldInv
<1> QED BY <1>1, <1>2, <1>3, TableAlways, PTL DEF Spec
-----------------------------------------------------------------------------
(***************************************************************************)
(* The order of the entry points.  While the program is mapped nothing has  *)
(* been given up, every slot belongs to another file, and was taken for an  *)
(* import of the program or of a lower slot; when all imports are bound,    *)
(* all the program needs is there.  The attach loop then walks down from    *)
(* the last slot; what it has still to reach stays complete, because only   *)
(* what is loading can be cleared.                                          *)
(***************************************************************************)

ImportOf(s, k) == imports[FileOf(s)][k]
ImportNumbers(s) == 1 .. Len(imports[FileOf(s)])

\* Nothing happens before the program is mapped.
StartInv ==
  /\ activity = "new" => modules = <<>>
  /\ activity \in {"new", "map"} => attached = <<>> /\ cursor = 0

\* While the program is mapped.
AllNamed == \A s \in 1 .. Len(modules) : modules[s].name = modules[s].file

FilesDistinct ==
  \A s, t \in 1 .. Len(modules) : modules[s].file = modules[t].file => s = t

BoundSoFar ==
  \A s \in 0 .. Len(modules) : \A k \in ImportNumbers(s) :
     \/ ImportOf(s, k) = Builtin
     \/ Loaded(ImportOf(s, k))
     \/ \E i \in 1 .. Len(stack) : stack[i].slot = s /\ stack[i].next <= k

Imported ==
  \A s \in 1 .. Len(modules) :
     \E t \in 0 .. s - 1 : \E k \in ImportNumbers(t) : ImportOf(t, k) = modules[s].file

MapInv == activity = "map" => AllNamed /\ FilesDistinct /\ BoundSoFar /\ Imported

\* The state of the runtime in each of its activities.
PhaseInv ==
  /\ activity \in {"new", "map", "attach", "dllmain"} => state = "IDLE"
  /\ activity = "guest" => state = "RUNNING"
-----------------------------------------------------------------------------
LEMMA StartStep ==
  ASSUME StartInv, TableInv, [Next]_vars
  PROVE  StartInv'
BY DEF StartInv, TableInv, Next, LoaderStep, CERuntimeLoadExecutable, ResolveImport,
       ResolveDependency, MapFails, ImportFails, FinishModule, AllocateStack, initialize_dll,
       DllMainEnds, DllMainFails, EnterProgram, CERuntimeRunSlice, SliceEnds, LoadLibraryW,
       Unwind, Pending, vars

LEMMA PhaseStep ==
  ASSUME PhaseInv, TableInv, [Next]_vars
  PROVE  PhaseInv'
BY DEF PhaseInv, TableInv, Next, LoaderStep, CERuntimeLoadExecutable, ResolveImport,
       ResolveDependency, MapFails, ImportFails, FinishModule, AllocateStack, initialize_dll,
       DllMainEnds, DllMainFails, EnterProgram, CERuntimeRunSlice, SliceEnds, LoadLibraryW,
       Unwind, Pending, vars

\* Only these steps belong to the mapping of the program.
LEMMA MapSteps ==
  ASSUME TableInv, [Next]_vars, activity' = "map"
  PROVE  /\ imports' = imports
         /\ \/ CERuntimeLoadExecutable
            \/ activity = "map" /\ Still
            \/ activity = "map" /\ Pending /\ ResolveImport
            \/ activity = "map" /\ ResolveDependency
            \/ activity = "map" /\ FinishModule
BY DEF Next, LoaderStep, CERuntimeLoadExecutable, ResolveImport, ResolveDependency, MapFails,
       ImportFails, FinishModule, AllocateStack, initialize_dll, DllMainEnds, DllMainFails,
       EnterProgram, CERuntimeRunSlice, SliceEnds, LoadLibraryW, Unwind, Still, vars

LEMMA MapStep ==
  ASSUME TableInv, StartInv, MapInv, [Next]_vars
  PROVE  MapInv'
<1> SUFFICES ASSUME activity' = "map"
             PROVE  AllNamed' /\ FilesDistinct' /\ BoundSoFar' /\ Imported'
  BY DEF MapInv
<1>1. imports' = imports
  BY MapSteps
<1>2. CASE CERuntimeLoadExecutable
  <2>1. modules = <<>> /\ modules' = <<>> /\ stack' = <<[slot |-> 0, next |-> 1]>>
    BY <1>2 DEF CERuntimeLoadExecutable, StartInv
  <2>2. AllNamed' /\ FilesDistinct' /\ Imported'
    BY <2>1 DEF AllNamed, FilesDistinct, Imported
  <2>3. BoundSoFar'
    <3>1. Len(stack') = 1 /\ stack'[1].slot = 0 /\ stack'[1].next = 1 /\ Len(modules') = 0
      BY <2>1
    <3>2. \A s \in 0 .. Len(modules') : \A k \in ImportNumbers(s)' :
             1 \in 1 .. Len(stack') /\ stack'[1].slot = s /\ stack'[1].next <= k
      BY <3>1 DEF ImportNumbers
    <3> QED BY <3>2 DEF BoundSoFar
  <2> QED BY <2>2, <2>3
<1>3. CASE activity = "map" /\ Still
  <2>1. imports' = imports /\ modules' = modules /\ stack' = stack
    BY <1>3 DEF Still
  <2>2. AllNamed' /\ FilesDistinct'
    BY <1>3, <2>1 DEF MapInv, AllNamed, FilesDistinct
  <2>3. BoundSoFar'
    <3>1. BoundSoFar
      BY <1>3 DEF MapInv
    <3>2. UNCHANGED <<imports, modules, stack>> => (BoundSoFar' <=> BoundSoFar)
      <4>1. SUFFICES ASSUME UNCHANGED <<imports, modules, stack>>
                     PROVE  BoundSoFar' <=> BoundSoFar
        OBVIOUS
      <4>2. /\ \A s : FileOf(s)' = FileOf(s)
            /\ \A name : Loaded(name)' <=> Loaded(name)
        BY <4>1 DEF FileOf, Loaded
      <4>3. \A s : /\ ImportNumbers(s)' = ImportNumbers(s)
                   /\ \A k : ImportOf(s, k)' = ImportOf(s, k)
        BY <4>1, <4>2 DEF ImportNumbers, ImportOf
      <4>4. \A s, k : Loaded(ImportOf(s, k))' <=> Loaded(ImportOf(s, k))
        BY <4>2, <4>3 DEF Loaded
      <4> QED BY <4>1, <4>3, <4>4 DEF BoundSoFar
    <3> QED BY <2>1, <3>1, <3>2
  <2>4. Imported'
    BY <1>3, <2>1 DEF MapInv, Imported, ImportOf, ImportNumbers, FileOf
  <2> QED BY <2>2, <2>3, <2>4
<1>4. CASE activity = "map" /\ Pending /\ ResolveImport
  <2>1. NextImport /\ modules' = modules /\ (Import = Builtin \/ Loaded(Import))
    BY <1>4 DEF ResolveImport
  <2>2. /\ Len(stack') = Len(stack)
        /\ \A i \in 1 .. Len(stack) :
              /\ stack'[i].slot = stack[i].slot
              /\ stack'[i].next = IF i = Len(stack) THEN Top.next + 1 ELSE stack[i].next
    BY <1>4, <2>1, NextShape
  <2>3. AllNamed' /\ FilesDistinct' /\ Imported'
    BY <1>1, <1>4, <2>1
       DEF MapInv, AllNamed, FilesDistinct, Imported, ImportOf, ImportNumbers, FileOf
  <2>4. BoundSoFar'
    <3> SUFFICES ASSUME NEW s \in 0 .. Len(modules), NEW k \in ImportNumbers(s),
                        ImportOf(s, k) # Builtin, ~Loaded(ImportOf(s, k))
                 PROVE  \E i \in 1 .. Len(stack') : stack'[i].slot = s /\ stack'[i].next <= k
      BY <1>1, <2>1 DEF BoundSoFar, ImportOf, ImportNumbers, FileOf, Loaded
    <3>1. PICK i \in 1 .. Len(stack) : stack[i].slot = s /\ stack[i].next <= k
      BY <1>4 DEF MapInv, BoundSoFar
    <3>2. CASE i # Len(stack)
      BY <2>2, <3>1, <3>2
    <3>3. CASE i = Len(stack)
      <4>1. Top = stack[i] /\ Top.next \in Nat \ {0}
        BY <1>4, <3>3, ImportType, TopShape
      <4>2. k # Top.next
        BY <2>1, <3>1, <4>1 DEF Import, ImportOf
      <4>3. k \in Nat /\ Top.next <= k
        BY <3>1, <4>1 DEF ImportNumbers
      <4>4. stack'[i].next <= k
        BY <2>2, <3>3, <4>1, <4>2, <4>3
      <4> QED BY <2>2, <3>1, <4>4
    <3> QED BY <3>2, <3>3
  <2> QED BY <2>3, <2>4
<1>5. CASE activity = "map" /\ ResolveDependency
  <2>1. Pending /\ Import # Builtin /\ ~Loaded(Import) /\ Enter(Import)
    BY <1>5 DEF ResolveDependency
  <2>2. Import \in Dlls /\ stack # <<>>
    BY <2>1, ImportType
  <2>3. Entered(Import) /\ Len(modules) \in Nat /\ Len(stack) \in Nat
    BY <2>1, <2>2, EnterShape, Shapes
  <2>4. /\ Len(modules') = Len(modules) + 1
        /\ \A s \in 1 .. Len(modules) : modules'[s] = modules[s]
        /\ modules'[Len(modules) + 1].name = Import
        /\ modules'[Len(modules) + 1].file = Import
    BY <2>3 DEF Entered
  <2>5. /\ Len(stack') = Len(stack) + 1
        /\ \A i \in 1 .. Len(stack) : stack'[i] = stack[i]
        /\ stack'[Len(stack) + 1].slot = Len(modules) + 1
        /\ stack'[Len(stack) + 1].next = 1
    BY <2>3 DEF Entered
  <2>6. \A s \in 0 .. Len(modules) : FileOf(s)' = FileOf(s)
    BY <2>3, <2>4 DEF FileOf
  <2>7. \A s \in 0 .. Len(modules) : /\ ImportNumbers(s)' = ImportNumbers(s)
                                     /\ \A k : ImportOf(s, k)' = ImportOf(s, k)
    BY <1>1, <2>6 DEF ImportNumbers, ImportOf
  <2>8. AllNamed'
    BY <1>5, <2>3, <2>4 DEF MapInv, AllNamed
  <2>9. FilesDistinct'
    <3>1. \A s \in 1 .. Len(modules) : modules[s].file # Import
      BY <1>5, <2>1 DEF MapInv, AllNamed, Loaded
    <3> QED BY <1>5, <2>3, <2>4, <3>1 DEF MapInv, FilesDistinct
  <2>10. Imported'
    <3> SUFFICES ASSUME NEW s \in 1 .. Len(modules')
                 PROVE  \E t \in 0 .. s - 1 : \E k \in ImportNumbers(t)' :
                           ImportOf(t, k)' = modules'[s].file
      BY DEF Imported
    <3>1. CASE s = Len(modules) + 1
      <4>1. /\ Top.slot \in 0 .. s - 1 /\ Top.slot \in 0 .. Len(modules)
            /\ Top.next \in Nat \ {0}
        BY <2>2, <2>3, <3>1, TopShape
      <4>2. PICK t \in 0 .. s - 1 : t = Top.slot
        BY <4>1
      <4>3. PICK k \in Nat : k = Top.next
        BY <4>1
      <4>4. k \in ImportNumbers(t) /\ ImportOf(t, k) = Import
        BY <2>1, <4>1, <4>2, <4>3 DEF Pending, ImportNumbers, ImportOf, Import
      <4>5. k \in ImportNumbers(t)' /\ ImportOf(t, k)' = Import
        BY <2>7, <4>1, <4>2, <4>4
      <4>6. modules'[s].file = Import
        BY <2>4, <3>1
      <4> QED BY <4>5, <4>6
    <3>2. CASE s \in 1 .. Len(modules)
      <4>1. PICK t \in 0 .. s - 1 : \E k \in ImportNumbers(t) : ImportOf(t, k) = modules[s].file
        BY <1>5, <3>2 DEF MapInv, Imported
      <4>2. t \in 0 .. Len(modules)
        BY <2>3, <3>2
      <4> QED BY <2>4, <2>7, <3>2, <4>1, <4>2
    <3> QED BY <2>3, <2>4, <3>1, <3>2
  <2>11. BoundSoFar'
    <3> SUFFICES ASSUME NEW s \in 0 .. Len(modules'), NEW k \in ImportNumbers(s)'
                 PROVE  \/ ImportOf(s, k)' = Builtin
                        \/ \E t \in 1 .. Len(modules') : modules'[t].name = ImportOf(s, k)'
                        \/ \E i \in 1 .. Len(stack') : stack'[i].slot = s /\ stack'[i].next <= k
      BY DEF BoundSoFar, Loaded
    <3>1. CASE s = Len(modules) + 1
      <4>1. k \in Nat /\ 1 <= k
        BY DEF ImportNumbers
      <4>2. Len(stack) + 1 \in 1 .. Len(stack')
        BY <2>3, <2>5
      <4> QED BY <2>5, <3>1, <4>1, <4>2
    <3>2. CASE s \in 0 .. Len(modules)
      <4>1. k \in ImportNumbers(s) /\ ImportOf(s, k)' = ImportOf(s, k)
        BY <2>7, <3>2
      <4>2. \/ ImportOf(s, k) = Builtin
            \/ \E t \in 1 .. Len(modules) : modules[t].name = ImportOf(s, k)
            \/ \E i \in 1 .. Len(stack) : stack[i].slot = s /\ stack[i].next <= k
        BY <1>5, <3>2, <4>1 DEF MapInv, BoundSoFar, Loaded
      <4>3. CASE \E t \in 1 .. Len(modules) : modules[t].name = ImportOf(s, k)
        BY <2>3, <2>4, <4>1, <4>3
      <4>4. CASE \E i \in 1 .. Len(stack) : stack[i].slot = s /\ stack[i].next <= k
        BY <2>3, <2>5, <4>4
      <4> QED BY <4>1, <4>2, <4>3, <4>4
    <3> QED BY <2>3, <2>4, <3>1, <3>2
  <2> QED BY <2>8, <2>9, <2>10, <2>11
<1>6. CASE activity = "map" /\ FinishModule
  <2>1. /\ Len(modules') = Len(modules)
        /\ \A s \in 1 .. Len(modules) :
              /\ modules'[s].file = modules[s].file
              /\ modules'[s].name = modules[s].name
        /\ Len(stack') = Len(stack) - 1
        /\ \A i \in 1 .. Len(stack) - 1 : stack'[i] = stack[i]
    BY <1>6, FinishShape
  <2>2. stack # <<>> /\ ~Pending
    BY <1>6 DEF FinishModule
  <2>3. Len(stack) \in 1 .. Len(stack) /\ Top = stack[Len(stack)] /\ Top.next \in Nat
        /\ Len(modules) \in Nat
    BY <2>2, TopShape, Shapes
  <2>4. \A s \in 0 .. Len(modules) : FileOf(s)' = FileOf(s)
    BY <2>1, <2>3 DEF FileOf
  <2>5. \A s \in 0 .. Len(modules) : /\ ImportNumbers(s)' = ImportNumbers(s)
                                     /\ \A k : ImportOf(s, k)' = ImportOf(s, k)
    BY <1>1, <2>4 DEF ImportNumbers, ImportOf
  <2>6. AllNamed' /\ FilesDistinct'
    BY <1>6, <2>1 DEF MapInv, AllNamed, FilesDistinct
  <2>7. Imported'
    <3> SUFFICES ASSUME NEW s \in 1 .. Len(modules)
                 PROVE  \E t \in 0 .. s - 1 : \E k \in ImportNumbers(t)' :
                           ImportOf(t, k)' = modules[s].file
      BY <2>1 DEF Imported
    <3>1. PICK t \in 0 .. s - 1 : \E k \in ImportNumbers(t) : ImportOf(t, k) = modules[s].file
      BY <1>6 DEF MapInv, Imported
    <3>2. t \in 0 .. Len(modules)
      BY <2>3
    <3> QED BY <2>5, <3>1, <3>2
  <2>8. BoundSoFar'
    <3> SUFFICES ASSUME NEW s \in 0 .. Len(modules), NEW k \in ImportNumbers(s),
                        ImportOf(s, k) # Builtin,
                        \A t \in 1 .. Len(modules) : modules[t].name # ImportOf(s, k)
                 PROVE  \E i \in 1 .. Len(stack') : stack'[i].slot = s /\ stack'[i].next <= k
      <4>1. \A s \in 0 .. Len(modules) : \A k \in ImportNumbers(s) :
               Loaded(ImportOf(s, k))' <=> Loaded(ImportOf(s, k))
        BY <2>1, <2>5 DEF Loaded
      <4> QED BY <2>1, <2>5, <4>1 DEF BoundSoFar, Loaded
    <3>1. PICK i \in 1 .. Len(stack) : stack[i].slot = s /\ stack[i].next <= k
      BY <1>6 DEF MapInv, BoundSoFar, Loaded
    <3>2. i # Len(stack)
      <4> SUFFICES ASSUME i = Len(stack) PROVE FALSE
        OBVIOUS
      <4>1. Top.slot = s /\ Top.next <= k
        BY <2>3, <3>1
      <4>2. k \in 1 .. Len(imports[FileOf(s)])
        BY DEF ImportNumbers
      <4>3. FileOf(s) \in Files
        BY <2>3, Shapes DEF FileOf, Files
      <4>4. Len(imports[FileOf(s)]) \in Nat
        BY <4>3 DEF TableInv, TableTypes
      <4>5. Top.next <= Len(imports[FileOf(Top.slot)])
        BY <2>3, <4>1, <4>2, <4>4
      <4> QED BY <2>2, <4>5 DEF Pending
    <3>3. i \in 1 .. Len(stack') /\ stack'[i] = stack[i]
      BY <2>1, <2>3, <3>2
    <3> QED BY <3>1, <3>3
  <2> QED BY <2>6, <2>7, <2>8
<1> QED BY <1>2, <1>3, <1>4, <1>5, <1>6, MapSteps
-----------------------------------------------------------------------------
\* What is closed under imports, and has the program's own, has all the program needs.
LEMMA NeededWithin ==
  ASSUME NEW S \in SUBSET Dlls,
         \A f \in S \cup {Exe} : \A k \in 1 .. Len(imports[f]) :
            imports[f][k] \in Dlls => imports[f][k] \in S
  PROVE  Needed \subseteq S
BY DEF Needed

LEMMA NeededLoaded ==
  ASSUME TableInv, MapInv, activity = "map", stack = <<>>
  PROVE  \A d \in Needed : \E s \in 1 .. Len(modules) : modules[s].file = d /\ Complete(s)
<1> DEFINE S == {modules[s].file : s \in 1 .. Len(modules)}
<1>1. S \in SUBSET Dlls
  BY Shapes
<1>2. ASSUME NEW f \in S \cup {Exe}, NEW k \in 1 .. Len(imports[f]), imports[f][k] \in Dlls
      PROVE  imports[f][k] \in S
  <2>1. PICK s \in 0 .. Len(modules) : f = FileOf(s)
    <3>1. CASE f = Exe
      <4>1. 0 \in 0 .. Len(modules) /\ FileOf(0) = Exe
        BY Shapes DEF FileOf
      <4> QED BY <3>1, <4>1
    <3>2. CASE f \in S
      <4>1. PICK s \in 1 .. Len(modules) : f = modules[s].file
        BY <3>2
      <4>2. s \in 0 .. Len(modules) /\ FileOf(s) = modules[s].file
        BY Shapes DEF FileOf
      <4> QED BY <4>1, <4>2
    <3> QED BY <3>1, <3>2
  <2>2. Loaded(imports[f][k])
    BY <1>2, <2>1, NoNames DEF MapInv, BoundSoFar, ImportOf, ImportNumbers
  <2> QED BY <2>2 DEF Loaded, MapInv, AllNamed
<1>3. Needed \subseteq S
  <2> HIDE DEF S
  <2> QED BY <1>1, <1>2, NeededWithin
<1>4. \A s \in 1 .. Len(modules) : Complete(s)
  BY Shapes, NoNames DEF Complete, Named, MapInv, AllNamed, TableInv, LoadingActive
<1> QED BY <1>3, <1>4

\* The slots whose entry points were called, and those the attach loop has still to reach.
Walked(s) == s \in 1 .. cursor \/ \E i \in 1 .. Len(attached) : attached[i] = s

WasAttached(d) == \E i \in 1 .. Len(attached) : modules[attached[i]].file = d

AttachTypes ==
  /\ attached \in Seq(Nat) /\ cursor \in 0 .. Len(modules)
  /\ \A i \in 1 .. Len(attached) : attached[i] \in 1 .. Len(modules)

\* The loop walks down, and is at the slot whose entry point runs.
WalkDown ==
  /\ \A i, j \in 1 .. Len(attached) : i < j => attached[j] < attached[i]
  /\ activity = "attach" => \A i \in 1 .. Len(attached) : cursor < attached[i]
  /\ activity = "dllmain" => /\ cursor > 0 /\ attached # <<>> /\ attached[Len(attached)] = cursor
                             /\ \A i \in 1 .. Len(attached) : cursor <= attached[i]

\* Of two slots on the walk, the higher is not the only importer of the lower.
ImportersBelow ==
  \A s, t \in 1 .. Len(modules) : Walked(s) /\ Walked(t) /\ s < t =>
     ~OnlyImporter(modules[t].file, modules[s].file)

\* What the program needs was attached or is still ahead, complete.
NeededAhead ==
  activity \in {"attach", "dllmain"} =>
     \A d \in Needed \cap EntryDlls :
        WasAttached(d) \/ \E s \in 1 .. cursor : modules[s].file = d /\ Complete(s)

AttachInv == AttachTypes /\ WalkDown /\ ImportersBelow

BaseInv == TableInv /\ StartInv /\ MapInv /\ PhaseInv

LEMMA AttachSteps ==
  ASSUME TableInv, [Next]_vars
  PROVE  /\ imports' = imports
         /\ \/ /\ UNCHANGED <<attached, cursor>>
               /\ activity' \in {"attach", "dllmain"} => activity' = activity
            \/ activity' = "attach" /\ AllocateStack
            \/ initialize_dll
            \/ DllMainEnds
BY DEF Next, LoaderStep, CERuntimeLoadExecutable, ResolveImport, ResolveDependency, MapFails,
       ImportFails, FinishModule, AllocateStack, initialize_dll, DllMainEnds, DllMainFails,
       EnterProgram, CERuntimeRunSlice, SliceEnds, LoadLibraryW, Unwind, vars

\* A step of the loop calls the entry point of the slot it is at or passes on.
LEMMA InitializeShape ==
  ASSUME AttachTypes, initialize_dll
  PROVE  /\ activity = "attach" /\ cursor > 0 /\ UNCHANGED <<imports, modules, stack>>
         /\ \/ /\ activity' = "dllmain" /\ cursor' = cursor
               /\ attached' \in Seq(Nat) /\ Len(attached') = Len(attached) + 1
               /\ \A i \in 1 .. Len(attached) : attached'[i] = attached[i]
               /\ attached'[Len(attached) + 1] = cursor
            \/ /\ ~(Named(cursor) /\ HasEntry(cursor))
               /\ activity' = "attach" /\ cursor' = cursor - 1 /\ attached' = attached
<1>1. CASE Named(cursor) /\ HasEntry(cursor)
  <2>1. attached' = Append(attached, cursor) /\ attached \in Seq(Nat) /\ cursor \in Nat
    BY <1>1 DEF initialize_dll, AttachTypes
  <2>2. /\ attached' \in Seq(Nat) /\ Len(attached') = Len(attached) + 1
        /\ \A i \in 1 .. Len(attached) : attached'[i] = attached[i]
        /\ attached'[Len(attached) + 1] = cursor
    BY <2>1
  <2> QED BY <1>1, <2>2 DEF initialize_dll
<1>2. CASE ~(Named(cursor) /\ HasEntry(cursor))
  BY <1>2 DEF initialize_dll
<1> QED BY <1>1, <1>2

\* Slots join the walk only when it starts.
LEMMA WalkedStep ==
  ASSUME AttachTypes, WalkDown, TableInv, [Next]_vars, NEW s \in Nat, Walked(s)'
  PROVE  Walked(s) \/ (activity' = "attach" /\ AllocateStack)
<1>0. Len(attached) \in Nat /\ cursor \in Nat
  BY Shapes DEF AttachTypes
<1>1. CASE UNCHANGED <<attached, cursor>>
  BY <1>1 DEF Walked
<1>2. CASE initialize_dll
  BY <1>0, <1>2, InitializeShape DEF Walked
<1>3. CASE DllMainEnds
  BY <1>0, <1>3 DEF DllMainEnds, Walked
<1> QED BY <1>1, <1>2, <1>3, AttachSteps

\* Under the program's own mapping a file is imported by a lower slot or by the program, so
\* no higher one is its only importer.
LEMMA ImportersBelowAtFirst ==
  ASSUME TableInv, MapInv, activity = "map",
         NEW s \in 1 .. Len(modules), NEW t \in 1 .. Len(modules), s < t
  PROVE  ~OnlyImporter(modules[t].file, modules[s].file)
<1>1. PICK u \in 0 .. s - 1 : \E k \in ImportNumbers(u) : ImportOf(u, k) = modules[s].file
  BY DEF MapInv, Imported
<1>2. u \in 0 .. Len(modules) /\ u # t
  BY Shapes
<1>3. FileOf(u) \in Files
  BY <1>2, Shapes DEF FileOf, Files
<1>4. FileOf(u) # modules[t].file
  <2>1. CASE u = 0
    BY <2>1, Shapes, NoNames DEF FileOf
  <2>2. CASE u # 0
    BY <1>2, <2>2 DEF FileOf, MapInv, FilesDistinct
  <2> QED BY <2>1, <2>2
<1> QED BY <1>1, <1>3, <1>4 DEF OnlyImporter, ImportNumbers, ImportOf

LEMMA AttachStep ==
  ASSUME BaseInv, AttachInv, [Next]_vars
  PROVE  AttachInv'
<1>1. TableInv /\ StartInv /\ MapInv /\ AttachTypes /\ WalkDown /\ ImportersBelow
  BY DEF BaseInv, AttachInv
<1>2. Grows /\ Len(modules) \in Nat /\ Len(attached) \in Nat /\ cursor \in Nat
  BY <1>1, GrowsStep, Shapes DEF AttachTypes
<1>3. AttachTypes' /\ WalkDown'
  <2>1. CASE /\ UNCHANGED <<attached, cursor>>
             /\ activity' \in {"attach", "dllmain"} => activity' = activity
    <3>1. AttachTypes'
      BY <1>1, <1>2, <2>1 DEF AttachTypes, Grows
    <3>2. WalkDown'
      BY <1>1, <2>1 DEF WalkDown
    <3> QED BY <3>1, <3>2
  <2>2. CASE activity' = "attach" /\ AllocateStack
    <3>1. attached = <<>> /\ attached' = <<>> /\ modules' = modules /\ cursor' = Len(modules)
      BY <1>1, <2>2 DEF AllocateStack, StartInv
    <3>2. Len(attached') = 0 /\ attached' \in Seq(Nat)
      BY <3>1
    <3> QED BY <1>2, <2>2, <3>1, <3>2 DEF AttachTypes, WalkDown
  <2>3. CASE initialize_dll
    <3>1. AttachTypes'
      <4>1. modules' = modules /\ cursor \in 1 .. Len(modules)
            /\ \A i \in 1 .. Len(attached) : attached[i] \in 1 .. Len(modules)
        BY <1>1, <1>2, <2>3, InitializeShape DEF AttachTypes
      <4>2. CASE /\ cursor' = cursor
                 /\ attached' \in Seq(Nat) /\ Len(attached') = Len(attached) + 1
                 /\ \A i \in 1 .. Len(attached) : attached'[i] = attached[i]
                 /\ attached'[Len(attached) + 1] = cursor
        BY <1>2, <4>1, <4>2 DEF AttachTypes
      <4>3. CASE cursor' = cursor - 1 /\ attached' = attached
        BY <1>1, <1>2, <4>1, <4>3 DEF AttachTypes
      <4> QED BY <1>1, <2>3, <4>2, <4>3, InitializeShape
    <3>2. CASE /\ activity' = "dllmain" /\ cursor' = cursor
               /\ attached' \in Seq(Nat) /\ Len(attached') = Len(attached) + 1
               /\ \A i \in 1 .. Len(attached) : attached'[i] = attached[i]
               /\ attached'[Len(attached) + 1] = cursor
      <4>1. \A i \in 1 .. Len(attached) : cursor < attached[i] /\ attached[i] \in Nat
        BY <1>1, <2>3, InitializeShape DEF WalkDown, AttachTypes
      <4>2. \A i, j \in 1 .. Len(attached') : i < j => attached'[j] < attached'[i]
        <5> SUFFICES ASSUME NEW i \in 1 .. Len(attached'), NEW j \in 1 .. Len(attached'), i < j
                     PROVE  attached'[j] < attached'[i]
          OBVIOUS
        <5>1. i \in 1 .. Len(attached) /\ attached'[i] = attached[i]
          BY <1>2, <3>2
        <5>2. CASE j = Len(attached) + 1
          BY <3>2, <4>1, <5>1, <5>2
        <5>3. CASE j \in 1 .. Len(attached)
          <6>1. attached[j] < attached[i]
            BY <1>1, <5>1, <5>3 DEF WalkDown
          <6> QED BY <3>2, <5>1, <5>3, <6>1
        <5> QED BY <1>2, <3>2, <5>2, <5>3
      <4>3. cursor > 0 /\ attached' # <<>>
        BY <1>1, <1>2, <2>3, <3>2, InitializeShape
      <4>4. \A i \in 1 .. Len(attached') : cursor <= attached'[i]
        BY <1>2, <3>2, <4>1
      <4> QED BY <3>1, <3>2, <4>2, <4>3, <4>4 DEF WalkDown
    <3>3. CASE activity' = "attach" /\ cursor' = cursor - 1 /\ attached' = attached
      <4>1. activity = "attach"
        BY <1>1, <2>3, InitializeShape
      <4>2. \A i \in 1 .. Len(attached) : cursor < attached[i] /\ attached[i] \in Nat
        BY <1>1, <4>1 DEF WalkDown, AttachTypes
      <4>3. \A i \in 1 .. Len(attached) : cursor' < attached'[i]
        BY <1>2, <3>3, <4>2
      <4> QED BY <1>1, <3>1, <3>3, <4>3 DEF WalkDown
    <3> QED BY <1>1, <2>3, <3>1, <3>2, <3>3, InitializeShape
  <2>4. CASE DllMainEnds
    <3>1. /\ activity = "dllmain" /\ activity' = "attach" /\ cursor' = cursor - 1
          /\ UNCHANGED <<modules, attached>>
      BY <2>4 DEF DllMainEnds
    <3>2. cursor > 0 /\ \A i \in 1 .. Len(attached) : cursor <= attached[i]
      BY <1>1, <3>1 DEF WalkDown
    <3>3. AttachTypes'
      BY <1>1, <1>2, <3>1, <3>2 DEF AttachTypes
    <3>4. \A i \in 1 .. Len(attached) : attached[i] \in Nat
      BY <1>1 DEF AttachTypes
    <3>5. \A i \in 1 .. Len(attached') : cursor' < attached'[i]
      BY <1>2, <3>1, <3>2, <3>4
    <3> QED BY <1>1, <3>1, <3>3, <3>5 DEF WalkDown
  <2> QED BY <1>1, <2>1, <2>2, <2>3, <2>4, AttachSteps
<1>4. ImportersBelow'
  <2> SUFFICES ASSUME NEW s \in 1 .. Len(modules'), NEW t \in 1 .. Len(modules'),
                      Walked(s)', Walked(t)', s < t
               PROVE  ~OnlyImporter(modules[t].file, modules[s].file)'
    BY DEF ImportersBelow
  <2>1. imports' = imports
    BY <1>1, AttachSteps
  <2>2. CASE activity' = "attach" /\ AllocateStack
    <3>1. activity = "map" /\ modules' = modules
      BY <2>2 DEF AllocateStack
    <3> QED BY <1>1, <2>1, <3>1, ImportersBelowAtFirst DEF OnlyImporter
  <2>3. CASE ~(activity' = "attach" /\ AllocateStack)
    <3>1. s \in Nat /\ t \in Nat
      BY <1>2
    <3>2. Walked(s) /\ Walked(t)
      BY <1>1, <2>3, <3>1, WalkedStep
    <3>3. s \in 1 .. Len(modules) /\ t \in 1 .. Len(modules)
      BY <1>1, <1>2, <3>2 DEF Walked, AttachTypes
    <3>4. ~OnlyImporter(modules[t].file, modules[s].file)
      BY <1>1, <3>2, <3>3 DEF ImportersBelow
    <3>5. modules'[s].file = modules[s].file /\ modules'[t].file = modules[t].file
      BY <1>2, <3>3 DEF Grows
    <3> QED BY <2>1, <3>4, <3>5 DEF OnlyImporter
  <2> QED BY <2>2, <2>3
<1> QED BY <1>3, <1>4 DEF AttachInv

LEMMA BaseAlways == Spec => []BaseInv
<1>1. Init => BaseInv
  BY TableInit DEF BaseInv, Init, StartInv, MapInv, PhaseInv
<1>2. BaseInv /\ [Next]_vars => BaseInv'
  BY TableStep, StartStep, MapStep, PhaseStep DEF BaseInv
<1> QED BY <1>1, <1>2, PTL DEF Spec

\* No entry point runs twice, and that of a DLL with a single importer runs before its
\* importer's, whatever the import graph and whatever entry points load (CERuntime.c 110
\* and 280).
THEOREM EntryPointsInOrder == Spec => []AttachOrder
<1>1. Init => AttachInv
  BY DEF Init, AttachInv, AttachTypes, WalkDown, ImportersBelow
<1>2. BaseInv /\ AttachInv /\ [Next]_vars => AttachInv'
  BY AttachStep
<1>3. AttachInv => AttachOrder
  <2> SUFFICES ASSUME AttachInv, NEW i \in 1 .. Len(attached), NEW j \in 1 .. Len(attached), i < j
               PROVE  /\ attached[i] # attached[j]
                      /\ ~OnlyImporter(modules[attached[i]].file, modules[attached[j]].file)
    BY DEF AttachOrder
  <2>1. attached[j] < attached[i] /\ attached[i] \in 1 .. Len(modules)
        /\ attached[j] \in 1 .. Len(modules)
    BY DEF AttachInv, AttachTypes, WalkDown
  <2>2. Walked(attached[i]) /\ Walked(attached[j])
    BY DEF Walked
  <2>3. attached[i] # attached[j]
    BY <2>1, SMT
  <2>4. ~OnlyImporter(modules[attached[i]].file, modules[attached[j]].file)
    BY <2>1, <2>2 DEF AttachInv, ImportersBelow
  <2> QED BY <2>3, <2>4
<1> QED BY <1>1, <1>2, <1>3, BaseAlways, PTL DEF Spec
-----------------------------------------------------------------------------
\* A slot's entry point, once called, stays that of its file.
LEMMA WasAttachedStep ==
  ASSUME BaseInv, AttachInv, [Next]_vars, NEW d, WasAttached(d)
  PROVE  WasAttached(d)'
<1>1. TableInv /\ AttachTypes
  BY DEF BaseInv, AttachInv
<1>2. PICK i \in 1 .. Len(attached) : modules[attached[i]].file = d
  BY DEF WasAttached
<1>3. Grows /\ attached[i] \in 1 .. Len(modules) /\ Len(attached) \in Nat
  BY <1>1, GrowsStep DEF AttachTypes
<1>4. modules'[attached[i]].file = d
  BY <1>2, <1>3 DEF Grows
<1>5. i \in 1 .. Len(attached') /\ attached'[i] = attached[i]
  <2>1. CASE UNCHANGED attached
    BY <2>1
  <2>2. CASE initialize_dll
    BY <1>1, <1>3, <2>2, InitializeShape
  <2> QED BY <1>1, <2>1, <2>2, AttachSteps DEF AllocateStack, DllMainEnds
<1> QED BY <1>4, <1>5 DEF WasAttached

LEMMA NeededStep ==
  ASSUME BaseInv, AttachInv, NeededAhead, [Next]_vars
  PROVE  NeededAhead'
<1> SUFFICES ASSUME activity' \in {"attach", "dllmain"}, NEW d \in Needed \cap EntryDlls,
                    ~WasAttached(d)'
             PROVE  \E s \in 1 .. cursor' : modules'[s].file = d /\ Complete(s)'
  <2>1. imports' = imports
    BY AttachSteps DEF BaseInv
  <2>2. Needed' = Needed
    BY <2>1 DEF Needed
  <2> QED BY <2>2 DEF NeededAhead
<1>1. TableInv /\ MapInv /\ AttachTypes /\ WalkDown
  BY DEF BaseInv, AttachInv
<1>2. ~WasAttached(d)
  BY WasAttachedStep
<1>3. Grows /\ Len(modules) \in Nat /\ Len(attached) \in Nat /\ cursor \in 0 .. Len(modules)
  BY <1>1, GrowsStep, Shapes DEF AttachTypes
<1>4. CASE activity' = "attach" /\ AllocateStack
  <2>1. activity = "map" /\ stack = <<>> /\ modules' = modules /\ cursor' = Len(modules)
    BY <1>4 DEF AllocateStack
  <2>2. PICK s \in 1 .. Len(modules) : modules[s].file = d /\ Complete(s)
    BY <1>1, <2>1, NeededLoaded
  <2> QED BY <2>1, <2>2 DEF Complete, Named
<1>5. ASSUME activity \in {"attach", "dllmain"}
      PROVE  \E s \in 1 .. cursor : modules[s].file = d /\ Complete(s)
  BY <1>2, <1>5 DEF NeededAhead
<1>6. CASE activity' = activity /\ cursor' = cursor
  <2>1. PICK s \in 1 .. cursor : modules[s].file = d /\ Complete(s)
    BY <1>5, <1>6
  <2> QED BY <1>3, <1>6, <2>1 DEF Grows
<1>7. CASE initialize_dll
  <2>1. activity = "attach" /\ UNCHANGED <<imports, modules, stack>>
    BY <1>1, <1>7, InitializeShape
  <2>2. PICK s \in 1 .. cursor : modules[s].file = d /\ Complete(s)
    BY <1>5, <2>1
  <2>3. Complete(s)'
    BY <2>1, <2>2 DEF Complete, Named
  <2>4. CASE cursor' = cursor
    BY <2>1, <2>2, <2>3, <2>4
  <2>5. CASE ~(Named(cursor) /\ HasEntry(cursor)) /\ cursor' = cursor - 1
    <3>1. s # cursor
      BY <2>2, <2>5 DEF Complete, HasEntry
    <3>2. s \in 1 .. cursor'
      BY <1>3, <2>5, <3>1
    <3> QED BY <2>1, <2>2, <2>3, <3>2
  <2> QED BY <1>1, <1>7, <2>4, <2>5, InitializeShape
<1>8. CASE DllMainEnds
  <2>1. activity = "dllmain" /\ cursor' = cursor - 1 /\ UNCHANGED modules
    BY <1>8 DEF DllMainEnds
  <2>2. PICK s \in 1 .. cursor : modules[s].file = d /\ Complete(s)
    BY <1>5, <2>1
  <2>3. attached # <<>> /\ attached[Len(attached)] = cursor
    BY <1>1, <2>1 DEF WalkDown
  <2>4. Len(attached) \in 1 .. Len(attached)
    BY <1>1, <2>3 DEF AttachTypes
  <2>5. s # cursor
    BY <1>2, <2>2, <2>3, <2>4 DEF WasAttached
  <2>6. s \in 1 .. cursor'
    BY <1>3, <2>1, <2>5
  <2> QED BY <2>1, <2>2, <2>6 DEF Complete, Named
<1> QED BY <1>1, <1>4, <1>6, <1>7, <1>8, AttachSteps

\* The program never starts before the entry point of every DLL it needs was called, though
\* slots are cleared and entry points load more (CERuntime.c 280-289).
THEOREM ProgramStartsLast == Spec => []AttachedBeforeProgram
<1> DEFINE Safe == BaseInv /\ AttachInv /\ NeededAhead /\ AttachedBeforeProgram
<1>1. Init => Safe
  BY TableInit DEF Init, BaseInv, StartInv, MapInv, PhaseInv, AttachInv, AttachTypes, WalkDown,
                   ImportersBelow, NeededAhead, AttachedBeforeProgram
<1>2. Safe /\ [Next]_vars => Safe'
  <2> SUFFICES ASSUME Safe, [Next]_vars PROVE AttachedBeforeProgram'
    BY AttachStep, NeededStep, TableStep, StartStep, MapStep, PhaseStep DEF BaseInv
  <2>1. SUFFICES ASSUME state' \in {"LOADED", "RUNNING"}, NEW d \in Needed \cap EntryDlls
                 PROVE  WasAttached(d)'
    <3>1. imports' = imports
      BY AttachSteps DEF BaseInv
    <3>2. Needed' = Needed
      BY <3>1 DEF Needed
    <3> QED BY <3>2 DEF AttachedBeforeProgram, WasAttached
  <2>2. state \in {"LOADED", "RUNNING"} \/ EnterProgram
    BY <2>1 DEF BaseInv, PhaseInv, Next, LoaderStep, CERuntimeLoadExecutable, ResolveImport,
                ResolveDependency, MapFails, ImportFails, FinishModule, AllocateStack,
                initialize_dll, DllMainEnds, DllMainFails, CERuntimeRunSlice, SliceEnds,
                LoadLibraryW, Unwind, vars
  <2>3. WasAttached(d)
    <3>1. CASE state \in {"LOADED", "RUNNING"}
      BY <3>1 DEF AttachedBeforeProgram, WasAttached
    <3>2. CASE EnterProgram
      BY <3>2 DEF EnterProgram, NeededAhead
    <3> QED BY <2>2, <3>1, <3>2
  <2> QED BY <2>3, WasAttachedStep
<1>3. Safe => AttachedBeforeProgram
  OBVIOUS
<1> QED BY <1>1, <1>2, <1>3, PTL DEF Spec
-----------------------------------------------------------------------------
(***************************************************************************)
(* What is bound.  An activation has bound its imports up to the one it is  *)
(* at, to modules some of which may still be loading; but those are below   *)
(* it on the stack, where every activation is an import of the one under    *)
(* it, so that with no cycle none of them is an import of its own.          *)
(***************************************************************************)

Ranks(rank) ==
  /\ rank \in [Files -> 0 .. MaxModules]
  /\ \A f \in Files : \A i \in 1 .. Len(imports[f]) :
        imports[f][i] # Builtin => rank[imports[f][i]] < rank[f]

StackFile(i) == FileOf(stack[i].slot)

\* The imports before the one an activation is at.
BehindBound ==
  \A i \in 1 .. Len(stack) : \A k \in ImportNumbers(stack[i].slot) :
     k < stack[i].next => ImportOf(stack[i].slot, k) = Builtin \/ Loaded(ImportOf(stack[i].slot, k))

StackDescends ==
  \A rank : Ranks(rank) =>
     \A i, j \in 1 .. Len(stack) : i < j => rank[StackFile(j)] < rank[StackFile(i)]

\* All that the complete module of slot s imports is complete.
CompletelyBound(s) ==
  \A k \in ImportNumbers(s) :
     \/ ImportOf(s, k) = Builtin
     \/ \E t \in 1 .. Len(modules) : Complete(t) /\ modules[t].name = ImportOf(s, k)

CompleteBound ==
  Acyclic => \A s \in 1 .. Len(modules) : Complete(s) => CompletelyBound(s)

BindInv == BehindBound /\ StackDescends /\ CompleteBound

LEMMA AcyclicRanks == Acyclic <=> \E rank : Ranks(rank)
  BY DEF Acyclic, Ranks

\* What a step leaves of the files and of what is loaded, unless a load fails.
LEMMA Kept ==
  ASSUME TableInv, TableInv', Grows, imports' = imports
  PROVE  /\ \A s \in 0 .. Len(modules) : /\ FileOf(s)' = FileOf(s)
                                         /\ ImportNumbers(s)' = ImportNumbers(s)
                                         /\ \A k : ImportOf(s, k)' = ImportOf(s, k)
         /\ \A rank : Ranks(rank)' <=> Ranks(rank)
         /\ Acyclic' <=> Acyclic
         /\ \A s \in 1 .. Len(modules) : CompletelyBound(s) => CompletelyBound(s)'
<1>1. \A s \in 0 .. Len(modules) : FileOf(s)' = FileOf(s)
  BY Shapes DEF Grows, FileOf
<1>2. \A s \in 0 .. Len(modules) : /\ ImportNumbers(s)' = ImportNumbers(s)
                                   /\ \A k : ImportOf(s, k)' = ImportOf(s, k)
  BY <1>1 DEF ImportNumbers, ImportOf
<1>3. \A rank : Ranks(rank)' <=> Ranks(rank)
  BY DEF Ranks
<1>4. Acyclic' <=> Acyclic
  BY DEF Acyclic
<1>5. ASSUME NEW s \in 1 .. Len(modules), CompletelyBound(s) PROVE CompletelyBound(s)'
  <2>1. s \in 0 .. Len(modules)
    BY Shapes
  <2>2. ASSUME NEW t \in 1 .. Len(modules), Complete(t)
        PROVE  t \in 1 .. Len(modules') /\ Complete(t)' /\ modules'[t].name = modules[t].name
    <3>1. t \in 1 .. Len(modules') /\ Complete(t)' /\ modules'[t].file = modules[t].file
      BY <2>2, Shapes DEF Grows
    <3>2. modules[t].name = modules[t].file
      BY <2>2 DEF TableInv, SlotNames, Complete, Named
    <3>3. modules'[t].name = modules'[t].file
      BY <3>1 DEF TableInv, SlotNames, Complete, Named
    <3> QED BY <3>1, <3>2, <3>3
  <2> QED BY <1>2, <1>5, <2>1, <2>2 DEF CompletelyBound
<1> QED BY <1>1, <1>2, <1>3, <1>4, <1>5

LEMMA ImportsKept == ASSUME [Next]_vars PROVE imports' = imports
BY DEF Next, LoaderStep, CERuntimeLoadExecutable, ResolveImport, ResolveDependency, MapFails,
       ImportFails, FinishModule, AllocateStack, initialize_dll, DllMainEnds, DllMainFails,
       EnterProgram, CERuntimeRunSlice, SliceEnds, LoadLibraryW, vars

\* Without cycles what an activation imports is neither its own module nor one further down.
LEMMA FinishedBound ==
  ASSUME TableInv, BehindBound, StackDescends, Acyclic, stack # <<>>, ~Pending,
         NEW k \in ImportNumbers(Top.slot), ImportOf(Top.slot, k) # Builtin
  PROVE  \E t \in 1 .. Len(modules) : Complete(t) /\ modules[t].name = ImportOf(Top.slot, k)
<1>1. /\ Len(stack) \in 1 .. Len(stack) /\ Top = stack[Len(stack)]
      /\ Top.slot \in 0 .. Len(modules) /\ Top.next \in Nat
  BY TopShape
<1>2. FileOf(Top.slot) \in Files
  BY <1>1, Shapes DEF FileOf, Files
<1>3. imports[FileOf(Top.slot)] \in Seq(Dlls \cup {Builtin})
  BY <1>2 DEF TableInv, TableTypes
<1>4. k \in Nat /\ k < Top.next /\ ImportOf(Top.slot, k) \in Dlls
  BY <1>1, <1>3 DEF Pending, ImportNumbers, ImportOf
<1>5. Loaded(ImportOf(Top.slot, k))
  BY <1>1, <1>4 DEF BehindBound
<1>6. PICK t \in 1 .. Len(modules) : modules[t].name = ImportOf(Top.slot, k)
  BY <1>5 DEF Loaded
<1>7. Named(t) /\ modules[t].file = ImportOf(Top.slot, k)
  BY <1>4, <1>6, NoNames DEF Named, TableInv, SlotNames
<1>8. ~modules[t].loading
  <2> SUFFICES ASSUME modules[t].loading PROVE FALSE
    OBVIOUS
  <2>1. PICK i \in 1 .. Len(stack) : stack[i].slot = t
    BY DEF TableInv, LoadingActive
  <2>2. StackFile(i) = ImportOf(Top.slot, k)
    BY <1>7, <2>1, Shapes DEF StackFile, FileOf
  <2>3. PICK rank : Ranks(rank)
    BY AcyclicRanks
  <2>4. rank[StackFile(i)] < rank[FileOf(Top.slot)]
    BY <1>2, <2>2, <2>3 DEF Ranks, ImportNumbers, ImportOf
  <2>5. StackFile(Len(stack)) = FileOf(Top.slot)
    BY <1>1 DEF StackFile
  <2>6. rank[StackFile(i)] \in Nat /\ rank[FileOf(Top.slot)] \in Nat
    <3>1. StackFile(i) \in Files
      BY <1>4, <2>2 DEF Files
    <3> QED BY <1>2, <2>3, <3>1, MaxModulesAssumption DEF Ranks
  <2>7. CASE i = Len(stack)
    BY <2>4, <2>5, <2>6, <2>7
  <2>8. CASE i # Len(stack)
    <3>1. i < Len(stack)
      BY <2>8, Shapes
    <3>2. rank[StackFile(Len(stack))] < rank[StackFile(i)]
      BY <1>1, <2>3, <3>1 DEF StackDescends
    <3> QED BY <2>4, <2>5, <2>6, <3>2
  <2> QED BY <2>7, <2>8
<1> QED BY <1>6, <1>7, <1>8 DEF Complete

LEMMA BindStep ==
  ASSUME TableInv, TableInv', BindInv, [Next]_vars
  PROVE  BindInv'
<1>1. Grows /\ imports' = imports
  BY GrowsStep, ImportsKept
<1>2. BehindBound /\ StackDescends /\ CompleteBound
  BY DEF BindInv
<1>3. Len(modules) \in Nat /\ Len(stack) \in Nat
  BY Shapes
\* A step that only takes activations off the stack, or nothing.
<1>4. ASSUME NEW n \in 0 .. Len(stack), Len(stack') = n,
             \A i \in 1 .. n : stack'[i] = stack[i],
             \A s \in 1 .. Len(modules) : modules'[s].name = modules[s].name
      PROVE  BehindBound' /\ StackDescends'
  <2>1. \A i \in 1 .. n : i \in 1 .. Len(stack) /\ stack[i].slot \in 0 .. Len(modules)
    BY <1>3, Shapes
  <2>2. ASSUME NEW name, Loaded(name) PROVE Loaded(name)'
    BY <1>1, <1>3, <1>4, <2>2 DEF Loaded, Grows
  <2>3. BehindBound'
    <3> SUFFICES ASSUME NEW i \in 1 .. n, NEW k \in ImportNumbers(stack[i].slot)',
                        k < stack[i].next
                 PROVE  \/ ImportOf(stack[i].slot, k)' = Builtin
                        \/ Loaded(ImportOf(stack[i].slot, k))'
      BY <1>4 DEF BehindBound
    <3>1. i \in 1 .. Len(stack) /\ stack[i].slot \in 0 .. Len(modules) /\ stack'[i] = stack[i]
      BY <1>4, <2>1
    <3>2. k \in ImportNumbers(stack[i].slot)
      BY <1>1, <3>1, Kept
    <3>3. ImportOf(stack[i].slot, k) = Builtin \/ Loaded(ImportOf(stack[i].slot, k))
      BY <1>2, <3>1, <3>2 DEF BehindBound
    <3> QED BY <1>1, <2>2, <3>1, <3>3, Kept
  <2>4. StackDescends'
    BY <1>1, <1>2, <1>4, <2>1, Kept DEF StackDescends, StackFile
  <2> QED BY <2>3, <2>4
<1>5. ASSUME \A s \in 1 .. Len(modules') :
                Complete(s)' => s \in 1 .. Len(modules) /\ Complete(s)
      PROVE  CompleteBound'
  BY <1>1, <1>2, <1>5, Kept DEF CompleteBound
<1>6. CASE Still
  <2>1. modules' = modules /\ stack' = stack
    BY <1>6 DEF Still
  <2>2. BehindBound' /\ StackDescends'
    BY <1>3, <1>4, <2>1
  <2>3. CompleteBound'
    BY <1>5, <2>1 DEF Complete, Named
  <2> QED BY <2>2, <2>3 DEF BindInv
<1>7. CASE CERuntimeLoadExecutable
  <2>1. modules' = modules /\ stack' = <<[slot |-> 0, next |-> 1]>>
    BY <1>7 DEF CERuntimeLoadExecutable
  <2>2. Len(stack') = 1 /\ stack'[1].next = 1
    BY <2>1
  <2>3. BehindBound' /\ StackDescends'
    BY <2>2 DEF BehindBound, StackDescends, ImportNumbers
  <2>4. CompleteBound'
    BY <1>5, <2>1 DEF Complete, Named
  <2> QED BY <2>3, <2>4 DEF BindInv
<1>8. CASE Pending /\ ResolveImport
  <2>1. NextImport /\ modules' = modules /\ (Import = Builtin \/ Loaded(Import))
    BY <1>8 DEF ResolveImport
  <2>2. /\ Len(stack') = Len(stack)
        /\ \A i \in 1 .. Len(stack) :
              /\ stack'[i].slot = stack[i].slot
              /\ stack'[i].next = IF i = Len(stack) THEN Top.next + 1 ELSE stack[i].next
    BY <1>8, <2>1, NextShape
  <2>3. Top = stack[Len(stack)] /\ Top.next \in Nat
    BY <1>8, ImportType, TopShape
  <2>4. BehindBound'
    <3> SUFFICES ASSUME NEW i \in 1 .. Len(stack), NEW k \in ImportNumbers(stack[i].slot),
                        k < stack'[i].next
                 PROVE  ImportOf(stack[i].slot, k) = Builtin \/ Loaded(ImportOf(stack[i].slot, k))
      <4>1. ASSUME NEW i \in 1 .. Len(stack), NEW k \in ImportNumbers(stack[i].slot)'
            PROVE  /\ k \in ImportNumbers(stack[i].slot)
                   /\ ImportOf(stack[i].slot, k)' = ImportOf(stack[i].slot, k)
        BY <1>1, <2>1, <2>2 DEF ImportNumbers, ImportOf, FileOf
      <4>2. \A name : Loaded(name) => Loaded(name)'
        BY <2>1 DEF Loaded
      <4> QED BY <2>2, <4>1, <4>2 DEF BehindBound
    <3>1. CASE k < stack[i].next
      BY <1>2, <3>1 DEF BehindBound
    <3>2. CASE i = Len(stack) /\ k = Top.next
      BY <2>1, <2>3, <3>2 DEF Import, ImportOf
    <3>3. k \in Nat /\ stack[i].next \in Nat
      BY Shapes DEF ImportNumbers
    <3> QED BY <2>2, <2>3, <3>1, <3>2, <3>3
  <2>5. StackDescends'
    BY <1>1, <1>2, <2>1, <2>2 DEF StackDescends, StackFile, FileOf, Ranks
  <2>6. CompleteBound'
    BY <1>5, <2>1 DEF Complete, Named
  <2> QED BY <2>4, <2>5, <2>6 DEF BindInv
<1>9. ASSUME NEW name \in Dlls, Enter(name), ResolveDependency \/ LoadLibraryW(name)
      PROVE  BindInv'
  <2>1. Entered(name)
    BY <1>9, EnterShape
  <2>2. stack = <<>> \/ (Pending /\ name = Import /\ name # Builtin)
    <3>1. CASE LoadLibraryW(name)
      BY <3>1 DEF LoadLibraryW
    <3>2. CASE ResolveDependency
      <4>1. Pending /\ Import \in Dlls /\ Enter(Import)
        BY <3>2, ImportType DEF ResolveDependency
      <4>2. Entered(Import)
        BY <4>1, EnterShape
      <4>3. name = Import
        BY <2>1, <4>2 DEF Entered
      <4> QED BY <4>1, <4>3, NoNames
    <3> QED BY <1>9, <3>1, <3>2
  <2>3. \A n : Loaded(n) => Loaded(n)'
    BY <1>3, <2>1 DEF Loaded, Entered
  <2>4. \A i \in 1 .. Len(stack) :
          stack[i].slot \in 0 .. Len(modules) /\ StackFile(i)' = StackFile(i)
    BY <1>1, <2>1, Shapes, Kept DEF StackFile, Entered
  <2>5. BehindBound'
    <3> SUFFICES ASSUME NEW i \in 1 .. Len(stack'), NEW k \in ImportNumbers(stack[i].slot)',
                        k < stack'[i].next
                 PROVE  \/ ImportOf(stack[i].slot, k)' = Builtin
                        \/ Loaded(ImportOf(stack[i].slot, k))'
      BY DEF BehindBound
    <3>1. CASE i = Len(stack) + 1
      <4>1. stack'[i].next = 1 /\ 1 <= k /\ k \in Nat
        BY <2>1, <3>1 DEF Entered, ImportNumbers
      <4> QED BY <4>1
    <3>2. CASE i \in 1 .. Len(stack)
      <4>1. stack'[i] = stack[i] /\ stack[i].slot \in 0 .. Len(modules)
        BY <2>1, <2>4, <3>2 DEF Entered
      <4>2. k \in ImportNumbers(stack[i].slot) /\ k < stack[i].next
        BY <1>1, <4>1, Kept
      <4>3. ImportOf(stack[i].slot, k) = Builtin \/ Loaded(ImportOf(stack[i].slot, k))
        BY <1>2, <3>2, <4>2 DEF BehindBound
      <4> QED BY <1>1, <2>3, <4>1, <4>3, Kept
    <3> QED BY <1>3, <2>1, <3>1, <3>2 DEF Entered
  <2>6. StackDescends'
    <3> SUFFICES ASSUME NEW rank, Ranks(rank),
                        NEW i \in 1 .. Len(stack'), NEW j \in 1 .. Len(stack'), i < j
                 PROVE  rank[StackFile(j)'] < rank[StackFile(i)']
      BY <1>1, Kept DEF StackDescends
    <3>1. i \in 1 .. Len(stack) /\ StackFile(i)' = StackFile(i)
      BY <1>3, <2>1, <2>4 DEF Entered
    <3>2. CASE j \in 1 .. Len(stack)
      BY <1>2, <2>4, <3>1, <3>2 DEF StackDescends
    <3>3. CASE j = Len(stack) + 1
      <4>1. StackFile(j)' = name
        BY <1>3, <2>1, <3>3 DEF StackFile, FileOf, Entered
      <4>2. Pending /\ name = Import /\ name # Builtin
        BY <2>2, <3>1
      <4>3. /\ Len(stack) \in 1 .. Len(stack) /\ Top = stack[Len(stack)]
            /\ Top.next \in Nat \ {0} /\ FileOf(Top.slot) \in Files
        BY <4>2, ImportType, TopShape
      <4>4. rank[name] < rank[StackFile(Len(stack))]
        BY <4>2, <4>3 DEF Pending, Import, Ranks, StackFile
      <4>5. i = Len(stack) \/ rank[StackFile(Len(stack))] < rank[StackFile(i)]
        BY <1>2, <1>3, <3>1, <4>3 DEF StackDescends
      <4>6. rank[name] \in Nat /\ rank[StackFile(i)] \in Nat /\ rank[StackFile(Len(stack))] \in Nat
        <5>1. name \in Files /\ StackFile(i) \in Files /\ StackFile(Len(stack)) \in Files
          BY <3>1, <4>3, Shapes DEF Files, StackFile, FileOf
        <5> QED BY <5>1, MaxModulesAssumption DEF Ranks
      <4> QED BY <3>1, <4>1, <4>4, <4>5, <4>6
    <3> QED BY <1>3, <2>1, <3>2, <3>3 DEF Entered
  <2>7. CompleteBound'
    BY <1>3, <1>5, <2>1 DEF Complete, Named, Entered
  <2> QED BY <2>5, <2>6, <2>7 DEF BindInv
<1>10. CASE Unwind
  <2>1. stack' = <<>> /\ Len(stack') = 0
    BY <1>10, UnwindShape
  <2>2. BehindBound' /\ StackDescends'
    BY <2>1 DEF BehindBound, StackDescends
  <2>3. CompleteBound'
    BY <1>5, <1>10, UnwindShape DEF Complete, Named
  <2> QED BY <2>2, <2>3 DEF BindInv
<1>11. CASE FinishModule
  <2>1. /\ Len(modules') = Len(modules)
        /\ \A s \in 1 .. Len(modules) :
              /\ modules'[s].name = modules[s].name
              /\ modules'[s].loading <=> modules[s].loading /\ s # Top.slot
        /\ Len(stack') = Len(stack) - 1
        /\ \A i \in 1 .. Len(stack) - 1 : stack'[i] = stack[i]
    BY <1>11, FinishShape
  <2>2. stack # <<>> /\ ~Pending /\ Len(stack) - 1 \in 0 .. Len(stack)
    BY <1>3, <1>11, TopShape DEF FinishModule
  <2>3. BehindBound' /\ StackDescends'
    BY <1>4, <2>1, <2>2
  <2>4. CompleteBound'
    <3> SUFFICES ASSUME Acyclic, NEW s \in 1 .. Len(modules), Complete(s)'
                 PROVE  CompletelyBound(s)
      BY <1>1, <2>1, Kept DEF CompleteBound
    <3>1. CASE Complete(s)
      BY <1>2, <3>1 DEF CompleteBound
    <3>2. CASE s = Top.slot
      BY <1>2, <2>2, <3>2, FinishedBound DEF CompletelyBound
    <3> QED BY <2>1, <3>1, <3>2 DEF Complete, Named
  <2> QED BY <2>3, <2>4 DEF BindInv
<1> QED BY <1>6, <1>7, <1>8, <1>9, <1>10, <1>11, StepShape

\* Without import cycles all that a complete module imports is loaded, whatever loads failed
\* before: a failed load takes with it every module that needed what is missing
\* (CERuntime.c 112-115).
THEOREM LoadedIsBound == Spec => []BoundUnlessCyclic
<1>1. Init => BindInv
  BY DEF Init, BindInv, BehindBound, StackDescends, CompleteBound
<1>2. TableInv /\ TableInv' /\ BindInv /\ [Next]_vars => BindInv'
  BY BindStep
<1>3. TableInv /\ BindInv => BoundUnlessCyclic
  <2> SUFFICES ASSUME TableInv, BindInv, Acyclic, NEW s \in 1 .. Len(modules), Complete(s)
               PROVE  Bound(s)
    BY DEF BoundUnlessCyclic, Complete
  <2>1. CompletelyBound(s)
    BY DEF BindInv, CompleteBound
  <2>2. FileOf(s) = modules[s].file
    BY Shapes DEF FileOf
  <2> QED BY <2>1, <2>2 DEF CompletelyBound, Bound, ImportNumbers, ImportOf, Loaded
<1> QED BY <1>1, <1>2, <1>3, TableAlways, PTL DEF Spec
-----------------------------------------------------------------------------
\* What the loader computes from the tables of an image (CEPELoader).

\* The least member of a set of numbers, and of two.
LEMMA MinIs ==
  ASSUME NEW S, S \subseteq Int, NEW a \in S, \A b \in S : a <= b
  PROVE  Min(S) = a
<1> DEFINE Smallest(c) == \A b \in S : c =< b
<1>1. \E c \in S : Smallest(c)
  OBVIOUS
<1>2. Min(S) = (CHOOSE c \in S : Smallest(c))
  BY Zenon DEF Min
<1>3. Min(S) \in S /\ Smallest(Min(S))
  <2> HIDE DEF Smallest
  <2> QED
    BY <1>1, <1>2, Zenon
<1>4. Min(S) \in Int /\ Min(S) >= a /\ Min(S) <= a
  BY <1>3
<1> QED
  BY <1>4

LEMMA LeastOfTwo ==
  ASSUME NEW a \in Int, NEW b \in Int
  PROVE  Min({a, b}) = IF a <= b THEN a ELSE b
<1>1. CASE a <= b
  <2>1. {a, b} \subseteq Int /\ a \in {a, b} /\ \A c \in {a, b} : a <= c
    BY <1>1
  <2>2. Min({a, b}) = a
    BY <2>1, MinIs
  <2> QED
    BY <1>1, <2>2
<1>2. CASE a > b
  <2>1. {a, b} \subseteq Int /\ b \in {a, b} /\ \A c \in {a, b} : b <= c
    BY <1>2
  <2>2. Min({a, b}) = b
    BY <2>1, MinIs
  <2> QED
    BY <1>2, <2>2
<1> QED
  BY <1>1, <1>2

\* What the tables are made of.
ATable == [base : Nat, functions : Seq(Nat), names : Seq(STRING \X Nat), forwarded : SUBSET Nat]

\* A name has the address of the function its first entry leads to.
LEMMA NameIs ==
  ASSUME NEW table, NEW base, NEW symbol, NEW n,
         {i \in 1 .. Len(table.names) : table.names[i][1] = symbol} # {},
         Min({i \in 1 .. Len(table.names) : table.names[i][1] = symbol}) = n
  PROVE  LookupName(table, base, symbol) = FunctionAddress(table, base, NamedIndex(table, n))
BY DEF LookupName

LEMMA NameIsFirst ==
  ASSUME NEW table \in ATable, NEW base \in Nat, NEW n \in 1 .. Len(table.names), NEW symbol,
         table.names[n][1] = symbol, \A j \in 1 .. n - 1 : table.names[j][1] # symbol
  PROVE  LookupName(table, base, symbol) = FunctionAddress(table, base, table.names[n][2])
<1> DEFINE found == {i \in 1 .. Len(table.names) : table.names[i][1] = symbol}
<1>1. Len(table.names) \in Nat
  <2>1. table.names \in Seq(STRING \X Nat)
    BY DEF ATable
  <2> QED
    BY <2>1, LenProperties
<1>2. n \in found
  OBVIOUS
<1>3. Min(found) = n
  <2>1. found \subseteq Int
    BY <1>1
  <2>2. \A b \in found : n <= b
    BY <1>1
  <2> HIDE DEF found
  <2> QED
    BY <1>2, <2>1, <2>2, MinIs
<1>4. found # {}
  BY <1>2
<1>5. LookupName(table, base, symbol) = FunctionAddress(table, base, NamedIndex(table, n))
  BY <1>3, <1>4, NameIs
<1> QED
  BY <1>5 DEF NamedIndex

\* An ordinal is an index above the base of the table.
LEMMA OrdinalIsIndex ==
  ASSUME NEW table, table.base \in Nat, NEW base \in Nat, NEW index \in Nat
  PROVE  LookupOrdinal(table, base, table.base + index) = FunctionAddress(table, base, index)
<1>1. ~(table.base + index < table.base) /\ table.base + index - table.base = index
  OBVIOUS
<1> DEFINE ordinal == table.base + index
<1>2. LookupOrdinal(table, base, ordinal) = IF ordinal < table.base THEN <<"NOT_FOUND", 0>>
                                            ELSE FunctionAddress(table, base, ordinal - table.base)
  BY DEF LookupOrdinal
<1> HIDE DEF ordinal
<1>3. ~(ordinal < table.base) /\ ordinal - table.base = index
  BY <1>1 DEF ordinal
<1>4. LookupOrdinal(table, base, ordinal) = FunctionAddress(table, base, index)
  BY <1>2, <1>3, Zenon
<1> QED
  BY <1>4 DEF ordinal

\* Both ways to an exported function lead to the same address.
LEMMA NamesAreOrdinals == NamesAgreeWithOrdinals
<1> SUFFICES ASSUME NEW table \in ATable, NEW base \in Nat, NEW i \in 1 .. Len(table.names),
                    \A j \in 1 .. i - 1 : table.names[j][1] # table.names[i][1]
             PROVE  LookupName(table, base, table.names[i][1]) =
                    LookupOrdinal(table, base, table.base + table.names[i][2])
  BY BasesAssumption, ExportsAssumption DEF NamesAgreeWithOrdinals, ATable
<1>1. table.base \in Nat /\ table.names[i][2] \in Nat
  <2>1. table.names \in Seq(STRING \X Nat) /\ table.base \in Nat
    BY DEF ATable
  <2>2. table.names[i] \in STRING \X Nat
    BY <2>1, LenProperties
  <2> QED
    BY <2>1, <2>2
<1> DEFINE symbol == table.names[i][1]
           index == table.names[i][2]
<1>2. LookupName(table, base, symbol) = FunctionAddress(table, base, index)
  BY NameIsFirst
<1>3. LookupOrdinal(table, base, table.base + index) = FunctionAddress(table, base, index)
  <2> HIDE DEF index
  <2> QED
    BY <1>1, OrdinalIsIndex DEF index
<1> QED
  BY <1>2, <1>3
-----------------------------------------------------------------------------
\* Strings.
\* The blocks of the first texts: each one is the one before it with one more text.
Stored(texts, n) ==
  {units \in [0 .. n -> Seq(Nat)] :
     /\ units[0] = <<>>
     /\ \A k \in 1 .. n : units[k] = WithText(units[k - 1], texts[k])}

LEMMA UnitsAre ==
  ASSUME NEW n \in Nat, NEW texts \in [1 .. n -> Seq(Nat)], NEW i \in 0 .. n
  PROVE  \E units \in Stored(texts, i) : UnitsOf(texts, i) = units[i]
<1> DEFINE S == Seq(Nat)
           Longer(units, k) == WithText(units, texts[k])
           step == [k \in 1 .. i |-> [units \in S |-> Longer(units, k)]]
           Solves(f) == f = [k \in 0 .. i |-> IF k = 0 THEN <<>>
                                              ELSE WithText(f[k - 1], texts[k])]
<1>1. i \in Nat /\ <<>> \in S
  BY EmptySeq
<1>2. ASSUME NEW k \in 1 .. i, NEW units \in S
      PROVE  Longer(units, k) \in S
  <2>1. texts[k] \in Seq(Nat)
    OBVIOUS
  <2>2. <<Len(texts[k])>> \in Seq(Nat)
    BY <2>1, LenProperties
  <2> QED
    BY <2>1, <2>2, ConcatProperties DEF WithText
<1>3. step \in [1 .. i -> [S -> S]]
  BY <1>2
<1>4. PICK g \in [0 .. i -> S] : g[0] = <<>> /\ \A k \in 1 .. i : g[k] = step[k][g[k - 1]]
  <2> HIDE DEF step, S
  <2>1. Turns(S, <<>>, step, i) # {}
    BY <1>1, <1>3, Iterated
  <2> QED
    BY <2>1 DEF Turns
<1>5. \A k \in 1 .. i : g[k] = Longer(g[k - 1], k)
  <2>1. ASSUME NEW k \in 1 .. i
        PROVE  g[k] = Longer(g[k - 1], k)
    <3>1. g[k - 1] \in S
      <4> HIDE DEF S
      <4> QED
        BY <1>1, <1>4
    <3> HIDE DEF S
    <3> QED
      BY <1>4, <3>1
  <2> QED
    BY <2>1
<1>6. \E f : Solves(f)
  <2> HIDE DEF S
  <2>1. g = [k \in 0 .. i |-> g[k]]
    BY <1>4
  <2>2. \A k \in 0 .. i : g[k] = IF k = 0 THEN <<>>
                                 ELSE WithText(g[k - 1], texts[k])
    BY <1>1, <1>4, <1>5
  <2>3. Solves(g)
    BY <2>1, <2>2
  <2> QED
    BY <2>3
<1> DEFINE f == CHOOSE h : Solves(h)
<1>7. Solves(f)
  <2> HIDE DEF Solves
  <2> QED
    BY <1>6, Zenon
<1>8. UnitsOf(texts, i) = f[i]
  BY Zenon DEF UnitsOf
<1> HIDE DEF f
<1>9. /\ f[0] = <<>>
      /\ \A k \in 1 .. i : f[k] = WithText(f[k - 1], texts[k])
  <2>1. 0 \in 0 .. i /\ \A k \in 1 .. i : k \in 0 .. i /\ k # 0
    BY <1>1
  <2> QED
    BY <1>7, <2>1
<1>10. f \in [0 .. i -> S]
  <2> DEFINE Good == {k \in 0 .. i : f[k] \in S}
  <2>1. 0 \in Good
    <3>1. 0 \in 0 .. i /\ f[0] \in S
      <4> HIDE DEF S
      <4> QED
        BY <1>1, <1>9
    <3> QED
      BY <3>1
  <2>2. ASSUME NEW k \in 0 .. i - 1, k \in Good
        PROVE  k + 1 \in Good
    <3>1. k + 1 \in 1 .. i /\ k + 1 \in 0 .. i /\ k + 1 - 1 = k
      BY <1>1
    <3>2. f[k + 1] = Longer(f[k], k + 1)
      BY <1>9, <3>1
    <3> QED
      BY <1>2, <2>2, <3>1, <3>2
  <2> HIDE DEF Good
  <2>3. 0 .. i \subseteq Good
    BY <1>1, <2>1, <2>2, UpToBound
  <2> HIDE DEF S
  <2> QED
    BY <1>7, <2>3 DEF Good
<1>11. f \in Stored(texts, i)
  BY <1>9, <1>10 DEF Stored
<1> QED
  BY <1>8, <1>11

\* Two sequences in a row.
LEMMA Joined ==
  ASSUME NEW a \in Seq(Nat), NEW b \in Seq(Nat)
  PROVE  /\ a \o b \in Seq(Nat)
         /\ Len(a) \in Nat /\ Len(b) \in Nat
         /\ Len(a \o b) = Len(a) + Len(b)
         /\ \A j \in 1 .. Len(a) : (a \o b)[j] = a[j]
         /\ \A j \in 1 .. Len(b) : (a \o b)[Len(a) + j] = b[j]
<1>1. Len(a) \in Nat /\ Len(b) \in Nat
  BY LenProperties
<1>2. /\ a \o b \in Seq(Nat)
      /\ Len(a \o b) = Len(a) + Len(b)
      /\ \A j \in 1 .. Len(a) + Len(b) : (a \o b)[j] = IF j <= Len(a) THEN a[j] ELSE b[j - Len(a)]
  BY ConcatProperties
<1>3. \A j \in 1 .. Len(a) : (a \o b)[j] = a[j]
  BY <1>1, <1>2
<1>4. ASSUME NEW j \in 1 .. Len(b)
      PROVE  (a \o b)[Len(a) + j] = b[j]
  <2>1. /\ Len(a) + j \in 1 .. Len(a) + Len(b) /\ ~(Len(a) + j <= Len(a))
        /\ Len(a) + j - Len(a) = j
    BY <1>1
  <2> QED
    BY <1>2, <2>1
<1> QED
  BY <1>1, <1>2, <1>3, <1>4

\* What one text more does to a block.
LEMMA OneTextMore ==
  ASSUME NEW units \in Seq(Nat), NEW text \in Seq(Nat)
  PROVE  /\ WithText(units, text) \in Seq(Nat)
         /\ Len(units) \in Nat /\ Len(text) \in Nat
         /\ Len(WithText(units, text)) = Len(units) + 1 + Len(text)
         /\ \A j \in 1 .. Len(units) : WithText(units, text)[j] = units[j]
         /\ WithText(units, text)[Len(units) + 1] = Len(text)
         /\ \A j \in 1 .. Len(text) : WithText(units, text)[Len(units) + 1 + j] = text[j]
<1> DEFINE one == <<Len(text)>>
           first == units \o one
           longer == first \o text
<1>1. Len(text) \in Nat /\ Len(units) \in Nat
  BY LenProperties
<1>2. one \in Seq(Nat) /\ Len(one) = 1 /\ one[1] = Len(text)
  BY <1>1
<1>3. WithText(units, text) = longer
  BY DEF WithText
<1> HIDE DEF one
<1>4. /\ first \in Seq(Nat)
      /\ Len(first) = Len(units) + Len(one)
      /\ \A j \in 1 .. Len(units) : first[j] = units[j]
      /\ \A j \in 1 .. Len(one) : first[Len(units) + j] = one[j]
  BY <1>2, Joined
<1>5. Len(first) = Len(units) + 1
  BY <1>1, <1>2, <1>4
<1>6. first[Len(units) + 1] = Len(text)
  <2>1. 1 \in 1 .. Len(one)
    BY <1>2
  <2> QED
    BY <1>2, <1>4, <2>1
<1> HIDE DEF first
<1>7. /\ longer \in Seq(Nat)
      /\ Len(longer) = Len(first) + Len(text)
      /\ \A j \in 1 .. Len(first) : longer[j] = first[j]
      /\ \A j \in 1 .. Len(text) : longer[Len(first) + j] = text[j]
  BY <1>4, Joined
<1> HIDE DEF longer
<1>8. ASSUME NEW j \in 1 .. Len(units)
      PROVE  longer[j] = units[j]
  <2>1. j \in 1 .. Len(first)
    BY <1>1, <1>5
  <2> QED
    BY <1>4, <1>7, <2>1
<1>9. longer[Len(units) + 1] = Len(text)
  <2>1. Len(units) + 1 \in 1 .. Len(first)
    BY <1>1, <1>5
  <2> QED
    BY <1>6, <1>7, <2>1
<1>10. Len(longer) = Len(units) + 1 + Len(text)
  BY <1>5, <1>7
<1>11. \A j \in 1 .. Len(text) : longer[Len(units) + 1 + j] = text[j]
  BY <1>5, <1>7
<1> QED
  BY <1>1, <1>3, <1>7, <1>8, <1>9, <1>10, <1>11

\* Two listings of the blocks agree, since every one is determined by the one before it.
LEMMA StoredAgree ==
  ASSUME NEW texts, NEW n \in Nat, NEW m \in Nat, NEW u \in Stored(texts, n),
         NEW v \in Stored(texts, m), NEW k \in 0 .. n, k <= m
  PROVE  u[k] = v[k]
<1> DEFINE Good == {i \in 0 .. k : u[i] = v[i]}
<1>1. 0 \in Good
  BY DEF Stored
<1>2. ASSUME NEW i \in 0 .. k - 1, i \in Good
      PROVE  i + 1 \in Good
  <2>1. i + 1 \in 1 .. n /\ i + 1 \in 1 .. m /\ i + 1 - 1 = i /\ i + 1 \in 0 .. k
    OBVIOUS
  <2>2. u[i + 1] = WithText(u[i], texts[i + 1]) /\ v[i + 1] = WithText(v[i], texts[i + 1])
    BY <2>1 DEF Stored
  <2> QED
    BY <1>2, <2>1, <2>2
<1> HIDE DEF Good
<1>3. 0 .. k \subseteq Good
  BY <1>1, <1>2, UpToBound
<1> QED
  BY <1>3 DEF Good

LEMMA UnitsGrow ==
  ASSUME NEW n \in Nat, NEW texts \in [1 .. n -> Seq(Nat)]
  PROVE  /\ UnitsOf(texts, 0) = <<>>
         /\ \A k \in 0 .. n : UnitsOf(texts, k) \in Seq(Nat)
         /\ \A k \in 1 .. n : UnitsOf(texts, k) = WithText(UnitsOf(texts, k - 1), texts[k])
<1>1. PICK u \in Stored(texts, n) : UnitsOf(texts, n) = u[n]
  <2>1. n \in 0 .. n
    OBVIOUS
  <2> QED
    BY <2>1, UnitsAre
<1>2. ASSUME NEW k \in 0 .. n
      PROVE  UnitsOf(texts, k) = u[k]
  <2>1. PICK v \in Stored(texts, k) : UnitsOf(texts, k) = v[k]
    BY UnitsAre
  <2>2. u[k] = v[k]
    <3>1. k \in Nat /\ k <= k
      OBVIOUS
    <3> QED
      BY <3>1, StoredAgree
  <2> QED
    BY <2>1, <2>2
<1>3. /\ u \in [0 .. n -> Seq(Nat)] /\ u[0] = <<>>
      /\ \A k \in 1 .. n : u[k] = WithText(u[k - 1], texts[k])
  BY DEF Stored
<1>4. 0 \in 0 .. n /\ \A k \in 1 .. n : k \in 0 .. n /\ k - 1 \in 0 .. n
  OBVIOUS
<1>5. UnitsOf(texts, 0) = <<>>
  BY <1>2, <1>3, <1>4
<1>6. \A k \in 0 .. n : UnitsOf(texts, k) \in Seq(Nat)
  BY <1>2, <1>3
<1>7. \A k \in 1 .. n : UnitsOf(texts, k) = WithText(UnitsOf(texts, k - 1), texts[k])
  BY <1>2, <1>3, <1>4
<1> QED
  BY <1>5, <1>6, <1>7

\* Where a text ends, and that it stays where it is when others follow.
LEMMA UnitsStay ==
  ASSUME NEW n \in Nat, NEW texts \in [1 .. n -> Seq(Nat)], NEW k \in 1 .. n
  PROVE  LET units == UnitsOf(texts, n)
             e == Len(UnitsOf(texts, k - 1))
         IN  /\ e \in Nat /\ Len(texts[k]) \in Nat /\ Len(units) \in Nat
             /\ Len(UnitsOf(texts, k)) = e + 1 + Len(texts[k])
             /\ e + 1 + Len(texts[k]) <= Len(units)
             /\ units[e + 1] = Len(texts[k])
             /\ \A j \in 1 .. Len(texts[k]) : units[e + 1 + j] = texts[k][j]
<1> DEFINE U(i) == UnitsOf(texts, i)
           t == texts[k]
           e == Len(U(k - 1))
           d == Len(U(k))
           Good == {i \in 0 .. n : i >= k => /\ d <= Len(U(i))
                                             /\ \A j \in 1 .. d : U(i)[j] = U(k)[j]}
<1>1. /\ \A i \in 0 .. n : U(i) \in Seq(Nat) /\ Len(U(i)) \in Nat
      /\ \A i \in 1 .. n : U(i) = WithText(U(i - 1), texts[i])
  <2>1. \A i \in 0 .. n : U(i) \in Seq(Nat)
    BY UnitsGrow
  <2>2. \A i \in 0 .. n : Len(U(i)) \in Nat
    BY <2>1, LenProperties
  <2> QED
    BY <2>1, <2>2, UnitsGrow
<1> HIDE DEF U
<1>2. k - 1 \in 0 .. n /\ k \in 0 .. n /\ t \in Seq(Nat) /\ Len(t) \in Nat
  <2>1. t \in Seq(Nat)
    OBVIOUS
  <2> QED
    BY <2>1, LenProperties
<1>3. /\ d = e + 1 + Len(t)
      /\ U(k)[e + 1] = Len(t)
      /\ \A j \in 1 .. Len(t) : U(k)[e + 1 + j] = t[j]
  <2> DEFINE before == U(k - 1)
             now == U(k)
  <2>1. before \in Seq(Nat) /\ now = WithText(before, t)
    BY <1>1, <1>2
  <2> HIDE DEF t, before, now, d, e, Good
  <2>2. /\ Len(now) = Len(before) + 1 + Len(t)
        /\ now[Len(before) + 1] = Len(t)
        /\ \A j \in 1 .. Len(t) : now[Len(before) + 1 + j] = t[j]
    BY <1>2, <2>1, OneTextMore
  <2> QED
    BY <2>2 DEF before, now, d, e
<1>4. e \in Nat /\ d \in Nat
  BY <1>1, <1>2
<1> HIDE DEF d, e, t
<1>5. 0 \in Good
  OBVIOUS
<1>6. ASSUME NEW i \in 0 .. n - 1, i \in Good
      PROVE  i + 1 \in Good
  <2>1. i \in 0 .. n /\ i + 1 \in 0 .. n /\ i + 1 \in 1 .. n /\ i + 1 - 1 = i
    OBVIOUS
  <2>2. CASE i + 1 = k
    <3>1. d <= Len(U(i + 1))
      BY <1>4, <2>2 DEF d
    <3>2. \A j \in 1 .. d : U(i + 1)[j] = U(k)[j]
      BY <2>2
    <3> QED
      BY <2>1, <3>1, <3>2
  <2>3. CASE i + 1 < k
    BY <2>1, <2>3
  <2>4. CASE i + 1 > k
    <3> DEFINE before == U(i)
               now == U(i + 1)
               text == texts[i + 1]
    <3>1. d <= Len(before) /\ \A j \in 1 .. d : before[j] = U(k)[j]
      BY <1>6, <2>4
    <3>2. now = WithText(before, text) /\ before \in Seq(Nat) /\ text \in Seq(Nat)
      BY <1>1, <2>1
    <3> HIDE DEF before, now, text, Good
    <3>3. /\ Len(now) = Len(before) + 1 + Len(text)
          /\ \A j \in 1 .. Len(before) : now[j] = before[j]
      BY <3>2, OneTextMore
    <3>4. Len(before) \in Nat /\ Len(text) \in Nat
      BY <3>2, LenProperties
    <3>5. d <= Len(now)
      BY <1>4, <3>1, <3>3, <3>4
    <3>6. \A j \in 1 .. d : now[j] = U(k)[j]
      <4>1. \A j \in 1 .. d : j \in 1 .. Len(before)
        BY <1>4, <3>1, <3>4
      <4> QED
        BY <3>1, <3>3, <4>1
    <3> QED
      BY <2>1, <3>5, <3>6 DEF now, Good
  <2> QED
    BY <2>1, <2>2, <2>3, <2>4
<1> HIDE DEF Good
<1>7. 0 .. n \subseteq Good
  BY <1>5, <1>6, UpToBound
<1>8. d <= Len(U(n)) /\ \A j \in 1 .. d : U(n)[j] = U(k)[j]
  <2>1. n \in Good /\ n >= k
    BY <1>7
  <2> QED
    BY <2>1 DEF Good
<1>9. U(n)[e + 1] = Len(t)
  <2>1. e + 1 \in 1 .. d
    BY <1>2, <1>3, <1>4
  <2> QED
    BY <1>3, <1>8, <2>1
<1>10. ASSUME NEW j \in 1 .. Len(t)
       PROVE  U(n)[e + 1 + j] = t[j]
  <2>1. e + 1 + j \in 1 .. d
    BY <1>2, <1>3, <1>4
  <2> QED
    BY <1>3, <1>8, <2>1
<1>11. Len(U(n)) \in Nat
  BY <1>1
<1> QED
  BY <1>2, <1>3, <1>4, <1>8, <1>9, <1>10, <1>11 DEF U, e, d, t

\* Where each string starts: behind the ones before it, unless these do not end in time.
StartIs(texts, size, k) ==
  IF Len(UnitsOf(texts, k)) <= size THEN Len(UnitsOf(texts, k)) + 1 ELSE 0

LEMMA StartsAre ==
  ASSUME NEW n \in Nat, NEW texts \in [1 .. n -> Seq(Nat)], NEW size \in Nat,
         NEW i \in Nat, i < n
  PROVE  StringStarts(UnitsOf(texts, n), size, i) = StartIs(texts, size, i)
<1> DEFINE units == UnitsOf(texts, n)
           Next1(at) == IF at = 0 \/ at + units[at] > size THEN 0 ELSE at + units[at] + 1
           Solves(f) == f = [k \in 0 .. i |->
                               IF k = 0 THEN 1
                               ELSE IF f[k - 1] = 0 \/ f[k - 1] + units[f[k - 1]] > size THEN 0
                               ELSE f[k - 1] + units[f[k - 1]] + 1]
           c == [k \in 0 .. i |-> StartIs(texts, size, k)]
<1>1. StartIs(texts, size, 0) = 1
  <2>1. UnitsOf(texts, 0) = <<>>
    BY UnitsGrow
  <2>2. Len(UnitsOf(texts, 0)) = 0
    BY <2>1
  <2> QED
    BY <2>2 DEF StartIs
<1>2. ASSUME NEW k \in 1 .. i
      PROVE  StartIs(texts, size, k) = Next1(StartIs(texts, size, k - 1))
  <2> DEFINE e == Len(UnitsOf(texts, k - 1))
             d == Len(UnitsOf(texts, k))
             l == Len(texts[k])
  <2>1. k \in 1 .. n
    OBVIOUS
  <2>2. /\ e \in Nat /\ l \in Nat
        /\ d = e + 1 + l
        /\ units[e + 1] = l
    BY <2>1, UnitsStay
  <2>3. /\ StartIs(texts, size, k - 1) = IF e <= size THEN e + 1 ELSE 0
        /\ StartIs(texts, size, k) = IF d <= size THEN d + 1 ELSE 0
    BY DEF StartIs
  <2> HIDE DEF e, d, l, units
  <2>4. CASE e > size
    BY <2>2, <2>3, <2>4
  <2>5. CASE e <= size
    <3>1. StartIs(texts, size, k - 1) = e + 1 /\ e + 1 # 0
      BY <2>2, <2>3, <2>5
    <3>2. Next1(e + 1) = IF e + 1 + l > size THEN 0 ELSE e + 1 + l + 1
      BY <2>2
    <3>3. StartIs(texts, size, k) = IF e + 1 + l > size THEN 0 ELSE e + 1 + l + 1
      BY <2>2, <2>3
    <3> HIDE DEF Next1
    <3> QED
      BY <3>1, <3>2, <3>3
  <2> QED
    BY <2>2, <2>4, <2>5
<1> HIDE DEF units
<1>3. \A k \in 0 .. i : k # 0 => k \in 1 .. i /\ k - 1 \in 0 .. i
  OBVIOUS
<1>4. Solves(c)
  <2>1. ASSUME NEW k \in 0 .. i
        PROVE  c[k] = IF k = 0 THEN 1
                      ELSE IF c[k - 1] = 0 \/ c[k - 1] + units[c[k - 1]] > size THEN 0
                      ELSE c[k - 1] + units[c[k - 1]] + 1
    <3>1. CASE k = 0
      BY <1>1, <3>1
    <3>2. CASE k # 0
      <4>1. k \in 1 .. i /\ k - 1 \in 0 .. i
        BY <1>3, <3>2
      <4>2. c[k] = Next1(c[k - 1])
        <5>1. c[k] = StartIs(texts, size, k) /\ c[k - 1] = StartIs(texts, size, k - 1)
          BY <4>1
        <5> HIDE DEF c, Next1
        <5> QED
          BY <1>2, <4>1, <5>1
      <4> HIDE DEF c
      <4> QED
        BY <3>2, <4>2
    <3> QED
      BY <3>1, <3>2
  <2>2. c = [k \in 0 .. i |-> c[k]]
    OBVIOUS
  <2> HIDE DEF c
  <2> QED
    BY <2>1, <2>2
<1>5. \E f : Solves(f)
  <2> HIDE DEF Solves
  <2> QED
    BY <1>4
<1> DEFINE f == CHOOSE h : Solves(h)
<1>6. Solves(f)
  <2> HIDE DEF Solves
  <2> QED
    BY <1>5, Zenon
<1>7. StringStarts(units, size, i) = f[i]
  BY Zenon DEF StringStarts
<1> HIDE DEF f
<1>8. /\ f[0] = 1
      /\ \A k \in 1 .. i : f[k] = Next1(f[k - 1])
  <2>1. 0 \in 0 .. i /\ \A k \in 1 .. i : k \in 0 .. i /\ k # 0
    OBVIOUS
  <2> QED
    BY <1>6, <2>1
<1> HIDE DEF Next1, Solves
<1> DEFINE Good == {k \in 0 .. i : f[k] = StartIs(texts, size, k)}
<1>9. 0 \in Good
  BY <1>1, <1>8
<1>10. ASSUME NEW k \in 0 .. i - 1, k \in Good
       PROVE  k + 1 \in Good
  <2>1. k + 1 \in 1 .. i /\ k + 1 \in 0 .. i /\ k + 1 - 1 = k
    OBVIOUS
  <2>2. f[k + 1] = Next1(f[k]) /\ StartIs(texts, size, k + 1) = Next1(StartIs(texts, size, k))
    BY <1>2, <1>8, <2>1
  <2> QED
    BY <1>10, <2>1, <2>2
<1> HIDE DEF Good
<1>11. 0 .. i \subseteq Good
  BY <1>9, <1>10, UpToBound
<1>12. f[i] = StartIs(texts, size, i)
  <2>1. i \in Good
    BY <1>11
  <2> QED
    BY <2>1 DEF Good
<1> QED
  BY <1>7, <1>12 DEF units

\* The place of an identifier in its block.
LEMMA SelectedIs ==
  ASSUME NEW identifier \in Nat
  PROVE  /\ Selected(identifier) \in 0 .. BlockStrings - 1
         /\ identifier - (BlockOf(identifier) - 1) * BlockStrings + 1 = Selected(identifier) + 1
<1> DEFINE q == identifier \div BlockStrings
           r == identifier % BlockStrings
<1>1. q \in Nat /\ r \in 0 .. BlockStrings - 1 /\ identifier = BlockStrings * q + r
  BY BlockStringsAssumption, Division
<1>2. BlockStrings \in Nat
  BY BlockStringsAssumption
<1>3. BlockOf(identifier) - 1 = q /\ Selected(identifier) = r
  <2>1. BlockOf(identifier) = q + 1
    BY DEF BlockOf
  <2>2. Selected(identifier) = r
    BY DEF Selected
  <2> HIDE DEF q, r
  <2> QED
    BY <1>1, <2>1, <2>2
<1> HIDE DEF q, r
<1>4. q * BlockStrings = BlockStrings * q /\ BlockStrings * q \in Nat
  BY <1>1, <1>2
<1>5. identifier - q * BlockStrings + 1 = r + 1
  BY <1>1, <1>4
<1> QED
  BY <1>1, <1>3, <1>5

\* A text that stands somewhere in a block, and the part of it that is read there.
LEMMA PartRead ==
  ASSUME NEW units \in Seq(Nat), NEW text \in Seq(Nat), NEW e \in Nat, NEW m \in Nat,
         m <= Len(text), \A j \in 1 .. Len(text) : units[e + 1 + j] = text[j]
  PROVE  SubSeq(units, e + 1 + 1, e + 1 + m) = SubSeq(text, 1, m)
<1> DEFINE a == SubSeq(units, e + 1 + 1, e + 1 + m)
           b == SubSeq(text, 1, m)
<1>1. Len(text) \in Nat /\ \A j \in 1 .. Len(text) : text[j] \in Nat
  BY LenProperties
<1>2. \A j \in 1 .. m : text[j] \in Nat /\ units[e + 1 + j] = text[j]
  BY <1>1
<1>3. \A j \in e + 1 + 1 .. e + 1 + m : units[j] \in Nat
  <2>1. ASSUME NEW j \in e + 1 + 1 .. e + 1 + m
        PROVE  units[j] \in Nat
    <3>1. j - (e + 1) \in 1 .. m /\ e + 1 + (j - (e + 1)) = j
      OBVIOUS
    <3> QED
      BY <1>2, <3>1
  <2> QED
    BY <2>1
<1>4. /\ a \in Seq(Nat)
      /\ Len(a) = IF e + 1 + 1 <= e + 1 + m THEN e + 1 + m - (e + 1 + 1) + 1 ELSE 0
      /\ \A j \in 1 .. e + 1 + m - (e + 1 + 1) + 1 : a[j] = units[e + 1 + 1 + j - 1]
  <2>1. e + 1 + 1 \in Int /\ e + 1 + m \in Int
    OBVIOUS
  <2> QED
    BY <1>3, <2>1, SubSeqProperties
<1>5. /\ b \in Seq(Nat)
      /\ Len(b) = IF 1 <= m THEN m - 1 + 1 ELSE 0
      /\ \A j \in 1 .. m - 1 + 1 : b[j] = text[1 + j - 1]
  <2>1. 1 \in Int /\ m \in Int
    OBVIOUS
  <2> QED
    BY <1>2, <2>1, SubSeqProperties
<1> HIDE DEF a, b
<1>6. Len(a) = m /\ Len(b) = m
  BY <1>4, <1>5
<1>7. ASSUME NEW j \in 1 .. m
      PROVE  a[j] = b[j]
  <2>1. a[j] = units[e + 1 + j]
    <3>1. j \in 1 .. e + 1 + m - (e + 1 + 1) + 1 /\ e + 1 + 1 + j - 1 = e + 1 + j
      OBVIOUS
    <3> QED
      BY <1>4, <3>1
  <2>2. b[j] = text[j]
    <3>1. j \in 1 .. m - 1 + 1 /\ 1 + j - 1 = j
      OBVIOUS
    <3> QED
      BY <1>5, <3>1
  <2> QED
    BY <1>2, <2>1, <2>2
<1>8. a = b
  BY <1>4, <1>5, <1>6, <1>7, SeqEqual
<1> QED
  BY <1>8 DEF a, b

\* One string, by the identifier it was stored under.
LEMMA StringFound ==
  ASSUME NEW texts \in [1 .. BlockStrings -> Seq(Nat)], NEW identifier \in Nat, NEW size \in Nat
  PROVE  LET units == UnitsOf(texts, BlockStrings)
             place == identifier - (BlockOf(identifier) - 1) * BlockStrings + 1
             text == texts[place]
         IN  LookupString(units, size, identifier) =
               IF Len(UnitsOf(texts, place)) > size THEN <<"BAD_FORMAT", <<>>>>
               ELSE IF text = <<>> THEN <<"NOT_FOUND", <<>>>>
               ELSE <<"OK", SubSeq(text, 1, Min({Len(text), Capacity - 1}))>>
<1> DEFINE units == UnitsOf(texts, BlockStrings)
           i == Selected(identifier)
           text == texts[i + 1]
           e == Len(UnitsOf(texts, i))
           d == Len(UnitsOf(texts, i + 1))
           at == StringStarts(units, size, i)
           m == Min({Len(text), Capacity - 1})
<1>1. BlockStrings \in Nat /\ i \in 0 .. BlockStrings - 1 /\ i \in Nat /\ i < BlockStrings
  <2>1. i \in 0 .. BlockStrings - 1
    BY SelectedIs, Zenon
  <2> HIDE DEF i
  <2> QED
    BY <2>1, BlockStringsAssumption
<1>2. i + 1 \in 1 .. BlockStrings /\ i + 1 - 1 = i
  BY <1>1
<1>3. /\ e \in Nat /\ Len(text) \in Nat
      /\ d = e + 1 + Len(text)
      /\ units[e + 1] = Len(text)
      /\ \A j \in 1 .. Len(text) : units[e + 1 + j] = text[j]
  <2> DEFINE k == i + 1
  <2>1. BlockStrings \in Nat /\ k \in 1 .. BlockStrings /\ k - 1 = i /\ texts[k] = text
    BY <1>1, <1>2
  <2> HIDE DEF k, text
  <2>2. /\ Len(UnitsOf(texts, k - 1)) \in Nat /\ Len(texts[k]) \in Nat
        /\ Len(UnitsOf(texts, k)) = Len(UnitsOf(texts, k - 1)) + 1 + Len(texts[k])
        /\ units[Len(UnitsOf(texts, k - 1)) + 1] = Len(texts[k])
        /\ \A j \in 1 .. Len(texts[k]) : units[Len(UnitsOf(texts, k - 1)) + 1 + j] = texts[k][j]
    BY <2>1, UnitsStay
  <2> HIDE DEF units
  <2>3. /\ e \in Nat /\ Len(text) \in Nat
        /\ Len(UnitsOf(texts, k)) = e + 1 + Len(text)
        /\ units[e + 1] = Len(text)
        /\ \A j \in 1 .. Len(text) : units[e + 1 + j] = text[j]
    <3> HIDE DEF i
    <3> QED
      BY <2>1, <2>2
  <2> QED
    BY <2>3 DEF k
<1>4. at = IF e <= size THEN e + 1 ELSE 0
  <2>1. at = StartIs(texts, size, i)
    BY <1>1, StartsAre
  <2> QED
    BY <2>1 DEF StartIs
<1>5. LookupString(units, size, identifier) =
        IF at = 0 \/ at + units[at] > size THEN <<"BAD_FORMAT", <<>>>>
        ELSE IF units[at] = 0 THEN <<"NOT_FOUND", <<>>>>
        ELSE <<"OK", SubSeq(units, at + 1, at + Min({units[at], Capacity - 1}))>>
  BY Zenon DEF LookupString
<1>6. units \in Seq(Nat) /\ text \in Seq(Nat)
  <2>1. BlockStrings \in 0 .. BlockStrings
    BY <1>1
  <2> QED
    BY <1>1, <1>2, <2>1, UnitsGrow
<1>7. m \in Nat /\ m <= Len(text)
  <2> DEFINE l == Len(text)
             c == Capacity - 1
  <2>1. l \in Nat /\ c \in Nat
    BY <1>3, CapacityAssumption
  <2> HIDE DEF l, c
  <2>2. Min({l, c}) = IF l <= c THEN l ELSE c
    BY <2>1, LeastOfTwo
  <2>3. Min({l, c}) \in Nat /\ Min({l, c}) <= l
    BY <2>1, <2>2
  <2> QED
    BY <2>3 DEF l, c
<1>8. Len(text) = 0 <=> text = <<>>
  BY <1>6, EmptySeq
<1> HIDE DEF units, i, text, e, d, at
<1>9. CASE d > size
  <2>1. at = 0 \/ at + units[at] > size
    <3>1. CASE e <= size
      <4>1. at = e + 1
        BY <1>4, <3>1
      <4>2. at + units[at] = d
        BY <1>3, <4>1
      <4> QED
        BY <1>9, <4>2
    <3>2. CASE ~(e <= size)
      BY <1>4, <3>2
    <3> QED
      BY <3>1, <3>2
  <2> QED
    BY <1>5, <1>9, <2>1, SelectedIs, Zenon DEF units, i, text, d
<1>10. CASE ~(d > size)
  <2>1. at = e + 1 /\ at # 0
    BY <1>3, <1>4, <1>10
  <2>2. units[at] = Len(text)
    BY <1>3, <2>1
  <2>3. ~(at + units[at] > size)
    <3>1. at + units[at] = d
      BY <1>3, <2>1, <2>2
    <3> QED
      BY <1>10, <3>1
  <2>4. LookupString(units, size, identifier) =
          IF Len(text) = 0 THEN <<"NOT_FOUND", <<>>>>
          ELSE <<"OK", SubSeq(units, at + 1, at + m)>>
    BY <1>5, <2>1, <2>2, <2>3, Zenon
  <2>5. SubSeq(units, at + 1, at + m) = SubSeq(text, 1, m)
    <3>1. SubSeq(units, e + 1 + 1, e + 1 + m) = SubSeq(text, 1, m)
      <4> HIDE DEF m
      <4> QED
        BY <1>3, <1>6, <1>7, PartRead
    <3> QED
      BY <2>1, <3>1, Zenon
  <2>6. LookupString(units, size, identifier) =
          IF text = <<>> THEN <<"NOT_FOUND", <<>>>> ELSE <<"OK", SubSeq(text, 1, m)>>
    BY <1>8, <2>4, <2>5, Zenon
  <2> QED
    BY <1>10, <2>6, SelectedIs, Zenon DEF units, i, text, d
<1> QED
  BY <1>9, <1>10

LEMMA AllStringsFound == StringsFound
<1> SUFFICES ASSUME NEW texts \in [1 .. BlockStrings -> TriedTexts],
                    NEW identifier \in 0 .. 2 * BlockStrings - 1,
                    NEW size \in 0 .. Len(UnitsOf(texts, BlockStrings))
             PROVE  LET units == UnitsOf(texts, BlockStrings)
                        place == identifier - (BlockOf(identifier) - 1) * BlockStrings + 1
                        text == texts[place]
                    IN  LookupString(units, size, identifier) =
                          IF Len(UnitsOf(texts, place)) > size THEN <<"BAD_FORMAT", <<>>>>
                          ELSE IF text = <<>> THEN <<"NOT_FOUND", <<>>>>
                          ELSE <<"OK", SubSeq(text, 1, Min({Len(text), Capacity - 1}))>>
  BY Zenon DEF StringsFound
<1>1. texts \in [1 .. BlockStrings -> Seq(Nat)]
  BY TriedTextsAssumption
<1>2. identifier \in Nat /\ size \in Nat
  BY BlockStringsAssumption
<1> QED
  BY <1>1, <1>2, StringFound

\* Names, ordinals and identifiers find what they stand for, for every export table, every
\* block of strings and every size of the data and of the buffer (CEPELoader.c 173-256).
THEOREM LookupsAreRight == Spec => []LookupsRight
<1>1. LookupsRight
  BY NamesAreOrdinals, AllStringsFound DEF LookupsRight
<1> QED
  BY <1>1, PTL

-----------------------------------------------------------------------------
\* Relocations.
ABlock == [page : Nat, size : Nat, items : Seq(Nat \X Nat)]

\* A word that was linked for one base and is moved by the distance to another.
LEMMA Moved ==
  ASSUME NEW from \in Nat, NEW to \in Nat, NEW x \in Nat
  PROVE  (((from + x) % Space) + (to - from)) % Space = (to + x) % Space
<1>1. Space \in Nat \ {0}
  BY SpaceAssumption
<1> DEFINE a == from + x
           z == to + x
           q == a \div Space
           r == a % Space
           p == z \div Space
           t == z % Space
<1>2. a \in Nat /\ z \in Nat
  OBVIOUS
<1> HIDE DEF a, z
<1>3. q \in Nat /\ r \in 0 .. Space - 1 /\ a = Space * q + r
  BY <1>1, <1>2, Division
<1>4. p \in Nat /\ t \in 0 .. Space - 1 /\ z = Space * p + t
  BY <1>1, <1>2, Division
<1> HIDE DEF q, r, p, t
<1>5. r + (to - from) = Space * (p - q) + t
  <2>1. Space * (p - q) = Space * p - Space * q
    BY <1>1, <1>3, <1>4
  <2>2. Space * p \in Int /\ Space * q \in Int
    BY <1>1, <1>3, <1>4
  <2>3. z - a = to - from
    BY DEF a, z
  <2> QED
    BY <1>2, <1>3, <1>4, <2>1, <2>2, <2>3
<1>6. (r + (to - from)) % Space = t
  <2>1. r + (to - from) \in Int /\ p - q \in Int
    BY <1>3, <1>4
  <2> QED
    BY <1>1, <1>4, <1>5, <2>1, RemainderIs
<1> QED
  BY <1>6 DEF r, t, a, z

\* The places of the pointers in a table.
LEMMA ItemsAre ==
  ASSUME NEW blocks, NEW b, NEW i
  PROVE  <<b, i>> \in Items(blocks) <=>
           /\ b \in 1 .. Len(blocks) /\ i \in 1 .. Len(blocks[b].items)
           /\ blocks[b].items[i][1] # 0
<1>1. <<b, i>> \in UNION {{c} \X (1 .. Len(blocks[c].items)) : c \in 1 .. Len(blocks)} <=>
        b \in 1 .. Len(blocks) /\ i \in 1 .. Len(blocks[b].items)
  OBVIOUS
<1>2. <<b, i>>[1] = b /\ <<b, i>>[2] = i
  OBVIOUS
<1> QED
  BY <1>1, <1>2 DEF Items

LEMMA ItemIsPair ==
  ASSUME NEW blocks, NEW p \in Items(blocks)
  PROVE  p = <<p[1], p[2]>>
<1>1. PICK b \in 1 .. Len(blocks) : p \in {b} \X (1 .. Len(blocks[b].items))
  BY DEF Items
<1> QED
  BY <1>1

\* The targets of the items in front of the i-th of block b, with it.
Done(blocks, b, i) ==
  {Target(blocks, p) : p \in {q \in Items(blocks) : q[1] < b \/ (q[1] = b /\ q[2] <= i)}}

\* An image in which some of the pointers have been moved.
Mixed(from, to, pointers, done) ==
  [o \in 0 .. ImageSize - 1 |-> IF o \in done THEN Linked(to, pointers)[o]
                                ELSE Linked(from, pointers)[o]]

Reached(from, to, blocks, done, read) ==
  [words |-> Mixed(from, to, Pointers(blocks), done), cursor |-> read, status |-> "OK"]

\* An item that fills up a block adds no target, and any other its own.
LEMMA DoneGrows ==
  ASSUME NEW blocks \in Seq(ABlock), NEW b \in 1 .. Len(blocks),
         NEW i \in 1 .. Len(blocks[b].items)
  PROVE  Done(blocks, b, i) =
           IF blocks[b].items[i][1] = 0 THEN Done(blocks, b, i - 1)
           ELSE Done(blocks, b, i - 1) \cup {Target(blocks, <<b, i>>)}
<1> DEFINE Before(j) == {q \in Items(blocks) : q[1] < b \/ (q[1] = b /\ q[2] <= j)}
<1>1. \A q \in Items(blocks) : q[1] \in Nat /\ q[2] \in Nat /\ q = <<q[1], q[2]>>
  <2>1. ASSUME NEW q \in Items(blocks)
        PROVE  q[1] \in Nat /\ q[2] \in Nat /\ q = <<q[1], q[2]>>
    <3>1. q = <<q[1], q[2]>>
      BY ItemIsPair
    <3>2. q[1] \in 1 .. Len(blocks) /\ q[2] \in 1 .. Len(blocks[q[1]].items)
      BY <3>1, ItemsAre
    <3>3. Len(blocks) \in Nat
      BY LenProperties
    <3>4. Len(blocks[q[1]].items) \in Nat
      <4>1. blocks[q[1]] \in ABlock
        BY <3>2
      <4>2. blocks[q[1]].items \in Seq(Nat \X Nat)
        BY <4>1 DEF ABlock
      <4> QED
        BY <4>2, LenProperties
    <3> QED
      BY <3>1, <3>2, <3>3, <3>4
  <2> QED
    BY <2>1
<1>2. i \in Nat
  <2>1. blocks[b] \in ABlock
    OBVIOUS
  <2>2. blocks[b].items \in Seq(Nat \X Nat)
    BY <2>1 DEF ABlock
  <2> QED
    BY <2>2, LenProperties
<1>3. <<b, i>> \in Items(blocks) <=> blocks[b].items[i][1] # 0
  BY ItemsAre
<1>4. Before(i) = Before(i - 1) \cup {q \in Items(blocks) : q = <<b, i>>}
  <2>1. ASSUME NEW q \in Items(blocks)
        PROVE  q \in Before(i) <=> q \in Before(i - 1) \/ q = <<b, i>>
    <3>1. q[1] \in Nat /\ q[2] \in Nat /\ q = <<q[1], q[2]>>
      BY <1>1
    <3>2. q = <<b, i>> <=> q[1] = b /\ q[2] = i
      BY <3>1
    <3>3. q[2] <= i <=> q[2] <= i - 1 \/ q[2] = i
      BY <1>2, <3>1
    <3> QED
      BY <3>2, <3>3
  <2> QED
    BY <2>1
<1>5. \A j : Done(blocks, b, j) = {Target(blocks, p) : p \in Before(j)}
  BY DEF Done
<1> HIDE DEF Before
<1>6. CASE blocks[b].items[i][1] = 0
  <2>1. Before(i) = Before(i - 1)
    BY <1>3, <1>4, <1>6
  <2> QED
    BY <1>5, <1>6, <2>1
<1>7. CASE blocks[b].items[i][1] # 0
  <2>1. Before(i) = Before(i - 1) \cup {<<b, i>>}
    BY <1>3, <1>4, <1>7
  <2>2. {Target(blocks, p) : p \in Before(i)} =
          {Target(blocks, p) : p \in Before(i - 1)} \cup {Target(blocks, <<b, i>>)}
    BY <2>1
  <2> QED
    BY <1>5, <1>7, <2>2
<1> QED
  BY <1>6, <1>7

\* One item of a table that is written as it should be.
LEMMA ItemMoves ==
  ASSUME NEW blocks \in Seq(ABlock), Proper(blocks), NEW from \in Nat, NEW to \in Nat,
         NEW b \in 1 .. Len(blocks), NEW i \in 1 .. Len(blocks[b].items), NEW read
  PROVE  Relocated(Reached(from, to, blocks, Done(blocks, b, i - 1), read), to - from,
                   blocks[b].page, blocks[b].items[i])
           = Reached(from, to, blocks, Done(blocks, b, i), read)
<1> DEFINE before == Done(blocks, b, i - 1)
           now == Done(blocks, b, i)
           item == blocks[b].items[i]
           page == blocks[b].page
           all == Pointers(blocks)
           at == Reached(from, to, blocks, before, read)
           o == Target(blocks, <<b, i>>)
<1>1. at.status = "OK" /\ at.words = Mixed(from, to, all, before) /\ at.cursor = read
  BY DEF Reached
<1>2. CASE item[1] = 0
  <2>1. now = before
    BY <1>2, DoneGrows
  <2>2. Relocated(at, to - from, page, item) = at
    BY <1>2 DEF Relocated, IsFiller
  <2> QED
    BY <2>1, <2>2
<1>3. CASE item[1] # 0
  <2>1. <<b, i>> \in Items(blocks)
    BY <1>3, ItemsAre
  <2>2. now = before \cup {o}
    BY <1>3, DoneGrows
  <2>3. o \notin before
    <3> SUFFICES ASSUME o \in before
                 PROVE  FALSE
      OBVIOUS
    <3>1. PICK p \in Items(blocks) : /\ o = Target(blocks, p)
                                     /\ p[1] < b \/ (p[1] = b /\ p[2] <= i - 1)
      BY DEF Done
    <3>2. p = <<b, i>>
      BY <2>1, <3>1 DEF Proper
    <3>3. p[1] = b /\ p[2] = i
      BY <3>2
    <3>4. i \in Nat /\ b \in Nat
      <4>1. blocks[b] \in ABlock
        OBVIOUS
      <4>2. blocks[b].items \in Seq(Nat \X Nat)
        BY <4>1 DEF ABlock
      <4> QED
        BY <4>2, LenProperties
    <3> QED
      BY <3>1, <3>3, <3>4
  <2>4. item[1] = 3 /\ o \in 0 .. ImageSize - 1 /\ o \in all
    <3>1. <<b, i>>[1] = b /\ <<b, i>>[2] = i
      OBVIOUS
    <3> QED
      BY <2>1, <3>1 DEF Proper, Pointers
  <2>5. o = page + item[2]
    <3>1. <<b, i>>[1] = b /\ <<b, i>>[2] = i
      OBVIOUS
    <3> QED
      BY <3>1 DEF Target
  <2>6. Relocated(at, to - from, page, item) =
          [at EXCEPT !.words[o] = (@ + (to - from)) % Space]
    <3>1. o \in DOMAIN at.words
      BY <1>1, <2>4 DEF Mixed
    <3> HIDE DEF at, o, item, page
    <3> QED
      BY <1>1, <1>3, <2>4, <2>5, <3>1, Zenon DEF Relocated, IsFiller
  <2>7. [at.words EXCEPT ![o] = (@ + (to - from)) % Space] = Mixed(from, to, all, now)
    <3> DEFINE w == Mixed(from, to, all, before)
               v == Mixed(from, to, all, now)
               x == (o + 1) % ImageSize
    <3>1. x \in Nat
      <4> DEFINE z == o + 1
      <4> HIDE DEF o
      <4>1. z \in Nat
        BY <2>4
      <4> HIDE DEF z
      <4>2. z % ImageSize \in 0 .. ImageSize - 1
        BY <4>1, ImageSizeAssumption, Division
      <4>3. \A y \in 0 .. ImageSize - 1 : y \in Nat
        BY ImageSizeAssumption
      <4>4. z % ImageSize \in Nat
        BY <4>2, <4>3, Zenon
      <4> QED
        BY <4>4 DEF z
    <3>2. w[o] = (from + x) % Space
      BY <2>3, <2>4 DEF Mixed, Linked
    <3>3. v[o] = (to + x) % Space
      BY <2>2, <2>4 DEF Mixed, Linked
    <3>4. (w[o] + (to - from)) % Space = v[o]
      <4> HIDE DEF w, v, x
      <4>1. (((from + x) % Space) + (to - from)) % Space = (to + x) % Space
        BY <3>1, Moved
      <4> QED
        BY <3>2, <3>3, <4>1
    <3>5. \A a \in 0 .. ImageSize - 1 : a # o => w[a] = v[a]
      BY <2>2 DEF Mixed
    <3>6. /\ w = [a \in 0 .. ImageSize - 1 |-> w[a]]
          /\ v = [a \in 0 .. ImageSize - 1 |-> v[a]]
      BY DEF Mixed
    <3> HIDE DEF w, v, o
    <3>7. [w EXCEPT ![o] = (@ + (to - from)) % Space] = v
      BY <2>4, <3>4, <3>5, <3>6
    <3> QED
      BY <1>1, <3>7 DEF w, v
  <2>8. at = [words |-> at.words, cursor |-> read, status |-> "OK"]
    BY DEF Reached
  <2> HIDE DEF o, item, page, all, before, now
  <2>9. [at EXCEPT !.words[o] = (@ + (to - from)) % Space] =
          [words |-> [at.words EXCEPT ![o] = (@ + (to - from)) % Space],
           cursor |-> read, status |-> "OK"]
    <3> HIDE DEF at
    <3> QED
      BY <2>8
  <2>10. Reached(from, to, blocks, now, read) =
           [words |-> Mixed(from, to, all, now), cursor |-> read, status |-> "OK"]
    BY DEF Reached, all
  <2> HIDE DEF at
  <2>11. Relocated(at, to - from, page, item) = Reached(from, to, blocks, now, read)
    BY <2>6, <2>7, <2>9, <2>10, Zenon
  <2> QED
    BY <2>11 DEF at, item, page, before, now
<1> QED
  BY <1>2, <1>3

\* The items of a block, one after another.
LEMMA ItemsMove ==
  ASSUME NEW blocks \in Seq(ABlock), Proper(blocks), NEW from \in Nat, NEW to \in Nat,
         NEW b \in 1 .. Len(blocks), NEW read
  PROVE  RelocatedItems(Reached(from, to, blocks, Done(blocks, b, 0), read), to - from,
                        blocks[b], Len(blocks[b].items))
           = Reached(from, to, blocks, Done(blocks, b, Len(blocks[b].items)), read)
<1> DEFINE n == Len(blocks[b].items)
           block == blocks[b]
           delta == to - from
           R(k) == Reached(from, to, blocks, Done(blocks, b, k), read)
           Solves(f) == f = [k \in 0 .. n |->
                               IF k = 0 THEN R(0)
                               ELSE Relocated(f[k - 1], delta, block.page, block.items[k])]
           c == [k \in 0 .. n |-> R(k)]
<1>1. n \in Nat
  <2>1. blocks[b] \in ABlock
    OBVIOUS
  <2>2. blocks[b].items \in Seq(Nat \X Nat)
    BY <2>1 DEF ABlock
  <2> QED
    BY <2>2, LenProperties
<1>2. ASSUME NEW k \in 1 .. n
      PROVE  R(k) = Relocated(R(k - 1), delta, block.page, block.items[k])
  BY ItemMoves
<1>3. RelocatedItems(R(0), delta, block, n) = (CHOOSE f : Solves(f))[n]
  BY Zenon DEF RelocatedItems
<1> HIDE DEF n, block, delta, R
<1>4. \A k \in 0 .. n : k # 0 => k \in 1 .. n /\ k - 1 \in 0 .. n
  BY <1>1
<1>5. Solves(c)
  <2>1. ASSUME NEW k \in 0 .. n
        PROVE  c[k] = IF k = 0 THEN R(0)
                      ELSE Relocated(c[k - 1], delta, block.page, block.items[k])
    <3>1. CASE k = 0
      BY <3>1
    <3>2. CASE k # 0
      <4>1. k \in 1 .. n /\ k - 1 \in 0 .. n
        BY <1>4, <3>2
      <4>2. c[k] = R(k) /\ c[k - 1] = R(k - 1)
        BY <4>1
      <4> HIDE DEF c
      <4> QED
        BY <1>2, <3>2, <4>1, <4>2
    <3> QED
      BY <3>1, <3>2
  <2>2. c = [k \in 0 .. n |-> c[k]]
    OBVIOUS
  <2> HIDE DEF c
  <2> QED
    BY <2>1, <2>2
<1> DEFINE f == CHOOSE h : Solves(h)
<1>6. Solves(f)
  <2> HIDE DEF Solves
  <2> QED
    BY <1>5, Zenon
<1> HIDE DEF f
<1>7. /\ f[0] = R(0)
      /\ \A k \in 1 .. n : f[k] = Relocated(f[k - 1], delta, block.page, block.items[k])
  <2>1. 0 \in 0 .. n /\ \A k \in 1 .. n : k \in 0 .. n /\ k # 0
    BY <1>1
  <2> QED
    BY <1>6, <2>1
<1> DEFINE Good == {k \in 0 .. n : f[k] = R(k)}
<1>8. 0 \in Good
  BY <1>1, <1>7
<1>9. ASSUME NEW k \in 0 .. n - 1, k \in Good
      PROVE  k + 1 \in Good
  <2>1. k + 1 \in 1 .. n /\ k + 1 \in 0 .. n /\ k + 1 - 1 = k
    BY <1>1
  <2>2. /\ f[k + 1] = Relocated(f[k], delta, block.page, block.items[k + 1])
        /\ R(k + 1) = Relocated(R(k), delta, block.page, block.items[k + 1])
    BY <1>2, <1>7, <2>1
  <2> QED
    BY <1>9, <2>1, <2>2
<1> HIDE DEF Good
<1>10. 0 .. n \subseteq Good
  BY <1>1, <1>8, <1>9, UpToBound
<1>11. f[n] = R(n)
  <2>1. n \in Good
    BY <1>1, <1>10
  <2> QED
    BY <2>1 DEF Good
<1> QED
  BY <1>3, <1>11 DEF f, R, n, block, delta

\* How far the cursor is behind each block.
Sums(blocks) ==
  {sum \in [0 .. Len(blocks) -> Nat] :
     sum[0] = 0 /\ \A b \in 1 .. Len(blocks) : sum[b] = sum[b - 1] + blocks[b].size}

LEMMA DirectorySums ==
  ASSUME NEW blocks \in Seq(ABlock)
  PROVE  \E sum \in Sums(blocks) : DirectorySize(blocks) = sum[Len(blocks)]
<1> DEFINE n == Len(blocks)
           S == Nat
           Longer(a, b) == a + blocks[b].size
           step == [b \in 1 .. n |-> [a \in S |-> Longer(a, b)]]
           Solves(f) == f = [b \in 0 .. n |-> IF b = 0 THEN 0 ELSE f[b - 1] + blocks[b].size]
<1>1. n \in Nat /\ 0 \in S
  BY LenProperties
<1>2. ASSUME NEW b \in 1 .. n, NEW a \in S
      PROVE  Longer(a, b) \in S
  <2>1. blocks[b] \in ABlock
    OBVIOUS
  <2>2. blocks[b].size \in Nat
    BY <2>1 DEF ABlock
  <2> QED
    BY <2>2
<1>3. step \in [1 .. n -> [S -> S]]
  <2> HIDE DEF S, Longer, n
  <2> QED
    BY <1>2
<1>4. PICK g \in [0 .. n -> S] : g[0] = 0 /\ \A b \in 1 .. n : g[b] = step[b][g[b - 1]]
  <2> HIDE DEF step, S, n
  <2>1. Turns(S, 0, step, n) # {}
    BY <1>1, <1>3, Iterated
  <2> QED
    BY <2>1 DEF Turns
<1> HIDE DEF n
<1>5. \A b \in 1 .. n : g[b] = Longer(g[b - 1], b)
  <2>1. ASSUME NEW b \in 1 .. n
        PROVE  g[b] = Longer(g[b - 1], b)
    <3>1. g[b - 1] \in S
      <4> HIDE DEF S
      <4> QED
        BY <1>1, <1>4
    <3> HIDE DEF S
    <3> QED
      BY <1>4, <3>1
  <2> QED
    BY <2>1
<1>6. \E f : Solves(f)
  <2>1. g = [b \in 0 .. n |-> g[b]]
    BY <1>4
  <2>2. \A b \in 0 .. n : g[b] = IF b = 0 THEN 0 ELSE g[b - 1] + blocks[b].size
    BY <1>1, <1>4, <1>5
  <2>3. Solves(g)
    BY <2>1, <2>2
  <2> QED
    BY <2>3
<1> DEFINE f == CHOOSE h : Solves(h)
<1>7. Solves(f)
  <2> HIDE DEF Solves
  <2> QED
    BY <1>6, Zenon
<1>8. DirectorySize(blocks) = f[n]
  BY Zenon DEF DirectorySize, n
<1> HIDE DEF f
<1>9. /\ f[0] = 0
      /\ \A b \in 1 .. n : f[b] = f[b - 1] + blocks[b].size
  <2>1. 0 \in 0 .. n /\ \A b \in 1 .. n : b \in 0 .. n /\ b # 0
    BY <1>1
  <2> QED
    BY <1>7, <2>1
<1>10. f \in [0 .. n -> S]
  <2> DEFINE Good == {b \in 0 .. n : f[b] \in S}
  <2>1. 0 \in Good
    BY <1>1, <1>9
  <2>2. ASSUME NEW b \in 0 .. n - 1, b \in Good
        PROVE  b + 1 \in Good
    <3>1. b + 1 \in 1 .. n /\ b + 1 \in 0 .. n /\ b + 1 - 1 = b
      BY <1>1
    <3>2. f[b + 1] = Longer(f[b], b + 1)
      BY <1>9, <3>1
    <3> QED
      BY <1>2, <2>2, <3>1, <3>2
  <2> HIDE DEF Good
  <2>3. 0 .. n \subseteq Good
    BY <1>1, <2>1, <2>2, UpToBound
  <2> HIDE DEF S
  <2> QED
    BY <1>7, <2>3 DEF Good
<1>11. f \in Sums(blocks)
  BY <1>9, <1>10 DEF Sums, n
<1> QED
  BY <1>8, <1>11 DEF n

\* The directory is at least as long as the blocks up to one of them.
LEMMA SumsGrow ==
  ASSUME NEW blocks \in Seq(ABlock), NEW sum \in Sums(blocks), NEW b \in 0 .. Len(blocks)
  PROVE  sum[b] <= sum[Len(blocks)]
<1> DEFINE n == Len(blocks)
           Good == {k \in 0 .. n : k >= b => sum[b] <= sum[k]}
<1>1. n \in Nat
  BY LenProperties
<1>2. /\ sum \in [0 .. n -> Nat]
      /\ \A k \in 1 .. n : sum[k] = sum[k - 1] + blocks[k].size
  BY DEF Sums
<1> HIDE DEF n
<1>3. b \in 0 .. n /\ sum[b] \in Nat
  BY <1>2 DEF n
<1>4. 0 \in Good
  BY <1>1, <1>3
<1>5. ASSUME NEW k \in 0 .. n - 1, k \in Good
      PROVE  k + 1 \in Good
  <2>1. k + 1 \in 1 .. n /\ k + 1 \in 0 .. n /\ k + 1 - 1 = k /\ k \in 0 .. n /\ k \in Nat
    BY <1>1
  <2>2. sum[k + 1] = sum[k] + blocks[k + 1].size /\ sum[k] \in Nat
    BY <1>2, <2>1
  <2>3. blocks[k + 1].size \in Nat
    <3>1. blocks[k + 1] \in ABlock
      BY <2>1 DEF n
    <3> QED
      BY <3>1 DEF ABlock
  <2>4. CASE k + 1 = b
    BY <1>3, <2>1, <2>4
  <2>5. CASE k + 1 < b
    BY <1>3, <2>1, <2>5
  <2>6. CASE k + 1 > b
    <3>1. sum[b] <= sum[k]
      BY <1>3, <1>5, <2>1, <2>6
    <3>2. sum[b] <= sum[k + 1]
      BY <1>3, <2>2, <2>3, <3>1
    <3> QED
      BY <2>1, <3>2
  <2> QED
    BY <1>3, <2>1, <2>4, <2>5, <2>6
<1> HIDE DEF Good
<1>6. 0 .. n \subseteq Good
  BY <1>1, <1>4, <1>5, UpToBound
<1>7. n \in Good /\ n >= b
  BY <1>1, <1>3, <1>6
<1> QED
  BY <1>7 DEF Good, n

\* Where the pointers of a table can be.
LEMMA ItemTypes ==
  ASSUME NEW blocks \in Seq(ABlock), NEW p \in Items(blocks)
  PROVE  /\ p[1] \in 1 .. Len(blocks) /\ Len(blocks) \in Nat
         /\ p[2] \in 1 .. Len(blocks[p[1]].items) /\ Len(blocks[p[1]].items) \in Nat
<1>1. p = <<p[1], p[2]>>
  BY ItemIsPair
<1>2. p[1] \in 1 .. Len(blocks) /\ p[2] \in 1 .. Len(blocks[p[1]].items)
  BY <1>1, ItemsAre
<1>3. Len(blocks) \in Nat
  BY LenProperties
<1>4. blocks[p[1]] \in ABlock
  BY <1>2
<1>5. blocks[p[1]].items \in Seq(Nat \X Nat)
  BY <1>4 DEF ABlock
<1> QED
  BY <1>2, <1>3, <1>5, LenProperties

\* Between two blocks, before the first and behind the last.
LEMMA DoneBetween ==
  ASSUME NEW blocks \in Seq(ABlock)
  PROVE  /\ Done(blocks, 1, 0) = {}
         /\ \A b \in 1 .. Len(blocks) :
               Done(blocks, b, Len(blocks[b].items)) = Done(blocks, b + 1, 0)
         /\ Done(blocks, Len(blocks) + 1, 0) = Pointers(blocks)
<1> DEFINE Before(b, i) == {q \in Items(blocks) : q[1] < b \/ (q[1] = b /\ q[2] <= i)}
<1>1. \A b, i : Done(blocks, b, i) = {Target(blocks, p) : p \in Before(b, i)}
  BY DEF Done
<1>2. Before(1, 0) = {}
  <2>1. ASSUME NEW q \in Items(blocks)
        PROVE  q \notin Before(1, 0)
    <3>1. /\ q[1] \in 1 .. Len(blocks) /\ Len(blocks) \in Nat
          /\ q[2] \in 1 .. Len(blocks[q[1]].items) /\ Len(blocks[q[1]].items) \in Nat
      BY ItemTypes
    <3> QED
      BY <3>1
  <2> QED
    BY <2>1
<1>3. ASSUME NEW b \in 1 .. Len(blocks)
      PROVE  Before(b, Len(blocks[b].items)) = Before(b + 1, 0)
  <2>1. ASSUME NEW q \in Items(blocks)
        PROVE  q \in Before(b, Len(blocks[b].items)) <=> q \in Before(b + 1, 0)
    <3>1. /\ q[1] \in 1 .. Len(blocks) /\ Len(blocks) \in Nat
          /\ q[2] \in 1 .. Len(blocks[q[1]].items) /\ Len(blocks[q[1]].items) \in Nat
      BY ItemTypes
    <3>2. q[1] = b => q[2] <= Len(blocks[b].items)
      BY <3>1
    <3>3. q[1] < b + 1 <=> q[1] < b \/ q[1] = b
      BY <3>1
    <3>4. ~(q[2] <= 0)
      BY <3>1
    <3> QED
      BY <3>2, <3>3, <3>4
  <2> QED
    BY <2>1
<1>4. Before(Len(blocks) + 1, 0) = Items(blocks)
  <2>1. ASSUME NEW q \in Items(blocks)
        PROVE  q \in Before(Len(blocks) + 1, 0)
    <3>1. q[1] \in 1 .. Len(blocks) /\ Len(blocks) \in Nat
      BY ItemTypes
    <3> QED
      BY <3>1
  <2> QED
    BY <2>1
<1> HIDE DEF Before
<1>5. Done(blocks, 1, 0) = {}
  BY <1>1, <1>2
<1>6. ASSUME NEW b \in 1 .. Len(blocks)
      PROVE  Done(blocks, b, Len(blocks[b].items)) = Done(blocks, b + 1, 0)
  BY <1>1, <1>3
<1>7. Done(blocks, Len(blocks) + 1, 0) = Pointers(blocks)
  <2>1. Done(blocks, Len(blocks) + 1, 0) = {Target(blocks, p) : p \in Items(blocks)}
    BY <1>1, <1>4
  <2> QED
    BY <2>1 DEF Pointers
<1> QED
  BY <1>5, <1>6, <1>7

\* One block of a table that is written as it should be.
LEMMA BlockMoves ==
  ASSUME NEW blocks \in Seq(ABlock), Proper(blocks), NEW from \in Nat, NEW to \in Nat,
         NEW sum \in Sums(blocks), NEW b \in 1 .. Len(blocks)
  PROVE  RelocatedBlock(Reached(from, to, blocks, Done(blocks, b, 0), sum[b - 1]), to - from,
                        blocks[b], sum[Len(blocks)])
           = Reached(from, to, blocks, Done(blocks, b + 1, 0), sum[b])
<1> DEFINE at == Reached(from, to, blocks, Done(blocks, b, 0), sum[b - 1])
           size == sum[Len(blocks)]
           block == blocks[b]
           n == Len(blocks[b].items)
           moved == Reached(from, to, blocks, Done(blocks, b, n), sum[b - 1])
<1>1. /\ block.size \in Nat /\ n \in Nat
      /\ block.size = 8 + 2 * n
  <2>1. block \in ABlock
    OBVIOUS
  <2>2. block.size \in Nat /\ block.items \in Seq(Nat \X Nat)
    BY <2>1 DEF ABlock
  <2> QED
    BY <2>2, LenProperties DEF Proper, HeaderSize
<1>2. /\ sum[b - 1] \in Nat /\ sum[b] \in Nat /\ size \in Nat
      /\ sum[b] = sum[b - 1] + block.size /\ sum[b] <= size
  <2>1. Len(blocks) \in Nat
    BY LenProperties
  <2>2. b - 1 \in 0 .. Len(blocks) /\ b \in 0 .. Len(blocks) /\ Len(blocks) \in 0 .. Len(blocks)
    BY <2>1
  <2>3. sum[b] <= size
    BY <2>2, SumsGrow
  <2> HIDE DEF block
  <2>4. sum[b - 1] \in Nat /\ sum[b] \in Nat /\ size \in Nat
    BY <2>2 DEF Sums
  <2> QED
    BY <2>3, <2>4 DEF Sums, block
<1>3. at.status = "OK" /\ at.cursor = sum[b - 1]
  BY DEF Reached
<1>4. RelocatedItems(at, to - from, block, n) = moved
  BY ItemsMove
<1> HIDE DEF at, size, block, n
<1>5. (block.size - 8) \div 2 = n
  BY <1>1
<1>6. /\ ~(at.cursor + 8 > size) /\ ~(block.size < 8)
      /\ ~(at.cursor + block.size > size) /\ at.cursor + block.size = sum[b]
  BY <1>1, <1>2, <1>3
<1>7. RelocatedBlock(at, to - from, block, size) = [moved EXCEPT !.cursor = sum[b]]
  <2> HIDE DEF moved
  <2> QED
    BY <1>3, <1>4, <1>5, <1>6, Zenon DEF RelocatedBlock, HeaderSize
<1>8. [moved EXCEPT !.cursor = sum[b]] =
        Reached(from, to, blocks, Done(blocks, b, n), sum[b])
  BY DEF Reached
<1>9. Done(blocks, b, n) = Done(blocks, b + 1, 0)
  BY DoneBetween DEF n
<1>10. RelocatedBlock(at, to - from, block, size) =
         Reached(from, to, blocks, Done(blocks, b + 1, 0), sum[b])
  <2> HIDE DEF moved
  <2> QED
    BY <1>7, <1>8, <1>9, Zenon
<1> QED
  BY <1>10 DEF at, size, block

\* A table that is written as it should be, for an image that is mapped elsewhere.
LEMMA ImageMoves ==
  ASSUME NEW blocks \in Seq(ABlock), Proper(blocks), NEW from \in Nat, NEW to \in Nat,
         from # to, blocks # <<>>
  PROVE  \E read :
            apply_relocations(Linked(from, Pointers(blocks)), from, to, blocks,
                              DirectorySize(blocks))
              = [words |-> Linked(to, Pointers(blocks)), cursor |-> read, status |-> "OK"]
<1>1. PICK sum \in Sums(blocks) : DirectorySize(blocks) = sum[Len(blocks)]
  BY DirectorySums
<1> DEFINE n == Len(blocks)
           delta == to - from
           size == DirectorySize(blocks)
           linked == Linked(from, Pointers(blocks))
           start == [words |-> linked, cursor |-> 0, status |-> "OK"]
           R(b) == Reached(from, to, blocks, Done(blocks, b + 1, 0), sum[b])
           Solves(f) == f = [b \in 0 .. n |->
                               IF b = 0 THEN start
                               ELSE RelocatedBlock(f[b - 1], delta, blocks[b], size)]
           c == [b \in 0 .. n |-> R(b)]
<1>2. n \in Nat \ {0}
  BY LenProperties, EmptySeq
<1>3. R(0) = start
  <2>1. Done(blocks, 0 + 1, 0) = {}
    BY DoneBetween
  <2>2. sum[0] = 0
    BY DEF Sums
  <2>3. Mixed(from, to, Pointers(blocks), {}) = linked
    BY DEF Mixed, Linked
  <2> QED
    BY <2>1, <2>2, <2>3 DEF Reached
<1>4. ASSUME NEW b \in 1 .. n
      PROVE  R(b) = RelocatedBlock(R(b - 1), delta, blocks[b], size)
  <2>1. b - 1 + 1 = b
    BY <1>2
  <2>2. RelocatedBlock(Reached(from, to, blocks, Done(blocks, b, 0), sum[b - 1]), delta,
                       blocks[b], sum[n]) = R(b)
    BY BlockMoves
  <2> QED
    BY <1>1, <2>1, <2>2
<1>5. size >= 8
  <2>1. 1 \in 1 .. n /\ 1 \in 0 .. n /\ n \in 0 .. n
    BY <1>2
  <2>2. sum[1] = sum[0] + blocks[1].size /\ sum[0] = 0 /\ sum[n] \in Nat
    BY <2>1 DEF Sums
  <2>3. blocks[1].size = 8 + 2 * Len(blocks[1].items) /\ Len(blocks[1].items) \in Nat
    <3>1. blocks[1] \in ABlock
      BY <2>1
    <3>2. blocks[1].items \in Seq(Nat \X Nat)
      BY <3>1 DEF ABlock
    <3> QED
      BY <2>1, <3>2, LenProperties DEF Proper, HeaderSize
  <2>4. sum[1] <= sum[n]
    BY <2>1, SumsGrow
  <2> QED
    BY <1>1, <2>2, <2>3, <2>4
<1>6. apply_relocations(linked, from, to, blocks, size) =
        IF delta = 0 THEN start
        ELSE IF size < 8 THEN [start EXCEPT !.status = "ADDRESS_CONFLICT"]
        ELSE (CHOOSE f : Solves(f))[n]
  BY Zenon DEF apply_relocations, HeaderSize
<1>7. delta # 0 /\ ~(size < 8)
  <2>1. delta # 0
    OBVIOUS
  <2>2. size \in Nat
    <3>1. n \in 0 .. n
      BY <1>2
    <3> QED
      BY <1>1, <3>1 DEF Sums
  <2> QED
    BY <1>5, <2>1, <2>2
<1>8. R(n) = [words |-> Linked(to, Pointers(blocks)), cursor |-> sum[n], status |-> "OK"]
  <2>1. Done(blocks, n + 1, 0) = Pointers(blocks)
    BY DoneBetween
  <2>2. Mixed(from, to, Pointers(blocks), Pointers(blocks)) = Linked(to, Pointers(blocks))
    BY DEF Mixed, Linked
  <2> QED
    BY <2>1, <2>2 DEF Reached
<1> HIDE DEF n, delta, size, linked, start, R
<1>9. \A b \in 0 .. n : b # 0 => b \in 1 .. n /\ b - 1 \in 0 .. n
  BY <1>2
<1>10. Solves(c)
  <2>1. ASSUME NEW b \in 0 .. n
        PROVE  c[b] = IF b = 0 THEN start
                      ELSE RelocatedBlock(c[b - 1], delta, blocks[b], size)
    <3>1. CASE b = 0
      BY <1>3, <3>1
    <3>2. CASE b # 0
      <4>1. b \in 1 .. n /\ b - 1 \in 0 .. n
        BY <1>9, <3>2
      <4>2. c[b] = R(b) /\ c[b - 1] = R(b - 1)
        BY <4>1
      <4> HIDE DEF c
      <4> QED
        BY <1>4, <3>2, <4>1, <4>2
    <3> QED
      BY <3>1, <3>2
  <2>2. c = [b \in 0 .. n |-> c[b]]
    OBVIOUS
  <2> HIDE DEF c
  <2> QED
    BY <2>1, <2>2
<1> DEFINE f == CHOOSE h : Solves(h)
<1>11. Solves(f)
  <2> HIDE DEF Solves
  <2> QED
    BY <1>10, Zenon
<1> HIDE DEF f
<1>12. /\ f[0] = start
       /\ \A b \in 1 .. n : f[b] = RelocatedBlock(f[b - 1], delta, blocks[b], size)
  <2>1. 0 \in 0 .. n /\ \A b \in 1 .. n : b \in 0 .. n /\ b # 0
    BY <1>2
  <2> QED
    BY <1>11, <2>1
<1> DEFINE Good == {b \in 0 .. n : f[b] = R(b)}
<1>13. 0 \in Good
  BY <1>2, <1>3, <1>12
<1>14. ASSUME NEW b \in 0 .. n - 1, b \in Good
       PROVE  b + 1 \in Good
  <2>1. b + 1 \in 1 .. n /\ b + 1 \in 0 .. n /\ b + 1 - 1 = b
    BY <1>2
  <2>2. /\ f[b + 1] = RelocatedBlock(f[b], delta, blocks[b + 1], size)
        /\ R(b + 1) = RelocatedBlock(R(b), delta, blocks[b + 1], size)
    BY <1>4, <1>12, <2>1
  <2> QED
    BY <1>14, <2>1, <2>2
<1> HIDE DEF Good
<1>15. 0 .. n \subseteq Good
  BY <1>2, <1>13, <1>14, UpToBound
<1>16. f[n] = R(n)
  <2>1. n \in Good
    BY <1>2, <1>15
  <2> QED
    BY <2>1 DEF Good
<1>17. apply_relocations(linked, from, to, blocks, size) = R(n)
  BY <1>6, <1>7, <1>16 DEF f
<1> QED
  BY <1>8, <1>17 DEF linked, size

LEMMA EmptyDirectory == DirectorySize(<<>>) = 0
<1> DEFINE blocks == <<>>
<1>1. blocks \in Seq(ABlock) /\ Len(blocks) = 0
  BY EmptySeq
<1> HIDE DEF blocks
<1>2. PICK sum \in Sums(blocks) : DirectorySize(blocks) = sum[Len(blocks)]
  BY <1>1, DirectorySums
<1> QED
  BY <1>1, <1>2 DEF Sums, blocks

LEMMA AllRelocated == RelocatedAsLinked
<1> SUFFICES ASSUME NEW from \in Bases, NEW to \in Bases, NEW blocks \in TriedBlocks,
                    Proper(blocks)
             PROVE  LET pointers == Pointers(blocks)
                        after == apply_relocations(Linked(from, pointers), from, to, blocks,
                                                   DirectorySize(blocks))
                    IN  IF blocks = <<>> /\ from # to THEN after.status = "ADDRESS_CONFLICT"
                        ELSE after.status = "OK" /\ after.words = Linked(to, pointers)
  BY Zenon DEF RelocatedAsLinked
<1> DEFINE pointers == Pointers(blocks)
           size == DirectorySize(blocks)
           linked == Linked(from, pointers)
           start == [words |-> linked, cursor |-> 0, status |-> "OK"]
           after == apply_relocations(linked, from, to, blocks, size)
<1>1. from \in Nat /\ to \in Nat /\ blocks \in Seq(ABlock)
  BY BasesAssumption, BlocksAssumption DEF ABlock
<1>2. CASE from = to
  <2>1. to - from = 0
    BY <1>1, <1>2
  <2>2. after = start
    BY <2>1 DEF apply_relocations
  <2>3. after.status = "OK" /\ after.words = Linked(to, pointers)
    BY <1>2, <2>2
  <2> QED
    BY <1>2, <2>3
<1>3. CASE from # to /\ blocks = <<>>
  <2>1. to - from # 0
    BY <1>1, <1>3
  <2>2. size = 0
    BY <1>3, EmptyDirectory
  <2>3. size < 8
    BY <2>2
  <2>4. after = [start EXCEPT !.status = "ADDRESS_CONFLICT"]
    <3> HIDE DEF size
    <3> QED
      BY <2>1, <2>3 DEF apply_relocations, HeaderSize
  <2>5. after.status = "ADDRESS_CONFLICT"
    BY <2>4
  <2> QED
    BY <1>3, <2>5
<1>4. CASE from # to /\ blocks # <<>>
  <2>1. PICK read : after = [words |-> Linked(to, pointers), cursor |-> read, status |-> "OK"]
    BY <1>1, <1>4, ImageMoves
  <2>2. after.status = "OK" /\ after.words = Linked(to, pointers)
    BY <2>1
  <2> QED
    BY <1>4, <2>2
<1> QED
  BY <1>2, <1>3, <1>4

\* An image that is mapped elsewhere is as if it had been linked for that base, for every
\* pair of bases, every set of pointers and every order of the table (CEPELoader.c 76-105).
THEOREM RelocationsAreRight == Spec => []RelocationsRight
<1>1. RelocationsRight
  BY AllRelocated DEF RelocationsRight
<1> QED
  BY <1>1, PTL
=============================================================================
