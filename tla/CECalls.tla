------------------------------- MODULE CECalls -------------------------------
(***************************************************************************)
(* Calls and returns of the guest program on the interpreter: ARM and Thumb *)
(* code that call each other, API traps that return through the link        *)
(* register, and window procedures that DispatchMessageW enters and a       *)
(* return trap leaves, nested to any depth.                                 *)
(*                                                                          *)
(* The instruction at the program counter is any that compiled code may     *)
(* have there: a function keeps its return address in LR, saves it before   *)
(* it makes a call, and returns the way it was saved.  The state of the CPU *)
(* is what those instructions touch; code is addressed in bytes, the stack  *)
(* in words.                                                                *)
(*                                                                          *)
(* Assumption: no other readable or writable region adjoins the main stack. *)
(* The address space keeps no guard page, so where one does adjoin, what    *)
(* runs out of the stack here reads and writes that region in the program.  *)
(***************************************************************************)
EXTENDS Integers, Sequences

CONSTANTS ArmCode, ThumbCode,        \* addresses of ARM and of Thumb instructions
          ArmEntries, ThumbEntries,  \* where functions begin
          CodeTop,                   \* the API traps begin here
          StackWords,                \* words of stack
          MaxCalls                   \* bound on active calls

VARIABLES pc, t, lr, sp,   \* r[PC], the T flag of cpsr, r[LR], r[SP]
          memory,          \* the stack
          halted, fault,
          frames           \* history: the active calls, innermost last, with what their
                           \* return has to restore

vars == <<pc, t, lr, sp, memory, halted, fault, frames>>
status == <<halted, fault>>

\* CE_API_TRAP_ADDRESS: the return of a window procedure, DispatchMessageW, any
\* other function that comes back to its caller, and ExitProcess.
ReturnTrap == CodeTop
DispatchTrap == CodeTop + 4
ApiTrap == CodeTop + 8
ExitTrap == CodeTop + 12
Traps == {ReturnTrap, DispatchTrap, ApiTrap, ExitTrap}

Code == ArmCode \cup ThumbCode

\* Instructions are aligned, and none is mapped where the traps are.
ASSUME CodeAssumption ==
  /\ CodeTop \in Nat /\ CodeTop % 2 = 0
  /\ Code \subseteq {a \in Nat : a % 2 = 0} \ Traps
  /\ ArmCode \cap ThumbCode = {}
  /\ ArmEntries \subseteq ArmCode /\ ThumbEntries \subseteq ThumbCode

ASSUME BoundsAssumption == StackWords \in Nat /\ MaxCalls \in Nat

\* A code address as it is kept in registers and on the stack: bit 0 says Thumb.
Tagged(address, thumb) == address + (IF thumb THEN 1 ELSE 0)
Even(value) == value - (value % 2)
IsThumb(value) == value % 2 = 1

\* What function pointers and import tables hold.
Functions == ArmEntries \cup {Tagged(a, TRUE) : a \in ThumbEntries}
Callable == Functions \cup {DispatchTrap, ApiTrap, ExitTrap}

\* An instruction is fetched and no error stopped the CPU.
Running == ~halted /\ pc \in Code

Top == frames[Len(frames)]

\* The standard for compiled code: only a function that has saved its return address
\* makes calls; the program itself does not return.
MayCall == Len(frames) < MaxCalls /\ (frames # <<>> => Top.saved)
IsLeaf == frames # <<>> /\ ~Top.saved
HasSaved == frames # <<>> /\ Top.saved

Called(ret, thumb) == frames' = Append(frames, [ret |-> ret, thumb |-> thumb, sp |-> sp, saved |-> FALSE])
Returned == frames' = SubSeq(frames, 1, Len(frames) - 1)

\* Faulty variant of Exchange: the instruction set stays.
ExchangeKeepsState(value) == pc' = Even(value) /\ t' = t

\* A jump to a register: bit 0 selects the instruction set.
Exchange(value) == pc' = Even(value) /\ t' = IsThumb(value)

Halt(error) == halted' = TRUE /\ fault' = error

\* A word stored at the given address; outside the stack, where by assumption nothing is
\* mapped, the access fails and the CPU halts with the fault.
Store(address, value) ==
  IF address \in 0 .. StackWords - 1
  THEN memory' = [memory EXCEPT ![address] = value] /\ UNCHANGED status
  ELSE Halt("ACCESS_VIOLATION") /\ UNCHANGED memory

\* Faulty variant of PopTarget: the word stays on the stack.
PopKeepsWord(behind) ==
  IF sp \in 0 .. StackWords - 1
  THEN Exchange(memory[sp]) /\ Returned /\ UNCHANGED <<sp, status>>
  ELSE Halt("ACCESS_VIOLATION") /\ pc' = behind /\ UNCHANGED <<t, sp, frames>>

\* The word on top of the stack is where to go on; behind the stack, where by assumption
\* nothing is mapped, the read fails with the program counter behind the instruction.
PopTarget(behind) ==
  IF sp \in 0 .. StackWords - 1
  THEN Exchange(memory[sp]) /\ sp' = sp + 1 /\ Returned /\ UNCHANGED status
  ELSE Halt("ACCESS_VIOLATION") /\ pc' = behind /\ UNCHANGED <<t, sp, frames>>

-----------------------------------------------------------------------------
\* CECPUSetEntry, for a program in either instruction set.
Init ==
  /\ \E entry \in Functions : pc = Even(entry) /\ t = IsThumb(entry)
  /\ lr = 0
  /\ sp = StackWords
  /\ memory = [a \in 0 .. StackWords - 1 |-> 0]
  /\ halted = FALSE
  /\ fault = "OK"
  /\ frames = <<>>

\* Any instruction that leaves calls alone.
Other ==
  /\ Running
  /\ pc' = pc + (IF t THEN 2 ELSE 4)
  /\ pc' \in IF t THEN ThumbCode ELSE ArmCode
  /\ UNCHANGED <<t, lr, sp, memory, status, frames>>

\* ARM BL.
ArmBL(target) ==
  /\ Running /\ ~t /\ MayCall
  /\ pc + 4 \in ArmCode
  /\ lr' = pc + 4
  /\ pc' = target
  /\ Called(pc + 4, FALSE)
  /\ UNCHANGED <<t, sp, memory, status>>

\* The two halves of a Thumb BL: nothing runs between them, and the first only
\* leaves the upper part of the target in LR for the second.
ThumbBL(target) ==
  /\ Running /\ t /\ MayCall
  /\ pc + 4 \in ThumbCode
  /\ lr' = Tagged(pc + 4, TRUE)
  /\ pc' = target
  /\ Called(pc + 4, TRUE)
  /\ UNCHANGED <<t, sp, memory, status>>

\* MOV lr, pc and BX: how ARMv4 code calls through a pointer.  The move reads the
\* program counter that step_arm has already advanced by 4.
ArmMoveLinkCall(target) ==
  /\ Running /\ ~t /\ MayCall
  /\ pc + 8 \in ArmCode
  /\ lr' = pc + 4
  /\ Exchange(target)
  /\ Called(pc + 8, FALSE)
  /\ UNCHANGED <<sp, memory, status>>

\* BX to a function, with LR as it is: the veneers through which code calls the other
\* instruction set and the API, and calls in tail position.
ArmBX(target) ==
  /\ Running /\ ~t /\ IsLeaf
  /\ Exchange(target)
  /\ UNCHANGED <<lr, sp, memory, status, frames>>

ThumbBX(target) ==
  /\ Running /\ t /\ IsLeaf
  /\ Exchange(target)
  /\ UNCHANGED <<lr, sp, memory, status, frames>>

\* LDR pc from an import table: the loaded word is the program counter as it is and
\* the instruction set stays.
ArmLoadPC(target) ==
  /\ Running /\ ~t /\ IsLeaf
  /\ ~IsThumb(target)
  /\ pc' = target
  /\ UNCHANGED <<t, lr, sp, memory, status, frames>>

\* STMDB sp!, {lr}: the base is written back only after every store succeeded.
ArmStoreLR ==
  /\ Running /\ ~t /\ IsLeaf
  /\ Store(sp - 1, lr)
  /\ sp' = IF sp - 1 >= 0 THEN sp - 1 ELSE sp
  /\ pc' = pc + 4 /\ pc' \in ArmCode
  /\ frames' = [frames EXCEPT ![Len(frames)].saved = TRUE]
  /\ UNCHANGED <<t, lr>>

\* PUSH {lr}: push moves the stack pointer before it stores.
ThumbPushLR ==
  /\ Running /\ t /\ IsLeaf
  /\ sp' = sp - 1
  /\ Store(sp - 1, lr)
  /\ pc' = pc + 2 /\ pc' \in ThumbCode
  /\ frames' = [frames EXCEPT ![Len(frames)].saved = TRUE]
  /\ UNCHANGED <<t, lr>>

\* BX lr.
ReturnBX ==
  /\ Running /\ IsLeaf
  /\ Exchange(lr)
  /\ Returned
  /\ UNCHANGED <<lr, sp, memory, status>>

\* MOV pc, lr, which code uses when its callers are ARM: the result of the data
\* processing is the program counter as it is.
ReturnMove ==
  /\ Running /\ ~t /\ IsLeaf /\ ~IsThumb(lr)
  /\ pc' = lr
  /\ Returned
  /\ UNCHANGED <<t, lr, sp, memory, status>>

\* LDMIA sp!, {pc}: an odd word selects Thumb, an even one leaves the ARM state.
ReturnLoad ==
  /\ Running /\ ~t /\ HasSaved
  /\ PopTarget(pc + 4)
  /\ UNCHANGED <<lr, memory>>

\* LDR r3, [sp]; ADD sp, #4; BX r3.
ReturnThroughRegister ==
  /\ Running /\ t /\ HasSaved
  /\ PopTarget(pc + 2)
  /\ UNCHANGED <<lr, memory>>

\* The instruction words of POP {pc} and of the mask test in front of PUSH and POP:
\* x & 0xfe00 = 0xb400.
PopPC == 48384
IsPushPop(x) == x \div 512 = 46080 \div 512

\* POP {pc}: a word that no test of step_thumb lets through is CE_ERROR_UNSUPPORTED
\* and halts the CPU behind the instruction.
ReturnPop ==
  /\ Running /\ t /\ HasSaved
  /\ IF IsPushPop(PopPC) THEN PopTarget(pc + 2)
     ELSE pc' = pc + 2 /\ Halt("UNSUPPORTED") /\ UNCHANGED <<t, sp, frames>>
  /\ UNCHANGED <<lr, memory>>
-----------------------------------------------------------------------------
\* CECPUStep with the program counter at a trap first returns through LR, and then
\* the handler runs, which may change where the CPU goes on.
AtTrap(trap) == ~halted /\ pc = trap

\* A function that comes back to its caller, supported or not.
ApiReturns ==
  /\ AtTrap(ApiTrap)
  /\ Exchange(lr)
  /\ Returned
  /\ UNCHANGED <<lr, sp, memory, status>>

ExitProcess ==
  /\ AtTrap(ExitTrap)
  /\ Exchange(lr)
  /\ Halt("OK")
  /\ Returned
  /\ UNCHANGED <<lr, sp, memory>>

\* Faulty variant of DispatchMessage: the resume address forgets the instruction set.
DispatchUntagged(wndproc) ==
  /\ AtTrap(DispatchTrap)
  /\ Len(frames) < MaxCalls
  /\ sp' = sp - 1
  /\ Store(sp - 1, Even(lr))
  /\ IF halted' THEN Exchange(lr) /\ UNCHANGED <<lr, frames>>
     ELSE /\ Exchange(wndproc)
          /\ lr' = ReturnTrap
          /\ frames' = Append([frames EXCEPT ![Len(frames)].saved = TRUE],
                              [ret |-> ReturnTrap, thumb |-> FALSE, sp |-> sp - 1, saved |-> FALSE])

\* DispatchMessageW of a message for a window with a procedure: where to go on is
\* pushed on the guest's stack, and the procedure returns to the return trap.
DispatchMessage(wndproc) ==
  /\ AtTrap(DispatchTrap)
  /\ Len(frames) < MaxCalls
  /\ sp' = sp - 1
  /\ Store(sp - 1, Tagged(Even(lr), IsThumb(lr)))
  /\ IF halted' THEN Exchange(lr) /\ UNCHANGED <<lr, frames>>
     ELSE /\ Exchange(wndproc)
          /\ lr' = ReturnTrap
          /\ frames' = Append([frames EXCEPT ![Len(frames)].saved = TRUE],
                              [ret |-> ReturnTrap, thumb |-> FALSE, sp |-> sp - 1, saved |-> FALSE])

\* DispatchMessageW of a message whose window is gone, or has no procedure.
DispatchNothing ==
  /\ AtTrap(DispatchTrap)
  /\ Exchange(lr)
  /\ Returned
  /\ UNCHANGED <<lr, sp, memory, status>>

\* The window procedure has returned: the handler takes the address to go on at from
\* the guest's stack.
ReturnWndproc ==
  /\ AtTrap(ReturnTrap)
  /\ PopTarget(Even(lr))
  /\ UNCHANGED <<lr, memory>>

Call ==
  \/ \E target \in ArmEntries : ArmBL(target)
  \/ \E target \in ThumbEntries : ThumbBL(target)
  \/ \E target \in Callable : ArmBX(target) \/ ThumbBX(target) \/ ArmLoadPC(target)

Return == ReturnBX \/ ReturnMove \/ ReturnLoad \/ ReturnThroughRegister \/ ReturnPop

Trap ==
  \/ ApiReturns \/ ExitProcess \/ DispatchNothing \/ ReturnWndproc
  \/ \E wndproc \in Functions : DispatchMessage(wndproc)

Next == Other \/ Call \/ ArmStoreLR \/ ThumbPushLR \/ Return \/ Trap

Spec == Init /\ [][Next]_vars

\* The same for programs that also call through pointers the ARMv4 way.
SpecMoveLink == Init /\ [][Next \/ \E target \in Callable : ArmMoveLinkCall(target)]_vars
-----------------------------------------------------------------------------
\* Code runs in the instruction set it was compiled for, after every mixture of calls,
\* veneers, API returns and nested window procedures (BX 61-66 and 172-175, the link
\* bit at 261, LDM at 115, the trap return 278-280).
ModeMatchesCode == Running => (t <=> pc \in ThumbCode)

\* While a function that saved its return address, or a DispatchMessageW, is active,
\* the stack holds that address and its instruction set right below where the call
\* found the stack pointer; no later call, nor a window procedure, disturbs it
\* (push 157-159, STM 100-114, DispatchMessageW at CEKernel.c:300).
SavedReturnsIntact ==
  ~halted => \A k \in 1 .. Len(frames) : frames[k].saved =>
     memory[frames[k].sp - 1] = Tagged(frames[k].ret, frames[k].thumb)

\* Every return - of a function, of an API call, of DispatchMessageW after its window
\* procedure - goes on behind the call it returns from, in the caller's instruction
\* set and with the stack pointer the call found ("CECPU executes guest ARMv4T/Thumb
\* instructions", and calls into the API "return through the emulated link register",
\* Docs/ARCHITECTURE.md:11-12).
ReturnsBehindCall ==
  [][Len(frames') < Len(frames) =>
       pc' = Top.ret /\ t' = Top.thumb /\ sp' = Top.sp]_vars

\* A program made of the Thumb instructions the compatibility matrix lists - "PUSH/POP"
\* among them, Docs/COMPATIBILITY.md:7 - never meets one that is not supported.
EveryInstructionDecodes == fault # "UNSUPPORTED"
=============================================================================
