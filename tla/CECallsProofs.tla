---------------------------- MODULE CECallsProofs ----------------------------
(***************************************************************************)
(* Proofs about CECalls, for every program, stack and depth of calls.  The  *)
(* inductive invariant says where the frames are: each takes one word of    *)
(* the stack, the ones below the innermost have saved their return address  *)
(* there, and the innermost one has it in LR or on top of the stack.  The   *)
(* arithmetic of CEALU, which its runs check along with it, is at the end.  *)
(***************************************************************************)
EXTENDS MCCalls, NumberLemmas, SequenceTheorems, TLAPS

Frame == [ret : Code \cup {ReturnTrap}, thumb : BOOLEAN, sp : Int, saved : BOOLEAN]

\* The return address of a frame as it is kept, and the set it is in.
Kept(f) == Tagged(f.ret, f.thumb)
Returnable(f) == IF f.ret = ReturnTrap THEN ~f.thumb ELSE f.thumb <=> f.ret \in ThumbCode

\* The frames fs and their words in the stack mem: frame k takes the k-th word from the
\* end, and only a frame above another one returns to the trap.
Chained(fs, mem) ==
  \A k \in 1 .. Len(fs) :
     /\ Returnable(fs[k])
     /\ fs[k].sp = StackWords - k + 1
     /\ k < Len(fs) => fs[k].saved
     /\ fs[k].saved => k <= StackWords /\ mem[StackWords - k] = Kept(fs[k])
     /\ fs[k].ret = ReturnTrap => k > 1

\* Where the innermost frame keeps its return address.
Registers(fs, stackPointer, link) ==
  IF fs = <<>> THEN stackPointer = StackWords
  ELSE LET f == fs[Len(fs)] IN
       IF f.saved THEN stackPointer = f.sp - 1 ELSE stackPointer = f.sp /\ link = Kept(f)

\* Where the program counter may be: at code, at the trap of a function that was called,
\* or at the return trap above a DispatchMessageW.
Placed(counter, thumb, fs) ==
  \/ counter \in Code /\ (thumb <=> counter \in ThumbCode)
  \/ counter \in {DispatchTrap, ApiTrap, ExitTrap} /\ fs # <<>> /\ ~fs[Len(fs)].saved
  \/ counter = ReturnTrap /\ fs # <<>> /\ fs[Len(fs)].saved

CallsTypeOK ==
  /\ pc \in Int /\ t \in BOOLEAN /\ lr \in Int /\ sp \in Int
  /\ memory \in [0 .. StackWords - 1 -> Int]
  /\ halted \in BOOLEAN
  /\ frames \in Seq(Frame) /\ Len(frames) <= MaxCalls

IInv ==
  /\ CallsTypeOK
  /\ ~halted => Chained(frames, memory) /\ Registers(frames, sp, lr) /\ Placed(pc, t, frames)
-----------------------------------------------------------------------------
\* The traps are not code and differ from each other.
LEMMA TrapFacts ==
  /\ ReturnTrap \in Int /\ ReturnTrap \notin Code
  /\ DispatchTrap \notin Code /\ ApiTrap \notin Code /\ ExitTrap \notin Code
  /\ ReturnTrap \notin {DispatchTrap, ApiTrap, ExitTrap}
  /\ DispatchTrap \in Int /\ ApiTrap \in Int /\ ExitTrap \in Int
  BY CodeAssumption DEF Traps, ReturnTrap, DispatchTrap, ApiTrap, ExitTrap

\* What a register holds of an even address gives the address and the instruction set back.
LEMMA TaggedFacts ==
  ASSUME NEW a \in Int, a % 2 = 0, NEW thumb \in BOOLEAN
  PROVE  /\ Tagged(a, thumb) \in Int
         /\ Even(Tagged(a, thumb)) = a
         /\ IsThumb(Tagged(a, thumb)) = thumb
<1>1. /\ Tagged(a, TRUE) = a + 1 /\ (a + 1) % 2 = 1
      /\ Tagged(a, FALSE) = a /\ a + 1 \in Int
  BY DEF Tagged
<1>2. Even(a + 1) = a /\ Even(a) = a /\ IsThumb(a + 1) = TRUE /\ IsThumb(a) = FALSE
  BY <1>1 DEF Even, IsThumb
<1>3. CASE thumb = TRUE
  BY <1>1, <1>2, <1>3, Zenon
<1>4. CASE thumb = FALSE
  BY <1>1, <1>2, <1>4, Zenon
<1> QED
  BY <1>3, <1>4

LEMMA CodeFacts ==
  /\ \A a \in Code : a \in Int /\ a % 2 = 0
  /\ \A a \in ArmCode : a \in Code /\ a \notin ThumbCode
  /\ \A a \in ThumbCode : a \in Code
  BY CodeAssumption DEF Code

LEMMA FrameFacts ==
  ASSUME NEW f \in Frame
  PROVE  /\ f.ret \in Int /\ f.ret % 2 = 0 /\ f.thumb \in BOOLEAN
         /\ Kept(f) \in Int /\ Even(Kept(f)) = f.ret /\ IsThumb(Kept(f)) = f.thumb
<1>1. f.ret \in Int /\ f.ret % 2 = 0 /\ f.thumb \in BOOLEAN
  BY CodeFacts, TrapFacts, CodeAssumption DEF Frame, ReturnTrap
<1> QED
  BY <1>1, TaggedFacts DEF Kept

\* A function pointer or an import leads to an instruction of its own set or to a trap.
LEMMA CallableFacts ==
  /\ \A f \in Functions : Even(f) \in Code /\ (IsThumb(f) <=> Even(f) \in ThumbCode)
  /\ \A f \in Callable : \/ Even(f) \in Code /\ (IsThumb(f) <=> Even(f) \in ThumbCode)
                         \/ Even(f) \in {DispatchTrap, ApiTrap, ExitTrap}
  /\ \A f \in Callable : f \in Int /\ (~IsThumb(f) => Even(f) = f)
<1>1. \A f \in Functions : /\ f \in Int /\ Even(f) \in Code
                           /\ IsThumb(f) <=> Even(f) \in ThumbCode
                           /\ ~IsThumb(f) => Even(f) = f
  <2> SUFFICES ASSUME NEW f \in Functions
               PROVE  /\ f \in Int /\ Even(f) \in Code
                      /\ IsThumb(f) <=> Even(f) \in ThumbCode
                      /\ ~IsThumb(f) => Even(f) = f
    OBVIOUS
  <2>1. CASE f \in ArmEntries
    <3>1. f \in Code /\ f \notin ThumbCode /\ f \in Int /\ f % 2 = 0
      BY <2>1, CodeFacts, CodeAssumption
    <3>2. Even(f) = f /\ ~IsThumb(f)
      BY <3>1 DEF Even, IsThumb
    <3> QED
      BY <3>1, <3>2
  <2>2. CASE f \notin ArmEntries
    <3>1. PICK a \in ThumbEntries : f = Tagged(a, TRUE)
      BY <2>2 DEF Functions
    <3>2. a \in ThumbCode /\ a \in Code /\ a \in Int /\ a % 2 = 0
      BY CodeFacts, CodeAssumption
    <3> QED
      BY <3>1, <3>2, TaggedFacts
  <2> QED
    BY <2>1, <2>2
<1>2. \A f \in {DispatchTrap, ApiTrap, ExitTrap} : f \in Int /\ Even(f) = f
  BY CodeAssumption DEF DispatchTrap, ApiTrap, ExitTrap, Even
<1> QED
  BY <1>1, <1>2 DEF Callable
-----------------------------------------------------------------------------
\* All of a sequence but its last element.
LEMMA Front ==
  ASSUME NEW S, NEW s \in Seq(S), NEW m \in Nat, m + 1 = Len(s)
  PROVE  /\ SubSeq(s, 1, m) \in Seq(S) /\ Len(SubSeq(s, 1, m)) = m
         /\ \A k \in 1 .. m : SubSeq(s, 1, m)[k] = s[k]
  OBVIOUS

\* A call puts a frame on top, once the one below has saved its return address.
LEMMA Pushed ==
  ASSUME NEW fs \in Seq(Frame), NEW mem, Chained(fs, mem),
         fs # <<>> => fs[Len(fs)].saved,
         NEW f \in Frame, Returnable(f), ~f.saved, f.sp = StackWords - Len(fs),
         f.ret = ReturnTrap => fs # <<>>
  PROVE  LET new == Append(fs, f) IN
         /\ new \in Seq(Frame) /\ Len(new) = Len(fs) + 1 /\ new # <<>>
         /\ new[Len(new)] = f
         /\ Chained(new, mem)
<1> DEFINE new == Append(fs, f)
<1>1. /\ new \in Seq(Frame) /\ new # <<>> /\ Len(new) = Len(fs) + 1
      /\ \A k \in 1 .. Len(fs) : new[k] = fs[k]
      /\ new[Len(fs) + 1] = f
  BY AppendProperties
<1>2. Len(fs) \in Nat /\ (fs # <<>> => Len(fs) > 0)
  BY EmptySeq
<1> HIDE DEF new
<1>3. ASSUME NEW k \in 1 .. Len(new)
      PROVE  /\ Returnable(new[k])
             /\ new[k].sp = StackWords - k + 1
             /\ k < Len(new) => new[k].saved
             /\ new[k].saved => k <= StackWords /\ mem[StackWords - k] = Kept(new[k])
             /\ new[k].ret = ReturnTrap => k > 1
  <2>1. CASE k \in 1 .. Len(fs)
    <3>1. fs # <<>> /\ Len(fs) \in 1 .. Len(fs) /\ new[k] = fs[k]
      BY <1>1, <1>2, <2>1
    <3>2. fs[k].saved
      BY <1>2, <2>1, <3>1 DEF Chained
    <3> QED
      BY <2>1, <3>1, <3>2 DEF Chained
  <2>2. CASE k = Len(fs) + 1
    BY <1>1, <1>2, <2>2, BoundsAssumption
  <2> QED
    BY <1>1, <1>2, <2>1, <2>2
<1>4. Chained(new, mem)
  BY <1>3 DEF Chained
<1> QED
  BY <1>1, <1>4 DEF new

\* The innermost frame saves its return address in the word that is its own.
LEMMA SavedTop ==
  ASSUME NEW fs \in Seq(Frame), NEW mem \in [0 .. StackWords - 1 -> Int], Chained(fs, mem),
         fs # <<>>, Len(fs) <= StackWords, NEW word, word = Kept(fs[Len(fs)])
  PROVE  LET new == [fs EXCEPT ![Len(fs)].saved = TRUE] IN
         /\ new \in Seq(Frame) /\ Len(new) = Len(fs) /\ new # <<>>
         /\ new[Len(new)].saved
         /\ new[Len(new)].sp = fs[Len(fs)].sp
         /\ Chained(new, [mem EXCEPT ![StackWords - Len(fs)] = word])
<1> DEFINE n == Len(fs)
           top == [fs[n] EXCEPT !.saved = TRUE]
           new == [fs EXCEPT ![n] = top]
           stack == [mem EXCEPT ![StackWords - n] = word]
<1>1. n \in Nat /\ n > 0 /\ n \in 1 .. n
  BY EmptySeq
<1>2. fs[n] \in Frame
  BY <1>1, ElementOfSeq
<1>3. top \in Frame /\ top.saved /\ top.ret = fs[n].ret /\ top.thumb = fs[n].thumb
      /\ top.sp = fs[n].sp
  BY <1>2 DEF Frame
<1> HIDE DEF top
<1>4. /\ new \in Seq(Frame) /\ Len(new) = n
      /\ \A k \in 1 .. n : new[k] = IF k = n THEN top ELSE fs[k]
  BY <1>1, <1>3, ExceptSeq
<1>5. new = [fs EXCEPT ![Len(fs)].saved = TRUE]
  BY DEF top
<1>6. \A a \in 0 .. StackWords - 1 : stack[a] = IF a = StackWords - n THEN word ELSE mem[a]
  OBVIOUS
<1> HIDE DEF new, stack
<1>7. ASSUME NEW k \in 1 .. Len(new)
      PROVE  /\ Returnable(new[k])
             /\ new[k].sp = StackWords - k + 1
             /\ k < Len(new) => new[k].saved
             /\ new[k].saved => k <= StackWords /\ stack[StackWords - k] = Kept(new[k])
             /\ new[k].ret = ReturnTrap => k > 1
  <2>1. CASE k = n
    <3>1. Kept(top) = word /\ Returnable(top) = Returnable(fs[n])
      BY <1>3 DEF Kept, Returnable
    <3>2. StackWords - n \in 0 .. StackWords - 1
      BY <1>1, BoundsAssumption
    <3> QED
      BY <1>1, <1>3, <1>4, <1>6, <2>1, <3>1, <3>2 DEF Chained
  <2>2. CASE k # n
    <3>1. k \in 1 .. n /\ k < n /\ new[k] = fs[k]
      BY <1>4, <2>2
    <3>2. StackWords - k \in 0 .. StackWords - 1 /\ StackWords - k # StackWords - n
      BY <1>1, <3>1, BoundsAssumption
    <3> QED
      BY <1>4, <1>6, <3>1, <3>2 DEF Chained
  <2> QED
    BY <2>1, <2>2
<1>8. Chained(new, stack)
  BY <1>7 DEF Chained
<1>9. new[Len(new)] = top /\ new # <<>>
  BY <1>1, <1>4, EmptySeq
<1> QED
  BY <1>3, <1>4, <1>5, <1>8, <1>9 DEF stack

\* A return takes the innermost frame off, and leads to where the frame below goes on.
LEMMA Popped ==
  ASSUME NEW fs \in Seq(Frame), NEW mem, Chained(fs, mem), fs # <<>>, NEW link
  PROVE  LET new == SubSeq(fs, 1, Len(fs) - 1)
             f == fs[Len(fs)]
         IN  /\ f \in Frame
             /\ new \in Seq(Frame) /\ Len(new) = Len(fs) - 1
             /\ Chained(new, mem)
             /\ Registers(new, f.sp, link)
             /\ Placed(f.ret, f.thumb, new)
<1> DEFINE n == Len(fs)
           f == fs[n]
           new == SubSeq(fs, 1, n - 1)
<1>1. n \in Nat /\ n > 0 /\ n \in 1 .. n
  BY EmptySeq
<1>2. \A k \in 1 .. n : fs[k] \in Frame
  BY ElementOfSeq
<1>3. /\ new \in Seq(Frame) /\ Len(new) = n - 1
      /\ \A k \in 1 .. n - 1 : new[k] = fs[k]
  <2>1. n - 1 \in Nat /\ (n - 1) + 1 = Len(fs)
    BY <1>1
  <2> QED
    BY <2>1, Front
<1> HIDE DEF new
<1>4. Chained(new, mem)
  BY <1>1, <1>3 DEF Chained
<1>5. new # <<>> => n - 1 \in 1 .. n - 1 /\ new[Len(new)] = fs[n - 1] /\ fs[n - 1].saved
  <2> HAVE new # <<>>
  <2>1. n - 1 \in 1 .. n - 1
    BY <1>1, <1>3, EmptySeq
  <2>2. n - 1 \in 1 .. n
    BY <2>1
  <2> QED
    BY <1>1, <1>3, <2>1, <2>2 DEF Chained
<1>6. new = <<>> => n = 1
  BY <1>1, <1>3, EmptySeq
<1>7. f.sp = StackWords - n + 1 /\ Returnable(f) /\ (f.ret = ReturnTrap => n > 1)
  BY <1>1 DEF Chained
<1>8. Registers(new, f.sp, link)
  <2>1. CASE new = <<>>
    <3>1. n = 1 /\ f.sp = StackWords - n + 1
      BY <1>6, <1>7, <2>1
    <3> HIDE DEF n, f
    <3>2. f.sp = StackWords
      BY <3>1, BoundsAssumption
    <3> QED
      BY <2>1, <3>2 DEF Registers
  <2>2. CASE new # <<>>
    <3>1. n - 1 \in 1 .. n
      BY <1>1, <1>5, <2>2
    <3>2. fs[n - 1].sp = StackWords - (n - 1) + 1
      BY <3>1 DEF Chained
    <3> HIDE DEF f, n
    <3>3. f.sp = fs[n - 1].sp - 1
      BY <1>1, <1>7, <3>2, BoundsAssumption
    <3> QED
      BY <1>5, <2>2, <3>3 DEF Registers
  <2> QED
    BY <2>1, <2>2
<1>9. Placed(f.ret, f.thumb, new)
  <2>1. CASE f.ret = ReturnTrap
    BY <1>5, <1>6, <1>7, <2>1 DEF Placed
  <2>2. CASE f.ret # ReturnTrap
    <3>1. f \in Frame
      BY <1>1, <1>2
    <3>2. f.ret \in Code /\ (f.thumb <=> f.ret \in ThumbCode)
      BY <1>7, <2>2, <3>1 DEF Returnable, Frame
    <3> QED
      BY <3>2 DEF Placed
  <2> QED
    BY <2>1, <2>2
<1> QED
  BY <1>1, <1>2, <1>3, <1>4, <1>8, <1>9 DEF new
-----------------------------------------------------------------------------
\* Where the stack pointer is, before and after a function has saved its return address.
LEMMA StackPointer ==
  ASSUME IInv, ~halted
  PROVE  /\ Len(frames) \in Nat /\ (frames # <<>> => Len(frames) > 0 /\ Top \in Frame)
         /\ frames # <<>> => Top.sp = StackWords - Len(frames) + 1 /\ Returnable(Top)
         /\ (frames # <<>> => Top.saved) => sp = StackWords - Len(frames)
         /\ IsLeaf => sp = StackWords - Len(frames) + 1 /\ lr = Kept(Top)
         /\ HasSaved => /\ Len(frames) <= StackWords /\ sp \in 0 .. StackWords - 1
                        /\ memory[sp] = Kept(Top)
<1>1. /\ frames \in Seq(Frame) /\ Chained(frames, memory) /\ Registers(frames, sp, lr)
      /\ sp \in Int
  BY DEF IInv, CallsTypeOK
<1>2. Len(frames) \in Nat /\ (frames # <<>> => Len(frames) > 0 /\ Len(frames) \in 1 .. Len(frames))
  BY <1>1, EmptySeq
<1>3. frames # <<>> => Top \in Frame
  BY <1>1, <1>2, ElementOfSeq DEF Top
<1>4. frames # <<>> => /\ Top.sp = StackWords - Len(frames) + 1 /\ Returnable(Top)
                       /\ Top.saved => /\ Len(frames) <= StackWords
                                       /\ memory[StackWords - Len(frames)] = Kept(Top)
  BY <1>1, <1>2 DEF Chained, Top
<1>5. frames = <<>> => sp = StackWords
  BY <1>1 DEF Registers
<1>6. frames # <<>> => IF Top.saved THEN sp = Top.sp - 1 ELSE sp = Top.sp /\ lr = Kept(Top)
  BY <1>1 DEF Registers, Top
<1>7. (frames # <<>> => Top.saved) => sp = StackWords - Len(frames)
  <2>1. CASE frames = <<>>
    BY <1>5, <2>1, BoundsAssumption
  <2>2. CASE frames # <<>>
    BY <1>2, <1>4, <1>6, <2>2, BoundsAssumption
  <2> QED
    BY <2>1, <2>2
<1>8. HasSaved => sp = StackWords - Len(frames) /\ Len(frames) <= StackWords /\ Len(frames) > 0
  BY <1>2, <1>4, <1>7 DEF HasSaved
<1>9. HasSaved => sp \in 0 .. StackWords - 1 /\ memory[sp] = Kept(Top)
  BY <1>2, <1>4, <1>8, BoundsAssumption DEF HasSaved
<1> QED
  BY <1>2, <1>3, <1>4, <1>6, <1>7, <1>8, <1>9 DEF IsLeaf

\* A step that leaves the frames, the stack and LR alone.
LEMMA MovedInv ==
  ASSUME IInv, ~halted, pc' \in Int, t' \in BOOLEAN, Placed(pc', t', frames),
         UNCHANGED <<lr, sp, memory, halted, frames>>
  PROVE  IInv'
  BY DEF IInv, CallsTypeOK

\* A step that calls with the return address in LR.
LEMMA CalledInv ==
  ASSUME IInv, ~halted, MayCall, NEW ret \in Code, NEW thumb \in BOOLEAN,
         thumb <=> ret \in ThumbCode, lr' = Tagged(ret, thumb), Called(ret, thumb),
         pc' \in Code, t' \in BOOLEAN, t' <=> pc' \in ThumbCode,
         UNCHANGED <<sp, memory, halted>>
  PROVE  IInv'
<1> DEFINE f == [ret |-> ret, thumb |-> thumb, sp |-> sp, saved |-> FALSE]
<1>1. /\ frames \in Seq(Frame) /\ Chained(frames, memory)
      /\ frames # <<>> => frames[Len(frames)].saved
      /\ Len(frames) < MaxCalls /\ Len(frames) \in Nat /\ sp \in Int
  BY StackPointer DEF IInv, CallsTypeOK, MayCall, Top
<1>2. f \in Frame /\ ~f.saved /\ f.sp = StackWords - Len(frames)
  BY <1>1, StackPointer DEF Frame, Top
<1>3. Returnable(f) /\ f.ret # ReturnTrap /\ Kept(f) = lr'
  BY TrapFacts DEF Returnable, Kept
<1>4. frames' = Append(frames, f) /\ f.sp = sp
  BY DEF Called
<1> HIDE DEF f
<1>5. /\ frames' \in Seq(Frame) /\ Len(frames') = Len(frames) + 1 /\ frames' # <<>>
      /\ frames'[Len(frames')] = f
      /\ Chained(frames', memory)
  BY <1>1, <1>2, <1>3, <1>4, Pushed
<1>6. Registers(frames', sp', lr')
  BY <1>2, <1>3, <1>4, <1>5 DEF Registers
<1>7. Placed(pc', t', frames')
  BY DEF Placed
<1>8. CallsTypeOK'
  <2>1. lr' \in Int /\ pc' \in Int
    BY CodeFacts, TaggedFacts
  <2>2. Len(frames') <= MaxCalls
    BY <1>1, <1>5, BoundsAssumption
  <2> QED
    BY <1>5, <2>1, <2>2 DEF IInv, CallsTypeOK
<1> QED
  BY <1>5, <1>6, <1>7, <1>8 DEF IInv

\* A step that takes the innermost frame off and goes on where it says.
LEMMA ReturnedInv ==
  ASSUME IInv, ~halted, frames # <<>>, Returned,
         pc' = Top.ret, t' = Top.thumb, sp' = Top.sp, UNCHANGED <<lr, memory>>,
         halted' \in BOOLEAN
  PROVE  IInv'
<1>1. frames \in Seq(Frame) /\ Chained(frames, memory) /\ Len(frames) <= MaxCalls
  BY DEF IInv, CallsTypeOK
<1>2. /\ Top \in Frame
      /\ frames' \in Seq(Frame) /\ Len(frames') = Len(frames) - 1
      /\ Chained(frames', memory)
      /\ Registers(frames', Top.sp, lr)
      /\ Placed(Top.ret, Top.thumb, frames')
  BY <1>1, Popped DEF Returned, Top
<1>3. CallsTypeOK'
  <2>1. pc' \in Int /\ t' \in BOOLEAN /\ sp' \in Int
    BY <1>2, FrameFacts DEF Frame
  <2>2. Len(frames') <= MaxCalls
    BY <1>1, <1>2, StackPointer, BoundsAssumption
  <2> QED
    BY <1>2, <2>1, <2>2 DEF IInv, CallsTypeOK
<1> QED
  BY <1>2, <1>3 DEF IInv

\* When the CPU has halted only the types are left to show.
LEMMA HaltedInv ==
  ASSUME halted', CallsTypeOK'
  PROVE  IInv'
  BY DEF IInv
-----------------------------------------------------------------------------
\* A jump through a register leaves a counter and an instruction set.
LEMMA Exchanged ==
  ASSUME NEW value \in Int, Exchange(value)
  PROVE  pc' \in Int /\ t' \in BOOLEAN
<1>1. Even(value) \in Int
  BY DEF Even
<1>2. IsThumb(value) \in BOOLEAN
  BY DEF IsThumb
<1> QED
  BY <1>1, <1>2 DEF Exchange

\* The return address that LR or a word of the stack holds leads behind the call.
LEMMA ExchangedBack ==
  ASSUME NEW f \in Frame, Exchange(Kept(f))
  PROVE  pc' = f.ret /\ t' = f.thumb
  BY FrameFacts, Zenon DEF Exchange

\* Saving LR where the stack has room for it.
LEMMA SavedInv ==
  ASSUME IInv, ~halted, IsLeaf, sp - 1 \in 0 .. StackWords - 1,
         sp' = sp - 1, memory' = [memory EXCEPT ![sp - 1] = lr],
         frames' = [frames EXCEPT ![Len(frames)].saved = TRUE],
         pc' \in Code, t' \in BOOLEAN, t' <=> pc' \in ThumbCode, UNCHANGED <<lr, halted>>
  PROVE  IInv'
<1>1. /\ frames \in Seq(Frame) /\ Chained(frames, memory) /\ frames # <<>>
      /\ Len(frames) <= MaxCalls /\ lr \in Int /\ sp \in Int
      /\ memory \in [0 .. StackWords - 1 -> Int]
  BY DEF IInv, CallsTypeOK, IsLeaf
<1>2. Len(frames) \in Nat /\ sp = StackWords - Len(frames) + 1 /\ lr = Kept(frames[Len(frames)])
  BY StackPointer DEF Top
<1>3. sp - 1 = StackWords - Len(frames) /\ Len(frames) <= StackWords
  BY <1>1, <1>2, BoundsAssumption
<1>4. /\ frames' \in Seq(Frame) /\ Len(frames') = Len(frames) /\ frames' # <<>>
      /\ frames'[Len(frames')].saved
      /\ frames'[Len(frames')].sp = Top.sp
      /\ Chained(frames', memory')
  BY <1>1, <1>2, <1>3, SavedTop, Zenon DEF Top
<1>5. sp' = Top.sp - 1
  BY <1>1, <1>2, StackPointer, BoundsAssumption
<1>6. Registers(frames', sp', lr')
  BY <1>4, <1>5 DEF Registers
<1>7. Placed(pc', t', frames')
  BY DEF Placed
<1>8. CallsTypeOK'
  <2>1. pc' \in Int /\ sp' \in Int
    BY <1>1, CodeFacts
  <2>2. memory' \in [0 .. StackWords - 1 -> Int]
    BY <1>1
  <2> QED
    BY <1>1, <1>4, <2>1, <2>2 DEF IInv, CallsTypeOK
<1> QED
  BY <1>4, <1>6, <1>7, <1>8 DEF IInv

\* A return address from the stack: the word on top is the innermost frame's.
LEMMA PoppedTop ==
  ASSUME IInv, ~halted, HasSaved, NEW behind, PopTarget(behind), UNCHANGED <<lr, memory>>
  PROVE  IInv' /\ Returned /\ pc' = Top.ret /\ t' = Top.thumb /\ sp' = Top.sp
<1>1. /\ sp \in 0 .. StackWords - 1 /\ memory[sp] = Kept(Top) /\ Top \in Frame
      /\ Len(frames) \in Nat
      /\ sp = StackWords - Len(frames) /\ Top.sp = StackWords - Len(frames) + 1
      /\ frames # <<>> /\ halted \in BOOLEAN
  BY StackPointer DEF HasSaved, IInv, CallsTypeOK
<1>2. Exchange(Kept(Top)) /\ sp' = sp + 1 /\ Returned /\ UNCHANGED status
  BY <1>1 DEF PopTarget
<1>3. pc' = Top.ret /\ t' = Top.thumb
  BY <1>1, <1>2, ExchangedBack
<1>4. sp' = Top.sp
  BY <1>1, <1>2, BoundsAssumption
<1>5. IInv'
  BY <1>1, <1>2, <1>3, <1>4, ReturnedInv DEF status
<1> QED
  BY <1>2, <1>3, <1>4, <1>5

\* A return through LR of a function that has not saved it.
LEMMA ReturnedThroughLink ==
  ASSUME IInv, ~halted, IsLeaf, Exchange(lr), Returned, UNCHANGED <<lr, sp, memory>>,
         halted' \in BOOLEAN
  PROVE  IInv' /\ pc' = Top.ret /\ t' = Top.thumb /\ sp' = Top.sp
<1>1. lr = Kept(Top) /\ sp = Top.sp /\ Top \in Frame /\ frames # <<>>
  BY StackPointer DEF IsLeaf
<1>2. pc' = Top.ret /\ t' = Top.thumb
  BY <1>1, ExchangedBack
<1> QED
  BY <1>1, <1>2, ReturnedInv
-----------------------------------------------------------------------------
LEMMA OtherInv ==
  ASSUME IInv, Other
  PROVE  IInv'
<1>1. ~halted /\ t \in BOOLEAN /\ halted' = halted
  BY DEF Other, Running, status, IInv, CallsTypeOK
<1>2. pc' \in Code /\ (t <=> pc' \in ThumbCode)
  BY CodeFacts DEF Other
<1> QED
  BY <1>1, <1>2, MovedInv, CodeFacts DEF Other, Placed

LEMMA CallInv ==
  ASSUME IInv, Call
  PROVE  IInv'
<1>1. ASSUME NEW target \in ArmEntries, ArmBL(target)
      PROVE  IInv'
  <2>1. /\ pc + 4 \in Code /\ ~(pc + 4 \in ThumbCode)
        /\ target \in Code /\ target \notin ThumbCode
    BY <1>1, CodeFacts, CodeAssumption DEF ArmBL
  <2>2. pc + 4 \in Int /\ Tagged(pc + 4, FALSE) = pc + 4
    BY <2>1, CodeFacts DEF Tagged
  <2>3. /\ ~halted /\ MayCall /\ t' = t /\ ~t /\ pc' = target
        /\ lr' = Tagged(pc + 4, FALSE) /\ Called(pc + 4, FALSE)
        /\ UNCHANGED <<sp, memory, halted>>
    BY <1>1, <2>2 DEF ArmBL, Running, status
  <2>4. t' \in BOOLEAN
    BY <2>3 DEF IInv, CallsTypeOK
  <2> QED
    BY <2>1, <2>3, <2>4, CalledInv, Zenon
<1>2. ASSUME NEW target \in ThumbEntries, ThumbBL(target)
      PROVE  IInv'
  <2>1. pc + 4 \in Code /\ target \in Code /\ target \in ThumbCode
    BY <1>2, CodeFacts, CodeAssumption DEF ThumbBL
  <2> QED
    BY <1>2, <2>1, CalledInv DEF ThumbBL, Running, status
<1>3. ASSUME NEW target \in Callable, ArmBX(target) \/ ThumbBX(target) \/ ArmLoadPC(target)
      PROVE  IInv'
  <2>1. ~halted /\ IsLeaf /\ t \in BOOLEAN /\ UNCHANGED <<lr, sp, memory, halted, frames>>
    BY <1>3 DEF ArmBX, ThumbBX, ArmLoadPC, Running, status, IInv, CallsTypeOK
  <2>2. pc' = Even(target) /\ t' = IsThumb(target)
    <3>1. CASE ArmBX(target) \/ ThumbBX(target)
      BY <3>1 DEF ArmBX, ThumbBX, Exchange
    <3>2. CASE ArmLoadPC(target)
      <4>1. ~IsThumb(target) /\ ~t /\ pc' = target /\ t' = t /\ IsThumb(target) \in BOOLEAN
        BY <3>2 DEF ArmLoadPC, IsThumb
      <4>2. pc' = Even(target)
        BY <4>1, CallableFacts
      <4>3. t' = FALSE /\ IsThumb(target) = FALSE
        BY <2>1, <4>1, Zenon
      <4> QED
        BY <4>2, <4>3, Zenon
    <3> QED
      BY <1>3, <3>1, <3>2
  <2>3. pc' \in Int /\ t' \in BOOLEAN
    <3>1. target \in Int
      BY CallableFacts
    <3> QED
      BY <2>2, <3>1, Exchanged DEF Exchange
  <2>4. Placed(pc', t', frames)
    BY <2>1, <2>2, CallableFacts DEF Placed, IsLeaf, Top
  <2> QED
    BY <2>1, <2>3, <2>4, MovedInv
<1> QED
  BY <1>1, <1>2, <1>3 DEF Call

LEMMA SaveInv ==
  ASSUME IInv, ArmStoreLR \/ ThumbPushLR
  PROVE  IInv'
<1>1. /\ ~halted /\ IsLeaf /\ Store(sp - 1, lr)
      /\ frames' = [frames EXCEPT ![Len(frames)].saved = TRUE]
      /\ t' = t /\ lr' = lr
      /\ pc' \in Code /\ (t' <=> pc' \in ThumbCode)
      /\ sp - 1 >= 0 => sp' = sp - 1
      /\ sp' \in {sp, sp - 1}
  BY CodeFacts DEF ArmStoreLR, ThumbPushLR, Running
<1>2. CallsTypeOK
  BY DEF IInv
<1>3. CASE sp - 1 \in 0 .. StackWords - 1
  <2>1. memory' = [memory EXCEPT ![sp - 1] = lr] /\ halted' = halted
    BY <1>1, <1>3 DEF Store, status
  <2>2. sp' = sp - 1 /\ t' \in BOOLEAN
    BY <1>1, <1>2, <1>3 DEF CallsTypeOK
  <2> QED
    BY <1>1, <1>3, <2>1, <2>2, SavedInv
<1>4. CASE sp - 1 \notin 0 .. StackWords - 1
  <2>1. halted' = TRUE /\ memory' = memory
    BY <1>1, <1>4 DEF Store, Halt
  <2>2. pc' \in Int /\ sp' \in Int
    BY <1>1, <1>2, CodeFacts DEF CallsTypeOK
  <2>3. frames' \in Seq(Frame) /\ Len(frames') = Len(frames)
    <3>1. frames \in Seq(Frame) /\ Chained(frames, memory) /\ frames # <<>>
      BY <1>1 DEF IInv, CallsTypeOK, IsLeaf
    <3>2. Len(frames) \in 1 .. Len(frames) /\ frames[Len(frames)] \in Frame
      BY <3>1, EmptySeq, ElementOfSeq
    <3>3. [frames[Len(frames)] EXCEPT !.saved = TRUE] \in Frame
      BY <3>2 DEF Frame
    <3> QED
      BY <1>1, <3>1, <3>2, <3>3, ExceptSeq
  <2>4. CallsTypeOK'
    BY <1>1, <1>2, <2>1, <2>2, <2>3 DEF CallsTypeOK
  <2> QED
    BY <2>1, <2>4, HaltedInv
<1> QED
  BY <1>3, <1>4

\* Every return leads to where the innermost frame says, with the stack pointer of the
\* call, unless the instruction is not supported.
LEMMA ReturnInv ==
  ASSUME IInv, Return
  PROVE  /\ IInv'
         /\ UNCHANGED frames \/ (pc' = Top.ret /\ t' = Top.thumb /\ sp' = Top.sp)
<1>0. CallsTypeOK /\ ~halted
  BY DEF IInv, Return, ReturnBX, ReturnMove, ReturnLoad, ReturnThroughRegister, ReturnPop, Running
<1>1. CASE ReturnBX
  BY <1>0, <1>1, ReturnedThroughLink DEF ReturnBX, status, CallsTypeOK
<1>2. CASE ReturnMove
  <2>1. IsLeaf /\ Returned /\ UNCHANGED <<lr, sp, memory, halted>> /\ lr \in Int /\ t \in BOOLEAN
        /\ pc' = lr /\ t' = t /\ ~t /\ ~IsThumb(lr)
    BY <1>0, <1>2 DEF ReturnMove, status, CallsTypeOK
  <2>2. Even(lr) = lr /\ IsThumb(lr) \in BOOLEAN
    BY <2>1 DEF Even, IsThumb
  <2>3. Exchange(lr)
    <3>1. t' = FALSE /\ IsThumb(lr) = FALSE
      BY <2>1, <2>2, Zenon
    <3> QED
      BY <2>1, <2>2, <3>1, Zenon DEF Exchange
  <2> QED
    BY <1>0, <2>1, <2>3, ReturnedThroughLink DEF CallsTypeOK
<1>3. CASE ReturnLoad
  BY <1>0, <1>3, PoppedTop DEF ReturnLoad
<1>4. CASE ReturnThroughRegister
  BY <1>0, <1>4, PoppedTop DEF ReturnThroughRegister
<1>5. CASE ReturnPop
  <2>1. CASE IsPushPop(PopPC)
    BY <1>0, <1>5, <2>1, PoppedTop DEF ReturnPop
  <2>2. CASE ~IsPushPop(PopPC)
    <3>1. pc' = pc + 2 /\ halted' = TRUE /\ UNCHANGED <<t, sp, frames, lr, memory>>
      BY <1>5, <2>2 DEF ReturnPop, Halt
    <3>2. CallsTypeOK'
      BY <1>0, <3>1 DEF CallsTypeOK
    <3> QED
      BY <3>1, <3>2, HaltedInv
  <2> QED
    BY <2>1, <2>2
<1> QED
  BY <1>1, <1>2, <1>3, <1>4, <1>5 DEF Return

\* DispatchMessageW saves where to go on like a function, and calls the procedure.
LEMMA DispatchInv ==
  ASSUME IInv, NEW wndproc \in Functions, DispatchMessage(wndproc)
  PROVE  IInv' /\ (Len(frames') >= Len(frames))
<1>1. /\ ~halted /\ IsLeaf /\ pc = DispatchTrap /\ CallsTypeOK
      /\ Len(frames) < MaxCalls /\ Len(frames) \in Nat
      /\ frames \in Seq(Frame) /\ Chained(frames, memory) /\ frames # <<>>
      /\ lr = Kept(Top) /\ sp = StackWords - Len(frames) + 1 /\ Top \in Frame
  <2>1. ~halted /\ pc = DispatchTrap /\ Len(frames) < MaxCalls
    BY DEF DispatchMessage, AtTrap
  <2>2. CallsTypeOK /\ frames \in Seq(Frame) /\ Chained(frames, memory) /\ Placed(pc, t, frames)
    BY <2>1 DEF IInv, CallsTypeOK
  <2>3. frames # <<>> /\ ~Top.saved
    BY <2>1, <2>2, TrapFacts DEF Placed, Top
  <2> QED
    BY <2>1, <2>2, <2>3, StackPointer DEF IsLeaf
<1>2. sp' = sp - 1 /\ Store(sp - 1, Tagged(Even(lr), IsThumb(lr)))
  BY DEF DispatchMessage
<1>3. Tagged(Even(lr), IsThumb(lr)) = lr /\ lr \in Int
  BY <1>1, FrameFacts DEF Kept
<1>4. CASE sp - 1 \in 0 .. StackWords - 1
  <2> DEFINE below == [frames EXCEPT ![Len(frames)].saved = TRUE]
             f == [ret |-> ReturnTrap, thumb |-> FALSE, sp |-> sp - 1, saved |-> FALSE]
  <2>1. memory' = [memory EXCEPT ![sp - 1] = lr] /\ halted' = halted
    BY <1>2, <1>3, <1>4 DEF Store, status
  <2>2. Exchange(wndproc) /\ lr' = ReturnTrap /\ frames' = Append(below, f)
    BY <1>1, <2>1 DEF DispatchMessage
  <2>3. sp - 1 = StackWords - Len(frames) /\ Len(frames) <= StackWords
    BY <1>1, <1>4, BoundsAssumption
  <2>4. memory \in [0 .. StackWords - 1 -> Int] /\ lr = Kept(frames[Len(frames)])
    BY <1>1 DEF CallsTypeOK, Top
  <2>5. /\ below \in Seq(Frame) /\ Len(below) = Len(frames) /\ below # <<>>
        /\ below[Len(below)].saved
        /\ Chained(below, memory')
    BY <1>1, <2>1, <2>3, <2>4, SavedTop, Zenon
  <2>6. f \in Frame /\ ~f.saved /\ f.sp = sp - 1 /\ f.ret = ReturnTrap /\ ~f.thumb
    BY <1>1 DEF Frame, CallsTypeOK
  <2>7. Kept(f) = ReturnTrap /\ Returnable(f)
    BY <2>6, TrapFacts DEF Kept, Tagged, Returnable
  <2> HIDE DEF below, f
  <2>8. f.sp = StackWords - Len(below)
    BY <2>3, <2>5, <2>6
  <2>9. /\ frames' \in Seq(Frame) /\ Len(frames') = Len(frames) + 1 /\ frames' # <<>>
        /\ frames'[Len(frames')] = f
        /\ Chained(frames', memory')
    BY <2>2, <2>5, <2>6, <2>7, <2>8, Pushed
  <2>10. Registers(frames', sp', lr')
    BY <1>2, <2>2, <2>6, <2>7, <2>9 DEF Registers
  <2>11. pc' \in Code /\ (t' <=> pc' \in ThumbCode)
    BY <2>2, CallableFacts DEF Exchange
  <2>12. CallsTypeOK'
    <3>1. wndproc \in Int
      BY CallableFacts DEF Callable
    <3>2. pc' \in Int /\ t' \in BOOLEAN
      BY <2>2, <3>1, Exchanged
    <3>3. lr' \in Int /\ sp' \in Int
      BY <1>1, <1>2, <2>2, TrapFacts DEF CallsTypeOK
    <3>5. memory' \in [0 .. StackWords - 1 -> Int]
      BY <1>3, <2>1, <2>4
    <3>4. Len(frames') <= MaxCalls
      BY <1>1, <2>9, BoundsAssumption
    <3> QED
      BY <1>1, <2>1, <2>9, <3>2, <3>3, <3>4, <3>5 DEF CallsTypeOK
  <2> QED
    BY <1>1, <2>9, <2>10, <2>11, <2>12 DEF IInv, Placed
<1>5. CASE sp - 1 \notin 0 .. StackWords - 1
  <2>1. halted' = TRUE /\ memory' = memory
    BY <1>2, <1>5 DEF Store, Halt
  <2>2. Exchange(lr) /\ UNCHANGED <<lr, frames>>
    BY <2>1 DEF DispatchMessage
  <2>3. pc' \in Int /\ t' \in BOOLEAN /\ sp' \in Int
    BY <1>1, <1>2, <1>3, <2>2, Exchanged DEF CallsTypeOK
  <2>4. CallsTypeOK'
    BY <1>1, <2>1, <2>2, <2>3 DEF CallsTypeOK
  <2> QED
    BY <1>1, <2>1, <2>2, <2>4, HaltedInv
<1> QED
  BY <1>4, <1>5

\* The traps, whose handlers return like functions.
LEMMA TrapInv ==
  ASSUME IInv, Trap
  PROVE  /\ IInv'
         /\ \/ Len(frames') >= Len(frames)
            \/ pc' = Top.ret /\ t' = Top.thumb /\ sp' = Top.sp
<1>0. CallsTypeOK /\ ~halted /\ Placed(pc, t, frames)
  BY DEF IInv, Trap, ApiReturns, ExitProcess, DispatchNothing, ReturnWndproc, DispatchMessage,
         AtTrap
<1>1. pc \in {DispatchTrap, ApiTrap, ExitTrap} => IsLeaf
  BY <1>0, TrapFacts DEF Placed, IsLeaf, Top
<1>2. pc = ReturnTrap => HasSaved
  BY <1>0, TrapFacts DEF Placed, HasSaved, Top
<1>3. CASE ApiReturns \/ DispatchNothing \/ ExitProcess
  <2>1. IsLeaf
    BY <1>1, <1>3 DEF ApiReturns, DispatchNothing, ExitProcess, AtTrap
  <2>2. Exchange(lr) /\ Returned /\ UNCHANGED <<lr, sp, memory>> /\ halted' \in BOOLEAN
    BY <1>0, <1>3 DEF ApiReturns, DispatchNothing, ExitProcess, Halt, status, CallsTypeOK
  <2> QED
    BY <1>0, <2>1, <2>2, ReturnedThroughLink
<1>4. CASE ReturnWndproc
  <2>1. HasSaved
    BY <1>2, <1>4 DEF ReturnWndproc, AtTrap
  <2> QED
    BY <1>0, <1>4, <2>1, PoppedTop DEF ReturnWndproc
<1>5. ASSUME NEW wndproc \in Functions, DispatchMessage(wndproc)
      PROVE  IInv' /\ Len(frames') >= Len(frames)
  BY <1>5, DispatchInv
<1> QED
  BY <1>3, <1>4, <1>5 DEF Trap

LEMMA InitInv ==
  ASSUME Init
  PROVE  IInv
<1>1. PICK entry \in Functions : pc = Even(entry) /\ t = IsThumb(entry)
  BY DEF Init
<1>2. pc \in Code /\ (t <=> pc \in ThumbCode) /\ t \in BOOLEAN
  BY <1>1, CallableFacts DEF IsThumb
<1>3. frames = <<>> /\ sp = StackWords /\ lr = 0
      /\ memory \in [0 .. StackWords - 1 -> Int]
  BY DEF Init
<1>4. frames \in Seq(Frame) /\ Len(frames) = 0
  BY <1>3, EmptySeq
<1>5. CallsTypeOK
  <2>1. pc \in Int /\ sp \in Int /\ lr \in Int /\ Len(frames) <= MaxCalls
    BY <1>2, <1>3, <1>4, CodeFacts, BoundsAssumption
  <2>2. halted \in BOOLEAN
    BY DEF Init
  <2> QED
    BY <1>2, <1>3, <1>4, <2>1, <2>2 DEF CallsTypeOK
<1>6. Chained(frames, memory)
  BY <1>4 DEF Chained
<1> QED
  BY <1>2, <1>3, <1>5, <1>6 DEF IInv, Registers, Placed

LEMMA NextInv ==
  ASSUME IInv, [Next]_vars
  PROVE  IInv'
<1>1. CASE UNCHANGED vars
  BY <1>1 DEF IInv, CallsTypeOK, vars
<1>2. CASE Next
  BY <1>2, OtherInv, CallInv, SaveInv, ReturnInv, TrapInv DEF Next
<1> QED
  BY <1>1, <1>2

LEMMA Invariance == Spec => []IInv
<1> QED
  BY InitInv, NextInv, PTL DEF Spec

\* Code runs in the instruction set it was compiled for, after every mixture of calls,
\* veneers, API returns and nested window procedures (CECPU.c 61-66, 172-175, 278-280).
THEOREM ModeIsThatOfCode == Spec => []ModeMatchesCode
<1>1. IInv => ModeMatchesCode
  BY TrapFacts DEF IInv, Placed, ModeMatchesCode, Running
<1> QED
  BY <1>1, Invariance, PTL

\* The stack holds the return address and the instruction set of every active call that
\* has saved them, right below where the call found the stack pointer (CECPU.c 100-114,
\* 157-159, CEKernel.c 300).
THEOREM SavedReturnsStay == Spec => []SavedReturnsIntact
<1>1. IInv => SavedReturnsIntact
  <2> SUFFICES ASSUME IInv, ~halted, NEW k \in 1 .. Len(frames), frames[k].saved
               PROVE  memory[frames[k].sp - 1] = Tagged(frames[k].ret, frames[k].thumb)
    BY DEF SavedReturnsIntact
  <2>1. frames[k].sp = StackWords - k + 1 /\ memory[StackWords - k] = Kept(frames[k])
    BY DEF IInv, Chained
  <2>2. frames[k].sp - 1 = StackWords - k
    <3>1. k \in Int
      BY EmptySeq DEF IInv, CallsTypeOK
    <3> QED
      BY <2>1, <3>1, BoundsAssumption
  <2> QED
    BY <2>1, <2>2 DEF Kept
<1> QED
  BY <1>1, Invariance, PTL

\* Every return goes on behind the call it returns from, in the caller's instruction set
\* and with the stack pointer the call found, however deep functions, API calls and window
\* procedures are nested (CECPU.c 61-66, 115, 278-280, CEKernel.c 300-301).
THEOREM ReturnsLeadBehindCalls == Spec => ReturnsBehindCall
<1>1. ASSUME IInv, [Next]_vars
      PROVE  [Len(frames') < Len(frames) =>
                pc' = Top.ret /\ t' = Top.thumb /\ sp' = Top.sp]_vars
  <2> SUFFICES ASSUME Next, Len(frames') < Len(frames)
               PROVE  pc' = Top.ret /\ t' = Top.thumb /\ sp' = Top.sp
    BY <1>1
  <2>1. frames \in Seq(Frame) /\ Len(frames) \in Nat
    BY <1>1, EmptySeq DEF IInv, CallsTypeOK
  <2>2. frames' # frames
    BY <2>1
  <2>3. ~Other
    BY <2>2 DEF Other
  <2>4. ASSUME Call
        PROVE  FALSE
    <3>1. PICK ret, thumb : Called(ret, thumb)
      BY <2>2, <2>4 DEF Call, ArmBL, ThumbBL, ArmBX, ThumbBX, ArmLoadPC
    <3>2. Len(frames') = Len(frames) + 1
      BY <2>1, <3>1 DEF Called
    <3> QED
      BY <2>1, <3>2
  <2>5. ASSUME ArmStoreLR \/ ThumbPushLR
        PROVE  FALSE
    <3>1. frames' = [frames EXCEPT ![Len(frames)].saved = TRUE]
      BY <2>5 DEF ArmStoreLR, ThumbPushLR
    <3>2. Len(frames') = Len(frames)
      BY <2>1, <3>1
    <3> QED
      BY <2>1, <3>2
  <2>6. CASE Return
    BY <1>1, <2>2, <2>6, ReturnInv
  <2>7. CASE Trap
    BY <1>1, <2>1, <2>7, TrapInv
  <2> QED
    BY <2>3, <2>4, <2>5, <2>6, <2>7 DEF Next
<1> QED
  BY <1>1, Invariance, PTL DEF Spec, ReturnsBehindCall
-----------------------------------------------------------------------------
(***************************************************************************)
(* The arithmetic, for words of every width: comparisons, then the carry    *)
(* that goes from one word of a long number to the next.                    *)
(***************************************************************************)
\* What CMP leaves in the flags, in both instruction sets (CECPU.c 20-24, 142, 206).
LEMMA CompareFlags ==
  ASSUME NEW set \in {"ARM", "Thumb"}, NEW a \in Word, NEW b \in Word, NEW flags \in Flags
  PROVE  Executed(set, "CMP", a, b, flags).flags = set_sub_flags(flags, a, b, Wrap(a - b))
  BY DEF Executed, data_processing, thumb_alu, Subtracted

\* Replacing two flags, as set_nz does.
LEMMA SetNZ ==
  ASSUME NEW flags \in Flags, NEW n \in BOOLEAN, NEW z \in BOOLEAN
  PROVE  LET g == [flags EXCEPT !.n = n, !.z = z] IN g \in Flags /\ g.n = n /\ g.z = z
  BY DEF Flags

\* What set_sub_flags makes of every flag.
LEMMA FlagsSet ==
  ASSUME NEW flags \in Flags, NEW a, NEW b, NEW d
  PROVE  LET after == set_sub_flags(flags, a, b, d) IN
         /\ after \in Flags
         /\ after.n = Negative(d) /\ after.z = (d = 0)
         /\ after.c = (a >= b)
         /\ after.v = (Negative(a) # Negative(b) /\ Negative(a) # Negative(d))
<1> DEFINE v == Negative(a) # Negative(b) /\ Negative(a) # Negative(d)
           c == a >= b
           nz == set_nz(flags, d)
<1>1. Negative(d) \in BOOLEAN /\ (d = 0) \in BOOLEAN
  BY DEF Negative
<1>2. nz \in Flags /\ nz.n = Negative(d) /\ nz.z = (d = 0)
  BY <1>1, SetNZ DEF set_nz
<1>3. set_sub_flags(flags, a, b, d) = [nz EXCEPT !.c = c, !.v = v]
  BY DEF set_sub_flags
<1>4. c \in BOOLEAN /\ v \in BOOLEAN
  OBVIOUS
<1> HIDE DEF nz, c, v
<1>5. LET g == [nz EXCEPT !.c = c, !.v = v] IN
      g \in Flags /\ g.c = c /\ g.v = v /\ g.n = nz.n /\ g.z = nz.z
  BY <1>2, <1>4 DEF Flags
<1> QED
  BY <1>2, <1>3, <1>5 DEF c, v

\* The four flags as what they say of the two words.
LEMMA FlagsOfDifference ==
  ASSUME NEW a \in Word, NEW b \in Word, NEW flags \in Flags
  PROVE  LET after == set_sub_flags(flags, a, b, Wrap(a - b)) IN
         /\ after \in Flags
         /\ after.z <=> a = b
         /\ after.c <=> a >= b
         /\ after.n = after.v <=> Signed(a) >= Signed(b)
<1> DEFINE d == Wrap(a - b)
<1>1. /\ Half \in Nat \ {0}
      /\ a \in Int /\ 0 <= a /\ a < 2 * Half
      /\ b \in Int /\ 0 <= b /\ b < 2 * Half
  BY HalfAssumption DEF Word
<1>2. d \in Int /\ d = IF a < b THEN a - b + 2 * Half ELSE a - b
  BY <1>1 DEF Wrap
<1>3. d = 0 <=> a = b
  BY <1>1, <1>2
<1>4. (Negative(d) = (Negative(a) # Negative(b) /\ Negative(a) # Negative(d)))
        <=> Signed(a) >= Signed(b)
  BY <1>1, <1>2 DEF Signed, Negative
<1> HIDE DEF d
<1>5. LET after == set_sub_flags(flags, a, b, d) IN
      /\ after \in Flags
      /\ after.z <=> a = b
      /\ after.c <=> a >= b
      /\ after.n = after.v <=> Signed(a) >= Signed(b)
  <2> DEFINE f == set_sub_flags(flags, a, b, d)
  <2>1. /\ f \in Flags
        /\ f.n = Negative(d) /\ f.z = (d = 0) /\ f.c = (a >= b)
        /\ f.v = (Negative(a) # Negative(b) /\ Negative(a) # Negative(d))
    BY FlagsSet
  <2> HIDE DEF f
  <2>2. f.z <=> a = b
    BY <1>3, <2>1
  <2>3. f.n = f.v <=> Signed(a) >= Signed(b)
    BY <1>4, <2>1, Zenon
  <2> QED
    BY <2>1, <2>2, <2>3 DEF f
<1> QED
  BY <1>5 DEF d

\* Each condition as what it reads of the flags.
LEMMA Conditions ==
  ASSUME NEW f
  PROVE  /\ condition(f, "EQ") = f.z
         /\ condition(f, "NE") = ~f.z
         /\ condition(f, "CS") = f.c
         /\ condition(f, "CC") = ~f.c
         /\ condition(f, "HI") = (f.c /\ ~f.z)
         /\ condition(f, "LS") = (~f.c \/ f.z)
         /\ condition(f, "GE") = (f.n = f.v)
         /\ condition(f, "LT") = (f.n # f.v)
         /\ condition(f, "GT") = (~f.z /\ f.n = f.v)
         /\ condition(f, "LE") = (f.z \/ f.n # f.v)
  BY DEF condition

LEMMA Meanings ==
  ASSUME NEW a, NEW b
  PROVE  /\ Meant("EQ", a, b) = (a = b)
         /\ Meant("NE", a, b) = (a # b)
         /\ Meant("CS", a, b) = (a >= b)
         /\ Meant("CC", a, b) = (a < b)
         /\ Meant("HI", a, b) = (a > b)
         /\ Meant("LS", a, b) = (a <= b)
         /\ Meant("GE", a, b) = (Signed(a) >= Signed(b))
         /\ Meant("LT", a, b) = (Signed(a) < Signed(b))
         /\ Meant("GT", a, b) = (Signed(a) > Signed(b))
         /\ Meant("LE", a, b) = (Signed(a) <= Signed(b))
  BY DEF Meant

\* After CMP every condition says of the two words what it is named for, in both
\* instruction sets and for words of every width (CECPU.c 20-33).
THEOREM Comparisons == ComparisonsRight
<1> SUFFICES ASSUME NEW set \in {"ARM", "Thumb"}, NEW a \in Word, NEW b \in Word,
                    NEW flags \in Flags, NEW cond \in Compared
             PROVE  condition(Executed(set, "CMP", a, b, flags).flags, cond)
                      <=> Meant(cond, a, b)
  BY DEF ComparisonsRight
<1> DEFINE after == set_sub_flags(flags, a, b, Wrap(a - b))
<1>1. Executed(set, "CMP", a, b, flags).flags = after
  BY CompareFlags
<1>2. /\ after.z <=> a = b
      /\ after.c <=> a >= b
      /\ after.n = after.v <=> Signed(a) >= Signed(b)
  BY FlagsOfDifference
<1>3. {after.z, after.c, after.n, after.v} \subseteq BOOLEAN
  BY FlagsOfDifference DEF Flags
<1>4. a \in Int /\ b \in Int /\ Signed(a) \in Int /\ Signed(b) \in Int
      /\ (Signed(a) = Signed(b) <=> a = b)
  BY HalfAssumption DEF Word, Signed, Negative
<1> HIDE DEF after
<1>5. CASE cond \in {"EQ", "NE", "CS", "CC"}
  BY <1>1, <1>2, <1>3, <1>4, <1>5, Conditions, Meanings
<1>6. CASE cond \in {"HI", "LS"}
  BY <1>1, <1>2, <1>3, <1>4, <1>6, Conditions, Meanings
<1>7. CASE cond \in {"GE", "LT"}
  BY <1>1, <1>2, <1>3, <1>4, <1>7, Conditions, Meanings
<1>8. CASE cond \in {"GT", "LE"}
  BY <1>1, <1>2, <1>3, <1>4, <1>8, Conditions, Meanings
<1> QED
  BY <1>5, <1>6, <1>7, <1>8 DEF Compared

\* The condition that decides a branch or an instruction after a comparison is the one the
\* words satisfy (CECPU.c 20-33, 142, 206).
THEOREM BranchesFollowComparisons == Spec => []ConditionsRight
<1>1. ConditionsRight
  BY Comparisons DEF ConditionsRight
<1> QED
  BY <1>1, PTL

\* The two lowest words of a sum, and their remainder: k1 and k2 are what the first and the
\* second word have too much or too little.
LEMMA TwoWords ==
  ASSUME NEW W \in Nat \ {0}, NEW s1 \in Int, NEW s2 \in Int,
         NEW k1 \in Int, NEW k2 \in Int, NEW r1 \in 0 .. W - 1, NEW r2 \in 0 .. W - 1,
         s1 = r1 + W * k1, s2 + k1 = r2 + W * k2
  PROVE  /\ s1 + W * s2 = (W * W) * k2 + (r1 + W * r2)
         /\ (s1 + W * s2) % (W * W) = r1 + W * r2
<1>1. s2 = r2 + W * k2 - k1
  OBVIOUS
<1>2. s1 + W * s2 = (W * W) * k2 + (r1 + W * r2)
  BY <1>1
<1>3. W * W \in Nat \ {0} /\ r1 + W * r2 \in 0 .. W * W - 1
  BY Digits
<1>4. s1 + W * s2 \in Int
  OBVIOUS
<1>5. (s1 + W * s2) % (W * W) = r1 + W * r2
  BY <1>2, <1>3, <1>4, RemainderIs
<1> QED
  BY <1>2, <1>5

\* The third word takes c where it ought to take k2.
LEMMA ThreeWords ==
  ASSUME NEW W \in Nat, W >= 2, NEW s1 \in Int, NEW s2 \in Int, NEW s3 \in Int,
         NEW k1 \in Int, NEW k2 \in -1 .. 1, NEW k3 \in Int, NEW c \in -1 .. 1,
         k2 - c \in -1 .. 1,
         NEW r1 \in 0 .. W - 1, NEW r2 \in 0 .. W - 1, NEW r3 \in 0 .. W - 1,
         s1 = r1 + W * k1, s2 + k1 = r2 + W * k2, s3 + c = r3 + W * k3
  PROVE  (s1 + W * s2 + W * W * s3) % (W * W * W) = r1 + W * r2 + W * W * r3 <=> k2 = c
<1> DEFINE p == r1 + W * r2
           V == W * W
           total == s1 + W * s2 + V * s3
<1>1. s1 + W * s2 = V * k2 + p /\ V \in Nat \ {0} /\ p \in 0 .. V - 1
  BY TwoWords, Digits
<1>2. s3 = r3 + W * k3 - c
  OBVIOUS
<1>3. V * W \in Nat \ {0} /\ p + V * r3 \in 0 .. V * W - 1
  BY <1>1, Digits
<1> HIDE DEF V, p
<1>4. total = (V * W) * k3 + (p + V * r3) + V * (k2 - c)
  BY <1>1, <1>2, <1>3
<1>5. total \in Int
  BY <1>1
<1> HIDE DEF total
<1>6. CASE k2 = c
  <2>1. total = (V * W) * k3 + (p + V * r3)
    BY <1>1, <1>4, <1>6
  <2>2. total % (V * W) = p + V * r3
    BY <1>3, <1>5, <2>1, RemainderIs
  <2> QED
    BY <1>6, <2>2 DEF total, V, p
<1>7. CASE k2 # c
  <2> SUFFICES ASSUME total % (V * W) = p + V * r3
               PROVE  FALSE
    BY <1>7 DEF total, V, p
  <2>1. PICK q \in Int : total = (V * W) * q + (p + V * r3)
    <3>1. total \div (V * W) \in Int /\ total = (V * W) * (total \div (V * W)) + (total % (V * W))
      BY <1>3, <1>5, IntegerDivision
    <3> QED
      BY <3>1
  <2>2. V * (k2 - c) = V * (W * (q - k3))
    BY <1>1, <1>3, <1>4, <2>1
  <2>3. k2 - c = W * (q - k3)
    <3> DEFINE u == k2 - c
               w == W * (q - k3)
    <3>1. u \in Int /\ w \in Int /\ V * u = V * w
      BY <2>2
    <3> HIDE DEF u, w
    <3>2. u = w
      BY <1>1, <3>1
    <3> QED
      BY <3>2 DEF u, w
  <2> QED
    BY <1>7, <2>3
<1> QED
  BY <1>6, <1>7

\* C, as the two flag functions set it.
LEMMA FlagC ==
  ASSUME NEW flags, flags \in Flags, NEW a, NEW b, NEW r
  PROVE  /\ set_add_flags(flags, a, b, r) \in Flags
         /\ set_add_flags(flags, a, b, r).c = (a + b >= 2 * Half)
         /\ set_sub_flags(flags, a, b, r) \in Flags
         /\ set_sub_flags(flags, a, b, r).c = (a >= b)
<1> DEFINE add == (Negative(a) = Negative(b) /\ Negative(a) # Negative(r))
           sub == (Negative(a) # Negative(b) /\ Negative(a) # Negative(r))
           carry == (a + b >= 2 * Half)
           enough == (a >= b)
           nz == set_nz(flags, r)
<1>1. Negative(r) \in BOOLEAN /\ (r = 0) \in BOOLEAN /\ add \in BOOLEAN /\ sub \in BOOLEAN
      /\ carry \in BOOLEAN /\ enough \in BOOLEAN
  BY DEF Negative
<1>2. nz \in Flags
  BY <1>1 DEF set_nz, Flags
<1>3. /\ set_add_flags(flags, a, b, r) = [nz EXCEPT !.c = carry, !.v = add]
      /\ set_sub_flags(flags, a, b, r) = [nz EXCEPT !.c = enough, !.v = sub]
  BY DEF set_add_flags, set_sub_flags
<1> HIDE DEF nz, add, sub, carry, enough
<1>4. /\ [nz EXCEPT !.c = carry, !.v = add] \in Flags
      /\ [nz EXCEPT !.c = carry, !.v = add].c = carry
      /\ [nz EXCEPT !.c = enough, !.v = sub] \in Flags
      /\ [nz EXCEPT !.c = enough, !.v = sub].c = enough
  BY <1>1, <1>2 DEF Flags
<1> QED
  BY <1>3, <1>4 DEF carry, enough

\* What one instruction of a chain does in either instruction set.
LEMMA OneWord ==
  ASSUME NEW set \in {"ARM", "Thumb"}, NEW a, NEW b, NEW flags \in Flags
  PROVE  /\ Executed(set, "ADD", a, b, flags).result = Wrap(a + b)
         /\ Executed(set, "ADC", a, b, flags).result = Wrap(a + b + Carry(flags))
         /\ Executed(set, "SUB", a, b, flags).result = Wrap(a - b)
         /\ Executed(set, "SBC", a, b, flags).result = Wrap(a - b - Borrow(flags))
         /\ \A op \in {"ADD", "ADC"} :
               /\ Executed(set, op, a, b, flags).flags \in Flags
               /\ Executed(set, op, a, b, flags).flags.c = (a + b >= 2 * Half)
         /\ \A op \in {"SUB", "SBC"} :
               /\ Executed(set, op, a, b, flags).flags \in Flags
               /\ Executed(set, op, a, b, flags).flags.c = (a >= b)
<1>1. /\ Executed(set, "ADD", a, b, flags) = Added(flags, a, b, Wrap(a + b))
      /\ Executed(set, "ADC", a, b, flags) = Added(flags, a, b, Wrap(a + b + Carry(flags)))
      /\ Executed(set, "SUB", a, b, flags) = Subtracted(flags, a, b, Wrap(a - b))
      /\ Executed(set, "SBC", a, b, flags) = Subtracted(flags, a, b, Wrap(a - b - Borrow(flags)))
  BY DEF Executed, data_processing, thumb_alu
<1>2. ASSUME NEW r
      PROVE  /\ Added(flags, a, b, r).result = r
             /\ Added(flags, a, b, r).flags \in Flags
             /\ Added(flags, a, b, r).flags.c = (a + b >= 2 * Half)
             /\ Subtracted(flags, a, b, r).result = r
             /\ Subtracted(flags, a, b, r).flags \in Flags
             /\ Subtracted(flags, a, b, r).flags.c = (a >= b)
  BY FlagC DEF Added, Subtracted
<1> QED
  BY <1>1, <1>2

\* By how many words a sum or a difference is out of range.
Excess(s) == IF s < 0 THEN -1 ELSE IF s >= 2 * Half THEN 1 ELSE 0

LEMMA Wrapped ==
  ASSUME NEW s \in Int, -(2 * Half) <= s, s < 4 * Half
  PROVE  Wrap(s) \in 0 .. 2 * Half - 1 /\ s = Wrap(s) + 2 * Half * Excess(s)
<1>1. Half \in Nat \ {0}
  BY HalfAssumption
<1>2. CASE s < 0
  BY <1>1, <1>2 DEF Wrap, Excess
<1>3. CASE ~(s < 0) /\ s >= 2 * Half
  BY <1>1, <1>3 DEF Wrap, Excess
<1>4. CASE ~(s < 0) /\ ~(s >= 2 * Half)
  BY <1>1, <1>4 DEF Wrap, Excess
<1> QED
  BY <1>2, <1>3, <1>4

\* What the three instructions of a chain leave.
LEMMA ChainIs ==
  ASSUME NEW set \in {"ARM", "Thumb"}, NEW x \in Word \X Word \X Word,
         NEW y \in Word \X Word \X Word
  PROVE  /\ LET c1 == IF x[1] + y[1] >= 2 * Half THEN 1 ELSE 0
                c2 == IF x[2] + y[2] >= 2 * Half THEN 1 ELSE 0
            IN Chain(set, "ADD", "ADC", x, y) =
                 <<Wrap(x[1] + y[1]), Wrap(x[2] + y[2] + c1), Wrap(x[3] + y[3] + c2)>>
         /\ LET b1 == IF x[1] >= y[1] THEN 0 ELSE 1
                b2 == IF x[2] >= y[2] THEN 0 ELSE 1
            IN Chain(set, "SUB", "SBC", x, y) =
                 <<Wrap(x[1] - y[1]), Wrap(x[2] - y[2] - b1), Wrap(x[3] - y[3] - b2)>>
<1> DEFINE start == [n |-> FALSE, z |-> FALSE, c |-> FALSE, v |-> FALSE]
<1>1. start \in Flags
  BY DEF Flags
<1> HIDE DEF start
<1>2. LET low == Executed(set, "ADD", x[1], y[1], start)
          middle == Executed(set, "ADC", x[2], y[2], low.flags)
          high == Executed(set, "ADC", x[3], y[3], middle.flags)
      IN /\ low.result = Wrap(x[1] + y[1])
         /\ middle.result = Wrap(x[2] + y[2] + (IF x[1] + y[1] >= 2 * Half THEN 1 ELSE 0))
         /\ high.result = Wrap(x[3] + y[3] + (IF x[2] + y[2] >= 2 * Half THEN 1 ELSE 0))
  <2> DEFINE low == Executed(set, "ADD", x[1], y[1], start)
             middle == Executed(set, "ADC", x[2], y[2], low.flags)
             high == Executed(set, "ADC", x[3], y[3], middle.flags)
  <2>1. /\ low.result = Wrap(x[1] + y[1])
        /\ low.flags \in Flags /\ low.flags.c = (x[1] + y[1] >= 2 * Half)
    BY <1>1, OneWord
  <2> HIDE DEF low
  <2>2. /\ middle.result = Wrap(x[2] + y[2] + Carry(low.flags))
        /\ middle.flags \in Flags /\ middle.flags.c = (x[2] + y[2] >= 2 * Half)
    BY <2>1, OneWord
  <2> HIDE DEF middle
  <2>3. high.result = Wrap(x[3] + y[3] + Carry(middle.flags))
    BY <2>2, OneWord
  <2> HIDE DEF high
  <2>4. /\ Carry(low.flags) = IF x[1] + y[1] >= 2 * Half THEN 1 ELSE 0
        /\ Carry(middle.flags) = IF x[2] + y[2] >= 2 * Half THEN 1 ELSE 0
    BY <2>1, <2>2 DEF Carry
  <2> QED
    BY <2>1, <2>2, <2>3, <2>4 DEF low, middle, high
<1>3. LET low == Executed(set, "SUB", x[1], y[1], start)
          middle == Executed(set, "SBC", x[2], y[2], low.flags)
          high == Executed(set, "SBC", x[3], y[3], middle.flags)
      IN /\ low.result = Wrap(x[1] - y[1])
         /\ middle.result = Wrap(x[2] - y[2] - (IF x[1] >= y[1] THEN 0 ELSE 1))
         /\ high.result = Wrap(x[3] - y[3] - (IF x[2] >= y[2] THEN 0 ELSE 1))
  <2> DEFINE low == Executed(set, "SUB", x[1], y[1], start)
             middle == Executed(set, "SBC", x[2], y[2], low.flags)
             high == Executed(set, "SBC", x[3], y[3], middle.flags)
  <2>1. /\ low.result = Wrap(x[1] - y[1])
        /\ low.flags \in Flags /\ low.flags.c = (x[1] >= y[1])
    BY <1>1, OneWord
  <2> HIDE DEF low
  <2>2. /\ middle.result = Wrap(x[2] - y[2] - Borrow(low.flags))
        /\ middle.flags \in Flags /\ middle.flags.c = (x[2] >= y[2])
    BY <2>1, OneWord
  <2> HIDE DEF middle
  <2>3. high.result = Wrap(x[3] - y[3] - Borrow(middle.flags))
    BY <2>2, OneWord
  <2> HIDE DEF high
  <2>4. /\ Borrow(low.flags) = IF x[1] >= y[1] THEN 0 ELSE 1
        /\ Borrow(middle.flags) = IF x[2] >= y[2] THEN 0 ELSE 1
    BY <2>1, <2>2 DEF Borrow
  <2> QED
    BY <2>1, <2>2, <2>3, <2>4 DEF low, middle, high
<1> QED
  BY <1>2, <1>3 DEF Chain, start

LEMMA SumExact ==
  ASSUME NEW x1 \in Word, NEW x2 \in Word, NEW x3 \in Word,
         NEW y1 \in Word, NEW y2 \in Word, NEW y3 \in Word
  PROVE  LET W == 2 * Half
             c1 == IF x1 + y1 >= W THEN 1 ELSE 0
             c2 == IF x2 + y2 >= W THEN 1 ELSE 0
             r1 == Wrap(x1 + y1)
             r2 == Wrap(x2 + y2 + c1)
             r3 == Wrap(x3 + y3 + c2)
             s1 == x1 + y1
             s2 == x2 + y2
             s3 == x3 + y3
         IN  /\ (s1 + W * s2) % (W * W) = r1 + W * r2
             /\ (s1 + W * s2 + W * W * s3) % (W * W * W) = r1 + W * r2 + W * W * r3
                  <=> ~(x1 + y1 >= W /\ x2 + y2 = W - 1)
<1> DEFINE W == 2 * Half
           c1 == IF x1 + y1 >= W THEN 1 ELSE 0
           c2 == IF x2 + y2 >= W THEN 1 ELSE 0
           k2 == IF x2 + y2 + c1 >= W THEN 1 ELSE 0
           k3 == IF x3 + y3 + c2 >= W THEN 1 ELSE 0
           r1 == Wrap(x1 + y1)
           r2 == Wrap(x2 + y2 + c1)
           r3 == Wrap(x3 + y3 + c2)
           s1 == x1 + y1
           s2 == x2 + y2
           s3 == x3 + y3
<1>0. /\ Half \in Nat \ {0} /\ W \in Nat \ {0} /\ W >= 2
      /\ x1 \in 0 .. W - 1 /\ x2 \in 0 .. W - 1 /\ x3 \in 0 .. W - 1
      /\ y1 \in 0 .. W - 1 /\ y2 \in 0 .. W - 1 /\ y3 \in 0 .. W - 1
  BY HalfAssumption DEF Word
<1>1. /\ c1 \in 0 .. 1 /\ c2 \in 0 .. 1 /\ k2 \in 0 .. 1 /\ k3 \in 0 .. 1
      /\ s1 \in Int /\ s2 \in Int /\ s3 \in Int
      /\ k2 - c2 \in -1 .. 1
      /\ k2 = c2 <=> ~(x1 + y1 >= W /\ x2 + y2 = W - 1)
  BY <1>0
<1>2. r1 \in 0 .. W - 1 /\ s1 = r1 + W * c1
  <2>1. s1 \in Int /\ -W <= s1 /\ s1 < 2 * W /\ Excess(s1) = c1
    BY <1>0 DEF Excess
  <2> QED
    BY <1>0, <2>1, Wrapped
<1>3. r2 \in 0 .. W - 1 /\ s2 + c1 = r2 + W * k2
  <2>1. s2 + c1 \in Int /\ -W <= s2 + c1 /\ s2 + c1 < 2 * W /\ Excess(s2 + c1) = k2
    BY <1>0 DEF Excess
  <2> HIDE DEF c1
  <2> QED
    BY <1>0, <2>1, Wrapped
<1>4. r3 \in 0 .. W - 1 /\ s3 + c2 = r3 + W * k3
  <2>1. s3 + c2 \in Int /\ -W <= s3 + c2 /\ s3 + c2 < 2 * W /\ Excess(s3 + c2) = k3
    BY <1>0 DEF Excess
  <2> HIDE DEF c2
  <2> QED
    BY <1>0, <2>1, Wrapped
<1> HIDE DEF W, c1, c2, k2, k3, r1, r2, r3, s1, s2, s3
<1>5. (s1 + W * s2) % (W * W) = r1 + W * r2
  <2>1. c1 \in Int /\ k2 \in Int
    BY <1>1
  <2> QED
    BY <1>0, <1>1, <1>2, <1>3, <2>1, TwoWords
<1>6. (s1 + W * s2 + W * W * s3) % (W * W * W) = r1 + W * r2 + W * W * r3 <=> k2 = c2
  <2>1. c1 \in Int /\ k2 \in -1 .. 1 /\ k3 \in Int /\ c2 \in -1 .. 1 /\ W \in Nat
    BY <1>0, <1>1
  <2> QED
    BY <1>0, <1>1, <1>2, <1>3, <1>4, <2>1, ThreeWords
<1> QED
  BY <1>1, <1>5, <1>6, Zenon DEF W, c1, c2, r1, r2, r3, s1, s2, s3

LEMMA DifferenceExact ==
  ASSUME NEW x1 \in Word, NEW x2 \in Word, NEW x3 \in Word,
         NEW y1 \in Word, NEW y2 \in Word, NEW y3 \in Word
  PROVE  LET W == 2 * Half
             b1 == IF x1 >= y1 THEN 0 ELSE 1
             b2 == IF x2 >= y2 THEN 0 ELSE 1
             r1 == Wrap(x1 - y1)
             r2 == Wrap(x2 - y2 - b1)
             r3 == Wrap(x3 - y3 - b2)
             s1 == x1 - y1
             s2 == x2 - y2
             s3 == x3 - y3
         IN  /\ (s1 + W * s2) % (W * W) = r1 + W * r2
             /\ (s1 + W * s2 + W * W * s3) % (W * W * W) = r1 + W * r2 + W * W * r3
                  <=> ~(x1 < y1 /\ x2 = y2)
<1> DEFINE W == 2 * Half
           b1 == IF x1 >= y1 THEN 0 ELSE 1
           b2 == IF x2 >= y2 THEN 0 ELSE 1
           k1 == IF x1 >= y1 THEN 0 ELSE -1
           c2 == IF x2 >= y2 THEN 0 ELSE -1
           k2 == IF x2 - y2 - b1 < 0 THEN -1 ELSE 0
           k3 == IF x3 - y3 - b2 < 0 THEN -1 ELSE 0
           r1 == Wrap(x1 - y1)
           r2 == Wrap(x2 - y2 - b1)
           r3 == Wrap(x3 - y3 - b2)
           s1 == x1 - y1
           s2 == x2 - y2
           s3 == x3 - y3
<1>0. /\ Half \in Nat \ {0} /\ W \in Nat \ {0} /\ W >= 2
      /\ x1 \in 0 .. W - 1 /\ x2 \in 0 .. W - 1 /\ x3 \in 0 .. W - 1
      /\ y1 \in 0 .. W - 1 /\ y2 \in 0 .. W - 1 /\ y3 \in 0 .. W - 1
  BY HalfAssumption DEF Word
<1>1. /\ k1 \in -1 .. 0 /\ c2 \in -1 .. 0 /\ k2 \in -1 .. 0 /\ k3 \in -1 .. 0
      /\ s1 \in Int /\ s2 \in Int /\ s3 \in Int
      /\ k2 - c2 \in -1 .. 1
  <2>1. k1 \in -1 .. 0 /\ c2 \in -1 .. 0
    OBVIOUS
  <2>2. k2 \in -1 .. 0
    OBVIOUS
  <2>3. k3 \in -1 .. 0
    OBVIOUS
  <2>4. s1 \in Int /\ s2 \in Int /\ s3 \in Int
    BY <1>0
  <2> HIDE DEF k1, c2, k2, k3, s1, s2, s3
  <2> QED
    BY <2>1, <2>2, <2>3, <2>4
<1>9. k2 = c2 <=> ~(x1 < y1 /\ x2 = y2)
  BY <1>0
<1>2. r1 \in 0 .. W - 1 /\ s1 = r1 + W * k1
  <2>1. s1 \in Int /\ -W <= s1 /\ s1 < 2 * W /\ Excess(s1) = k1
    BY <1>0 DEF Excess
  <2> QED
    BY <1>0, <2>1, Wrapped
<1>3. r2 \in 0 .. W - 1 /\ s2 + k1 = r2 + W * k2
  <2>1. /\ s2 - b1 \in Int /\ -W <= s2 - b1 /\ s2 - b1 < 2 * W /\ Excess(s2 - b1) = k2
        /\ s2 + k1 = s2 - b1
    BY <1>0 DEF Excess
  <2> HIDE DEF b1, k1
  <2> QED
    BY <1>0, <2>1, Wrapped
<1>4. r3 \in 0 .. W - 1 /\ s3 + c2 = r3 + W * k3
  <2>1. /\ s3 - b2 \in Int /\ -W <= s3 - b2 /\ s3 - b2 < 2 * W /\ Excess(s3 - b2) = k3
        /\ s3 + c2 = s3 - b2
    BY <1>0 DEF Excess
  <2> HIDE DEF b2, c2
  <2> QED
    BY <1>0, <2>1, Wrapped
<1> HIDE DEF W, b1, b2, k1, c2, k2, k3, r1, r2, r3, s1, s2, s3
<1>5. (s1 + W * s2) % (W * W) = r1 + W * r2
  <2>1. k1 \in Int /\ k2 \in Int
    BY <1>1
  <2> QED
    BY <1>0, <1>1, <1>2, <1>3, <2>1, TwoWords
<1>6. (s1 + W * s2 + W * W * s3) % (W * W * W) = r1 + W * r2 + W * W * r3 <=> k2 = c2
  <2>1. k1 \in Int /\ k2 \in -1 .. 1 /\ k3 \in Int /\ c2 \in -1 .. 1 /\ W \in Nat
    BY <1>0, <1>1
  <2> QED
    BY <1>0, <1>1, <1>2, <1>3, <1>4, <2>1, ThreeWords
<1> QED
  BY <1>5, <1>6, <1>9, Zenon DEF W, b1, b2, r1, r2, r3, s1, s2, s3

\* 64-bit additions and subtractions are right for words of every width, and 96-bit ones
\* are wrong exactly when a carry or a borrow goes through the middle word (CECPU.c 15-24,
\* 138-139, 203-204).
THEOREM LongArithmetic == LongArithmeticExact
<1> DEFINE W == 2 * Half
<1> SUFFICES ASSUME NEW set \in {"ARM", "Thumb"}, NEW x \in Word \X Word \X Word,
                    NEW y \in Word \X Word \X Word
             PROVE  LET sum == Chain(set, "ADD", "ADC", x, y)
                        difference == Chain(set, "SUB", "SBC", x, y)
                    IN  /\ Pair(sum) = (Pair(x) + Pair(y)) % (W * W)
                        /\ Pair(difference) = (Pair(x) - Pair(y)) % (W * W)
                        /\ Triple(sum) = (Triple(x) + Triple(y)) % (W * W * W)
                             <=> ~(x[1] + y[1] >= W /\ x[2] + y[2] = W - 1)
                        /\ Triple(difference) = (Triple(x) - Triple(y)) % (W * W * W)
                             <=> ~(x[1] < y[1] /\ x[2] = y[2])
  BY DEF LongArithmeticExact
<1>1. /\ x[1] \in Word /\ x[2] \in Word /\ x[3] \in Word
      /\ y[1] \in Word /\ y[2] \in Word /\ y[3] \in Word
  OBVIOUS
<1>2. /\ x[1] \in Int /\ x[2] \in Int /\ x[3] \in Int
      /\ y[1] \in Int /\ y[2] \in Int /\ y[3] \in Int
      /\ Half \in Int
  BY <1>1, HalfAssumption DEF Word
<1>3. /\ Pair(x) + Pair(y) = (x[1] + y[1]) + W * (x[2] + y[2])
      /\ Pair(x) - Pair(y) = (x[1] - y[1]) + W * (x[2] - y[2])
      /\ Triple(x) + Triple(y) = (x[1] + y[1]) + W * (x[2] + y[2]) + W * W * (x[3] + y[3])
      /\ Triple(x) - Triple(y) = (x[1] - y[1]) + W * (x[2] - y[2]) + W * W * (x[3] - y[3])
  BY <1>2 DEF Pair, Triple
<1>4. ASSUME NEW r1 \in Int, NEW r2 \in Int, NEW r3 \in Int
      PROVE  /\ Pair(<<r1, r2, r3>>) = r1 + W * r2
             /\ Triple(<<r1, r2, r3>>) = r1 + W * r2 + W * W * r3
  BY <1>2 DEF Pair, Triple
<1>5. \A s \in Int : Wrap(s) \in Int
  BY <1>2 DEF Wrap, Excess
<1> DEFINE c1 == IF x[1] + y[1] >= W THEN 1 ELSE 0
           c2 == IF x[2] + y[2] >= W THEN 1 ELSE 0
           b1 == IF x[1] >= y[1] THEN 0 ELSE 1
           b2 == IF x[2] >= y[2] THEN 0 ELSE 1
           r1 == Wrap(x[1] + y[1])
           r2 == Wrap(x[2] + y[2] + c1)
           r3 == Wrap(x[3] + y[3] + c2)
           d1 == Wrap(x[1] - y[1])
           d2 == Wrap(x[2] - y[2] - b1)
           d3 == Wrap(x[3] - y[3] - b2)
<1>6. /\ r1 \in Int /\ r2 \in Int /\ r3 \in Int
      /\ d1 \in Int /\ d2 \in Int /\ d3 \in Int
  BY <1>2, <1>5
<1>7. /\ (x[1] + y[1] + W * (x[2] + y[2])) % (W * W) = r1 + W * r2
      /\ (x[1] + y[1] + W * (x[2] + y[2]) + W * W * (x[3] + y[3])) % (W * W * W)
           = r1 + W * r2 + W * W * r3
             <=> ~(x[1] + y[1] >= W /\ x[2] + y[2] = W - 1)
  BY <1>1, SumExact
<1>8. /\ (x[1] - y[1] + W * (x[2] - y[2])) % (W * W) = d1 + W * d2
      /\ (x[1] - y[1] + W * (x[2] - y[2]) + W * W * (x[3] - y[3])) % (W * W * W)
           = d1 + W * d2 + W * W * d3
             <=> ~(x[1] < y[1] /\ x[2] = y[2])
  BY <1>1, DifferenceExact
<1>9. /\ Chain(set, "ADD", "ADC", x, y) = <<r1, r2, r3>>
      /\ Chain(set, "SUB", "SBC", x, y) = <<d1, d2, d3>>
  BY ChainIs, Zenon
<1> HIDE DEF W, r1, r2, r3, d1, d2, d3
<1> QED
  BY <1>3, <1>4, <1>6, <1>7, <1>8, <1>9

\* The same of the arithmetic a program runs (CECPU.c 15-24).
THEOREM CarriesAreExact == Spec => []CarriesExact
<1>1. CarriesExact
  BY LongArithmetic DEF CarriesExact
<1> QED
  BY <1>1, PTL
==============================================================================
