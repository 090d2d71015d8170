-------------------------------- MODULE CEALU --------------------------------
(***************************************************************************)
(* Arithmetic of the interpreter: what the instructions that add, subtract  *)
(* and compare leave in a register and in the flags, in both instruction    *)
(* sets, and the conditions that read the flags.  The logical instructions   *)
(* and the shifts, which set N and Z only, are left out.                    *)
(*                                                                          *)
(* A word is a number below 2 * Half, and Half is 2^31 in the code.         *)
(***************************************************************************)
EXTENDS Integers

CONSTANT Half   \* 2^31

ASSUME HalfAssumption == Half \in Nat \ {0}

Word == 0 .. 2 * Half - 1

Flags == [n : BOOLEAN, z : BOOLEAN, c : BOOLEAN, v : BOOLEAN]

\* The 32-bit result of an addition or a subtraction, which may be W too large or too
\* small by one unit of the carry at most.
Wrap(x) ==
  IF x < 0 THEN x + 2 * Half ELSE IF x >= 2 * Half THEN x - 2 * Half ELSE x

Negative(x) == x >= Half

\* The carry that goes into an addition, and the borrow that goes into a subtraction.
Carry(flags) == IF flags.c THEN 1 ELSE 0
Borrow(flags) == IF flags.c THEN 0 ELSE 1
-----------------------------------------------------------------------------
set_nz(flags, value) == [flags EXCEPT !.n = Negative(value), !.z = (value = 0)]

\* C is the carry of a + b, whatever carry went into result.
set_add_flags(flags, a, b, result) ==
  [set_nz(flags, result) EXCEPT
     !.c = (a + b >= 2 * Half),
     !.v = (Negative(a) = Negative(b) /\ Negative(a) # Negative(result))]

\* Faulty variant of set_sub_flags: C is not set for equal operands.
SubFlagsStrict(flags, a, b, result) ==
  [set_nz(flags, result) EXCEPT
     !.c = (a > b),
     !.v = (Negative(a) # Negative(b) /\ Negative(a) # Negative(result))]

\* C is that of a - b, whatever borrow went into result.
set_sub_flags(flags, a, b, result) ==
  [set_nz(flags, result) EXCEPT
     !.c = (a >= b),
     !.v = (Negative(a) # Negative(b) /\ Negative(a) # Negative(result))]

\* The condition in the top bits of an ARM instruction and in Thumb's branches.
condition(flags, cond) ==
  CASE cond = "EQ" -> flags.z
    [] cond = "NE" -> ~flags.z
    [] cond = "CS" -> flags.c
    [] cond = "CC" -> ~flags.c
    [] cond = "MI" -> flags.n
    [] cond = "PL" -> ~flags.n
    [] cond = "VS" -> flags.v
    [] cond = "VC" -> ~flags.v
    [] cond = "HI" -> flags.c /\ ~flags.z
    [] cond = "LS" -> ~flags.c \/ flags.z
    [] cond = "GE" -> flags.n = flags.v
    [] cond = "LT" -> flags.n # flags.v
    [] cond = "GT" -> ~flags.z /\ flags.n = flags.v
    [] cond = "LE" -> flags.z \/ flags.n # flags.v
    [] OTHER -> TRUE

\* An instruction with the flag bit set: its result and the flags it leaves.  CMP and
\* CMN keep only the flags.
Added(flags, a, b, result) ==
  [result |-> result, flags |-> set_add_flags(flags, a, b, result)]

Subtracted(flags, a, b, result) ==
  [result |-> result, flags |-> set_sub_flags(flags, a, b, result)]

\* Faulty variant of data_processing: SBC subtracts the carry.
DataSubtractsCarry(op, a, b, flags) ==
  CASE op \in {"SUB", "CMP"} -> Subtracted(flags, a, b, Wrap(a - b))
    [] op \in {"ADD", "CMN"} -> Added(flags, a, b, Wrap(a + b))
    [] op = "ADC" -> Added(flags, a, b, Wrap(a + b + Carry(flags)))
    [] op = "SBC" -> Subtracted(flags, a, b, Wrap(a - b - Carry(flags)))
    [] op = "RSB" -> Subtracted(flags, b, a, Wrap(b - a))
    [] op = "RSC" -> Subtracted(flags, b, a, Wrap(b - a - Borrow(flags)))

data_processing(op, a, b, flags) ==
  CASE op \in {"SUB", "CMP"} -> Subtracted(flags, a, b, Wrap(a - b))
    [] op \in {"ADD", "CMN"} -> Added(flags, a, b, Wrap(a + b))
    [] op = "ADC" -> Added(flags, a, b, Wrap(a + b + Carry(flags)))
    [] op = "SBC" -> Subtracted(flags, a, b, Wrap(a - b - Borrow(flags)))
    [] op = "RSB" -> Subtracted(flags, b, a, Wrap(b - a))
    [] op = "RSC" -> Subtracted(flags, b, a, Wrap(b - a - Borrow(flags)))

\* The Thumb ALU instructions, where NEG takes the place of RSB with zero, and the
\* additions and subtractions of three registers or a small constant.
thumb_alu(op, a, b, flags) ==
  CASE op \in {"SUB", "CMP"} -> Subtracted(flags, a, b, Wrap(a - b))
    [] op \in {"ADD", "CMN"} -> Added(flags, a, b, Wrap(a + b))
    [] op = "ADC" -> Added(flags, a, b, Wrap(a + b + Carry(flags)))
    [] op = "SBC" -> Subtracted(flags, a, b, Wrap(a - b - Borrow(flags)))
    [] op = "NEG" -> Subtracted(flags, 0, b, Wrap(0 - b))
-----------------------------------------------------------------------------
\* The same instruction in either instruction set.
Executed(set, op, a, b, flags) ==
  IF set = "ARM" THEN data_processing(op, a, b, flags) ELSE thumb_alu(op, a, b, flags)

Signed(x) == IF Negative(x) THEN x - 2 * Half ELSE x

\* What the conditions ask of two words that were compared.
Meant(cond, a, b) ==
  CASE cond = "EQ" -> a = b
    [] cond = "NE" -> a # b
    [] cond = "CS" -> a >= b
    [] cond = "CC" -> a < b
    [] cond = "HI" -> a > b
    [] cond = "LS" -> a <= b
    [] cond = "GE" -> Signed(a) >= Signed(b)
    [] cond = "LT" -> Signed(a) < Signed(b)
    [] cond = "GT" -> Signed(a) > Signed(b)
    [] cond = "LE" -> Signed(a) <= Signed(b)

Compared == {"EQ", "NE", "CS", "CC", "HI", "LS", "GE", "LT", "GT", "LE"}

\* After CMP every condition says of the two words what it is named for, signed or not,
\* in both instruction sets and whatever the flags were (CECPU.c 20-33, 142, 206).
ComparisonsRight ==
  \A set \in {"ARM", "Thumb"}, a \in Word, b \in Word, flags \in Flags :
     LET after == Executed(set, "CMP", a, b, flags).flags IN
     \A cond \in Compared : condition(after, cond) <=> Meant(cond, a, b)

\* Arithmetic on numbers of three words, lowest first: the first instruction starts the
\* chain and the others take the carry or the borrow of the one before.
Chain(set, first, other, x, y) ==
  LET start == [n |-> FALSE, z |-> FALSE, c |-> FALSE, v |-> FALSE]
      low == Executed(set, first, x[1], y[1], start)
      middle == Executed(set, other, x[2], y[2], low.flags)
      high == Executed(set, other, x[3], y[3], middle.flags)
  IN  <<low.result, middle.result, high.result>>

Pair(x) == x[1] + 2 * Half * x[2]
Triple(x) == Pair(x) + 4 * Half * Half * x[3]

\* Long additions and subtractions are right in their first two words, so 64-bit
\* arithmetic is right.  The third is wrong exactly when the middle instruction has to
\* pass on the carry, or the borrow, that went into it (CECPU.c 15-24, 138-139, 203-204).
LongArithmeticExact ==
  LET W == 2 * Half IN
  \A set \in {"ARM", "Thumb"}, x \in Word \X Word \X Word, y \in Word \X Word \X Word :
     LET sum == Chain(set, "ADD", "ADC", x, y)
         difference == Chain(set, "SUB", "SBC", x, y)
     IN  /\ Pair(sum) = (Pair(x) + Pair(y)) % (W * W)
         /\ Pair(difference) = (Pair(x) - Pair(y)) % (W * W)
         /\ Triple(sum) = (Triple(x) + Triple(y)) % (W * W * W)
              <=> ~(x[1] + y[1] >= W /\ x[2] + y[2] = W - 1)
         /\ Triple(difference) = (Triple(x) - Triple(y)) % (W * W * W)
              <=> ~(x[1] < y[1] /\ x[2] = y[2])
==============================================================================
