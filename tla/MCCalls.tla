------------------------------- MODULE MCCalls -------------------------------
(***************************************************************************)
(* A small program for CECalls: one ARM and one Thumb function, with enough *)
(* instructions to save the link and to call before they return.  The       *)
(* arithmetic of CEALU is checked for words of three bits along with it.     *)
(***************************************************************************)
EXTENDS CECalls, CEALU

ArmAddresses == {0, 4, 8}
ThumbAddresses == {12, 14, 16, 18}
ArmStart == {0}
ThumbStart == {12}
-----------------------------------------------------------------------------
\* The properties of the arithmetic do not depend on the state.  They are stated for the
\* states before the first call, which makes invariants of them.
BeforeCalls == Len(frames) <= 1

\* ComparisonsRight: after CMP the conditions say what they are named for (CECPU.c
\* 20-33, 142, 206).
ConditionsRight == BeforeCalls => ComparisonsRight

\* LongArithmeticExact: 64-bit arithmetic is right, and when longer arithmetic is not
\* (CECPU.c 15-24, 138-139, 203-204).
CarriesExact == BeforeCalls => LongArithmeticExact
==============================================================================
