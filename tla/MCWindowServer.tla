--------------------------- MODULE MCWindowServer ---------------------------
(***************************************************************************)
(* Small worlds for CEWindowServer, and the drawing of CEGDI, which is      *)
(* checked along with it.                                                   *)
(***************************************************************************)
EXTENDS CEWindowServer, CEGDI

ButtonOnly == {"BUTTON"}

\* A class the guest registers may also have the name of the built-in one.
TwoClasses == {"BUTTON", "EDIT"}

\* A child of a window in its place lies beside it, where the pointer also goes.
OneFrame == {[x |-> 1, width |-> 1]}

DrawnCoordinates == -2 .. 5
DrawnTexts == UNION {[1 .. k -> {"letter", "\n"}] : k \in 0 .. 4}
-----------------------------------------------------------------------------
\* The properties of the drawing do not depend on the state.  They are stated for the
\* states without a window, which makes invariants of them.
BeforeWindows == windows = <<>>

\* LineClosest, EdgesInside and TextLaidOut: a line is the straight line to within half a
\* pixel, and the parts of a rectangle and the cells of a text fit together
\* (CEWindowServer.c 77-88, 120-151 and CEKernel.c:341).
DrawingExact == BeforeWindows => LineClosest /\ EdgesInside /\ TextLaidOut
=============================================================================
