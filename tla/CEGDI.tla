-------------------------------- MODULE CEGDI --------------------------------
(***************************************************************************)
(* Drawing: the pixels of the frame buffer each call writes.  A pixel is a  *)
(* pair <<x, y>>, and what a call draws is the set of pixels it writes in   *)
(* one color.  The shapes of the letters and the mixing of colors are left  *)
(* out.                                                                     *)
(*                                                                          *)
(* Assumption: coordinates and their differences are far from the limits of *)
(* 32 bits, so that the int32_t sums, and error * 2 in the line's loop, are  *)
(* those of the integers; beyond, their overflow is undefined in the code.  *)
(***************************************************************************)
EXTENDS Integers, Sequences, FiniteSets, FiniteSetsExt

CONSTANTS Width, Height,   \* of the frame buffer
          Coordinates,     \* coordinates drawing is tried with
          Texts            \* texts drawing is tried with

ASSUME ScreenAssumption == Width \in Nat /\ Height \in Nat
ASSUME CoordinatesAssumption == Coordinates \subseteq Int
ASSUME TextsAssumption == Texts \subseteq Seq(STRING)

Screen == (0 .. Width - 1) \X (0 .. Height - 1)

Distance(a, b) == IF a < b THEN b - a ELSE a - b
Toward(a, b) == IF a < b THEN 1 ELSE -1

\* CEGDIFillRect: right and bottom are outside, and the rectangle is clipped first.
CEGDIFillRect(left, top, right, bottom) ==
  (Max({left, 0}) .. Min({right, Width}) - 1) \X (Max({top, 0}) .. Min({bottom, Height}) - 1)

\* Faulty variant of LineStep: y moves only when x does not.
LineStepEither(at, dx, dy, sx, sy) ==
  IF at.error * 2 >= dy
  THEN [x |-> at.x + sx, y |-> at.y, error |-> at.error + dy]
  ELSE [x |-> at.x, y |-> at.y + sy, error |-> at.error + dx]

\* One turn of CEGDIDrawLine's loop; both coordinates may move, by the same test value.
LineStep(at, dx, dy, sx, sy) ==
  LET twice == at.error * 2 IN
  [x     |-> IF twice >= dy THEN at.x + sx ELSE at.x,
   y     |-> IF twice <= dx THEN at.y + sy ELSE at.y,
   error |-> at.error + (IF twice >= dy THEN dy ELSE 0) + (IF twice <= dx THEN dx ELSE 0)]

\* Where CEGDIDrawLine is after k turns; at the end point it stays.
LineWalk(x0, y0, x1, y1) ==
  LET dx == Distance(x0, x1)
      dy == -Distance(y0, y1)
      at[k \in 0 .. dx - dy] ==
        IF k = 0 THEN [x |-> x0, y |-> y0, error |-> dx + dy]
        ELSE LET last == at[k - 1] IN
             IF last.x = x1 /\ last.y = y1 THEN last
             ELSE LineStep(last, dx, dy, Toward(x0, x1), Toward(y0, y1))
  IN  at

\* CEGDIDrawLine: both end points are drawn, and pixels outside are passed over.
CEGDIDrawLine(x0, y0, x1, y1) ==
  LET at == LineWalk(x0, y0, x1, y1) IN
  {<<at[k].x, at[k].y>> : k \in DOMAIN at} \cap Screen

\* Rectangle: the inside in the selected color, and an edge on top and on the left.
RectangleInside(left, top, right, bottom) == CEGDIFillRect(left, top, right, bottom)

RectangleEdge(left, top, right, bottom) ==
  CEGDIDrawLine(left, top, right - 1, top) \cup CEGDIDrawLine(left, top, left, bottom - 1)

\* Faulty variant of NextCell: a line feed takes the place of a character.
NextCellIndented(at, x, c) ==
  IF c = "\n" THEN [x |-> x + 6, y |-> at.y + 8, cells |-> at.cells]
  ELSE [x |-> at.x + 6, y |-> at.y, cells |-> Append(at.cells, <<at.x, at.y>>)]

\* One character of CEGDIDrawTextUTF16's loop; a line feed draws nothing and starts the
\* next line at x.
NextCell(at, x, c) ==
  IF c = "\n" THEN [x |-> x, y |-> at.y + 8, cells |-> at.cells]
  ELSE [x |-> at.x + 6, y |-> at.y, cells |-> Append(at.cells, <<at.x, at.y>>)]

\* The corners of the cells in which CEGDIDrawTextUTF16 draws the characters of a text.
TextCells(x, y, text) ==
  LET at[i \in 0 .. Len(text)] ==
        IF i = 0 THEN [x |-> x, y |-> y, cells |-> <<>>]
        ELSE NextCell(at[i - 1], x, text[i])
  IN  at[Len(text)].cells

-----------------------------------------------------------------------------
\* A line takes one turn for each pixel of its longer side and ends in its end point, and
\* no pixel of it is more than half a pixel away from the straight line (137-151).
LineClosest ==
  \A x0, y0, x1, y1 \in Coordinates :
     LET at == LineWalk(x0, y0, x1, y1)
         n == Max({Distance(x0, x1), Distance(y0, y1)})
     IN  /\ at[n].x = x1 /\ at[n].y = y1
         /\ \A k \in 0 .. n :
               /\ 2 * Distance((at[k].x - x0) * n, k * (x1 - x0)) <= n
               /\ 2 * Distance((at[k].y - y0) * n, k * (y1 - y0)) <= n

\* A rectangle with a width and a height is drawn inside the same limits by its filling,
\* which excludes the right and the bottom, and by its edges, whose lines include their
\* end points; the edges are its first row and its first column (CEKernel.c:341).
EdgesInside ==
  \A left, top, right, bottom \in Coordinates :
     left < right /\ top < bottom =>
        LET inside == RectangleInside(left, top, right, bottom) IN
        RectangleEdge(left, top, right, bottom) =
           {p \in inside : p[1] = left \/ p[2] = top}

\* The places of a text up to one of them where there is a line feed, and where there is
\* a character that is drawn.
Feeds(text, i) == {j \in 1 .. i : text[j] = "\n"}
Drawn(text, i) == {j \in 1 .. i : text[j] # "\n"}

\* A character that comes as the c-th behind the l-th line feed has its cell 6 * (c - 1)
\* pixels to the right of and 8 * l below the place of the text, and nothing else is drawn,
\* whatever empty lines there are and wherever the text is (124-134).
TextLaidOut ==
  \A x, y \in Coordinates, text \in Texts :
     LET cells == TextCells(x, y, text) IN
     /\ Len(cells) = Cardinality(Drawn(text, Len(text)))
     /\ \A i \in Drawn(text, Len(text)) :
           cells[Cardinality(Drawn(text, i))] =
              <<x + 6 * (i - Max({0} \cup Feeds(text, i)) - 1),
                y + 8 * Cardinality(Feeds(text, i))>>
==============================================================================
