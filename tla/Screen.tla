------------------------------- MODULE Screen -------------------------------
(***************************************************************************)
(* What the console promises: a screen of Lines rows and Cols columns with *)
(* a cursor and a scrolling region, and what printing and the VT102        *)
(* control functions do to it.  Console shows that console.c's pointers    *)
(* into the video memory implement it.                                     *)
(***************************************************************************)
EXTENDS Naturals, FiniteSetsExt

CONSTANTS Lines, Cols, Tab, Blank, Marks

VARIABLES
  grid,           (* grid[r][c], rows from the top                         *)
  cx, cy,         (* the cursor; cx = Cols: behind the last column         *)
  rtop, rbottom   (* the region, without row rbottom                       *)

scrVars == <<grid, cx, cy, rtop, rbottom>>

Rows == 0 .. Lines - 1
Columns == 0 .. Cols - 1
BlankRow == [c \in Columns |-> Blank]

SInit ==
  /\ grid = [r \in Rows |-> BlankRow]
  /\ cx = 0 /\ cy = 0 /\ rtop = 0 /\ rbottom = Lines

(* The rows from a to b - 1 move up or down n times, blank rows come in.   *)
Up(g, a, b, n) ==
  [r \in Rows |-> IF r < a \/ r >= b THEN g[r] ELSE IF r + n < b THEN g[r + n] ELSE BlankRow]
Down(g, a, b, n) ==
  [r \in Rows |-> IF r < a \/ r >= b THEN g[r] ELSE IF r >= a + n THEN g[r - n] ELSE BlankRow]

(* The cursor goes down a line, or the region moves up.                    *)
Fed(g) == IF cy + 1 < rbottom THEN g ELSE Up(g, rtop, rbottom, 1)
FedY == IF cy + 1 < rbottom THEN cy + 1 ELSE cy

(* Printing behind the last column starts the next line.                   *)
PrintMark(m) ==
  IF cx = Cols
  THEN grid' = [Fed(grid) EXCEPT ![FedY][0] = m] /\ cx' = 1 /\ cy' = FedY
  ELSE grid' = [grid EXCEPT ![cy][cx] = m] /\ cx' = cx + 1 /\ UNCHANGED cy

Feed == grid' = Fed(grid) /\ cy' = FedY /\ UNCHANGED cx

TabStop ==
  LET n == cx + Tab - (cx % Tab)
  IN  IF n > Cols THEN cx' = n - Cols /\ cy' = FedY /\ grid' = Fed(grid)
      ELSE cx' = n /\ UNCHANGED <<cy, grid>>

Reverse ==
  IF cy > rtop THEN cy' = cy - 1 /\ UNCHANGED <<grid, cx>>
  ELSE grid' = Down(grid, rtop, rbottom, 1) /\ UNCHANGED <<cx, cy>>

RubOut == cx > 0 /\ grid' = [grid EXCEPT ![cy][cx - 1] = Blank] /\ cx' = cx - 1 /\ UNCHANGED cy

(* Any place on the screen, or behind the last column.                     *)
Move == cx' \in 0 .. Cols /\ cy' \in Rows /\ UNCHANGED grid

(* Cells before or from the cursor on, or all, are erased.                 *)
Before(r, c) == r < cy \/ (r = cy /\ c < cx)
Wipe(in(_, _)) ==
  grid' = [r \in Rows |-> [c \in Columns |-> IF in(r, c) THEN Blank ELSE grid[r][c]]]

EraseDisplay ==
  /\ \/ LET in(r, c) == ~Before(r, c) IN Wipe(in)
     \/ Wipe(Before)
     \/ LET in(r, c) == TRUE IN Wipe(in)
  /\ UNCHANGED <<cx, cy>>

EraseLine ==
  /\ \/ LET in(r, c) == r = cy /\ c >= cx IN Wipe(in)
     \/ LET in(r, c) == r = cy /\ c < cx IN Wipe(in)
     \/ LET in(r, c) == r = cy IN Wipe(in)
  /\ UNCHANGED <<cx, cy>>

(* n lines or characters go in or out at the cursor.                       *)
InsertLines(n) == grid' = Down(grid, cy, Lines, n) /\ UNCHANGED <<cx, cy>>
DeleteLines(n) == grid' = Up(grid, cy, Lines, n) /\ UNCHANGED <<cx, cy>>
InsertChars(n) ==
  /\ grid' = [grid EXCEPT ![cy] = [c \in Columns |->
                IF c < cx THEN @[c] ELSE IF c >= cx + n THEN @[c - n] ELSE Blank]]
  /\ UNCHANGED <<cx, cy>>
DeleteChars(n) ==
  /\ grid' = [grid EXCEPT ![cy] = [c \in Columns |->
                IF c < cx THEN @[c] ELSE IF c + n < Cols THEN @[c + n] ELSE Blank]]
  /\ UNCHANGED <<cx, cy>>

SetRegion ==
  /\ rtop' \in Rows /\ rbottom' \in 1 .. Lines /\ rtop' < rbottom'
  /\ UNCHANGED <<grid, cx, cy>>

(* A character that shows nothing: a part of an escape sequence, a bell.   *)
Silent == UNCHANGED scrVars

SNext ==
  \/ Silent
  \/ /\ \/ \E m \in Marks : PrintMark(m)
        \/ Feed \/ TabStop \/ Reverse \/ RubOut \/ Move
        \/ EraseDisplay \/ EraseLine
        \/ \E n \in 1 .. Max({Lines, Cols}) :
             InsertLines(n) \/ DeleteLines(n) \/ InsertChars(n) \/ DeleteChars(n)
     /\ UNCHANGED <<rtop, rbottom>>
  \/ SetRegion

SSpec == SInit /\ [][SNext]_scrVars
=============================================================================
