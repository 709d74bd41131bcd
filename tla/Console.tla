------------------------------- MODULE Console -------------------------------
(***************************************************************************)
(* The console driver, kernel/chr_drv/console.c: the characters con_write()*)
(* takes, its escape sequences, and the screen as a window of the video    *)
(* memory that origin, scr_end and pos point into.  Addresses count cells. *)
(* Attributes (csi_m, attr) are left out.  What the screen should do is    *)
(* module Screen.                                                          *)
(***************************************************************************)
EXTENDS Naturals, FiniteSetsExt

CONSTANTS
  Lines, Cols,    (* video_num_lines, video_num_columns                    *)
  MemLines,       (* rows of the video memory, for EGA                     *)
  Tab,            (* distance of the tab stops (8)                         *)
  SEVEN, EIGHT,   (* the codes of '7' and '8'                              *)
  Digits,         (* values of the digits used; one makes a parameter      *)
  Blank, Marks    (* contents of a cell                                    *)

ASSUME ScreenAssumption ==
  Lines \in Nat \ {0} /\ Cols \in Nat \ {0} /\ MemLines \in Nat /\ MemLines >= Lines

VARIABLES
  ega,            (* video_type is EGAC or EGAM                            *)
  mem,            (* the video memory                                      *)
  origin, scr_end, pos,
  x, y, top, bottom,
  state0,         (* state: what the escape sequence has come to           *)
  npar, par,
  saved           (* saved_x, saved_y                                      *)

escVars == <<state0, npar, par>>
winVars == <<mem, origin, scr_end, pos, x, y, top, bottom>>
conVars == <<ega, winVars, escVars, saved>>

Cells == 0 .. MemLines * Cols - 1
NoPar == [k \in 0 .. 1 |-> 0]

CInit ==
  /\ ega \in BOOLEAN
  /\ mem = [a \in Cells |-> Blank]
  /\ origin = 0 /\ scr_end = Lines * Cols /\ pos = 0
  /\ x = 0 /\ y = 0 /\ top = 0 /\ bottom = Lines
  /\ state0 = 0 /\ npar = 0 /\ par = NoPar
  /\ saved = <<0, 0>>

-----------------------------------------------------------------------------
(* The part of the state that one function hands to the next.              *)
Con == [mem |-> mem, origin |-> origin, scr_end |-> scr_end, pos |-> pos, x |-> x, y |-> y,
        top |-> top, bottom |-> bottom]
Become(s) ==
  /\ mem' = s.mem /\ origin' = s.origin /\ scr_end' = s.scr_end /\ pos' = s.pos
  /\ x' = s.x /\ y' = s.y /\ top' = s.top /\ bottom' = s.bottom

(* "rep stosw" and "rep movsl": n cells at address a erased, or moved.     *)
Erased(m, a, n) == [c \in Cells |-> IF c >= a /\ c < a + n THEN Blank ELSE m[c]]
Moved(m, from, to, n) == [c \in Cells |-> IF c >= to /\ c < to + n THEN m[c - to + from] ELSE m[c]]

(* Mutations. *)

(* The row that comes in is not erased.                                    *)
FastScroll_NoErase(s) ==
  LET t == [s EXCEPT !.origin = @ + Cols, !.pos = @ + Cols, !.scr_end = @ + Cols]
  IN  IF t.scr_end > MemLines * Cols
      THEN [t EXCEPT !.mem = Moved(@, t.origin, 0, (Lines - 1) * Cols),
                     !.scr_end = @ - t.origin, !.pos = @ - t.origin, !.origin = 0]
      ELSE t
-----------------------------------------------------------------------------
(* gotoxy(): out of range does nothing; the column may be Cols.            *)
GoToXY(s, nx, ny) ==
  IF nx \in 0 .. Cols /\ ny \in 0 .. Lines - 1
  THEN [s EXCEPT !.x = nx, !.y = ny, !.pos = s.origin + ny * Cols + nx]
  ELSE s

SaveCur == <<x, y>>
RestoreCur == GoToXY(Con, saved[1], saved[2])

(* scrup() of the whole screen of an EGA: the window moves down a row, and *)
(* back to the start of the memory when it has reached the end.            *)
PastEnd(s) == s.scr_end > MemLines * Cols

FastScroll(s) ==
  LET t == [s EXCEPT !.origin = @ + Cols, !.pos = @ + Cols, !.scr_end = @ + Cols]
      n == (Lines - 1) * Cols
  IN  IF PastEnd(t)
      THEN [t EXCEPT !.mem = Erased(Moved(@, t.origin, 0, n), n, Cols),
                     !.scr_end = @ - t.origin, !.pos = @ - t.origin, !.origin = 0]
      ELSE [t EXCEPT !.mem = Erased(@, t.scr_end - Cols, Cols)]

ScrUp(s) ==
  LET n == (s.bottom - s.top - 1) * Cols
      a == s.origin + s.top * Cols
  IN  IF ega /\ s.top = 0 /\ s.bottom = Lines THEN FastScroll(s)
      ELSE [s EXCEPT !.mem = Erased(Moved(@, a + Cols, a, n), a + n, Cols)]

ScrDown(s) ==
  LET n == (s.bottom - s.top - 1) * Cols
      a == s.origin + s.top * Cols
  IN  [s EXCEPT !.mem = Erased(Moved(@, a, a + Cols, n), a, Cols)]

Lf(s) == IF s.y + 1 < s.bottom THEN [s EXCEPT !.y = @ + 1, !.pos = @ + Cols] ELSE ScrUp(s)
Ri(s) == IF s.y > s.top THEN [s EXCEPT !.y = @ - 1, !.pos = @ - Cols] ELSE ScrDown(s)
Cr(s) == [s EXCEPT !.pos = @ - s.x, !.x = 0]
Bs(s) == IF s.x = 0 THEN s ELSE [s EXCEPT !.x = @ - 1, !.pos = @ - 1]
Del(s) == IF s.x = 0 THEN s ELSE LET t == Bs(s) IN [t EXCEPT !.mem[t.pos] = Blank]

(* The cursor is past the last column: one line on.                        *)
Wrap(s) == Lf([s EXCEPT !.x = @ - Cols, !.pos = @ - Cols])

Show(s, m) ==
  LET t == IF s.x >= Cols THEN Wrap(s) ELSE s
  IN  [t EXCEPT !.mem[t.pos] = m, !.pos = @ + 1, !.x = @ + 1]

ToTab(s) ==
  LET c == Tab - (s.x % Tab)
      t == [s EXCEPT !.x = @ + c, !.pos = @ + c]
  IN  IF t.x > Cols THEN Wrap(t) ELSE t

CsiJ(s, n) ==
  CASE n = 0 -> [s EXCEPT !.mem = Erased(@, s.pos, s.scr_end - s.pos)]
    [] n = 1 -> [s EXCEPT !.mem = Erased(@, s.origin, s.pos - s.origin)]
    [] n = 2 -> [s EXCEPT !.mem = Erased(@, s.origin, Cols * Lines)]
    [] OTHER -> s

CsiK(s, n) ==
  CASE n = 0 /\ s.x < Cols -> [s EXCEPT !.mem = Erased(@, s.pos, Cols - s.x)]
    [] n = 1 -> [s EXCEPT !.mem = Erased(@, s.pos - s.x, Min({s.x, Cols}))]
    [] n = 2 -> [s EXCEPT !.mem = Erased(@, s.pos - s.x, Cols)]
    [] OTHER -> s

(* insert_line(), delete_line(): scroll from the cursor's line down.       *)
InsertLine(s) ==
  [ScrDown([s EXCEPT !.top = s.y, !.bottom = Lines]) EXCEPT !.top = s.top, !.bottom = s.bottom]
DeleteLine(s) ==
  [ScrUp([s EXCEPT !.top = s.y, !.bottom = Lines]) EXCEPT !.top = s.top, !.bottom = s.bottom]

(* insert_char(), delete_char(): the rest of the line moves by a cell.     *)
InsertChar(s) ==
  IF s.x >= Cols THEN s
  ELSE [s EXCEPT !.mem = Erased(Moved(@, s.pos, s.pos + 1, Cols - s.x - 1), s.pos, 1)]
DeleteChar(s) ==
  IF s.x >= Cols THEN s
  ELSE [s EXCEPT !.mem = Erased(Moved(@, s.pos + 1, s.pos, Cols - s.x - 1),
                                s.pos + (Cols - s.x - 1), 1)]

(* The loop of the four functions below: at least once, at most limit      *)
(* times.                                                                  *)
Times(op(_), s, n, limit) ==
  LET count == IF n > limit THEN limit ELSE IF n = 0 THEN 1 ELSE n
      after[k \in 0 .. limit] == IF k = 0 THEN s ELSE op(after[k - 1])
  IN  after[count]
CsiAt(s, nr) == Times(InsertChar, s, nr, Cols)
CsiL(s, nr) == Times(InsertLine, s, nr, Lines)
CsiP(s, nr) == Times(DeleteChar, s, nr, Cols)
CsiM(s, nr) == Times(DeleteLine, s, nr, Lines)

-----------------------------------------------------------------------------
(* A character outside an escape sequence.  Bound: one mark on the screen. *)
Plain(s) == Become(s) /\ state0 = 0 /\ UNCHANGED <<ega, escVars, saved>>

PutChar(m) ==
  /\ m # Blank => \A a \in origin .. scr_end - 1 : mem[a] # m
  /\ Plain(Show(Con, m))

Control == \E op \in {"lf", "cr", "del", "bs", "tab"} :
  Plain(CASE op = "lf" -> Lf(Con)
          [] op = "cr" -> Cr(Con)
          [] op = "del" -> Del(Con)
          [] op = "bs" -> Bs(Con)
          [] op = "tab" -> ToTab(Con))

Escape == state0 = 0 /\ state0' = 1 /\ UNCHANGED <<ega, winVars, npar, par, saved>>

(* ESC and one character; where '7' and '8' are meant the code asks for    *)
(* the column.                                                             *)
EscapeChar(c) ==
  /\ state0 = 1 /\ state0' = IF c = "[" THEN 2 ELSE 0
  /\ Become(CASE c = "E" -> GoToXY(Con, 0, y + 1)
              [] c = "M" -> Ri(Con)
              [] c = "D" -> Lf(Con)
              [] c \notin {"[", "E", "M", "D"} /\ x # SEVEN /\ x = EIGHT -> RestoreCur
              [] OTHER -> Con)
  /\ saved' = IF c \notin {"[", "E", "M", "D"} /\ x = SEVEN THEN SaveCur ELSE saved
  /\ UNCHANGED <<ega, npar, par>>

(* Parameters: the first character behind '[' has cleared them; '?' does   *)
(* nothing more.  Bound: two parameters (NPAR) of one digit.               *)
Question ==
  /\ state0 = 2 /\ state0' = 3 /\ npar' = 0 /\ par' = NoPar
  /\ UNCHANGED <<ega, winVars, saved>>

Digit(d) ==
  LET p == IF state0 = 2 THEN NoPar ELSE par
      k == IF state0 = 2 THEN 0 ELSE npar
  IN  /\ state0 \in {2, 3} /\ p[k] = 0
      /\ par' = [p EXCEPT ![k] = d] /\ npar' = k /\ state0' = 3
      /\ UNCHANGED <<ega, winVars, saved>>

Semicolon ==
  LET k == IF state0 = 2 THEN 0 ELSE npar
  IN  /\ state0 \in {2, 3} /\ k = 0
      /\ npar' = 1 /\ state0' = 3
      /\ par' = IF state0 = 2 THEN NoPar ELSE par
      /\ UNCHANGED <<ega, winVars, saved>>

(* The letter that ends the sequence.                                      *)
OrOne(n) == IF n = 0 THEN 1 ELSE n
Less(n) == IF n = 0 THEN 0 ELSE n - 1

Final(c) ==
  LET p == IF state0 = 2 THEN NoPar ELSE par
      to == IF p[1] = 0 THEN Lines ELSE p[1]
  IN  /\ state0 \in {2, 3} /\ state0' = 0
      /\ npar' = 0 /\ par' = NoPar
      /\ Become(CASE c = "G" -> GoToXY(Con, Less(p[0]), y)
                  [] c = "A" -> IF OrOne(p[0]) > y THEN Con ELSE GoToXY(Con, x, y - OrOne(p[0]))
                  [] c = "B" -> GoToXY(Con, x, y + OrOne(p[0]))
                  [] c = "C" -> GoToXY(Con, x + OrOne(p[0]), y)
                  [] c = "D" -> IF OrOne(p[0]) > x THEN Con ELSE GoToXY(Con, x - OrOne(p[0]), y)
                  [] c = "E" -> GoToXY(Con, 0, y + OrOne(p[0]))
                  [] c = "F" -> IF OrOne(p[0]) > y THEN Con ELSE GoToXY(Con, 0, y - OrOne(p[0]))
                  [] c = "d" -> GoToXY(Con, x, Less(p[0]))
                  [] c = "H" -> GoToXY(Con, Less(p[1]), Less(p[0]))
                  [] c = "J" -> CsiJ(Con, p[0])
                  [] c = "K" -> CsiK(Con, p[0])
                  [] c = "L" -> CsiL(Con, p[0])
                  [] c = "M" -> CsiM(Con, p[0])
                  [] c = "P" -> CsiP(Con, p[0])
                  [] c = "@" -> CsiAt(Con, p[0])
                  [] c = "r" -> IF Less(p[0]) < to /\ to <= Lines
                                THEN [Con EXCEPT !.top = Less(p[0]), !.bottom = to] ELSE Con
                  [] c = "u" -> RestoreCur
                  [] OTHER -> Con)
      /\ saved' = IF c = "s" THEN SaveCur ELSE saved
      /\ UNCHANGED ega

Finals == {"G", "A", "B", "C", "D", "E", "F", "d", "H", "J", "K", "L", "M", "P", "@", "r", "s", "u", "m"}

CNext ==
  \/ \E m \in Marks : PutChar(m)
  \/ Control
  \/ Escape
  \/ \E c \in {"[", "E", "M", "D", "7"} : EscapeChar(c)
  \/ \E d \in Digits : Digit(d)
  \/ Question \/ Semicolon
  \/ \E c \in Finals : Final(c)

CSpec == CInit /\ [][CNext]_conVars

-----------------------------------------------------------------------------
(* ImplementsScreen: through the moving window, the scrolling regions and  *)
(* the escape sequences, what the memory shows is what a screen shows.     *)
Shown == INSTANCE Screen WITH
  grid <- [r \in 0 .. Lines - 1 |-> [c \in 0 .. Cols - 1 |-> mem[origin + r * Cols + c]]],
  cx <- x, cy <- y, rtop <- top, rbottom <- bottom

ImplementsScreen == Shown!SSpec
=============================================================================
