\* Queues of two characters, so that they run full; a screen of three rows
\* in a video memory of four, so that the window soon reaches its end.
\* Interrupts do not nest and meet nobody half-way: Races and MaxNest let
\* them.
SPECIFICATION MCSpec
CONSTANTS
  Tasks = {"t1", "t2"}
  NoTask = NoTask
  SIZE = 3
  SLEEP_LEFT = 2
  STARTUP = 1
  LINE_LEFT = 0
  Keys <- MCKeys
  Texts <- MCTexts
  MaxRead = 2
  MaxNest = 1
  Races = {}
  Lines = 3
  Cols = 2
  MemLines = 4
  Tab = 2
  SEVEN = 1
  EIGHT = 2
  Digits = {2, 9}
  Blank = "blank"
  Marks = {"blank", "mark"}
INVARIANTS
  ReadersWoken
  LinesCounted
  OutputIntact
PROPERTIES
  WriteReturns
  ImplementsScreen
