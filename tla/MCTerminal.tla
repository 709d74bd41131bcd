----------------------------- MODULE MCTerminal -----------------------------
(* The queues of a terminal, and the screen the console's characters end   *)
(* on.  What con_write() does to the screen does not touch the queues, so  *)
(* a behaviour needs to move only one of the two: part says which.         *)
(*                                                                         *)
(* Every kind of key, a function key of two characters among them; the     *)
(* text of one task is longer than the queue, the other's begins with a    *)
(* line feed.                                                              *)
EXTENDS Terminal, Console

VARIABLES part, watched   (* watched: the task WriteReturns is about      *)

MCKeys == {<<"x">>, <<NL>>, <<EOF>>, <<"erase">>, <<"kill">>, <<"intr">>, <<"x", "x">>}
MCTexts == "t1" :> {<<"a", NL>>} @@ "t2" :> {<<NL>>}

(* Bounds.  While tasks read, one of them exits at most, without an        *)
(* end-of-file character the mode stays canonical, and what waits behind a *)
(* full queue is of two kinds.  While they write, a key comes only if at   *)
(* most MaxTyped characters then wait to be read, of three kinds; the      *)
(* settings stay and nobody exits.                                         *)
MaxTyped == 1
Bounded ==
  LET arrives == Len(readq') > Len(readq)
      waiting == Len(secondary) + Len(readq')
  IN  /\ \A t \in Tasks :
           state[t] = RUNNING /\ state'[t] = ZOMBIE => role = "read" /\ t = "t2"
      /\ role = "read" =>
           /\ lflag' \/ eof' = EOF
           /\ arrives /\ waiting >= SIZE => Range(readq') \subseteq {"x", "erase"}
      /\ role = "write" =>
           /\ arrives => waiting <= MaxTyped /\ Range(readq') \subseteq {"x", NL, "intr"}
           /\ <<lflag, eof>>' = <<lflag, eof>>

(* The cursor is saved in two corners of the screen only.                  *)
Corners == saved' \in {<<0, 0>>, <<Cols, Lines - 1>>}

MCInit ==
  /\ TInit /\ CInit
  /\ watched \in IF dev = "rs" THEN Tasks ELSE {"t1"}
  /\ \/ part = "queues" /\ ~ega
     \/ part = "screen" /\ dev = "con" /\ lflag /\ role = "read"

MCNext ==
  /\ UNCHANGED <<part, watched>>
  /\ \/ part = "queues" /\ TNext /\ UNCHANGED conVars /\ Bounded
     \/ part = "screen" /\ CNext /\ UNCHANGED allVars /\ Corners

MCSpec == MCInit /\ [][MCNext]_<<allVars, conVars, part, watched>> /\ TFairness

(* WriteReturns: a writer that waits for room in the queue of a serial     *)
(* line is woken when there is enough, and its call returns, unless echo   *)
(* or another writer takes the room or interruptible_sleep_on() forgets it.*)
WriteReturns == Writing(watched) ~> Settled(watched)
=============================================================================
