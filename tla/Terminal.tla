------------------------------ MODULE Terminal ------------------------------
(***************************************************************************)
(* One terminal: the line discipline (kernel/chr_drv/tty_io.c), the queues *)
(* (include/linux/tty.h), the interrupts that feed and drain them          *)
(* (keyboard.S put_queue, rs_io.s, serial.c) and the calls of tty_ioctl.c  *)
(* that change them.  It is the console, whose con_write() empties the     *)
(* write queue character by character, or a serial line, which the         *)
(* transmit interrupt empties.                                             *)
(*                                                                         *)
(* Tasks read it or write it, and wait with interruptible_sleep_on(),      *)
(* whose steps come from InterruptibleQueue.  An interrupt runs in steps   *)
(* as well; the keyboard's goes through a trap gate and has sent its EOI,  *)
(* so that the next one can come inside it.  A queue is the sequence of    *)
(* its characters; what a ring buffer does when it overruns is Put(),      *)
(* Advance() and DecHead().  Settings: with lflag set, ICANON, ISIG and    *)
(* ECHO; without, none of them.  Output has OPOST and ONLCR.               *)
(***************************************************************************)
EXTENDS InterruptibleQueue, Naturals, Sequences, FiniteSets, SequencesExt

CONSTANTS
  SIZE,         (* TTY_BUF_SIZE; a queue holds one character less          *)
  SLEEP_LEFT,   (* sleep_if_full() waits for that much room (128)          *)
  STARTUP,      (* characters left when a writer is woken (256)            *)
  LINE_LEFT,    (* a line is read unfinished with less room (20)           *)
  Keys,         (* what one interrupt may bring: sequences of characters   *)
  Texts,        (* what each task may write                                *)
  MaxRead,      (* characters a read asks for                              *)
  MaxNest,      (* keyboard interrupts inside each other, 1 without        *)
                (* nesting                                                 *)
  Races         (* what else is let in: erasing while a task takes         *)
                (* characters out ("take"); echo while one puts some in    *)
                (* ("fill"), while con_write() shows them ("show") or      *)
                (* without room ("room"); a new VEOF with an end of file   *)
                (* in the queue ("eof")                                    *)

ASSUME QueueAssumption == SIZE \in Nat \ {0, 1} /\ SLEEP_LEFT \in 1 .. SIZE - 1
ASSUME RacesAssumption ==
  MaxNest \in Nat \ {0} /\ Races \subseteq {"take", "fill", "show", "room", "eof"}

VARIABLES
  dev,          (* "con" or "rs"                                           *)
  role,         (* whether the tasks "read" or "write"; head is the        *)
                (* proc_list of secondary or of write_q                    *)
  lflag,        (* canonical, echoing, with signals                        *)
  eof,          (* c_cc[VEOF]                                              *)
  readq, secondary, writeq,
  data,         (* secondary.data: lines in it                             *)
  irq,          (* the activations of copy_to_cooked(), the last one runs  *)
  reading,      (* characters a task in tty_read() still wants, or 0       *)
  taking,       (* the task that is copying out of secondary               *)
  ch,           (* the character GETCH has read, before it moves the tail  *)
  wr,           (* tty_write() of a task: pc, left, con_write()'s nr, and  *)
                (* a history: want, what this call has still to put        *)
  cr_flag,      (* the static of tty_write()                               *)
  txint,        (* transmit interrupts enabled                             *)
  due,          (* history: what was put and has still to come out         *)
  crBy,         (* history: the task whose call has set cr_flag            *)
  mixed         (* history: tasks whose call met the cr_flag of another    *)

keyVars == <<readq, irq>>
lineVars == <<secondary, data>>
outVars == <<writeq, txint, due>>
writeVars == <<wr, cr_flag, crBy, mixed>>
readVars == <<reading, taking, ch>>
modeVars == <<dev, role, lflag, eof>>
tvars == <<modeVars, keyVars, lineVars, outVars, writeVars, readVars>>
allVars == <<vars, tvars>>

None == "none"
NL == "nl"
CR == "cr"
EOF == "eof"
NoEOF == "off"  (* no character is the end of file                           *)
Commands == {"erase", "kill", "stop", "intr"}
Ends == {NL, eof}

NoWrite == [pc |-> "idle", left |-> <<>>, nr |-> 0, want |-> <<>>]

(* Either tasks read or tasks write: the two meet only in the echo.        *)
TInit ==
  /\ Init
  /\ role \in {"read", "write"}
  /\ dev \in IF role = "read" THEN {"con"} ELSE {"con", "rs"}
  /\ lflag \in BOOLEAN /\ eof = EOF
  /\ readq = <<>> /\ secondary = <<>> /\ writeq = <<>> /\ data = 0 /\ irq = <<>>
  /\ reading = [t \in Tasks |-> 0] /\ taking = NoTask /\ ch = None
  /\ wr = [t \in Tasks |-> NoWrite]
  /\ cr_flag = FALSE /\ crBy = NoTask /\ mixed = {}
  /\ txint = FALSE /\ due = <<>>

-----------------------------------------------------------------------------
(* Mutations. *)

(* Erasing does not stop at the end of the line before.                    *)
Erasable_Any(q) == q # <<>>

(* sleep_if_empty() with interrupts on: a character came after the test.   *)
SleepIfEmpty_Late(t) ==
  /\ reading[t] > 0 /\ irq = <<>> /\ taking = NoTask /\ t \notin signal
  /\ InterruptibleSleepOn(t)
  /\ UNCHANGED tvars

(* A line feed sets cr_flag, and nothing resets it.                        *)
AfterPut_KeepsFlag(t) == cr_flag

(* The transmit interrupt wakes nobody.                                    *)
WakeWriter_Never(s) == s
-----------------------------------------------------------------------------
(* The queues.  One character too many makes head meet tail: empty.  A     *)
(* tail that passes the head, or a head that falls behind the tail, leaves *)
(* a queue full of old characters.                                         *)
Full(q) == Len(q) = SIZE - 1
Left(q) == SIZE - 1 - Len(q)
Old == [k \in 1 .. SIZE - 1 |-> None]
Put(q, c) == IF Full(q) THEN <<>> ELSE Append(q, c)
Advance(q) == IF q = <<>> THEN Old ELSE Tail(q)
DecHead(q) == IF q = <<>> THEN Old ELSE Front(q)

(* What tty_write() makes of a text.                                       *)
Cooked(text) ==
  FlattenSeq([k \in 1 .. Len(text) |-> IF text[k] = NL THEN <<CR, NL>> ELSE <<text[k]>>])

(* Characters are put into the write queue, and one comes out of it.       *)
PutOut(cs) == writeq' = FoldLeft(Put, writeq, cs) /\ due' = due \o cs
ComesOut == writeq' = Advance(writeq) /\ due' = IF due = <<>> THEN due ELSE Tail(due)

-----------------------------------------------------------------------------
(* The interrupts that bring characters.  put_queue of the keyboard takes  *)
(* all the characters of a key or, if the queue is too full, none;         *)
(* read_char of a serial line brings one, and drops it if the queue is     *)
(* full.                                                                   *)
PutQueue(q, key) == IF Len(q) + Len(key) < SIZE THEN q \o key ELSE q
ReadChar(q, key) == IF Full(q) THEN q ELSE Append(q, key[1])

(* What copy_to_cooked() echoes for a character; an erased one takes as    *)
(* many deletions as it took places.                                       *)
EchoOf(c) ==
  CASE c = NL -> <<NL, CR>>
    [] c = EOF -> <<"^", "D">>
    [] c \in {"erase", "kill"} ->
         IF secondary # <<>> /\ Last(secondary) = EOF THEN <<"del", "del">> ELSE <<"del">>
    [] OTHER -> <<c>>

(* The races are kept out here: what r would have copy_to_cooked() do      *)
(* does not meet what a task is doing, and its echo has room.              *)
EchoSize(c) ==
  IF c = "kill" THEN Len(secondary) + Cardinality({k \in DOMAIN secondary : secondary[k] = EOF})
  ELSE Len(EchoOf(c))

Admitted(r) ==
  LET At(pc) == {t \in Tasks : wr[t].pc = pc}
      size == FoldLeft(LAMBDA n, c : n + EchoSize(c), 0, r)
  IN  lflag => /\ taking = NoTask \/ "take" \in Races \/ Range(r) \cap {"erase", "kill"} = {}
               /\ At("fill") = {} \/ "fill" \in Races
               /\ At("show") = {} \/ "show" \in Races
               /\ dev = "con" \/ "room" \in Races \/ size <= Left(writeq)

(* do_tty_interrupt() begins.  The serial interrupt sends its EOI at the   *)
(* end and is not interrupted by another.                                  *)
Interrupt(key) ==
  LET r == IF dev = "rs" THEN ReadChar(readq, key) ELSE PutQueue(readq, key)
  IN  /\ dev = "rs" => Len(key) = 1
      /\ Len(irq) < IF dev = "rs" THEN 1 ELSE MaxNest
      /\ Admitted(r)
      /\ readq' = r
      /\ irq' = Append(irq, [pc |-> "cook", c |-> None, nr |-> 0])
      /\ UNCHANGED <<vars, modeVars, lineVars, outVars, writeVars, readVars>>

-----------------------------------------------------------------------------
(* copy_to_cooked(), by the activation that runs.                          *)
Runs(pc) == irq # <<>> /\ Last(irq).pc = pc
Cur == Last(irq).c
Go(pc, c, nr) ==
  irq' = [irq EXCEPT ![Len(irq)] = [pc |-> pc, c |-> IF pc = "cook" THEN None ELSE c, nr |-> nr]]

Erasable(q) == q # <<>> /\ Last(q) \notin Ends
Entered(c) == ~lflag \/ c \notin Commands

(* GETCH of a character, and what it is: a command, a signal to the        *)
(* terminal's process group (tty_intr()), or a character of the line.      *)
Cook ==
  LET c == Head(readq)
      next == IF c \in {"erase", "kill"} /\ Erasable(secondary) THEN "echo" ELSE "cook"
  IN  /\ Runs("cook") /\ readq # <<>> /\ ~Full(secondary)
      /\ readq' = Tail(readq)
      /\ Go(IF ~lflag THEN "store" ELSE IF Entered(c) THEN "echo" ELSE next, c, 0)
      /\ data' = IF Entered(c) /\ c \in Ends THEN data + 1 ELSE data
      /\ SendSig(IF lflag /\ c = "intr" THEN Tasks ELSE {})
      /\ UNCHANGED <<head, state, inside, tmp, modeVars, secondary, outVars, writeVars, readVars>>

(* PUTCH of the echo and tty->write(): con_write() notes how many          *)
(* characters there are, rs_write() enables the transmit interrupt.        *)
Echo ==
  /\ Runs("echo")
  /\ PutOut(EchoOf(Cur))
  /\ txint' = (txint \/ dev = "rs")
  /\ Go(IF dev = "con" /\ writeq' # <<>> THEN "show" ELSE "store", Cur, Len(writeq'))
  /\ UNCHANGED <<vars, modeVars, readq, lineVars, writeVars, readVars>>

(* con_write() shows a character, of those it counted.                     *)
ConWriteEcho ==
  LET nr == Last(irq).nr
  IN  /\ Runs("show")
      /\ ComesOut
      /\ Go(IF nr = 1 THEN "store" ELSE "show", Cur, nr - 1)
      /\ UNCHANGED <<vars, modeVars, readq, lineVars, txint, writeVars, readVars>>

(* PUTCH into secondary, where past this point only the line ends are told *)
(* from other characters; or the last one is dropped, and if the line is   *)
(* being killed the one before it is next.                                 *)
Store ==
  /\ Runs("store")
  /\ secondary' = IF Entered(Cur) THEN Put(secondary, IF Cur \in {NL, EOF} THEN Cur ELSE "x")
                  ELSE DecHead(secondary)
  /\ Go(IF lflag /\ Cur = "kill" /\ Erasable(secondary') THEN "echo" ELSE "cook", Cur, 0)
  /\ UNCHANGED <<vars, modeVars, readq, data, outVars, writeVars, readVars>>

(* Nothing more, or no room: the readers are woken.                        *)
EndInterrupt ==
  /\ Runs("cook") /\ (readq = <<>> \/ Full(secondary))
  /\ irq' = Front(irq)
  /\ IF role = "read" THEN WakeUp ELSE UNCHANGED <<head, state>>
  /\ UNCHANGED <<inside, tmp, signal, modeVars, readq, lineVars, outVars, writeVars, readVars>>

-----------------------------------------------------------------------------
(* The kernel is not preempted: while a task copies, only interrupts come, *)
(* and it goes on when they are over.                                      *)
Kernel ==
  irq = <<>> /\ taking = NoTask /\ \A t \in Tasks : wr[t].pc \notin {"fill", "show"}

(* tty_read().                                                             *)
TtyRead(t) ==
  /\ Kernel /\ role = "read" /\ Active(t) /\ reading[t] = 0
  /\ reading' = [reading EXCEPT ![t] = MaxRead]
  /\ UNCHANGED <<vars, modeVars, keyVars, lineVars, outVars, writeVars, taking, ch>>

Interrupted(t) ==
  /\ Kernel /\ Active(t) /\ reading[t] > 0 /\ t \in signal
  /\ reading' = [reading EXCEPT ![t] = 0]
  /\ UNCHANGED <<vars, modeVars, keyVars, lineVars, outVars, writeVars, taking, ch>>

SleepIfEmpty(t) ==
  /\ Kernel /\ reading[t] > 0 /\ t \notin signal /\ secondary = <<>>
  /\ InterruptibleSleepOn(t)
  /\ UNCHANGED tvars

(* There is something to read, and in canonical mode a whole line or not   *)
(* much room; without that the task spins.                                 *)
Ready == secondary # <<>> /\ (lflag => data # 0 \/ Left(secondary) <= LINE_LEFT)

Getch(t) ==
  /\ reading[t] > 0 /\ ch = None /\ irq = <<>>
  /\ \/ Kernel /\ Active(t) /\ t \notin signal /\ Ready
     \/ taking = t
  /\ taking' = t /\ ch' = IF secondary = <<>> THEN "x" ELSE Head(secondary)
  /\ UNCHANGED <<vars, modeVars, keyVars, lineVars, outVars, writeVars, reading>>

(* The tail is moved; the read goes on while there is more, not past an    *)
(* end of file.                                                            *)
Took(t) ==
  LET q == Advance(secondary)
      done == q = <<>> \/ reading[t] = 1 \/ (ch = eof /\ lflag)
  IN  /\ taking = t /\ ch # None /\ irq = <<>>
      /\ secondary' = q
      /\ data' = IF ch \in Ends THEN data - 1 ELSE data
      /\ ch' = None
      /\ taking' = IF done THEN NoTask ELSE t
      /\ reading' = [reading EXCEPT ![t] = IF done THEN 0 ELSE @ - 1]
      /\ UNCHANGED <<vars, modeVars, keyVars, outVars, writeVars>>

(* The steps of the wait queue and of the tasks outside their calls.       *)
Wakes(t) == (Repeat(t) \/ Leave(t)) /\ Kernel /\ UNCHANGED tvars
Lives(t) ==
  /\ Kernel /\ reading[t] = 0 /\ wr[t].pc = "idle"
  /\ DoSignal(t) \/ DoExit(t) \/ Release(t)
  /\ UNCHANGED tvars
Scans == Schedule /\ UNCHANGED tvars

-----------------------------------------------------------------------------
(* tty_write().                                                            *)
Write(t, text) ==
  /\ Kernel /\ role = "write" /\ Active(t) /\ wr[t].pc = "idle"
  /\ wr' = [wr EXCEPT ![t] = [pc |-> "full", left |-> text, nr |-> 0, want |-> Cooked(text)]]
  /\ crBy' = IF crBy = t THEN NoTask ELSE crBy
  /\ mixed' = mixed \ {t}
  /\ UNCHANGED <<vars, modeVars, keyVars, lineVars, outVars, cr_flag, readVars>>

(* sleep_if_full(): asleep only if the queue was full, and then until      *)
(* there is more room or a signal.                                         *)
Waits(t) ==
  /\ t \notin signal /\ Left(writeq) < SLEEP_LEFT
  /\ wr[t].pc = "full" => Full(writeq)

SleepIfFull(t) ==
  /\ Kernel /\ wr[t].pc \in {"full", "wait"} /\ Waits(t)
  /\ InterruptibleSleepOn(t)
  /\ wr' = [wr EXCEPT ![t].pc = "wait"]
  /\ UNCHANGED <<modeVars, keyVars, lineVars, outVars, cr_flag, crBy, mixed, readVars>>

(* It goes on to fill the queue, and may find the cr_flag of another call; *)
(* a signal ends the call.                                                 *)
GoesOn(t) ==
  LET meets == t \notin signal /\ cr_flag /\ crBy # t
  IN  /\ Kernel /\ Active(t) /\ wr[t].pc \in {"full", "wait"} /\ ~Waits(t)
      /\ wr' = [wr EXCEPT ![t] = IF t \in signal THEN NoWrite ELSE [@ EXCEPT !.pc = "fill"]]
      /\ mixed' = IF meets THEN mixed \cup ({t, crBy} \cap Tasks) ELSE mixed
      /\ UNCHANGED <<vars, modeVars, keyVars, lineVars, outVars, cr_flag, crBy, readVars>>

(* The character goes into the queue; a line feed is preceded by a carriage*)
(* return.                                                                 *)
NextChar(t) == IF wr[t].left[1] = NL /\ ~cr_flag THEN CR ELSE wr[t].left[1]
AfterPut(t) == NextChar(t) = CR

Fill(t) ==
  /\ irq = <<>> /\ wr[t].pc = "fill" /\ wr[t].left # <<>> /\ ~Full(writeq)
  /\ PutOut(<<NextChar(t)>>)
  /\ cr_flag' = AfterPut(t)
  /\ crBy' = IF cr_flag' THEN t ELSE NoTask
  /\ wr' = [wr EXCEPT ![t].left = IF NextChar(t) = CR THEN @ ELSE Tail(@),
                      ![t].want = IF t \in mixed THEN <<>> ELSE Tail(@)]
  /\ UNCHANGED <<vars, modeVars, keyVars, lineVars, txint, mixed, readVars>>

(* tty->write(): rs_write() enables the interrupt if there is something;   *)
(* con_write() notes how much there is.  Then the loop goes on, or the     *)
(* call returns.                                                           *)
Again(p) == IF p.left = <<>> THEN NoWrite ELSE [p EXCEPT !.pc = "full", !.nr = 0]

Filled(t) ==
  /\ irq = <<>> /\ wr[t].pc = "fill" /\ (wr[t].left = <<>> \/ Full(writeq))
  /\ txint' = (txint \/ (dev = "rs" /\ writeq # <<>>))
  /\ wr' = [wr EXCEPT ![t] = IF dev = "con" /\ writeq # <<>>
                             THEN [@ EXCEPT !.pc = "show", !.nr = Len(writeq)] ELSE Again(@)]
  /\ UNCHANGED <<vars, modeVars, keyVars, lineVars, writeq, due, cr_flag, crBy, mixed, readVars>>

ConWrite(t) ==
  /\ irq = <<>> /\ wr[t].pc = "show"
  /\ ComesOut
  /\ wr' = [wr EXCEPT ![t] = IF @.nr = 1 THEN Again(@) ELSE [@ EXCEPT !.nr = @ - 1]]
  /\ UNCHANGED <<vars, modeVars, keyVars, lineVars, txint, cr_flag, crBy, mixed, readVars>>

(* write_char of rs_io.s: the transmitter is ready for a character.  The   *)
(* writer at the head is made runnable; the head stays.                    *)
WakeWriter(s) == [t \in Tasks |-> IF t = head THEN RUNNING ELSE s[t]]

Transmit ==
  LET q == IF writeq = <<>> THEN <<>> ELSE Tail(writeq)
  IN  /\ txint /\ irq = <<>>
      /\ writeq' = q /\ due' = IF writeq = <<>> THEN due ELSE Tail(due)
      /\ txint' = (q # <<>>)
      /\ state' = IF Len(writeq) <= STARTUP \/ q = <<>> THEN WakeWriter(state) ELSE state
      /\ UNCHANGED <<head, inside, tmp, signal, modeVars, keyVars, lineVars, writeVars, readVars>>

(* tty_ioctl(): new settings, and the queues flushed.                      *)
SetTermios(l, e, flush) ==
  /\ Kernel
  /\ e = eof \/ "eof" \in Races \/ EOF \notin Range(secondary)
  /\ lflag' = l /\ eof' = e
  /\ readq' = IF flush THEN <<>> ELSE readq
  /\ UNCHANGED <<vars, dev, role, irq, lineVars, outVars, writeVars, readVars>>

FlushOutput ==
  /\ Kernel /\ writeq # <<>>
  /\ writeq' = <<>> /\ due' = <<>>
  /\ UNCHANGED <<vars, modeVars, keyVars, lineVars, txint, writeVars, readVars>>

-----------------------------------------------------------------------------
Handler == Cook \/ Echo \/ ConWriteEcho \/ Store \/ EndInterrupt

WriterStep(t) == SleepIfFull(t) \/ GoesOn(t) \/ Fill(t) \/ Filled(t) \/ ConWrite(t)

TNext ==
  \/ \E key \in Keys : Interrupt(key)
  \/ Handler
  \/ \E t \in Tasks :
       \/ TtyRead(t) \/ Interrupted(t) \/ SleepIfEmpty(t) \/ Getch(t) \/ Took(t)
       \/ Wakes(t) \/ Lives(t)
       \/ WriterStep(t)
       \/ \E text \in Texts[t] : Write(t, text)
  \/ Scans
  \/ Transmit
  \/ \E l, flush \in BOOLEAN, e \in {EOF, NoEOF} : SetTermios(l, e, flush)
  \/ FlushOutput

TSpec == TInit /\ [][TNext]_allVars

(* A process that can run again and again does, the line sends what it is  *)
(* given, and an interrupt ends.                                           *)
TFairness ==
  /\ WF_allVars(Handler) /\ SF_allVars(Transmit)
  /\ \A t \in Tasks : SF_allVars(WriterStep(t) \/ Wakes(t))

TFairSpec == TSpec /\ TFairness

-----------------------------------------------------------------------------
(* HeadSeesInput: a task that the queue of sleeping readers names is       *)
(* asleep only while there is nothing to read or an interrupt is going to  *)
(* wake it: the test and the sleep of sleep_if_empty() are one step.       *)
HeadSeesInput ==
  role = "read" /\ head # NoTask /\ state[head] = INTERRUPTIBLE =>
    secondary = <<>> \/ irq # <<>>

(* ReadersWoken: and what it names is a task inside the call, so that the  *)
(* wake-up is not spent on a task that has left or exited.                 *)
ReadersWoken == TypeOK /\ HeadIsInside /\ HeadSeesInput

(* LinesCounted: secondary.data is the number of line ends in the queue    *)
(* and of those copy_to_cooked() has counted and not yet put there,        *)
(* through echoing, erasing, killing, a full queue, changes of mode and of *)
(* the end-of-file character; tty_read() tells by it whether there is a    *)
(* line.                                                                   *)
LinesCounted ==
  data = Cardinality({k \in DOMAIN secondary : secondary[k] \in Ends})
         + Cardinality({k \in DOMAIN irq : irq[k].c \in Ends})

(* OutputIntact: what was put into the write queue and has not come out is *)
(* there, in order; and each line feed of a write has its carriage return  *)
(* before it, unless the call met the cr_flag of another one.              *)
OutputIntact ==
  /\ due = writeq
  /\ \A t \in Tasks \ mixed :
       wr[t].pc = "fill" /\ wr[t].left # <<>> => NextChar(t) = Head(wr[t].want)

(* OwnReturns: no call meets the cr_flag of another.  The code does not    *)
(* keep this: tty_write() schedules between the two characters.            *)
OwnReturns == mixed = {}

(* A task asleep in the queue that no other will wake.                     *)
Forgotten(t) ==
  /\ t \in inside /\ state[t] = INTERRUPTIBLE
  /\ head # t /\ \A u \in inside : tmp[u] # t

(* NoForgottenWriter: a writer asleep has somebody who will wake it.  The  *)
(* code does not keep this, nor for readers (NoForgottenReader).           *)
NoForgottenWriter == role = "write" => \A t \in Tasks : ~Forgotten(t)

(* A call of tty_write() that must go on, and what may end the wait for    *)
(* it: it returns, or echo or another writer takes the room, or            *)
(* interruptible_sleep_on() forgets it.                                    *)
Writing(t) == wr[t].pc # "idle" /\ ~lflag
Settled(t) ==
  \/ ~Writing(t) \/ Forgotten(t)
  \/ \E u \in Tasks \ {t} : wr[u].pc = "fill"
=============================================================================
