------------------------------- MODULE Floppy -------------------------------
(***************************************************************************)
(* The floppy driver, kernel/blk_drv/floppy.c, with the motor timers and   *)
(* the timer list of kernel/sched.c it runs on, and processes that ask     *)
(* floppy_change() whether a disk was changed.                             *)
(*                                                                         *)
(* A request goes through a chain: do_fd_request() turns the motor on and  *)
(* sets a timer; floppy_on_interrupt() selects the drive, perhaps with a   *)
(* second timer; transfer() seeks; each command is answered by an          *)
(* interrupt whose handler gives the next one, or starts again after an    *)
(* error.  The functions that handlers, timers and add_request() call one  *)
(* from the other are the steps of "call"; nothing else runs meanwhile.    *)
(* The order of the list is module RequestQueue's subject: here it is a    *)
(* queue.  The controller is external: it answers a command within ANSWER  *)
(* ticks.  moff_timer = BIG stands for the 100 s of an operation under way *)
(* and does not run out.                                                   *)
(***************************************************************************)
EXTENDS Integers, Sequences, SequencesExt

CONSTANTS
  Drives,       (* drives with a motor                                     *)
  Tracks,       (* tracks, 0 among them                                    *)
  OutOfRange,   (* the track of a block past the end of the disk           *)
  Requests,     (* requests: records of a drive and a track                *)
  Checkers,     (* processes that call floppy_change()                     *)
  MAX_ERRORS,   (* errors a request survives                               *)
  MaxQueue,     (* bound: length of the list                               *)
  MaxFaults,    (* bound: faults of the controller                         *)
  ON, OFF, BIG, (* ticks: motor up to speed, motor off, "very big"         *)
  ANSWER,       (* ticks within which the controller answers a command     *)
  IdleChain     (* whether the controller may misbehave so that a reset or *)
                (* recalibration is still due when the list gets empty     *)

(* No drive has a track 255, which current_track starts with.              *)
ASSUME TrackAssumption == 0 \in Tracks /\ 255 \notin Tracks /\ OutOfRange \notin Tracks
ASSUME RequestAssumption ==
  Requests \subseteq [drive : Drives, track : Tracks \cup {OutOfRange}]
(* An operation is over before the motor stops: 3*HZ ticks are enough for  *)
(* selecting, seeking and reading.                                         *)
ASSUME TicksAssumption ==
  /\ ON \in Nat /\ OFF \in Nat /\ BIG \in Nat /\ ANSWER \in Nat
  /\ ON > 2 /\ OFF > 2 + 2 * ANSWER /\ BIG > OFF
ASSUME ErrorsAssumption == MAX_ERRORS \in Nat

VARIABLES
  queue, errors,                  (* the list; CURRENT->errors             *)
  reset, recalibrate, seek,       (* flags of the driver                   *)
  current_drive, seek_track, current_track,
  do_floppy,                      (* handler of the next interrupt         *)
  command, age,                   (* what the controller does, since when  *)
  heads,                          (* where the heads of the drives are     *)
  dor, motors, selected,          (* current_DOR: drive and motors         *)
  mon_timer, moff_timer, timers,  (* timers: <<ticks, function>>           *)
  call,                           (* function about to run, or "none"      *)
  chk,                            (* where floppy_change() is, per process *)
  faults                          (* faults so far                         *)

drvvars == <<reset, recalibrate, seek, current_drive, seek_track, current_track>>
cmdvars == <<do_floppy, command, age, heads>>
motvars == <<dor, motors, selected, mon_timer, moff_timer>>
vars == <<queue, errors, drvvars, cmdvars, motvars, timers, call, chk, faults>>

Init ==
  /\ queue = <<>> /\ errors = 0
  /\ reset = FALSE /\ recalibrate = FALSE /\ seek = FALSE
  /\ current_drive \in {d \in Drives : \A e \in Drives : d <= e}
  /\ seek_track = 0 /\ current_track = 255
  /\ do_floppy = "none" /\ command = "none" /\ age = 0
  /\ heads \in [Drives -> Tracks]
  /\ dor = current_drive /\ motors = {} /\ selected = FALSE
  /\ mon_timer = [d \in Drives |-> 0] /\ moff_timer = [d \in Drives |-> 0]
  /\ timers = <<>> /\ call = "none"
  /\ chk = [p \in Checkers |-> [at |-> "out", nr |-> current_drive]]
  /\ faults = 0

-----------------------------------------------------------------------------
(* Mutations. *)

(* floppy_on_interrupt() does not wait for the drive it selects.           *)
FloppyOn_NoWait ==
  /\ call = "on"
  /\ selected' = TRUE /\ call' = "transfer"
  /\ UNCHANGED <<queue, errors, drvvars, cmdvars, dor, motors, mon_timer,
                 moff_timer, timers, chk, faults>>

(* add_request() calls the driver for every request.                       *)
AddRequest_Calls(r) ==
  /\ call = "none" /\ Len(queue) < MaxQueue
  /\ queue' = Append(queue, r)
  /\ call' = "request"
  /\ UNCHANGED <<errors, drvvars, cmdvars, motvars, timers, chk, faults>>

(* A command the controller does not take is left at that.                 *)
Issue_NoRetry(cmd, ok) ==
  /\ do_floppy' = cmd /\ call' = "none" /\ UNCHANGED heads
  /\ IF ok /\ ~reset
     THEN command' = cmd /\ age' = 0 /\ UNCHANGED <<reset, faults>>
     ELSE /\ reset \/ faults < MaxFaults
          /\ faults' = IF reset THEN faults ELSE faults + 1
          /\ reset' = TRUE
          /\ UNCHANGED <<command, age>>
-----------------------------------------------------------------------------

(* add_timer() for ticks > 0: the new entry moves back behind every entry  *)
(* that is due earlier, and takes that one's ticks off its own; the one it *)
(* stops before keeps its ticks.                                           *)
TicksLeft(ticks) ==
  LET left[i \in 0 .. Len(timers)] == IF i = 0 THEN ticks ELSE left[i - 1] - timers[i][1]
  IN  left

AddTimer(fn, ticks) ==
  LET left == TicksLeft(ticks)
      stops == {i \in 0 .. Len(timers) : i = Len(timers) \/ timers[i + 1][1] >= left[i]}
      i == CHOOSE x \in stops : \A y \in stops : x <= y
  IN  timers' = InsertAt(timers, i + 1, <<left[i], fn>>)

(* ticks_to_floppy_on(nr).                                                 *)
TicksToFloppyOn(nr) ==
  /\ moff_timer' = [moff_timer EXCEPT ![nr] = BIG]
  /\ motors' = motors \cup {nr}
  /\ dor' = IF selected THEN dor ELSE nr
  /\ mon_timer' = [mon_timer EXCEPT ![nr] =
                     IF nr \notin motors THEN ON
                     ELSE IF dor' # dor /\ @ < 2 THEN 2 ELSE @]

(* wake_up() of the processes at a, who go on at b.                        *)
Wake(a, b) == [p \in Checkers |-> IF chk[p].at = a
                                  THEN [chk[p] EXCEPT !.at = b] ELSE chk[p]]

(* floppy_deselect() and end_request(); end_request() is floppy_off() too. *)
Deselect == selected' = FALSE /\ chk' = Wake("ssleep", "select")
EndCurrent == queue' = Tail(queue) /\ errors' = 0
FloppyOff(nr) == moff_timer' = [moff_timer EXCEPT ![nr] = OFF]
EndAndDeselect ==
  /\ EndCurrent /\ Deselect /\ FloppyOff(Head(queue).drive)
  /\ UNCHANGED <<dor, motors, mon_timer>>

(* A command the controller accepts, or, with ok FALSE, one it does not    *)
(* take in time: output_byte() then asks for a reset, as it does without   *)
(* trying when a reset is due already, and do_fd_request() runs again.     *)
Issue(cmd, ok) ==
  /\ do_floppy' = cmd /\ UNCHANGED heads
  /\ IF ok /\ ~reset
     THEN command' = cmd /\ age' = 0 /\ call' = "none" /\ UNCHANGED <<reset, faults>>
     ELSE /\ reset \/ faults < MaxFaults
          /\ faults' = IF reset THEN faults ELSE faults + 1
          /\ reset' = TRUE /\ call' = "request"
          /\ UNCHANGED <<command, age>>

(* bad_flp_intr().  After end_request() it looks at the errors of the next *)
(* request (0), or of a null CURRENT, which may be anything.               *)
BadFlpIntr(timeout) ==
  LET e == errors + 1
      up == {e > MAX_ERRORS \div 2}
      r == IF e <= MAX_ERRORS THEN up ELSE IF Len(queue) > 1 THEN {FALSE} ELSE BOOLEAN
  IN  /\ IF e > MAX_ERRORS
         THEN EndAndDeselect
         ELSE errors' = e /\ UNCHANGED <<queue, motvars, chk>>
      /\ \E b \in r : reset' = (timeout \/ b) /\ recalibrate' = (recalibrate \/ ~b)

-----------------------------------------------------------------------------
(* do_fd_request(): a reset or a recalibration that is due comes first.    *)
DoFdReset ==
  /\ call = "request" /\ reset
  /\ seek' = FALSE /\ reset' = FALSE /\ recalibrate' = TRUE
  /\ do_floppy' = "reset" /\ command' = "reset" /\ age' = 0 /\ call' = "none"
  /\ UNCHANGED <<queue, errors, current_drive, seek_track, current_track, heads,
                 motvars, timers, chk, faults>>

DoFdRecalibrate(ok) ==
  /\ call = "request" /\ ~reset /\ recalibrate
  /\ seek' = FALSE /\ recalibrate' = FALSE /\ current_track' = 0
  /\ Issue("recal", ok)
  /\ UNCHANGED <<queue, errors, current_drive, seek_track, motvars, timers, chk>>

(* From INIT_REQUEST on.  A block out of range ends the request and goes   *)
(* back to "repeat:", past the tests of reset and recalibrate and with the *)
(* seek flag as it is.                                                     *)
DoFdRequest ==
  /\ \/ call = "request" /\ ~reset /\ ~recalibrate
     \/ call = "repeat"
  /\ UNCHANGED <<reset, recalibrate, current_track, cmdvars, faults>>
  /\ IF queue = <<>>
     THEN /\ call' = "none" /\ seek' = (call = "repeat" /\ seek)
          /\ UNCHANGED <<queue, errors, current_drive, seek_track, motvars, timers, chk>>
     ELSE LET r == Head(queue)
              other == r.drive # current_drive \/ (call = "repeat" /\ seek)
          IN  /\ current_drive' = r.drive
              /\ UNCHANGED chk
              /\ IF r.track = OutOfRange
                 THEN /\ seek' = other /\ call' = "repeat"
                      /\ EndCurrent /\ FloppyOff(r.drive)
                      /\ UNCHANGED <<seek_track, dor, motors, selected, mon_timer, timers>>
                 ELSE /\ seek' = (other \/ r.track # current_track)
                      /\ seek_track' = r.track
                      /\ TicksToFloppyOn(r.drive)
                      /\ IF mon_timer'[r.drive] = 0
                         THEN call' = "on" /\ UNCHANGED timers
                         ELSE /\ call' = "none"
                              /\ AddTimer("on", mon_timer'[r.drive])
                      /\ UNCHANGED <<queue, errors, selected>>

(* floppy_on_interrupt(): the drive is selected by force.                  *)
FloppyOn ==
  /\ call = "on"
  /\ selected' = TRUE /\ dor' = current_drive
  /\ IF dor # current_drive
     THEN AddTimer("transfer", 2) /\ call' = "none"
     ELSE call' = "transfer" /\ UNCHANGED timers
  /\ UNCHANGED <<queue, errors, drvvars, cmdvars, motors, mon_timer, moff_timer,
                 chk, faults>>

(* transfer(), and setup_rw_floppy() after a seek or without one.          *)
Transfer(ok) ==
  /\ \/ call = "transfer" /\ Issue(IF seek THEN "seek" ELSE "rw", ok)
     \/ call = "setup_rw" /\ Issue("rw", ok)
  /\ UNCHANGED <<queue, errors, recalibrate, seek, current_drive, seek_track,
                 current_track, motvars, timers, chk>>

-----------------------------------------------------------------------------
(* What the controller answers: "ok"; "bad", an error status; "timeout",   *)
(* result() gets no status; "protected", the disk cannot be written.  A    *)
(* transfer on the wrong track is never ok.                                *)
MayFail(k) ==
  /\ k # "ok" => faults < MaxFaults
  /\ k \in {"bad", "timeout"} /\ errors >= MAX_ERRORS /\ ~IdleChain => Len(queue) > 1
  /\ k = "ok" /\ command = "rw" => heads[current_drive] = seek_track

Seeked(k) ==
  IF k = "ok" THEN {[heads EXCEPT ![current_drive] =
                       IF command = "recal" THEN 0 ELSE seek_track]}
  ELSE {[heads EXCEPT ![current_drive] = t] : t \in Tracks}

(* floppy_interrupt: do_floppy is taken and its handler runs.  A transfer  *)
(* without a current request is where the model ends.                      *)
FloppyInterrupt(k) ==
  /\ call = "none" /\ command # "none"
  /\ do_floppy = "rw" \/ do_floppy = "seek" => queue # <<>>
  /\ MayFail(k)
  /\ faults' = IF k = "ok" THEN faults ELSE faults + 1
  /\ do_floppy' = "none" /\ command' = "none" /\ age' = 0
  /\ heads' \in IF command \in {"seek", "recal"} THEN Seeked(k) ELSE {heads}
  /\ UNCHANGED <<seek, current_drive, seek_track, timers>>
  /\ \/ (* seek_interrupt() *)
        /\ do_floppy = "seek" /\ k = "ok"
        /\ current_track' = seek_track /\ call' = "setup_rw"
        /\ UNCHANGED <<queue, errors, reset, recalibrate, motvars, chk>>
     \/ (* rw_interrupt() *)
        /\ do_floppy = "rw" /\ k \in {"ok", "protected"}
        /\ EndAndDeselect
        /\ call' = "request"
        /\ UNCHANGED <<reset, recalibrate, current_track>>
     \/ /\ do_floppy \in {"seek", "rw"} /\ k \in {"bad", "timeout"}
        /\ BadFlpIntr(k = "timeout")
        /\ call' = "request"
        /\ UNCHANGED current_track
     \/ (* recal_interrupt() and reset_interrupt() *)
        /\ do_floppy \in {"recal", "reset"} /\ k \in {"ok", "bad"}
        /\ reset' = (reset \/ k = "bad")
        /\ recalibrate' = (recalibrate /\ ~(do_floppy = "recal" /\ k = "ok"))
        /\ call' = "request"
        /\ UNCHANGED <<queue, errors, current_track, motvars, chk>>

(* unexpected_floppy_interrupt(): nothing was asked of the controller.     *)
UnexpectedInterrupt(k) ==
  /\ call = "none" /\ command = "none" /\ do_floppy = "none"
  /\ queue = <<>> \/ IdleChain
  /\ faults < MaxFaults /\ faults' = faults + 1
  /\ reset' = (reset \/ k # "ok") /\ recalibrate' = (recalibrate \/ k = "ok")
  /\ UNCHANGED <<queue, errors, seek, current_drive, seek_track, current_track,
                 cmdvars, motvars, timers, call, chk>>

(* do_timer(): the timer list and do_floppy_timer().                       *)
FireTimer ==
  IF timers = <<>> THEN UNCHANGED <<timers, call>>
  ELSE IF timers[1][1] > 1
       THEN timers' = [timers EXCEPT ![1][1] = @ - 1] /\ UNCHANGED call
       ELSE timers' = Tail(timers) /\ call' = timers[1][2]

DoTimer ==
  /\ call = "none"
  /\ command # "none" => age < ANSWER
  /\ age' = IF command = "none" THEN 0 ELSE age + 1
  /\ FireTimer
  /\ mon_timer' = [d \in Drives |-> IF d \in motors /\ mon_timer[d] > 0
                                    THEN mon_timer[d] - 1 ELSE mon_timer[d]]
  /\ motors' = {d \in motors : mon_timer[d] > 0 \/ moff_timer[d] > 0}
  /\ moff_timer' = [d \in Drives |->
       IF d \in motors /\ mon_timer[d] = 0 /\ moff_timer[d] \in 1 .. OFF
       THEN moff_timer[d] - 1 ELSE moff_timer[d]]
  /\ chk' = [p \in Checkers |->
               IF chk[p].at = "msleep" /\ mon_timer[chk[p].nr] = 1
               THEN [chk[p] EXCEPT !.at = "motor"] ELSE chk[p]]
  /\ UNCHANGED <<queue, errors, drvvars, do_floppy, command, heads, dor, selected, faults>>

-----------------------------------------------------------------------------
(* add_request() of a new request: the driver is called if it was alone.   *)
AddRequest(r) ==
  /\ call = "none" /\ Len(queue) < MaxQueue
  /\ queue' = Append(queue, r)
  /\ call' = IF queue = <<>> THEN "request" ELSE "none"
  /\ UNCHANGED <<errors, drvvars, cmdvars, motvars, timers, chk, faults>>

(* floppy_change(nr): floppy_on() until the motor runs ...                 *)
ChangeOn(p, nr) ==
  /\ call = "none"
  /\ chk[p].at = "out" \/ chk[p] = [at |-> "motor", nr |-> nr]
  /\ TicksToFloppyOn(nr)
  /\ chk' = [chk EXCEPT ![p] =
               [at |-> IF mon_timer'[nr] = 0 THEN "select" ELSE "window", nr |-> nr]]
  /\ UNCHANGED <<queue, errors, drvvars, cmdvars, selected, timers, call, faults>>

(* ... with a sleep on wait_motor[nr], to which interrupts come first,     *)
ChangeSleep(p) ==
  /\ call = "none" /\ chk[p].at = "window"
  /\ chk' = [chk EXCEPT ![p].at = "msleep"]
  /\ UNCHANGED <<queue, errors, drvvars, cmdvars, motvars, timers, call, faults>>

(* ... then until no other drive is selected; then the line is read.       *)
ChangeSelect(p) ==
  LET nr == chk[p].nr
  IN  /\ call = "none" /\ chk[p].at = "select"
      /\ chk' = [chk EXCEPT ![p].at = IF dor = nr THEN "out"
                                      ELSE IF selected THEN "ssleep" ELSE "motor"]
      /\ IF dor = nr THEN FloppyOff(nr) ELSE UNCHANGED moff_timer
      /\ UNCHANGED <<queue, errors, drvvars, cmdvars, dor, motors, selected,
                     mon_timer, timers, call, faults>>

Chain ==
  \/ DoFdReset
  \/ \E ok \in BOOLEAN : DoFdRecalibrate(ok) \/ Transfer(ok)
  \/ DoFdRequest
  \/ FloppyOn

Next ==
  \/ Chain
  \/ \E k \in {"ok", "bad", "timeout", "protected"} :
       FloppyInterrupt(k) \/ UnexpectedInterrupt(k)
  \/ DoTimer
  \/ \E r \in Requests : AddRequest(r)
  \/ \E p \in Checkers :
       \/ \E nr \in Drives : ChangeOn(p, nr)
       \/ ChangeSleep(p) \/ ChangeSelect(p)

Spec == Init /\ [][Next]_vars

(* The processor runs, time passes and the controller answers.             *)
Fairness ==
  /\ WF_vars(Chain)
  /\ WF_vars(\E k \in {"ok", "bad", "timeout", "protected"} : FloppyInterrupt(k))
  /\ WF_vars(DoTimer)

FairSpec == Spec /\ Fairness

-----------------------------------------------------------------------------
(* "This routine is called when everything should be correctly set up for  *)
(* the transfer (ie floppy motor is on and the correct floppy is           *)
(* selected)": whatever timers, other drives and floppy_change() do, a     *)
(* seek or transfer runs on the selected drive with its motor on, and a    *)
(* transfer on the track it is meant for.                                  *)
TransferReady ==
  command \in {"seek", "rw"} =>
    /\ current_drive \in motors
    /\ selected /\ dor = current_drive
    /\ command = "rw" => heads[current_drive] = seek_track

(* There is one chain: at any time at most one timer or one command is     *)
(* under way, and with none of them the list is empty.  (So add_timer()    *)
(* never has two entries to order.)                                        *)
OneChain ==
  call = "none" =>
    /\ Len(timers) + (IF command = "none" THEN 0 ELSE 1) <= 1
    /\ timers = <<>> /\ command = "none" => queue = <<>>

(* Requests go on ending while there are any, through resets and retries   *)
(* and whatever floppy_change() does meanwhile.                            *)
EachEnds ==
  <>[](queue = <<>>) \/ []<><<Len(queue') < Len(queue)>>_vars
=============================================================================
