---------------------------- MODULE FloppyProofs ----------------------------
(***************************************************************************)
(* Proofs about the floppy driver, for any number of drives, tracks,       *)
(* requests and checking processes.                                        *)
(*                                                                         *)
(* The driver is one chain of handlers, timers and commands that passes a  *)
(* token on (OneToken): a second chain would have two timers or commands   *)
(* under way.  That the motor still turns when a transfer runs is a matter *)
(* of time: floppy_change() may start the 3 seconds after which the motor  *)
(* stops at any moment, so the invariant counts the ticks the chain may    *)
(* still need (MotorLasts).  That the heads stand where they should is a   *)
(* matter of what current_track says and of which drive (OnTrack,          *)
(* TrackKnown).                                                            *)
(*                                                                         *)
(* It holds for a controller that leaves no reset or recalibration behind  *)
(* on an empty list (IdleChain = FALSE), and where the tracks asked for    *)
(* keep a lost seek from mattering (SeekKept).                             *)
(***************************************************************************)
EXTENDS Floppy, SequenceTheorems, TLAPS

-----------------------------------------------------------------------------
(* do_fd_request() forgets the seek it found necessary when the list ends  *)
(* with a block past the end of another drive's disk: current_drive is     *)
(* then that drive, and current_track still the other's.  That does no     *)
(* harm where such a drive has no request on track 0 or on the track       *)
(* number of another drive's request; MCSameTracks of MCFloppy shows the   *)
(* harm.                                                                   *)
SeekKept ==
  \A out, r \in Requests :
    out.track = OutOfRange /\ r.drive = out.drive =>
      r.track # 0 /\ \A q \in Requests : q.drive # r.drive => q.track # r.track

(* The places of the chain between the decision to seek and the transfer.  *)
Timed(fn) == timers # <<>> /\ timers[1][2] = fn
AtOn == call = "on" \/ Timed("on")
AtTransfer == call = "transfer" \/ Timed("transfer")
AtRw == call = "setup_rw" \/ command = "rw"
Selected == AtTransfer \/ command = "seek" \/ AtRw
Busy == AtOn \/ Selected

Commands == {"none", "seek", "rw", "recal", "reset"}
Calls == {"none", "request", "repeat", "on", "transfer", "setup_rw"}
Places == {"out", "motor", "select", "window", "msleep", "ssleep"}

TypeOK ==
  /\ queue \in Seq(Requests) /\ errors \in Nat /\ faults \in Nat
  /\ reset \in BOOLEAN /\ recalibrate \in BOOLEAN /\ seek \in BOOLEAN
  /\ current_drive \in Drives /\ seek_track \in Tracks
  /\ current_track \in Tracks \cup {255}
  /\ do_floppy \in Commands /\ command \in Commands /\ age \in Nat
  /\ heads \in [Drives -> Tracks]
  /\ dor \in Drives /\ motors \subseteq Drives /\ selected \in BOOLEAN
  /\ mon_timer \in [Drives -> Nat] /\ moff_timer \in [Drives -> Nat]
  /\ timers \in Seq((Nat \ {0}) \X {"on", "transfer"})
  /\ call \in Calls
  /\ chk \in [Checkers -> [at : Places, nr : Drives]]

(* One token: a function about to run, a timer or a command, and with none *)
(* of them nothing is to be done.                                          *)
OneToken ==
  /\ call # "none" => timers = <<>> /\ command = "none"
  /\ timers # <<>> => Len(timers) = 1 /\ command = "none"
  /\ Timed("transfer") => timers[1][1] <= 2
  /\ call = "none" /\ timers = <<>> /\ command = "none" => queue = <<>>

(* The handler is the one of the command, but for a command that was not   *)
(* taken, after which the controller is reset.                             *)
HandlerFits == do_floppy = command \/ (call = "request" /\ reset)

(* There is a request while the chain works for it, and while a reset or   *)
(* recalibration is due.                                                   *)
HasRequest ==
  /\ Busy \/ command # "none" => queue # <<>>
  /\ call = "request" /\ (reset \/ recalibrate) => queue # <<>>

(* The flags are clear on the way to a transfer.                           *)
FlagsFit ==
  /\ Busy \/ call = "repeat" \/ command = "recal" => ~reset /\ ~recalibrate
  /\ command = "reset" => ~reset /\ recalibrate

(* The motor runs, and for as many ticks as the chain can still take.      *)
MotorLasts ==
  LET moff == moff_timer[current_drive]
  IN  /\ Busy => current_drive \in motors
      /\ Timed("on") => mon_timer[current_drive] >= timers[1][1]
      /\ AtOn => moff >= 2 * ANSWER + 2
      /\ Timed("transfer") => moff >= 2 * ANSWER + timers[1][1]
      /\ call = "transfer" => moff >= 2 * ANSWER
      /\ command = "seek" => age <= ANSWER /\ moff + age >= 2 * ANSWER
      /\ call = "setup_rw" => moff >= ANSWER
      /\ command = "rw" => age <= ANSWER /\ moff + age >= ANSWER

(* The drive is selected from floppy_on_interrupt() on.                    *)
DriveSelected == Selected => selected /\ dor = current_drive

(* The heads are on the track when no seek is to come.                     *)
OnTrack ==
  /\ Busy => [drive |-> current_drive, track |-> seek_track] \in Requests
  /\ ((AtOn \/ AtTransfer) /\ ~seek) \/ AtRw =>
       heads[current_drive] = seek_track /\ current_track = seek_track
  /\ command = "recal" => current_track = 0

(* Between requests current_track is where the heads of some drive are:    *)
(* current_drive, unless that was changed by a block past the end.         *)
Owner(d) ==
  /\ heads[d] = current_track
  /\ current_track = 0 \/ [drive |-> d, track |-> current_track] \in Requests
  /\ d = current_drive \/ [drive |-> current_drive, track |-> OutOfRange] \in Requests
TrackKnown ==
  ~Busy /\ command = "none" /\ ~reset /\ ~recalibrate /\ current_track # 255
    => \E d \in Drives : Owner(d)

IInv ==
  /\ TypeOK /\ OneToken /\ HandlerFits /\ HasRequest /\ FlagsFit
  /\ MotorLasts /\ DriveSelected /\ OnTrack /\ TrackKnown
-----------------------------------------------------------------------------
(* Operators.                                                              *)

(* add_timer() on an empty list makes its one entry.                       *)
LEMMA TicksLeftFirst ==
  ASSUME timers = <<>>, NEW ticks \in Nat
  PROVE  TicksLeft(ticks)[0] = ticks
<1> DEFINE Step(f) == [i \in 0 .. Len(timers) |-> IF i = 0 THEN ticks ELSE f[i - 1] - timers[i][1]]
           g == [i \in 0 .. Len(timers) |-> ticks]
<1>1. 0 .. Len(timers) = {0}
  OBVIOUS
<1>2. Step(g) = g
  BY <1>1
<1>3. TicksLeft(ticks) = CHOOSE f : f = Step(f)
  BY DEF TicksLeft
<1>4. PICK f : f = TicksLeft(ticks) /\ f = Step(f)
  <2>1. \E f : f = Step(f)
    BY <1>2
  <2> HIDE DEF Step
  <2> QED
    BY <1>3, <2>1
<1> QED
  BY <1>1, <1>4

LEMMA AddTimerFirst ==
  ASSUME timers = <<>>, NEW ticks \in Nat, NEW fn, AddTimer(fn, ticks)
  PROVE  timers' = << <<ticks, fn>> >>
<1>1. \A i \in 0 .. Len(timers) : i = 0
  OBVIOUS
<1>2. PICK stops : stops = {i \in 0 .. Len(timers) :
                              i = Len(timers) \/ timers[i + 1][1] >= TicksLeft(ticks)[i]}
  OBVIOUS
<1>3. stops = {0}
  BY <1>1, <1>2
<1>4. (CHOOSE x \in stops : \A y \in stops : x <= y) = 0
  <2>1. 0 \in stops /\ (\A y \in stops : 0 <= y) /\ \A x \in stops : x = 0
    BY <1>3
  <2> QED
    BY <2>1
<1>5. timers' = InsertAt(timers, 0 + 1, <<TicksLeft(ticks)[0], fn>>)
  BY <1>2, <1>4 DEF AddTimer
<1>6. timers' = InsertAt(<<>>, 1, <<ticks, fn>>)
  BY <1>5, TicksLeftFirst
<1>7. SubSeq(<<>>, 1, 0) = <<>>
  OBVIOUS
<1>8. timers' = SubSeq(<<>>, 1, 0) \o << <<ticks, fn>> >> \o SubSeq(<<>>, 1, 0)
  BY <1>6 DEF InsertAt
<1>9. << <<ticks, fn>> >> \in Seq({<<ticks, fn>>})
  OBVIOUS
<1> QED
  BY <1>7, <1>8, <1>9, ConcatEmptySeq

LEMMA RequestIs ==
  ASSUME NEW r \in Requests
  PROVE  /\ r.drive \in Drives /\ r.track \in Tracks \cup {OutOfRange}
         /\ r = [drive |-> r.drive, track |-> r.track]
  BY RequestAssumption

-----------------------------------------------------------------------------
LEMMA InitOK == Init => IInv
<1> SUFFICES ASSUME Init PROVE IInv
  OBVIOUS
<1>1. /\ timers = <<>> /\ call = "none" /\ command = "none" /\ queue = <<>>
      /\ current_track = 255 /\ do_floppy = "none"
  BY DEF Init
<1>2. TypeOK
  <2>1. /\ queue \in Seq(Requests) /\ errors \in Nat /\ faults \in Nat /\ age \in Nat
        /\ timers \in Seq((Nat \ {0}) \X {"on", "transfer"})
    BY DEF Init
  <2>2. reset \in BOOLEAN /\ recalibrate \in BOOLEAN /\ seek \in BOOLEAN /\ selected \in BOOLEAN
    BY DEF Init
  <2>3. /\ current_drive \in Drives /\ seek_track \in Tracks /\ heads \in [Drives -> Tracks]
        /\ dor \in Drives /\ motors \subseteq Drives
    BY TrackAssumption DEF Init
  <2>4. mon_timer \in [Drives -> Nat] /\ moff_timer \in [Drives -> Nat]
    BY DEF Init
  <2>5. chk \in [Checkers -> [at : Places, nr : Drives]]
    BY <2>3 DEF Init, Places
  <2> QED
    BY <1>1, <2>1, <2>2, <2>3, <2>4, <2>5 DEF TypeOK, Commands, Calls
<1>3. ~Busy
  BY <1>1 DEF Busy, Selected, AtOn, AtTransfer, AtRw, Timed
<1> QED
  BY <1>1, <1>2, <1>3 DEF IInv, OneToken, HandlerFits, HasRequest, FlagsFit, MotorLasts,
     DriveSelected, OnTrack, TrackKnown, Busy, Selected, AtOn, AtTransfer, AtRw, Timed

-----------------------------------------------------------------------------
(* A step of the environment: requests arrive, processes ask whether the   *)
(* disk was changed.  The chain stays where it is.                         *)
Still == UNCHANGED <<errors, drvvars, cmdvars, timers, call, faults>>

LEMMA StillPlaces ==
  ASSUME Still
  PROVE  /\ AtOn' <=> AtOn
         /\ AtTransfer' <=> AtTransfer
         /\ AtRw' <=> AtRw
         /\ Selected' <=> Selected
         /\ Busy' <=> Busy
         /\ \A fn : Timed(fn)' <=> Timed(fn)
  BY DEF Still, drvvars, cmdvars, AtOn, AtTransfer, AtRw, Selected, Busy, Timed

(* The facts about the current drive that the steps need.                  *)
LEMMA MotorFacts ==
  ASSUME IInv
  PROVE  /\ current_drive \in Drives /\ mon_timer[current_drive] \in Nat
         /\ moff_timer[current_drive] \in Nat /\ age \in Nat
         /\ timers # <<>> => timers[1][1] \in Nat \ {0} /\ timers[1][2] \in {"on", "transfer"}
         /\ ANSWER \in Nat /\ OFF \in Nat /\ OFF > 2 + 2 * ANSWER
<1>1. /\ current_drive \in Drives /\ mon_timer \in [Drives -> Nat]
      /\ moff_timer \in [Drives -> Nat] /\ age \in Nat
      /\ timers \in Seq((Nat \ {0}) \X {"on", "transfer"})
  BY DEF IInv, TypeOK
<1>2. ASSUME timers # <<>> PROVE timers[1] \in (Nat \ {0}) \X {"on", "transfer"}
  BY <1>1, <1>2
<1> QED
  BY <1>1, <1>2, TicksAssumption

(* Such a step keeps the invariant if the motor does not stop sooner than  *)
(* floppy_off() lets it and a selected drive stays selected.               *)
LEMMA StillOK ==
  ASSUME IInv, Still, queue' \in Seq(Requests), queue' = <<>> <=> queue = <<>>,
         dor' \in Drives, motors' \in SUBSET Drives, selected' = selected,
         motors \subseteq motors', selected => dor' = dor,
         mon_timer' \in [Drives -> Nat], moff_timer' \in [Drives -> Nat],
         chk' \in [Checkers -> [at : Places, nr : Drives]],
         \A d \in motors : mon_timer'[d] >= mon_timer[d],
         \A d \in Drives : moff_timer'[d] >= OFF \/ moff_timer'[d] = moff_timer[d]
  PROVE  IInv'
<1> USE DEF Still, drvvars, cmdvars
<1>1. TypeOK'
  <2>1. TypeOK
    BY DEF IInv
  <2> QED
    BY <2>1 DEF TypeOK
<1>2. OneToken' /\ HandlerFits'
  BY StillPlaces DEF IInv, OneToken, HandlerFits
<1>3. HasRequest' /\ FlagsFit'
  BY StillPlaces DEF IInv, HasRequest, FlagsFit
<1>4. MotorLasts'
  <2>1. PICK c \in Drives, m \in Nat, n \in Nat :
          c = current_drive /\ m = moff_timer[c] /\ n = moff_timer'[c]
    BY MotorFacts
  <2>2. n >= OFF \/ n = m
    BY <2>1
  <2>3. MotorLasts
    BY DEF IInv
  <2>4. Busy' => current_drive' \in motors'
    BY <2>3, StillPlaces DEF MotorLasts
  <2>5. Timed("on")' => mon_timer'[current_drive'] >= timers'[1][1]
    <3>1. Timed("on") => current_drive \in motors /\ mon_timer[current_drive] >= timers[1][1]
      BY <2>3 DEF MotorLasts, Busy, AtOn
    <3>2. Timed("on") => mon_timer'[current_drive] >= mon_timer[current_drive]
      BY <3>1
    <3>3. mon_timer'[current_drive] \in Nat
      BY MotorFacts
    <3>4. Timed("on") => timers[1][1] \in Nat
      BY MotorFacts DEF Timed
    <3>5. (Timed("on")' <=> Timed("on")) /\ current_drive' = current_drive /\ timers' = timers
      BY StillPlaces
    <3>6. mon_timer[current_drive] \in Nat
      BY MotorFacts
    <3> QED
      BY ONLY <3>1, <3>2, <3>3, <3>4, <3>5, <3>6
  <2>6. /\ AtOn => m >= 2 * ANSWER + 2
        /\ Timed("transfer") => m >= 2 * ANSWER + timers[1][1]
        /\ call = "transfer" => m >= 2 * ANSWER
        /\ command = "seek" => age <= ANSWER /\ m + age >= 2 * ANSWER
        /\ call = "setup_rw" => m >= ANSWER
        /\ command = "rw" => age <= ANSWER /\ m + age >= ANSWER
    BY <2>1, <2>3 DEF MotorLasts
  <2>7. Timed("transfer") => timers[1][1] \in 1 .. 2
    <3>1. Timed("transfer") => timers[1][1] <= 2 /\ timers # <<>>
      BY DEF IInv, OneToken, Timed
    <3>2. timers # <<>> => timers[1][1] \in Nat \ {0}
      BY MotorFacts
    <3> QED
      BY ONLY <3>1, <3>2
  <2>8. /\ AtOn' => n >= 2 * ANSWER + 2
        /\ Timed("transfer")' => n >= 2 * ANSWER + timers[1][1]
        /\ call = "transfer" => n >= 2 * ANSWER
        /\ command = "seek" => age <= ANSWER /\ n + age >= 2 * ANSWER
        /\ call = "setup_rw" => n >= ANSWER
        /\ command = "rw" => age <= ANSWER /\ n + age >= ANSWER
    <3>0. ANSWER \in Nat /\ OFF \in Nat /\ OFF > 2 + 2 * ANSWER /\ age \in Nat
      BY MotorFacts
    <3>1. CASE n = m
      BY <2>6, <3>1, StillPlaces
    <3>2. CASE n >= OFF
      <4>1. n >= 2 * ANSWER + 2 /\ n >= 2 * ANSWER + 1 /\ n >= 2 * ANSWER /\ n >= ANSWER
        BY ONLY <3>0, <3>2, n \in Nat
      <4>2. Timed("transfer") => n >= 2 * ANSWER + timers[1][1]
        BY ONLY <3>0, <4>1, <2>7, n \in Nat
      <4>3. n + age >= 2 * ANSWER /\ n + age >= ANSWER
        BY ONLY <3>0, <4>1, n \in Nat
      <4> QED
        BY <2>6, <4>1, <4>2, <4>3, StillPlaces
    <3> QED
      BY <2>2, <3>1, <3>2
  <2> QED
    BY <2>1, <2>4, <2>5, <2>8 DEF MotorLasts
<1>5. DriveSelected'
  BY StillPlaces DEF IInv, DriveSelected
<1>6. OnTrack'
  BY StillPlaces DEF IInv, OnTrack
<1>7. TrackKnown'
  <2>1. TrackKnown
    BY DEF IInv
  <2>2. Busy' <=> Busy
    BY StillPlaces
  <2> QED
    BY ONLY Still, <2>1, <2>2 DEF TrackKnown, Owner
<1> QED
  BY <1>1, <1>2, <1>3, <1>4, <1>5, <1>6, <1>7 DEF IInv

LEMMA TicksOK ==
  ASSUME IInv, NEW nr \in Drives, TicksToFloppyOn(nr)
  PROVE  /\ mon_timer' \in [Drives -> Nat] /\ moff_timer' \in [Drives -> Nat]
         /\ motors' = motors \cup {nr} /\ motors' \in SUBSET Drives /\ dor' \in Drives
         /\ selected => dor' = dor
         /\ \A d \in motors : mon_timer'[d] >= mon_timer[d]
         /\ moff_timer'[nr] = BIG
         /\ \A d \in Drives : moff_timer'[d] >= OFF \/ moff_timer'[d] = moff_timer[d]
<1>1. /\ mon_timer \in [Drives -> Nat] /\ moff_timer \in [Drives -> Nat]
      /\ motors \in SUBSET Drives /\ dor \in Drives
  BY DEF IInv, TypeOK
<1>2. PICK t \in Nat : mon_timer' = [mon_timer EXCEPT ![nr] = t] /\ (nr \in motors => t >= mon_timer[nr])
  <2>1. ON \in Nat /\ mon_timer[nr] \in Nat
    BY <1>1, TicksAssumption
  <2>2. PICK t : /\ mon_timer' = [mon_timer EXCEPT ![nr] = t]
                 /\ t = IF nr \notin motors THEN ON
                        ELSE IF dor' # dor /\ mon_timer[nr] < 2 THEN 2 ELSE mon_timer[nr]
    BY DEF TicksToFloppyOn
  <2>3. t \in Nat /\ (nr \in motors => t >= mon_timer[nr])
    BY ONLY <2>1, <2>2
  <2> QED
    BY ONLY <2>2, <2>3
<1>3. moff_timer' = [moff_timer EXCEPT ![nr] = BIG] /\ BIG \in Nat /\ BIG >= OFF
  BY TicksAssumption DEF TicksToFloppyOn
<1>4. motors' = motors \cup {nr} /\ dor' = IF selected THEN dor ELSE nr
  BY DEF TicksToFloppyOn
<1>5. /\ mon_timer' \in [Drives -> Nat]
      /\ \A d \in Drives : mon_timer'[d] = IF d = nr THEN t ELSE mon_timer[d]
  BY ONLY <1>1, <1>2, t \in Nat
<1>6. \A d \in motors : mon_timer'[d] >= mon_timer[d]
  <2>1. ASSUME NEW d \in motors PROVE mon_timer'[d] >= mon_timer[d]
    <3>1. mon_timer[d] \in Nat /\ d \in Drives
      BY ONLY <1>1, d \in motors
    <3> QED
      BY ONLY <1>2, <1>5, <3>1, d \in motors
  <2> QED
    BY <2>1
<1>7. /\ moff_timer' \in [Drives -> Nat]
      /\ \A d \in Drives : moff_timer'[d] = IF d = nr THEN BIG ELSE moff_timer[d]
  BY ONLY <1>1, <1>3
<1> QED
  BY <1>1, <1>3, <1>4, <1>5, <1>6, <1>7

LEMMA ChangeOnOK ==
  ASSUME IInv, NEW p \in Checkers, NEW nr \in Drives, ChangeOn(p, nr)
  PROVE  IInv'
<1>1. /\ Still /\ queue' = queue /\ selected' = selected /\ TicksToFloppyOn(nr)
  BY DEF ChangeOn, Still
<1>2. queue' \in Seq(Requests)
  BY <1>1 DEF IInv, TypeOK
<1>3. chk' \in [Checkers -> [at : Places, nr : Drives]]
  <2>1. PICK a \in Places : chk' = [chk EXCEPT ![p] = [at |-> a, nr |-> nr]]
    BY DEF ChangeOn, Places
  <2>2. chk \in [Checkers -> [at : Places, nr : Drives]]
    BY DEF IInv, TypeOK
  <2>3. [at |-> a, nr |-> nr] \in [at : Places, nr : Drives]
    OBVIOUS
  <2> QED
    BY ONLY <2>1, <2>2, <2>3
<1>4. /\ mon_timer' \in [Drives -> Nat] /\ moff_timer' \in [Drives -> Nat]
      /\ motors \subseteq motors' /\ motors' \in SUBSET Drives /\ dor' \in Drives
      /\ selected => dor' = dor
      /\ \A d \in motors : mon_timer'[d] >= mon_timer[d]
      /\ \A d \in Drives : moff_timer'[d] >= OFF \/ moff_timer'[d] = moff_timer[d]
  BY <1>1, TicksOK
<1> QED
  BY ONLY IInv, <1>1, <1>2, <1>3, <1>4, StillOK

(* The places of a checking process.                                       *)
LEMMA ChkPlace ==
  ASSUME IInv, NEW p \in Checkers, NEW a \in Places, chk' = [chk EXCEPT ![p].at = a]
  PROVE  chk' \in [Checkers -> [at : Places, nr : Drives]]
<1>1. chk \in [Checkers -> [at : Places, nr : Drives]]
  BY DEF IInv, TypeOK
<1> QED
  BY ONLY <1>1, a \in Places, p \in Checkers, chk' = [chk EXCEPT ![p].at = a]

LEMMA ChangeSleepOK ==
  ASSUME IInv, NEW p \in Checkers, ChangeSleep(p)
  PROVE  IInv'
<1>1. Still /\ queue' = queue /\ UNCHANGED motvars
  BY DEF ChangeSleep, Still
<1>2. chk' \in [Checkers -> [at : Places, nr : Drives]]
  <2>1. "msleep" \in Places /\ chk' = [chk EXCEPT ![p].at = "msleep"]
    BY DEF Places, ChangeSleep
  <2> QED
    BY <2>1, ChkPlace
<1>3. /\ queue \in Seq(Requests) /\ dor \in Drives /\ motors \in SUBSET Drives
      /\ mon_timer \in [Drives -> Nat] /\ moff_timer \in [Drives -> Nat]
  BY DEF IInv, TypeOK
<1>4. \A d \in motors : mon_timer[d] >= mon_timer[d]
  <2>1. \A d \in motors : mon_timer[d] \in Nat
    BY ONLY <1>3
  <2> QED
    BY ONLY <2>1
<1>5. /\ mon_timer' \in [Drives -> Nat] /\ moff_timer' \in [Drives -> Nat]
      /\ motors \subseteq motors' /\ motors' \in SUBSET Drives /\ dor' \in Drives
      /\ selected => dor' = dor
      /\ selected' = selected /\ queue' \in Seq(Requests)
      /\ \A d \in motors : mon_timer'[d] >= mon_timer[d]
      /\ \A d \in Drives : moff_timer'[d] >= OFF \/ moff_timer'[d] = moff_timer[d]
  BY ONLY <1>1, <1>3, <1>4 DEF motvars
<1> QED
  BY ONLY IInv, <1>1, <1>2, <1>5, StillOK

LEMMA ChangeSelectOK ==
  ASSUME IInv, NEW p \in Checkers, ChangeSelect(p)
  PROVE  IInv'
<1>1. Still /\ queue' = queue /\ UNCHANGED <<dor, motors, selected, mon_timer>>
  BY DEF ChangeSelect, Still
<1>2. chk' \in [Checkers -> [at : Places, nr : Drives]]
  <2>1. PICK a \in Places : chk' = [chk EXCEPT ![p].at = a]
    BY DEF Places, ChangeSelect
  <2> QED
    BY <2>1, ChkPlace
<1>3. /\ queue \in Seq(Requests) /\ dor \in Drives /\ motors \in SUBSET Drives
      /\ mon_timer \in [Drives -> Nat] /\ moff_timer \in [Drives -> Nat]
      /\ chk[p].nr \in Drives
  BY DEF IInv, TypeOK
<1>4. \A d \in motors : mon_timer[d] >= mon_timer[d]
  <2>1. \A d \in motors : mon_timer[d] \in Nat
    BY ONLY <1>3
  <2> QED
    BY ONLY <2>1
<1>5. /\ moff_timer' \in [Drives -> Nat]
      /\ \A d \in Drives : moff_timer'[d] >= OFF \/ moff_timer'[d] = moff_timer[d]
  <2>1. moff_timer' = moff_timer \/ moff_timer' = [moff_timer EXCEPT ![chk[p].nr] = OFF]
    BY DEF ChangeSelect, FloppyOff
  <2>2. OFF \in Nat /\ OFF >= OFF
    BY TicksAssumption
  <2> QED
    BY ONLY <1>3, <2>1, <2>2
<1>6. /\ mon_timer' \in [Drives -> Nat]
      /\ motors \subseteq motors' /\ motors' \in SUBSET Drives /\ dor' \in Drives
      /\ selected => dor' = dor
      /\ selected' = selected /\ queue' \in Seq(Requests)
      /\ \A d \in motors : mon_timer'[d] >= mon_timer[d]
  BY ONLY <1>1, <1>3, <1>4
<1> QED
  BY ONLY IInv, <1>1, <1>2, <1>5, <1>6, StillOK

-----------------------------------------------------------------------------
(* A step that leaves the chain away from a transfer.                      *)
LEMMA UnbusyOK ==
  ASSUME call' \in {"none", "request", "repeat"}, timers' = <<>>,
         command' \in {"none", "recal", "reset"},
         command' = "recal" => current_track' = 0
  PROVE  ~Busy' /\ MotorLasts' /\ DriveSelected' /\ OnTrack' /\ (\A fn : ~Timed(fn)')
<1>1. \A fn : ~Timed(fn)'
  BY DEF Timed
<1>2. ~AtOn' /\ ~AtTransfer' /\ ~AtRw' /\ ~Selected' /\ ~Busy'
  BY <1>1 DEF AtOn, AtTransfer, AtRw, Selected, Busy
<1>3. ~(command' = "seek") /\ ~(command' = "rw") /\ ~(call' = "transfer") /\ ~(call' = "setup_rw")
  OBVIOUS
<1> QED
  BY <1>1, <1>2, <1>3 DEF MotorLasts, DriveSelected, OnTrack

(* A call of a function: the timers and the controller are idle.           *)
LEMMA CallAlone ==
  ASSUME IInv, call # "none"
  PROVE  timers = <<>> /\ command = "none" /\ \A fn : ~Timed(fn)
  BY DEF IInv, OneToken, Timed

LEMMA EmptyIsIdle ==
  ASSUME IInv, queue = <<>>
  PROVE  timers = <<>> /\ command = "none" /\ ~Busy
<1>1. ~Busy /\ command = "none"
  BY DEF IInv, HasRequest
<1>2. timers # <<>> => Busy
  BY MotorFacts DEF Busy, Selected, AtOn, AtTransfer, Timed
<1> QED
  BY <1>1, <1>2

LEMMA AddRequestOK ==
  ASSUME IInv, NEW r \in Requests, AddRequest(r)
  PROVE  IInv'
<1>1. /\ call = "none" /\ queue' = Append(queue, r)
      /\ call' = IF queue = <<>> THEN "request" ELSE "none"
      /\ UNCHANGED <<errors, drvvars, cmdvars, motvars, timers, chk, faults>>
  BY DEF AddRequest
<1>2. queue \in Seq(Requests)
  BY DEF IInv, TypeOK
<1>3. queue' \in Seq(Requests) /\ queue' # <<>>
  BY ONLY <1>1, <1>2, r \in Requests
<1>4. CASE queue # <<>>
  <2>1. Still
    BY <1>1, <1>4 DEF Still
  <2>2. /\ dor \in Drives /\ motors \in SUBSET Drives
        /\ mon_timer \in [Drives -> Nat] /\ moff_timer \in [Drives -> Nat]
        /\ chk \in [Checkers -> [at : Places, nr : Drives]]
    BY DEF IInv, TypeOK
  <2>3. \A d \in motors : mon_timer[d] >= mon_timer[d]
    <3>1. \A d \in motors : mon_timer[d] \in Nat
      BY ONLY <2>2
    <3> QED
      BY ONLY <3>1
  <2>4. /\ mon_timer' \in [Drives -> Nat] /\ moff_timer' \in [Drives -> Nat]
        /\ motors \subseteq motors' /\ motors' \in SUBSET Drives /\ dor' \in Drives
        /\ selected => dor' = dor
        /\ selected' = selected /\ chk' \in [Checkers -> [at : Places, nr : Drives]]
        /\ \A d \in motors : mon_timer'[d] >= mon_timer[d]
        /\ \A d \in Drives : moff_timer'[d] >= OFF \/ moff_timer'[d] = moff_timer[d]
    BY ONLY <1>1, <2>2, <2>3 DEF motvars
  <2> QED
    BY ONLY IInv, <1>3, <1>4, <2>1, <2>4, StillOK
<1>5. CASE queue = <<>>
  <2>1. timers = <<>> /\ command = "none" /\ ~Busy
    BY <1>5, EmptyIsIdle
  <2>2. call' = "request" /\ timers' = <<>> /\ command' = "none" /\ UNCHANGED <<drvvars, cmdvars>>
    BY <1>1, <1>5, <2>1 DEF cmdvars
  <2>3. ~Busy' /\ MotorLasts' /\ DriveSelected' /\ OnTrack' /\ (\A fn : ~Timed(fn)')
    BY <2>2, UnbusyOK
  <2>4. TypeOK'
    <3>1. TypeOK
      BY DEF IInv
    <3> QED
      BY ONLY <1>1, <1>3, <2>2, <3>1 DEF TypeOK, drvvars, cmdvars, motvars, Calls
  <2>5. OneToken'
    BY <2>2, <2>3 DEF OneToken
  <2>6. HandlerFits'
    BY <1>1, <2>1, <2>2 DEF IInv, HandlerFits, cmdvars
  <2>7. HasRequest'
    BY <1>3 DEF HasRequest
  <2>8. FlagsFit'
    BY <2>2, <2>3 DEF FlagsFit
  <2>9. TrackKnown'
    <3>1. TrackKnown
      BY DEF IInv
    <3> QED
      BY ONLY <2>1, <2>2, <2>3, <3>1 DEF TrackKnown, Owner, drvvars, cmdvars
  <2> QED
    BY <2>3, <2>4, <2>5, <2>6, <2>7, <2>8, <2>9 DEF IInv
<1> QED
  BY <1>4, <1>5

(* An interrupt nobody asked for, on an empty list: the flags it sets are  *)
(* served before the next request.                                         *)
LEMMA UnexpectedInterruptOK ==
  ASSUME IdleChain = FALSE, IInv, NEW k, UnexpectedInterrupt(k)
  PROVE  IInv'
<1>1. /\ call = "none" /\ command = "none" /\ do_floppy = "none" /\ queue = <<>>
      /\ reset' = (reset \/ k # "ok") /\ recalibrate' = (recalibrate \/ k = "ok")
      /\ faults' = faults + 1
      /\ UNCHANGED <<queue, errors, seek, current_drive, seek_track, current_track,
                     cmdvars, motvars, timers, call, chk>>
  BY DEF UnexpectedInterrupt
<1>2. timers = <<>> /\ ~Busy
  BY <1>1, EmptyIsIdle
<1>3. call' = "none" /\ timers' = <<>> /\ command' = "none" /\ do_floppy' = "none" /\ queue' = <<>>
  BY <1>1, <1>2 DEF cmdvars
<1>4. ~Busy' /\ MotorLasts' /\ DriveSelected' /\ OnTrack' /\ (\A fn : ~Timed(fn)')
  BY <1>3, UnbusyOK
<1>5. TypeOK'
  <2>1. TypeOK
    BY DEF IInv
  <2>2. reset' \in BOOLEAN /\ recalibrate' \in BOOLEAN
    BY ONLY <1>1
  <2>3. faults' \in Nat
    BY ONLY <1>1, <2>1 DEF TypeOK
  <2> QED
    BY ONLY <1>1, <2>1, <2>2, <2>3 DEF TypeOK, cmdvars, motvars
<1>6. OneToken' /\ HandlerFits' /\ HasRequest'
  BY <1>3, <1>4 DEF OneToken, HandlerFits, HasRequest
<1>7. FlagsFit'
  BY <1>3, <1>4 DEF FlagsFit
<1>8. reset' \/ recalibrate'
  BY ONLY <1>1
<1>9. TrackKnown'
  BY <1>8 DEF TrackKnown
<1> QED
  BY <1>4, <1>5, <1>6, <1>7, <1>9 DEF IInv

-----------------------------------------------------------------------------
(* do_fd_request().                                                        *)
LEMMA DoFdResetOK ==
  ASSUME IInv, DoFdReset
  PROVE  IInv'
<1>1. /\ call = "request" /\ reset
      /\ seek' = FALSE /\ reset' = FALSE /\ recalibrate' = TRUE
      /\ do_floppy' = "reset" /\ command' = "reset" /\ age' = 0 /\ call' = "none"
      /\ UNCHANGED <<queue, errors, current_drive, seek_track, current_track, heads,
                     motvars, timers, chk, faults>>
  BY DEF DoFdReset
<1>2. timers' = <<>> /\ queue' # <<>>
  BY <1>1, CallAlone DEF IInv, HasRequest
<1>3. ~Busy' /\ MotorLasts' /\ DriveSelected' /\ OnTrack' /\ (\A fn : ~Timed(fn)')
  BY <1>1, <1>2, UnbusyOK
<1>4. TypeOK'
  <2>1. TypeOK
    BY DEF IInv
  <2> QED
    BY ONLY <1>1, <2>1 DEF TypeOK, motvars, Commands, Calls
<1>5. OneToken' /\ HandlerFits' /\ HasRequest'
  BY <1>1, <1>2, <1>3 DEF OneToken, HandlerFits, HasRequest
<1>6. FlagsFit' /\ TrackKnown'
  BY <1>1, <1>3 DEF FlagsFit, TrackKnown
<1> QED
  BY <1>3, <1>4, <1>5, <1>6 DEF IInv

LEMMA DoFdRecalibrateOK ==
  ASSUME IInv, NEW ok \in BOOLEAN, DoFdRecalibrate(ok)
  PROVE  IInv'
<1>1. /\ call = "request" /\ ~reset /\ recalibrate
      /\ seek' = FALSE /\ recalibrate' = FALSE /\ current_track' = 0
      /\ Issue("recal", ok)
      /\ UNCHANGED <<queue, errors, current_drive, seek_track, motvars, timers, chk>>
  BY DEF DoFdRecalibrate
<1>2. timers' = <<>> /\ queue' # <<>> /\ command = "none"
  BY <1>1, CallAlone DEF IInv, HasRequest
<1>3. /\ do_floppy' = "recal" /\ UNCHANGED heads
      /\ \/ command' = "recal" /\ age' = 0 /\ call' = "none" /\ ~reset' /\ reset' = FALSE /\ faults' = faults
         \/ command' = "none" /\ age' = age /\ call' = "request" /\ reset' /\ reset' = TRUE /\ faults' = faults + 1
  BY <1>1, <1>2 DEF Issue, IInv, TypeOK
<1>4. ~Busy' /\ MotorLasts' /\ DriveSelected' /\ OnTrack' /\ (\A fn : ~Timed(fn)')
  BY <1>1, <1>2, <1>3, UnbusyOK
<1>5. TypeOK'
  <2>1. TypeOK
    BY DEF IInv
  <2>2. faults' \in Nat /\ age' \in Nat
    BY ONLY <1>3, <2>1 DEF TypeOK
  <2>3. reset' \in BOOLEAN /\ command' \in Commands /\ call' \in Calls
    BY ONLY <1>3 DEF Commands, Calls
  <2>4. 0 \in Tracks
    BY TrackAssumption
  <2> QED
    BY ONLY <1>1, <1>3, <2>1, <2>2, <2>3, <2>4 DEF TypeOK, motvars, Commands
<1>6. OneToken' /\ HandlerFits' /\ HasRequest'
  BY <1>2, <1>3, <1>4 DEF OneToken, HandlerFits, HasRequest
<1>7. FlagsFit' /\ TrackKnown'
  BY <1>1, <1>3, <1>4 DEF FlagsFit, TrackKnown
<1> QED
  BY <1>4, <1>5, <1>6, <1>7 DEF IInv

(* From INIT_REQUEST on: the flags are clear and the chain is here.        *)
LEMMA AtRequest ==
  ASSUME IInv, (call = "request" /\ ~reset /\ ~recalibrate) \/ call = "repeat"
  PROVE  /\ timers = <<>> /\ command = "none" /\ do_floppy = "none" /\ ~Busy
         /\ ~reset /\ ~recalibrate
         /\ current_track # 255 => \E d \in Drives : Owner(d)
<1>1. timers = <<>> /\ command = "none" /\ \A fn : ~Timed(fn)
  BY CallAlone
<1>2. ~Busy
  BY <1>1 DEF Busy, Selected, AtOn, AtTransfer, AtRw
<1>3. ~reset /\ ~recalibrate
  BY DEF IInv, FlagsFit
<1>4. do_floppy = "none"
  BY <1>1, <1>3 DEF IInv, HandlerFits
<1> QED
  BY <1>1, <1>2, <1>3, <1>4 DEF IInv, TrackKnown

(* The list has ended.                                                     *)
LEMMA DoFdEmptyOK ==
  ASSUME IInv, DoFdRequest, queue = <<>>
  PROVE  IInv'
<1>1. /\ (call = "request" /\ ~reset /\ ~recalibrate) \/ call = "repeat"
      /\ UNCHANGED <<reset, recalibrate, current_track, cmdvars, faults>>
      /\ call' = "none" /\ seek' = (call = "repeat" /\ seek)
      /\ UNCHANGED <<queue, errors, current_drive, seek_track, motvars, timers, chk>>
  BY DEF DoFdRequest
<1>2. /\ timers = <<>> /\ command = "none" /\ do_floppy = "none" /\ ~Busy
      /\ current_track # 255 => \E d \in Drives : Owner(d)
  BY <1>1, AtRequest
<1>3. timers' = <<>> /\ command' = "none" /\ do_floppy' = "none" /\ queue' = <<>>
  BY <1>1, <1>2 DEF cmdvars
<1>4. ~Busy' /\ MotorLasts' /\ DriveSelected' /\ OnTrack' /\ (\A fn : ~Timed(fn)')
  BY <1>1, <1>3, UnbusyOK
<1>5. TypeOK'
  <2>1. TypeOK
    BY DEF IInv
  <2>2. seek' \in BOOLEAN
    BY ONLY <1>1
  <2> QED
    BY ONLY <1>1, <2>1, <2>2 DEF TypeOK, cmdvars, motvars, Calls
<1>6. OneToken' /\ HandlerFits' /\ HasRequest'
  BY <1>1, <1>3, <1>4 DEF OneToken, HandlerFits, HasRequest
<1>7. FlagsFit'
  BY <1>1, <1>3, <1>4 DEF FlagsFit
<1>8. TrackKnown'
  BY ONLY <1>1, <1>2 DEF TrackKnown, Owner, cmdvars
<1> QED
  BY <1>4, <1>5, <1>6, <1>7, <1>8 DEF IInv

(* The head of the list.                                                   *)
LEMMA HeadIs ==
  ASSUME IInv, queue # <<>>
  PROVE  Head(queue) \in Requests /\ Tail(queue) \in Seq(Requests)
  BY DEF IInv, TypeOK

(* A block past the end of the disk.                                       *)
LEMMA DoFdOutOK ==
  ASSUME IInv, DoFdRequest, queue # <<>>, NEW r \in Requests, r = Head(queue),
         r.track = OutOfRange
  PROVE  IInv'
<1>1. /\ (call = "request" /\ ~reset /\ ~recalibrate) \/ call = "repeat"
      /\ UNCHANGED <<reset, recalibrate, current_track, cmdvars, faults>>
      /\ current_drive' = r.drive /\ UNCHANGED chk
      /\ seek' = (r.drive # current_drive \/ (call = "repeat" /\ seek)) /\ call' = "repeat"
      /\ queue' = Tail(queue) /\ errors' = 0
      /\ moff_timer' = [moff_timer EXCEPT ![r.drive] = OFF]
      /\ UNCHANGED <<seek_track, dor, motors, selected, mon_timer, timers>>
  BY DEF DoFdRequest, EndCurrent, FloppyOff
<1>2. /\ timers = <<>> /\ command = "none" /\ do_floppy = "none" /\ ~Busy
      /\ ~reset /\ ~recalibrate
      /\ current_track # 255 => \E d \in Drives : Owner(d)
  BY <1>1, AtRequest
<1>3. timers' = <<>> /\ command' = "none" /\ do_floppy' = "none"
  BY <1>1, <1>2 DEF cmdvars
<1>4. ~Busy' /\ MotorLasts' /\ DriveSelected' /\ OnTrack' /\ (\A fn : ~Timed(fn)')
  BY <1>1, <1>3, UnbusyOK
<1>5. r.drive \in Drives /\ [drive |-> r.drive, track |-> OutOfRange] \in Requests
  BY RequestIs
<1>6. TypeOK'
  <2>1. TypeOK
    BY DEF IInv
  <2>2. seek' \in BOOLEAN
    BY ONLY <1>1
  <2>3. queue' \in Seq(Requests)
    BY <1>1, HeadIs
  <2>4. moff_timer' \in [Drives -> Nat]
    <3>1. OFF \in Nat /\ moff_timer \in [Drives -> Nat]
      BY TicksAssumption, <2>1 DEF TypeOK
    <3> QED
      BY ONLY <1>1, <1>5, <3>1
  <2> QED
    BY ONLY <1>1, <1>5, <2>1, <2>2, <2>3, <2>4 DEF TypeOK, cmdvars, Calls
<1>7. OneToken' /\ HandlerFits' /\ HasRequest'
  BY <1>1, <1>3, <1>4 DEF OneToken, HandlerFits, HasRequest
<1>8. FlagsFit'
  BY <1>1, <1>2, <1>3 DEF FlagsFit
<1>9. TrackKnown'
  <2>1. ASSUME NEW d \in Drives, Owner(d) PROVE Owner(d)'
    BY ONLY <1>1, <1>5, <2>1 DEF Owner, cmdvars
  <2> QED
    BY ONLY <1>1, <1>2, <2>1 DEF TrackKnown
<1> QED
  BY <1>4, <1>6, <1>7, <1>8, <1>9 DEF IInv

(* Where do_fd_request() sees no need to seek, the heads are on the track. *)
LEMMA NoSeekNeeded ==
  ASSUME SeekKept, IInv, NEW r \in Requests, r.track # OutOfRange,
         r.drive = current_drive, r.track = current_track,
         current_track # 255 => \E d \in Drives : Owner(d)
  PROVE  heads[current_drive] = r.track
<1>1. r.track \in Tracks /\ r.track # 255
  BY RequestIs, TrackAssumption
<1>2. PICK d \in Drives : Owner(d)
  BY <1>1
<1>3. CASE d = current_drive
  BY <1>2, <1>3 DEF Owner
<1>4. CASE d # current_drive
  <2>1. PICK out \in Requests : out = [drive |-> current_drive, track |-> OutOfRange]
    BY <1>2, <1>4 DEF Owner
  <2>2. out.track = OutOfRange /\ r.drive = out.drive
    BY ONLY <2>1, r.drive = current_drive
  <2>3. r.track # 0 /\ \A q \in Requests : q.drive # r.drive => q.track # r.track
    BY ONLY SeekKept, <2>2, out \in Requests, r \in Requests DEF SeekKept
  <2>4. PICK q \in Requests : q = [drive |-> d, track |-> current_track]
    BY <1>2, <2>3 DEF Owner
  <2>5. q.drive = d /\ q.track = current_track
    BY ONLY <2>4
  <2> QED
    BY <1>4, <2>3, <2>5
<1> QED
  BY <1>3, <1>4

(* The one entry of the timer list.                                        *)
LEMMA OneTimer ==
  ASSUME NEW t \in Nat \ {0}, NEW fn \in {"on", "transfer"}, timers' = << <<t, fn>> >>
  PROVE  /\ timers' \in Seq((Nat \ {0}) \X {"on", "transfer"})
         /\ timers' # <<>> /\ Len(timers') = 1
         /\ timers'[1][1] = t /\ timers'[1][2] = fn
  OBVIOUS

(* A block on the disk: the motor is turned on.                            *)
LEMMA DoFdStartOK ==
  ASSUME SeekKept, IInv, DoFdRequest, queue # <<>>, NEW r \in Requests, r = Head(queue),
         r.track # OutOfRange
  PROVE  IInv'
<1>1. /\ (call = "request" /\ ~reset /\ ~recalibrate) \/ call = "repeat"
      /\ UNCHANGED <<reset, recalibrate, current_track, cmdvars, faults>>
      /\ current_drive' = r.drive /\ UNCHANGED chk
      /\ seek' = (r.drive # current_drive \/ (call = "repeat" /\ seek) \/ r.track # current_track)
      /\ seek_track' = r.track
      /\ TicksToFloppyOn(r.drive)
      /\ UNCHANGED <<queue, errors, selected>>
  BY DEF DoFdRequest
<1>2. /\ timers = <<>> /\ command = "none" /\ do_floppy = "none" /\ ~Busy
      /\ ~reset /\ ~recalibrate
      /\ current_track # 255 => \E d \in Drives : Owner(d)
  BY <1>1, AtRequest
<1>3. /\ r.drive \in Drives /\ r.track \in Tracks
      /\ r = [drive |-> r.drive, track |-> r.track]
  BY RequestIs
<1>4. /\ mon_timer' \in [Drives -> Nat] /\ moff_timer' \in [Drives -> Nat]
      /\ motors' = motors \cup {r.drive} /\ motors' \in SUBSET Drives /\ dor' \in Drives
      /\ moff_timer'[r.drive] = BIG
  BY <1>1, <1>3, TicksOK
<1>5. PICK t \in Nat : t = mon_timer'[r.drive]
  BY <1>3, <1>4
<1>6. \/ t = 0 /\ call' = "on" /\ timers' = <<>>
      \/ t # 0 /\ call' = "none" /\ timers' = << <<t, "on">> >>
  <2>1. \/ t = 0 /\ call' = "on" /\ timers' = timers
        \/ t # 0 /\ call' = "none" /\ AddTimer("on", t)
    BY <1>5 DEF DoFdRequest
  <2> QED
    BY <1>2, <2>1, AddTimerFirst
<1>7. /\ timers' \in Seq((Nat \ {0}) \X {"on", "transfer"})
      /\ timers' # <<>> => Len(timers') = 1 /\ timers'[1][1] = t /\ timers'[1][2] = "on"
      /\ call' = "on" \/ timers' # <<>>
      /\ call' \in {"on", "none"} /\ (call' # "none" => timers' = <<>>)
  <2>1. CASE t = 0
    BY ONLY <1>6, <2>1
  <2>2. CASE t # 0
    BY ONLY <1>6, <2>2, t \in Nat, OneTimer
  <2> QED
    BY <2>1, <2>2
<1>8. AtOn' /\ Busy' /\ ~AtTransfer' /\ ~AtRw' /\ ~Selected' /\ ~Timed("transfer")'
  <2>1. command' = "none"
    BY <1>1, <1>2 DEF cmdvars
  <2> QED
    BY ONLY <1>7, <2>1 DEF AtOn, Busy, AtTransfer, AtRw, Selected, Timed
<1>9. command' = "none" /\ do_floppy' = "none" /\ heads' = heads
  BY <1>1, <1>2 DEF cmdvars
<1>10. TypeOK'
  <2>1. TypeOK
    BY DEF IInv
  <2>2. seek' \in BOOLEAN
    BY ONLY <1>1
  <2> QED
    BY ONLY <1>1, <1>3, <1>4, <1>7, <2>1, <2>2 DEF TypeOK, cmdvars, Calls
<1>11. OneToken' /\ HandlerFits' /\ HasRequest'
  BY <1>1, <1>7, <1>8, <1>9 DEF OneToken, HandlerFits, HasRequest
<1>12. FlagsFit'
  BY <1>1, <1>2, <1>9 DEF FlagsFit
<1>13. MotorLasts'
  <2>1. BIG >= 2 * ANSWER + 2
    BY TicksAssumption
  <2>2. current_drive' \in motors' /\ moff_timer'[current_drive'] = BIG
    BY <1>1, <1>4
  <2>3. Timed("on")' => mon_timer'[current_drive'] >= timers'[1][1]
    BY <1>1, <1>5, <1>7 DEF Timed
  <2>4. ~(call' = "transfer") /\ ~(call' = "setup_rw")
    BY <1>7
  <2> QED
    BY ONLY <1>8, <1>9, <2>1, <2>2, <2>3, <2>4 DEF MotorLasts
<1>14. DriveSelected'
  BY <1>8 DEF DriveSelected
<1>15. OnTrack'
  <2>1. [drive |-> current_drive', track |-> seek_track'] \in Requests
    BY <1>1, <1>3
  <2>2. ASSUME ~seek' PROVE heads'[current_drive'] = seek_track' /\ current_track' = seek_track'
    <3>1. r.drive = current_drive /\ r.track = current_track
      BY <1>1, <2>2
    <3>2. heads[current_drive] = r.track
      BY <1>2, <3>1, NoSeekNeeded
    <3> QED
      BY <1>1, <1>9, <3>1, <3>2
  <2> QED
    BY <1>8, <1>9, <2>1, <2>2 DEF OnTrack
<1>16. TrackKnown'
  BY <1>8 DEF TrackKnown
<1> QED
  BY <1>10, <1>11, <1>12, <1>13, <1>14, <1>15, <1>16 DEF IInv

LEMMA DoFdRequestOK ==
  ASSUME SeekKept, IInv, DoFdRequest
  PROVE  IInv'
<1>1. CASE queue = <<>>
  BY <1>1, DoFdEmptyOK
<1>2. CASE queue # <<>>
  <2>1. PICK r \in Requests : r = Head(queue)
    BY <1>2, HeadIs
  <2> QED
    BY <1>2, <2>1, DoFdOutOK, DoFdStartOK
<1> QED
  BY <1>1, <1>2

-----------------------------------------------------------------------------
(* floppy_on_interrupt() and transfer().                                   *)
LEMMA FloppyOnOK ==
  ASSUME IInv, FloppyOn
  PROVE  IInv'
<1>1. /\ call = "on" /\ selected' = TRUE /\ dor' = current_drive
      /\ UNCHANGED <<queue, errors, drvvars, cmdvars, motors, mon_timer, moff_timer,
                     chk, faults>>
  BY DEF FloppyOn
<1>2. timers = <<>> /\ command = "none" /\ AtOn /\ Busy
  BY <1>1, CallAlone DEF AtOn, Busy
<1>3. \/ call' = "transfer" /\ timers' = <<>>
      \/ call' = "none" /\ timers' = << <<2, "transfer">> >>
  <2>1. \/ call' = "transfer" /\ timers' = timers
        \/ call' = "none" /\ AddTimer("transfer", 2)
    BY DEF FloppyOn
  <2>2. 2 \in Nat
    OBVIOUS
  <2> QED
    BY <1>2, <2>1, <2>2, AddTimerFirst
<1>4. /\ timers' \in Seq((Nat \ {0}) \X {"on", "transfer"})
      /\ timers' # <<>> => Len(timers') = 1 /\ timers'[1][1] = 2 /\ timers'[1][2] = "transfer"
      /\ call' = "transfer" \/ timers' # <<>>
      /\ call' \in {"transfer", "none"} /\ (call' # "none" => timers' = <<>>)
  <2>1. CASE call' = "transfer"
    BY ONLY <1>3, <2>1
  <2>2. CASE call' # "transfer"
    <3>1. 2 \in Nat \ {0}
      OBVIOUS
    <3> QED
      BY ONLY <1>3, <2>2, <3>1, OneTimer
  <2> QED
    BY <2>1, <2>2
<1>5. /\ command' = "none" /\ do_floppy' = do_floppy /\ do_floppy = "none" /\ ~reset /\ ~recalibrate
      /\ queue # <<>>
  BY <1>1, <1>2 DEF IInv, HandlerFits, FlagsFit, HasRequest, cmdvars
<1>6. AtTransfer' /\ Selected' /\ Busy' /\ ~AtOn' /\ ~AtRw' /\ ~Timed("on")'
  BY ONLY <1>4, <1>5 DEF AtOn, Busy, AtTransfer, AtRw, Selected, Timed
<1>7. TypeOK'
  <2>1. TypeOK
    BY DEF IInv
  <2> QED
    BY ONLY <1>1, <1>4, <2>1 DEF TypeOK, drvvars, cmdvars, Calls
<1>8. OneToken' /\ HandlerFits' /\ HasRequest'
  <2>1. timers' # <<>> => timers'[1][1] <= 2
    BY ONLY <1>4
  <2> QED
    BY <1>1, <1>4, <1>5, <2>1 DEF OneToken, HandlerFits, HasRequest, Timed
<1>9. FlagsFit'
  BY <1>1, <1>5 DEF FlagsFit, drvvars
<1>10. MotorLasts'
  <2>1. PICK m \in Nat : m = moff_timer[current_drive]
    BY MotorFacts
  <2>2. current_drive \in motors /\ m >= 2 * ANSWER + 2
    BY <1>2, <2>1 DEF IInv, MotorLasts
  <2>3. m >= 2 * ANSWER
    BY ONLY <2>2, TicksAssumption, m \in Nat
  <2>4. current_drive' \in motors' /\ moff_timer'[current_drive'] = m
    BY <1>1, <2>1, <2>2 DEF drvvars
  <2>5. Timed("transfer")' => timers'[1][1] = 2
    BY <1>4 DEF Timed
  <2>6. ~(call' = "setup_rw")
    BY <1>4
  <2> QED
    BY ONLY <1>5, <1>6, <2>2, <2>3, <2>4, <2>5, <2>6 DEF MotorLasts
<1>11. DriveSelected'
  BY <1>1 DEF DriveSelected, drvvars
<1>12. OnTrack'
  <2>1. OnTrack
    BY DEF IInv
  <2> QED
    BY ONLY <1>1, <1>2, <1>5, <1>6, <2>1 DEF OnTrack, drvvars, cmdvars
<1>13. TrackKnown'
  BY <1>6 DEF TrackKnown
<1> QED
  BY <1>7, <1>8, <1>9, <1>10, <1>11, <1>12, <1>13 DEF IInv

(* A command is given: it is taken, or the controller is reset.            *)
LEMMA IssueIs ==
  ASSUME IInv, NEW cmd, NEW ok \in BOOLEAN, Issue(cmd, ok), ~reset
  PROVE  /\ do_floppy' = cmd /\ heads' = heads
         /\ \/ command' = cmd /\ age' = 0 /\ call' = "none" /\ reset' = FALSE /\ faults' = faults
            \/ command' = command /\ age' = age /\ call' = "request" /\ reset' = TRUE
               /\ faults' = faults + 1
  BY DEF Issue, IInv, TypeOK

LEMMA TransferOK ==
  ASSUME IInv, NEW ok \in BOOLEAN, Transfer(ok)
  PROVE  IInv'
<1>1. UNCHANGED <<queue, errors, recalibrate, seek, current_drive, seek_track,
                  current_track, motvars, timers, chk>>
  BY DEF Transfer
<1>2. PICK cmd \in {"seek", "rw"} :
        /\ Issue(cmd, ok)
        /\ \/ call = "transfer" /\ cmd = IF seek THEN "seek" ELSE "rw"
           \/ call = "setup_rw" /\ cmd = "rw"
  BY DEF Transfer
<1>3. timers = <<>> /\ command = "none" /\ Busy /\ Selected
  BY <1>2, CallAlone DEF Busy, Selected, AtTransfer, AtRw
<1>4. ~reset /\ ~recalibrate /\ queue # <<>> /\ selected /\ dor = current_drive
  BY <1>3 DEF IInv, FlagsFit, HasRequest, DriveSelected
<1>5. /\ do_floppy' = cmd /\ heads' = heads
      /\ \/ command' = cmd /\ age' = 0 /\ call' = "none" /\ reset' = FALSE /\ faults' = faults
         \/ command' = command /\ age' = age /\ call' = "request" /\ reset' = TRUE
            /\ faults' = faults + 1
  BY <1>2, <1>4, IssueIs
<1>6. TypeOK'
  <2>1. TypeOK
    BY DEF IInv
  <2>2. age' \in Nat /\ faults' \in Nat
    BY ONLY <1>5, <2>1 DEF TypeOK
  <2>3. /\ reset' \in BOOLEAN /\ call' \in Calls /\ command' \in Commands /\ do_floppy' \in Commands
    BY ONLY <1>3, <1>5, cmd \in {"seek", "rw"} DEF Calls, Commands
  <2> QED
    BY ONLY <1>1, <1>5, <2>1, <2>2, <2>3 DEF TypeOK, motvars
<1>7. timers' = <<>> /\ \A fn : ~Timed(fn)'
  BY <1>1, <1>3 DEF Timed
<1>8. OneToken' /\ HandlerFits' /\ HasRequest'
  BY ONLY <1>1, <1>3, <1>4, <1>5, <1>7, cmd \in {"seek", "rw"} DEF OneToken, HandlerFits, HasRequest
<1>9. CASE command' = cmd
  <2>1. command' = cmd /\ age' = 0 /\ call' = "none" /\ reset' = FALSE
    BY <1>3, <1>5, <1>9
  <2>2. /\ ~AtOn' /\ ~AtTransfer' /\ Selected' /\ Busy' /\ (AtRw' <=> cmd = "rw")
        /\ ~(command' = "recal") /\ ~(command' = "reset")
    BY ONLY <1>7, <2>1, cmd \in {"seek", "rw"} DEF AtOn, AtTransfer, AtRw, Selected, Busy
  <2>3. FlagsFit'
    BY <1>1, <1>4, <2>1, <2>2 DEF FlagsFit
  <2>4. MotorLasts'
    <3>1. PICK m \in Nat : m = moff_timer[current_drive]
      BY MotorFacts
    <3>2. current_drive \in motors /\ m >= ANSWER /\ (cmd = "seek" => m >= 2 * ANSWER)
      <4>1. /\ call = "transfer" => m >= 2 * ANSWER
            /\ call = "setup_rw" => m >= ANSWER
            /\ current_drive \in motors
        BY <1>3, <3>1 DEF IInv, MotorLasts
      <4>2. ANSWER \in Nat
        BY TicksAssumption
      <4>3. cmd = "seek" => call = "transfer"
        BY <1>2
      <4>4. call = "transfer" \/ call = "setup_rw"
        BY <1>2
      <4> QED
        BY ONLY <4>1, <4>2, <4>3, <4>4, m \in Nat
    <3>3. current_drive' \in motors' /\ moff_timer'[current_drive'] = m
      BY <1>1, <3>1, <3>2 DEF motvars
    <3>4. 0 <= ANSWER /\ m + 0 = m
      BY TicksAssumption
    <3> QED
      BY ONLY <1>7, <2>1, <2>2, <3>2, <3>3, <3>4 DEF MotorLasts
  <2>5. DriveSelected'
    BY <1>1, <1>4 DEF DriveSelected, motvars
  <2>6. OnTrack'
    <3>1. OnTrack
      BY DEF IInv
    <3>2. cmd = "rw" => ((AtOn \/ AtTransfer) /\ ~seek) \/ AtRw
      BY <1>2 DEF AtTransfer, AtRw
    <3> QED
      BY ONLY <1>1, <1>3, <1>5, <2>2, <3>1, <3>2 DEF OnTrack
  <2>7. TrackKnown'
    BY <2>2 DEF TrackKnown
  <2> QED
    BY <1>6, <1>8, <2>3, <2>4, <2>5, <2>6, <2>7 DEF IInv
<1>10. CASE command' # cmd
  <2>1. command' = "none" /\ call' = "request" /\ reset' = TRUE
    BY <1>3, <1>5, <1>10
  <2>2. ~Busy' /\ MotorLasts' /\ DriveSelected' /\ OnTrack'
    BY <1>7, <2>1, UnbusyOK
  <2>3. FlagsFit' /\ TrackKnown'
    BY <2>1, <2>2 DEF FlagsFit, TrackKnown
  <2> QED
    BY <1>6, <1>8, <2>2, <2>3 DEF IInv
<1> QED
  BY <1>9, <1>10

-----------------------------------------------------------------------------
(* The interrupt.                                                          *)
LEMMA WakeType ==
  ASSUME IInv, NEW a \in Places, NEW b \in Places, chk' = Wake(a, b)
  PROVE  chk' \in [Checkers -> [at : Places, nr : Drives]]
<1>1. chk \in [Checkers -> [at : Places, nr : Drives]]
  BY DEF IInv, TypeOK
<1>2. ASSUME NEW p \in Checkers PROVE [chk[p] EXCEPT !.at = b] \in [at : Places, nr : Drives]
  BY ONLY <1>1, p \in Checkers, b \in Places
<1> QED
  BY <1>1, <1>2 DEF Wake

(* The request at the head ends.                                           *)
LEMMA EndIs ==
  ASSUME IInv, queue # <<>>, EndAndDeselect
  PROVE  /\ queue' = Tail(queue) /\ queue' \in Seq(Requests) /\ errors' = 0
         /\ selected' = FALSE /\ UNCHANGED <<dor, motors, mon_timer>>
         /\ moff_timer' \in [Drives -> Nat]
         /\ chk' \in [Checkers -> [at : Places, nr : Drives]]
<1>1. /\ queue' = Tail(queue) /\ errors' = 0 /\ selected' = FALSE
      /\ UNCHANGED <<dor, motors, mon_timer>> /\ chk' = Wake("ssleep", "select")
      /\ moff_timer' = [moff_timer EXCEPT ![Head(queue).drive] = OFF]
  BY DEF EndAndDeselect, EndCurrent, Deselect, FloppyOff
<1>2. Head(queue) \in Requests /\ queue' \in Seq(Requests)
  BY <1>1, HeadIs
<1>3. chk' \in [Checkers -> [at : Places, nr : Drives]]
  <2>1. "ssleep" \in Places /\ "select" \in Places
    BY DEF Places
  <2> QED
    BY <1>1, <2>1, WakeType
<1>4. moff_timer' \in [Drives -> Nat]
  <2>1. moff_timer \in [Drives -> Nat]
    BY DEF IInv, TypeOK
  <2>2. OFF \in Nat
    BY TicksAssumption
  <2> QED
    BY ONLY <1>1, <2>1, <2>2
<1> QED
  BY <1>1, <1>2, <1>3, <1>4

(* What every answer of the controller does.                               *)
Answered(k) ==
  /\ call = "none" /\ command # "none" /\ do_floppy = command
  /\ queue # <<>> /\ timers = <<>>
  /\ faults' \in Nat
  /\ do_floppy' = "none" /\ command' = "none" /\ age' = 0
  /\ heads' \in [Drives -> Tracks]
  /\ UNCHANGED <<seek, current_drive, seek_track, timers>>

LEMMA AnsweredIs ==
  ASSUME IInv, NEW k, FloppyInterrupt(k)
  PROVE  Answered(k)
<1>1. /\ call = "none" /\ command # "none"
      /\ faults' = IF k = "ok" THEN faults ELSE faults + 1
      /\ do_floppy' = "none" /\ command' = "none" /\ age' = 0
      /\ heads' \in IF command \in {"seek", "recal"} THEN Seeked(k) ELSE {heads}
      /\ UNCHANGED <<seek, current_drive, seek_track, timers>>
  BY DEF FloppyInterrupt
<1>2. queue # <<>> /\ timers = <<>> /\ do_floppy = command
  BY <1>1 DEF IInv, HasRequest, OneToken, HandlerFits
<1>3. /\ heads \in [Drives -> Tracks] /\ current_drive \in Drives /\ seek_track \in Tracks
      /\ 0 \in Tracks /\ faults \in Nat
  BY TrackAssumption DEF IInv, TypeOK
<1>4. faults' \in Nat
  BY ONLY <1>1, <1>3
<1>5. heads' \in [Drives -> Tracks]
  <2>1. \A t \in Tracks : [heads EXCEPT ![current_drive] = t] \in [Drives -> Tracks]
    BY ONLY <1>3
  <2>2. \A h \in Seeked(k) : \E t \in Tracks : h = [heads EXCEPT ![current_drive] = t]
    BY <1>3 DEF Seeked
  <2> QED
    BY ONLY <1>1, <1>3, <2>1, <2>2
<1> QED
  BY <1>1, <1>2, <1>4, <1>5 DEF Answered

(* An answer after which do_fd_request() is called, with a flag set or the *)
(* heads known.                                                            *)
LEMMA AnswerOK ==
  ASSUME IInv, NEW k, Answered(k), call' = "request",
         queue' \in Seq(Requests), errors' \in Nat, reset' \in BOOLEAN, recalibrate' \in BOOLEAN,
         UNCHANGED <<current_track, dor, motors, mon_timer>>, selected' \in BOOLEAN,
         moff_timer' \in [Drives -> Nat], chk' \in [Checkers -> [at : Places, nr : Drives]],
         reset' \/ recalibrate' => queue' # <<>>,
         reset' \/ recalibrate' \/ Owner(current_drive)'
  PROVE  IInv'
<1>1. /\ timers' = <<>> /\ do_floppy' = "none" /\ command' = "none" /\ age' = 0
      /\ heads' \in [Drives -> Tracks] /\ faults' \in Nat
      /\ UNCHANGED <<seek, current_drive, seek_track>>
  BY DEF Answered
<1>2. ~Busy' /\ MotorLasts' /\ DriveSelected' /\ OnTrack' /\ (\A fn : ~Timed(fn)')
  BY <1>1, UnbusyOK
<1>3. TypeOK'
  <2>1. TypeOK
    BY DEF IInv
  <2> QED
    BY <1>1, <2>1 DEF TypeOK, Commands, Calls
<1>4. OneToken' /\ HandlerFits' /\ HasRequest' /\ FlagsFit'
  BY <1>1, <1>2 DEF OneToken, HandlerFits, HasRequest, FlagsFit
<1>5. TrackKnown'
  <2>1. current_drive' \in Drives
    BY <1>3 DEF TypeOK
  <2> QED
    BY <2>1 DEF TrackKnown
<1> QED
  BY <1>2, <1>3, <1>4, <1>5 DEF IInv

(* seek_interrupt(): the heads have arrived, and the motor has an answer's *)
(* time left.                                                              *)
LEMMA SeekInterruptOK ==
  ASSUME IInv, Answered("ok"), command = "seek", heads' \in Seeked("ok"),
         current_track' = seek_track, call' = "setup_rw",
         UNCHANGED <<queue, errors, reset, recalibrate, motvars, chk>>
  PROVE  IInv'
<1>1. /\ timers' = <<>> /\ do_floppy' = "none" /\ command' = "none" /\ age' = 0
      /\ heads' \in [Drives -> Tracks] /\ faults' \in Nat /\ queue # <<>>
      /\ UNCHANGED <<seek, current_drive, seek_track>>
  BY DEF Answered
<1>2. Busy /\ Selected
  BY DEF Busy, Selected
<1>3. \A fn : ~Timed(fn)'
  BY <1>1 DEF Timed
<1>4. ~AtOn' /\ ~AtTransfer' /\ AtRw' /\ Selected' /\ Busy'
  BY <1>1, <1>3 DEF AtOn, AtTransfer, AtRw, Selected, Busy
<1>5. TypeOK'
  <2>1. TypeOK
    BY DEF IInv
  <2> QED
    BY <1>1, <2>1 DEF TypeOK, motvars, Commands, Calls
<1>6. OneToken' /\ HandlerFits' /\ HasRequest'
  BY <1>1, <1>3 DEF OneToken, HandlerFits, HasRequest
<1>7. FlagsFit'
  BY <1>1, <1>2 DEF FlagsFit, IInv
<1>8. MotorLasts'
  <2>1. PICK m \in Nat : m = moff_timer[current_drive]
    BY MotorFacts
  <2>2. current_drive \in motors /\ age <= ANSWER /\ m + age >= 2 * ANSWER
    BY <1>2, <2>1 DEF IInv, MotorLasts
  <2>3. m >= ANSWER
    <3>1. age \in Nat /\ ANSWER \in Nat
      BY MotorFacts
    <3> QED
      BY ONLY <2>2, <3>1, m \in Nat
  <2>4. current_drive' \in motors' /\ moff_timer'[current_drive'] = m
    BY <1>1, <2>1, <2>2 DEF motvars
  <2> QED
    BY <1>1, <1>3, <1>4, <2>3, <2>4 DEF MotorLasts
<1>9. DriveSelected'
  BY <1>1, <1>2 DEF DriveSelected, IInv, motvars
<1>10. OnTrack'
  <2>1. [drive |-> current_drive, track |-> seek_track] \in Requests
    BY <1>2 DEF IInv, OnTrack
  <2>2. heads'[current_drive] = seek_track
    <3>1. heads' = [heads EXCEPT ![current_drive] = seek_track]
      BY DEF Seeked
    <3>2. heads \in [Drives -> Tracks] /\ current_drive \in Drives
      BY DEF IInv, TypeOK
    <3> QED
      BY ONLY <3>1, <3>2
  <2> QED
    BY <1>1, <2>1, <2>2 DEF OnTrack
<1>11. TrackKnown'
  BY <1>4 DEF TrackKnown
<1> QED
  BY <1>5, <1>6, <1>7, <1>8, <1>9, <1>10, <1>11 DEF IInv

(* rw_interrupt().                                                         *)
LEMMA RwInterruptOK ==
  ASSUME IInv, NEW k, Answered(k), command = "rw", heads' = heads, EndAndDeselect,
         call' = "request", UNCHANGED <<reset, recalibrate, current_track>>
  PROVE  IInv'
<1>1. AtRw /\ Busy
  BY DEF AtRw, Selected, Busy
<1>2. ~reset /\ ~recalibrate
  BY <1>1 DEF IInv, FlagsFit
<1>3. Owner(current_drive)'
  <2>1. /\ [drive |-> current_drive, track |-> seek_track] \in Requests
        /\ heads[current_drive] = seek_track /\ current_track = seek_track
    BY <1>1 DEF IInv, OnTrack
  <2> QED
    BY <2>1 DEF Owner, Answered
<1>4. /\ queue' \in Seq(Requests) /\ errors' = 0
      /\ selected' = FALSE /\ UNCHANGED <<dor, motors, mon_timer>>
      /\ moff_timer' \in [Drives -> Nat]
      /\ chk' \in [Checkers -> [at : Places, nr : Drives]]
  BY EndIs DEF Answered
<1>5. errors' \in Nat /\ selected' \in BOOLEAN
  BY <1>4
<1>6. reset' \in BOOLEAN /\ recalibrate' \in BOOLEAN /\ ~reset' /\ ~recalibrate'
  BY <1>2 DEF IInv, TypeOK
<1> QED
  BY <1>3, <1>4, <1>5, <1>6, AnswerOK

LEMMA TailRest ==
  ASSUME NEW S, NEW s \in Seq(S), Len(s) > 1
  PROVE  Tail(s) # <<>>
<1>1. s # <<>> /\ Len(s) \in Nat
  OBVIOUS
<1>2. PICK n : n = Len(s) /\ n \in Nat /\ n > 1
  BY <1>1
<1>3. PICK l : l = Len(Tail(s)) /\ l = n - 1
  BY ONLY <1>1, <1>2, s \in Seq(S), HeadTailProperties
<1>4. l # 0
  BY ONLY <1>2, <1>3
<1> QED
  BY ONLY <1>3, <1>4, EmptySeq

(* bad_flp_intr(): there is another request if it ends the current one.    *)
LEMMA BadInterruptOK ==
  ASSUME IInv, NEW k, Answered(k), command \in {"seek", "rw"}, NEW timeout \in BOOLEAN,
         BadFlpIntr(timeout), errors >= MAX_ERRORS => Len(queue) > 1,
         call' = "request", UNCHANGED current_track
  PROVE  IInv'
<1>1. /\ queue \in Seq(Requests) /\ errors \in Nat /\ MAX_ERRORS \in Nat /\ queue # <<>>
      /\ moff_timer \in [Drives -> Nat] /\ chk \in [Checkers -> [at : Places, nr : Drives]]
      /\ recalibrate \in BOOLEAN /\ selected \in BOOLEAN
  BY ErrorsAssumption DEF IInv, TypeOK, Answered
<1>2. PICK b \in BOOLEAN : reset' = (timeout \/ b) /\ recalibrate' = (recalibrate \/ ~b)
  BY DEF BadFlpIntr
<1>3. reset' \in BOOLEAN /\ recalibrate' \in BOOLEAN /\ (reset' \/ recalibrate')
  BY ONLY <1>1, <1>2, timeout \in BOOLEAN, b \in BOOLEAN
<1>4. \/ errors + 1 > MAX_ERRORS /\ EndAndDeselect
      \/ errors' = errors + 1 /\ UNCHANGED <<queue, motvars, chk>>
  BY DEF BadFlpIntr
<1>5. /\ queue' \in Seq(Requests) /\ errors' \in Nat /\ queue' # <<>>
      /\ UNCHANGED <<dor, motors, mon_timer>> /\ selected' \in BOOLEAN
      /\ moff_timer' \in [Drives -> Nat]
      /\ chk' \in [Checkers -> [at : Places, nr : Drives]]
  <2>1. CASE errors + 1 > MAX_ERRORS /\ EndAndDeselect
    <3>1. /\ queue' = Tail(queue) /\ queue' \in Seq(Requests) /\ errors' = 0
          /\ selected' = FALSE /\ UNCHANGED <<dor, motors, mon_timer>>
          /\ moff_timer' \in [Drives -> Nat]
          /\ chk' \in [Checkers -> [at : Places, nr : Drives]]
      BY <1>1, <2>1, EndIs
    <3>2. Len(queue) > 1
      BY <1>1, <2>1
    <3>3. Tail(queue) # <<>>
      BY <1>1, <3>2, TailRest
    <3> QED
      BY <3>1, <3>3
  <2>2. CASE errors' = errors + 1 /\ UNCHANGED <<queue, motvars, chk>>
    <3>1. errors' \in Nat
      BY ONLY <1>1, <2>2
    <3> QED
      BY ONLY <1>1, <2>2, <3>1 DEF motvars
  <2> QED
    BY <1>4, <2>1, <2>2
<1> QED
  BY <1>3, <1>5, AnswerOK

(* recal_interrupt() and reset_interrupt(): after a reset the heads are to *)
(* be recalibrated, after a recalibration they are on track 0.             *)
LEMMA RecalInterruptOK ==
  ASSUME IInv, NEW k, Answered(k), command \in {"recal", "reset"},
         command = "recal" => heads' \in Seeked(k), k \in {"ok", "bad"},
         reset' = (reset \/ k = "bad"),
         recalibrate' = (recalibrate /\ ~(command = "recal" /\ k = "ok")),
         call' = "request", UNCHANGED <<queue, errors, current_track, motvars, chk>>
  PROVE  IInv'
<1>1. TypeOK
  BY DEF IInv
<1>2. /\ queue' \in Seq(Requests) /\ errors' \in Nat /\ selected' \in BOOLEAN
      /\ UNCHANGED <<dor, motors, mon_timer>>
      /\ moff_timer' \in [Drives -> Nat]
      /\ chk' \in [Checkers -> [at : Places, nr : Drives]]
  BY <1>1 DEF TypeOK, motvars
<1>3. reset' \in BOOLEAN /\ recalibrate' \in BOOLEAN
  OBVIOUS
<1>4. queue' # <<>>
  BY DEF Answered
<1>5. reset' \/ recalibrate' \/ Owner(current_drive)'
  <2>1. CASE command = "reset"
    BY <2>1 DEF IInv, FlagsFit
  <2>2. CASE k = "bad"
    BY <2>2
  <2>3. CASE command = "recal" /\ k = "ok"
    <3>1. heads' = [heads EXCEPT ![current_drive] = 0]
      BY <2>3 DEF Seeked
    <3>2. heads \in [Drives -> Tracks] /\ current_drive \in Drives
      BY <1>1 DEF TypeOK
    <3>3. heads'[current_drive] = 0
      BY ONLY <3>1, <3>2
    <3>4. current_track = 0
      BY <2>3 DEF IInv, OnTrack
    <3> QED
      BY <3>3, <3>4 DEF Owner, Answered
  <2> QED
    BY <2>1, <2>2, <2>3
<1> QED
  BY <1>2, <1>3, <1>4, <1>5, AnswerOK

LEMMA FloppyInterruptOK ==
  ASSUME IdleChain = FALSE, IInv, NEW k, FloppyInterrupt(k)
  PROVE  IInv'
<1>1. Answered(k)
  BY AnsweredIs
<1>2. do_floppy = command
  BY <1>1 DEF Answered
<1>3. heads' \in IF command \in {"seek", "recal"} THEN Seeked(k) ELSE {heads}
  BY DEF FloppyInterrupt
<1>4. CASE /\ do_floppy = "seek" /\ k = "ok"
           /\ current_track' = seek_track /\ call' = "setup_rw"
           /\ UNCHANGED <<queue, errors, reset, recalibrate, motvars, chk>>
  BY <1>1, <1>2, <1>3, <1>4, SeekInterruptOK
<1>5. CASE /\ do_floppy = "rw" /\ EndAndDeselect /\ call' = "request"
           /\ UNCHANGED <<reset, recalibrate, current_track>>
  BY <1>1, <1>2, <1>3, <1>5, RwInterruptOK
<1>6. CASE /\ do_floppy \in {"seek", "rw"} /\ k \in {"bad", "timeout"}
           /\ BadFlpIntr(k = "timeout") /\ call' = "request" /\ UNCHANGED current_track
  <2>1. errors >= MAX_ERRORS => Len(queue) > 1
    BY <1>6 DEF FloppyInterrupt, MayFail
  <2>2. PICK t \in BOOLEAN : t = (k = "timeout")
    OBVIOUS
  <2> QED
    BY <1>1, <1>2, <1>6, <2>1, <2>2, BadInterruptOK
<1>7. CASE /\ do_floppy \in {"recal", "reset"} /\ k \in {"ok", "bad"}
           /\ reset' = (reset \/ k = "bad")
           /\ recalibrate' = (recalibrate /\ ~(do_floppy = "recal" /\ k = "ok"))
           /\ call' = "request" /\ UNCHANGED <<queue, errors, current_track, motvars, chk>>
  <2>1. command = "recal" => heads' \in Seeked(k)
    BY <1>3
  <2> QED
    BY <1>1, <1>2, <1>7, <2>1, RecalInterruptOK
<1> QED
  BY <1>4, <1>5, <1>6, <1>7 DEF FloppyInterrupt

-----------------------------------------------------------------------------
(* do_timer().                                                             *)

LEMMA AloneIs ==
  ASSUME NEW S, NEW s \in Seq(S), Len(s) = 1
  PROVE  s = <<s[1]>>
<1>1. s[1] \in S
  OBVIOUS
<1>2. <<s[1]>> \in Seq(S) /\ Len(<<s[1]>>) = 1 /\ <<s[1]>>[1] = s[1]
  BY <1>1
<1> QED
  BY <1>2, SeqEqual

(* The one timer of the chain is not there, goes on, or is due.            *)
LEMMA FireTimerIs ==
  ASSUME IInv, call = "none", FireTimer
  PROVE  \/ timers = <<>> /\ timers' = <<>> /\ call' = "none"
         \/ /\ timers # <<>> /\ timers[1][1] > 1 /\ call' = "none"
            /\ timers' = << <<timers[1][1] - 1, timers[1][2]>> >>
         \/ timers # <<>> /\ timers[1][1] = 1 /\ timers' = <<>> /\ call' = timers[1][2]
<1>1. timers \in Seq((Nat \ {0}) \X {"on", "transfer"})
  BY DEF IInv, TypeOK
<1>2. CASE timers = <<>>
  BY <1>2 DEF FireTimer
<1>3. CASE timers # <<>>
  <2>1. Len(timers) = 1
    BY <1>3 DEF IInv, OneToken
  <2>2. PICK t \in Nat \ {0}, fn \in {"on", "transfer"} : timers[1] = <<t, fn>>
    BY <1>1, <2>1
  <2>3. timers = << <<t, fn>> >>
    BY ONLY <1>1, <2>1, <2>2, AloneIs
  <2>4. /\ t > 1 => timers' = [timers EXCEPT ![1][1] = t - 1] /\ call' = "none"
        /\ ~(t > 1) => timers' = Tail(timers) /\ call' = fn
    BY <1>3, <2>2 DEF FireTimer
  <2>5. ~(t > 1) => t = 1
    BY ONLY t \in Nat \ {0}
  <2>6. Tail(timers) = <<>>
    BY ONLY <2>3
  <2>7. [timers EXCEPT ![1][1] = t - 1] = << <<t - 1, fn>> >>
    BY ONLY <2>3
  <2> QED
    BY <1>3, <2>2, <2>4, <2>5, <2>6, <2>7
<1> QED
  BY <1>2, <1>3

(* A tick of the motor timers: the motor of a drive that still has time    *)
(* goes on, and its time does not run while the motor gets up to speed.    *)
LEMMA MotorTick ==
  ASSUME IInv, DoTimer, NEW d \in Drives
  PROVE  /\ mon_timer'[d] \in Nat /\ moff_timer'[d] \in Nat
         /\ d \in motors /\ mon_timer[d] > 0 =>
              mon_timer'[d] = mon_timer[d] - 1 /\ moff_timer'[d] = moff_timer[d]
         /\ moff_timer'[d] >= moff_timer[d] - 1
         /\ d \in motors /\ moff_timer[d] > 0 => d \in motors'
<1>1. PICK n \in Nat, m \in Nat : n = mon_timer[d] /\ m = moff_timer[d]
  BY DEF IInv, TypeOK
<1>2. mon_timer'[d] = IF d \in motors /\ n > 0 THEN n - 1 ELSE n
  BY <1>1 DEF DoTimer
<1>3. moff_timer'[d] = IF d \in motors /\ n = 0 /\ m \in 1 .. OFF THEN m - 1 ELSE m
  BY <1>1 DEF DoTimer
<1>4. d \in motors /\ m > 0 => d \in motors'
  BY <1>1 DEF DoTimer
<1>5. OFF \in Nat
  BY TicksAssumption
<1> QED
  BY ONLY <1>1, <1>2, <1>3, <1>4, <1>5, n \in Nat, m \in Nat

LEMMA DoTimerType ==
  ASSUME IInv, DoTimer
  PROVE  TypeOK'
<1>1. TypeOK
  BY DEF IInv
<1>2. /\ call = "none" /\ FireTimer /\ age' = IF command = "none" THEN 0 ELSE age + 1
      /\ UNCHANGED <<queue, errors, drvvars, do_floppy, command, heads, dor, selected, faults>>
  BY DEF DoTimer
<1>3. age' \in Nat
  BY ONLY <1>1, <1>2 DEF TypeOK
<1>4. timers' \in Seq((Nat \ {0}) \X {"on", "transfer"}) /\ call' \in Calls
  <2>1. timers # <<>> => timers[1][1] \in Nat \ {0} /\ timers[1][2] \in {"on", "transfer"}
    BY MotorFacts
  <2>2. \/ timers' = <<>> /\ call' \in {"none", "on", "transfer"}
        \/ \E t \in Nat \ {0}, fn \in {"on", "transfer"} : timers' = << <<t, fn>> >> /\ call' = "none"
    <3>1. timers # <<>> /\ timers[1][1] > 1 => timers[1][1] - 1 \in Nat \ {0}
      BY ONLY <2>1
    <3> QED
      BY <1>2, <2>1, <3>1, FireTimerIs
  <2>3. CASE timers' = <<>> /\ call' \in {"none", "on", "transfer"}
    BY ONLY <2>3 DEF Calls
  <2>4. ASSUME NEW t \in Nat \ {0}, NEW fn \in {"on", "transfer"},
               timers' = << <<t, fn>> >>, call' = "none"
        PROVE  timers' \in Seq((Nat \ {0}) \X {"on", "transfer"}) /\ call' \in Calls
    BY <2>4, OneTimer DEF Calls
  <2> QED
    BY <2>2, <2>3, <2>4
<1>5. motors' \subseteq Drives
  BY <1>1 DEF TypeOK, DoTimer
<1>6. mon_timer' \in [Drives -> Nat] /\ moff_timer' \in [Drives -> Nat]
  <2>1. \A d \in Drives : mon_timer'[d] \in Nat /\ moff_timer'[d] \in Nat
    BY MotorTick
  <2>2. /\ mon_timer' = [d \in Drives |-> mon_timer'[d]]
        /\ moff_timer' = [d \in Drives |-> moff_timer'[d]]
    BY DEF DoTimer
  <2> QED
    BY ONLY <2>1, <2>2
<1>7. chk' \in [Checkers -> [at : Places, nr : Drives]]
  <2>1. chk \in [Checkers -> [at : Places, nr : Drives]]
    BY <1>1 DEF TypeOK
  <2>2. "motor" \in Places
    BY DEF Places
  <2>3. \A p \in Checkers : [chk[p] EXCEPT !.at = "motor"] \in [at : Places, nr : Drives]
    BY ONLY <2>1, <2>2
  <2> QED
    BY <2>1, <2>3 DEF DoTimer
<1> QED
  BY ONLY <1>1, <1>2, <1>3, <1>4, <1>5, <1>6, <1>7 DEF TypeOK, drvvars

(* A timer that fires hands the token to its function: the places of the   *)
(* chain stay.                                                             *)
LEMMA TimerPlaces ==
  ASSUME IInv, DoTimer
  PROVE  /\ AtOn' <=> AtOn
         /\ AtTransfer' <=> AtTransfer
         /\ AtRw' <=> AtRw
         /\ Selected' <=> Selected
         /\ Busy' <=> Busy
         /\ call' \in {"none", "on", "transfer"}
         /\ \A fn : Timed(fn)' => Timed(fn) /\ timers'[1][1] = timers[1][1] - 1
         /\ \A fn \in {"on", "transfer"} : call' = fn => Timed(fn) /\ timers[1][1] = 1
<1>1. call = "none" /\ FireTimer /\ command' = command
  BY DEF DoTimer
<1>2. timers # <<>> => timers[1][2] \in {"on", "transfer"}
  BY MotorFacts
<1>3. /\ \A fn : Timed(fn)' => Timed(fn) /\ timers'[1][1] = timers[1][1] - 1
      /\ \A fn \in {"on", "transfer"} : call' = fn => Timed(fn) /\ timers[1][1] = 1
      /\ \A fn \in {"on", "transfer"} : Timed(fn) => Timed(fn)' \/ call' = fn
      /\ call' \in {"none", "on", "transfer"}
  <2>1. CASE timers = <<>>
    BY <1>1, <2>1, FireTimerIs DEF Timed
  <2>2. CASE timers # <<>> /\ timers[1][1] > 1
    BY <1>1, <2>2, FireTimerIs DEF Timed
  <2>3. CASE timers # <<>> /\ ~(timers[1][1] > 1)
    BY <1>1, <1>2, <2>3, FireTimerIs DEF Timed
  <2> QED
    BY <2>1, <2>2, <2>3
<1> QED
  BY <1>1, <1>3 DEF AtOn, AtTransfer, AtRw, Selected, Busy

(* The budget of ticks: what the chain takes and what the motor loses.     *)
LEMMA TimerMotor ==
  ASSUME IInv, DoTimer
  PROVE  MotorLasts'
<1>1. /\ call = "none" /\ (command # "none" => age < ANSWER)
      /\ age' = IF command = "none" THEN 0 ELSE age + 1
      /\ command' = command /\ current_drive' = current_drive
  BY DEF DoTimer, drvvars
<1>2. PICK m \in Nat, n \in Nat, a \in Nat :
        m = moff_timer[current_drive] /\ n = mon_timer[current_drive] /\ a = age
  BY MotorFacts
<1>3. PICK m1 \in Nat, n1 \in Nat :
        m1 = moff_timer'[current_drive] /\ n1 = mon_timer'[current_drive]
  BY MotorFacts, MotorTick
<1>4. /\ current_drive \in motors /\ n > 0 => n1 = n - 1 /\ m1 = m
      /\ m1 >= m - 1
      /\ current_drive \in motors /\ m > 0 => current_drive \in motors'
  BY <1>2, <1>3, MotorFacts, MotorTick
<1>5. /\ Busy => current_drive \in motors
      /\ Timed("on") => n >= timers[1][1]
      /\ AtOn => m >= 2 * ANSWER + 2
      /\ Timed("transfer") => m >= 2 * ANSWER + timers[1][1]
      /\ command = "seek" => m + a >= 2 * ANSWER
      /\ command = "rw" => m + a >= ANSWER
  BY <1>2 DEF IInv, MotorLasts
<1>6. PICK t \in Nat : timers # <<>> => t = timers[1][1] /\ t > 0
  BY MotorFacts
<1>7. ANSWER \in Nat
  BY TicksAssumption
<1>8. AtOn => Busy /\ Timed("on") /\ timers # <<>>
  BY <1>1 DEF Busy, AtOn, Timed
<1>9. AtTransfer => Busy /\ Timed("transfer") /\ timers # <<>>
  BY <1>1 DEF Busy, Selected, AtTransfer, Timed
<1>10. AtRw => Busy /\ command = "rw"
  BY <1>1 DEF Busy, Selected, AtRw
<1>11. AtOn => current_drive \in motors' /\ m1 >= 2 * ANSWER + 2 /\ n1 >= t - 1
  BY ONLY <1>4, <1>5, <1>6, <1>7, <1>8, m \in Nat, n \in Nat, m1 \in Nat, n1 \in Nat, t \in Nat
<1>12. AtTransfer => current_drive \in motors' /\ m1 >= 2 * ANSWER + (t - 1)
  BY ONLY <1>4, <1>5, <1>6, <1>7, <1>9, m \in Nat, m1 \in Nat, t \in Nat
<1>13. command = "seek" \/ command = "rw" => a < ANSWER /\ age' = a + 1 /\ Busy
  BY <1>1, <1>2 DEF Busy, Selected, AtRw
<1>14. command = "seek" => current_drive \in motors' /\ age' <= ANSWER /\ m1 + age' >= 2 * ANSWER
  BY ONLY <1>4, <1>5, <1>7, <1>13, m \in Nat, m1 \in Nat, a \in Nat
<1>15. command = "rw" => current_drive \in motors' /\ age' <= ANSWER /\ m1 + age' >= ANSWER
  BY ONLY <1>4, <1>5, <1>7, <1>13, m \in Nat, m1 \in Nat, a \in Nat
<1>16. moff_timer'[current_drive'] = m1 /\ mon_timer'[current_drive'] = n1
  BY <1>1, <1>3
<1>17. Busy' => current_drive' \in motors'
  BY <1>1, <1>10, <1>11, <1>12, <1>14, <1>15, TimerPlaces DEF Busy, Selected
<1>18. Timed("on")' => mon_timer'[current_drive'] >= timers'[1][1]
  <2>1. Timed("on")' => AtOn /\ timers'[1][1] = t - 1
    BY <1>6, TimerPlaces DEF AtOn, Timed
  <2> QED
    BY <1>11, <1>16, <2>1
<1>19. AtOn' => moff_timer'[current_drive'] >= 2 * ANSWER + 2
  BY <1>11, <1>16, TimerPlaces
<1>20. Timed("transfer")' => moff_timer'[current_drive'] >= 2 * ANSWER + timers'[1][1]
  <2>1. Timed("transfer")' => AtTransfer /\ timers'[1][1] = t - 1
    BY <1>6, TimerPlaces DEF AtTransfer, Timed
  <2> QED
    BY <1>12, <1>16, <2>1
<1>21. call' = "transfer" => moff_timer'[current_drive'] >= 2 * ANSWER
  <2>1. call' = "transfer" => AtTransfer /\ t = 1
    BY <1>6, TimerPlaces DEF AtTransfer, Timed
  <2>2. call' = "transfer" => m1 >= 2 * ANSWER
    BY ONLY <1>7, <1>12, <2>1, m1 \in Nat
  <2> QED
    BY <1>16, <2>2
<1>22. call' # "setup_rw"
  BY TimerPlaces
<1> QED
  BY ONLY <1>1, <1>14, <1>15, <1>16, <1>17, <1>18, <1>19, <1>20, <1>21, <1>22 DEF MotorLasts

LEMMA DoTimerOK ==
  ASSUME IInv, DoTimer
  PROVE  IInv'
<1>1. /\ call = "none" /\ FireTimer
      /\ UNCHANGED <<queue, errors, drvvars, do_floppy, command, heads, dor, selected, faults>>
  BY DEF DoTimer
<1>2. call' # "request" /\ call' # "repeat"
  BY TimerPlaces
<1>3. OneToken'
  <2>0. OneToken
    BY DEF IInv
  <2>1. CASE timers = <<>>
    BY <1>1, <2>0, <2>1, FireTimerIs DEF OneToken, Timed
  <2>2. CASE timers # <<>>
    <3>1. PICK t \in Nat \ {0}, fn \in {"on", "transfer"} : t = timers[1][1] /\ fn = timers[1][2]
      BY <2>2, MotorFacts
    <3>2. command' = "none" /\ (fn = "transfer" => t <= 2)
      BY <1>1, <2>0, <2>2, <3>1 DEF OneToken, Timed
    <3>3. CASE t = 1
      <4>1. timers' = <<>> /\ call' = fn
        BY <1>1, <2>2, <3>1, <3>3, FireTimerIs
      <4> QED
        BY ONLY <3>2, <4>1, fn \in {"on", "transfer"} DEF OneToken, Timed
    <3>4. CASE t # 1
      <4>1. timers' = << <<t - 1, fn>> >> /\ call' = "none"
        BY <1>1, <2>2, <3>1, <3>4, FireTimerIs
      <4>2. t - 1 \in Nat \ {0} /\ (fn = "transfer" => t - 1 <= 2)
        BY ONLY <3>2, <3>4, t \in Nat \ {0}
      <4>3. timers' # <<>> /\ Len(timers') = 1 /\ timers'[1][1] = t - 1 /\ timers'[1][2] = fn
        BY ONLY <4>1, <4>2, OneTimer, fn \in {"on", "transfer"}
      <4> QED
        BY ONLY <3>2, <4>1, <4>2, <4>3 DEF OneToken, Timed
    <3> QED
      BY <3>3, <3>4
  <2> QED
    BY <2>1, <2>2
<1>4. HandlerFits' /\ HasRequest'
  BY <1>1, <1>2, TimerPlaces DEF IInv, HandlerFits, HasRequest
<1>5. FlagsFit'
  BY <1>1, <1>2, TimerPlaces DEF IInv, FlagsFit, drvvars
<1>6. DriveSelected'
  BY <1>1, TimerPlaces DEF IInv, DriveSelected, drvvars
<1>7. OnTrack'
  BY <1>1, TimerPlaces DEF IInv, OnTrack, drvvars
<1>8. TrackKnown'
  <2>1. TrackKnown
    BY DEF IInv
  <2>2. (Busy' <=> Busy) /\ UNCHANGED <<current_drive, current_track, heads, command, reset, recalibrate>>
    BY <1>1, TimerPlaces DEF drvvars
  <2> QED
    BY ONLY <2>1, <2>2 DEF TrackKnown, Owner
<1> QED
  BY <1>3, <1>4, <1>5, <1>6, <1>7, <1>8, TimerMotor, DoTimerType DEF IInv

-----------------------------------------------------------------------------
(* Every step keeps the invariant.                                         *)
LEMMA StutterOK ==
  ASSUME IInv, UNCHANGED vars
  PROVE  IInv'
<1>1. Still /\ UNCHANGED <<queue, chk, motvars>>
  BY DEF vars, Still
<1>2. /\ queue \in Seq(Requests) /\ dor \in Drives /\ motors \in SUBSET Drives
      /\ mon_timer \in [Drives -> Nat] /\ moff_timer \in [Drives -> Nat]
      /\ chk \in [Checkers -> [at : Places, nr : Drives]]
  BY DEF IInv, TypeOK
<1>3. \A d \in motors : mon_timer[d] >= mon_timer[d]
  <2>1. \A d \in motors : mon_timer[d] \in Nat
    BY ONLY <1>2
  <2> QED
    BY ONLY <2>1
<1>4. /\ mon_timer' \in [Drives -> Nat] /\ moff_timer' \in [Drives -> Nat]
      /\ motors \subseteq motors' /\ motors' \in SUBSET Drives /\ dor' \in Drives
      /\ selected => dor' = dor
      /\ selected' = selected /\ queue' \in Seq(Requests)
      /\ chk' \in [Checkers -> [at : Places, nr : Drives]]
      /\ \A d \in motors : mon_timer'[d] >= mon_timer[d]
      /\ \A d \in Drives : moff_timer'[d] >= OFF \/ moff_timer'[d] = moff_timer[d]
  BY ONLY <1>1, <1>2, <1>3 DEF motvars
<1> QED
  BY ONLY IInv, <1>1, <1>4, StillOK

LEMMA NextOK ==
  ASSUME IdleChain = FALSE, SeekKept, IInv, [Next]_vars
  PROVE  IInv'
<1>1. CASE UNCHANGED vars
  BY <1>1, StutterOK
<1>2. CASE Chain
  BY <1>2, DoFdResetOK, DoFdRecalibrateOK, TransferOK, DoFdRequestOK, FloppyOnOK DEF Chain
<1>3. CASE \E k \in {"ok", "bad", "timeout", "protected"} : FloppyInterrupt(k)
  BY <1>3, FloppyInterruptOK
<1>4. CASE \E k \in {"ok", "bad", "timeout", "protected"} : UnexpectedInterrupt(k)
  BY <1>4, UnexpectedInterruptOK
<1>5. CASE DoTimer
  BY <1>5, DoTimerOK
<1>6. CASE \E r \in Requests : AddRequest(r)
  BY <1>6, AddRequestOK
<1>7. ASSUME NEW p \in Checkers, NEW nr \in Drives, ChangeOn(p, nr)
      PROVE  IInv'
  BY <1>7, ChangeOnOK
<1>8. ASSUME NEW p \in Checkers, ChangeSleep(p) \/ ChangeSelect(p)
      PROVE  IInv'
  BY <1>8, ChangeSleepOK, ChangeSelectOK
<1> QED
  BY <1>1, <1>2, <1>3, <1>4, <1>5, <1>6, <1>7, <1>8 DEF Next

(* The driver of floppy.c keeps its invariant: one token, the flags, the   *)
(* ticks the motor has left and where the heads are.                       *)
THEOREM Invariance ==
  ASSUME IdleChain = FALSE, SeekKept
  PROVE  Spec => []IInv
<1>1. Init => IInv
  BY InitOK
<1>2. IInv /\ [Next]_vars => IInv'
  BY NextOK
<1> QED
  BY <1>1, <1>2, PTL DEF Spec

(* Whatever timers, other drives and floppy_change() do, the commands that *)
(* transfer() and setup_rw_floppy() give run on the selected drive, with   *)
(* its motor on, and a transfer on its track.                              *)
THEOREM TransferReadyHolds ==
  ASSUME IdleChain = FALSE, SeekKept
  PROVE  Spec => []TransferReady
<1>1. IInv => TransferReady
  BY DEF IInv, TransferReady, MotorLasts, DriveSelected, OnTrack, Busy, Selected, AtRw
<1> QED
  BY <1>1, Invariance, PTL

(* add_request(), the timers and the interrupts never start a second chain *)
(* of handlers, and the one there is goes on until the list is empty.      *)
THEOREM OneChainHolds ==
  ASSUME IdleChain = FALSE, SeekKept
  PROVE  Spec => []OneChain
<1>1. ASSUME IInv PROVE OneChain
  <2>1. OneToken
    BY <1>1 DEF IInv
  <2>2. Len(timers) = 0 \/ (Len(timers) = 1 /\ command = "none")
    BY ONLY <2>1 DEF OneToken
  <2>3. Len(timers) + (IF command = "none" THEN 0 ELSE 1) <= 1
    BY ONLY <2>2
  <2> QED
    BY ONLY <2>1, <2>3 DEF OneToken, OneChain
<1> QED
  BY <1>1, Invariance, PTL
=============================================================================
