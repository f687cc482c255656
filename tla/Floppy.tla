------------------------------- MODULE Floppy -------------------------------
(***************************************************************************)
(* The floppy driver (kernel/blk_drv/floppy.c), its motors and the timer   *)
(* list that it waits with (kernel/sched.c), and tasks that ask whether a  *)
(* diskette was changed.                                                   *)
(*                                                                         *)
(* The driver's variables and the controller are one record, and each      *)
(* routine a function on it: handlers run to their ends, and a task's      *)
(* do_fd_request() as well.  Requests are queued as they come (the         *)
(* elevator is in module BlockRequests); a bad one is beyond the end of    *)
(* the diskette.  Types of diskettes, sides and sectors are left out.      *)
(* The controller answers each command before a motor is turned off.       *)
(* SpinUp, Settle, Long and Short stand for HZ/2, 2, 10000 and 3*HZ ticks. *)
(***************************************************************************)
EXTENDS Integers, Sequences, SequencesExt, FiniteSetsExt

CONSTANTS
    Drives, Tracks,
    Heads,              \* tracks the heads may be on at first
    Askers,             \* tasks
    SpinUp, Settle, Long, Short, MAX_ERRORS,
    Requests,           \* what may be asked of the driver, and of each task
    Outcomes,           \* how reading or writing may end
    WhenBusy,           \* BOOLEAN: interrupts without a command come also in a request
    MaxRequests, MaxFaults

\* The value of current_track at the start.
NoTrack == 255

ASSUME FloppyAssumption ==
    /\ 0 \in Drives /\ 0 \in Tracks /\ Heads \subseteq Tracks /\ NoTrack \notin Tracks
    /\ Requests \subseteq [drive : Drives, track : Tracks, bad : BOOLEAN]
    /\ {SpinUp, Settle, Long, Short, MAX_ERRORS, MaxRequests, MaxFaults} \subseteq Nat
    /\ 0 < Settle /\ Settle < SpinUp /\ Settle < Short /\ Short < Long

VARIABLES
    f,                  \* driver, timers and controller
    place, asleep,      \* tasks in floppy_change(nr)
    nr,
    left, faults        \* bounds: requests and faults to come

floppy_vars == <<f, place, asleep, nr, left, faults>>

Nothing == "none"
Awake == <<"awake", 0>>           \* a task sleeps for one of these
Motor(d) == <<"motor", d>>
Select == <<"select", 0>>

\* What Op makes of a state, with the state computed first.
Do(Op(_), s) == CHOOSE v \in {Op(w) : w \in {s}} : TRUE

-----------------------------------------------------------------------------
\* add_timer() with an interval that is not 0: the timers that are due before the
\* new one take their part of it.  (What is behind is not told.)
Due(list) ==
    LET due[k \in 0 .. Len(list)] == IF k = 0 THEN 0 ELSE due[k - 1] + list[k].jiffies IN
    due
Before(list, n) == Max({k \in 0 .. Len(list) : \A i \in 1 .. k : Due(list)[i] < n})
add_timer(s, n, fn) ==
    LET k == Before(s.timers, n) IN
    [s EXCEPT !.timers = InsertAt(@, k + 1, [jiffies |-> n - Due(@)[k], fn |-> fn])]

\* Motor and selection of a drive; how long to wait for them is mon[d].
ticks_to_floppy_on(s, d) ==
    LET sel == IF s.selected THEN s.sel ELSE d IN
    [s EXCEPT !.moff[d] = Long, !.motor[d] = TRUE, !.sel = sel,
              !.mon[d] = IF ~ s.motor[d] THEN SpinUp
                         ELSE IF sel # s.sel /\ @ < Settle THEN Settle ELSE @]
floppy_off(s, d) == [s EXCEPT !.moff[d] = Short]

do_floppy_timer(s) ==
    LET on == {d \in Drives : s.motor[d]}
        spinning == {d \in on : s.mon[d] > 0}
        stopping == {d \in on \ spinning : s.moff[d] = 0} IN
    [s EXCEPT !.mon = [d \in Drives |-> @[d] - (IF d \in spinning THEN 1 ELSE 0)],
              !.moff = [d \in Drives |->
                          @[d] - (IF d \in on \ (spinning \cup stopping) THEN 1 ELSE 0)],
              !.motor = [d \in Drives |-> @[d] /\ d \notin stopping],
              !.wake = @ \cup {Motor(d) : d \in {c \in spinning : s.mon[c] = 1}}]

-----------------------------------------------------------------------------
\* The driver.  A byte is not taken if the controller is mute: then it is reset.
Command(kind, drive, track) == [kind |-> kind, drive |-> drive, track |-> track]
floppy_deselect(s) == [s EXCEPT !.selected = FALSE, !.wake = @ \cup {Select}]
end_request(s) == [floppy_off(s, Head(s.queue).drive) EXCEPT !.queue = Tail(@)]

reset_floppy(s) ==
    [s EXCEPT !.reset = FALSE, !.recalibrate = TRUE, !.seek = FALSE,
              !.do_floppy = "reset", !.command = Command("reset", 0, 0)]

recalibrate_floppy(s) ==
    IF s.mute THEN reset_floppy(s)
    ELSE [s EXCEPT !.recalibrate = FALSE, !.current_track = 0, !.seek = FALSE,
                   !.do_floppy = "recal",
                   !.command = Command("recal", s.current_drive, 0)]

setup_rw_floppy(s) ==
    IF s.mute THEN reset_floppy(s)
    ELSE [s EXCEPT !.do_floppy = "rw",
                   !.command = Command("rw", s.current_drive, s.seek_track)]

transfer(s) ==
    IF s.reset \/ s.mute THEN reset_floppy(s)
    ELSE IF ~ s.seek THEN setup_rw_floppy(s)
    ELSE [s EXCEPT !.do_floppy = "seek",
                   !.command = Command("seek", s.current_drive, s.seek_track)]

\* Mutant: the drive is not held selected.
OnUnselected(s) ==
    IF s.current_drive # s.sel
    THEN add_timer([s EXCEPT !.sel = s.current_drive], Settle, "transfer")
    ELSE transfer(s)

floppy_on_interrupt(s) ==
    IF s.current_drive # s.sel
    THEN add_timer([s EXCEPT !.selected = TRUE, !.sel = s.current_drive], Settle, "transfer")
    ELSE Do(transfer, [s EXCEPT !.selected = TRUE])

\* Requests beyond the end are dropped; the drive of such a one is current all
\* the same, and seek stays set.
DropBad(s) ==
    LET n == Max({k \in 0 .. Len(s.queue) : \A i \in 1 .. k : s.queue[i].bad})
        drives == [i \in 0 .. n |-> IF i = 0 THEN s.current_drive ELSE s.queue[i].drive]
        dropped == {drives[i] : i \in 1 .. n} IN
    [s EXCEPT !.queue = SubSeq(@, n + 1, Len(@)), !.current_drive = drives[n],
              !.seek = \E i \in 1 .. n : drives[i] # drives[i - 1],
              !.moff = [d \in Drives |-> IF d \in dropped THEN Short ELSE @[d]]]

\* Mutant: another drive is not a reason to seek.
MustSeekSame(s, r) == s.seek \/ r.track # s.current_track
MustSeek(s, r) == s.seek \/ s.current_drive # r.drive \/ r.track # s.current_track

\* The first request waits for its motor, if it must.
Prepare(s) ==
    LET r == Head(s.queue) IN
    ticks_to_floppy_on([s EXCEPT !.seek = MustSeek(s, r), !.current_drive = r.drive,
                                 !.seek_track = r.track], r.drive)
Start(s) ==
    LET ticks == s.mon[s.current_drive] IN
    IF ticks = 0 THEN floppy_on_interrupt(s) ELSE add_timer(s, ticks, "floppy_on")
Serve(s) == IF s.queue = <<>> THEN s ELSE Do(Start, Prepare(s))

do_fd_request(s) ==
    IF s.reset THEN reset_floppy(s)
    ELSE IF s.recalibrate THEN recalibrate_floppy(s)
    ELSE Do(Serve, DropBad(s))

\* Gives up after MAX_ERRORS; then the errors of the next request are read, or
\* of none at address 0.
GiveUp(s) ==
    IF Head(s.queue).errors > MAX_ERRORS THEN end_request(floppy_deselect(s)) ELSE s
Again(s) ==
    LET errors == IF s.queue = <<>> THEN s.garbage ELSE Head(s.queue).errors IN
    IF errors > MAX_ERRORS \div 2 THEN [s EXCEPT !.reset = TRUE]
    ELSE [s EXCEPT !.recalibrate = TRUE]
bad_flp_intr(s) ==
    Do(Again, Do(GiveUp, [s EXCEPT !.queue[1].errors = @ + 1]))

\* The handlers, by how the command ended; a diskette that is protected from
\* writing ends the request as well.  If there was no proper answer, the
\* reply of an earlier command is looked at (stale).
rw_interrupt(s, end) == Do(do_fd_request,
    CASE end = "ok" -> end_request(floppy_deselect(s))
      [] end = "bad" -> bad_flp_intr(s)
      [] end = "stale" -> end_request(floppy_deselect([s EXCEPT !.reset = TRUE]))
      [] end = "none" -> bad_flp_intr([s EXCEPT !.reset = TRUE]))

seek_interrupt(s, end) ==
    IF end = "ok" THEN setup_rw_floppy([s EXCEPT !.current_track = s.seek_track])
    ELSE Do(do_fd_request, bad_flp_intr([s EXCEPT !.reset = @ \/ end = "none"]))

recal_interrupt(s, end) == Do(do_fd_request,
    IF end = "ok" THEN [s EXCEPT !.recalibrate = FALSE] ELSE [s EXCEPT !.reset = TRUE])

\* Mutant: nothing goes on after a reset.
ResetQuietly(s) == [s EXCEPT !.reset = s.mute]

reset_interrupt(s) == Do(do_fd_request, [s EXCEPT !.reset = s.mute])

-----------------------------------------------------------------------------
\* A step of the driver: what it has woken wakes.
Become(s1) == \E s \in {s1} :
    /\ f' = [s EXCEPT !.wake = {}, !.mute = FALSE, !.garbage = 0]
    /\ asleep' = [t \in Askers |-> IF asleep[t] \in s.wake THEN Awake ELSE asleep[t]]

\* A fault: the controller takes no bytes in this handler.
Mute(b) == IF b THEN faults > 0 /\ faults' = faults - 1 ELSE faults' = faults

\* add_request() of a task.
Submit ==
    /\ left > 0 /\ left' = left - 1
    /\ \E r \in Requests, mute \in BOOLEAN :
         LET new == [drive |-> r.drive, track |-> r.track, bad |-> r.bad, errors |-> 0]
             s == [f EXCEPT !.queue = Append(@, new), !.mute = mute] IN
         IF f.queue = <<>> THEN Mute(mute) /\ Become(do_fd_request(s))
         ELSE ~ mute /\ Mute(mute) /\ Become(s)
    /\ UNCHANGED <<place, nr>>

\* floppy_interrupt(): the command has ended with e, the head of the drive is at
\* a track.  A head that is elsewhere finds no sector.
Ends(c) ==
    CASE c.kind = "reset" -> {"ok"}
      [] c.kind \in {"seek", "recal"} -> {"ok", "bad", "none"}
      [] c.kind = "rw" -> IF f.head[c.drive] # c.track THEN {"bad"}
                          ELSE Outcomes
HeadAfter(c, e) ==
    IF c.kind \notin {"seek", "recal"} THEN {f.head}
    ELSE {[f.head EXCEPT ![c.drive] = t] : t \in IF e = "ok" THEN {c.track} ELSE Tracks}

Answer ==
    LET c == f.command
        lost == c.kind = "rw" /\ f.head[c.drive] # c.track IN
    /\ c.kind # Nothing
    /\ \E e \in Ends(c), mute \in BOOLEAN, garbage \in {0, MAX_ERRORS} :
       \E head \in HeadAfter(c, e) :
         LET s == [f EXCEPT !.head = head, !.command.kind = Nothing, !.do_floppy = Nothing,
                            !.mute = mute, !.garbage = garbage] IN
         /\ mute => e = "ok"
         /\ Mute(mute \/ (e \in {"bad", "stale", "none"} /\ ~ lost))
         /\ Become(CASE f.do_floppy = "rw" -> rw_interrupt(s, e)
                     [] f.do_floppy = "seek" -> seek_interrupt(s, e)
                     [] f.do_floppy = "recal" -> recal_interrupt(s, e)
                     [] f.do_floppy = "reset" -> reset_interrupt(s))
    /\ UNCHANGED <<place, nr, left>>

\* unexpected_floppy_interrupt().
Unexpected ==
    /\ f.do_floppy = Nothing /\ Mute(TRUE)
    /\ f.queue = <<>> \/ WhenBusy
    /\ \/ Become([f EXCEPT !.recalibrate = TRUE]) \/ Become([f EXCEPT !.reset = TRUE])
    /\ UNCHANGED <<place, nr, left>>

\* do_timer(): a timer that is due is taken off the list and its function called;
\* there are at most two.
Fire(s) ==
    LET s0 == [s EXCEPT !.timers = Tail(@)] IN
    IF s.timers = <<>> \/ Head(s.timers).jiffies > 0 THEN s
    ELSE IF Head(s.timers).fn = "transfer" THEN transfer(s0) ELSE floppy_on_interrupt(s0)

Tick ==
    /\ f.command.kind \in {"seek", "rw", "recal"} => f.moff[f.command.drive] > 0
    /\ \E mute \in BOOLEAN :
         LET due == IF f.timers = <<>> THEN <<>> ELSE [f.timers EXCEPT ![1].jiffies = @ - 1]
             s == [f EXCEPT !.timers = due, !.mute = mute] IN
         /\ mute => s.timers # <<>> /\ s.timers[1].jiffies = 0
         /\ Mute(mute)
         /\ Become(Do(do_floppy_timer, Do(Fire, Do(Fire, s))))
    /\ UNCHANGED <<place, nr, left>>

-----------------------------------------------------------------------------
\* floppy_change(nr): floppy_on(), then the loop for the selection.  Between a
\* test and the sleep it leads to, handlers may run: ticks_to_floppy_on() has
\* enabled interrupts again.
At(t, p) == place[t] = p /\ asleep[t] = Awake
GoTo(t, p) == place' = [place EXCEPT ![t] = p]

FloppyOn(t) ==
    /\ At(t, "on")
    /\ f' = ticks_to_floppy_on(f, nr[t])
    /\ GoTo(t, IF f'.mon[nr[t]] > 0 THEN "motor" ELSE "select")
    /\ UNCHANGED <<asleep, nr, left, faults>>

WaitFor(t) ==
    /\ \/ /\ At(t, "motor") /\ GoTo(t, "on")
          /\ asleep' = [asleep EXCEPT ![t] = Motor(nr[t])]
       \/ /\ At(t, "unselected") /\ GoTo(t, "select")
          /\ asleep' = [asleep EXCEPT ![t] = Select]
    /\ UNCHANGED <<f, nr, left, faults>>

Selected(t) ==
    /\ At(t, "select")
    /\ GoTo(t, CASE f.sel # nr[t] /\ f.selected -> "unselected"
                 [] f.sel # nr[t] /\ ~ f.selected -> "on"
                 [] OTHER -> "changed")
    /\ UNCHANGED <<f, asleep, nr, left, faults>>

\* The line that tells of a change is the selected drive's.
Changed(t) ==
    /\ At(t, "changed")
    /\ f' = floppy_off(f, nr[t]) /\ GoTo(t, "done")
    /\ UNCHANGED <<asleep, nr, left, faults>>

Change(t) == FloppyOn(t) \/ WaitFor(t) \/ Selected(t) \/ Changed(t)

-----------------------------------------------------------------------------
FloppyInit ==
    /\ \E head \in [Drives -> Heads] :
         f = [sel |-> 0, motor |-> [d \in Drives |-> FALSE], mon |-> [d \in Drives |-> 0],
              moff |-> [d \in Drives |-> 0], selected |-> FALSE,
              timers |-> <<>>, queue |-> <<>>,
              current_drive |-> 0, current_track |-> NoTrack, seek |-> FALSE, seek_track |-> 0,
              reset |-> FALSE, recalibrate |-> FALSE, do_floppy |-> Nothing,
              command |-> Command(Nothing, 0, 0), head |-> head,
              mute |-> FALSE, garbage |-> 0, wake |-> {}]
    /\ nr \in [Askers -> Drives]
    /\ place = [t \in Askers |-> "on"] /\ asleep = [t \in Askers |-> Awake]
    /\ left = MaxRequests /\ faults = MaxFaults

FloppyNext == Submit \/ Answer \/ Unexpected \/ Tick \/ \E t \in Askers : Change(t)

\* The clock ticks and the controller answers; tasks need not come to run.
FloppySpec ==
    FloppyInit /\ [][FloppyNext]_floppy_vars /\ WF_floppy_vars(Tick) /\ WF_floppy_vars(Answer)

\* Tasks run too.
FloppySpecTasks == FloppySpec /\ \A t \in Askers : WF_floppy_vars(Change(t))

-----------------------------------------------------------------------------
\* A command for a drive is given while its motor is on and up to speed and it
\* is selected, for the request that is current, and neither changes before the
\* answer: whatever tasks do to motors and selection meanwhile.  Of the ticks a
\* drive needs to settle after it was selected, one may be missing (Settled).
CommandIsReady ==
    LET c == f.command IN
    c.kind \in {"seek", "rw"} =>
      /\ f.motor[c.drive] /\ f.mon[c.drive] < Settle /\ f.sel = c.drive /\ f.selected
      /\ f.queue # <<>> /\ Head(f.queue).drive = c.drive /\ Head(f.queue).track = c.track

\* A command waits until its drive has settled.  It does not: two tasks that
\* change the selection while a request's timer runs raise the wait of its drive,
\* and the timer does not know.
Settled == f.command.kind \in {"seek", "rw"} => f.mon[f.command.drive] = 0

\* The driver waits for one thing at a time: a timer or an answer.
OneWait == Len(f.timers) + (IF f.command.kind # Nothing THEN 1 ELSE 0) <= 1

\* Blocks are read and written where they are: the head is on the track, though
\* the driver knows the track of one drive only.
HeadInPlace == f.command.kind = "rw" => f.head[f.command.drive] = Head(f.queue).track

\* Every request ends.
RequestsEnd == [](f.queue # <<>> => <>(f.queue = <<>>))

\* A task that asks for a change comes back with an answer.
ChangeReturns == \A t \in Askers : <>(place[t] = "done")

\* And the answer is its drive's.
AnswerIsOfDrive == \A t \in Askers : place[t] = "changed" => f.sel = nr[t]

=============================================================================
