------------------------------- MODULE Timers -------------------------------
(***************************************************************************)
(* The bus timer (ziptimer.v) and the interrupt controller (icontrol.v) as *)
(* main.v joins them, clock by clock, under a program that sets the timer  *)
(* and sleeps for an interrupt as wait() of cputest.c does.                *)
(*                                                                         *)
(* A write to the controller is [ack, lines, on, all]: bits 0 to 14, 16 to *)
(* 30, 15 and 31 of the word.  The timer's input t is [we, value, auto].   *)
(* cpu.at is the access wait() makes next.  Kept by the model: due.left, in  *)
(* how many ticks the timer has to raise its line (0: never), due.now,     *)
(* that it has to have it up, and raised, what has risen since wait()      *)
(* cleared the controller.                                                 *)
(***************************************************************************)
EXTENDS Integers

CONSTANTS Lines,        \* i_brd_ints
          BUSTIMER,     \* the line of the bus timer, BUSPIC_BUSTIMER
          TimerMax,     \* the largest value of the timer, 2^VW - 1
          RELOADABLE    \* the timer's parameter

ASSUME TimersAssumption == BUSTIMER \in Lines /\ TimerMax \in Nat \ {0} /\ RELOADABLE \in BOOLEAN

VARIABLES timer, pic, cpu, due, raised
timersVars == <<timer, pic, cpu, due, raised>>

Values == 0 .. TimerMax
TimerInput == [we : BOOLEAN, value : Values, auto : BOOLEAN]
PicInput == [we : BOOLEAN, ack : SUBSET Lines, lines : SUBSET Lines, on : BOOLEAN, all : BOOLEAN]
Idle == [at |-> "idle", mask |-> {}]

-----------------------------------------------------------------------------
(* ziptimer.v, block by block.  ce is its clock enable.                    *)
Expires == timer.value = 1
Running(t) == IF t.we THEN t.value # 0 ELSE timer.running /\ (timer.zero => timer.auto)
Value(ce, t) ==
    IF t.we THEN t.value
    ELSE IF ~(ce /\ timer.running) THEN timer.value
    ELSE IF ~timer.zero THEN timer.value - 1
    ELSE IF timer.auto THEN timer.interval ELSE timer.value

Zero(ce, t) ==
    IF t.we THEN t.value = 0
    ELSE IF ce /\ timer.running THEN Expires \/ (timer.zero /\ ~timer.auto)
    ELSE timer.zero

Ziptimer(ce, t) ==
    timer' = [running |-> Running(t),
              auto |-> IF t.we THEN RELOADABLE /\ t.auto /\ t.value # 0 ELSE timer.auto,
              interval |-> IF t.we THEN (IF RELOADABLE THEN t.value ELSE 0) ELSE timer.interval,
              value |-> Value(ce, t), zero |-> Zero(ce, t), int |-> ce /\ ~t.we /\ Expires]

Stopped == [running |-> FALSE, auto |-> FALSE, interval |-> 0, value |-> 0, zero |-> TRUE, int |-> FALSE]

-----------------------------------------------------------------------------
(* icontrol.v.  A line that rises in the clock it is acknowledged stays.   *)
Ints(dev) == dev \union (IF timer.int THEN {BUSTIMER} ELSE {})

\* The acknowledgement wins
MutIntState(dev, w) == (pic.state \union Ints(dev)) \ (IF w.we THEN w.ack ELSE {})

IntState(dev, w) == Ints(dev) \union (pic.state \ (IF w.we THEN w.ack ELSE {}))
IntEnable(w) ==
    IF ~w.we THEN pic.enable ELSE IF w.on THEN pic.enable \union w.lines ELSE pic.enable \ w.lines
Icontrol(dev, w) ==
    pic' = [state |-> IntState(dev, w), enable |-> IntEnable(w),
            mie |-> IF w.we /\ w.all THEN w.on ELSE pic.mie,
            int |-> pic.mie /\ pic.state \intersect pic.enable # {}]

-----------------------------------------------------------------------------
(* wait() of cputest.c, and the TIMER written before or meanwhile, by the  *)
(* program or over the debugging bus.  Between two accesses any number of  *)
(* clocks may pass.                                                        *)
NoWord == [we |-> FALSE, ack |-> {}, lines |-> {}, on |-> FALSE, all |-> FALSE]
ClearAll == [NoWord EXCEPT !.we = TRUE, !.ack = Lines, !.lines = Lines, !.all = TRUE]     \* 0xffff7fff
EnableOnly(msk) == [NoWord EXCEPT !.we = TRUE, !.lines = msk, !.on = TRUE, !.all = TRUE]  \* 0x80008000|(msk<<16)
AllOff == [NoWord EXCEPT !.we = TRUE, !.all = TRUE]                                       \* 0x80000000

Goes(from, to) == cpu.at = from /\ cpu' = [cpu EXCEPT !.at = to]
WaitStep(w) ==
    \/ w = ClearAll /\ cpu.at = "idle"
       /\ \E msk \in SUBSET Lines \ {{}} : cpu' = [at |-> "enable", mask |-> msk]
    \/ w = EnableOnly(cpu.mask) /\ Goes("enable", "read")
    \/ w = NoWord /\ Goes("read", "sleep")
    \/ w = NoWord /\ pic.int /\ Goes("sleep", "off")
    \/ w = AllOff /\ Goes("off", "idle")
Software(w, t) == IF t.we THEN w = NoWord /\ UNCHANGED cpu
                  ELSE WaitStep(w) \/ (w = NoWord /\ UNCHANGED cpu)

\* What the timer has been asked for
Due(ce, t) ==
    [left |-> IF t.we THEN t.value
              ELSE IF ~ce \/ due.left = 0 THEN due.left
              ELSE IF due.left > 1 THEN due.left - 1
              ELSE IF timer.auto THEN timer.interval + 1 ELSE 0,
     now |-> ce /\ ~t.we /\ due.left = 1]

PicClock(dev, ce, w, t) ==
    /\ Software(w, t) /\ Ziptimer(ce, t) /\ Icontrol(dev, w)
    /\ due' = Due(ce, t)
    /\ raised' = IF cpu'.at = "idle" THEN {}
                 ELSE Ints(dev) \union (IF cpu.at = "idle" THEN {} ELSE raised)

\* i_reset stops the timer and the CPU; the controller's is tied to 0
PicReset(dev) ==
    /\ timer' = Stopped /\ due' = [left |-> 0, now |-> FALSE] /\ cpu' = Idle /\ raised' = {}
    /\ Icontrol(dev, NoWord)

TimersInit ==
    /\ timer \in {[Stopped EXCEPT !.interval = n] : n \in IF RELOADABLE THEN Values ELSE {0}}
    /\ pic = [state |-> {}, enable |-> {}, mie |-> FALSE, int |-> FALSE]
    /\ cpu = Idle /\ due = [left |-> 0, now |-> FALSE] /\ raised = {}

TimersClock ==
    \E dev \in SUBSET (Lines \ {BUSTIMER}) :
        \/ \E ce \in BOOLEAN, w \in {NoWord, ClearAll, AllOff, EnableOnly(cpu.mask)}, t \in TimerInput :
              PicClock(dev, ce, w, t)
        \/ PicReset(dev)

TimersSpec == TimersInit /\ [][TimersClock]_timersVars

-----------------------------------------------------------------------------
(* Every register has its width.                                           *)
TimersTypeOK ==
    /\ timer \in [running : BOOLEAN, auto : BOOLEAN, interval : Values, value : Values,
                  zero : BOOLEAN, int : BOOLEAN]
    /\ pic \in [state : SUBSET Lines, enable : SUBSET Lines, mie : BOOLEAN, int : BOOLEAN]
    /\ cpu \in [at : {"idle", "enable", "read", "sleep", "off"}, mask : SUBSET Lines]
    /\ due \in [left : 0 .. TimerMax + 1, now : BOOLEAN] /\ raised \in SUBSET Lines

(* The timer counts what was last written to it: its line is up n enabled  *)
(* clocks after a write of n, with the reload every n + 1 after that, for  *)
(* one clock and at no other time, and what it shows is what is left.      *)
TimerIsOnTime ==
    /\ timer.int = due.now
    /\ timer.value = IF due.left > timer.interval /\ RELOADABLE THEN 0 ELSE due.left

(* No interrupt between the write that clears the controller and WAIT is   *)
(* lost, in whatever clocks wait()'s accesses fall: what has risen since   *)
(* is still pending and enabled when the CPU sleeps.  And the CPU wakes    *)
(* for nothing else, not for a line it waited for before.                  *)
WaitIsTrue ==
    /\ cpu.at \in {"read", "sleep"} =>
          raised \subseteq pic.state /\ cpu.mask \subseteq pic.enable /\ pic.mie
    /\ cpu.at = "off" => raised \intersect cpu.mask # {}

\* The timer's interrupts, and every other line's, reach the program that waits.
InterruptsArrive == TimerIsOnTime /\ WaitIsTrue
=============================================================================
