-------------------------------- MODULE SimTb --------------------------------
(***************************************************************************)
(* The simulation's main loop: automaster_tb.cpp, MAINTB with its SIM      *)
(* instructions (main_tb.cpp) and TESTB::tick (testb.h); and TBCLOCK       *)
(* (tbclock.h), for designs of several clocks.                             *)
(*                                                                         *)
(* The CPU is external: alu and wr are the instructions in its last two    *)
(* stages, regs what has been written, new the pulse cpu_new_pc.  A        *)
(* register written by the instruction before is not in regs yet when a    *)
(* SIM instruction looks: it is on cpu_wr_gpreg.                           *)
(***************************************************************************)
EXTENDS Integers, Sequences, FiniteSets, SequencesExt

CONSTANTS SimPrograms,   \* sequences of instructions
          SimRegs,       \* the registers they use, supervisor's; the user's are 16 on
          ClockSets,     \* pairs of clock intervals, in picoseconds
          MaxTime

ASSUME SimAssumption == SimRegs \subseteq 0 .. 15 /\ MaxTime \in Nat

VARIABLES tb, zcpu, clocks
simVars == <<tb, zcpu, clocks>>

Bubble == [op |-> "none", r |-> 0, v |-> 0]
Exits == {"exit0", "exituser", "exit", "exitimm"}
Sims == Exits \cup {"dump", "dumpreg", "dumpuser", "soutuser", "sout", "soutimm", "unknown"}
AllRegs == SimRegs \cup {r + 16 : r \in SimRegs}

-----------------------------------------------------------------------------
(* The CPU: a write, a branch (which also returns to user mode when it has *)
(* v = 1) and a break take effect one stage after a SIM instruction.       *)
Issue(bubble) ==
    LET c == zcpu
        flush == c.alu.op = "jump" /\ ~c.new
        next == IF bubble \/ c.broken \/ c.alu.op = "break" \/ c.pc > Len(c.prog) THEN Bubble ELSE c.prog[c.pc]
        wr == IF c.new THEN Bubble ELSE c.alu
    IN  [c EXCEPT !.regs = IF c.wr.op = "set" THEN [@ EXCEPT ![c.wr.r] = c.wr.v] ELSE @,
                  !.wr = wr, !.alu = next, !.new = flush,
                  !.gie = @ \/ (flush /\ c.alu.v = 1),
                  !.broken = @ \/ wr.op = "break",
                  !.pc = IF flush THEN c.alu.r ELSE IF next = Bubble THEN @ ELSE @ + 1]

-----------------------------------------------------------------------------
(* MAINTB::execsim: what a register holds for a SIM instruction.           *)
RBase(c) == IF c.gie THEN 16 ELSE 0
MutReg(c, r) == c.regs[r]
Reg(c, r) == IF c.wr.op = "set" /\ c.wr.r = r THEN c.wr.v ELSE c.regs[r]
\* The exits and the dump of a user register keep the low byte, unless the
\* value comes from cpu_wr_gpreg.
LowReg(c, r) == IF c.wr.op = "set" /\ c.wr.r = r THEN c.wr.v ELSE c.regs[r] % 256
Byte(v) == v % 256
ExecSim(c, t) ==
    LET i == c.alu
        Say(k, v) == [t EXCEPT !.out = Append(@, <<k, v>>)]
        Exit(v) == [t EXCEPT !.done = TRUE, !.pc = "exit", !.code = Byte(v)]
    IN  CASE i.op = "exit0" -> Exit(0)
          [] i.op = "exituser" -> Exit(LowReg(c, i.r + 16))
          [] i.op = "exit" -> Exit(LowReg(c, i.r + RBase(c)))
          [] i.op = "exitimm" -> Exit(i.v)
          [] i.op = "dump" -> Say("dump", 0)
          [] i.op = "dumpreg" -> Say("reg", Reg(c, i.r + RBase(c)))
          [] i.op = "dumpuser" -> Say("ureg", LowReg(c, i.r + 16))
          [] i.op = "soutuser" -> Say("char", Byte(Reg(c, i.r + 16)))
          [] i.op = "sout" -> Say("char", Byte(Reg(c, i.r + RBase(c))))
          [] i.op = "soutimm" -> Say("char", Byte(i.v))
          [] i.op = "unknown" -> Say("sim", i.v)
\* sim_clk_tick: the SIM instruction, unless the pipeline is being cleared,
\* then the count that ends a run whose CPU has hit a break.
IsSim(c) == c.alu.op \in Sims /\ ~c.new
Bombed == 12
Counted(e) == [e EXCEPT !.bombed = @ + 1, !.done = @ \/ e.bombed > Bombed]
SimClkTick(c, t) ==
    LET e == IF IsSim(c) THEN ExecSim(c, t) ELSE t
    IN  IF e.pc = "exit" THEN e
        ELSE IF e.bombed > 0 THEN Counted(e)
        ELSE IF c.broken THEN [e EXCEPT !.bombed = 1, !.out = Append(@, <<"bomb", 0>>)]
        ELSE e

\* main: with a program it runs until done, without one for ever.
Tick ==
    /\ tb.pc = "run" /\ ~(tb.willexit /\ tb.done)
    /\ tb.bombed <= Bombed + 1
    /\ \E bubble \in BOOLEAN :
          /\ zcpu' = Issue(bubble)
          /\ tb' = SimClkTick(zcpu', tb)
    /\ UNCHANGED clocks
Leave ==
    /\ tb.pc = "run" /\ tb.willexit /\ tb.done
    /\ tb' = [tb EXCEPT !.pc = "left"]
    /\ UNCHANGED <<zcpu, clocks>>

-----------------------------------------------------------------------------
(* TBCLOCK.  A loop over several of them goes to the nearest edge.         *)
Interval(ps) == 2 * (ps \div 4)
ClockInit(ps) == [inc |-> Interval(ps), now |-> Interval(ps) + 1, last |-> 0, ticks |-> 0]
TimeToEdge(k) == IF k.last + k.inc > k.now THEN k.last + k.inc - k.now
                 ELSE k.last + 2 * k.inc - k.now
Advance(k, t) ==
    IF k.now + t >= k.last + 2 * k.inc
    THEN [k EXCEPT !.now = @ + t, !.last = @ + 2 * k.inc, !.ticks = @ + 1]
    ELSE [k EXCEPT !.now = @ + t]
RisingEdge(k) == k.now = k.last
FallingEdge(k) == k.now = k.last + k.inc
Nearest(ks) == IF TimeToEdge(ks[1]) < TimeToEdge(ks[2]) THEN TimeToEdge(ks[1]) ELSE TimeToEdge(ks[2])
AdvanceClocks ==
    /\ tb.pc = "clocks" /\ clocks.t < MaxTime
    /\ LET t == Nearest(clocks.k)
       IN  clocks' = [t |-> clocks.t + t, step |-> t, k |-> [i \in 1 .. 2 |-> Advance(clocks.k[i], t)]]
    /\ UNCHANGED <<tb, zcpu>>

SimInit ==
    /\ \E p \in SimPrograms :
          zcpu = [prog |-> p, pc |-> 1, regs |-> [r \in AllRegs |-> 0], gie |-> FALSE, alu |-> Bubble, wr |-> Bubble,
                  new |-> FALSE, broken |-> FALSE]
    /\ \E w \in BOOLEAN :
          tb = [pc |-> "run", willexit |-> w, done |-> FALSE, code |-> 0, bombed |-> 0, out |-> <<>>]
    /\ clocks = [t |-> 0, step |-> 0, k |-> <<>>]
\* A harness of two clocks, with no program.
ClocksInit ==
    /\ zcpu = [prog |-> <<>>, pc |-> 1, regs |-> [r \in AllRegs |-> 0], gie |-> FALSE, alu |-> Bubble, wr |-> Bubble,
               new |-> FALSE, broken |-> FALSE]
    /\ tb = [pc |-> "clocks", willexit |-> FALSE, done |-> FALSE, code |-> 0, bombed |-> 0, out |-> <<>>]
    /\ \E s \in ClockSets : clocks = [t |-> 0, step |-> 0, k |-> [i \in 1 .. 2 |-> ClockInit(s[i])]]
SimNext == Tick \/ Leave \/ AdvanceClocks
\* The CPU gets on: a bubble in an empty pipeline is no step.
SimFairness == WF_simVars(Tick) /\ WF_simVars(Leave)

-----------------------------------------------------------------------------
(* What a program does, one instruction after the other.                   *)
Ran(p, s) ==
    LET i == p[s.pc]
        At(r) == s.regs[r]
        base == IF s.gie THEN 16 ELSE 0
        Out(k, v) == [s EXCEPT !.out = Append(@, <<k, v>>), !.pc = @ + 1]
        End(v) == [s EXCEPT !.end = "exit", !.code = v % 256]
    IN  CASE i.op = "set" -> [s EXCEPT !.regs[i.r] = i.v, !.pc = @ + 1]
          [] i.op = "jump" -> [s EXCEPT !.pc = i.r, !.gie = @ \/ i.v = 1]
          [] i.op = "break" -> [s EXCEPT !.end = "break", !.out = Append(@, <<"bomb", 0>>)]
          [] i.op = "exit0" -> End(0)
          [] i.op = "exituser" -> End(At(i.r + 16))
          [] i.op = "exit" -> End(At(i.r + base))
          [] i.op = "exitimm" -> End(i.v)
          [] i.op = "dump" -> Out("dump", 0)
          [] i.op = "dumpreg" -> Out("reg", At(i.r + base))
          [] i.op = "dumpuser" -> Out("ureg", At(i.r + 16))
          [] i.op = "soutuser" -> Out("char", At(i.r + 16) % 256)
          [] i.op = "sout" -> Out("char", At(i.r + base) % 256)
          [] i.op = "soutimm" -> Out("char", i.v % 256)
          [] i.op = "unknown" -> Out("sim", i.v)
Meant(p) ==
    LET run[n \in 0 .. Len(p)] ==
            IF n = 0 THEN [pc |-> 1, regs |-> [r \in AllRegs |-> 0], gie |-> FALSE, out |-> <<>>, end |-> "no", code |-> 0]
            ELSE IF run[n - 1].end # "no" \/ run[n - 1].pc > Len(p) THEN run[n - 1] ELSE Ran(p, run[n - 1])
    IN  run[Len(p)]
Same(a, b) == a = b \/ (a[1] = "ureg" /\ b[1] = "ureg" /\ a[2] % 256 = b[2] % 256)

\* The harness and the CPU keep their types, an exit code its eight bits.
SimTypeOK ==
    /\ tb.pc \in {"run", "left", "exit", "clocks"} /\ tb.code \in 0 .. 255 /\ tb.bombed \in 0 .. Bombed + 2
    /\ Len(tb.out) <= Len(zcpu.prog) /\ DOMAIN zcpu.regs = AllRegs

\* execsim and the CPU's pipeline: the simulation says what the program says,
\* in its order, nothing of a branch not taken, with the values the program
\* has written just before, but for the high bytes of a user register's dump.
SaysWhatTheProgramSays ==
    LET m == Meant(zcpu.prog) IN
    /\ Len(tb.out) <= Len(m.out) /\ \A n \in 1 .. Len(tb.out) : Same(tb.out[n], m.out[n])
    /\ tb.pc = "exit" => m.end = "exit" /\ tb.code = m.code /\ Len(tb.out) = Len(m.out)

\* main of automaster_tb.cpp: a run with a program ends when the program exits
\* or breaks.
RunsEnd == (tb.pc = "run" /\ tb.willexit /\ Meant(zcpu.prog).end # "no") ~> tb.pc \in {"exit", "left"}

\* m_bomb and the loop's count: the loop is left only thirteen clocks after a
\* break, with everything on its way shown and the break last.
BreaksAreShown == tb.pc = "left" => tb.bombed > 12 /\ tb.out # <<>> /\ Last(tb.out) = <<"bomb", 0>>

\* TBCLOCK: going to the nearest edge of two clocks no clock is taken past an
\* edge (the asserts of tbclock.h:79, 99 and 123), somebody has an edge, and
\* none drifts from its own count of ticks.
ClocksMeetTheirEdges ==
    clocks.step > 0 =>
        /\ \A i \in 1 .. 2 : LET k == clocks.k[i] IN
              /\ clocks.step <= k.inc /\ k.now \in k.last .. k.last + 2 * k.inc - 1
              /\ k.last = 2 * k.inc * k.ticks
        /\ \E i \in 1 .. 2 : RisingEdge(clocks.k[i]) \/ FallingEdge(clocks.k[i])

\* The harness shows the program as it is and keeps its clocks.
HarnessIsFaithful == SaysWhatTheProgramSays /\ BreaksAreShown /\ ClocksMeetTheirEdges
=============================================================================
