------------------------------- MODULE ZipDbg -------------------------------
(***************************************************************************)
(* The debugger ZIPPY of sw/host/zipdbg.cpp and the state reader zipstate  *)
(* against a CPU that runs, stalls on its bus, halts and steps.            *)
(*                                                                         *)
(* Both tools use a pair of registers: a write to R_ZIPCTRL halts the CPU  *)
(* and selects a register, which R_ZIPDATA then reads or writes.  Port     *)
(* says what is behind the pair: "pair" is the port the tools are written  *)
(* for, "direct" is zipbones.v as main.v instantiates it: its register     *)
(* space is addressed directly by six address bits, of which main.v        *)
(* connects one, so that the control register is never reached and both    *)
(* registers of the pair are general registers.                            *)
(*                                                                         *)
(* dbg is the debugger, zc the CPU.  zc.work is an instruction in          *)
(* progress, zc.halted r_halted.  runs counts the instructions completed   *)
(* since the debugger had the CPU halted, steps the step commands.         *)
(***************************************************************************)
EXTENDS Integers, Sequences

CONSTANTS Port,          \* "pair" or "direct"
          DbgRegs,       \* the registers read_raw_state reads, in its order
          RegValues,     \* values of a register, 0 included
          MAXERR,        \* polls of a stalled CPU
          MaxKeys        \* keys in a session

ASSUME DbgAssumption ==
    /\ Port \in {"pair", "direct"} /\ MAXERR \in Nat \ {0} /\ MaxKeys \in Nat
    /\ DbgRegs \in Seq(0 .. 31) /\ Len(DbgRegs) > 0 /\ 0 \in RegValues

VARIABLES dbg, zc, keys
dbgVars == <<dbg, zc, keys>>

RegIds == {DbgRegs[i] : i \in DOMAIN DbgRegs}
CursorCells == 0 .. 43

DbgInit ==
    /\ zc = [halt |-> FALSE, halted |-> FALSE, work |-> FALSE, step |-> FALSE, sel |-> DbgRegs[1],
             regs |-> [r \in RegIds |-> 0], runs |-> 0, steps |-> 0]
    /\ dbg = [pc |-> "start", i |-> 1, err |-> 0, seen |-> [r \in RegIds |-> 0], valid |-> FALSE,
              cursor |-> 0, users |-> FALSE]
    /\ keys = 0

-----------------------------------------------------------------------------
(* The control port: cmd_halt, cmd_step and the selected register.          *)
Select(a) == [zc EXCEPT !.halt = TRUE, !.sel = a]
WriteReg(r, v) == [zc EXCEPT !.regs[r] = v, !.halt = TRUE]

Released == [zc EXCEPT !.halt = ~zc.halted, !.halted = FALSE]
\* In the direct port R_ZIPCTRL is register 0, R_ZIPDATA register 1.
WriteCtrl(cmd, a) ==
    IF Port = "direct" THEN WriteReg(DbgRegs[1], 0)
    ELSE CASE cmd = "halt"  -> Select(a)
           [] cmd = "step"  -> [zc EXCEPT !.step = zc.halted, !.steps = @ + 1,
                                          !.halt = TRUE, !.halted = FALSE]
           [] cmd = "go"    -> Released
           [] cmd = "reset" -> [zc EXCEPT !.halt = TRUE, !.work = FALSE, !.step = FALSE,
                                          !.sel = a]
MutStalled == FALSE
Stalled == IF Port = "direct" THEN zc.regs[DbgRegs[1]] = 0 ELSE ~zc.halted

\* The CPU: an instruction begins unless halted, ends with a register changed.
CpuBegin ==
    /\ ~zc.work /\ (~zc.halt \/ zc.step) /\ UNCHANGED <<dbg, keys>>
    /\ zc' = [zc EXCEPT !.work = TRUE, !.halted = FALSE, !.step = FALSE]
CpuEnd ==
    /\ zc.work /\ UNCHANGED <<dbg, keys>>
    /\ \E r \in RegIds, v \in RegValues :
          zc' = [zc EXCEPT !.work = FALSE, !.regs[r] = v,
                           !.runs = IF dbg.pc = "start" \/ @ > MaxKeys THEN @ ELSE @ + 1]
CpuStop ==
    /\ zc.halt /\ ~zc.work /\ ~zc.step /\ ~zc.halted /\ UNCHANGED <<dbg, keys>>
    /\ zc' = [zc EXCEPT !.halted = TRUE]

-----------------------------------------------------------------------------
\* main(): the first halt, and whether the CPU is stalled after it.
FirstHalt ==
    /\ dbg.pc = "start" /\ zc' = WriteCtrl("halt", 0) /\ UNCHANGED keys
    /\ dbg' = [dbg EXCEPT !.pc = "refresh"]
Refresh ==
    /\ dbg.pc = "refresh" /\ UNCHANGED <<zc, keys>>
    /\ dbg' = IF Stalled THEN [dbg EXCEPT !.pc = "keys", !.valid = FALSE]
              ELSE [dbg EXCEPT !.pc = "select", !.i = 1, !.valid = FALSE]

\* cmd_read: select, poll until the CPU is not stalled, read.
SelectReg ==
    /\ dbg.pc = "select" /\ UNCHANGED keys
    /\ zc' = WriteCtrl("halt", DbgRegs[dbg.i])
    /\ dbg' = [dbg EXCEPT !.pc = "poll", !.err = 0]
Poll ==
    /\ dbg.pc = "poll" /\ UNCHANGED <<zc, keys>>
    /\ dbg' = CASE ~Stalled                        -> [dbg EXCEPT !.pc = "read"]
                [] Stalled /\ dbg.err + 1 < MAXERR -> [dbg EXCEPT !.err = @ + 1]
                [] OTHER                           -> [dbg EXCEPT !.pc = "exit"]
\* After the last register come reads of memory at the program counter and the
\* stack pointer, which change nothing and are left out.
Selected == IF Port = "direct" THEN DbgRegs[2] ELSE zc.sel
ReadReg ==
    /\ dbg.pc = "read" /\ UNCHANGED <<zc, keys>>
    /\ dbg' = [dbg EXCEPT !.seen[DbgRegs[dbg.i]] = zc.regs[Selected], !.i = @ + 1,
                          !.valid = (dbg.i = Len(DbgRegs)),
                          !.pc = IF dbg.i = Len(DbgRegs) THEN "keys" ELSE "select"]

\* get_value: the register under the cursor, written as cmd_write does.
CellRegister(c) == IF c >= 12 THEN c - 12 ELSE c + 32
Edit(v) ==
    /\ dbg.pc = "edit" /\ ~Stalled /\ UNCHANGED keys
    /\ zc' = IF Selected \in RegIds THEN WriteReg(Selected, v) ELSE zc
    /\ dbg' = [dbg EXCEPT !.pc = "refresh"]
EditStalled ==
    /\ dbg.pc = "edit" /\ Stalled /\ UNCHANGED <<zc, keys>>
    /\ dbg' = IF dbg.err + 1 < MAXERR THEN [dbg EXCEPT !.err = @ + 1] ELSE [dbg EXCEPT !.pc = "exit"]

MoveCursor(c) ==
    {c} \union (IF c > 3 THEN {c - 4} ELSE {}) \union (IF c < 40 THEN {c + 4} ELSE {})
        \union {IF c > 0 THEN c - 1 ELSE 43} \union {IF c < 43 THEN c + 1 ELSE 0}

\* One pass of the key loop.
Key ==
    /\ dbg.pc = "keys" /\ keys < MaxKeys /\ keys' = keys + 1
    /\ \/ \E cmd \in {"step", "reset"} :
             /\ zc' = WriteCtrl(cmd, 0)
             /\ dbg' = [dbg EXCEPT !.pc = "refresh", !.valid = FALSE]
       \/ zc' = WriteCtrl("go", 0) /\ dbg' = [dbg EXCEPT !.pc = "gone", !.valid = FALSE]
       \/ zc' = WriteCtrl("halt", CellRegister(dbg.cursor))
          /\ dbg' = [dbg EXCEPT !.pc = "edit", !.err = 0, !.valid = FALSE]
       \/ UNCHANGED zc /\ \E b \in BOOLEAN : dbg' = [dbg EXCEPT !.pc = "refresh", !.users = b]
       \/ UNCHANGED zc /\ \E c \in MoveCursor(dbg.cursor) :
             dbg' = [dbg EXCEPT !.pc = "refresh", !.cursor = c]

\* q, a signal, a bus error nobody catches: the debugger ends where it is.
Quit == dbg.pc \notin {"start", "exit", "gone"} /\ dbg' = [dbg EXCEPT !.pc = "exit", !.valid = FALSE]
        /\ UNCHANGED <<zc, keys>>

DbgStep == FirstHalt \/ Refresh \/ SelectReg \/ Poll \/ ReadReg \/ EditStalled \/ Key
           \/ \E v \in RegValues : Edit(v)
DbgNext == DbgStep \/ Quit \/ CpuBegin \/ CpuEnd \/ CpuStop
DbgSpec == DbgInit /\ [][DbgNext]_dbgVars
DbgFairness == WF_dbgVars(DbgStep) /\ WF_dbgVars(CpuBegin) /\ WF_dbgVars(CpuStop)

-----------------------------------------------------------------------------
(* The debugger and the CPU keep their types, the cursor stays on a cell.  *)
DbgTypeOK ==
    /\ dbg.pc \in {"start", "refresh", "select", "poll", "read", "keys", "edit", "gone", "exit"}
    /\ dbg.cursor \in CursorCells /\ dbg.i \in 1 .. Len(DbgRegs) + 1
    /\ zc.sel \in 0 .. 63 /\ zc.regs \in [RegIds -> RegValues]

(* A screen that is shown as valid is the CPU as it is: all its registers  *)
(* are those of one moment although they were read one after the other     *)
(* from a CPU that was running.                                            *)
ScreenIsOneMoment == dbg.valid => dbg.seen = zc.regs

(* Once the debugger has the CPU it executes at most one instruction for   *)
(* every step key (and one that was in progress), until it is let go.      *)
StepsAreSingle == dbg.pc \notin {"start", "gone"} => zc.runs <= zc.steps + 1

(* An edit writes the register whose cell the cursor is on, and no other;  *)
(* the rows of the user's timers are the exception of get_value.           *)
EditsTheCell ==
    [][\A v \in RegValues : Edit(v) =>
         \A r \in RegIds : zc'.regs[r] # zc.regs[r] => CellRegister(dbg.cursor) = r]_dbgVars

(* g starts the CPU: what "We just released the CPU" and "Starting the     *)
(* CPU" of the tools promise of the write of CPU_GO to a halted CPU.       *)
GoReleasesTheCpu == [][(dbg'.pc = "gone" /\ dbg.pc = "keys" /\ zc.halted) => ~zc'.halt]_dbgVars

(* The debugger never hangs: every session comes back to the keyboard.     *)
ComesBackToKeys == dbg.pc \in {"select", "edit"} ~> dbg.pc \in {"keys", "exit"}

(* zipdbg: what is shown, stepped and written is what its user means.      *)
DebuggerIsTrue == [](ScreenIsOneMoment /\ StepsAreSingle) /\ EditsTheCell /\ GoReleasesTheCpu
=============================================================================
