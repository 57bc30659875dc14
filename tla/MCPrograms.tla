------------------------------ MODULE MCPrograms ------------------------------
(***************************************************************************)
(* What the CPU runs and what is seen of it: the harness that executes a   *)
(* program, the lock test, the division routines, the input and output of  *)
(* a program, the serial port, and the crossbar through which a program    *)
(* and the debugging bus reach the memories and peripherals.  They share   *)
(* no state, so that a behaviour exercises one of them, `part`, while the  *)
(* others stay in an initial state.                                        *)
(***************************************************************************)
EXTENDS SimTb, LockCheck, LongDiv, BoardIo, UartSim, WbXbar

VARIABLE part

\* Programs of two instructions of every kind, something between and an end
Op(o, r, v) == [op |-> o, r |-> r, v |-> v]
Body == {Op("set", 1, 258), Op("set", 17, 259), Op("sout", 1, 0), Op("dumpreg", 1, 0), Op("soutuser", 1, 0),
         Op("dumpuser", 1, 0), Op("jump", 4, 0), Op("jump", 3, 1), Op("break", 0, 0)}
Mids == {Op("dump", 0, 0), Op("soutimm", 0, 65), Op("unknown", 0, 3), Op("set", 1, 260), Op("exit", 1, 0)}
LastOps == {Op("exit", 1, 0), Op("exituser", 1, 0), Op("exitimm", 0, 7), Op("exit0", 0, 0)}
MCPrograms == {<<a, b, c, d>> : a \in Body, b \in Body, c \in Mids, d \in LastOps}
MCClocks == {<<8, 12>>, <<20, 12>>, <<10, 28>>}
Clocks1 == CHOOSE s \in MCClocks : TRUE

\* Divisors: the small ones, the powers of two with their neighbours, the ends
MCDividends == {0, 1, 2, 7, 15, 16, 17, 42, 63, 64, 100, 127, 128, 129, 170, 200, 239, 240, 254, 255}
MCDivisors == {0, 1, 2, 3, 5, 7, 8, 15, 16, 17, 20, 31, 48, 64, 100, 127, 128, 129, 160, 200, 240, 241, 254, 255}

\* Messages that end, hold and lack a line end; numbers of either sign and the
\* smallest
MCMessages == {<<"a", "LF">>, <<"CR", "LF">>, <<"LF">>}
MCNumbers == {0, -7, 105, -128}

\* Serial ports with parity and without, and a byte of lone and paired bits
MCBytes == {<<1, 0, 0, 0, 0, 0, 1, 0>>}
Setup(b, s, p) == [baud |-> b, stop |-> s, parity |-> p]
MCSetups == {Setup(2, 1, "np"), Setup(3, 2, "none")}

\* Two masters: one fills the count and asks once more
MCIssued == <<1, 3>>

MCInit ==
    /\ part \in {"sim", "lock", "div", "io", "uart", "bus"}
    /\ LockInit /\ DivInit /\ BoardInit /\ UartInit /\ XbarInit
    /\ (part = "sim" /\ SimInit) \/ ClocksInit
    /\ part # "sim" => \A i \in 1 .. 2 : clocks.k[i] = ClockInit(Clocks1[i])
    /\ mindex = [m \in Masters |-> 1] /\ sindex = [s \in Slaves |-> 1]

MCNext ==
    \/ part = "sim" /\ SimNext /\ UNCHANGED <<part, lockVars, dv, bioVars, uartVars, xbarVars>>
    \/ part = "lock" /\ LockNext /\ UNCHANGED <<part, simVars, dv, bioVars, uartVars, xbarVars>>
    \/ part = "div" /\ DivNext /\ UNCHANGED <<part, simVars, lockVars, bioVars, uartVars, xbarVars>>
    \/ part = "io" /\ BoardNext /\ UNCHANGED <<part, simVars, lockVars, dv, uartVars, xbarVars>>
    \/ part = "uart" /\ UartNext /\ UNCHANGED <<part, simVars, lockVars, dv, bioVars, xbarVars>>
    \/ part = "bus" /\ XbarNext /\ UNCHANGED <<part, simVars, lockVars, dv, bioVars, uartVars>>

MCVars == <<part, simVars, lockVars, dv, bioVars, uartVars, xbarVars>>

\* The fairness of the component that runs
MCFairness ==
    /\ WF_simVars(part = "sim" /\ Tick) /\ WF_simVars(part = "sim" /\ Leave)
    /\ WF_lockVars(part = "lock" /\ LockNext) /\ \A t \in Tasks : SF_lockVars(part = "lock" /\ Step(t))
    /\ WF_bioVars(part = "io" /\ CpuStep) /\ WF_bioVars(part = "io" /\ Drain)
    /\ WF_uartVars(part = "uart" /\ UartTick)

MCSpec == MCInit /\ [][MCNext]_MCVars /\ MCFairness

\* Every component's state keeps its types.
TypesOK == UartTypeOK /\ SimTypeOK /\ LockTypeOK /\ DivTypeOK /\ BoardTypeOK /\ XbarTypeOK

\* What a program waits for comes: its characters, the end of its run, the
\* verdict of the lock test, the return of its calls.
ProgramsEnd == CharactersArrive /\ RunsEnd /\ SuccessIsReported /\ CallsReturn
=============================================================================
