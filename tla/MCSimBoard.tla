----------------------------- MODULE MCSimBoard -----------------------------
(***************************************************************************)
(* The board as the simulation has it: the bus executor, the SDRAM         *)
(* controller with its chip, the parallel port with what is at its other   *)
(* end, the other memories, a console FIFO, and the timer with the         *)
(* interrupt controller.  They share no state, so that a behaviour         *)
(* exercises one of them, `part`, while the others stay in an initial      *)
(* state.                                                                  *)
(***************************************************************************)
EXTENDS MCHbExec, SdramDev, PPort, MemSims, UFifo, Timers

VARIABLE part

\* SDRAM: a word that differs from what memory holds, whole or in three of its
\* bytes, to two rows of one bank and to another bank
MCWords == {<<<<1, 1>>, <<1, 1>>>>}
MCSelects == {<<<<TRUE, TRUE>>, <<TRUE, FALSE>>>>}
Cell(r, b, c) == [row |-> r, bank |-> b, col |-> c]
MCTargets == {Cell(0, 0, 1), Cell(1, 0, 1), Cell(1, 1, 0)}

\* A character for the command port and a line end for the console
MCPortBytes == {<<"cmd", "x">>, <<"con", "nl">>}

\* Two characters tell every order apart
MCChars == {1, 2}

MCLanes == {{0, 1, 2, 3}, {1}, {0, 2, 3}}

MCInit ==
    /\ part \in {"exec", "sdram", "pport", "mem", "fifo", "timer"}
    /\ Init /\ SdramInit /\ PPortInit /\ MemInit /\ FifoInit /\ TimersInit
    /\ part # "exec" => ~o_wb_we /\ o_wb_addr = 0 /\ o_wb_data = d1 /\ ~inc
    /\ part # "mem" => sv = SramdevStart
    /\ part # "fifo" => fifo = [a \in FifoSlots |-> last_write] /\ r_data = last_write /\ last_write = 1
    /\ part # "timer" => timer = Stopped

MCNext ==
    \/ part = "exec" /\ Next /\ UNCHANGED <<part, sdramVars, pportVars, memVars, fifoVars, timersVars>>
    \/ part = "sdram" /\ SdramNext /\ UNCHANGED <<part, vars, pportVars, memVars, fifoVars, timersVars>>
    \/ part = "pport" /\ PPortNext /\ UNCHANGED <<part, vars, sdramVars, memVars, fifoVars, timersVars>>
    \/ part = "mem" /\ MemNext /\ UNCHANGED <<part, vars, sdramVars, pportVars, fifoVars, timersVars>>
    \/ part = "fifo" /\ FifoNext /\ UNCHANGED <<part, vars, sdramVars, pportVars, memVars, timersVars>>
    \/ part = "timer" /\ TimersClock /\ UNCHANGED <<part, vars, sdramVars, pportVars, memVars, fifoVars>>

MCVars == <<part, vars, sdramVars, pportVars, memVars, fifoVars, timersVars>>

\* The fairness of the component that runs
MCFairness ==
    /\ WF_vars(part = "exec" /\ Next)
    /\ WF_vars(part = "exec" /\ o_wb_cyc /\ \E i \in Inputs : Answering(i) /\ Clock(i))
    /\ WF_sdramVars(part = "sdram" /\ SdramClock)
    /\ WF_pportVars(part = "pport" /\ NetClock) /\ WF_pportVars(part = "pport" /\ (NetXfer \/ NetRead))
    /\ WF_pportVars(part = "pport" /\ SimClock)
    /\ WF_memVars(part = "mem" /\ MemClock)

MCSpec == MCInit /\ [][MCNext]_MCVars /\ MCFairness

\* Every component's state keeps its types.
TypesOK == TypeOK /\ SdramTypeOK /\ PPortTypeOK /\ MemTypeOK /\ TimersTypeOK

\* Whatever is asked of the board is answered: a command of the executor, a
\* request to the SDRAM or a memory, a byte at the port.
BoardAnswers == CommandsAreAnswered /\ RequestsAreAnswered /\ BytesArrive /\ AccessesAreAnswered
=============================================================================
