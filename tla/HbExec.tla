------------------------------- MODULE HbExec -------------------------------
(***************************************************************************)
(* The command executor of the debugging bus, rtl/hexbus/hbexec.v, one     *)
(* clock per step: it takes command words (set address, read, write), runs *)
(* one Wishbone cycle per read or write, and strobes out one response word *)
(* per command.  Its surroundings are the command stream of hbpack, which  *)
(* does not wait for o_cmd_busy, the reset of hbdechex, and a Wishbone     *)
(* slave that may stall, acknowledge in the same clock or later, or answer *)
(* with an error.                                                          *)
(*                                                                         *)
(* A command word is a record of the fields hbexec reads from it: sub are  *)
(* its top two bits, d the whole 32-bit value, a, rel and hold the address *)
(* and the two low bits of that value when it is an address.               *)
(***************************************************************************)
EXTENDS Integers

CONSTANTS
    N,         \* word addresses on the bus, 2^ADDRESS_WIDTH
    Data,      \* values of the 32-bit data lines
    CmdWords   \* command words that reach hbexec

Addr == 0 .. N - 1
Subs == {"rd", "wr", "addr", "special"}
CmdWord == [sub : Subs, d : Data, a : Addr, rel : BOOLEAN, hold : BOOLEAN]

ASSUME HbExecAssumption == N \in Nat \ {0} /\ CmdWords \subseteq CmdWord

\* Response words: RSP_RESET, RSP_BUS_ERROR, RSP_WRITE_ACKNOWLEDGEMENT, read
\* data, and the address together with !inc
RspWord ==
    [kind : {"reset", "error", "ack"}] \cup [kind : {"data"}, d : Data]
        \cup [kind : {"addr"}, a : Addr, hold : BOOLEAN]

Rsp(k)     == [kind |-> k]
DataRsp(d) == [kind |-> "data", d |-> d]
AddrRsp(a, h) == [kind |-> "addr", a |-> a, hold |-> h]

VARIABLES
    \* registers of hbexec
    o_wb_cyc, o_wb_stb, o_wb_we, o_wb_addr, o_wb_data, newaddr, inc,
    o_rsp_stb, o_rsp_word,
    \* the slave has taken a request it has not answered
    owed,
    \* history: where the command stream has put the bus pointer, the command
    \* accepted and not yet answered, and the one o_rsp_word answers
    ptr, pending, answered

rtl  == <<o_wb_cyc, o_wb_stb, o_wb_we, o_wb_addr, o_wb_data, newaddr, inc,
          o_rsp_stb, o_rsp_word>>
ghost == <<ptr, pending, answered>>
vars == <<rtl, owed, ghost>>

\* What a command is expected to do: a request on the bus, or an address
Expected == [kind : {"rd", "wr", "addr"}, a : Addr, d : Data]
None == [kind |-> "none"]

\* The inputs of one clock
Inputs == [i_reset : BOOLEAN, i_cmd_stb : BOOLEAN, i_cmd_word : CmdWords,
           i_wb_stall : BOOLEAN, i_wb_ack : BOOLEAN, i_wb_err : BOOLEAN,
           i_wb_data : Data]

\* The inputs are named as the ports; sums wrap at the address width
Sum(a, b) == (a + b) % N
Bit(b) == IF b THEN 1 ELSE 0

CmdIs(i, subs) == i.i_cmd_stb /\ i.i_cmd_word.sub \in subs
CmdBus(i)  == CmdIs(i, {"rd", "wr"})

o_cmd_busy == o_wb_cyc

\* o_wb_cyc and o_wb_stb: cleared by an error or a reset, BUS REQUEST, BUS
\* WAIT, IDLE
CycStb(i) ==
    \/ /\ i.i_reset \/ (i.i_wb_err /\ o_wb_cyc)
       /\ o_wb_cyc' = FALSE
       /\ o_wb_stb' = FALSE
    \/ /\ ~(i.i_reset \/ (i.i_wb_err /\ o_wb_cyc))
       /\ o_wb_stb
       /\ o_wb_stb' = i.i_wb_stall
       /\ o_wb_cyc' = (o_wb_cyc /\ (i.i_wb_stall \/ ~i.i_wb_ack))
    \/ /\ ~(i.i_reset \/ (i.i_wb_err /\ o_wb_cyc))
       /\ ~o_wb_stb /\ o_wb_cyc
       /\ o_wb_cyc' = ~i.i_wb_ack
       /\ o_wb_stb' = FALSE
    \/ /\ ~i.i_reset
       /\ ~o_wb_stb /\ ~o_wb_cyc
       /\ o_wb_cyc' = CmdBus(i)
       /\ o_wb_stb' = CmdBus(i)

\* The direction is chosen while the bus is idle
We(i) == o_wb_we' = IF o_wb_cyc THEN o_wb_we ELSE CmdIs(i, {"wr"})

\* Mutant of AddrInc: the address moves on during a stall
MutAddrInc(i) ==
    LET new == CmdIs(i, {"addr"}) /\ ~o_cmd_busy
    IN  /\ o_wb_addr' = IF ~new THEN Sum(o_wb_addr, Bit(inc /\ o_wb_stb))
                        ELSE IF i.i_cmd_word.rel
                        THEN Sum(i.i_cmd_word.a, o_wb_addr) ELSE i.i_cmd_word.a
        /\ inc' = IF new THEN ~i.i_cmd_word.hold ELSE inc
        /\ newaddr' = (~i.i_reset /\ new)

\* An address command is taken when not busy; otherwise the address moves on
\* as the slave takes the request
AddrInc(i) ==
    /\ \/ /\ CmdIs(i, {"addr"}) /\ ~o_cmd_busy
          /\ o_wb_addr' = IF i.i_cmd_word.rel
                          THEN Sum(i.i_cmd_word.a, o_wb_addr)
                          ELSE i.i_cmd_word.a
          /\ inc' = ~i.i_cmd_word.hold
       \/ /\ ~(CmdIs(i, {"addr"}) /\ ~o_cmd_busy)
          /\ o_wb_addr' = IF o_wb_stb /\ ~i.i_wb_stall
                          THEN Sum(o_wb_addr, Bit(inc)) ELSE o_wb_addr
          /\ inc' = inc
    /\ newaddr' = (~i.i_reset /\ CmdIs(i, {"addr"}) /\ ~o_cmd_busy)

\* Mutant of WbData: the data lines always follow the command word
MutWbData(i) == o_wb_data' = i.i_cmd_word.d

\* The data lines follow the command word except during a stalled request
WbData(i) ==
    o_wb_data' = IF ~o_wb_stb \/ ~i.i_wb_stall THEN i.i_cmd_word.d
                                               ELSE o_wb_data

\* The return channel
Response(i) ==
    \/ /\ i.i_reset
       /\ o_rsp_stb' = TRUE
       /\ o_rsp_word' = Rsp("reset")
    \/ /\ ~i.i_reset /\ i.i_wb_err
       /\ o_rsp_stb' = TRUE
       /\ o_rsp_word' = Rsp("error")
    \/ /\ ~i.i_reset /\ ~i.i_wb_err /\ o_wb_cyc
       /\ o_rsp_stb' = i.i_wb_ack
       /\ o_rsp_word' = IF o_wb_we THEN Rsp("ack") ELSE DataRsp(i.i_wb_data)
    \/ /\ ~i.i_reset /\ ~i.i_wb_err /\ ~o_wb_cyc
       /\ o_rsp_stb' = newaddr
       /\ o_rsp_word' = AddrRsp(o_wb_addr, ~inc)

\* The slave: answers once, and only a request it has taken or is taking
Slave(i) ==
    LET takes == o_wb_stb /\ ~i.i_wb_stall
    IN  /\ i.i_wb_ack \/ i.i_wb_err => owed \/ takes
        /\ ~(i.i_wb_ack /\ i.i_wb_err)
        /\ owed' = ((owed \/ takes) /\ ~i.i_reset
                      /\ ~i.i_wb_ack /\ ~i.i_wb_err)

\* What the command accepted in this clock is expected to do, by the command
\* stream alone
Accepts(i) == ~i.i_reset /\ ~o_cmd_busy /\ CmdIs(i, {"rd", "wr", "addr"})
Target(i) ==
    IF i.i_cmd_word.sub # "addr" THEN ptr
    ELSE IF i.i_cmd_word.rel THEN Sum(i.i_cmd_word.a, ptr) ELSE i.i_cmd_word.a

History(i) ==
    /\ answered' = IF o_rsp_stb' THEN (IF i.i_reset THEN None ELSE pending)
                   ELSE answered
    /\ pending' = IF Accepts(i)
                  THEN [kind |-> i.i_cmd_word.sub, a |-> Target(i),
                        d |-> i.i_cmd_word.d]
                  ELSE IF o_rsp_stb' THEN None ELSE pending
    /\ ptr' = IF i.i_reset THEN o_wb_addr'
              ELSE IF ~Accepts(i) THEN ptr
              ELSE IF i.i_cmd_word.sub = "addr" THEN Target(i)
              ELSE Sum(ptr, Bit(inc))

Clock(i) ==
    /\ CycStb(i)
    /\ We(i)
    /\ AddrInc(i)
    /\ WbData(i)
    /\ Response(i)
    /\ Slave(i)
    /\ History(i)

\* o_wb_we, o_wb_addr, o_wb_data and inc have no initial value
Init ==
    /\ o_wb_cyc = FALSE /\ o_wb_stb = FALSE /\ newaddr = FALSE
    /\ o_wb_we \in BOOLEAN /\ o_wb_addr \in Addr /\ o_wb_data \in Data
    /\ inc \in BOOLEAN
    /\ o_rsp_stb = TRUE /\ o_rsp_word = Rsp("reset")
    /\ owed = FALSE
    /\ ptr = o_wb_addr /\ pending = None /\ answered = None

Next == \E i \in Inputs : Clock(i)

\* The clock runs; a slave that can answer does so in the end
Answering(i) == ~i.i_wb_stall /\ (i.i_wb_ack \/ i.i_wb_err)
Fairness ==
    /\ WF_vars(Next)
    /\ WF_vars(o_wb_cyc /\ \E i \in Inputs : Answering(i) /\ Clock(i))

Spec == Init /\ [][Next]_vars /\ Fairness

-----------------------------------------------------------------------------
\* Every register has its type.
TypeOK ==
    /\ o_wb_cyc \in BOOLEAN /\ o_wb_stb \in BOOLEAN /\ o_wb_we \in BOOLEAN
    /\ o_wb_addr \in Addr /\ o_wb_data \in Data
    /\ newaddr \in BOOLEAN /\ inc \in BOOLEAN
    /\ o_rsp_stb \in BOOLEAN /\ o_rsp_word \in RspWord
    /\ owed \in BOOLEAN
    /\ ptr \in Addr
    /\ pending \in Expected \cup {None}
    /\ answered \in Expected \cup {None}

\* A request on the bus is the one the pending command asked for: its
\* direction, the address the command stream had reached, and for a write
\* its data, for as long as the slave stalls.
RequestIsTheCommands ==
    o_wb_stb =>
        /\ pending.kind = (IF o_wb_we THEN "wr" ELSE "rd")
        /\ pending.a = o_wb_addr
        /\ o_wb_we => pending.d = o_wb_data

\* The response o_rsp_stb announces answers the command that was pending: an
\* address with the address, a read with data, a write with an
\* acknowledgement, either of the last two with an error if not; only a
\* reset is announced unasked.
Fits(rsp, cmd) ==
    /\ rsp.kind = "reset" => cmd = None
    /\ rsp.kind = "addr"  => cmd.kind = "addr" /\ cmd.a = rsp.a
    /\ rsp.kind = "data"  => cmd.kind = "rd"
    /\ rsp.kind = "ack"   => cmd.kind = "wr"
    /\ rsp.kind = "error" => cmd.kind \in {"rd", "wr"}

\* o_rsp_word is of the kind the pending command calls for.
ResponseFitsCommand == o_rsp_stb => Fits(o_rsp_word, answered)

\* Nothing accepted is forgotten and nothing is answered twice: a command is
\* pending exactly while hbexec still has to respond to it.
PendingIsAccounted ==
    /\ pending.kind = "addr" <=> newaddr
    /\ pending.kind \in {"rd", "wr"} <=> o_wb_cyc

\* The slave owes an answer only to a cycle that waits for one, so an answer
\* never reaches an idle hbexec.
SlaveOwesOnlyWaiting == owed => o_wb_cyc /\ ~o_wb_stb

\* hbexec carries out each command it accepts as the command says and once:
\* the request, the slave's debt and the response are those of one command.
CommandsAreCarriedOut ==
    /\ RequestIsTheCommands /\ ResponseFitsCommand
    /\ PendingIsAccounted /\ SlaveOwesOnlyWaiting

\* A request the slave stalls does not change (Wishbone).
StalledRequestHolds ==
    [][o_wb_stb /\ o_wb_stb' => UNCHANGED <<o_wb_we, o_wb_addr, o_wb_data>>]_vars

\* Every command accepted is answered, by a response or by a reset.
CommandsAreAnswered == (pending # None) ~> o_rsp_stb
=============================================================================
