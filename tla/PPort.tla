------------------------------- MODULE PPort -------------------------------
(***************************************************************************)
(* The parallel port: rtl/pport/pport.v clock by clock against each of its *)
(* two hosts, netpport.cpp's pp_xfer and pp_read, which drive the pins one *)
(* at a time and at any speed, and sim/verilated/pportsim.cpp, which is    *)
(* called once a clock.                                                    *)
(*                                                                         *)
(* A byte is the pair of its halves: the channel bit with what is above,   *)
(* and the rest; NoByte is 0xff.  pins are the clock, direction and data   *)
(* the host drives, pp the registers of pport.v, fpga the console behind   *)
(* it.  host is the program: out the bytes it has to send, sent and got    *)
(* those it has clocked out and in.  peer are the clients of the simulator *)
(* by channel: waiting for accept or connected, their input, and the       *)
(* line that is being put together for them.                               *)
(***************************************************************************)
EXTENDS Integers, Sequences, SequencesExt

CONSTANTS SCLKS,         \* stages of the synchronizer
          PP_DELAY,      \* clocks the simulator waits
          PPORTSIMBUFLEN,
          PortBytes,     \* bytes the FPGA and the clients send
          MaxIn, MaxOut  \* bytes into and out of the FPGA

Channels == {"cmd", "con"}

\* NoByte is of neither channel: it would be a DEL among the answers to commands
ASSUME PPortAssumption ==
    /\ SCLKS \in Nat /\ SCLKS >= 3 /\ PP_DELAY \in Nat /\ PPORTSIMBUFLEN > 2
    /\ PortBytes \subseteq Channels \X STRING

VARIABLES pp, pins, fpga, host, peer
pportVars == <<pp, pins, fpga, host, peer>>

TO_FPGA == 1
FROM_FPGA == 0
NoByte == <<"ff", "ff">>

PPortInit ==
    /\ pp = [sh |-> [i \in 1 .. SCLKS |-> 0], fb |-> 0, stb |-> FALSE, data |-> NoByte,
             dir |-> FROM_FPGA, ckdir |-> FROM_FPGA, rxstb |-> FALSE, rxdata |-> NoByte,
             loaded |-> FALSE, busy |-> FALSE, out |-> NoByte]
    /\ pins = [clk |-> 0, dir |-> FROM_FPGA, data |-> NoByte]
    /\ fpga = [wr |-> FALSE, wdata |-> NoByte, sent |-> <<>>, got |-> <<>>]
    /\ host = [kind |-> "off", pc |-> "idle", left |-> 0, hi |-> "ff", delay |-> 0,
               out |-> <<>>, sent |-> <<>>, got |-> <<>>]
    /\ peer = [c \in Channels |-> [waiting |-> FALSE, up |-> FALSE, input |-> <<>>, over |-> FALSE,
                                   buf |-> <<>>, lines |-> <<>>]]
InCount == Len(host.sent) + Len(host.out) + Len(peer["cmd"].input) + Len(peer["con"].input)

-----------------------------------------------------------------------------
\* pport.v, one edge; older are the stages of the synchronizer that count.
Older == {pp.sh[i] : i \in 2 .. SCLKS}
Ones == Older = {1}
MutBusyEarly == pp.loaded \/ (fpga.wr /\ ~pp.busy)
Busy_next == pp.loaded \/ (fpga.wr /\ ~pp.busy)
             \/ ((1 \in Older \/ pp.fb = 1) /\ pp.ckdir = FROM_FPGA)
Strobe == Ones /\ pp.fb = 0
Edge == [sh |-> [i \in 1 .. SCLKS |-> IF i = 1 THEN pins.clk ELSE pp.sh[i - 1]],
         fb |-> IF Ones THEN 1 ELSE IF Older = {0} THEN 0 ELSE pp.fb,
         stb |-> Strobe,
         data |-> IF pp.fb = 0 THEN pins.data ELSE pp.data,
         dir |-> IF pp.fb = 0 THEN pins.dir ELSE pp.dir,
         ckdir |-> pp.dir,
         rxstb |-> pp.stb /\ pp.dir = TO_FPGA,
         rxdata |-> IF pp.stb THEN pp.data ELSE pp.rxdata,
         loaded |-> IF fpga.wr /\ ~pp.busy THEN TRUE
                    ELSE pp.loaded /\ ~(pp.stb /\ pp.dir = FROM_FPGA),
         busy |-> Busy_next,
         out |-> IF pp.busy THEN pp.out ELSE IF fpga.wr THEN fpga.wdata ELSE NoByte]

\* The console: it holds a byte until it is taken, and takes what is strobed in.
Console(f) ==
    LET taken == f.wr /\ ~pp.busy
        g == [f EXCEPT !.got = IF pp.rxstb THEN Append(@, pp.rxdata) ELSE @,
                       !.sent = IF taken THEN Append(@, f.wdata) ELSE @,
                       !.wr = @ /\ ~taken, !.wdata = IF taken THEN NoByte ELSE @]
    IN IF ~g.wr /\ Len(g.sent) < MaxOut
       THEN {g} \union {[g EXCEPT !.wr = TRUE, !.wdata = b] : b \in PortBytes}
       ELSE {g}
FpgaEdge == pp' = Edge /\ fpga' \in Console(fpga)

-----------------------------------------------------------------------------
(* netpport.cpp.  left is the bytes that remain of the call.               *)
NetClock == host.kind = "net" /\ FpgaEdge /\ UNCHANGED <<pins, host, peer>>

NetCall ==
    /\ host.kind = "net" /\ host.pc = "idle" /\ UNCHANGED <<pp, fpga, peer>>
    /\ \/ \E b \in PortBytes :
             /\ InCount < MaxIn
             /\ host' = [host EXCEPT !.pc = "xfer", !.out = <<b>>] /\ UNCHANGED pins
       \/ \E n \in 1 .. 2 : /\ host' = [host EXCEPT !.pc = "read", !.left = n]
                            /\ pins' = [pins EXCEPT !.clk = 0, !.dir = FROM_FPGA]

GoTo(p, pc) == pins' = p /\ host' = [host EXCEPT !.pc = pc]
MutNoFeedback == pins.clk
Feedback == pp.fb
\* One digitalWrite or one wait of pp_xfer.
NetXfer ==
    /\ host.kind = "net" /\ UNCHANGED <<pp, fpga, peer>>
    /\ \/ host.pc = "xfer" /\ GoTo([pins EXCEPT !.clk = 0, !.dir = TO_FPGA], "xfer0")
       \/ host.pc = "xfer0" /\ Feedback = 0 /\ GoTo([pins EXCEPT !.data = Head(host.out)], "xferdata")
       \/ host.pc = "xferdata" /\ GoTo([pins EXCEPT !.clk = 1], "xfer1")
       \/ /\ host.pc = "xfer1" /\ Feedback = 1 /\ pins' = [pins EXCEPT !.dir = FROM_FPGA, !.data = NoByte]
          /\ host' = [host EXCEPT !.pc = "turn", !.sent = Append(@, Head(host.out)), !.out = Tail(@)]
       \/ host.pc = "turn" /\ GoTo([pins EXCEPT !.clk = 0], "turn0")
       \/ host.pc = "turn0" /\ Feedback = 0 /\ GoTo([pins EXCEPT !.clk = 1], "turn1")
       \/ host.pc = "turn1" /\ Feedback = 1 /\ GoTo(pins, "hi")

\* pp_read up to its pins, which both read in two steps, D7 to D4 and D3 to D0.
NetRead ==
    /\ host.kind = "net" /\ UNCHANGED <<pp, fpga, peer>>
    /\ \/ host.pc = "read" /\ Feedback = 0 /\ GoTo([pins EXCEPT !.clk = 1], "read1")
       \/ host.pc = "read1" /\ Feedback = 1 /\ GoTo(pins, "hi")
       \/ host.pc = "hi" /\ UNCHANGED pins /\ host' = [host EXCEPT !.hi = pp.out[1], !.pc = "lo"]
       \/ /\ host.pc = "lo" /\ pins' = [pins EXCEPT !.clk = 0]
          /\ LET b == <<host.hi, pp.out[2]>>
                 more == host.left > 1 /\ b # NoByte
             IN host' = [host EXCEPT !.hi = "ff", !.got = IF b = NoByte THEN @ ELSE Append(@, b),
                                     !.left = IF more THEN @ - 1 ELSE 0,
                                     !.pc = IF more THEN "read" ELSE "idle"]

-----------------------------------------------------------------------------
(* pportsim.cpp, called after each edge.                                   *)
\* poll_accept, and poll_read: all a client has sent, or its end.
PollAccept(p) == [c \in Channels |-> [p[c] EXCEPT !.up = @ \/ p[c].waiting, !.waiting = FALSE]]
Input(c) == IF peer[c].up THEN peer[c].input ELSE <<>>
PollRead ==
    [q |-> Input("cmd") \o Input("con"),
     p |-> [c \in Channels |->
              IF ~peer[c].up THEN peer[c]
              ELSE [peer[c] EXCEPT !.input = <<>>,
                                   !.up = ~(peer[c].input = <<>> /\ peer[c].over),
                                   !.over = @ /\ peer[c].input # <<>>]]]

\* received: a line, or a full buffer, goes to its client.
Received(p, b) ==
    LET c == b[1]
        line == Append(p[c].buf, b[2])
        full == b[2] = "nl" \/ Len(line) >= PPORTSIMBUFLEN - 2
    IN IF ~full THEN [p EXCEPT ![c].buf = line]
       ELSE [p EXCEPT ![c].buf = <<>>, ![c].lines = IF p[c].up THEN Append(@, line) ELSE @,
                      ![c].up = @ /\ ~p[c].over]

Wait(h) == [h EXCEPT !.delay = PP_DELAY]
SimCall(out, fb) ==
    LET held == [pins EXCEPT !.data = IF pins.dir = TO_FPGA THEN host.hi ELSE out]
        queue == IF host.out = <<>> THEN PollRead ELSE [q |-> host.out, p |-> peer]
    IN CASE host.delay > 0 ->
              pins' = held /\ peer' = peer /\ host' = [host EXCEPT !.delay = @ - 1]
         [] host.delay = 0 /\ pins.clk # fb ->
              pins' = held /\ peer' = peer /\ host' = Wait(host)
         [] host.delay = 0 /\ pins.clk = fb /\ pins.clk = 1 ->
              /\ pins' = [held EXCEPT !.clk = 0]
              /\ IF pins.dir = FROM_FPGA /\ out # NoByte
                 THEN peer' = Received(peer, out) /\ host' = Wait([host EXCEPT !.got = Append(@, out)])
                 ELSE peer' = peer /\ host' = Wait(host)
         [] host.delay = 0 /\ pins.clk = fb /\ pins.clk = 0 /\ pins.dir # TO_FPGA /\ queue.q # <<>> ->
              /\ pins' = [clk |-> 1, dir |-> TO_FPGA, data |-> Head(queue.q)]
              /\ peer' = queue.p
              /\ host' = Wait([host EXCEPT !.hi = Head(queue.q), !.out = Tail(queue.q),
                                           !.sent = Append(@, Head(queue.q))])
         [] OTHER ->
              /\ pins' = [clk |-> 1, dir |-> FROM_FPGA, data |-> out]
              /\ peer' = PollAccept(IF pins.dir # TO_FPGA THEN queue.p ELSE peer)
              /\ host' = Wait(host)

SimClock == host.kind = "sim" /\ FpgaEdge /\ SimCall(pp'.out, pp'.fb)

\* The clients: they connect, write and hang up.
Client(c) ==
    /\ host.kind = "sim" /\ UNCHANGED <<pp, pins, fpga, host>>
    /\ \/ ~peer[c].up /\ ~peer[c].waiting /\ peer' = [peer EXCEPT ![c].waiting = TRUE]
       \/ /\ (peer[c].up \/ peer[c].waiting) /\ ~peer[c].over /\ InCount < MaxIn
          /\ \E b \in {x \in PortBytes : x[1] = c} : peer' = [peer EXCEPT ![c].input = Append(@, b)]
       \/ peer[c].up /\ ~peer[c].over /\ peer' = [peer EXCEPT ![c].over = TRUE]

\* PPORTSIM::PPORTSIM, or netpport's main: which host it is.
Power == host.kind = "off" /\ UNCHANGED <<pp, pins, fpga, peer>>
         /\ \E k \in {"net", "sim"} :
               host' = [host EXCEPT !.kind = k, !.delay = IF k = "sim" THEN PP_DELAY ELSE 0]

PPortStep == NetClock \/ NetXfer \/ NetRead \/ SimClock
PPortNext == Power \/ PPortStep \/ NetCall \/ \E c \in Channels : Client(c)
PPortSpec == PPortInit /\ [][PPortNext]_pportVars
PPortFairness == WF_pportVars(NetClock) /\ WF_pportVars(NetXfer \/ NetRead) /\ WF_pportVars(SimClock)

-----------------------------------------------------------------------------
(* The port, the pins and the programs keep their types.                   *)
PPortTypeOK ==
    /\ pins.clk \in {0, 1} /\ pins.dir \in {0, 1} /\ pp.fb \in {0, 1}
    /\ host.delay \in 0 .. PP_DELAY /\ host.left \in 0 .. 2 /\ Len(host.out) <= MaxIn
    /\ \A c \in Channels : Len(peer[c].buf) < PPORTSIMBUFLEN - 2

(* Each byte a host clocks out is strobed into the FPGA once, whatever the *)
(* speed of the host's pins against the FPGA's clock.                      *)
EachByteGoesInOnce == IsPrefix(fpga.got, host.sent \o host.out)

(* What the host reads is the bytes the FPGA has handed over, none twice,  *)
(* none left out and none put together from two of them, although the host *)
(* reads the pins one after the other and 0xff means that there is none.   *)
EachByteComesOutOnce == IsPrefix(host.got, fpga.sent)

(* The handshake never stops: a byte that is on its way arrives.           *)
BytesArrive ==
    /\ (host.sent # <<>>) ~> (fpga.got # <<>>)
    /\ (host.kind = "sim" /\ fpga.wr) ~> ~fpga.wr
    /\ host.pc \in {"xfer", "read"} ~> host.pc = "idle"

(* pport with netpport or PPORTSIM: a byte crosses the pins once, whole.   *)
EachByteCrossesOnce == EachByteGoesInOnce /\ EachByteComesOutOnce
=============================================================================
