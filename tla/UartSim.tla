------------------------------ MODULE UartSim ------------------------------
(***************************************************************************)
(* The serial port simulator sim/verilated/uartsim.cpp between a device's  *)
(* transmit and receive wires and a client of its socket (nettick) or the  *)
(* terminal (fdtick), one UartTick a clock.                                *)
(*                                                                         *)
(* us is the simulator: con says that m_conrd and m_conwr are open, cfg is *)
(* m_setup taken apart, rx and tx are its two shift registers, the sampled *)
(* and the remaining bits as sequences.  A byte is the tuple of its bits,  *)
(* low order bit first.  wire is the device, which keeps to the baud rate; *)
(* client is the far end: what it has sent and not yet read back.          *)
(***************************************************************************)
EXTENDS Integers, Sequences, SequencesExt

CONSTANTS UartBytes,     \* the bytes sent: tuples of eight bits
          UartSetups,    \* records of baud, stop bits and parity
          MaxChars       \* bytes each side sends

ASSUME UartAssumption ==
    /\ UartBytes \subseteq [1 .. 8 -> {0, 1}] /\ MaxChars \in Nat
    /\ \A s \in UartSetups : /\ s.baud \in Nat \ {0, 1} /\ s.stop \in {1, 2}
                             /\ s.parity \in {"none", "fixed0", "fixed1", "p", "np"}

VARIABLES us, wire, client
uartVars == <<us, wire, client>>

IdleRx == [busy |-> FALSE, baud |-> 0, bits |-> <<>>]
IdleTx == [bits |-> <<>>, baud |-> 0]

UartInit ==
    /\ us = [mode |-> "off", con |-> FALSE, cfg |-> CHOOSE s \in UartSetups : TRUE,
             rx |-> IdleRx, tx |-> IdleTx, chg |-> 0, last |-> 1, o |-> 1]
    /\ wire = [tx |-> IdleTx, rx |-> IdleRx, sent |-> <<>>, heard |-> <<>>]
    /\ client = [up |-> FALSE, out |-> <<>>, n |-> 0, taken |-> <<>>, heard |-> <<>>, got |-> <<>>]

\* The constructor and setup(): a socket to listen on, or the terminal.
Construct ==
    /\ us.mode = "off" /\ UNCHANGED <<wire, client>>
    /\ \E s \in UartSetups, m \in {"net", "fd"} :
          us' = [us EXCEPT !.mode = m, !.cfg = s, !.con = (m = "fd")]

-----------------------------------------------------------------------------
B == us.cfg.baud
Level(bits) == IF bits = <<>> THEN 1 ELSE Head(bits)
Odd(byte) == FoldSeq(LAMBDA b, p : (b + p) % 2, 0, byte)

\* parity is "none", "even", "odd" or the level it is fixed at.
Parity(byte) ==
    CASE us.cfg.parity = "none"  -> <<>>
      [] us.cfg.parity = "fixed0" -> <<0>>
      [] us.cfg.parity = "fixed1" -> <<1>>
      [] us.cfg.parity = "p"      -> <<Odd(byte)>>
      [] us.cfg.parity = "np"     -> <<1 - Odd(byte)>>
Stops == [i \in 1 .. us.cfg.stop |-> 1]
Frame(byte) == <<0>> \o byte \o Parity(byte) \o Stops
FrameBits == 8 + Len(Parity(CHOOSE b \in UartBytes : TRUE)) + us.cfg.stop

\* m_rx_changectr: clocks since the last falling edge.
MutNoEdge(i) == 0
ChangeCtr(i) == IF i = 0 /\ us.last = 1 THEN 0 ELSE IF us.chg < 2 * B THEN us.chg + 1 ELSE us.chg
FrameDone == us.rx.busy /\ us.rx.baud <= 0 /\ Len(us.rx.bits) >= FrameBits

\* The receiver: the first sample in the middle of the first data bit.
Sample(i) ==
    CASE ~us.rx.busy /\ i = 1 -> us.rx
      [] ~us.rx.busy /\ i = 0 ->
           [busy |-> TRUE, bits |-> <<>>, baud |-> B + B \div 2 - 1 - ChangeCtr(i)]
      [] us.rx.busy /\ us.rx.baud > 0 -> [us.rx EXCEPT !.baud = @ - 1]
      [] FrameDone -> [IdleRx EXCEPT !.baud = B - 1]
      [] OTHER -> [us.rx EXCEPT !.bits = Append(@, i), !.baud = B - 1]

\* The transmitter between characters takes byte, or nothing.
Start(byte) == [bits |-> Frame(byte), baud |-> B - 1]
Shift == CASE us.tx.bits = <<>> -> us.tx
           [] us.tx.bits # <<>> /\ us.tx.baud > 0 -> [us.tx EXCEPT !.baud = @ - 1]
           [] OTHER -> [bits |-> Tail(us.tx.bits), baud |-> IF Len(us.tx.bits) = 1 THEN 0 ELSE B - 1]

-----------------------------------------------------------------------------
\* The device keeps to the baud rate; a character may begin when the wire is free.
DeviceTx ==
    LET free == wire.tx.bits = <<>>
        begun == {[wire EXCEPT !.tx = Start(b), !.sent = Append(@, b)] : b \in UartBytes}
        shifted == [bits |-> Tail(wire.tx.bits), baud |-> IF Len(wire.tx.bits) = 1 THEN 0 ELSE B - 1]
    IN CASE free /\ Len(wire.sent) < MaxChars -> begun \union {wire}
         [] free /\ Len(wire.sent) = MaxChars -> {wire}
         [] ~free /\ wire.tx.baud > 0         -> {[wire EXCEPT !.tx.baud = @ - 1]}
         [] ~free /\ wire.tx.baud = 0         -> {[wire EXCEPT !.tx = shifted]}
DeviceRx(w) ==
    CASE ~w.rx.busy /\ us.o = 1 -> w
      [] ~w.rx.busy /\ us.o = 0 -> [w EXCEPT !.rx = [busy |-> TRUE, bits |-> <<>>, baud |-> B + B \div 2 - 1]]
      [] w.rx.busy /\ w.rx.baud > 0 -> [w EXCEPT !.rx.baud = @ - 1]
      [] w.rx.busy /\ w.rx.baud = 0 /\ Len(w.rx.bits) + 1 < FrameBits ->
           [w EXCEPT !.rx.bits = Append(@, us.o), !.rx.baud = B - 1]
      [] OTHER -> [w EXCEPT !.rx = IdleRx, !.heard = Append(@, Append(w.rx.bits, us.o))]

\* What both ticks do; con is the connection, ready says that it has a byte.
AdvanceLine(i, con, ready, delivered) ==
    LET tx == IF ready THEN Start(Head(client.out)) ELSE Shift
        byte == SubSeq(us.rx.bits, 1, 8)
    IN /\ us' = [us EXCEPT !.con = con, !.rx = Sample(i), !.chg = ChangeCtr(i), !.last = i,
                           !.tx = tx, !.o = Level(tx.bits)]
       /\ client' = [client EXCEPT
            !.out = IF ready THEN Tail(@) ELSE IF con THEN @ ELSE <<>>,
            !.taken = IF ready THEN Append(@, Head(client.out)) ELSE @,
            !.heard = IF FrameDone THEN Append(@, byte) ELSE @,
            !.got = IF FrameDone /\ delivered THEN Append(@, byte) ELSE @]

\* nettick: a new connection, a character out, a character in or its end.
NetTick(i) ==
    /\ us.mode = "net"
    /\ LET accepted == us.con \/ client.up
           idle == us.tx.bits = <<>>
       IN \E failed \in IF FrameDone /\ accepted /\ ~client.up THEN BOOLEAN ELSE {FALSE} :
            LET open == accepted /\ ~failed
                ended == idle /\ client.out = <<>> /\ ~client.up
            IN AdvanceLine(i, open /\ ~ended, idle /\ open /\ client.out # <<>>, open /\ client.up)

\* fdtick: the terminal is always there.
FdTick(i) ==
    us.mode = "fd" /\ AdvanceLine(i, TRUE, us.tx.bits = <<>> /\ client.out # <<>>, TRUE)

UartTick == /\ wire' \in {DeviceRx(w) : w \in DeviceTx}
            /\ NetTick(Level(wire'.tx.bits)) \/ FdTick(Level(wire'.tx.bits))

\* The far end.  It connects again only when the end of the last connection was seen.
ClientOpen == us.mode = "net" /\ ~client.up /\ ~us.con /\ UNCHANGED <<us, wire>>
              /\ client' = [client EXCEPT !.up = TRUE]
ClientSend == /\ (us.mode = "net" /\ client.up) \/ us.mode = "fd"
              /\ client.n < MaxChars /\ UNCHANGED <<us, wire>>
              /\ \E b \in UartBytes : client' = [client EXCEPT !.out = Append(@, b), !.n = @ + 1]
ClientClose == client.up /\ client' = [client EXCEPT !.up = FALSE] /\ UNCHANGED <<us, wire>>

UartNext == Construct \/ UartTick \/ ClientOpen \/ ClientSend \/ ClientClose
UartFairness == WF_uartVars(UartTick)
UartSpec == UartInit /\ [][UartNext]_uartVars

-----------------------------------------------------------------------------
(* The simulator's registers keep their types.                             *)
UartTypeOK ==
    /\ us.rx.baud \in 0 .. 2 * B /\ us.tx.baud \in 0 .. B - 1 /\ us.o \in {0, 1}
    /\ Len(us.rx.bits) <= FrameBits /\ Len(us.tx.bits) <= FrameBits + 1

(* What the simulator hears is what the device sent, character by          *)
(* character, also when one begins as soon as the last has ended and while *)
(* characters go the other way and connections come and go.                *)
HeardAsSent == IsPrefix(client.heard, wire.sent)

(* What the device hears is the frames of what was taken from the client:  *)
(* start, data, parity and stop bits each at its place and of its length.  *)
FramedAsTaken ==
    /\ Len(wire.heard) <= Len(client.taken)
    /\ \A k \in DOMAIN wire.heard : wire.heard[k] = Tail(Frame(client.taken[k]))

(* A character that was begun is heard at the other end in the end.        *)
CharactersArrive ==
    /\ (Len(wire.sent) = MaxChars) ~> (Len(client.heard) = MaxChars)
    /\ (Len(client.taken) = MaxChars) ~> (Len(wire.heard) = MaxChars)

(* UARTSIM: what one end sends is what the other hears, both ways at once. *)
CharactersAreKept == HeardAsSent /\ FramedAsTaken
=============================================================================
