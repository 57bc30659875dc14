------------------------------ MODULE MemSims --------------------------------
(***************************************************************************)
(* Two simulated memories behind one pipelined Wishbone master: MEMSIM     *)
(* (sim/verilated/memsim.cpp), which answers a fixed number of clocks      *)
(* later, and SRAMSIM (sramsim.cpp), a chip of sixteen bits that the       *)
(* controller sramdev (rtl/catzip/sramdev.v) reads and writes half by half.*)
(*                                                                         *)
(* A word is its four bytes, byte 3 the highest.  mem is m_mem.  sv is the *)
(* slave the master sees: the queue of MEMSIM, or the registers of sramdev *)
(* with what the chip drives.  wb is the master: owed is what it waits     *)
(* for, kept by the model, as is truth, the memory as the requests made it.*)
(***************************************************************************)
EXTENDS Integers, Sequences, FiniteSets

CONSTANTS MemWords,      \* words of the memory
          Delays,        \* the constructor's delays of MEMSIM
          Lanes,         \* sets of bytes the master selects
          MaxAccesses    \* requests of a run

ASSUME MemAssumption == MemWords \in Nat \ {0} /\ Delays \subseteq Nat /\ Lanes \subseteq SUBSET (0 .. 3)

VARIABLES mem, sv, wb, truth
memVars == <<mem, sv, wb, truth>>

WordOf(v) == [b \in 0 .. 3 |-> v]
Merge(old, new, lanes) == [b \in 0 .. 3 |-> IF b \in lanes THEN new[b] ELSE old[b]]
NoAccess == [stb |-> FALSE, we |-> FALSE, a |-> 0, d |-> WordOf(0), sel |-> {}]

-----------------------------------------------------------------------------
(* MEMSIM::apply.  The queue has a power of two of places, and its tail    *)
(* is read before its head is written.                                     *)
FifoLen(delay) ==
    LET mask[k \in 0 .. delay] == IF k = 0 THEN 1 ELSE 2 * mask[k - 1]
    IN  mask[CHOOSE k \in 0 .. delay : mask[k] >= delay /\ \A j \in 0 .. k - 1 : mask[j] < delay]
\* The place of the answer, and what a write leaves of a word.
TailOf(head) == (head - sv.delay) % Len(sv.fifo)
StoredWord(old, r) == Merge(old, r.d, r.sel)
Apply(r) ==
    LET head == (sv.head + 1) % Len(sv.fifo)
        m == IF r.stb /\ r.we THEN [mem EXCEPT ![r.a] = StoredWord(@, r)] ELSE mem
    IN  /\ mem' = m
        /\ sv' = [sv EXCEPT !.head = head, !.out = sv.fifo[TailOf(head) + 1],
                            !.fifo[head + 1] = [ack |-> r.stb, d |-> IF r.stb THEN m[r.a] ELSE WordOf(0)]]
MemsimStart(delay) ==
    [kind |-> "memsim", delay |-> delay, head |-> 0, stall |-> FALSE,
     fifo |-> [i \in 1 .. FifoLen(delay) |-> [ack |-> FALSE, d |-> WordOf(0)]],
     out |-> [ack |-> FALSE, d |-> WordOf(0)]]

-----------------------------------------------------------------------------
(* SRAMSIM::apply: c is what the controller drives, ce, oe and we true when *)
(* active, off the bytes of the half that are not selected.                *)
Junk == [b \in 0 .. 1 |-> -1]                  \* rand()
Lane(c, b) == IF c.half = 0 THEN b + 2 ELSE b
ChipMem(c) ==
    IF c.ce /\ c.we
    THEN [mem EXCEPT ![c.a] = [b \in 0 .. 3 |-> IF \E h \in (0 .. 1) \ c.off : b = Lane(c, h)
                                                THEN c.rd[b % 2] ELSE @[b]]]
    ELSE mem
ChipData(c) ==
    CASE ~c.ce -> Junk
      [] c.ce /\ c.we -> c.rd
      [] OTHER -> [h \in 0 .. 1 |-> IF h \in c.off THEN c.rd[h] ELSE mem[c.a][Lane(c, h)]]
\* The two asserts of apply.
ChipAsserts(c) == c.ce => c.oe # c.we

High16(w) == [h \in 0 .. 1 |-> w[h + 2]]
Low16(w) == [h \in 0 .. 1 |-> w[h]]
Joined(hi, lo) == [b \in 0 .. 3 |-> IF b > 1 THEN hi[b - 2] ELSE lo[b]]
Disabled(c, half) == {h \in 0 .. 1 : (IF half = 0 THEN h + 2 ELSE h) \in c.nsel}

\* sramdev: a cycle of four clocks for the high half and four for the low.
MutHalfOf(st) == 0
HalfOf(st) == IF st < 4 THEN 0 ELSE 1
Driven(c, r) ==
    CASE c.st = 0 -> [c EXCEPT !.ce = r.stb, !.oe = r.stb /\ ~r.we, !.we = r.stb /\ r.we, !.off = {0, 1},
                               !.a = r.a, !.half = 0, !.rd = High16(r.d)]
      [] c.st \in {1, 2, 5, 6} -> [c EXCEPT !.ce = TRUE, !.oe = ~c.write, !.we = c.write,
                                            !.off = Disabled(c, HalfOf(c.st))]
      [] c.st = 3 -> [c EXCEPT !.ce = FALSE, !.oe = FALSE, !.we = FALSE, !.off = {0, 1},
                               !.half = 1, !.rd = Low16(c.data)]
      [] c.st = 4 -> [c EXCEPT !.ce = TRUE, !.oe = ~c.write, !.we = c.write, !.off = {0, 1}]
      [] c.st = 7 -> [c EXCEPT !.ce = FALSE, !.oe = FALSE, !.we = FALSE, !.off = {0, 1}]
Acks(c, cyc) == c.st = 7 /\ c.nack /\ cyc
Wraps(st) == (st + 1) % 8
HighThere(st) == st = 3
Settled(c, r, cyc) ==
    LET data == CASE c.st \in {0, 7} -> Joined(High16(c.out.d), c.iram)
                  [] HighThere(c.st) -> Joined(c.iram, Low16(c.out.d))
                  [] OTHER -> c.out.d
    IN  [c EXCEPT !.st = IF c.st = 0 /\ ~r.stb THEN 0 ELSE Wraps(c.st),
                  !.nack = IF c.st = 0 THEN r.stb ELSE @ /\ cyc,
                  !.stall = IF c.st = 0 THEN r.stb ELSE c.st # 7,
                  !.data = IF c.st = 0 THEN r.d ELSE @, !.write = IF c.st = 0 THEN r.we ELSE @,
                  !.nsel = IF c.st # 0 THEN @ ELSE IF r.we THEN (0 .. 3) \ r.sel ELSE {},
                  !.out = [ack |-> Acks(c, cyc), d |-> data]]
\* A clock: the registers, then the chip with what they now drive.
Sramdev(r, cyc) ==
    LET d == Driven(sv, r)
        c == [Settled(sv, r, cyc) EXCEPT !.ce = d.ce, !.oe = d.oe, !.we = d.we, !.off = d.off,
                                         !.a = d.a, !.half = d.half, !.rd = d.rd]
    IN  /\ sv' = [c EXCEPT !.iram = ChipData(c)]
        /\ mem' = ChipMem(c)
SramdevStart ==
    [kind |-> "sramdev", st |-> 0, nack |-> FALSE, stall |-> FALSE, data |-> WordOf(0), write |-> FALSE, nsel |-> {},
     ce |-> FALSE, oe |-> FALSE, we |-> FALSE, off |-> {0, 1}, a |-> 0, half |-> 0, rd |-> Junk, iram |-> Junk,
     out |-> [ack |-> FALSE, d |-> WordOf(0)]]

-----------------------------------------------------------------------------
(* The master: requests while it is not stalled, the answers in order, and *)
(* with sramdev it may end the bus cycle before they are there.            *)
Requests == [stb : {TRUE}, we : BOOLEAN, a : 0 .. MemWords - 1, d : {WordOf(wb.n + 1)}, sel : Lanes]
Clocked(r, drop) ==
    LET left == IF sv.out.ack /\ wb.owed # <<>> THEN Tail(wb.owed) ELSE wb.owed
    IN  /\ r.stb => ~sv.stall /\ ~drop
        /\ IF sv.kind = "memsim" THEN Apply(r) ELSE Sramdev(r, ~drop)
        /\ truth' = IF r.stb /\ r.we THEN [truth EXCEPT ![r.a] = Merge(@, r.d, r.sel)] ELSE truth
        /\ wb' = [n |-> IF r.stb THEN wb.n + 1 ELSE wb.n,
                  owed |-> IF drop THEN <<>>
                           ELSE IF r.stb THEN Append(left, [we |-> r.we, d |-> truth[r.a]]) ELSE left]
MemClock == \E r \in (IF wb.n < MaxAccesses THEN Requests ELSE {}) \cup {NoAccess} : Clocked(r, FALSE)
EndCycle == sv.kind = "sramdev" /\ wb.owed # <<>> /\ Clocked(NoAccess, TRUE)

MemInit ==
    /\ mem = [a \in 0 .. MemWords - 1 |-> WordOf(0)] /\ truth = mem
    /\ sv \in {MemsimStart(d) : d \in Delays} \cup {SramdevStart}
    /\ wb = [n |-> 0, owed |-> <<>>]
MemNext == MemClock \/ EndCycle
MemSpec == MemInit /\ [][MemNext]_memVars
MemFairness == WF_memVars(MemClock)

-----------------------------------------------------------------------------
\* Words hold written bytes, MEMSIM's m_head stays in its queue and sramdev's
\* state in its cycle.
MemTypeOK ==
    /\ \A a \in 0 .. MemWords - 1, b \in 0 .. 3 : mem[a][b] \in 0 .. MaxAccesses
    /\ sv.kind = "memsim" => sv.head \in 0 .. Len(sv.fifo) - 1
    /\ sv.out.ack => \A b \in 0 .. 3 : sv.out.d[b] \in 0 .. MaxAccesses
    /\ sv.kind = "sramdev" => sv.st \in 0 .. 7
    /\ wb.n \in 0 .. MaxAccesses

\* MEMSIM and sramdev with SRAMSIM: an answer belongs to the oldest request
\* still open, and a read gives what the requests before it wrote, byte by
\* byte, whatever writes have been queued behind it.
AnswersFitRequests ==
    sv.out.ack => wb.owed # <<>> /\ (Head(wb.owed).we \/ sv.out.d = Head(wb.owed).d)

\* sramdev: no two of the chip's enables together (the asserts of
\* SRAMSIM::apply, sramsim.cpp:115 and 124), and between two requests the chip
\* holds what was written, even of a cycle the master has ended.
ChipHoldsTheWords ==
    sv.kind = "sramdev" => ChipAsserts(sv) /\ (sv.st = 0 => mem = truth)

\* Every request of a cycle that is not ended is answered.
AccessesAreAnswered == wb.owed # <<>> ~> wb.owed = <<>>

\* The memories behind their controllers: what was written is what is read.
MemoriesHoldTheWords == AnswersFitRequests /\ ChipHoldsTheWords
=============================================================================
