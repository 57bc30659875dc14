------------------------------- MODULE UFifo -------------------------------
(***************************************************************************)
(* ufifo.v (rtl/catzip), the FIFO on either side of the console, clock by  *)
(* clock: a memory of FLEN slots of which one stays free, the two flags    *)
(* that are worked out a clock ahead, and the bypass that shows an item    *)
(* written to an empty FIFO before the memory can be read.                 *)
(*                                                                         *)
(* An input i of a clock is [reset, wr, rd, data].  Reading an empty FIFO  *)
(* and writing a full one are among them: the bus does both.  Sums of      *)
(* addresses have the width of an address, Wrap.                           *)
(***************************************************************************)
EXTENDS Integers, Sequences

CONSTANTS FLEN,      \* slots, 1 << LGFLEN
          Chars,     \* what is written
          RXFIFO     \* counts what is there, rather than the room left

ASSUME FifoAssumption == FLEN \in Nat /\ FLEN >= 3 /\ RXFIFO \in BOOLEAN

VARIABLES fifo, wr_addr, rd_addr, r_next, r_data, last_write, osrc,
          will_overflow, will_underflow, r_fill

fifoVars == <<fifo, wr_addr, rd_addr, r_next, r_data, last_write, osrc,
              will_overflow, will_underflow, r_fill>>

FifoSlots == 0 .. FLEN - 1
Wrap(a) == IF a >= FLEN THEN a - FLEN ELSE a
FifoInput == [reset : BOOLEAN, wr : BOOLEAN, rd : BOOLEAN, data : Chars]

w_write(i) == i.wr /\ (~will_overflow \/ i.rd)
w_read(i) == i.rd /\ ~will_underflow
o_data == IF osrc THEN last_write ELSE r_data

WillOverflow(i) ==
    will_overflow' = (/\ ~i.reset
                      /\ IF i.rd THEN will_overflow /\ i.wr
                         ELSE \/ will_overflow
                              \/ Wrap(wr_addr + (IF w_write(i) THEN 2 ELSE 1)) = rd_addr)

WriteHalf(i) ==
    /\ wr_addr' = IF i.reset THEN 0 ELSE IF w_write(i) THEN Wrap(wr_addr + 1) ELSE wr_addr
    /\ fifo' = IF w_write(i) THEN [fifo EXCEPT ![wr_addr] = i.data] ELSE fifo

\* The write that comes as the last item leaves is not counted
MutWillUnderflow(i) ==
    will_underflow' = (i.reset \/ (will_underflow /\ ~i.wr) \/ (w_read(i) /\ r_next = wr_addr))

WillUnderflow(i) ==
    will_underflow' = (i.reset \/ /\ ~i.wr
                                  /\ will_underflow \/ (w_read(i) /\ r_next = wr_addr))

ReadHalf(i) ==
    /\ rd_addr' = IF i.reset THEN 0 ELSE IF w_read(i) THEN Wrap(rd_addr + 1) ELSE rd_addr
    /\ r_next' = IF i.reset THEN 1 ELSE IF w_read(i) THEN Wrap(rd_addr + 2) ELSE r_next
    /\ r_data' = IF w_read(i) THEN fifo[r_next] ELSE r_data

\* The item written will be the oldest one before the memory can give it
Bypassed(i) == i.wr /\ (will_underflow \/ (w_read(i) /\ r_next = wr_addr))

Bypass(i) ==
    /\ last_write' = IF Bypassed(i) THEN i.data ELSE last_write
    /\ osrc' = (~i.reset /\ (Bypassed(i) \/ (osrc /\ ~i.rd)))

FillOf(n) == IF RXFIFO THEN n ELSE FLEN - 1 - n
Fill(i) ==
    r_fill' = IF i.reset THEN FillOf(0)
              ELSE IF w_write(i) <=> w_read(i) THEN r_fill
              ELSE IF w_write(i) <=> RXFIFO THEN r_fill + 1 ELSE r_fill - 1

FifoClock(i) ==
    /\ WillOverflow(i) /\ WriteHalf(i) /\ WillUnderflow(i) /\ ReadHalf(i)
    /\ Bypass(i) /\ Fill(i)

FifoInit ==
    /\ fifo \in [FifoSlots -> Chars] /\ r_data \in Chars /\ last_write \in Chars
    /\ wr_addr = 0 /\ rd_addr = 0 /\ r_next = 1 /\ osrc = FALSE
    /\ will_overflow = FALSE /\ will_underflow = TRUE /\ r_fill = FillOf(0)

FifoNext == \E i \in FifoInput : FifoClock(i)
FifoSpec == FifoInit /\ [][FifoNext]_fifoVars

-----------------------------------------------------------------------------
(* Every register has its width.                                           *)
FifoTypeOK ==
    /\ fifo \in [FifoSlots -> Chars] /\ r_data \in Chars /\ last_write \in Chars
    /\ wr_addr \in FifoSlots /\ rd_addr \in FifoSlots
    /\ r_next \in FifoSlots /\ r_fill \in FifoSlots
    /\ osrc \in BOOLEAN /\ will_overflow \in BOOLEAN /\ will_underflow \in BOOLEAN

\* How many items there are, and which
Count == IF wr_addr >= rd_addr THEN wr_addr - rd_addr ELSE wr_addr + FLEN - rd_addr
Contents == [k \in 1 .. Count |-> fifo[Wrap(rd_addr + k - 1)]]

(* The flags and the count in o_status are those of the contents, although *)
(* each is worked out from its own conditions a clock before: a program    *)
(* that polls them neither loses a character nor waits for a free slot.    *)
StatusIsTrue ==
    /\ will_underflow <=> Count = 0
    /\ will_overflow <=> Count = FLEN - 1
    /\ r_fill = FillOf(Count)

\* With r_next a step ahead of rd_addr and the oldest item at the output, this
\* is what every clock preserves
FInv ==
    /\ FifoTypeOK /\ StatusIsTrue
    /\ r_next = Wrap(rd_addr + 1)
    /\ Count > 0 => o_data = fifo[rd_addr]

Queue == INSTANCE FifoQueue WITH Items <- Chars, Capacity <- FLEN - 1,
                                 q <- Contents, shown <- o_data

(* ufifo.v is the queue FifoQueue describes: every item comes out once and *)
(* in order, the one to be read is at o_data in the clock it can be read,  *)
(* also when it has just been written, and the status says so.             *)
FifoIsAQueue == Queue!QueueSpec /\ [](FifoTypeOK /\ StatusIsTrue)
=============================================================================
