--------------------------- MODULE ConsoleProofs ---------------------------
(***************************************************************************)
(* Between the FPGA and the serial stream of the host.                     *)
(*                                                                         *)
(* UFifo, for every length and content of the FIFO: its registers keep     *)
(* their types, its status is that of its contents (FInv), and its clocks  *)
(* are steps of the queue of FifoQueue.                                    *)
(*                                                                         *)
(* HbConsole, for all words that are a letter and digits and whatever is   *)
(* timed how: what is due is what the stages hold, the transmitter's end   *)
(* first (HcIInv), and each clock passes it on in order (AllFlow).         *)
(***************************************************************************)
EXTENDS UFifo, HbConsole, FiniteSetTheorems, SequenceTheorems, TLAPS

Bit(b) == IF b THEN 1 ELSE 0

\* What is there is a sequence of the slots from rd_addr on
LEMMA ContentsIsASeq ==
    ASSUME FifoTypeOK
    PROVE  /\ Count \in 0 .. FLEN - 1
           /\ \A k \in 1 .. Count : Wrap(rd_addr + k - 1) \in FifoSlots
           /\ Contents \in Seq(Chars)
           /\ Len(Contents) = Count
           /\ \A k \in 1 .. Count : Contents[k] = fifo[Wrap(rd_addr + k - 1)]
<1>1. Count \in 0 .. FLEN - 1
    BY FifoAssumption DEF FifoTypeOK, FifoSlots, Count
<1>2. \A k \in 1 .. Count : Wrap(rd_addr + k - 1) \in FifoSlots
    BY <1>1, FifoAssumption DEF FifoTypeOK, FifoSlots, Wrap
<1>3. \A k \in 1 .. Count : fifo[Wrap(rd_addr + k - 1)] \in Chars
    BY <1>2 DEF FifoTypeOK
<1>4. Contents \in [1 .. Count -> Chars]
    BY <1>3 DEF Contents
<1>5. Contents \in Seq(Chars) /\ Len(Contents) = Count
    BY <1>1, <1>4, FifoAssumption
<1> QED BY <1>1, <1>2, <1>5 DEF Contents

\* A write that is taken finds a free slot or a read that is taken too, so that
\* the addresses move as the number of items does
LEMMA CountMoves ==
    ASSUME FInv, NEW i \in FifoInput, FifoClock(i), ~i.reset
    PROVE  /\ w_read(i) => Count > 0
           /\ w_write(i) => Count < FLEN - 1 \/ w_read(i)
           /\ Count' = Count + Bit(w_write(i)) - Bit(w_read(i))
<1> USE FifoAssumption
<1>1. Count \in 0 .. FLEN - 1
    BY ContentsIsASeq DEF FInv
<1>2. w_read(i) => Count > 0
    BY <1>1 DEF FInv, StatusIsTrue, w_read
<1>3. w_write(i) => Count < FLEN - 1 \/ w_read(i)
    BY <1>1 DEF FInv, StatusIsTrue, w_write, w_read
<1>4. wr_addr' = IF w_write(i) THEN Wrap(wr_addr + 1) ELSE wr_addr
    BY DEF FifoClock, WriteHalf
<1>5. rd_addr' = IF w_read(i) THEN Wrap(rd_addr + 1) ELSE rd_addr
    BY DEF FifoClock, ReadHalf
<1>6. Count' = Count + Bit(w_write(i)) - Bit(w_read(i))
    BY <1>2, <1>3, <1>4, <1>5 DEF FInv, FifoTypeOK, FifoSlots, Count, Wrap, Bit
<1> QED BY <1>2, <1>3, <1>6

\* There is never more than fits
LEMMA CountStays ==
    ASSUME FInv, NEW i \in FifoInput, FifoClock(i)
    PROVE  Count' \in 0 .. FLEN - 1
<1> USE FifoAssumption
<1>1. CASE i.reset
    BY <1>1 DEF FifoClock, WriteHalf, ReadHalf, Count
<1>2. CASE ~i.reset
    BY <1>2, ContentsIsASeq, CountMoves DEF FInv, Bit
<1> QED BY <1>1, <1>2

\* A clock leaves the flags and r_fill saying what the new contents are.
LEMMA StatusKept ==
    ASSUME FInv, NEW i \in FifoInput, FifoClock(i)
    PROVE  StatusIsTrue'
<1> USE FifoAssumption
<1>1. CASE i.reset
  <2>1. Count' = 0
      BY <1>1 DEF FifoClock, WriteHalf, ReadHalf, Count
  <2>2. will_underflow' /\ ~will_overflow'
      BY <1>1 DEF FifoClock, WillOverflow, WillUnderflow
  <2>3. r_fill' = FillOf(Count')
      BY <1>1, <2>1 DEF FifoClock, Fill, FillOf
  <2> QED BY <2>1, <2>2, <2>3 DEF StatusIsTrue
<1>2. CASE ~i.reset
  <2>1. Count \in 0 .. FLEN - 1 /\ Count' = Count + Bit(w_write(i)) - Bit(w_read(i))
      BY <1>2, ContentsIsASeq, CountMoves DEF FInv
  <2>2. i.wr \in BOOLEAN /\ i.rd \in BOOLEAN
      BY DEF FifoInput
  <2>3. /\ wr_addr \in FifoSlots /\ rd_addr \in FifoSlots
        /\ will_overflow \in BOOLEAN /\ will_underflow \in BOOLEAN
        /\ r_next = Wrap(rd_addr + 1)
      BY DEF FInv, FifoTypeOK
  <2>4. (r_next = wr_addr) <=> Count = 1
      BY <2>3 DEF Count, FifoSlots, Wrap
  <2>5. /\ (Wrap(wr_addr + 1) = rd_addr) <=> Count = FLEN - 1
        /\ (Wrap(wr_addr + 2) = rd_addr) <=> Count = FLEN - 2
      BY <2>3 DEF Count, FifoSlots, Wrap
  <2>6. will_underflow' <=> Count' = 0
    <3>1. will_underflow' <=> /\ ~i.wr
                              /\ will_underflow \/ (w_read(i) /\ Count = 1)
        BY <1>2, <2>4 DEF FifoClock, WillUnderflow
    <3>2. /\ will_underflow <=> Count = 0
          /\ will_overflow <=> Count = FLEN - 1
        BY DEF FInv, StatusIsTrue
    <3> QED BY <2>1, <2>2, <3>1, <3>2 DEF w_write, w_read, Bit
  <2>7. will_overflow' <=> Count' = FLEN - 1
      BY <1>2, <2>1, <2>2, <2>5
         DEF FInv, StatusIsTrue, FifoClock, WillOverflow, w_write, w_read, Bit
  <2>8. r_fill' = FillOf(Count')
    <3>1. r_fill = FillOf(Count)
        BY DEF FInv, StatusIsTrue
    <3>2. r_fill' = IF w_write(i) <=> w_read(i) THEN r_fill
                    ELSE IF w_write(i) <=> RXFIFO THEN r_fill + 1 ELSE r_fill - 1
        BY <1>2 DEF FifoClock, Fill
    <3> QED BY <2>1, <3>1, <3>2 DEF FillOf, Bit
  <2> QED BY <2>6, <2>7, <2>8 DEF StatusIsTrue
<1> QED BY <1>1, <1>2

\* A clock keeps every register of the FIFO within its range.
LEMMA TypesKept ==
    ASSUME FInv, NEW i \in FifoInput, FifoClock(i)
    PROVE  FifoTypeOK'
<1> USE FifoAssumption
<1>1. i.reset \in BOOLEAN /\ i.wr \in BOOLEAN /\ i.rd \in BOOLEAN /\ i.data \in Chars
    BY DEF FifoInput
<1>2. fifo' \in [FifoSlots -> Chars] /\ wr_addr' \in FifoSlots
    BY <1>1 DEF FInv, FifoTypeOK, FifoClock, WriteHalf, FifoSlots, Wrap
<1>3. rd_addr' \in FifoSlots /\ r_next' \in FifoSlots
    BY DEF FInv, FifoTypeOK, FifoClock, ReadHalf, FifoSlots, Wrap
<1>4. r_data' \in Chars
    BY DEF FInv, FifoTypeOK, FifoClock, ReadHalf
<1>5. last_write' \in Chars /\ osrc' \in BOOLEAN
    BY <1>1 DEF FInv, FifoTypeOK, FifoClock, Bypass
<1>6. will_overflow' \in BOOLEAN /\ will_underflow' \in BOOLEAN
    BY DEF FifoClock, WillOverflow, WillUnderflow
<1>7. r_fill' \in FifoSlots
  <2>1. Count' \in 0 .. FLEN - 1
      BY CountStays
  <2> QED BY <2>1, StatusKept DEF StatusIsTrue, FillOf, FifoSlots
<1> QED BY <1>2, <1>3, <1>4, <1>5, <1>6, <1>7 DEF FifoTypeOK

\* The k-th item after a clock is the one behind it if a read was taken, and the
\* one just written when there was none
LEMMA ItemsMove ==
    ASSUME FInv, NEW i \in FifoInput, FifoClock(i), ~i.reset,
           NEW k \in 1 .. Count'
    PROVE  fifo'[Wrap(rd_addr' + k - 1)] =
               IF k + Bit(w_read(i)) <= Count
               THEN fifo[Wrap(rd_addr + (k + Bit(w_read(i))) - 1)]
               ELSE i.data
<1> USE FifoAssumption
<1> DEFINE j == k + Bit(w_read(i))
           a == Wrap(rd_addr + j - 1)
<1>1. Count \in 0 .. FLEN - 1
    BY ContentsIsASeq DEF FInv
<1>2. /\ w_read(i) => Count > 0
      /\ w_write(i) => Count < FLEN - 1 \/ w_read(i)
      /\ Count' = Count + Bit(w_write(i)) - Bit(w_read(i))
    BY CountMoves
<1>3. /\ wr_addr \in FifoSlots /\ rd_addr \in FifoSlots
      /\ fifo \in [FifoSlots -> Chars]
    BY DEF FInv, FifoTypeOK
<1>4. /\ rd_addr' = IF w_read(i) THEN Wrap(rd_addr + 1) ELSE rd_addr
      /\ fifo' = IF w_write(i) THEN [fifo EXCEPT ![wr_addr] = i.data] ELSE fifo
    BY DEF FifoClock, WriteHalf, ReadHalf
<1>5. j \in 1 .. FLEN /\ j <= Count + Bit(w_write(i))
    BY <1>1, <1>2 DEF Bit
<1>6. Wrap(rd_addr' + k - 1) = a /\ a \in FifoSlots
    BY <1>1, <1>2, <1>3, <1>4, <1>5 DEF Wrap, FifoSlots, Bit
<1>7. a = wr_addr <=> j = Count + 1
    BY <1>1, <1>3, <1>5, <1>2 DEF Wrap, FifoSlots, Count, Bit
<1> HIDE DEF j, a
<1>8. CASE j <= Count
  <2>1. fifo'[a] = fifo[a]
      BY <1>1, <1>3, <1>4, <1>6, <1>7, <1>8, <1>5
  <2> QED BY <1>6, <1>8, <2>1 DEF j, a
<1>9. CASE j > Count
  <2>1. w_write(i) /\ a = wr_addr
      BY <1>1, <1>5, <1>7, <1>9 DEF Bit
  <2>2. fifo'[a] = i.data
      BY <1>3, <1>4, <2>1
  <2>3. ~(j <= Count)
      BY <1>1, <1>5, <1>9
  <2> QED BY <1>6, <2>2, <2>3 DEF j
<1> QED BY <1>1, <1>5, <1>8, <1>9

\* After a clock r_next is the address after rd_addr, a reset included.
LEMMA ReadsAhead ==
    ASSUME FInv, NEW i \in FifoInput, FifoClock(i)
    PROVE  r_next' = Wrap(rd_addr' + 1)
<1>1. rd_addr \in FifoSlots /\ r_next = Wrap(rd_addr + 1)
    BY DEF FInv, FifoTypeOK
<1> QED BY <1>1, FifoAssumption DEF FifoClock, ReadHalf, Wrap, FifoSlots

\* The oldest item is at the output when there is one: read from the memory a
\* clock ahead, or kept in last_write when the memory cannot have it yet
LEMMA OldestIsShown ==
    ASSUME FInv, NEW i \in FifoInput, FifoClock(i), Count' > 0
    PROVE  o_data' = fifo'[rd_addr']
<1> USE FifoAssumption
<1>1. ~i.reset
    BY DEF FifoClock, WriteHalf, ReadHalf, Count
<1>2. /\ Count \in 0 .. FLEN - 1
      /\ w_read(i) => Count > 0
      /\ Count' = Count + Bit(w_write(i)) - Bit(w_read(i))
    BY <1>1, ContentsIsASeq, CountMoves DEF FInv
<1>3. /\ rd_addr \in FifoSlots /\ wr_addr \in FifoSlots
      /\ r_next = Wrap(rd_addr + 1)
      /\ will_underflow <=> Count = 0
      /\ Count > 0 => o_data = fifo[rd_addr]
    BY DEF FInv, FifoTypeOK, StatusIsTrue
<1>4. rd_addr' \in FifoSlots /\ Count' \in 1 .. FLEN - 1
    BY TypesKept, CountStays DEF FifoTypeOK
<1>5. /\ Wrap(rd_addr' + 1 - 1) = rd_addr'
      /\ Wrap(rd_addr + 1 - 1) = rd_addr
  <2>1. \A a \in FifoSlots : a + 1 - 1 = a /\ Wrap(a) = a
      BY DEF FifoSlots, Wrap
  <2> QED BY <1>3, <1>4, <2>1
<1>6. fifo'[rd_addr'] = IF 1 + Bit(w_read(i)) <= Count
                        THEN fifo[Wrap(rd_addr + (1 + Bit(w_read(i))) - 1)]
                        ELSE i.data
    BY <1>1, <1>4, <1>5, ItemsMove
<1>7. r_next = wr_addr <=> Count = 1
    BY <1>3 DEF Count, FifoSlots, Wrap
<1>8. CASE Bypassed(i)
  <2>1. o_data' = i.data
      BY <1>1, <1>8 DEF FifoClock, Bypass, o_data
  <2>2. Count = Bit(w_read(i))
      BY <1>2, <1>3, <1>7, <1>8 DEF Bypassed, w_read, Bit
  <2> QED BY <1>2, <1>6, <2>1, <2>2 DEF Bit
<1>9. CASE ~Bypassed(i) /\ w_read(i)
  <2>1. osrc' = FALSE /\ r_data' = fifo[r_next]
      BY <1>9 DEF FifoClock, Bypass, ReadHalf, w_read
  <2>2. o_data' = fifo[r_next]
      BY <2>1 DEF o_data
  <2>3. Count # 1
      BY <1>2, <1>4, <1>7, <1>9 DEF Bypassed, w_write, Bit
  <2>4. rd_addr + (1 + 1) - 1 = rd_addr + 1
      BY <1>3 DEF FifoSlots
  <2> QED BY <1>2, <1>3, <1>6, <1>9, <2>2, <2>3, <2>4 DEF Bit
<1>10. CASE ~Bypassed(i) /\ ~w_read(i)
  <2>1. Count > 0
      BY <1>2, <1>3, <1>4, <1>10 DEF Bypassed, w_write, Bit
  <2>2. ~i.rd
      BY <1>2, <1>3, <1>10, <2>1 DEF w_read
  <2>3. o_data' = o_data
      BY <1>1, <1>10, <2>2 DEF FifoClock, Bypass, ReadHalf, o_data
  <2>4. rd_addr + (1 + 0) - 1 = rd_addr + 1 - 1
      BY <1>3 DEF FifoSlots
  <2> QED BY <1>2, <1>3, <1>5, <1>6, <1>10, <2>1, <2>3, <2>4 DEF Bit
<1> QED BY <1>8, <1>9, <1>10

\* With nothing at the first address the status is that of an empty FIFO
LEMMA FInvInitially == FifoInit => FInv
<1> SUFFICES ASSUME FifoInit PROVE FInv
    OBVIOUS
<1>1. Count = 0
    BY DEF FifoInit, Count
<1>2. FifoTypeOK
  <2>1. 0 \in FifoSlots /\ 1 \in FifoSlots /\ FillOf(0) \in FifoSlots
      BY FifoAssumption DEF FifoSlots, FillOf
  <2> QED BY <2>1 DEF FifoInit, FifoTypeOK
<1> QED BY <1>1, <1>2, FifoAssumption DEF FifoInit, FInv, StatusIsTrue, Wrap

\* The invariant of the FIFO is inductive.
LEMMA FInvKept == FInv /\ [FifoNext]_fifoVars => FInv'
<1>1. ASSUME FInv, NEW i \in FifoInput, FifoClock(i) PROVE FInv'
    BY <1>1, TypesKept, StatusKept, ReadsAhead, OldestIsShown DEF FInv
<1>2. ASSUME FInv, UNCHANGED fifoVars PROVE FInv'
    BY <1>2 DEF FInv, FifoTypeOK, StatusIsTrue, Count, o_data, fifoVars
<1> QED BY <1>1, <1>2 DEF FifoNext

(* Whatever is written, read and reset, in whatever clocks, the registers  *)
(* keep their types.                                                       *)
THEOREM FifoTypeCorrect == FifoSpec => []FifoTypeOK
<1>1. FInv => FifoTypeOK
    BY DEF FInv
<1> QED BY FInvInitially, FInvKept, <1>1, PTL DEF FifoSpec

\* ContentsIsASeq, for the places where FifoTypeOK is a hypothesis of the goal.
LEMMA ContentsFacts ==
    FifoTypeOK => /\ Count \in 0 .. FLEN - 1
                  /\ Contents \in Seq(Chars) /\ Len(Contents) = Count
                  /\ \A k \in 1 .. Count : Contents[k] = fifo[Wrap(rd_addr + k - 1)]
BY ContentsIsASeq

\* A clock is a step of the queue: nothing, a reset, or the item read goes and
\* the one written comes
LEMMA ClockIsAQueueStep ==
    ASSUME FInv, NEW i \in FifoInput, FifoClock(i)
    PROVE  Queue!Idle \/ Queue!Reset \/ Queue!Take
           \/ \E d \in Chars : Queue!Put(d) \/ Queue!PutAndTake(d)
<1> USE FifoAssumption
<1>1. /\ Count \in 0 .. FLEN - 1 /\ Contents \in Seq(Chars) /\ Len(Contents) = Count
      /\ \A k \in 1 .. Count : Contents[k] = fifo[Wrap(rd_addr + k - 1)]
    BY ContentsIsASeq DEF FInv
<1>2. FifoTypeOK' /\ i.data \in Chars
    BY TypesKept DEF FifoInput
<1>4. /\ Count' \in 0 .. FLEN - 1 /\ Contents' \in Seq(Chars) /\ Len(Contents') = Count'
      /\ \A k \in 1 .. Count' : Contents'[k] = fifo'[Wrap(rd_addr' + k - 1)]
  <2>1. (FifoTypeOK => /\ Count \in 0 .. FLEN - 1
                       /\ Contents \in Seq(Chars) /\ Len(Contents) = Count
                       /\ \A k \in 1 .. Count : Contents[k] = fifo[Wrap(rd_addr + k - 1)])'
      BY ContentsFacts, PTL
  <2> QED BY <1>2, <2>1
<1>3. CASE i.reset
  <2>1. Count' = 0
      BY <1>3 DEF FifoClock, WriteHalf, ReadHalf, Count
  <2> QED BY <1>4, <2>1, EmptySeq DEF Queue!Reset
<1>5. CASE ~i.reset
  <2>1. /\ w_read(i) => Count > 0
        /\ w_write(i) => Count < FLEN - 1 \/ w_read(i)
        /\ Count' = Count + Bit(w_write(i)) - Bit(w_read(i))
      BY <1>5, CountMoves
  <2>2. \A k \in 1 .. Count' :
            Contents'[k] = IF k + Bit(w_read(i)) <= Count
                           THEN Contents[k + Bit(w_read(i))] ELSE i.data
    <3> TAKE k \in 1 .. Count'
    <3>1. Contents'[k] = IF k + Bit(w_read(i)) <= Count
                         THEN fifo[Wrap(rd_addr + (k + Bit(w_read(i))) - 1)] ELSE i.data
        BY <1>4, <1>5, ItemsMove
    <3>2. k + Bit(w_read(i)) <= Count => k + Bit(w_read(i)) \in 1 .. Count
        BY <1>1, <1>4 DEF Bit
    <3> QED BY <1>1, <3>1, <3>2
  <2>3. CASE ~w_read(i) /\ ~w_write(i)
    <3>1. Count' = Count /\ \A k \in 1 .. Count' : Contents'[k] = Contents[k]
        BY <1>1, <2>1, <2>2, <2>3 DEF Bit
    <3>2. Contents' = Contents
        BY <1>1, <1>4, <3>1, SeqEqual
    <3> QED BY <3>2 DEF Queue!Idle
  <2>4. CASE ~w_read(i) /\ w_write(i)
    <3> DEFINE new == Append(Contents, i.data)
    <3>1. /\ new \in Seq(Chars) /\ Len(new) = Count + 1
          /\ \A k \in 1 .. Count : new[k] = Contents[k]
          /\ new[Count + 1] = i.data
        BY <1>1, <1>2, AppendProperties
    <3> HIDE DEF new
    <3>2. Count' = Count + 1 /\ \A k \in 1 .. Count' : Contents'[k] = new[k]
        BY <1>1, <2>1, <2>2, <2>4, <3>1 DEF Bit
    <3>3. Contents' = new
        BY <1>4, <3>1, <3>2, SeqEqual
    <3>4. Queue!Put(i.data)
        BY <1>1, <2>1, <2>4, <3>3 DEF Queue!Put, new
    <3> QED BY <1>2, <3>4
  <2>5. CASE w_read(i)
    <3> DEFINE rest == Tail(Contents)
    <3>1. Contents # <<>>
        BY <1>1, <2>1, <2>5, EmptySeq
    <3>2. /\ rest \in Seq(Chars) /\ Len(rest) = Count - 1
          /\ \A k \in 1 .. Count - 1 : rest[k] = Contents[k + 1]
        BY <1>1, <3>1, HeadTailProperties
    <3> HIDE DEF rest
    <3>3. CASE ~w_write(i)
      <4>1. Count' = Count - 1 /\ \A k \in 1 .. Count' : Contents'[k] = rest[k]
          BY <1>1, <2>1, <2>2, <2>5, <3>2, <3>3 DEF Bit
      <4>2. Contents' = rest
          BY <1>4, <3>2, <4>1, SeqEqual
      <4> QED BY <3>1, <4>2 DEF Queue!Take, rest
    <3>4. CASE w_write(i)
      <4> DEFINE new == Append(rest, i.data)
      <4>1. /\ new \in Seq(Chars) /\ Len(new) = Count
            /\ \A k \in 1 .. Count - 1 : new[k] = rest[k]
            /\ new[Count] = i.data
          BY <1>1, <1>2, <3>2, AppendProperties
      <4> HIDE DEF new
      <4>2. Count' = Count /\ \A k \in 1 .. Count' : Contents'[k] = new[k]
        <5>1. Count' = Count /\ Count \in Nat
            BY <1>1, <2>1, <2>5, <3>4, FifoAssumption DEF Bit
        <5>2. \A k \in 1 .. Count : Contents'[k] = IF k < Count THEN Contents[k + 1]
                                                   ELSE i.data
            BY <2>2, <2>5, <5>1 DEF Bit
        <5> QED BY <3>2, <4>1, <5>1, <5>2
      <4>3. Contents' = new
          BY <1>4, <4>1, <4>2, SeqEqual
      <4>4. Queue!PutAndTake(i.data)
          BY <3>1, <4>3 DEF Queue!PutAndTake, new, rest
      <4> QED BY <1>2, <4>4
    <3> QED BY <3>3, <3>4
  <2> QED BY <2>3, <2>4, <2>5
<1> QED BY <1>3, <1>5

\* The queue's head is at the output
LEMMA HeadIsShown == FInv => (Contents # <<>> => o_data = Head(Contents))
<1> SUFFICES ASSUME FInv, Contents # <<>> PROVE o_data = Head(Contents)
    OBVIOUS
<1>1. /\ Count \in Nat /\ Contents \in Seq(Chars) /\ Len(Contents) = Count
      /\ \A k \in 1 .. Count : Contents[k] = fifo[Wrap(rd_addr + k - 1)]
    BY ContentsIsASeq, FifoAssumption DEF FInv
<1>2. Count > 0 /\ Head(Contents) = Contents[1]
    BY <1>1, HeadTailProperties, EmptySeq
<1>3. Wrap(rd_addr + 1 - 1) = rd_addr
    BY FifoAssumption DEF FInv, FifoTypeOK, FifoSlots, Wrap
<1> QED BY <1>1, <1>2, <1>3 DEF FInv

(* ufifo.v is the queue of FifoQueue, for every length and whatever it is  *)
(* used for: each item comes out once and in order, the oldest is at       *)
(* o_data as soon as there is one, and the status is true.                 *)
THEOREM FifoImplementsQueue == FifoSpec => FifoIsAQueue
<1>1. FifoInit => Queue!QueueInit
  <2>1. FifoInit => Count = 0
      BY DEF FifoInit, Count
  <2> QED BY <2>1, FInvInitially, ContentsIsASeq, EmptySeq DEF FInv, Queue!QueueInit
<1>2. FInv /\ (Contents # <<>> => o_data = Head(Contents))' /\ [FifoNext]_fifoVars
          => [Queue!QueueStep]_<<Contents, o_data>>
  <2>1. ASSUME FInv, (Contents # <<>> => o_data = Head(Contents))',
               NEW i \in FifoInput, FifoClock(i)
        PROVE  Queue!QueueStep
      BY <2>1, ClockIsAQueueStep DEF Queue!QueueStep
  <2>2. ASSUME UNCHANGED fifoVars PROVE UNCHANGED <<Contents, o_data>>
      BY <2>2 DEF fifoVars, Contents, Count, o_data
  <2> QED BY <2>1, <2>2 DEF FifoNext
<1>3. FInv => FifoTypeOK /\ StatusIsTrue
    BY DEF FInv
<1> QED BY <1>1, <1>2, <1>3, FInvInitially, FInvKept, HeadIsShown, PTL
        DEF FifoSpec, FifoIsAQueue, Queue!QueueSpec

-----------------------------------------------------------------------------
LD   == Letters \cup Digits
LDT  == LD \cup {"T"}
Rsp  == Words \cup {RSP_RESET}
Out  == LDT \cup {"I", "Z"}

\* A register may only hold a character or a word that is due, or one that is not.
Char(stb, c) == IF stb /\ c \in LDT THEN <<c>> ELSE <<>>
Word(stb, w) == IF stb /\ w \in Rsp THEN w ELSE <<>>

PsDue  == Char(ps_full /\ ps_data[1] = "bus", ps_data[2])
NlDue  == Char(o_nl_stb, o_nl_byte)
GxDue  == Char(o_gx_stb, o_gx_char)
DwDue  == Char(o_dw_stb, o_dw_bits) \o r_word
IdlDue == Word(o_idl_stb, o_idl_word)
IntDue == Word(o_int_stb, o_int_word)
RspDue == Word(o_rsp_stb, o_rsp_word)
AllDue == PsDue \o (NlDue \o (GxDue \o (DwDue \o (IdlDue \o (IntDue \o RspDue)))))

Flags ==
    /\ o_rsp_stb \in BOOLEAN /\ w_reset \in BOOLEAN /\ i_interrupt \in BOOLEAN
    /\ int_state \in BOOLEAN /\ pending_interrupt \in BOOLEAN
    /\ int_full \in BOOLEAN /\ o_int_stb \in BOOLEAN /\ int_loaded \in BOOLEAN
    /\ idle_stb \in BOOLEAN /\ o_idl_stb \in BOOLEAN /\ o_dw_stb \in BOOLEAN /\ o_gx_stb \in BOOLEAN
    /\ last_cr \in BOOLEAN /\ cr_state \in BOOLEAN /\ o_nl_stb \in BOOLEAN /\ nl_loaded \in BOOLEAN
    /\ ps_full \in BOOLEAN /\ i_console_stb \in BOOLEAN /\ i_console_data \in ConsoleChars

\* What each stage can hold.
IntHolds ==
    /\ ~o_int_stb => ~int_full
    /\ int_full => o_int_word \in Rsp /\ ~int_loaded
    /\ o_int_stb /\ ~int_full => o_int_word = INT_WORD /\ int_loaded /\ pending_interrupt
DwHolds ==
    /\ r_word \in Seq(Digits)
    /\ ~o_dw_stb => r_word = <<>>
    /\ o_dw_stb => o_dw_bits \in Out
    /\ o_dw_bits \notin LD => r_word = <<>>
GxHolds == o_gx_stb => o_gx_char \in Out
NlHolds ==
    \/ ~o_nl_stb /\ last_cr /\ ~cr_state /\ o_nl_byte = Filler
    \/ o_nl_stb /\ nl_loaded /\ ~last_cr /\ ~cr_state /\ o_nl_byte \in Out
    \/ o_nl_stb /\ ~nl_loaded /\ last_cr /\ cr_state /\ o_nl_byte = CR
    \/ o_nl_stb /\ nl_loaded /\ last_cr /\ ~cr_state /\ o_nl_byte = LF
PsHolds == ps_full => \/ ps_data[1] = "bus" /\ ps_data[2] \in Out \cup {CR, LF}
                      \/ ps_data[1] = "console"

\* The digits of a word follow each other without a gap.
NoGap ==
    /\ o_nl_stb /\ o_nl_byte \in Digits => ps_full /\ ps_data[1] = "bus" /\ ps_data[2] \in LD
    /\ o_gx_stb /\ o_gx_char \in Digits => o_nl_stb /\ o_nl_byte \in LD
    /\ o_dw_stb /\ o_dw_bits \in Digits => o_gx_stb /\ o_gx_char \in LD

\* The answer to a reset goes through an empty path.
TAlone ==
    /\ o_rsp_stb /\ o_rsp_word = RSP_RESET =>
         ~o_int_stb /\ ~pending_interrupt /\ ~idle_stb /\ ~o_idl_stb /\ ~o_dw_stb /\ ~o_gx_stb /\ ~o_nl_stb
    /\ o_int_stb /\ o_int_word = RSP_RESET =>
         gap > 0 /\ ~o_rsp_stb /\ ~idle_stb /\ ~o_idl_stb /\ ~o_dw_stb /\ ~o_gx_stb /\ ~o_nl_stb
    /\ o_idl_stb /\ o_idl_word = RSP_RESET =>
         ~o_rsp_stb /\ ~int_full /\ ~o_dw_stb /\ ~o_gx_stb /\ ~o_nl_stb
    /\ o_dw_stb /\ o_dw_bits = "T" => ~int_full /\ ~o_gx_stb /\ ~o_nl_stb
    /\ o_gx_stb /\ o_gx_char = "T" => ~o_nl_stb

\* An idle report finds the path empty.
ZAlone ==
    /\ idle_stb \/ (o_idl_stb /\ o_idl_word = IDLE_WORD) => ~o_dw_stb /\ ~o_gx_stb
    /\ o_dw_stb /\ o_dw_bits = "Z" => ~o_gx_stb

IdlI == o_idl_stb /\ o_idl_word = INT_WORD
DwI  == o_dw_stb /\ o_dw_bits = "I"
\* One interrupt is reported at a time.
OneI ==
    /\ ~(IdlI /\ DwI)
    /\ pending_interrupt => ~IdlI /\ ~DwI
    /\ i_interrupt /\ ~int_state => ~pending_interrupt /\ ~IdlI /\ ~DwI

\* The reports in front of a response clear the way before the next one.
GapHolds ==
    /\ gap \in 0 .. MinGap
    /\ o_rsp_stb => gap = MinGap
    /\ int_full /\ IdlI /\ o_dw_stb /\ o_dw_bits = "Z" => gap > 0

\* What comes after a carriage return.
TComes == \/ o_gx_stb /\ o_gx_char = "T"
          \/ o_dw_stb /\ o_dw_bits = "T"
          \/ o_idl_stb /\ o_idl_word = RSP_RESET
          \/ o_int_stb /\ o_int_word = RSP_RESET
          \/ o_rsp_stb /\ o_rsp_word = RSP_RESET
LineGoesOn == IF o_nl_stb THEN o_nl_byte \in {LF, "T"} ELSE TComes
LineEnds ==
    /\ ps_full /\ ps_data = <<"bus", CR>> => LineGoesOn
    /\ last_out = CR => IF ps_full /\ ps_data[1] = "bus" THEN ps_data[2] \in {LF, "T", CR} ELSE LineGoesOn

HistoryIsTrue ==
    /\ expect = AllDue
    /\ con_expect = IF ps_full /\ ps_data[1] = "console" THEN <<ps_data[2]>> ELSE <<>>
    /\ ~garbled

HcIInv == /\ TypeOK /\ Flags /\ IntHolds /\ DwHolds /\ GxHolds /\ NlHolds /\ PsHolds
          /\ NoGap /\ TAlone /\ ZAlone /\ OneI /\ GapHolds /\ NoOverrun /\ LineEnds /\ HistoryIsTrue

-----------------------------------------------------------------------------
\* The letters, the digits, the marks of the reports and the ends of a line are different
\* characters, and no report is a response.
LEMMA Distinct ==
    /\ {"I", "Z", CR, LF} \cap LDT = {} /\ "T" \notin LD /\ Letters \cap Digits = {}
    /\ INT_WORD \notin Rsp /\ IDLE_WORD \notin Rsp /\ RSP_RESET \notin Words
<1>1. Letters \cap Digits = {} /\ (Letters \cup Digits) \cap {"T", "I", "Z", "cr", "lf"} = {}
  BY HbConsoleAssumption
<1>2. \A w \in Words : w[1] \in Letters
  BY DEF Letters
<1>3. {"I", "Z", CR, LF} \cap LDT = {} /\ "T" \notin LD
  BY <1>1 DEF LDT, LD, CR, LF
<1>4. INT_WORD[1] = "I" /\ IDLE_WORD[1] = "Z" /\ RSP_RESET[1] = "T"
  BY DEF INT_WORD, IDLE_WORD, RSP_RESET
<1>5. INT_WORD \notin Words /\ IDLE_WORD \notin Words /\ RSP_RESET \notin Words
  BY <1>1, <1>2, <1>4
<1>. QED  BY <1>1, <1>3, <1>4, <1>5 DEF Rsp

\* A response is a letter and its digits.
Response(w) == /\ w \in Seq(LDT) /\ w # <<>> /\ Head(w) \in Letters \cup {"T"}
               /\ Tail(w) \in Seq(Digits) /\ w = <<Head(w)>> \o Tail(w)
               /\ Head(w) = "T" => w = RSP_RESET

\* Every response is a letter and its digits, or the T of a reset.
LEMMA Responses == \A w \in Rsp : Response(w)
<1>. SUFFICES ASSUME NEW w \in Rsp PROVE Response(w)
  OBVIOUS
<1>1. CASE w \in Words
  <2>1. w \in Seq(STRING) /\ w # <<>>
    BY <1>1, HbConsoleAssumption
  <2>2. Head(w) = w[1] /\ Tail(w) \in Seq(STRING) /\ Len(w) \in Nat /\ Len(w) >= 1
        /\ Len(Tail(w)) = Len(w) - 1 /\ \A i \in 1 .. Len(w) - 1 : Tail(w)[i] = w[i + 1]
    BY <2>1, HeadTailProperties
  <2>3. w[1] \in Letters
    BY <1>1 DEF Letters
  <2>. DEFINE t == Tail(w)
              n == Len(w) - 1
  <2>4. \A i \in 1 .. n : t[i] \in Digits
    <3>1. ToSet(t) \subseteq Digits
      BY <1>1 DEF Digits
    <3>2. DOMAIN t = 1 .. n
      BY <2>2
    <3>. QED  BY <3>1, <3>2 DEF ToSet
  <2>5. Tail(w) \in Seq(Digits)
    <3>0. t \in Seq(STRING) /\ Len(t) = n
      BY <2>2
    <3>2. n \in Nat
      BY <2>2
    <3>. HIDE DEF t, n
    <3>1. t = [i \in 1 .. n |-> t[i]]
      BY <3>0
    <3>3. t \in [1 .. n -> Digits]
      BY <2>4, <3>1
    <3>4. t \in Seq(Digits)
      BY <3>2, <3>3
    <3>. QED  BY <3>4 DEF t
  <2>6. \A i \in 1 .. Len(w) : w[i] \in LDT
    <3>. SUFFICES ASSUME NEW i \in 1 .. Len(w) PROVE w[i] \in LDT
      OBVIOUS
    <3>1. CASE i = 1
      BY <2>3, <3>1 DEF LDT, LD
    <3>2. CASE i # 1
      <4>1. i - 1 \in 1 .. Len(w) - 1 /\ (i - 1) + 1 = i
        BY <2>2, <3>2
      <4>. QED  BY <2>2, <2>4, <4>1 DEF LDT, LD
    <3>. QED  BY <3>1, <3>2
  <2>7. w \in Seq(LDT)
    BY <2>1, <2>6
  <2>8. w = <<Head(w)>> \o Tail(w)
    BY <2>1, HeadTailProperties
  <2>9. Head(w) # "T"
    BY <2>2, <2>3, Distinct DEF LD
  <2>. QED  BY <2>1, <2>2, <2>3, <2>5, <2>7, <2>8, <2>9 DEF Response
<1>2. CASE w = RSP_RESET
  <2>1. w = <<"T">> /\ Head(w) = "T" /\ Tail(w) = <<>> /\ "T" \in LDT
    BY <1>2 DEF RSP_RESET, LDT
  <2>. QED  BY <1>2, <2>1 DEF Response
<1>. QED  BY <1>1, <1>2 DEF Rsp

\* The part y stays behind in the stage a; a2 is what the stage holds a clock later.
Passes(a, out, a2, in) == \E y \in Seq(LDT) : a = out \o y /\ a2 = y \o in

\* A stage that either gives all it has and takes what comes, or keeps it and takes nothing,
\* passes on in order.
LEMMA AllOrNothing ==
    ASSUME NEW a \in Seq(LDT), NEW out \in Seq(LDT), NEW a2 \in Seq(LDT), NEW in \in Seq(LDT),
           (out = a /\ a2 = in) \/ (out = <<>> /\ a2 = a /\ in = <<>>)
    PROVE  Passes(a, out, a2, in)
<1>1. CASE out = a /\ a2 = in
  <2>1. a = out \o <<>> /\ a2 = <<>> \o in /\ <<>> \in Seq(LDT)
    BY <1>1, ConcatEmptySeq
  <2>. QED  BY <2>1 DEF Passes
<1>2. CASE out = <<>> /\ a2 = a /\ in = <<>>
  <2>1. a = out \o a /\ a2 = a \o in
    BY <1>2, ConcatEmptySeq
  <2>. QED  BY <2>1 DEF Passes
<1>. QED  BY <1>1, <1>2

Associates(a, b, c) == (a \o b) \o c = a \o (b \o c) /\ a \o b \in Seq(LDT)
\* Concatenation is associative; Z3 needs it as a fact for each three sequences.
LEMMA Associate == \A a, b, c \in Seq(LDT) : Associates(a, b, c)
BY ConcatAssociative, ConcatProperties DEF Associates

\* What goes through one stage goes through it and all behind it, r coming in at the end.
Flows(t, r, out, t2) == t \o r = out \o t2 /\ t \in Seq(LDT) /\ t2 \in Seq(LDT)

\* A stage that passes on in order, in front of stages among which everything flows, makes one
\* more of them.
LEMMA PassesOn ==
    ASSUME NEW a \in Seq(LDT), NEW out \in Seq(LDT), NEW a2 \in Seq(LDT), NEW in \in Seq(LDT),
           NEW t, NEW t2, NEW r \in Seq(LDT), Passes(a, out, a2, in), Flows(t, r, in, t2)
    PROVE  Flows(a \o t, r, out, a2 \o t2)
<1>1. PICK y \in Seq(LDT) : a = out \o y /\ a2 = y \o in
  BY DEF Passes
<1>2. t \o r = in \o t2 /\ t \in Seq(LDT) /\ t2 \in Seq(LDT)
  BY DEF Flows
<1>3. Associates(a, t, r) /\ Associates(in, t2, t2) /\ Associates(a2, t2, t2) /\ Associates(y, in, t2)
  BY <1>2, Associate
<1>. DEFINE p == in \o t2
<1>4. p \in Seq(LDT) /\ a \o t \in Seq(LDT) /\ a2 \o t2 \in Seq(LDT)
  BY <1>3 DEF Associates
<1>5. t \o r = p /\ (y \o in) \o t2 = y \o p /\ (a \o t) \o r = a \o (t \o r)
  BY <1>2, <1>3 DEF Associates
<1>. HIDE DEF p
<1>6. Associates(out, y, p)
  BY <1>4, Associate
<1>7. (out \o y) \o p = out \o (y \o p)
  BY <1>6 DEF Associates
<1>8. (a \o t) \o r = out \o (a2 \o t2)
  BY <1>1, <1>5, <1>7
<1>. QED  BY <1>4, <1>8 DEF Flows

\* What leaves each stage in this clock.
PsOut(b) == IF ps_full /\ ~b THEN PsDue ELSE <<>>
NlOut(b) == IF tx_busy(b) THEN <<>> ELSE NlDue
GxOut(b) == IF nl_busy(b) THEN <<>> ELSE GxDue
DwOut(b) == IF gx_busy(b) THEN <<>> ELSE Char(o_dw_stb, o_dw_bits)
IdlOut   == IF dw_busy THEN <<>> ELSE IdlDue
IntOut   == IF idl_busy THEN <<>> ELSE IntDue

\* What a character register holds that is due is a sequence of characters of responses.
LEMMA CharFacts ==
    \A stb \in BOOLEAN : \A c : Char(stb, c) \in Seq(LDT)
BY DEF Char

\* What a word register holds that is due is a sequence of characters of responses.
LEMMA WordType == \A stb, w : Word(stb, w) \in Seq(LDT)
<1>. SUFFICES ASSUME NEW stb, NEW w PROVE Word(stb, w) \in Seq(LDT)
  OBVIOUS
<1>1. CASE stb /\ w \in Rsp
  <2>1. Response(w)
    BY <1>1, Responses
  <2>. QED  BY <1>1, <2>1 DEF Word, Response
<1>2. CASE ~(stb /\ w \in Rsp)
  BY <1>2 DEF Word
<1>. QED  BY <1>1, <1>2

\* What each stage holds that is due is a sequence of characters of responses.
LEMMA DueTypes ==
    ASSUME Flags, DwHolds
    PROVE  /\ PsDue \in Seq(LDT) /\ NlDue \in Seq(LDT) /\ GxDue \in Seq(LDT) /\ DwDue \in Seq(LDT)
           /\ IdlDue \in Seq(LDT) /\ IntDue \in Seq(LDT) /\ RspDue \in Seq(LDT)
<1>1. PsDue \in Seq(LDT) /\ NlDue \in Seq(LDT) /\ GxDue \in Seq(LDT)
  BY CharFacts DEF Flags, PsDue, NlDue, GxDue
<1>2. IdlDue \in Seq(LDT) /\ IntDue \in Seq(LDT) /\ RspDue \in Seq(LDT)
  <2>1. Word(o_idl_stb, o_idl_word) \in Seq(LDT) /\ Word(o_int_stb, o_int_word) \in Seq(LDT)
        /\ Word(o_rsp_stb, o_rsp_word) \in Seq(LDT)
    BY WordType
  <2>. QED  BY <2>1 DEF IdlDue, IntDue, RspDue
<1>3. Char(o_dw_stb, o_dw_bits) \in Seq(LDT) /\ r_word \in Seq(LDT)
  <2>1. Char(o_dw_stb, o_dw_bits) \in Seq(LDT)
    BY CharFacts DEF Flags
  <2>2. Digits \subseteq LDT
    BY DEF LDT, LD
  <2>3. r_word \in Seq(LDT)
    BY <2>2 DEF DwHolds
  <2>. QED  BY <2>1, <2>3
<1>. DEFINE x == Char(o_dw_stb, o_dw_bits)
<1>. HIDE DEF x
<1>4. Associates(x, r_word, r_word)
  BY <1>3, Associate DEF x
<1>5. DwDue \in Seq(LDT)
  BY <1>4 DEF Associates, DwDue, x
<1>. QED  BY <1>1, <1>2, <1>5

\* What all the stages hold that is due is one as well.
LEMMA AllType ==
    ASSUME Flags, DwHolds
    PROVE  AllDue \in Seq(LDT)
<1>1. /\ PsDue \in Seq(LDT) /\ NlDue \in Seq(LDT) /\ GxDue \in Seq(LDT) /\ DwDue \in Seq(LDT)
      /\ IdlDue \in Seq(LDT) /\ IntDue \in Seq(LDT) /\ RspDue \in Seq(LDT)
  BY DueTypes
<1>2. \A x, y \in Seq(LDT) : x \o y \in Seq(LDT)
  BY Associate DEF Associates
<1>. QED  BY <1>1, <1>2, Zenon DEF AllDue

\* So is what each stage gives to the next in a clock.
LEMMA OutTypes ==
    ASSUME Flags, DwHolds, NEW b \in BOOLEAN
    PROVE  /\ PsOut(b) \in Seq(LDT) /\ NlOut(b) \in Seq(LDT) /\ GxOut(b) \in Seq(LDT) /\ DwOut(b) \in Seq(LDT)
           /\ IdlOut \in Seq(LDT) /\ IntOut \in Seq(LDT)
<1>1. Char(o_dw_stb, o_dw_bits) \in Seq(LDT) /\ <<>> \in Seq(LDT)
  BY CharFacts DEF Flags
<1>. QED  BY <1>1, DueTypes DEF PsOut, NlOut, GxOut, DwOut, IdlOut, IntOut

\* The arbiter's register.
LEMMA PsFlow ==
    ASSUME HcIInv, NEW b \in BOOLEAN, Arbiter(b)
    PROVE  (PsOut(b) = PsDue /\ PsDue' = NlOut(b)) \/ (PsOut(b) = <<>> /\ PsDue' = PsDue /\ NlOut(b) = <<>>)
<1>. USE DEF HcIInv, Flags
<1>1. CASE tx_busy(b)
  BY <1>1 DEF Arbiter, arbiter, tx_busy, PsOut, NlOut, PsDue
<1>2. CASE ~tx_busy(b)
  <2>1. PsOut(b) = PsDue
    BY <1>2 DEF tx_busy, PsOut, PsDue, Char
  <2>2. CASE o_nl_stb
    <3>1. ps_full' = TRUE /\ ps_data' = <<"bus", o_nl_byte>>
      BY <1>2, <2>2 DEF Arbiter, tx_busy
    <3>2. ps_data'[1] = "bus" /\ ps_data'[2] = o_nl_byte
      BY <3>1
    <3>3. PsDue' = NlDue
      BY <2>2, <3>1, <3>2 DEF PsDue, NlDue, Char
    <3>. QED  BY <1>2, <2>1, <3>3 DEF NlOut
  <2>3. CASE ~o_nl_stb
    <3>1. ~(ps_full' /\ ps_data'[1] = "bus")
      BY <1>2, <2>3 DEF Arbiter, tx_busy
    <3>2. PsDue' = <<>> /\ NlDue = <<>>
      BY <2>3, <3>1 DEF PsDue, NlDue, Char
    <3>. QED  BY <1>2, <2>1, <3>2 DEF NlOut
  <2>. QED  BY <2>2, <2>3
<1>. QED  BY <1>1, <1>2

\* hbnewline takes the character of hbgenhex when it gives its own, and keeps it otherwise.
LEMMA NlFlow ==
    ASSUME HcIInv, NEW b \in BOOLEAN, HbNewline(b), ~w_reset
    PROVE  (NlOut(b) = NlDue /\ NlDue' = GxOut(b)) \/ (NlOut(b) = <<>> /\ NlDue' = NlDue /\ GxOut(b) = <<>>)
<1>. USE DEF HcIInv, Flags
<1>1. CR \notin LDT /\ LF \notin LDT
  BY Distinct
<1>2. CASE o_gx_stb /\ ~nl_busy(b)
  <2>1. NlDue' = GxDue
    BY <1>2 DEF HbNewline, NlDue, GxDue, Char
  <2>2. NlOut(b) = NlDue
    BY <1>1, <1>2 DEF nl_busy, NlOut, NlDue, NlHolds, Char
  <2>. QED  BY <1>2, <2>1, <2>2 DEF GxOut
<1>3. CASE ~(o_gx_stb /\ ~nl_busy(b)) /\ ~tx_busy(b)
  <2>1. NlDue' = <<>>
    BY <1>1, <1>3 DEF HbNewline, NlDue, Char
  <2>2. GxOut(b) = <<>>
    BY <1>3 DEF GxOut, GxDue, Char
  <2>. QED  BY <1>3, <2>1, <2>2 DEF NlOut
<1>4. CASE ~(o_gx_stb /\ ~nl_busy(b)) /\ tx_busy(b)
  <2>1. NlDue' = NlDue
    BY <1>4 DEF HbNewline, NlDue, newline
  <2>2. GxOut(b) = <<>>
    BY <1>4 DEF GxOut, GxDue, Char
  <2>. QED  BY <1>4, <2>1, <2>2 DEF NlOut
<1>. QED  BY <1>2, <1>3, <1>4

\* hbgenhex takes the character of hbdeword when it gives its own, and keeps it otherwise.
LEMMA GxFlow ==
    ASSUME HcIInv, NEW b \in BOOLEAN, HbGenhex(b), ~w_reset
    PROVE  (GxOut(b) = GxDue /\ GxDue' = DwOut(b)) \/ (GxOut(b) = <<>> /\ GxDue' = GxDue /\ DwOut(b) = <<>>)
<1>. USE DEF HcIInv, Flags
<1>1. CASE gx_busy(b)
  BY <1>1 DEF HbGenhex, gx_busy, GxOut, DwOut, GxDue
<1>2. CASE ~gx_busy(b)
  <2>1. GxOut(b) = GxDue
    BY <1>2 DEF gx_busy, GxOut, GxDue, Char
  <2>2. GxDue' = Char(o_dw_stb, o_dw_bits)
    BY <1>2 DEF HbGenhex, GxDue
  <2>. QED  BY <1>2, <2>1, <2>2 DEF DwOut
<1>. QED  BY <1>1, <1>2

\* hbdeword gives the letter of its word, then the digits one by one, and takes a word when it
\* has none.
LEMMA DwFlow ==
    ASSUME HcIInv, NEW b \in BOOLEAN, HbDeword(b), ~w_reset
    PROVE  Passes(DwDue, DwOut(b), DwDue', IdlOut)
<1>. DEFINE c == Char(o_dw_stb, o_dw_bits)
<1>1. Flags /\ DwHolds /\ TypeOK
  BY DEF HcIInv
<1>2. /\ c \in Seq(LDT) /\ r_word \in Seq(LDT) /\ r_word \in Seq(Digits) /\ DwDue = c \o r_word
      /\ o_dw_stb \in BOOLEAN /\ o_idl_stb \in BOOLEAN
  <2>1. c \in Seq(LDT)
    BY <1>1, CharFacts DEF Flags
  <2>2. r_word \in Seq(Digits) /\ Digits \subseteq LDT
    BY <1>1 DEF DwHolds, LDT, LD
  <2>3. r_word \in Seq(LDT)
    BY <2>2
  <2>. QED  BY <1>1, <2>1, <2>2, <2>3 DEF DwDue, Flags
<1>3. ~o_dw_stb => c = <<>> /\ r_word = <<>> /\ DwDue = <<>>
  <2>. SUFFICES ASSUME ~o_dw_stb PROVE c = <<>> /\ r_word = <<>> /\ DwDue = <<>>
    OBVIOUS
  <2>1. c = <<>> /\ r_word = <<>>
    BY <1>1 DEF DwHolds, Char
  <2>2. c \o r_word = <<>>
    BY <2>1
  <2>. QED  BY <1>2, <2>1, <2>2
<1>4. DwDue \in Seq(LDT) /\ <<>> \in Seq(LDT) /\ IdlDue \in Seq(LDT)
  BY <1>1, DueTypes
<1>. HIDE DEF c
<1>5. CASE o_idl_stb /\ ~dw_busy
  <2>. DEFINE w == o_idl_word
  <2>1. ~o_dw_stb /\ o_dw_stb' = TRUE /\ o_dw_bits' = Head(w) /\ r_word' = Tail(w) /\ IdlOut = Word(TRUE, w)
    BY <1>2, <1>5 DEF HbDeword, dw_busy, IdlOut, IdlDue
  <2>2. w \in Rsp \/ w = INT_WORD \/ w = IDLE_WORD
    BY <1>1 DEF TypeOK, Rsp
  <2>3. DwDue' = Char(TRUE, Head(w)) \o Tail(w)
    BY <2>1 DEF DwDue
  <2>4. DwDue' = IdlOut
    <3>1. CASE w \in Rsp
      <4>1. Response(w)
        BY <3>1, Responses
      <4>2. Char(TRUE, Head(w)) = <<Head(w)>> /\ IdlOut = w
        BY <2>1, <3>1, <4>1 DEF Char, Word, Response, LDT, LD
      <4>. QED  BY <2>3, <4>1, <4>2 DEF Response
    <3>2. CASE w = INT_WORD \/ w = IDLE_WORD
      <4>1. Tail(w) = <<>> /\ Head(w) \in {"I", "Z"}
        <5>1. ASSUME NEW x, w = <<x>> PROVE Tail(w) = <<>> /\ Head(w) = x
          BY <5>1
        <5>2. CASE w = INT_WORD
          BY <5>1, <5>2 DEF INT_WORD
        <5>3. CASE w = IDLE_WORD
          BY <5>1, <5>3 DEF IDLE_WORD
        <5>. QED  BY <3>2, <5>2, <5>3
      <4>2. Char(TRUE, Head(w)) = <<>> /\ IdlOut = <<>>
        BY <2>1, <3>2, <4>1, Distinct DEF Char, Word
      <4>3. <<>> \o <<>> = <<>>
        OBVIOUS
      <4>. QED  BY <2>3, <4>1, <4>2, <4>3
    <3>. QED  BY <2>2, <3>1, <3>2
  <2>5. DwOut(b) = <<>> /\ DwDue = <<>>
    BY <1>3, <2>1 DEF DwOut, c
  <2>6. IdlOut \in Seq(LDT)
    BY <1>4, <1>5 DEF IdlOut
  <2>7. /\ DwOut(b) \in Seq(LDT) /\ DwDue' \in Seq(LDT)
        /\ (DwOut(b) = DwDue /\ DwDue' = IdlOut) \/ (DwOut(b) = <<>> /\ DwDue' = DwDue /\ IdlOut = <<>>)
    BY <1>4, <2>4, <2>5, <2>6
  <2>. QED  BY <1>4, <2>6, <2>7, AllOrNothing
<1>6. CASE ~(o_idl_stb /\ ~dw_busy) /\ ~gx_busy(b)
  <2>1. IdlOut = <<>>
    BY <1>1, <1>6 DEF IdlOut, IdlDue, Word
  <2>2. o_dw_stb' = (r_word # <<>>) /\ o_dw_bits' = (IF r_word = <<>> THEN "0" ELSE Head(r_word))
        /\ r_word' = IF r_word = <<>> THEN <<>> ELSE Tail(r_word)
    BY <1>6 DEF HbDeword
  <2>3. DwOut(b) = c
    BY <1>6 DEF DwOut, c
  <2>4. DwDue' = r_word
    <3>1. CASE r_word = <<>>
      <4>1. Char(o_dw_stb', o_dw_bits') = <<>> /\ r_word' = <<>>
        BY <2>2, <3>1 DEF Char
      <4>2. <<>> \o <<>> = <<>>
        OBVIOUS
      <4>. QED  BY <3>1, <4>1, <4>2 DEF DwDue
    <3>2. CASE r_word # <<>>
      <4>1. Head(r_word) \in Digits /\ r_word = <<Head(r_word)>> \o Tail(r_word)
        BY <1>2, <3>2, HeadTailProperties
      <4>2. Char(o_dw_stb', o_dw_bits') = <<Head(r_word)>> /\ r_word' = Tail(r_word)
        BY <2>2, <3>2, <4>1 DEF Char, LDT, LD
      <4>. QED  BY <4>1, <4>2 DEF DwDue
    <3>. QED  BY <3>1, <3>2
  <2>5. r_word \o <<>> = r_word
    BY <1>2
  <2>. QED  BY <1>2, <2>1, <2>3, <2>4, <2>5 DEF Passes
<1>7. CASE ~(o_idl_stb /\ ~dw_busy) /\ gx_busy(b)
  <2>1. IdlOut = <<>> /\ DwOut(b) = <<>>
    BY <1>1, <1>7 DEF IdlOut, IdlDue, Word, DwOut
  <2>2. DwDue' = DwDue
    BY <1>7 DEF HbDeword, deword, DwDue
  <2>. QED  BY <1>4, <2>1, <2>2, AllOrNothing
<1>. QED  BY <1>5, <1>6, <1>7

\* hbidle takes the word of hbints when it gives its own, and an idle report adds nothing that
\* is due.
LEMMA IdlFlow ==
    ASSUME HcIInv, NEW period \in BOOLEAN, HbIdle(period), ~w_reset
    PROVE  (IdlOut = IdlDue /\ IdlDue' = IntOut) \/ (IdlOut = <<>> /\ IdlDue' = IdlDue /\ IntOut = <<>>)
<1>. USE DEF HcIInv, Flags
<1>1. IDLE_WORD \notin Rsp
  BY Distinct
<1>2. CASE o_int_stb /\ ~idl_busy
  <2>1. o_idl_stb' = TRUE /\ o_idl_word' = o_int_word
    BY <1>2 DEF HbIdle
  <2>2. IdlDue' = IntOut
    BY <1>2, <2>1 DEF IdlDue, IntOut, IntDue, Word
  <2>3. IdlOut = IdlDue
    BY <1>2 DEF IdlOut, IdlDue, idl_busy, Word
  <2>. QED  BY <2>2, <2>3
<1>3. CASE ~o_int_stb /\ ~idl_busy
  <2>1. IntOut = <<>>
    BY <1>3 DEF IntOut, IntDue, Word
  <2>2. IdlOut = IdlDue
    BY <1>3 DEF IdlOut, IdlDue, idl_busy, Word
  <2>3. IdlDue' = <<>>
    <3>1. CASE idle_stb /\ ~o_idl_stb
      <4>1. ~o_dw_stb
        BY <3>1 DEF ZAlone
      <4>2. o_idl_word' = IDLE_WORD
        BY <1>3, <4>1 DEF HbIdle, dw_busy
      <4>. QED  BY <1>1, <4>2 DEF IdlDue, Word
    <3>2. CASE ~(idle_stb /\ ~o_idl_stb)
      <4>1. ~o_idl_stb'
        BY <1>3, <3>2 DEF HbIdle, idl_busy
      <4>. QED  BY <4>1 DEF IdlDue, Word
    <3>. QED  BY <3>1, <3>2
  <2>. QED  BY <2>1, <2>2, <2>3
<1>4. CASE idl_busy
  <2>1. o_idl_stb' = o_idl_stb /\ o_idl_word' = o_idl_word
    BY <1>4 DEF HbIdle, idl_busy
  <2>. QED  BY <1>4, <2>1 DEF IdlOut, IdlDue, IntOut, idl_busy
<1>. QED  BY <1>2, <1>3, <1>4

\* hbints takes the response when it gives its own word, and an interrupt report adds nothing
\* that is due.
LEMMA IntFlow ==
    ASSUME HcIInv, HbInts, ~w_reset
    PROVE  (IntOut = IntDue /\ IntDue' = RspDue) \/ (IntOut = <<>> /\ IntDue' = IntDue /\ RspDue = <<>>)
<1>. USE DEF HcIInv, Flags
<1>1. INT_WORD \notin Rsp
  BY Distinct
<1>2. CASE o_rsp_stb
  <2>1. ~int_busy /\ ~int_full
    BY <1>2 DEF NoOverrun, int_busy, IntHolds
  <2>2. IntDue = <<>>
    BY <1>1, <2>1 DEF IntHolds, IntDue, Word
  <2>3. o_int_stb' = TRUE /\ o_int_word' = o_rsp_word
    BY <1>2, <2>1 DEF HbInts
  <2>4. IntDue' = RspDue
    BY <1>2, <2>3 DEF IntDue, RspDue, Word
  <2>. QED  BY <2>2, <2>4 DEF IntOut
<1>3. CASE ~o_rsp_stb /\ (~idl_busy \/ ~o_int_stb)
  <2>1. RspDue = <<>>
    BY <1>3 DEF RspDue, Word
  <2>2. IntDue' = <<>>
    BY <1>1, <1>3 DEF HbInts, IntDue, Word
  <2>3. IntOut = IntDue
    BY <1>3 DEF IntOut, IntDue, Word
  <2>. QED  BY <2>1, <2>2, <2>3
<1>4. CASE ~o_rsp_stb /\ idl_busy /\ o_int_stb
  <2>1. RspDue = <<>> /\ IntOut = <<>> /\ o_int_word' = o_int_word
    BY <1>4 DEF RspDue, Word, IntOut, HbInts
  <2>2. IntDue' = IntDue
    <3>1. CASE int_full
      <4>1. o_int_stb' = TRUE
        BY <1>4, <3>1 DEF HbInts
      <4>. QED  BY <1>4, <2>1, <4>1 DEF IntDue
    <3>2. CASE ~int_full
      BY <1>1, <1>4, <2>1, <3>2 DEF IntHolds, IntDue, Word
    <3>. QED  BY <3>1, <3>2
  <2>. QED  BY <2>1, <2>2
<1>. QED  BY <1>2, <1>3, <1>4

\* DueTypes after a clock.
LEMMA DueTypesNext ==
    ASSUME Flags', DwHolds'
    PROVE  /\ PsDue' \in Seq(LDT) /\ NlDue' \in Seq(LDT) /\ GxDue' \in Seq(LDT) /\ DwDue' \in Seq(LDT)
           /\ IdlDue' \in Seq(LDT) /\ IntDue' \in Seq(LDT) /\ RspDue' \in Seq(LDT)
<1>1. PsDue' \in Seq(LDT) /\ NlDue' \in Seq(LDT) /\ GxDue' \in Seq(LDT)
  BY CharFacts DEF Flags, PsDue, NlDue, GxDue
<1>2. IdlDue' \in Seq(LDT) /\ IntDue' \in Seq(LDT) /\ RspDue' \in Seq(LDT)
  <2>1. Word(o_idl_stb', o_idl_word') \in Seq(LDT) /\ Word(o_int_stb', o_int_word') \in Seq(LDT)
        /\ Word(o_rsp_stb', o_rsp_word') \in Seq(LDT)
    BY WordType
  <2>. QED  BY <2>1 DEF IdlDue, IntDue, RspDue
<1>. DEFINE x == Char(o_dw_stb', o_dw_bits')
<1>3. x \in Seq(LDT) /\ r_word' \in Seq(LDT)
  <2>1. Char(o_dw_stb', o_dw_bits') \in Seq(LDT)
    BY CharFacts DEF Flags
  <2>2. Digits \subseteq LDT
    BY DEF LDT, LD
  <2>3. r_word' \in Seq(LDT)
    BY <2>2 DEF DwHolds
  <2>. QED  BY <2>1, <2>3
<1>. HIDE DEF x
<1>4. Associates(x, r_word', r_word')
  BY <1>3, Associate
<1>5. DwDue' \in Seq(LDT)
  BY <1>4 DEF Associates, DwDue, x
<1>. QED  BY <1>1, <1>2, <1>5

\* In a clock without a reset the stages pass on what is due in order.
LEMMA AllFlow ==
    ASSUME HcIInv, NEW b \in BOOLEAN, NEW period \in BOOLEAN, Arbiter(b), HbNewline(b), HbGenhex(b), HbDeword(b),
           HbIdle(period), HbInts, ~w_reset, Flags', DwHolds'
    PROVE  AllDue \o RspDue' = PsOut(b) \o AllDue' /\ AllDue \in Seq(LDT) /\ AllDue' \in Seq(LDT)
<1>1. /\ PsDue \in Seq(LDT) /\ NlDue \in Seq(LDT) /\ GxDue \in Seq(LDT) /\ DwDue \in Seq(LDT)
      /\ IdlDue \in Seq(LDT) /\ IntDue \in Seq(LDT) /\ RspDue \in Seq(LDT)
  BY DueTypes DEF HcIInv
<1>2. /\ PsOut(b) \in Seq(LDT) /\ NlOut(b) \in Seq(LDT) /\ GxOut(b) \in Seq(LDT) /\ DwOut(b) \in Seq(LDT)
      /\ IdlOut \in Seq(LDT) /\ IntOut \in Seq(LDT)
  BY OutTypes DEF HcIInv
<1>3. /\ PsDue' \in Seq(LDT) /\ NlDue' \in Seq(LDT) /\ GxDue' \in Seq(LDT) /\ DwDue' \in Seq(LDT)
      /\ IdlDue' \in Seq(LDT) /\ IntDue' \in Seq(LDT) /\ RspDue' \in Seq(LDT)
  BY DueTypesNext
<1>4. Passes(PsDue, PsOut(b), PsDue', NlOut(b))
  BY <1>1, <1>2, <1>3, PsFlow, AllOrNothing
<1>5. Passes(NlDue, NlOut(b), NlDue', GxOut(b))
  BY <1>1, <1>2, <1>3, NlFlow, AllOrNothing
<1>6. Passes(GxDue, GxOut(b), GxDue', DwOut(b))
  BY <1>1, <1>2, <1>3, GxFlow, AllOrNothing
<1>7. Passes(DwDue, DwOut(b), DwDue', IdlOut)
  BY DwFlow
<1>8. Passes(IdlDue, IdlOut, IdlDue', IntOut)
  BY <1>1, <1>2, <1>3, IdlFlow, AllOrNothing
<1>9. Passes(IntDue, IntOut, IntDue', RspDue)
  BY <1>1, <1>2, <1>3, IntFlow, AllOrNothing
<1>. DEFINE r == RspDue'
            t6 == IntDue \o RspDue
            u6 == IntDue' \o r
            t5 == IdlDue \o t6
            u5 == IdlDue' \o u6
            t4 == DwDue \o t5
            u4 == DwDue' \o u5
            t3 == GxDue \o t4
            u3 == GxDue' \o u4
            t2 == NlDue \o t3
            u2 == NlDue' \o u3
            t1 == PsDue \o t2
            u1 == PsDue' \o u2
<1>. HIDE DEF r
<1>9a. Flows(RspDue, r, RspDue, r) /\ r \in Seq(LDT)
  BY <1>1, <1>3 DEF Flows, r
<1>10. Flows(t6, r, IntOut, u6)
  BY <1>1, <1>2, <1>3, <1>9, <1>9a, PassesOn
<1>. HIDE DEF t6, u6
<1>11. Flows(t5, r, IdlOut, u5)
  BY <1>1, <1>2, <1>3, <1>9a, <1>8, <1>10, PassesOn
<1>. HIDE DEF t5, u5
<1>12. Flows(t4, r, DwOut(b), u4)
  BY <1>1, <1>2, <1>3, <1>9a, <1>7, <1>11, PassesOn
<1>. HIDE DEF t4, u4
<1>13. Flows(t3, r, GxOut(b), u3)
  BY <1>1, <1>2, <1>3, <1>9a, <1>6, <1>12, PassesOn
<1>. HIDE DEF t3, u3
<1>14. Flows(t2, r, NlOut(b), u2)
  BY <1>1, <1>2, <1>3, <1>9a, <1>5, <1>13, PassesOn
<1>. HIDE DEF t2, u2
<1>15. Flows(t1, r, PsOut(b), u1)
  BY <1>1, <1>2, <1>3, <1>9a, <1>4, <1>14, PassesOn
<1>16. t1 = AllDue /\ u1 = AllDue'
  BY DEF AllDue, t2, u2, t3, u3, t4, u4, t5, u5, t6, u6, r
<1>. QED  BY <1>15, <1>16 DEF Flows, r

-----------------------------------------------------------------------------
\* The host and hbexec leave the path this much time.
Paced == Window <= 2 /\ MinGap >= 2

\* What a clock with a reset leaves.
Cleared ==
    /\ ~o_int_stb /\ ~int_full /\ ~pending_interrupt /\ ~int_state
    /\ ~idle_stb /\ ~o_idl_stb /\ ~o_dw_stb /\ r_word = <<>> /\ ~o_gx_stb
    /\ ~o_nl_stb /\ last_cr /\ ~cr_state /\ o_nl_byte = Filler
    /\ o_rsp_stb /\ o_rsp_word = RSP_RESET /\ gap = MinGap

\* One clock: what the surroundings choose and what the stages do.
Clocks(b, w, stb, reset, int, period, cstb, c) ==
    /\ b \in BOOLEAN /\ w \in Words /\ stb \in BOOLEAN /\ reset \in BOOLEAN /\ int \in BOOLEAN
    /\ period \in BOOLEAN /\ cstb \in BOOLEAN /\ c \in ConsoleChars
    /\ HbExecOut(w, stb, reset, int)
    /\ HbInts
    /\ (period => Idles /\ Quiet /\ expect = <<>>) /\ HbIdle(period)
    /\ HbDeword(b)
    /\ HbGenhex(b)
    /\ HbNewline(b)
    /\ Arbiter(b)
    /\ Console(cstb, c)
    /\ History(b)

\* A reset empties the stages up to hbnewline, and only its own answer is in front of them.
LEMMA ResetClears ==
    ASSUME NEW b, NEW w, NEW stb, NEW reset, NEW int, NEW period, NEW cstb, NEW c,
           Clocks(b, w, stb, reset, int, period, cstb, c), w_reset, HcIInv
    PROVE  Cleared'
<1>1. o_int_stb' = FALSE /\ int_full' = FALSE /\ pending_interrupt' = FALSE /\ int_state' = FALSE
  BY DEF Clocks, HbInts, IntState, PendingInterrupt, IntFull
<1>2. idle_stb' = FALSE /\ o_idl_stb' = FALSE
  BY DEF Clocks, HbIdle
<1>3. o_dw_stb' = FALSE /\ r_word' = <<>>
  BY DEF Clocks, HbDeword
<1>4. o_gx_stb' = FALSE
  BY DEF Clocks, HbGenhex
<1>5. o_nl_stb' = FALSE /\ last_cr' = TRUE /\ cr_state' = FALSE /\ o_nl_byte' = Filler
  BY DEF Clocks, HbNewline
<1>6. o_rsp_stb' = TRUE /\ o_rsp_word' = RSP_RESET /\ gap' = MinGap
  BY DEF Clocks, HbExecOut
<1>. QED  BY <1>1, <1>2, <1>3, <1>4, <1>5, <1>6 DEF Cleared

\* A clock keeps the strobes and the flags Boolean.
LEMMA FlagsHold ==
    ASSUME NEW b, NEW w, NEW stb, NEW reset, NEW int, NEW period, NEW cstb, NEW c,
           Clocks(b, w, stb, reset, int, period, cstb, c), HcIInv
    PROVE  Flags'
<1>. USE DEF HcIInv, Flags, Clocks
<1>1. o_rsp_stb' \in BOOLEAN /\ w_reset' \in BOOLEAN /\ i_interrupt' \in BOOLEAN
  BY DEF HbExecOut
<1>2. int_state' \in BOOLEAN /\ pending_interrupt' \in BOOLEAN /\ int_full' \in BOOLEAN
  BY DEF HbInts, IntState, PendingInterrupt, IntFull
<1>3. o_int_stb' \in BOOLEAN /\ int_loaded' \in BOOLEAN
  BY DEF HbInts
<1>4. idle_stb' \in BOOLEAN /\ o_idl_stb' \in BOOLEAN
  BY DEF HbIdle
<1>5. o_dw_stb' \in BOOLEAN
  BY DEF HbDeword, deword
<1>6. o_gx_stb' \in BOOLEAN
  BY DEF HbGenhex
<1>7. last_cr' \in BOOLEAN /\ cr_state' \in BOOLEAN /\ o_nl_stb' \in BOOLEAN /\ nl_loaded' \in BOOLEAN
  BY DEF HbNewline, newline
<1>8. ps_full' \in BOOLEAN
  BY DEF Arbiter, arbiter
<1>9. i_console_stb' \in BOOLEAN /\ i_console_data' \in ConsoleChars
  BY DEF Console, console
<1>. QED  BY <1>1, <1>2, <1>3, <1>4, <1>5, <1>6, <1>7, <1>8, <1>9

\* hbints is full only of a response that is not loaded, and its reports are of a pending
\* interrupt.
LEMMA IntHoldsOn ==
    ASSUME NEW b, NEW w, NEW stb, NEW reset, NEW int, NEW period, NEW cstb, NEW c,
           Clocks(b, w, stb, reset, int, period, cstb, c), HcIInv, Flags'
    PROVE  IntHolds'
<1>1. CASE w_reset
  BY <1>1, ResetClears DEF Cleared, IntHolds
<1>2. CASE ~w_reset
  <2>. USE DEF HcIInv, Flags, Clocks
  <2>1. CASE o_rsp_stb
    <3>1. ~int_busy
      BY <2>1 DEF NoOverrun
    <3>2. int_full' = TRUE /\ o_int_stb' = TRUE /\ int_loaded' = FALSE /\ o_int_word' = o_rsp_word
      BY <1>2, <2>1, <3>1 DEF HbInts, IntFull
    <3>. QED  BY <3>2 DEF IntHolds, TypeOK, Rsp
  <2>2. CASE ~o_rsp_stb /\ o_int_stb /\ idl_busy
    <3>1. int_full' = int_full /\ o_int_stb' = (pending_interrupt \/ int_full)
          /\ int_loaded' = int_loaded /\ o_int_word' = o_int_word
      BY <1>2, <2>2 DEF HbInts, IntFull
    <3>2. pending_interrupt => pending_interrupt'
      BY <1>2, <2>2 DEF HbInts, PendingInterrupt
    <3>. QED  BY <2>2, <3>1, <3>2 DEF IntHolds
  <2>3. CASE ~o_rsp_stb /\ ~(o_int_stb /\ idl_busy)
    <3>1. int_full' = FALSE /\ int_loaded' = TRUE /\ o_int_word' = INT_WORD
          /\ (o_int_stb' => pending_interrupt /\ (~int_loaded \/ idl_busy))
      BY <1>2, <2>3 DEF HbInts, IntFull, IntHolds
    <3>2. pending_interrupt /\ (~int_loaded \/ idl_busy) => pending_interrupt'
      BY <1>2, <2>3 DEF HbInts, PendingInterrupt
    <3>. QED  BY <3>1, <3>2 DEF IntHolds
  <2>. QED  BY <2>1, <2>2, <2>3
<1>. QED  BY <1>1, <1>2

\* hbdeword has digits left only behind a letter or a digit.
LEMMA DwHoldsOn ==
    ASSUME NEW b, NEW w, NEW stb, NEW reset, NEW int, NEW period, NEW cstb, NEW c,
           Clocks(b, w, stb, reset, int, period, cstb, c), HcIInv, Flags'
    PROVE  DwHolds'
<1>1. CASE w_reset
  <2>1. <<>> \in Seq(Digits)
    OBVIOUS
  <2>2. Cleared'
    BY <1>1, ResetClears
  <2>. QED  BY <2>1, <2>2 DEF Cleared, DwHolds
<1>2. CASE ~w_reset /\ o_idl_stb /\ ~dw_busy
  <2>1. o_dw_stb' = TRUE /\ o_dw_bits' = Head(o_idl_word) /\ r_word' = Tail(o_idl_word)
    BY <1>2 DEF Clocks, HbDeword
  <2>2. o_idl_word \in Rsp \/ o_idl_word \in {INT_WORD, IDLE_WORD}
    BY DEF HcIInv, TypeOK, Rsp
  <2>3. CASE o_idl_word \in Rsp
    <3>1. Response(o_idl_word)
      BY <2>3, Responses
    <3>2. o_idl_word = RSP_RESET => Tail(o_idl_word) = <<>>
      BY DEF RSP_RESET
    <3>3. Head(o_idl_word) \in Out /\ (Head(o_idl_word) \notin LD => Tail(o_idl_word) = <<>>)
      BY <3>1, <3>2 DEF Response, Out, LDT, LD
    <3>. QED  BY <2>1, <3>1, <3>3 DEF DwHolds, Response
  <2>4. CASE o_idl_word \in {INT_WORD, IDLE_WORD}
    <3>1. ASSUME NEW x, o_idl_word = <<x>> PROVE Tail(o_idl_word) = <<>> /\ Head(o_idl_word) = x
      BY <3>1
    <3>2. Tail(o_idl_word) = <<>> /\ Head(o_idl_word) \in {"I", "Z"}
      BY <2>4, <3>1 DEF INT_WORD, IDLE_WORD
    <3>3. <<>> \in Seq(Digits)
      OBVIOUS
    <3>. QED  BY <2>1, <3>2, <3>3 DEF DwHolds, Out
  <2>. QED  BY <2>2, <2>3, <2>4
<1>3. CASE ~w_reset /\ ~(o_idl_stb /\ ~dw_busy) /\ ~gx_busy(b)
  <2>1. r_word \in Seq(Digits)
    BY DEF HcIInv, DwHolds
  <2>2. o_dw_stb' = (r_word # <<>>) /\ o_dw_bits' = (IF r_word = <<>> THEN "0" ELSE Head(r_word))
        /\ r_word' = IF r_word = <<>> THEN <<>> ELSE Tail(r_word)
    BY <1>3 DEF Clocks, HbDeword
  <2>3. CASE r_word = <<>>
    BY <2>1, <2>2, <2>3 DEF DwHolds
  <2>4. CASE r_word # <<>>
    <3>1. Head(r_word) \in Digits /\ Tail(r_word) \in Seq(Digits)
      BY <2>1, <2>4, HeadTailProperties
    <3>. QED  BY <2>2, <2>4, <3>1 DEF DwHolds, Out, LDT, LD
  <2>. QED  BY <2>3, <2>4
<1>4. CASE ~w_reset /\ ~(o_idl_stb /\ ~dw_busy) /\ gx_busy(b)
  <2>1. UNCHANGED <<o_dw_stb, r_word, o_dw_bits>>
    BY <1>4 DEF Clocks, HbDeword, deword
  <2>. QED  BY <2>1 DEF HcIInv, DwHolds
<1>. QED  BY <1>1, <1>2, <1>3, <1>4

\* hbgenhex holds a character that a word or a report has.
LEMMA GxHoldsOn ==
    ASSUME NEW b, NEW w, NEW stb, NEW reset, NEW int, NEW period, NEW cstb, NEW c,
           Clocks(b, w, stb, reset, int, period, cstb, c), HcIInv
    PROVE  GxHolds'
BY DEF HcIInv, Clocks, HbGenhex, GxHolds, DwHolds, gx_busy

\* hbnewline is in one of its four states: idle, a character, a carriage return, a line feed.
LEMMA NlHoldsOn ==
    ASSUME NEW b, NEW w, NEW stb, NEW reset, NEW int, NEW period, NEW cstb, NEW c,
           Clocks(b, w, stb, reset, int, period, cstb, c), HcIInv
    PROVE  NlHolds'
<1>. USE DEF HcIInv, Flags, Clocks
<1>1. CASE w_reset
  BY <1>1 DEF HbNewline, NlHolds
<1>2. CASE ~w_reset /\ o_gx_stb /\ ~nl_busy(b)
  <2>1. o_gx_char \in Out /\ CR \notin Out
    BY <1>2, Distinct DEF GxHolds, Out, CR
  <2>. QED  BY <1>2, <2>1 DEF HbNewline, NlHolds
<1>3. CASE ~w_reset /\ ~(o_gx_stb /\ ~nl_busy(b)) /\ ~tx_busy(b)
  BY <1>3 DEF HbNewline, NlHolds, nl_busy
<1>4. CASE ~w_reset /\ ~(o_gx_stb /\ ~nl_busy(b)) /\ tx_busy(b)
  BY <1>4 DEF HbNewline, newline, NlHolds
<1>. QED  BY <1>1, <1>2, <1>3, <1>4

\* The register of the transmitter holds a character of the bus or of the console.
LEMMA PsHoldsOn ==
    ASSUME NEW b, NEW w, NEW stb, NEW reset, NEW int, NEW period, NEW cstb, NEW c,
           Clocks(b, w, stb, reset, int, period, cstb, c), HcIInv
    PROVE  PsHolds'
<1>. USE DEF HcIInv, Flags, Clocks
<1>1. CASE ~tx_busy(b) /\ o_nl_stb
  <2>1. ps_data' = <<"bus", o_nl_byte>>
    BY <1>1 DEF Arbiter, tx_busy
  <2>2. ps_data'[1] = "bus" /\ ps_data'[2] = o_nl_byte /\ o_nl_byte \in Out \cup {CR, LF}
    BY <1>1, <2>1 DEF NlHolds
  <2>. QED  BY <2>2 DEF PsHolds
<1>2. CASE ~tx_busy(b) /\ ~o_nl_stb
  <2>1. ps_full' => ps_data' = <<"console", i_console_data>>
    BY <1>2 DEF Arbiter, tx_busy
  <2>2. ps_full' => ps_data'[1] = "console"
    BY <2>1
  <2>. QED  BY <2>2 DEF PsHolds
<1>3. CASE tx_busy(b)
  BY <1>3 DEF Arbiter, tx_busy, arbiter, PsHolds
<1>. QED  BY <1>1, <1>2, <1>3

\* A clock keeps the type invariant of the module.
LEMMA TypeOn ==
    ASSUME NEW b, NEW w, NEW stb, NEW reset, NEW int, NEW period, NEW cstb, NEW c,
           Clocks(b, w, stb, reset, int, period, cstb, c), HcIInv
    PROVE  TypeOK'
<1>. USE DEF HcIInv, Clocks
<1>1. o_rsp_word' \in Words \cup {RSP_RESET}
  BY DEF HbExecOut
<1>2. o_int_word' \in Words \cup {RSP_RESET, INT_WORD}
  BY DEF HbInts, TypeOK
<1>3. o_idl_word' \in Words \cup {RSP_RESET, INT_WORD, IDLE_WORD}
  BY DEF HbIdle, TypeOK
<1>4. gap' \in 0 .. MinGap
  <2>1. MinGap \in Nat
    BY HbConsoleAssumption
  <2>2. gap' = IF o_rsp_stb' THEN MinGap ELSE IF gap > 0 THEN gap - 1 ELSE 0
    BY DEF HbExecOut
  <2>3. gap \in 0 .. MinGap
    BY DEF GapHolds
  <2>. QED  BY <2>1, <2>2, <2>3
<1>5. ps_data' \in ({"bus"} \X (Starts \cup Digits \cup {"I", "Z", CR, LF, Filler}))
                      \cup ({"console"} \X ConsoleChars)
  <2>1. ps_data' = ps_data \/ ps_data' = <<"bus", o_nl_byte>> \/ ps_data' = <<"console", i_console_data>>
    BY DEF Arbiter, arbiter
  <2>2. o_nl_byte \in Starts \cup Digits \cup {"I", "Z", CR, LF, Filler}
    BY DEF NlHolds, Out, LDT, LD, Starts
  <2>3. i_console_data \in ConsoleChars
    BY DEF Flags
  <2>. QED  BY <2>1, <2>2, <2>3 DEF TypeOK
<1>. QED  BY <1>1, <1>2, <1>3, <1>4, <1>5 DEF TypeOK

\* A digit in a stage has the character before it in the next one, after a clock as before it.
LEMMA NoGapOn ==
    ASSUME NEW b, NEW w, NEW stb, NEW reset, NEW int, NEW period, NEW cstb, NEW c,
           Clocks(b, w, stb, reset, int, period, cstb, c), HcIInv, ~w_reset
    PROVE  NoGap'
<1>. USE DEF HcIInv, Flags, Clocks
<1>0. Letters \cap Digits = {} /\ {"T", "I", "Z", CR, LF} \cap LD = {} /\ Digits \subseteq LD
  BY Distinct DEF LD, LDT
<1>1. ASSUME o_nl_stb', o_nl_byte' \in Digits
      PROVE  ps_full' /\ ps_data'[1] = "bus" /\ ps_data'[2] \in LD
  <2>1. CASE o_gx_stb /\ ~nl_busy(b)
    <3>1. o_nl_byte' = o_gx_char
      BY <2>1 DEF HbNewline
    <3>2. o_nl_stb /\ o_nl_byte \in LD
      BY <1>1, <2>1, <3>1 DEF NoGap
    <3>3. nl_loaded
      BY <1>0, <3>2 DEF NlHolds
    <3>4. ~tx_busy(b)
      BY <2>1, <3>2, <3>3 DEF nl_busy
    <3>5. ps_full' = TRUE /\ ps_data' = <<"bus", o_nl_byte>>
      BY <3>2, <3>4 DEF Arbiter, tx_busy
    <3>. QED  BY <3>2, <3>5
  <2>2. CASE ~(o_gx_stb /\ ~nl_busy(b)) /\ tx_busy(b)
    <3>1. o_nl_stb' = o_nl_stb /\ o_nl_byte' = o_nl_byte
      BY <2>2 DEF HbNewline, newline
    <3>2. ps_full' = ps_full /\ ps_data' = ps_data
      BY <2>2 DEF Arbiter, arbiter, tx_busy
    <3>. QED  BY <1>1, <3>1, <3>2 DEF NoGap
  <2>3. CASE ~(o_gx_stb /\ ~nl_busy(b)) /\ ~tx_busy(b)
    <3>1. o_nl_byte' \in {CR, LF} \/ ~o_nl_stb'
      BY <2>3 DEF HbNewline
    <3>. QED  BY <1>0, <1>1, <3>1
  <2>. QED  BY <2>1, <2>2, <2>3
<1>2. ASSUME o_gx_stb', o_gx_char' \in Digits
      PROVE  o_nl_stb' /\ o_nl_byte' \in LD
  <2>1. CASE gx_busy(b)
    <3>1. o_gx_stb' = o_gx_stb /\ o_gx_char' = o_gx_char
      BY <2>1 DEF HbGenhex
    <3>2. o_nl_stb /\ o_nl_byte \in LD
      BY <1>2, <3>1 DEF NoGap
    <3>3. ~cr_state
      BY <1>0, <3>2 DEF NlHolds
    <3>4. tx_busy(b) /\ nl_busy(b)
      BY <2>1, <3>3 DEF gx_busy, nl_busy
    <3>5. o_nl_stb' = o_nl_stb /\ o_nl_byte' = o_nl_byte
      BY <3>4 DEF HbNewline, newline
    <3>. QED  BY <3>2, <3>5
  <2>2. CASE ~gx_busy(b)
    <3>1. o_dw_stb /\ o_dw_bits \in Digits
      BY <1>2, <2>2 DEF HbGenhex
    <3>2. o_gx_stb /\ o_gx_char \in LD
      BY <3>1 DEF NoGap
    <3>3. ~nl_busy(b)
      BY <2>2, <3>2 DEF gx_busy
    <3>4. o_nl_stb' = TRUE /\ o_nl_byte' = o_gx_char
      BY <3>2, <3>3 DEF HbNewline
    <3>. QED  BY <3>2, <3>4
  <2>. QED  BY <2>1, <2>2
<1>3. ASSUME o_dw_stb', o_dw_bits' \in Digits
      PROVE  o_gx_stb' /\ o_gx_char' \in LD
  <2>1. CASE o_idl_stb /\ ~dw_busy
    <3>1. o_dw_bits' = Head(o_idl_word)
      BY <2>1 DEF HbDeword
    <3>2. o_idl_word \in Rsp \/ o_idl_word \in {INT_WORD, IDLE_WORD}
      BY DEF TypeOK, Rsp
    <3>3. CASE o_idl_word \in Rsp
      <4>1. Head(o_idl_word) \in Letters \cup {"T"}
        BY <3>3, Responses DEF Response
      <4>. QED  BY <1>0, <1>3, <3>1, <4>1
    <3>4. CASE o_idl_word \in {INT_WORD, IDLE_WORD}
      <4>1. ASSUME NEW x, o_idl_word = <<x>> PROVE Head(o_idl_word) = x
        BY <4>1
      <4>2. Head(o_idl_word) \in {"I", "Z"}
        BY <3>4, <4>1 DEF INT_WORD, IDLE_WORD
      <4>. QED  BY <1>0, <1>3, <3>1, <4>2
    <3>. QED  BY <3>2, <3>3, <3>4
  <2>2. CASE ~(o_idl_stb /\ ~dw_busy) /\ ~gx_busy(b)
    <3>1. r_word # <<>>
      BY <1>3, <2>2 DEF HbDeword
    <3>2. o_dw_stb /\ o_dw_bits \in LD
      BY <3>1 DEF DwHolds
    <3>. QED  BY <2>2, <3>2 DEF HbGenhex
  <2>3. CASE ~(o_idl_stb /\ ~dw_busy) /\ gx_busy(b)
    <3>1. o_dw_stb' = o_dw_stb /\ o_dw_bits' = o_dw_bits
      BY <2>3 DEF HbDeword, deword
    <3>2. o_gx_stb' = o_gx_stb /\ o_gx_char' = o_gx_char
      BY <2>3 DEF HbGenhex
    <3>. QED  BY <1>3, <3>1, <3>2 DEF NoGap
  <2>. QED  BY <2>1, <2>2, <2>3
<1>. QED  BY <1>1, <1>2, <1>3 DEF NoGap

\* Whatever hbdeword takes or keeps, in a clock without a reset.
DwTakes  == o_idl_stb /\ ~dw_busy
\* Where the T, the Z or the I that hbdeword shows after a clock comes from.
LEMMA DwNext ==
    ASSUME NEW b, NEW w, NEW stb, NEW reset, NEW int, NEW period, NEW cstb, NEW c,
           Clocks(b, w, stb, reset, int, period, cstb, c), HcIInv, ~w_reset
    PROVE  /\ ~o_idl_stb /\ ~o_dw_stb => ~o_dw_stb'
           /\ o_dw_stb' /\ o_dw_bits' = "T" => \/ DwTakes /\ o_idl_word = RSP_RESET
                                               \/ o_dw_stb /\ o_dw_bits = "T" /\ gx_busy(b)
           /\ o_dw_stb' /\ o_dw_bits' = "Z" => \/ DwTakes /\ o_idl_word = IDLE_WORD
                                               \/ o_dw_stb /\ o_dw_bits = "Z" /\ gx_busy(b)
           /\ o_dw_stb' /\ o_dw_bits' = "I" => \/ DwTakes /\ o_idl_word = INT_WORD
                                               \/ o_dw_stb /\ o_dw_bits = "I" /\ gx_busy(b)
           /\ DwTakes => ~o_dw_stb /\ (o_idl_word = RSP_RESET => o_dw_stb' /\ o_dw_bits' = "T")
<1>. USE DEF HcIInv, Flags, Clocks
<1>0. {"T", "I", "Z"} \cap LD = {}
  BY Distinct DEF LD, LDT
<1>1. CASE DwTakes
  <2>1. o_dw_stb' = TRUE /\ o_dw_bits' = Head(o_idl_word)
    BY <1>1 DEF HbDeword, DwTakes
  <2>2. ASSUME NEW x, o_idl_word = <<x>> PROVE Head(o_idl_word) = x
    BY <2>2
  <2>3. /\ o_idl_word = RSP_RESET => Head(o_idl_word) = "T"
        /\ o_idl_word = INT_WORD => Head(o_idl_word) = "I"
        /\ o_idl_word = IDLE_WORD => Head(o_idl_word) = "Z"
    BY <2>2 DEF RSP_RESET, INT_WORD, IDLE_WORD
  <2>4. o_idl_word \in Words => Head(o_idl_word) \notin {"T", "I", "Z"}
    <3>1. o_idl_word \in Words => Response(o_idl_word) /\ o_idl_word # RSP_RESET
      BY Responses, Distinct DEF Rsp
    <3>. QED  BY <1>0, <3>1 DEF Response, LD
  <2>5. o_idl_word \in Words \cup {RSP_RESET, INT_WORD, IDLE_WORD}
    BY DEF TypeOK
  <2>. QED  BY <1>1, <2>1, <2>3, <2>4, <2>5 DEF DwTakes, dw_busy
<1>2. CASE ~DwTakes /\ ~gx_busy(b)
  <2>1. o_dw_stb' = (r_word # <<>>) /\ (r_word # <<>> => o_dw_bits' = Head(r_word))
    BY <1>2 DEF HbDeword, DwTakes
  <2>2. r_word # <<>> => o_dw_stb /\ Head(r_word) \in Digits
    BY HeadTailProperties DEF DwHolds
  <2>. QED  BY <1>0, <1>2, <2>1, <2>2 DEF LD
<1>3. CASE ~DwTakes /\ gx_busy(b)
  BY <1>3 DEF HbDeword, DwTakes, deword
<1>. QED  BY <1>1, <1>2, <1>3

\* The same of hbidle, and of the stages behind hbdeword.
IdlTakes == o_int_stb /\ ~idl_busy
\* Where the word that hbidle shows after a clock comes from.
LEMMA IdlNext ==
    ASSUME NEW b, NEW w, NEW stb, NEW reset, NEW int, NEW period, NEW cstb, NEW c,
           Clocks(b, w, stb, reset, int, period, cstb, c), HcIInv, ~w_reset
    PROVE  /\ o_idl_stb' => \/ IdlTakes /\ o_idl_word' = o_int_word
                            \/ ~IdlTakes /\ idle_stb /\ ~o_idl_stb /\ o_idl_word' = IDLE_WORD
                            \/ ~IdlTakes /\ o_idl_stb /\ o_dw_stb /\ o_idl_word' = o_idl_word
           /\ IdlTakes => o_idl_stb' /\ o_idl_word' = o_int_word
           /\ idle_stb' => Quiet
           /\ ~idle_stb /\ ~o_idl_stb /\ ~o_int_stb => ~o_idl_stb'
BY DEF HcIInv, Flags, Clocks, HbIdle, IdlTakes, idl_busy, dw_busy, ZAlone

\* What hbgenhex and hbnewline show after a clock, and when hbgenhex is not let go.
LEMMA GxNlNext ==
    ASSUME NEW b, NEW w, NEW stb, NEW reset, NEW int, NEW period, NEW cstb, NEW c,
           Clocks(b, w, stb, reset, int, period, cstb, c), HcIInv, ~w_reset
    PROVE  /\ ~o_gx_stb /\ ~o_nl_stb => ~o_nl_stb'
           /\ ~o_nl_stb => ~gx_busy(b)
           /\ gx_busy(b) => o_gx_stb /\ o_gx_stb' = o_gx_stb /\ o_gx_char' = o_gx_char
           /\ ~gx_busy(b) => o_gx_stb' = o_dw_stb /\ o_gx_char' = o_dw_bits
<1>. USE DEF HcIInv, Flags, Clocks
<1>1. ~o_nl_stb => last_cr /\ ~cr_state
  BY DEF NlHolds
<1>2. ~o_gx_stb /\ ~o_nl_stb => ~o_nl_stb'
  BY <1>1 DEF HbNewline, newline
<1>3. ~o_nl_stb => ~gx_busy(b)
  BY <1>1 DEF gx_busy, nl_busy
<1>4. /\ gx_busy(b) => o_gx_stb /\ o_gx_stb' = o_gx_stb /\ o_gx_char' = o_gx_char
      /\ ~gx_busy(b) => o_gx_stb' = o_dw_stb /\ o_gx_char' = o_dw_bits
  BY DEF HbGenhex, gx_busy
<1>. QED  BY <1>2, <1>3, <1>4

\* hbexec speaks when it was quiet for a while.
LEMMA RspNext ==
    ASSUME NEW b, NEW w, NEW stb, NEW reset, NEW int, NEW period, NEW cstb, NEW c,
           Clocks(b, w, stb, reset, int, period, cstb, c), HcIInv, ~w_reset, Paced
    PROVE  /\ o_rsp_stb' = stb /\ o_rsp_word' = w
           /\ stb => gap = 0 /\ ~o_rsp_stb /\ Outstanding < Window /\ (Outstanding > 0 \/ Quiet)
           /\ o_rsp_stb => gap' > 0 /\ gap > 0
<1>. USE DEF HcIInv, Flags, Clocks
<1>1. MinGap \in Nat /\ MinGap >= 2
  BY HbConsoleAssumption DEF Paced
<1>2. o_rsp_stb' = stb /\ o_rsp_word' = w /\ (stb => gap = 0 /\ Outstanding < Window /\ (Outstanding > 0 \/ Quiet))
  BY DEF HbExecOut
<1>3. o_rsp_stb => gap = MinGap
  BY DEF GapHolds
<1>4. gap' = IF o_rsp_stb' THEN MinGap ELSE IF gap > 0 THEN gap - 1 ELSE 0
  BY DEF HbExecOut
<1>5. o_rsp_stb => gap' > 0 /\ gap > 0
  BY <1>1, <1>3, <1>4
<1>. QED  BY <1>1, <1>2, <1>3, <1>5

\* The answer to a reset still has an empty path in front of it after a clock.
LEMMA TAloneOn ==
    ASSUME NEW b, NEW w, NEW stb, NEW reset, NEW int, NEW period, NEW cstb, NEW c,
           Clocks(b, w, stb, reset, int, period, cstb, c), HcIInv, ~w_reset, Paced
    PROVE  TAlone'
<1>0. TAlone /\ IntHolds /\ GapHolds /\ NlHolds
  BY DEF HcIInv
<1>1. ~(o_rsp_stb' /\ o_rsp_word' = RSP_RESET)
  BY RspNext, Distinct DEF Clocks
<1>2. ASSUME o_int_stb', o_int_word' = RSP_RESET
      PROVE  gap' > 0 /\ ~o_rsp_stb' /\ ~idle_stb' /\ ~o_idl_stb' /\ ~o_dw_stb' /\ ~o_gx_stb' /\ ~o_nl_stb'
  <2>1. RSP_RESET # INT_WORD
    BY Distinct DEF Rsp
  <2>2. o_rsp_stb /\ o_rsp_word = RSP_RESET
    <3>1. \/ o_rsp_stb /\ o_int_word' = o_rsp_word
          \/ o_int_stb /\ o_idl_stb /\ o_int_word' = o_int_word
      BY <1>2, <2>1 DEF Clocks, HbInts, idl_busy
    <3>. QED  BY <1>0, <1>2, <3>1 DEF TAlone
  <2>3. ~o_int_stb /\ ~idle_stb /\ ~o_idl_stb /\ ~o_dw_stb /\ ~o_gx_stb /\ ~o_nl_stb
    BY <1>0, <2>2 DEF TAlone
  <2>4. gap' > 0 /\ ~o_rsp_stb'
    BY <2>2, RspNext
  <2>5. ~idle_stb' /\ ~o_idl_stb'
    BY <2>2, <2>3, IdlNext DEF Quiet
  <2>6. ~o_dw_stb'
    BY <2>3, DwNext
  <2>7. ~o_gx_stb' /\ ~o_nl_stb'
    BY <2>3, GxNlNext
  <2>. QED  BY <2>4, <2>5, <2>6, <2>7
<1>3. ASSUME o_idl_stb', o_idl_word' = RSP_RESET
      PROVE  ~o_rsp_stb' /\ ~int_full' /\ ~o_dw_stb' /\ ~o_gx_stb' /\ ~o_nl_stb'
  <2>1. RSP_RESET # IDLE_WORD
    BY Distinct DEF Rsp
  <2>2. o_int_stb /\ o_int_word = RSP_RESET /\ ~idl_busy
    BY <1>0, <1>3, <2>1, IdlNext DEF TAlone, IdlTakes
  <2>3. gap > 0 /\ ~o_rsp_stb /\ ~o_idl_stb /\ ~o_dw_stb /\ ~o_gx_stb /\ ~o_nl_stb
    BY <1>0, <2>2 DEF TAlone
  <2>4. ~o_rsp_stb'
    BY <2>3, RspNext
  <2>5. ~int_full'
    BY <2>2, <2>3 DEF Clocks, HbInts, IntFull
  <2>6. ~o_dw_stb'
    BY <2>3, DwNext
  <2>7. ~o_gx_stb' /\ ~o_nl_stb'
    BY <2>3, GxNlNext
  <2>. QED  BY <2>4, <2>5, <2>6, <2>7
<1>4. ASSUME o_dw_stb', o_dw_bits' = "T"
      PROVE  ~int_full' /\ ~o_gx_stb' /\ ~o_nl_stb'
  <2>1. o_idl_stb /\ o_idl_word = RSP_RESET
    BY <1>0, <1>4, DwNext, GxNlNext DEF TAlone, DwTakes
  <2>2. ~o_rsp_stb /\ ~int_full /\ ~o_dw_stb /\ ~o_gx_stb /\ ~o_nl_stb
    BY <1>0, <2>1 DEF TAlone
  <2>3. ~int_full'
    BY <2>2 DEF Clocks, HbInts, IntFull
  <2>4. ~o_gx_stb' /\ ~o_nl_stb'
    BY <2>2, GxNlNext
  <2>. QED  BY <2>3, <2>4
<1>5. ASSUME o_gx_stb', o_gx_char' = "T"
      PROVE  ~o_nl_stb'
  <2>1. o_dw_stb /\ o_dw_bits = "T" /\ ~gx_busy(b)
    BY <1>0, <1>5, GxNlNext DEF TAlone
  <2>2. ~o_gx_stb /\ ~o_nl_stb
    BY <1>0, <2>1 DEF TAlone
  <2>. QED  BY <2>2, GxNlNext
<1>. QED  BY <1>1, <1>2, <1>3, <1>4, <1>5 DEF TAlone

\* An idle report still finds hbdeword and hbgenhex empty after a clock.
LEMMA ZAloneOn ==
    ASSUME NEW b, NEW w, NEW stb, NEW reset, NEW int, NEW period, NEW cstb, NEW c,
           Clocks(b, w, stb, reset, int, period, cstb, c), HcIInv, ~w_reset
    PROVE  ZAlone'
<1>0. ZAlone /\ IntHolds
  BY DEF HcIInv
<1>1. ASSUME idle_stb' PROVE ~o_dw_stb' /\ ~o_gx_stb'
  <2>1. ~o_idl_stb /\ ~o_dw_stb /\ ~o_gx_stb
    BY <1>1, IdlNext DEF Quiet
  <2>. QED  BY <2>1, DwNext, GxNlNext
<1>2. ASSUME o_idl_stb', o_idl_word' = IDLE_WORD PROVE ~o_dw_stb' /\ ~o_gx_stb'
  <2>1. IDLE_WORD \notin Rsp /\ IDLE_WORD # INT_WORD
    <3>1. ASSUME NEW x, NEW y, <<x>> = <<y>> PROVE x = y
      BY <3>1
    <3>2. IDLE_WORD # INT_WORD
      BY <3>1 DEF IDLE_WORD, INT_WORD
    <3>. QED  BY <3>2, Distinct
  <2>2. ~IdlTakes \/ o_int_word # IDLE_WORD
    BY <1>0, <2>1 DEF IntHolds, IdlTakes
  <2>3. idle_stb /\ ~o_idl_stb
    BY <1>0, <1>2, <2>2, IdlNext DEF ZAlone
  <2>4. ~o_dw_stb /\ ~o_gx_stb
    BY <1>0, <2>3 DEF ZAlone
  <2>. QED  BY <2>3, <2>4, DwNext, GxNlNext
<1>3. ASSUME o_dw_stb', o_dw_bits' = "Z" PROVE ~o_gx_stb'
  <2>1. o_idl_stb /\ o_idl_word = IDLE_WORD
    BY <1>0, <1>3, DwNext, GxNlNext DEF ZAlone, DwTakes
  <2>2. ~o_dw_stb /\ ~o_gx_stb
    BY <1>0, <2>1 DEF ZAlone
  <2>. QED  BY <2>2, GxNlNext
<1>. QED  BY <1>1, <1>2, <1>3 DEF ZAlone

\* A clock makes no second report of an interrupt while there is one.
LEMMA OneIOn ==
    ASSUME NEW b, NEW w, NEW stb, NEW reset, NEW int, NEW period, NEW cstb, NEW c,
           Clocks(b, w, stb, reset, int, period, cstb, c), HcIInv, ~w_reset
    PROVE  OneI'
<1>0. OneI /\ IntHolds /\ Flags
  BY DEF HcIInv
<1>1. INT_WORD \notin Rsp /\ INT_WORD # IDLE_WORD
  <2>1. ASSUME NEW x, NEW y, <<x>> = <<y>> PROVE x = y
    BY <2>1
  <2>2. INT_WORD # IDLE_WORD
    BY <2>1 DEF IDLE_WORD, INT_WORD
  <2>. QED  BY <2>2, Distinct
\* What an interrupt report in each stage was a clock before.
<1>2. IdlI' => (IdlTakes /\ o_int_word = INT_WORD /\ int_loaded /\ pending_interrupt) \/ (IdlI /\ ~IdlTakes)
  BY <1>0, <1>1, IdlNext DEF IdlI, IdlTakes, IntHolds, IdlI
<1>3. DwI' => (IdlI /\ DwTakes) \/ (DwI /\ gx_busy(b))
  BY DwNext DEF IdlI, DwI, DwTakes
<1>4. pending_interrupt' => \/ i_interrupt /\ ~int_state
                            \/ pending_interrupt /\ ~(IdlTakes /\ int_loaded)
  BY <1>0 DEF Clocks, HbInts, PendingInterrupt, IdlTakes, Flags
<1>5. IdlI /\ DwTakes => ~IdlI' \/ IdlTakes
  BY IdlNext DEF IdlI, DwTakes, IdlTakes, dw_busy
<1>6. ~(IdlI' /\ DwI')
  BY <1>0, <1>2, <1>3, <1>5 DEF OneI
<1>7. pending_interrupt' => ~IdlI' /\ ~DwI'
  BY <1>0, <1>2, <1>3, <1>4 DEF OneI
<1>8. ASSUME i_interrupt', ~int_state' PROVE ~pending_interrupt' /\ ~IdlI' /\ ~DwI'
  <2>1. ~i_interrupt
    BY <1>0, <1>8 DEF Clocks, HbInts, IntState, Flags
  <2>2. ~ReportUnderway
    BY <1>8, <2>1 DEF Clocks, HbExecOut
  <2>. QED  BY <1>2, <1>3, <1>4, <2>1, <2>2 DEF ReportUnderway, IdlI, DwI
<1>. QED  BY <1>6, <1>7, <1>8 DEF OneI

\* The gap between two responses outlasts the reports that are in front of the first.
LEMMA GapHoldsOn ==
    ASSUME NEW b, NEW w, NEW stb, NEW reset, NEW int, NEW period, NEW cstb, NEW c,
           Clocks(b, w, stb, reset, int, period, cstb, c), HcIInv, ~w_reset, Paced, TypeOK'
    PROVE  GapHolds'
<1>1. gap' \in 0 .. MinGap
  BY DEF TypeOK
<1>2. o_rsp_stb' => gap' = MinGap
  BY DEF Clocks, HbExecOut
<1>3. ASSUME int_full', IdlI', o_dw_stb', o_dw_bits' = "Z"
      PROVE  gap' > 0
  <2>0. IntHolds /\ ZAlone /\ OneI /\ Flags
    BY DEF HcIInv
  <2>1. o_idl_stb /\ ~o_dw_stb /\ o_idl_word = IDLE_WORD
    BY <1>3, <2>0, DwNext, GxNlNext DEF DwTakes, ZAlone, dw_busy
  <2>2. ~idl_busy
    BY <2>1 DEF idl_busy, dw_busy
  <2>3. o_rsp_stb
    BY <1>3, <2>0, <2>2 DEF Clocks, HbInts, IntFull, IntHolds
  <2>. QED  BY <2>3, RspNext
<1>. QED  BY <1>1, <1>2, <1>3 DEF GapHolds, IdlI

-----------------------------------------------------------------------------
\* The words that are on their way, of the last perhaps only the end.
Marks(s)     == {i \in DOMAIN s : s[i] \in Letters \/ (i = 1 /\ s[i] \in Digits)}
HasMark(s)   == Marks(s) # {}
HasLetter(s) == \E i \in DOMAIN s : s[i] \in Letters

\* A letter or a mark in one of two sequences is one in their concatenation.
LEMMA MarksJoin ==
    \A a, t \in Seq(LDT) : /\ HasLetter(a) \/ HasLetter(t) => HasLetter(a \o t)
                           /\ HasMark(a) \/ HasLetter(t) => HasMark(a \o t)
<1>. SUFFICES ASSUME NEW a \in Seq(LDT), NEW t \in Seq(LDT)
              PROVE  /\ HasLetter(a) \/ HasLetter(t) => HasLetter(a \o t)
                     /\ HasMark(a) \/ HasLetter(t) => HasMark(a \o t)
  OBVIOUS
<1>1. /\ Len(a) \in Nat /\ DOMAIN a = 1 .. Len(a) /\ Len(t) \in Nat /\ DOMAIN t = 1 .. Len(t)
      /\ DOMAIN (a \o t) = 1 .. Len(a) + Len(t)
      /\ \A i \in 1 .. Len(a) : (a \o t)[i] = a[i]
      /\ \A j \in 1 .. Len(t) : (a \o t)[Len(a) + j] = t[j]
  BY ConcatProperties
<1>. DEFINE s == a \o t
<1>2. DOMAIN s = 1 .. Len(a) + Len(t)
      /\ (\A i \in 1 .. Len(a) : s[i] = a[i]) /\ (\A j \in 1 .. Len(t) : s[Len(a) + j] = t[j])
  BY <1>1
<1>. HIDE DEF s
<1>3. HasLetter(a) => HasLetter(s)
  BY <1>1, <1>2 DEF HasLetter
<1>4. ASSUME HasLetter(t) PROVE HasLetter(s)
  <2>1. PICK j \in 1 .. Len(t) : t[j] \in Letters
    BY <1>1, <1>4 DEF HasLetter
  <2>2. Len(a) + j \in DOMAIN s /\ s[Len(a) + j] \in Letters
    BY <1>1, <1>2, <2>1
  <2>. QED  BY <2>2 DEF HasLetter
<1>5. HasLetter(s) => HasMark(s)
  BY DEF HasLetter, HasMark, Marks
<1>6. ASSUME HasMark(a) PROVE HasMark(s)
  <2>1. PICK i \in 1 .. Len(a) : a[i] \in Letters \/ (i = 1 /\ a[i] \in Digits)
    BY <1>1, <1>6 DEF HasMark, Marks
  <2>2. i \in DOMAIN s /\ s[i] = a[i]
    BY <1>1, <1>2
  <2>. QED  BY <2>1, <2>2 DEF HasMark, Marks
<1>. QED  BY <1>3, <1>4, <1>5, <1>6 DEF s

\* A sequence has finitely many marks.
LEMMA MarksFinite == \A s \in Seq(LDT) : IsFiniteSet(Marks(s))
<1>. SUFFICES ASSUME NEW s \in Seq(LDT) PROVE IsFiniteSet(Marks(s))
  OBVIOUS
<1>1. 1 \in Int /\ Len(s) \in Int /\ DOMAIN s = 1 .. Len(s)
  OBVIOUS
<1>2. IsFiniteSet(1 .. Len(s))
  BY <1>1, FS_Interval, Zenon
<1>3. Marks(s) \subseteq 1 .. Len(s)
  BY <1>1 DEF Marks
<1>. QED  BY <1>2, <1>3, FS_Subset

\* A sequence with a mark, in front of one with a letter, has at least two marks.
LEMMA TwoMarks ==
    ASSUME NEW a \in Seq(LDT), NEW t \in Seq(LDT), HasMark(a), HasLetter(t)
    PROVE  Cardinality(Marks(a \o t)) >= 2
<1>1. /\ Len(a) \in Nat /\ DOMAIN a = 1 .. Len(a) /\ Len(t) \in Nat /\ DOMAIN t = 1 .. Len(t)
      /\ DOMAIN (a \o t) = 1 .. Len(a) + Len(t)
      /\ \A i \in 1 .. Len(a) : (a \o t)[i] = a[i]
      /\ \A j \in 1 .. Len(t) : (a \o t)[Len(a) + j] = t[j]
  BY ConcatProperties
<1>. DEFINE s == a \o t
            n == Len(a) + Len(t)
<1>2. DOMAIN s = 1 .. n /\ n \in Nat
      /\ (\A i \in 1 .. Len(a) : s[i] = a[i]) /\ (\A j \in 1 .. Len(t) : s[Len(a) + j] = t[j])
  BY <1>1
<1>3. PICK i \in 1 .. Len(a) : a[i] \in Letters \/ (i = 1 /\ a[i] \in Digits)
  BY <1>1 DEF HasMark, Marks
<1>4. PICK j \in 1 .. Len(t) : t[j] \in Letters
  BY <1>1 DEF HasLetter
<1>. DEFINE k == Len(a) + j
<1>. HIDE DEF s
<1>5. k \in 1 .. n /\ i \in 1 .. n /\ i # k
  BY <1>1
<1>6. i \in Marks(s) /\ k \in Marks(s)
  BY <1>2, <1>3, <1>4, <1>5 DEF Marks
<1>. HIDE DEF k, n
<1>7. IsFiniteSet(Marks(s))
  BY MarksFinite, Associate DEF s, Associates
<1>8. {i, k} \subseteq Marks(s)
  BY <1>6
<1>9. Cardinality({i, k}) <= Cardinality(Marks(s)) /\ Cardinality(Marks(s)) \in Nat
  BY <1>7, <1>8, FS_Subset, FS_CardinalityType
<1>10. Cardinality({i, k}) = 2
  <2>1. IsFiniteSet({i}) /\ Cardinality({i}) = 1 /\ k \notin {i} /\ {i, k} = {i} \cup {k}
    BY <1>5, FS_Singleton
  <2>2. Cardinality({i} \cup {k}) = Cardinality({i}) + 1
    BY <2>1, FS_AddElement
  <2>. QED  BY <2>1, <2>2
<1>. QED  BY <1>9, <1>10 DEF s

\* Every word of the executor has its letter.
LEMMA WordHasLetter == \A w \in Words : HasLetter(Word(TRUE, w))
<1>. SUFFICES ASSUME NEW w \in Words PROVE HasLetter(Word(TRUE, w))
  OBVIOUS
<1>1. Word(TRUE, w) = w /\ Response(w)
  BY Responses DEF Word, Rsp
<1>2. w[1] \in Letters
  BY DEF Letters
<1>3. 1 \in DOMAIN w
  BY <1>1, EmptySeq DEF Response
<1>. QED  BY <1>1, <1>2, <1>3 DEF HasLetter

\* A letter in a register is a letter that is due, a letter or a digit in it is a mark.
LEMMA CharHasMark ==
    \A x : /\ x \in Letters => HasLetter(Char(TRUE, x))
           /\ x \in LD => HasMark(Char(TRUE, x))
<1>. SUFFICES ASSUME NEW x, x \in LD
              PROVE  (x \in Letters => HasLetter(Char(TRUE, x))) /\ HasMark(Char(TRUE, x))
  BY DEF LD
<1>1. Char(TRUE, x) = <<x>>
  BY DEF Char, LDT
<1>2. ASSUME NEW s, s = <<x>> PROVE 1 \in DOMAIN s /\ s[1] = x
  BY <1>2
<1>3. 1 \in DOMAIN Char(TRUE, x) /\ Char(TRUE, x)[1] = x
  BY <1>1, <1>2
<1>. QED  BY <1>3 DEF HasLetter, HasMark, Marks, LD

\* No response comes to hbints while it is full: two words would be in the stages, and the host
\* would wait.
LEMMA NoOverrunOn ==
    ASSUME NEW b, NEW w, NEW stb, NEW reset, NEW int, NEW period, NEW cstb, NEW c,
           Clocks(b, w, stb, reset, int, period, cstb, c), HcIInv, ~w_reset, Paced
    PROVE  NoOverrun'
<1>. SUFFICES ASSUME o_rsp_stb', o_int_stb', int_full' PROVE FALSE
  BY DEF NoOverrun, int_busy
<1>0. TAlone /\ ZAlone /\ OneI /\ GapHolds /\ NoGap /\ IntHolds /\ DwHolds /\ Flags /\ TypeOK /\ expect = AllDue
  BY DEF HcIInv, HistoryIsTrue
<1>1. gap = 0 /\ ~o_rsp_stb /\ Outstanding < Window
  BY RspNext
<1>2. Outstanding < 2 /\ Outstanding \in Nat /\ Outstanding = Cardinality(Marks(expect))
  <2>1. Window \in Nat /\ Window <= 2
    BY HbConsoleAssumption DEF Paced
  <2>2. Outstanding = Cardinality(Marks(expect))
    BY DEF Outstanding, Marks
  <2>3. IsFiniteSet(Marks(expect)) => Outstanding \in Nat
    BY <2>2, FS_CardinalityType
  <2>4. AllDue \in Seq(LDT)
    BY <1>0, AllType
  <2>5. IsFiniteSet(Marks(expect))
    BY <1>0, <2>4, MarksFinite
  <2>. QED  BY <1>1, <2>1, <2>2, <2>3, <2>5
<1>3. int_full /\ o_int_stb /\ o_idl_stb /\ o_dw_stb
  BY <1>0, <1>1 DEF Clocks, HbInts, IntFull, IntHolds, idl_busy, dw_busy, Flags
<1>4. o_int_word \in Words
  <2>1. o_int_word # RSP_RESET
    BY <1>0, <1>1, <1>3 DEF TAlone
  <2>. QED  BY <1>0, <1>3, <2>1 DEF IntHolds, Rsp
<1>. DEFINE q4 == DwDue \o IdlDue
            q3 == GxDue \o q4
            q2 == NlDue \o q3
            q1 == PsDue \o q2
            s  == IntDue \o RspDue
<1>5. /\ PsDue \in Seq(LDT) /\ NlDue \in Seq(LDT) /\ GxDue \in Seq(LDT) /\ DwDue \in Seq(LDT)
      /\ IdlDue \in Seq(LDT) /\ IntDue \in Seq(LDT) /\ RspDue \in Seq(LDT)
  BY <1>0, DueTypes
<1>6. HasLetter(s) /\ s \in Seq(LDT)
  <2>1. IntDue = Word(TRUE, o_int_word)
    BY <1>3 DEF IntDue, Word
  <2>2. HasLetter(IntDue)
    BY <1>4, <2>1, WordHasLetter
  <2>3. Associates(IntDue, RspDue, RspDue)
    BY <1>5, Associate
  <2>. QED  BY <1>5, <2>2, <2>3, MarksJoin DEF Associates
<1>7. \/ HasLetter(IdlDue) \/ HasLetter(DwDue) \/ HasLetter(GxDue) \/ HasLetter(NlDue) \/ HasMark(PsDue)
  <2>1. CASE o_idl_word \in Words
    <3>1. IdlDue = Word(TRUE, o_idl_word)
      BY <1>3 DEF IdlDue, Word
    <3>. QED  BY <2>1, <3>1, WordHasLetter
  <2>2. CASE o_idl_word = RSP_RESET
    BY <1>0, <1>3, <2>2 DEF TAlone
  <2>3. CASE o_idl_word = IDLE_WORD
    BY <1>0, <1>3, <2>3 DEF ZAlone
  <2>4. CASE o_idl_word = INT_WORD
    <3>1. o_dw_bits # "I"
      BY <1>0, <1>3, <2>4 DEF OneI, IdlI, DwI
    <3>2. o_dw_bits # "Z"
      BY <1>0, <1>1, <1>3, <2>4 DEF GapHolds, IdlI
    <3>3. o_dw_bits # "T"
      BY <1>0, <1>3 DEF TAlone
    <3>4. o_dw_bits \in LD
      BY <1>0, <1>3, <3>1, <3>2, <3>3 DEF DwHolds, Out, LDT
    <3>5. CASE o_dw_bits \in Letters
      <4>1. Char(o_dw_stb, o_dw_bits) = Char(TRUE, o_dw_bits) /\ HasLetter(Char(TRUE, o_dw_bits))
        BY <1>3, <3>5, CharHasMark DEF Char
      <4>2. Char(o_dw_stb, o_dw_bits) \in Seq(LDT)
        BY <1>0, CharFacts DEF Flags
      <4>3. r_word \in Seq(LDT)
        <5>1. Digits \subseteq LDT
          BY DEF LDT, LD
        <5>. QED  BY <1>0, <5>1 DEF DwHolds
      <4>. QED  BY <4>1, <4>2, <4>3, MarksJoin DEF DwDue
    <3>6. CASE o_dw_bits \in Digits
      <4>1. o_gx_stb /\ o_gx_char \in LD
        BY <1>0, <1>3, <3>6 DEF NoGap
      <4>2. o_gx_char \in Letters => HasLetter(GxDue)
        BY <4>1, CharHasMark DEF GxDue, Char
      <4>3. o_gx_char \in Digits => o_nl_stb /\ o_nl_byte \in LD
        BY <1>0, <4>1 DEF NoGap
      <4>4. o_nl_stb /\ o_nl_byte \in Letters => HasLetter(NlDue)
        BY CharHasMark DEF NlDue, Char
      <4>5. o_nl_stb /\ o_nl_byte \in Digits => HasMark(PsDue)
        BY <1>0, CharHasMark DEF NoGap, PsDue, Char
      <4>. QED  BY <4>1, <4>2, <4>3, <4>4, <4>5 DEF LD
    <3>. QED  BY <3>4, <3>5, <3>6 DEF LD
  <2>. QED  BY <1>0, <2>1, <2>2, <2>3, <2>4 DEF TypeOK
<1>8. q4 \in Seq(LDT) /\ (HasLetter(IdlDue) \/ HasLetter(DwDue) => HasLetter(q4))
  BY <1>5, MarksJoin, Associate DEF Associates
<1>. HIDE DEF q4
<1>9. q3 \in Seq(LDT) /\ (HasLetter(q4) \/ HasLetter(GxDue) => HasLetter(q3))
  BY <1>5, <1>8, MarksJoin, Associate DEF Associates
<1>. HIDE DEF q3
<1>10. q2 \in Seq(LDT) /\ (HasLetter(q3) \/ HasLetter(NlDue) => HasLetter(q2))
  BY <1>5, <1>9, MarksJoin, Associate DEF Associates
<1>. HIDE DEF q2
<1>11. q1 \in Seq(LDT) /\ (HasLetter(q2) \/ HasMark(PsDue) => HasMark(q1))
  BY <1>5, <1>10, MarksJoin, Associate DEF Associates
<1>12. HasMark(q1)
  BY <1>7, <1>8, <1>9, <1>10, <1>11
<1>. HIDE DEF s
<1>13. q1 \o s = AllDue
  <2>1. /\ Associates(PsDue, q2, s) /\ Associates(NlDue, q3, s) /\ Associates(GxDue, q4, s)
        /\ Associates(DwDue, IdlDue, s)
    BY <1>5, <1>6, <1>8, <1>9, <1>10, Associate
  <2>2. q4 \o s = DwDue \o (IdlDue \o s)
    BY <2>1 DEF Associates, q4
  <2>3. q3 \o s = GxDue \o (q4 \o s)
    BY <2>1 DEF Associates, q3
  <2>4. q2 \o s = NlDue \o (q3 \o s)
    BY <2>1 DEF Associates, q2
  <2>5. q1 \o s = PsDue \o (q2 \o s)
    BY <2>1 DEF Associates
  <2>6. AllDue = PsDue \o (NlDue \o (GxDue \o (DwDue \o (IdlDue \o s))))
    BY DEF AllDue, s
  <2>. QED  BY <2>2, <2>3, <2>4, <2>5, <2>6
<1>. HIDE DEF q1
<1>14. Cardinality(Marks(expect)) >= 2
  BY <1>0, <1>6, <1>11, <1>12, <1>13, TwoMarks
<1>. QED  BY <1>2, <1>14

-----------------------------------------------------------------------------
\* The answer to a reset, once it comes next, comes next until it is in the line end's register.
LEMMA TComesOn ==
    ASSUME NEW b, NEW w, NEW stb, NEW reset, NEW int, NEW period, NEW cstb, NEW c,
           Clocks(b, w, stb, reset, int, period, cstb, c), HcIInv, ~w_reset, ~o_nl_stb, TComes
    PROVE  LineGoesOn'
<1>0. TAlone /\ NlHolds /\ Flags
  BY DEF HcIInv
<1>1. last_cr /\ ~cr_state /\ ~nl_busy(b)
  BY <1>0 DEF NlHolds, nl_busy
<1>2. ~gx_busy(b)
  BY <1>1 DEF gx_busy
<1>3. CASE o_gx_stb /\ o_gx_char = "T"
  BY <1>1, <1>3 DEF Clocks, HbNewline, LineGoesOn
<1>4. ~o_gx_stb => ~o_nl_stb'
  BY GxNlNext
<1>5. CASE o_dw_stb /\ o_dw_bits = "T"
  <2>1. ~o_gx_stb /\ o_gx_stb' /\ o_gx_char' = "T"
    BY <1>0, <1>2, <1>5, GxNlNext DEF TAlone
  <2>. QED  BY <1>4, <2>1 DEF LineGoesOn, TComes
<1>6. CASE o_idl_stb /\ o_idl_word = RSP_RESET
  <2>1. ~o_dw_stb /\ ~o_gx_stb
    BY <1>0, <1>6 DEF TAlone
  <2>2. o_dw_stb' /\ o_dw_bits' = "T"
    BY <1>6, <2>1, DwNext DEF DwTakes, dw_busy
  <2>. QED  BY <1>4, <2>1, <2>2 DEF LineGoesOn, TComes
<1>7. CASE o_int_stb /\ o_int_word = RSP_RESET
  <2>1. ~o_idl_stb /\ ~o_gx_stb
    BY <1>0, <1>7 DEF TAlone
  <2>2. o_idl_stb' /\ o_idl_word' = RSP_RESET
    BY <1>7, <2>1, IdlNext DEF IdlTakes, idl_busy
  <2>. QED  BY <1>4, <2>1, <2>2 DEF LineGoesOn, TComes
<1>8. CASE o_rsp_stb /\ o_rsp_word = RSP_RESET
  <2>1. ~o_int_stb /\ ~pending_interrupt /\ ~o_gx_stb
    BY <1>0, <1>8 DEF TAlone
  <2>2. o_int_stb' /\ o_int_word' = RSP_RESET
    BY <1>8, <2>1 DEF Clocks, HbInts, int_busy
  <2>. QED  BY <1>4, <2>1, <2>2 DEF LineGoesOn, TComes
<1>. QED  BY <1>3, <1>5, <1>6, <1>7, <1>8 DEF TComes

\* What follows a carriage return stays so while hbnewline does not give its character.
LEMMA LineGoesOnOn ==
    ASSUME NEW b, NEW w, NEW stb, NEW reset, NEW int, NEW period, NEW cstb, NEW c,
           Clocks(b, w, stb, reset, int, period, cstb, c), HcIInv, LineGoesOn, ~o_nl_stb \/ tx_busy(b)
    PROVE  LineGoesOn'
<1>1. CASE w_reset
  BY <1>1, ResetClears DEF Cleared, LineGoesOn, TComes
<1>2. CASE ~w_reset /\ ~o_nl_stb
  BY <1>2, TComesOn DEF LineGoesOn
<1>3. CASE ~w_reset /\ o_nl_stb /\ tx_busy(b)
  <2>1. o_nl_byte \in {LF, "T"} /\ o_nl_byte # CR
    BY <1>3 DEF LineGoesOn, CR, LF
  <2>2. nl_loaded
    BY <1>3, <2>1 DEF HcIInv, NlHolds
  <2>3. nl_busy(b)
    BY <1>3, <2>2 DEF nl_busy
  <2>4. o_nl_stb' = o_nl_stb /\ o_nl_byte' = o_nl_byte
    BY <1>3, <2>3 DEF Clocks, HbNewline, newline
  <2>. QED  BY <1>3, <2>1, <2>4 DEF LineGoesOn
<1>. QED  BY <1>1, <1>2, <1>3

\* A carriage return on the line is followed by its line feed, or by the answer to a reset.
LEMMA LineEndsOn ==
    ASSUME NEW b, NEW w, NEW stb, NEW reset, NEW int, NEW period, NEW cstb, NEW c,
           Clocks(b, w, stb, reset, int, period, cstb, c), HcIInv
    PROVE  LineEnds' /\ (last_out = CR /\ last_out' # CR => last_out' \in {LF, "T"})
<1>0. LineEnds /\ NlHolds /\ Flags /\ TypeOK
  BY DEF HcIInv
<1>1. ps_data[1] = "bus" => ps_data = <<"bus", ps_data[2]>>
  BY <1>0 DEF TypeOK
<1>2. ps_data[1] \in {"bus", "console"}
  BY <1>0 DEF TypeOK
<1>3. \A x : <<"bus", x>>[1] = "bus" /\ <<"bus", x>>[2] = x /\ <<"console", x>>[1] = "console"
  OBVIOUS
<1>4. CASE tx_busy(b)
  <2>1. ps_full' = ps_full /\ ps_data' = ps_data /\ last_out' = last_out
    BY <1>4 DEF Clocks, Arbiter, arbiter, History, tx_busy
  <2>2. LineGoesOn => LineGoesOn'
    BY <1>4, LineGoesOnOn
  <2>. QED  BY <1>0, <2>1, <2>2 DEF LineEnds
<1>5. CASE ~tx_busy(b)
  <2>1. /\ o_nl_stb => ps_full' = TRUE /\ ps_data' = <<"bus", o_nl_byte>>
        /\ ~o_nl_stb => ~ps_full' \/ ps_data' = <<"console", i_console_data>>
    BY <1>5 DEF Clocks, Arbiter, tx_busy
  <2>2. last_out' = IF ps_full /\ ps_data[1] = "bus" THEN ps_data[2] ELSE last_out
    BY <1>5 DEF Clocks, History, tx_busy
  <2>3. ps_full' /\ ps_data' = <<"bus", CR>> => LineGoesOn'
    <3>. SUFFICES ASSUME ps_full', ps_data' = <<"bus", CR>> PROVE LineGoesOn'
      OBVIOUS
    <3>1. o_nl_stb /\ o_nl_byte = CR
      <4>1. ps_data'[1] = "bus" /\ ps_data'[2] = CR
        BY <1>3
      <4>2. o_nl_stb
        BY <1>3, <2>1, <4>1
      <4>. QED  BY <1>3, <2>1, <4>1, <4>2
    <3>2. cr_state /\ last_cr
      BY <1>0, <3>1, Distinct DEF NlHolds, Out, LF, CR
    <3>3. CASE w_reset
      BY <3>3, ResetClears DEF Cleared, LineGoesOn, TComes
    <3>4. CASE ~w_reset
      <4>1. nl_busy(b)
        BY <1>5, <3>2 DEF nl_busy
      <4>2. o_nl_stb' = TRUE /\ o_nl_byte' = LF
        BY <1>5, <3>2, <3>4, <4>1 DEF Clocks, HbNewline
      <4>. QED  BY <4>2 DEF LineGoesOn
    <3>. QED  BY <3>3, <3>4
  <2>4. last_out' = CR => LineGoesOn
    BY <1>0, <1>1, <2>2 DEF LineEnds
  <2>5. ASSUME last_out' = CR
        PROVE  IF ps_full' /\ ps_data'[1] = "bus" THEN ps_data'[2] \in {LF, "T", CR} ELSE LineGoesOn'
    <3>1. CASE o_nl_stb
      <4>1. o_nl_byte \in {LF, "T"}
        BY <2>4, <2>5, <3>1 DEF LineGoesOn
      <4>2. ps_full' /\ ps_data'[1] = "bus" /\ ps_data'[2] = o_nl_byte
        BY <1>3, <2>1, <3>1
      <4>. QED  BY <4>1, <4>2
    <3>2. CASE ~o_nl_stb
      <4>1. LineGoesOn'
        BY <2>4, <2>5, <3>2, LineGoesOnOn
      <4>2. ~(ps_full' /\ ps_data'[1] = "bus")
        BY <1>3, <2>1, <3>2
      <4>. QED  BY <4>1, <4>2
    <3>. QED  BY <3>1, <3>2
  <2>6. last_out = CR /\ last_out' # CR => last_out' \in {LF, "T"}
    BY <1>0, <2>2 DEF LineEnds
  <2>. QED  BY <2>3, <2>5, <2>6 DEF LineEnds
<1>. QED  BY <1>4, <1>5

-----------------------------------------------------------------------------
\* Where no word is under way, the next character that is due starts one.
Starting(s) == s = <<>> \/ Head(s) \in Starts

\* A sequence that does not begin with a digit still does not with another behind it.
LEMMA StartsJoin ==
    ASSUME NEW a \in Seq(LDT), NEW t \in Seq(LDT), Starting(a), a = <<>> => Starting(t)
    PROVE  Starting(a \o t)
<1>1. CASE a = <<>>
  BY <1>1, ConcatEmptySeq
<1>2. CASE a # <<>>
  <2>1. Head(a \o t) = Head(a)
    <3>1. Head(a) = a[1] /\ 1 \in 1 .. Len(a)
      BY <1>2, EmptySeq, HeadTailProperties
    <3>2. (a \o t)[1] = a[1] /\ a \o t \in Seq(LDT) /\ a \o t # <<>>
      BY <3>1, ConcatProperties
    <3>. QED  BY <3>1, <3>2, HeadTailProperties
  <2>. QED  BY <1>2, <2>1 DEF Starting
<1>. QED  BY <1>1, <1>2

\* A word does not begin with a digit.
LEMMA WordStarts == \A stb, w : Starting(Word(stb, w))
BY Responses DEF Starting, Starts, Word, Response

\* A register without a digit gives no digit to begin with.
LEMMA CharStarts == \A stb, x : (stb => x \notin Digits) => Starting(Char(stb, x))
<1>. SUFFICES ASSUME NEW stb, NEW x, stb => x \notin Digits PROVE Starting(Char(stb, x))
  OBVIOUS
<1>1. CASE stb /\ x \in LDT
  <2>1. Char(stb, x) = <<x>> /\ x \in Starts
    BY <1>1 DEF Char, LDT, LD, Starts
  <2>2. ASSUME NEW s, s = <<x>> PROVE Head(s) = x
    BY <2>2
  <2>. QED  BY <2>1, <2>2 DEF Starting
<1>2. CASE ~(stb /\ x \in LDT)
  BY <1>2 DEF Char, Starting
<1>. QED  BY <1>1, <1>2

\* With nothing of a response in the transmitter, what is due does not begin with a digit.
LEMMA AllStarts ==
    ASSUME HcIInv, PsDue = <<>>
    PROVE  Starting(AllDue)
<1>0. NoGap /\ Flags /\ DwHolds
  BY DEF HcIInv
<1>1. /\ PsDue \in Seq(LDT) /\ NlDue \in Seq(LDT) /\ GxDue \in Seq(LDT) /\ DwDue \in Seq(LDT)
      /\ IdlDue \in Seq(LDT) /\ IntDue \in Seq(LDT) /\ RspDue \in Seq(LDT)
  BY <1>0, DueTypes
<1>. DEFINE t6 == IntDue \o RspDue
            t5 == IdlDue \o t6
            t4 == DwDue \o t5
            t3 == GxDue \o t4
            t2 == NlDue \o t3
<1>2. \A x, y \in Seq(LDT) : x \o y \in Seq(LDT)
  BY Associate DEF Associates
<1>3. \A x : <<x>> # <<>>
  OBVIOUS
<1>4. t6 \in Seq(LDT) /\ Starting(t6)
  <2>1. Starting(IntDue) /\ Starting(RspDue)
    BY WordStarts DEF IntDue, RspDue
  <2>. QED  BY <1>1, <1>2, <2>1, StartsJoin
<1>. HIDE DEF t6
<1>5. t5 \in Seq(LDT) /\ Starting(t5)
  <2>1. Starting(IdlDue)
    BY WordStarts DEF IdlDue
  <2>. QED  BY <1>1, <1>2, <1>4, <2>1, StartsJoin
<1>. HIDE DEF t5
<1>6. t4 \in Seq(LDT) /\ (GxDue = <<>> => Starting(t4))
  <2>1. t4 \in Seq(LDT)
    BY <1>1, <1>2, <1>5
  <2>2. ASSUME GxDue = <<>> PROVE Starting(DwDue)
    <3>1. o_dw_stb => o_dw_bits \notin Digits
      BY <1>0, <1>3, <2>2 DEF NoGap, GxDue, Char, LDT
    <3>2. Starting(Char(o_dw_stb, o_dw_bits))
      BY <3>1, CharStarts
    <3>3. Char(o_dw_stb, o_dw_bits) = <<>> => r_word = <<>>
      BY <1>0, <1>3 DEF DwHolds, Char, LDT
    <3>4. Char(o_dw_stb, o_dw_bits) \in Seq(LDT) /\ r_word \in Seq(LDT)
      <4>1. Digits \subseteq LDT
        BY DEF LDT, LD
      <4>. QED  BY <1>0, <4>1, CharFacts DEF Flags, DwHolds
    <3>5. Starting(<<>>)
      BY DEF Starting
    <3>. QED  BY <3>2, <3>3, <3>4, <3>5, StartsJoin DEF DwDue
  <2>. QED  BY <1>1, <1>5, <2>1, <2>2, StartsJoin
<1>. HIDE DEF t4
<1>7. t3 \in Seq(LDT) /\ (NlDue = <<>> => Starting(t3))
  <2>1. NlDue = <<>> => Starting(GxDue)
    <3>1. NlDue = <<>> => ~(o_gx_stb /\ o_gx_char \in Digits)
      BY <1>0, <1>3 DEF NoGap, NlDue, Char, LDT
    <3>. QED  BY <3>1, CharStarts DEF GxDue
  <2>. QED  BY <1>1, <1>2, <1>6, <2>1, StartsJoin
<1>. HIDE DEF t3
<1>8. t2 \in Seq(LDT) /\ Starting(t2)
  <2>1. Starting(NlDue)
    <3>1. ~(o_nl_stb /\ o_nl_byte \in Digits)
      BY <1>0, <1>3 DEF NoGap, PsDue, Char, LDT
    <3>. QED  BY <3>1, CharStarts DEF NlDue
  <2>. QED  BY <1>1, <1>2, <1>7, <2>1, StartsJoin
<1>9. AllDue = PsDue \o t2
  BY DEF AllDue, t2, t3, t4, t5, t6
<1>. HIDE DEF t2
<1>10. AllDue = t2
  BY <1>8, <1>9, ConcatEmptySeq
<1>. QED  BY <1>8, <1>10

\* Two sequences that are the same behind the same beginning are the same.
LEMMA CancelLeft == \A a, t, u \in Seq(LDT) : a \o t = a \o u => t = u
BY ConcatSimplifications

\* The head and the tail of a sequence with one more character in front.
LEMMA HeadTailOf ==
    \A x \in LDT, t \in Seq(LDT) : /\ <<x>> \o t \in Seq(LDT) /\ <<x>> \o t # <<>>
                                   /\ Head(<<x>> \o t) = x /\ Tail(<<x>> \o t) = t
<1>. SUFFICES ASSUME NEW x \in LDT, NEW t \in Seq(LDT)
              PROVE  /\ <<x>> \o t \in Seq(LDT) /\ <<x>> \o t # <<>>
                     /\ Head(<<x>> \o t) = x /\ Tail(<<x>> \o t) = t
  OBVIOUS
<1>. DEFINE h == <<x>>
            s == h \o t
<1>1. h \in Seq(LDT) /\ Len(h) = 1 /\ h[1] = x
  OBVIOUS
<1>. HIDE DEF h
<1>2. s \in Seq(LDT) /\ s[1] = x /\ s # <<>>
  <2>1. s \in Seq(LDT) /\ Len(s) = Len(h) + Len(t)
        /\ \A i \in 1 .. Len(h) + Len(t) : s[i] = IF i <= Len(h) THEN h[i] ELSE t[i - Len(h)]
    BY <1>1, ConcatProperties
  <2>2. Len(t) \in Nat /\ 1 \in 1 .. Len(h) + Len(t)
    BY <1>1
  <2>. HIDE DEF s
  <2>3. s[1] = x
    BY <1>1, <2>1, <2>2
  <2>4. Len(s) # 0
    BY <1>1, <2>1, <2>2
  <2>. QED  BY <2>1, <2>3, <2>4, EmptySeq
<1>. HIDE DEF s
<1>3. Head(s) = x /\ s = <<Head(s)>> \o Tail(s) /\ Tail(s) \in Seq(LDT)
  BY <1>2, HeadTailProperties
<1>4. h \o t = h \o Tail(s)
  BY <1>3 DEF h, s
<1>5. t = Tail(s)
  BY <1>1, <1>3, <1>4, CancelLeft
<1>. QED  BY <1>2, <1>3, <1>5 DEF s, h

\* The history takes off what goes out.
Due(b)  == ps_full /\ ~b /\ ps_data[1] = "bus" /\ expect # <<>> /\ ps_data[2] = Head(expect)
Rest(b) == IF Due(b) THEN Tail(expect) ELSE expect
Kept(b) == IF ps_full' /\ ps_data'[1] = "bus" /\ Rest(b) # <<>> /\ ps_data'[2] = Head(Rest(b))
           THEN <<Head(Rest(b))>> ELSE <<>>
Behind  == NlDue \o (GxDue \o (DwDue \o (IdlDue \o (IntDue \o RspDue))))

\* What is due is what the transmitter holds and what is behind it.
LEMMA BehindType ==
    ASSUME Flags, DwHolds
    PROVE  /\ AllDue = PsDue \o Behind /\ Behind \in Seq(LDT)
           /\ \E u \in Seq(LDT) : Behind = NlDue \o u
<1>1. /\ PsDue \in Seq(LDT) /\ NlDue \in Seq(LDT) /\ GxDue \in Seq(LDT) /\ DwDue \in Seq(LDT)
      /\ IdlDue \in Seq(LDT) /\ IntDue \in Seq(LDT) /\ RspDue \in Seq(LDT)
  BY DueTypes
<1>2. \A x, y \in Seq(LDT) : x \o y \in Seq(LDT)
  BY Associate DEF Associates
<1>. DEFINE u == GxDue \o (DwDue \o (IdlDue \o (IntDue \o RspDue)))
<1>3. u \in Seq(LDT)
  BY <1>1, <1>2, Zenon
<1>4. AllDue = PsDue \o Behind /\ Behind = NlDue \o u
  BY DEF AllDue, Behind
<1>. HIDE DEF u
<1>. QED  BY <1>1, <1>2, <1>3, <1>4

\* What is due is what leaves the transmitter in this clock and the rest.
LEMMA RestIs ==
    ASSUME HcIInv, NEW b \in BOOLEAN
    PROVE  /\ AllDue = PsOut(b) \o Rest(b) /\ Rest(b) \in Seq(LDT)
           /\ PsOut(b) = <<>> => ~Due(b) /\ Rest(b) = AllDue
           /\ PsOut(b) # <<>> => Due(b) /\ PsOut(b) = PsDue /\ Rest(b) = Behind
<1>0. Flags /\ DwHolds /\ expect = AllDue
  BY DEF HcIInv, HistoryIsTrue
<1>1. AllDue = PsDue \o Behind /\ Behind \in Seq(LDT) /\ AllDue \in Seq(LDT)
  BY <1>0, BehindType, AllType
<1>2. CASE PsOut(b) = <<>>
  <2>1. ~Due(b)
    <3>. SUFFICES ASSUME Due(b) PROVE FALSE
      OBVIOUS
    <3>1. ps_data[2] \in LDT
      BY <1>0, <1>1, HeadTailProperties DEF Due
    <3>2. PsOut(b) = <<ps_data[2]>>
      BY <3>1 DEF Due, PsOut, PsDue, Char
    <3>. QED  BY <1>2, <3>2
  <2>2. <<>> \o AllDue = AllDue
    BY <1>1, ConcatEmptySeq
  <2>. QED  BY <1>0, <1>1, <1>2, <2>1, <2>2 DEF Rest
<1>3. CASE PsOut(b) # <<>>
  <2>. DEFINE x == ps_data[2]
  <2>1. ps_full /\ ~b /\ ps_data[1] = "bus" /\ x \in LDT /\ PsOut(b) = PsDue /\ PsDue = <<x>>
    BY <1>3 DEF PsOut, PsDue, Char
  <2>. HIDE DEF x
  <2>2. AllDue # <<>> /\ Head(AllDue) = x /\ Tail(AllDue) = Behind
    BY <1>1, <2>1, HeadTailOf
  <2>3. Due(b)
    BY <1>0, <2>1, <2>2 DEF Due, x
  <2>. QED  BY <1>0, <1>1, <1>3, <2>1, <2>2, <2>3 DEF Rest
<1>. QED  BY <1>2, <1>3

\* The history of what is due follows what the stages hold.
LEMMA ExpectOn ==
    ASSUME NEW b, NEW w, NEW stb, NEW reset, NEW int, NEW period, NEW cstb, NEW c,
           Clocks(b, w, stb, reset, int, period, cstb, c), HcIInv, TypeOK', Flags', DwHolds'
    PROVE  expect' = AllDue'
<1>0. b \in BOOLEAN /\ period \in BOOLEAN /\ Arbiter(b) /\ Flags /\ DwHolds
  BY DEF Clocks, HcIInv
<1>1. expect' = (IF w_reset THEN Kept(b) ELSE Rest(b)) \o RspDue'
  <2>1. expect' = (IF w_reset THEN Kept(b) ELSE Rest(b)) \o (IF o_rsp_stb' THEN o_rsp_word' ELSE <<>>)
    BY DEF Clocks, History, Kept, Rest, Due
  <2>2. RspDue' = IF o_rsp_stb' THEN o_rsp_word' ELSE <<>>
    BY DEF TypeOK, RspDue, Word, Rsp
  <2>. QED  BY <2>1, <2>2
<1>2. AllDue = PsOut(b) \o Rest(b) /\ Rest(b) \in Seq(LDT)
  BY <1>0, RestIs
<1>3. RspDue' \in Seq(LDT) /\ PsDue' \in Seq(LDT) /\ AllDue' \in Seq(LDT) /\ PsOut(b) \in Seq(LDT)
  <2>1. RspDue' \in Seq(LDT) /\ PsDue' \in Seq(LDT)
    BY DueTypesNext
  <2>2. PsOut(b) \in Seq(LDT)
    BY <1>0, OutTypes
  <2>3. AllDue' \in Seq(LDT)
    <3>1. /\ NlDue' \in Seq(LDT) /\ GxDue' \in Seq(LDT) /\ DwDue' \in Seq(LDT)
          /\ IdlDue' \in Seq(LDT) /\ IntDue' \in Seq(LDT)
      BY DueTypesNext
    <3>2. \A x, y \in Seq(LDT) : x \o y \in Seq(LDT)
      BY Associate DEF Associates
    <3>3. AllDue' = PsDue' \o (NlDue' \o (GxDue' \o (DwDue' \o (IdlDue' \o (IntDue' \o RspDue')))))
      BY DEF AllDue
    <3>. QED  BY <2>1, <3>1, <3>2, <3>3, Zenon
  <2>. QED  BY <2>1, <2>2, <2>3
<1>4. CASE ~w_reset
  <2>1. AllDue \o RspDue' = PsOut(b) \o AllDue'
    BY <1>0, <1>4, AllFlow DEF Clocks
  <2>2. Associates(PsOut(b), Rest(b), RspDue') /\ Associates(Rest(b), RspDue', RspDue')
    BY <1>2, <1>3, Associate
  <2>3. PsOut(b) \o (Rest(b) \o RspDue') = PsOut(b) \o AllDue' /\ Rest(b) \o RspDue' \in Seq(LDT)
    BY <1>2, <2>1, <2>2 DEF Associates
  <2>4. Rest(b) \o RspDue' = AllDue'
    BY <1>3, <2>3, CancelLeft
  <2>. QED  BY <1>1, <1>4, <2>4
<1>5. CASE w_reset
  <2>1. AllDue' = PsDue' \o RspDue'
    <3>1. Cleared'
      BY <1>5, ResetClears
    <3>2. NlDue' = <<>> /\ GxDue' = <<>> /\ IdlDue' = <<>> /\ IntDue' = <<>>
      BY <3>1 DEF Cleared, NlDue, GxDue, IdlDue, IntDue, Char, Word
    <3>3. DwDue' = <<>>
      <4>1. Char(o_dw_stb', o_dw_bits') = <<>> /\ r_word' = <<>> /\ <<>> \o <<>> = <<>>
        BY <3>1 DEF Cleared, Char
      <4>. QED  BY <4>1 DEF DwDue
    <3>4. <<>> \o RspDue' = RspDue'
      BY <1>3, ConcatEmptySeq
    <3>5. AllDue' = PsDue' \o (NlDue' \o (GxDue' \o (DwDue' \o (IdlDue' \o (IntDue' \o RspDue')))))
      BY DEF AllDue
    <3>. QED  BY <3>2, <3>3, <3>4, <3>5
  <2>2. PsDue' = <<>> \/ \E u \in Seq(LDT) : Rest(b) = PsDue' \o u
    <3>1. (PsOut(b) = PsDue /\ PsDue' = NlOut(b)) \/ (PsOut(b) = <<>> /\ PsDue' = PsDue /\ NlOut(b) = <<>>)
      BY <1>0, PsFlow
    <3>2. AllDue = PsDue \o Behind /\ Behind \in Seq(LDT) /\ \E u \in Seq(LDT) : Behind = NlDue \o u
      BY <1>0, BehindType
    <3>3. CASE PsOut(b) # <<>>
      <4>1. PsDue' = NlOut(b) /\ Rest(b) = Behind
        BY <1>0, <3>1, <3>3, RestIs
      <4>. QED  BY <3>2, <4>1 DEF NlOut
    <3>4. CASE PsOut(b) = <<>>
      <4>1. Rest(b) = AllDue
        BY <1>0, <3>4, RestIs
      <4>2. CASE PsDue' = PsDue
        BY <3>2, <4>1, <4>2
      <4>3. CASE PsDue' = NlOut(b) /\ PsDue = <<>>
        <5>1. Rest(b) = Behind
          BY <3>2, <4>1, <4>3, ConcatEmptySeq
        <5>. QED  BY <3>2, <4>3, <5>1 DEF NlOut
      <4>. QED  BY <3>1, <3>4, <4>2, <4>3
    <3>. QED  BY <3>3, <3>4
  <2>3. Kept(b) = PsDue'
    <3>. DEFINE held == ps_full' /\ ps_data'[1] = "bus"
                x    == ps_data'[2]
    <3>1. PsDue' = IF held /\ x \in LDT THEN <<x>> ELSE <<>>
      BY DEF PsDue, Char
    <3>2. Kept(b) = IF held /\ Rest(b) # <<>> /\ x = Head(Rest(b)) THEN <<x>> ELSE <<>>
      BY DEF Kept
    <3>. HIDE DEF held, x
    <3>3. CASE held /\ x \in LDT
      <4>1. PsDue' = <<x>> /\ <<x>> # <<>>
        BY <3>1, <3>3
      <4>2. PICK u \in Seq(LDT) : Rest(b) = <<x>> \o u
        BY <2>2, <4>1
      <4>3. Rest(b) # <<>> /\ Head(Rest(b)) = x
        BY <3>3, <4>2, HeadTailOf
      <4>. QED  BY <3>2, <3>3, <4>1, <4>3
    <3>4. CASE ~(held /\ x \in LDT)
      <4>1. Rest(b) # <<>> => Head(Rest(b)) \in LDT
        BY <1>2, HeadTailProperties
      <4>. QED  BY <3>1, <3>2, <3>4, <4>1
    <3>. QED  BY <3>3, <3>4
  <2>. QED  BY <1>1, <1>5, <2>1, <2>3
<1>. QED  BY <1>4, <1>5

\* The character that leaves is the one that was due, of the bus or of the console.
LEMMA HistoryOn ==
    ASSUME NEW b, NEW w, NEW stb, NEW reset, NEW int, NEW period, NEW cstb, NEW c,
           Clocks(b, w, stb, reset, int, period, cstb, c), HcIInv, TypeOK', Flags', DwHolds'
    PROVE  HistoryIsTrue'
<1>0. /\ b \in BOOLEAN /\ TypeOK /\ Flags /\ DwHolds /\ PsHolds /\ HistoryIsTrue
      /\ con_expect = IF ps_full /\ ps_data[1] = "console" THEN <<ps_data[2]>> ELSE <<>>
  BY DEF Clocks, HcIInv, HistoryIsTrue
<1>1. ps_data[1] \in {"bus", "console"}
  BY <1>0 DEF TypeOK
<1>2. \A x : /\ <<"bus", x>>[1] = "bus" /\ <<"console", x>>[1] = "console" /\ <<"console", x>>[2] = x
             /\ <<x>> # <<>> /\ Head(<<x>>) = x /\ Tail(<<x>>) = <<>> /\ <<>> \o <<x>> = <<x>>
  OBVIOUS
<1>3. <<>> \o <<>> = <<>>
  OBVIOUS
<1>. DEFINE out   == ps_full /\ ~b
            taken == i_console_stb /\ ~o_console_busy
<1>4. con_expect' = (IF out /\ ps_data[1] # "bus" /\ con_expect # <<>> THEN Tail(con_expect) ELSE con_expect)
                      \o (IF taken THEN <<i_console_data>> ELSE <<>>)
  BY <1>1 DEF Clocks, History
<1>5. con_expect' = IF ps_full' /\ ps_data'[1] = "console" THEN <<ps_data'[2]>> ELSE <<>>
  <2>1. CASE taken
    <3>1. ~ps_full /\ ~o_nl_stb /\ ps_full' /\ ps_data' = <<"console", i_console_data>>
      BY <1>0, <2>1 DEF o_console_busy, Clocks, Arbiter, Flags
    <3>2. con_expect = <<>>
      BY <1>0, <3>1
    <3>3. con_expect' = <<i_console_data>>
      BY <1>2, <1>4, <2>1, <3>1, <3>2
    <3>. QED  BY <1>2, <3>1, <3>3
  <2>2. CASE ~taken /\ ps_full /\ b
    <3>1. ps_full' = ps_full /\ ps_data' = ps_data
      BY <2>2 DEF Clocks, Arbiter, arbiter
    <3>2. con_expect' = con_expect \o <<>>
      BY <1>4, <2>2
    <3>3. con_expect \o <<>> = con_expect
      BY <1>0
    <3>. QED  BY <1>0, <3>1, <3>2, <3>3
  <2>3. CASE ~taken /\ ~(ps_full /\ b)
    <3>1. ~ps_full' \/ ps_data' = <<"bus", o_nl_byte>>
      BY <1>0, <2>3 DEF o_console_busy, Clocks, Arbiter, Flags
    <3>2. ~(ps_full' /\ ps_data'[1] = "console")
      BY <1>2, <3>1
    <3>3. con_expect' = <<>>
      <4>1. CASE ps_full /\ ps_data[1] = "console"
        <5>1. con_expect = <<ps_data[2]>> /\ out
          BY <1>0, <2>3, <4>1
        <5>. QED  BY <1>2, <1>3, <1>4, <2>3, <4>1, <5>1
      <4>2. CASE ~(ps_full /\ ps_data[1] = "console")
        BY <1>0, <1>3, <1>4, <2>3, <4>2
      <4>. QED  BY <4>1, <4>2
    <3>. QED  BY <3>2, <3>3
  <2>. QED  BY <2>1, <2>2, <2>3
<1>6. ~garbled'
  <2>. DEFINE x     == ps_data[2]
              extra == x \in {"I", "Z", CR, LF} /\ (expect = <<>> \/ Head(expect) \in Starts)
  <2>1. garbled' = \/ garbled
                   \/ (out /\ ps_data[1] = "bus") /\ ~(expect # <<>> /\ x = Head(expect)) /\ ~extra
                   \/ out /\ ~(out /\ ps_data[1] = "bus") /\ (con_expect = <<>> \/ x # Head(con_expect))
    BY DEF Clocks, History
  <2>2. ASSUME out, ps_data[1] = "bus"
        PROVE  (expect # <<>> /\ x = Head(expect)) \/ extra
    <3>1. CASE x \in LDT
      <4>1. PsOut(b) = <<x>>
        BY <2>2, <3>1 DEF PsOut, PsDue, Char
      <4>2. Due(b)
        BY <1>0, <1>2, <4>1, RestIs
      <4>. QED  BY <4>2 DEF Due
    <3>2. CASE x \notin LDT
      <4>1. x \in {"I", "Z", CR, LF}
        BY <1>0, <2>2, <3>2 DEF PsHolds, Out
      <4>2. PsDue = <<>>
        BY <3>2 DEF PsDue, Char
      <4>3. expect = <<>> \/ Head(expect) \in Starts
        BY <1>0, <4>2, AllStarts DEF HistoryIsTrue, Starting
      <4>. QED  BY <4>1, <4>3
    <3>. QED  BY <3>1, <3>2
  <2>3. ASSUME out, ps_data[1] # "bus"
        PROVE  con_expect # <<>> /\ x = Head(con_expect)
    <3>1. con_expect = <<x>>
      BY <1>0, <1>1, <2>3
    <3>. QED  BY <1>2, <3>1
  <2>4. ~garbled
    BY <1>0 DEF HistoryIsTrue
  <2>. HIDE DEF x, extra, out
  <2>. QED  BY <2>1, <2>2, <2>3, <2>4
<1>7. expect' = AllDue'
  BY ExpectOn
<1>. QED  BY <1>5, <1>6, <1>7 DEF HistoryIsTrue

-----------------------------------------------------------------------------
\* With the stages cleared the parts about their order hold.
LEMMA AfterReset ==
    ASSUME Cleared', TypeOK'
    PROVE  NoGap' /\ TAlone' /\ ZAlone' /\ OneI' /\ GapHolds' /\ NoOverrun'
<1>. USE DEF Cleared
<1>1. NoGap' /\ ZAlone' /\ NoOverrun'
  BY DEF NoGap, ZAlone, NoOverrun, int_busy
<1>2. TAlone'
  BY DEF TAlone
<1>3. OneI'
  BY DEF OneI, IdlI, DwI
<1>4. GapHolds'
  BY DEF GapHolds, TypeOK
<1>. QED  BY <1>1, <1>2, <1>3, <1>4

\* Every clock keeps the invariant of the path.
LEMMA ClockKeeps ==
    ASSUME NEW b, NEW w, NEW stb, NEW reset, NEW int, NEW period, NEW cstb, NEW c,
           Clocks(b, w, stb, reset, int, period, cstb, c), HcIInv, Paced
    PROVE  HcIInv'
<1>1. TypeOK' /\ Flags' /\ GxHolds' /\ NlHolds' /\ PsHolds'
  BY TypeOn, FlagsHold, GxHoldsOn, NlHoldsOn, PsHoldsOn
<1>2. IntHolds' /\ DwHolds'
  BY <1>1, IntHoldsOn, DwHoldsOn
<1>3. NoGap' /\ TAlone' /\ ZAlone' /\ OneI' /\ GapHolds' /\ NoOverrun'
  <2>1. CASE w_reset
    <3>1. Cleared'
      BY <2>1, ResetClears
    <3>. QED  BY <1>1, <3>1, AfterReset
  <2>2. CASE ~w_reset
    BY <1>1, <2>2, NoGapOn, TAloneOn, ZAloneOn, OneIOn, GapHoldsOn, NoOverrunOn
  <2>. QED  BY <2>1, <2>2
<1>4. LineEnds'
  BY LineEndsOn
<1>5. HistoryIsTrue'
  BY <1>1, <1>2, HistoryOn
<1>. QED  BY <1>1, <1>2, <1>3, <1>4, <1>5 DEF HcIInv

\* The path is right at power up.
LEMMA HcInit == Init => HcIInv
<1>. SUFFICES ASSUME Init PROVE HcIInv
  OBVIOUS
<1>. USE DEF Init
<1>1. TypeOK
  <2>1. gap \in 0 .. MinGap
    BY HbConsoleAssumption
  <2>2. ps_data \in ({"bus"} \X (Starts \cup Digits \cup {"I", "Z", CR, LF, Filler})) \cup ({"console"} \X ConsoleChars)
    OBVIOUS
  <2>. QED  BY <2>1, <2>2 DEF TypeOK
<1>2. Flags /\ IntHolds /\ GxHolds /\ NlHolds /\ PsHolds /\ NoGap /\ ZAlone /\ NoOverrun
  BY DEF Flags, IntHolds, GxHolds, NlHolds, PsHolds, NoGap, ZAlone, NoOverrun, int_busy
<1>3. DwHolds
  <2>1. <<>> \in Seq(Digits)
    OBVIOUS
  <2>. QED  BY <2>1 DEF DwHolds
<1>4. TAlone
  BY DEF TAlone
<1>5. OneI /\ GapHolds
  BY <1>1 DEF OneI, IdlI, DwI, GapHolds, TypeOK
<1>6. LineEnds
  BY DEF LineEnds, CR, LF
<1>7. HistoryIsTrue
  <2>1. PsDue = <<>> /\ NlDue = <<>> /\ GxDue = <<>> /\ IdlDue = <<>> /\ IntDue = <<>>
    BY DEF PsDue, NlDue, GxDue, IdlDue, IntDue, Char, Word
  <2>2. RspDue = <<"T">>
    BY DEF RspDue, Word, Rsp, RSP_RESET
  <2>3. DwDue = <<>>
    <3>1. Char(o_dw_stb, o_dw_bits) = <<>> /\ r_word = <<>> /\ <<>> \o <<>> = <<>>
      BY DEF Char
    <3>. QED  BY <3>1 DEF DwDue
  <2>4. <<>> \o RspDue = RspDue
    <3>1. RspDue \in Seq(LDT)
      BY <1>2, <1>3, DueTypes
    <3>. QED  BY <3>1, ConcatEmptySeq
  <2>5. AllDue = <<"T">>
    BY <2>1, <2>2, <2>3, <2>4 DEF AllDue
  <2>. QED  BY <2>5 DEF HistoryIsTrue
<1>. QED  BY <1>1, <1>2, <1>3, <1>4, <1>5, <1>6, <1>7 DEF HcIInv

\* Every step keeps it, and ends its lines.
LEMMA HcStep ==
    ASSUME Paced, HcIInv, [Next]_vars
    PROVE  HcIInv' /\ (last_out = CR /\ last_out' # CR => last_out' \in {LF, "T"})
<1>1. CASE Next
  <2>1. PICK b \in BOOLEAN : Clock(b)
    BY <1>1 DEF Next
  <2>2. PICK w \in Words, stb \in BOOLEAN, reset \in BOOLEAN, int \in BOOLEAN, period \in BOOLEAN,
             cstb \in BOOLEAN, c \in ConsoleChars : Clocks(b, w, stb, reset, int, period, cstb, c)
    BY <2>1 DEF Clock, Clocks
  <2>. QED  BY <2>2, ClockKeeps, LineEndsOn
<1>2. CASE UNCHANGED vars
  <2>. USE <1>2 DEF vars, exec, ints, idle, deword, genhex, newline, arbiter, console, history
  <2>1. TypeOK' /\ Flags' /\ IntHolds' /\ DwHolds' /\ GxHolds' /\ NlHolds' /\ PsHolds'
    BY DEF HcIInv, TypeOK, Flags, IntHolds, DwHolds, GxHolds, NlHolds, PsHolds
  <2>2. NoGap' /\ TAlone' /\ ZAlone' /\ OneI' /\ GapHolds' /\ NoOverrun'
    BY DEF HcIInv, NoGap, TAlone, ZAlone, OneI, IdlI, DwI, GapHolds, NoOverrun, int_busy
  <2>3. LineEnds'
    BY DEF HcIInv, LineEnds, LineGoesOn, TComes
  <2>4. HistoryIsTrue'
    BY DEF HcIInv, HistoryIsTrue, AllDue, PsDue, NlDue, GxDue, DwDue, IdlDue, IntDue, RspDue
  <2>. QED  BY <2>1, <2>2, <2>3, <2>4 DEF HcIInv
<1>. QED  BY <1>1, <1>2

\* Everything hbexec says reaches the transmitter whole, in order and once, with reports and line ends
\* only between words, and so does everything the console says, for any words of letters and digits and
\* however the transmitter, the interrupt line, the idle counter and resets are timed.
THEOREM NothingIsGarbled ==
    ASSUME Paced
    PROVE  Spec => NothingGarbled
<1>1. HcIInv /\ [Next]_vars => HcIInv'
  BY HcStep
<1>2. HcIInv => TypeOK /\ ~garbled /\ NoOverrun
  BY DEF HcIInv, HistoryIsTrue
<1>3. HcIInv /\ [Next]_vars => [last_out = CR /\ last_out' # CR => last_out' \in {LF, "T"}]_vars
  BY HcStep
<1>. QED  BY HcInit, <1>1, <1>2, <1>3, PTL DEF Spec, NothingGarbled, LineEndsWhole
=============================================================================
