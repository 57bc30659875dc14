----------------------------- MODULE BoardProofs -----------------------------
(***************************************************************************)
(* Proofs about the board's timer, memories and parallel port.             *)
(*                                                                         *)
(* Timers: the timer is on time and wait() loses no interrupt and wakes    *)
(* for nothing else, for any lines, any width of the timer, with and       *)
(* without its reload.  What is shown of the timer is not inductive:       *)
(* whether it reloads decides whether it runs on after zero.  TimerInv     *)
(* adds its registers, WaitInv what the controller holds at each access of *)
(* wait().                                                                 *)
(*                                                                         *)
(* MemSims: MEMSIM and sramdev with SRAMSIM return what was written, for   *)
(* any number of words and requests, any delay and any selected bytes.     *)
(* MemInv adds what MEMSIM's queue holds for each request that is open,    *)
(* and how far sramdev's cycle has got.                                    *)
(*                                                                         *)
(* PPort: a byte crosses the pins once, with pp_xfer and pp_read or with   *)
(* PPORTSIM, for any bytes but 0xff.  PortsInv says where the host's clock *)
(* is in the synchronizer, and that the port is busy before it strobes a   *)
(* byte out (PortInv), which pins each place of the host's program drives  *)
(* (HostPins), and that the bytes at the far end of either way and those   *)
(* on it are the ones that went in (Crosses).                              *)
(***************************************************************************)
EXTENDS Timers, MemSims, PPort, FiniteSetTheorems, WellFoundedInduction, SequenceTheorems, TLAPS

TimerTypes ==
    /\ timer \in [running : BOOLEAN, auto : BOOLEAN, interval : Values, value : Values,
                  zero : BOOLEAN, int : BOOLEAN]
    /\ due \in [left : 0 .. TimerMax + 1, now : BOOLEAN]

TimerInv ==
    /\ TimerTypes /\ TimerIsOnTime
    /\ timer.zero <=> timer.value = 0
    /\ due.left > 0 => timer.running
    /\ timer.auto => RELOADABLE /\ timer.interval > 0 /\ due.left > 0
    /\ RELOADABLE => due.left <= timer.interval \/ (timer.auto /\ due.left = timer.interval + 1)
    /\ ~RELOADABLE => due.left <= TimerMax

WaitTypes ==
    /\ pic \in [state : SUBSET Lines, enable : SUBSET Lines, mie : BOOLEAN, int : BOOLEAN]
    /\ cpu \in [at : {"idle", "enable", "read", "sleep", "off"}, mask : SUBSET Lines]
    /\ raised \in SUBSET Lines

WaitInv ==
    /\ WaitTypes
    /\ cpu.at # "idle" => pic.state = raised
    /\ cpu.at = "enable" => pic.enable = {} /\ ~pic.mie
    /\ cpu.at \in {"read", "sleep"} =>
          /\ pic.enable = cpu.mask /\ pic.mie
          /\ pic.int => raised \intersect cpu.mask # {}
    /\ cpu.at = "off" => raised \intersect cpu.mask # {}

-----------------------------------------------------------------------------
(* A clock of ziptimer.v keeps the timer on time.                          *)
LEMMA TimerKept ==
  ASSUME TimerInv, NEW ce \in BOOLEAN, NEW t \in TimerInput, Ziptimer(ce, t), due' = Due(ce, t)
  PROVE  TimerInv'
<1> USE TimersAssumption DEF Values
<1>1. CASE t.we
  <2>1. /\ timer' = [running |-> t.value # 0, auto |-> RELOADABLE /\ t.auto /\ t.value # 0,
                     interval |-> IF RELOADABLE THEN t.value ELSE 0,
                     value |-> t.value, zero |-> (t.value = 0), int |-> FALSE]
        /\ due' = [left |-> t.value, now |-> FALSE]
    BY <1>1, Zenon DEF Ziptimer, Running, Value, Zero, Due
  <2>2. t.value \in 0 .. TimerMax /\ t.value \in 0 .. TimerMax + 1 /\ 0 \in 0 .. TimerMax
    BY DEF TimerInput
  <2>3. TimerTypes'
    <3>1. (IF RELOADABLE THEN t.value ELSE 0) \in 0 .. TimerMax
      BY <2>2
    <3>2. /\ (t.value # 0) \in BOOLEAN /\ (t.value = 0) \in BOOLEAN
          /\ (RELOADABLE /\ t.auto /\ t.value # 0) \in BOOLEAN
      OBVIOUS
    <3>3. timer' \in [running : BOOLEAN, auto : BOOLEAN, interval : 0 .. TimerMax,
                      value : 0 .. TimerMax, zero : BOOLEAN, int : BOOLEAN]
      BY <2>1, <2>2, <3>1, <3>2, Zenon
    <3> QED BY <2>1, <2>2, <3>3 DEF TimerTypes
  <2>4. timer'.int = due'.now
    BY <2>1
  <2>5. /\ timer'.interval = IF RELOADABLE THEN t.value ELSE 0
        /\ timer'.value = t.value /\ due'.left = t.value
    BY <2>1
  <2>6. /\ timer'.zero <=> timer'.value = 0
        /\ due'.left > 0 => timer'.running
    <3>1. CASE t.value = 0
      <4>1. timer'.zero
        BY <2>1, <3>1
      <4> QED BY <4>1, <3>1, <2>5
    <3>2. CASE t.value # 0
      <4>1. ~timer'.zero /\ timer'.running
        BY <2>1, <3>2
      <4> QED BY <4>1, <3>2, <2>5
    <3> QED BY <3>1, <3>2
  <2>7. timer'.auto => RELOADABLE /\ timer'.interval > 0 /\ due'.left > 0
    <3>1. timer'.auto => RELOADABLE /\ t.value # 0
      BY <2>1
    <3> QED BY <2>2, <2>5, <3>1
  <2>8. /\ RELOADABLE => due'.left <= timer'.interval
        /\ ~RELOADABLE => due'.left <= TimerMax
        /\ timer'.value = IF due'.left > timer'.interval /\ RELOADABLE THEN 0 ELSE due'.left
    BY <2>2, <2>5
  <2> QED BY <2>3, <2>4, <2>6, <2>7, <2>8 DEF TimerInv, TimerIsOnTime
<1>2. CASE ~t.we /\ ~ce
  BY <1>2 DEF TimerInv, TimerTypes, TimerIsOnTime, Ziptimer, Running, Value, Zero, Expires, Due, TimerInput
<1>3. CASE ~t.we /\ ce /\ timer.value = 0
  BY <1>3 DEF TimerInv, TimerTypes, TimerIsOnTime, Ziptimer, Running, Value, Zero, Expires, Due, TimerInput
<1>4. CASE ~t.we /\ ce /\ timer.value # 0
  BY <1>4 DEF TimerInv, TimerTypes, TimerIsOnTime, Ziptimer, Running, Value, Zero, Expires, Due, TimerInput
<1> QED BY <1>1, <1>2, <1>3, <1>4

(* A clock of icontrol.v with an access of wait(), or none, keeps what     *)
(* wait() relies on.                                                       *)
LEMMA WaitKept ==
  ASSUME WaitInv, NEW dev \in SUBSET (Lines \ {BUSTIMER}), NEW w, NEW t,
         Software(w, t), Icontrol(dev, w),
         raised' = IF cpu'.at = "idle" THEN {}
                   ELSE Ints(dev) \union (IF cpu.at = "idle" THEN {} ELSE raised)
  PROVE  WaitInv'
<1> USE TimersAssumption
<1>1. Ints(dev) \in SUBSET Lines
  BY DEF Ints
<1>2. CASE w = NoWord /\ UNCHANGED cpu
  BY <1>1, <1>2 DEF WaitInv, WaitTypes, Icontrol, IntState, IntEnable, NoWord
<1>3. CASE w = ClearAll /\ cpu.at = "idle"
       /\ \E msk \in SUBSET Lines \ {{}} : cpu' = [at |-> "enable", mask |-> msk]
  BY <1>1, <1>3 DEF WaitInv, WaitTypes, Icontrol, IntState, IntEnable, ClearAll, NoWord
<1>4. CASE w = EnableOnly(cpu.mask) /\ Goes("enable", "read")
  BY <1>1, <1>4 DEF WaitInv, WaitTypes, Icontrol, IntState, IntEnable, EnableOnly, NoWord, Goes
<1>5. CASE w = NoWord /\ Goes("read", "sleep")
  BY <1>1, <1>5 DEF WaitInv, WaitTypes, Icontrol, IntState, IntEnable, NoWord, Goes
<1>6. CASE w = NoWord /\ pic.int /\ Goes("sleep", "off")
  BY <1>1, <1>6 DEF WaitInv, WaitTypes, Icontrol, IntState, IntEnable, NoWord, Goes
<1>7. CASE w = AllOff /\ Goes("off", "idle")
  BY <1>1, <1>7 DEF WaitInv, WaitTypes, Icontrol, IntState, IntEnable, AllOff, NoWord, Goes
<1> QED BY <1>2, <1>3, <1>4, <1>5, <1>6, <1>7 DEF Software, WaitStep

(* A reset stops the timer, and the program with it.                       *)
LEMMA ResetKept ==
  ASSUME TimerInv, WaitInv, NEW dev \in SUBSET (Lines \ {BUSTIMER}), PicReset(dev)
  PROVE  TimerInv' /\ WaitInv'
<1> USE TimersAssumption DEF PicReset
<1>1. TimerInv'
  BY DEF TimerInv, TimerTypes, TimerIsOnTime, Stopped, Values
<1>2. Ints(dev) \in SUBSET Lines
  BY DEF Ints
<1>3. WaitInv'
  BY <1>2 DEF WaitInv, WaitTypes, Icontrol, IntState, IntEnable, NoWord, Idle
<1> QED BY <1>1, <1>3

(* Whatever devices do, whenever the timer is written and the clock is     *)
(* enabled, in whatever clocks wait() makes its accesses: the timer's line *)
(* is up when it should be and only then, and wait() ends for what it      *)
(* waits for and misses none of it.                                        *)
THEOREM InterruptsAlwaysArrive == TimersSpec => []InterruptsArrive
<1>1. TimersInit => TimerInv /\ WaitInv
  <2> SUFFICES ASSUME TimersInit PROVE TimerInv /\ WaitInv
    OBVIOUS
  <2>1. TimerInv
    <3>1. PICK n \in Values : timer = [Stopped EXCEPT !.interval = n] /\ (~RELOADABLE => n = 0)
      BY TimersAssumption DEF TimersInit, Values
    <3>2. timer = [running |-> FALSE, auto |-> FALSE, interval |-> n, value |-> 0, zero |-> TRUE, int |-> FALSE]
      BY <3>1 DEF Stopped
    <3>3. due = [left |-> 0, now |-> FALSE]
      BY DEF TimersInit
    <3>4. n \in 0 .. TimerMax /\ 0 \in 0 .. TimerMax /\ 0 \in 0 .. TimerMax + 1
      BY TimersAssumption DEF Values
    <3>5. TimerTypes
      BY <3>2, <3>3, <3>4, Zenon DEF TimerTypes, Values
    <3>6. /\ ~timer.running /\ ~timer.auto /\ timer.zero /\ timer.int = due.now
          /\ timer.interval = n /\ timer.value = 0 /\ due.left = 0
      BY <3>2, <3>3, Zenon
    <3> QED BY <3>4, <3>5, <3>6, TimersAssumption DEF TimerInv, TimerIsOnTime
  <2>2. WaitInv
    BY DEF TimersInit, WaitInv, WaitTypes, Idle
  <2> QED BY <2>1, <2>2
<1>2. TimerInv /\ WaitInv /\ [TimersClock]_timersVars => TimerInv' /\ WaitInv'
  <2> SUFFICES ASSUME TimerInv, WaitInv, [TimersClock]_timersVars PROVE TimerInv' /\ WaitInv'
    OBVIOUS
  <2>1. ASSUME NEW dev \in SUBSET (Lines \ {BUSTIMER}), NEW ce \in BOOLEAN, NEW w,
               NEW t \in TimerInput, PicClock(dev, ce, w, t)
        PROVE  TimerInv' /\ WaitInv'
    <3>1. TimerInv'
      BY <2>1, TimerKept DEF PicClock
    <3>2. WaitInv'
      BY <2>1, WaitKept DEF PicClock
    <3> QED BY <3>1, <3>2
  <2>2. CASE UNCHANGED timersVars
    BY <2>2 DEF timersVars, TimerInv, TimerTypes, TimerIsOnTime, WaitInv, WaitTypes
  <2> QED BY <2>1, <2>2, ResetKept DEF TimersClock
<1>3. TimerInv /\ WaitInv => InterruptsArrive
  BY DEF TimerInv, WaitInv, InterruptsArrive, WaitIsTrue
<1> QED BY <1>1, <1>2, <1>3, PTL DEF TimersSpec

-----------------------------------------------------------------------------
(* The invariant of the memories: types, what MEMSIM's queue holds and     *)
(* where the cycle of sramdev stands.                                      *)
Addresses == 0 .. MemWords - 1
MemWord   == [0 .. 3 -> Int]
MemHalf   == [0 .. 1 -> Int]
Answers   == [ack : BOOLEAN, d : MemWord]
Owed      == [we : BOOLEAN, d : MemWord]

MemTypes ==
    /\ mem \in [Addresses -> MemWord] /\ truth \in [Addresses -> MemWord]
    /\ wb \in [n : Nat, owed : Seq(Owed)]

One(p)     == IF p THEN 1 ELSE 0
Depth      == IF sv.delay = 0 THEN 1 ELSE sv.delay
Place(j)   == ((sv.head - j) % Len(sv.fifo)) + 1
Slot(j)    == sv.fifo[Place(j)]
Fits(s, k) == s.ack => wb.owed[k].we \/ s.d = wb.owed[k].d

\* What the master still waits for after the answers of the last j clocks
Counts(c) ==
    /\ c \in [0 .. Depth -> Nat]
    /\ c[0] = Len(wb.owed) /\ c[Depth] = One(sv.out.ack)
    /\ \A i, j \in 0 .. Depth : i <= j => c[j] <= c[i]
    /\ \A j \in 1 .. Depth : c[j - 1] = c[j] + One(Slot(j - 1).ack)

MemsimInv ==
    /\ sv \in [kind : {"memsim"}, delay : Nat, head : Nat, stall : {FALSE}, fifo : Seq(Answers), out : Answers]
    /\ sv.head < Len(sv.fifo) /\ Depth <= Len(sv.fifo)
    /\ sv.delay = 0 => Len(sv.fifo) = 1
    /\ mem = truth
    /\ Fits(sv.out, 1)
    /\ \E c :
          /\ Counts(c)
          /\ \A j \in 1 .. Depth : Fits(Slot(j - 1), c[j - 1])

SramTypes ==
    sv \in [kind : {"sramdev"}, st : 0 .. 7, nack : BOOLEAN, stall : BOOLEAN, data : MemWord, write : BOOLEAN,
            nsel : SUBSET (0 .. 3), ce : BOOLEAN, oe : BOOLEAN, we : BOOLEAN, off : SUBSET (0 .. 1),
            a : Addresses, half : 0 .. 1, rd : MemHalf, iram : MemHalf, out : Answers]

\* What the chip is told, by the clock of the cycle
ChipTold ==
    /\ sv.stall = (sv.st # 0)
    /\ sv.st \in {0, 4} => ~sv.ce /\ ~sv.oe /\ ~sv.we
    /\ sv.st \in {1, 2, 3, 5, 6, 7} => sv.ce /\ sv.we = sv.write /\ sv.oe = ~sv.write
    /\ sv.st \in 1 .. 3 => sv.half = 0 /\ sv.rd = High16(sv.data)
    /\ sv.st \in 4 .. 7 => sv.half = 1 /\ sv.rd = Low16(sv.data)
    /\ sv.st # 0 /\ ~sv.write => sv.nsel = {}

\* What of a write has reached the chip, and what of a read has come back
ChipDone ==
    /\ sv.st = 0 \/ ~sv.write => mem = truth
    /\ sv.st # 0 /\ sv.write =>
          /\ \A x \in Addresses \ {sv.a} : mem[x] = truth[x]
          /\ \A b \in 0 .. 3 : truth[sv.a][b] = IF b \in sv.nsel THEN mem[sv.a][b] ELSE sv.data[b]
          /\ sv.st >= 2 => \A b \in 2 .. 3 : mem[sv.a][b] = truth[sv.a][b]
          /\ sv.st >= 6 => \A b \in 0 .. 1 : mem[sv.a][b] = truth[sv.a][b]
    /\ sv.st # 0 /\ ~sv.write =>
          /\ sv.st \in {2, 3} => sv.iram = High16(mem[sv.a])
          /\ sv.st >= 4 => High16(sv.out.d) = High16(mem[sv.a])
          /\ sv.st >= 6 => sv.iram = Low16(mem[sv.a])

\* What the master waits for
OneOwed ==
    /\ sv.out.ack => sv.st = 0
    /\ Len(wb.owed) = One(sv.out.ack \/ (sv.st # 0 /\ sv.nack))
    /\ Fits(sv.out, 1)
    /\ sv.st # 0 /\ sv.nack => wb.owed[1].we = sv.write /\ (sv.write \/ wb.owed[1].d = truth[sv.a])

MemInv ==
    /\ MemTypes
    /\ sv.kind \in {"memsim", "sramdev"}
    /\ sv.kind = "memsim" => MemsimInv
    /\ sv.kind = "sramdev" => SramTypes /\ ChipTold /\ ChipDone /\ OneOwed

\* A set of numbers that is not empty has a least element
LEMMA LeastElement ==
    ASSUME NEW S, S \subseteq Nat, S # {}
    PROVE  \E n \in S : \A m \in S : n <= m
<1> DEFINE below == {1 .. n : n \in S}
<1>1. below \subseteq FiniteSubsetsOf(Nat) /\ below # {}
  <2>1. \A n \in S : IsFiniteSet(1 .. n) /\ 1 .. n \subseteq Nat
    BY FS_Interval
  <2> QED BY <2>1 DEF FiniteSubsetsOf
<1>2. PICK low \in below : \A b \in below : ~(<<b, low>> \in StrictSubsetOrdering(Nat))
    BY <1>1, FS_StrictSubsetOrderingWellFounded, WFMin
<1>3. PICK n \in S : low = 1 .. n
    OBVIOUS
<1>4. ASSUME NEW m \in S, m < n
      PROVE  FALSE
  <2>1. 1 .. m \in below
    OBVIOUS
  <2>2. 1 .. m \in SUBSET Nat /\ low \in SUBSET Nat /\ 1 .. m \subseteq low /\ 1 .. m # low
    BY <1>3, <1>4
  <2>3. <<1 .. m, low>> \in StrictSubsetOrdering(Nat)
    BY <2>2 DEF StrictSubsetOrdering
  <2> QED BY <1>2, <2>1, <2>3
<1> QED BY <1>4

-----------------------------------------------------------------------------
(* The queue of MEMSIM.                                                    *)

IsMask(f, d) == f = [k \in 0 .. d |-> IF k = 0 THEN 1 ELSE 2 * f[k - 1]]

\* The constructor's loop, which doubles a mask
LEMMA MaskExists ==
    ASSUME NEW d \in Nat
    PROVE  \E f : IsMask(f, d)
<1> DEFINE missing == {k \in Nat : ~ \E f : IsMask(f, k)}
<1>1. SUFFICES ASSUME missing # {} PROVE FALSE
    OBVIOUS
<1>2. PICK k \in missing : \A j \in missing : k <= j
  <2>1. missing \subseteq Nat
    OBVIOUS
  <2> QED BY <1>1, <2>1, LeastElement
<1>3. k # 0
  <2>1. IsMask([j \in 0 .. 0 |-> 1], 0)
    BY DEF IsMask
  <2> QED BY <2>1
<1>4. k - 1 \in Nat /\ k - 1 \notin missing
  <2>1. k \in Nat /\ k - 1 \in Nat
    BY <1>3
  <2> HIDE DEF missing
  <2>2. k - 1 \in missing => k <= k - 1
    BY <1>2
  <2> QED BY <2>1, <2>2
<1>5. PICK g : IsMask(g, k - 1)
    BY <1>4
<1> DEFINE f == [j \in 0 .. k |-> IF j < k THEN g[j] ELSE 2 * g[k - 1]]
<1>6. \A j \in 0 .. k : f[j] = IF j = 0 THEN 1 ELSE 2 * f[j - 1]
  <2> TAKE j \in 0 .. k
  <2>1. CASE j = k
    BY <1>3, <1>4, <2>1
  <2>2. CASE j # k
    <3>1. j \in 0 .. k - 1 /\ (j # 0 => j - 1 \in 0 .. k - 1 /\ j - 1 \in 0 .. k)
      BY <1>4, <2>2
    <3>2. g[j] = IF j = 0 THEN 1 ELSE 2 * g[j - 1]
      BY <1>5, <3>1 DEF IsMask
    <3> QED BY <3>1, <3>2
  <2> QED BY <2>1, <2>2
<1>7. IsMask(f, k)
    BY <1>6 DEF IsMask
<1> QED BY <1>2, <1>7

\* The queue is never shorter than the delay
LEMMA FifoLenIs ==
    ASSUME NEW d \in Nat
    PROVE  FifoLen(d) \in Nat /\ FifoLen(d) >= 1 /\ FifoLen(d) >= d /\ (d = 0 => FifoLen(d) = 1)
<1> DEFINE f == CHOOSE g : IsMask(g, d)
           first(k) == f[k] >= d /\ \A j \in 0 .. k - 1 : f[j] < d
<1>1. IsMask(f, d)
    BY MaskExists
<1>2. FifoLen(d) = f[CHOOSE k \in 0 .. d : first(k)]
    BY DEF FifoLen, IsMask
<1> HIDE DEF f
<1>3. f[0] = 1 /\ \A k \in 1 .. d : f[k] = 2 * f[k - 1]
    BY <1>1 DEF IsMask
<1>4. \A k \in 0 .. d : f[k] \in Nat /\ f[k] >= 1 /\ f[k] >= k
  <2> DEFINE bad == {k \in 0 .. d : ~(f[k] \in Nat /\ f[k] >= 1 /\ f[k] >= k)}
  <2>1. SUFFICES ASSUME bad # {} PROVE FALSE
    OBVIOUS
  <2>2. PICK k \in bad : \A j \in bad : k <= j
    <3>1. bad \subseteq Nat
      OBVIOUS
    <3> QED BY <2>1, <3>1, LeastElement
  <2>3. k \in 1 .. d /\ k - 1 \in 0 .. d
    BY <1>3
  <2>4. k - 1 \notin bad
    <3> HIDE DEF bad
    <3> QED BY <2>2, <2>3
  <2>5. f[k - 1] \in Nat /\ f[k - 1] >= 1 /\ f[k - 1] >= k - 1
    BY <2>3, <2>4
  <2>6. f[k] = 2 * f[k - 1]
    BY <1>3, <2>3
  <2> QED BY <2>3, <2>5, <2>6
<1>5. \E k \in 0 .. d : first(k)
  <2> DEFINE enough == {k \in 0 .. d : f[k] >= d}
  <2>1. d \in enough /\ enough \subseteq Nat
    BY <1>4
  <2>2. PICK k \in enough : \A j \in enough : k <= j
    BY <2>1, LeastElement
  <2>3. ASSUME NEW j \in 0 .. k - 1
        PROVE  f[j] < d
    <3>1. j \in 0 .. d /\ ~(k <= j)
      OBVIOUS
    <3>2. j \notin enough
      BY <2>2, <3>1
    <3> QED BY <1>4, <3>1, <3>2
  <2> QED BY <2>2, <2>3
<1> DEFINE n == CHOOSE k \in 0 .. d : first(k)
<1>6. n \in 0 .. d /\ first(n)
    BY <1>5
<1> HIDE DEF n
<1>7. FifoLen(d) = f[n]
    BY <1>2 DEF n
<1> QED BY <1>3, <1>4, <1>6, <1>7

\* Around the queue, whose length is m
LEMMA Around ==
    ASSUME NEW m \in Nat, m > 0, NEW x \in Int, -m <= x, x <= m
    PROVE  x % m = IF x < 0 THEN x + m ELSE IF x = m THEN 0 ELSE x
<1> DEFINE q == x \div m
           r == x % m
<1>1. r \in 0 .. m - 1 /\ q \in Int /\ x = m * q + r
    OBVIOUS
<1> HIDE DEF q, r
<1>2. ASSUME q >= 2 PROVE FALSE
  <2>1. m * q >= m * 2
    BY <1>1, <1>2
  <2> QED BY <1>1, <2>1
<1>3. ASSUME q <= -2 PROVE FALSE
  <2>1. m * q <= m * (-2)
    BY <1>1, <1>3
  <2> QED BY <1>1, <2>1
<1>4. q = 1 \/ q = 0 \/ q = -1
    BY <1>1, <1>2, <1>3
<1>5. CASE q = 1
    BY <1>1, <1>5 DEF r
<1>6. CASE q = 0
    BY <1>1, <1>6 DEF r
<1>7. CASE q = -1
    BY <1>1, <1>7 DEF r
<1> QED BY <1>4, <1>5, <1>6, <1>7

-----------------------------------------------------------------------------
(* The master.                                                             *)
Driving == [stb : BOOLEAN, we : BOOLEAN, a : Addresses, d : MemWord, sel : SUBSET (0 .. 3)]

LEMMA MemConstants ==
    /\ MemWords \in Nat /\ MemWords > 0 /\ 0 \in Addresses
    /\ Delays \subseteq Nat /\ Lanes \subseteq SUBSET (0 .. 3)
BY MemAssumption DEF Addresses

LEMMA RequestsAre ==
    ASSUME MemTypes, NEW r \in Requests \cup {NoAccess}
    PROVE  r \in Driving
<1>1. wb.n + 1 \in Int /\ \A v \in Int : WordOf(v) \in MemWord
    BY DEF MemTypes, WordOf, MemWord
<1>2. CASE r = NoAccess
  <2>1. WordOf(0) \in MemWord
    BY <1>1
  <2> QED BY <1>2, <2>1, MemConstants DEF NoAccess, Driving
<1>3. CASE r \in Requests
  <2>1. WordOf(wb.n + 1) \in MemWord
    BY <1>1
  <2> QED BY <1>3, <2>1, MemConstants DEF Requests, Driving, Addresses
<1> QED BY <1>2, <1>3

LEMMA OneIs ==
    \A p \in BOOLEAN : One(p) \in {0, 1} /\ (p => One(p) = 1) /\ (~p => One(p) = 0)
BY DEF One

LEMMA MergeType ==
    ASSUME NEW old \in MemWord, NEW new \in MemWord, NEW lanes
    PROVE  Merge(old, new, lanes) \in MemWord
BY DEF Merge, MemWord

LEMMA TruthType ==
    ASSUME MemTypes, NEW r \in Driving,
           truth' = IF r.stb /\ r.we THEN [truth EXCEPT ![r.a] = Merge(@, r.d, r.sel)] ELSE truth
    PROVE  /\ truth' \in [Addresses -> MemWord]
           /\ r.stb /\ r.we => /\ truth'[r.a] = Merge(truth[r.a], r.d, r.sel)
                               /\ \A x \in Addresses \ {r.a} : truth'[x] = truth[x]
           /\ ~(r.stb /\ r.we) => truth' = truth
<1>1. r.a \in Addresses /\ r.d \in MemWord /\ truth \in [Addresses -> MemWord]
    BY DEF MemTypes, Driving
<1>2. Merge(truth[r.a], r.d, r.sel) \in MemWord
    BY <1>1, MergeType
<1> QED BY <1>1, <1>2

\* What is owed, after the oldest request has been answered and a new one made
LEMMA OwedStep ==
    ASSUME MemTypes, sv.out.ack \in BOOLEAN, One(sv.out.ack) <= Len(wb.owed),
           NEW r \in Driving, Clocked(r, FALSE)
    PROVE  /\ wb' \in [n : Nat, owed : Seq(Owed)]
           /\ Len(wb'.owed) = Len(wb.owed) - One(sv.out.ack) + One(r.stb)
           /\ \A k \in 1 .. Len(wb.owed) - One(sv.out.ack) : wb'.owed[k] = wb.owed[k + One(sv.out.ack)]
           /\ r.stb => wb'.owed[Len(wb.owed) - One(sv.out.ack) + 1] = [we |-> r.we, d |-> truth[r.a]]
<1> DEFINE left == IF sv.out.ack /\ wb.owed # <<>> THEN Tail(wb.owed) ELSE wb.owed
           e == [we |-> r.we, d |-> truth[r.a]]
<1>1. wb' = [n |-> IF r.stb THEN wb.n + 1 ELSE wb.n, owed |-> IF r.stb THEN Append(left, e) ELSE left]
    BY DEF Clocked
<1>2. r.stb \in BOOLEAN /\ e \in Owed
    BY DEF Driving, Owed, MemTypes
<1>3. wb.n \in Nat /\ wb.owed \in Seq(Owed) /\ Len(wb.owed) \in Nat
    BY DEF MemTypes
<1> HIDE DEF e
<1>4. /\ left \in Seq(Owed) /\ Len(left) = Len(wb.owed) - One(sv.out.ack)
      /\ \A k \in 1 .. Len(left) : left[k] = wb.owed[k + One(sv.out.ack)]
  <2>1. CASE sv.out.ack
    <3>1. One(sv.out.ack) = 1
      BY <2>1 DEF One
    <3>2. wb.owed # <<>>
      BY <3>1, <1>3, EmptySeq
    <3>3. left = Tail(wb.owed)
      BY <2>1, <3>2
    <3>4. /\ Tail(wb.owed) \in Seq(Owed) /\ Len(Tail(wb.owed)) = Len(wb.owed) - 1
          /\ \A k \in 1 .. Len(Tail(wb.owed)) : Tail(wb.owed)[k] = wb.owed[k + 1]
      BY <3>2, <1>3, HeadTailProperties
    <3> HIDE DEF left
    <3> QED BY <3>1, <3>3, <3>4
  <2>2. CASE ~sv.out.ack
    <3>1. One(sv.out.ack) = 0 /\ left = wb.owed
      BY <2>2 DEF One
    <3> HIDE DEF left
    <3>2. \A k \in 1 .. Len(left) : k + 0 = k
      BY <1>3, <3>1
    <3>3. Len(left) = Len(wb.owed) - 0
      BY <1>3, <3>1
    <3> QED BY <1>3, <3>1, <3>2, <3>3
  <2> QED BY <2>1, <2>2
<1> HIDE DEF left
<1>5. PICK f \in {0, 1} : f = One(sv.out.ack)
    BY OneIs
<1>6. Len(left) \in Nat /\ Len(left) = Len(wb.owed) - f
    BY <1>4, <1>5, LenProperties
<1>7. CASE r.stb
  <2>1. wb' = [n |-> wb.n + 1, owed |-> Append(left, e)] /\ One(r.stb) = 1
    BY <1>1, <1>7 DEF One
  <2>2. /\ Append(left, e) \in Seq(Owed) /\ Len(Append(left, e)) = Len(left) + 1
        /\ \A k \in 1 .. Len(left) : Append(left, e)[k] = left[k]
        /\ Append(left, e)[Len(left) + 1] = e
    BY <1>2, <1>4, AppendProperties
  <2>3. wb.n + 1 \in Nat
    BY <1>3
  <2>4. wb'.owed = Append(left, e)
    BY <2>1
  <2>5. wb' \in [n : Nat, owed : Seq(Owed)]
    BY <2>1, <2>2, <2>3
  <2>6. Len(wb'.owed) = Len(wb.owed) - One(sv.out.ack) + One(r.stb)
    BY <2>1, <2>2, <2>4, <1>4
  <2>7. \A k \in 1 .. Len(wb.owed) - One(sv.out.ack) : wb'.owed[k] = wb.owed[k + One(sv.out.ack)]
    BY <2>2, <2>4, <1>4
  <2> QED BY <2>2, <2>4, <2>5, <2>6, <2>7, <1>4 DEF e
<1>8. CASE ~r.stb
  <2>1. wb' = [n |-> wb.n, owed |-> left] /\ One(r.stb) = 0
    BY <1>1, <1>8 DEF One
  <2>2. wb'.owed = left /\ wb' \in [n : Nat, owed : Seq(Owed)]
    BY <1>3, <1>4, <2>1
  <2>3. Len(wb'.owed) = Len(wb.owed) - One(sv.out.ack) + One(r.stb)
    BY <1>4, <1>5, <1>6, <2>1, <2>2
  <2> QED BY <1>4, <1>8, <2>2, <2>3
<1> QED BY <1>2, <1>7, <1>8

-----------------------------------------------------------------------------
(* A clock of MEMSIM: every answer moves one place nearer.                 *)
Moves(m, h, d, p, g) ==
    /\ g \in 0 .. m - 1 /\ (g - 0) % m = g
    /\ \A j \in 1 .. p : (g - j) % m = (h - (j - 1)) % m
    /\ \A j \in 1 .. p - 1 : (g - j) % m # g
    /\ (g - d) % m = (h - (p - 1)) % m
    /\ \A j \in 0 .. p - 1 : (h - j) % m \in 0 .. m - 1

LEMMA PlacesMove ==
    ASSUME NEW m \in Nat, NEW h \in 0 .. m - 1, NEW d \in Nat, NEW p \in Nat, p = (IF d = 0 THEN 1 ELSE d),
           p <= m, d = 0 => m = 1, NEW g, g = (h + 1) % m
    PROVE  Moves(m, h, d, p, g)
<1>1. m > 0 /\ h \in Int /\ h >= 0 /\ h <= m - 1
    OBVIOUS
<1>2. g = IF h + 1 = m THEN 0 ELSE h + 1
  <2>1. h + 1 \in Int /\ -m <= h + 1 /\ h + 1 <= m /\ ~(h + 1 < 0)
    BY <1>1
  <2> QED BY <2>1, <1>1, Around
<1>3. g \in 0 .. m - 1
    BY <1>1, <1>2
<1>4. \A x \in 0 .. m - 1, j \in 0 .. m : (x - j) % m = IF x - j < 0 THEN x - j + m ELSE x - j
  <2> TAKE x \in 0 .. m - 1, j \in 0 .. m
  <2>1. x - j \in Int /\ -m <= x - j /\ x - j <= m /\ x - j # m
    BY <1>1
  <2> QED BY <2>1, <1>1, Around
<1>5. p \in 1 .. m /\ d \in 0 .. m
    OBVIOUS
<1>6. \A j \in 1 .. p : /\ (g - j) % m = (IF g - j < 0 THEN g - j + m ELSE g - j)
                        /\ (h - (j - 1)) % m = (IF h - (j - 1) < 0 THEN h - (j - 1) + m ELSE h - (j - 1))
  <2> TAKE j \in 1 .. p
  <2>1. j \in 0 .. m /\ j - 1 \in 0 .. m
    BY <1>5
  <2> QED BY <2>1, <1>3, <1>4
<1>7. \A j \in 1 .. p : (g - j) % m = (h - (j - 1)) % m
  <2> TAKE j \in 1 .. p
  <2>1. (IF g - j < 0 THEN g - j + m ELSE g - j)
            = (IF h - (j - 1) < 0 THEN h - (j - 1) + m ELSE h - (j - 1))
    BY <1>1, <1>2, <1>5
  <2> QED BY <1>6, <2>1
<1>8. \A j \in 1 .. p - 1 : (g - j) % m # g
  <2> TAKE j \in 1 .. p - 1
  <2>1. j \in 1 .. p
    BY <1>5
  <2>2. (IF g - j < 0 THEN g - j + m ELSE g - j) # g
    BY <1>3, <1>5
  <2> QED BY <1>6, <2>1, <2>2
<1>9. (g - 0) % m = g
  <2>1. 0 \in 0 .. m /\ ~(g - 0 < 0) /\ g - 0 = g
    BY <1>1, <1>3
  <2> QED BY <1>3, <1>4, <2>1
<1>10. (g - d) % m = (h - (p - 1)) % m
  <2>1. CASE d = 0
    <3>1. m = 1 /\ p = 1 /\ g = 0 /\ h = 0
      BY <2>1, <1>2
    <3>2. g - d = 0 /\ h - (p - 1) = 0
      BY <2>1, <3>1
    <3> QED BY <3>2
  <2>2. CASE d # 0
    <3>1. p = d /\ p \in 1 .. p
      BY <2>2
    <3> QED BY <3>1, <1>7
  <2> QED BY <2>1, <2>2
<1>11. \A j \in 0 .. p - 1 : (h - j) % m \in 0 .. m - 1
  <2> TAKE j \in 0 .. p - 1
  <2>1. j \in 0 .. m
    BY <1>5
  <2>2. (h - j) % m = IF h - j < 0 THEN h - j + m ELSE h - j
    BY <1>4, <2>1
  <2> QED BY <1>1, <2>1, <2>2
<1> QED BY <1>3, <1>7, <1>8, <1>9, <1>10, <1>11 DEF Moves

\* What apply does to the queue and to the memory
LEMMA ApplyIs ==
    ASSUME MemTypes, MemsimInv, NEW r \in Driving, Apply(r)
    PROVE  /\ sv' \in [kind : {"memsim"}, delay : Nat, head : Nat, stall : {FALSE}, fifo : Seq(Answers), out : Answers]
           /\ sv'.delay = sv.delay /\ Len(sv'.fifo) = Len(sv.fifo)
           /\ sv'.head = (sv.head + 1) % Len(sv.fifo) /\ sv'.head < Len(sv.fifo)
           /\ sv'.out = sv.fifo[((sv'.head - sv.delay) % Len(sv.fifo)) + 1]
           /\ sv'.fifo[sv'.head + 1].ack = r.stb
           /\ r.stb /\ ~r.we => sv'.fifo[sv'.head + 1].d = mem[r.a]
           /\ \A i \in 1 .. Len(sv.fifo) : i # sv'.head + 1 => sv'.fifo[i] = sv.fifo[i]
           /\ mem' \in [Addresses -> MemWord]
           /\ mem' = IF r.stb /\ r.we THEN [mem EXCEPT ![r.a] = Merge(@, r.d, r.sel)] ELSE mem
<1> DEFINE g == (sv.head + 1) % Len(sv.fifo)
           m == IF r.stb /\ r.we THEN [mem EXCEPT ![r.a] = StoredWord(@, r)] ELSE mem
           e == [ack |-> r.stb, d |-> IF r.stb THEN m[r.a] ELSE WordOf(0)]
           o == sv.fifo[TailOf(g) + 1]
           q == [sv.fifo EXCEPT ![g + 1] = e]
<1>1. /\ r.stb \in BOOLEAN /\ r.we \in BOOLEAN /\ r.a \in Addresses /\ r.d \in MemWord
    BY DEF Driving
<1>2. /\ mem \in [Addresses -> MemWord] /\ Merge(mem[r.a], r.d, r.sel) \in MemWord
    BY <1>1, MergeType DEF MemTypes
<1>3. /\ m \in [Addresses -> MemWord]
      /\ m = IF r.stb /\ r.we THEN [mem EXCEPT ![r.a] = Merge(@, r.d, r.sel)] ELSE mem
    BY <1>1, <1>2 DEF StoredWord
<1>4. mem' = m
    BY DEF Apply, StoredWord
<1>5. WordOf(0) \in MemWord
    BY DEF WordOf, MemWord
<1>6. e \in Answers /\ e.ack = r.stb /\ (r.stb /\ ~r.we => e.d = mem[r.a])
  <2>1. m[r.a] \in MemWord /\ (~r.we => m[r.a] = mem[r.a])
    BY <1>1, <1>3
  <2> HIDE DEF m
  <2> QED BY <1>1, <1>5, <2>1 DEF Answers
<1>7. /\ sv \in [kind : {"memsim"}, delay : Nat, head : Nat, stall : {FALSE}, fifo : Seq(Answers), out : Answers]
      /\ sv.head < Len(sv.fifo)
      /\ sv.delay = 0 => Len(sv.fifo) = 1
      /\ Depth <= Len(sv.fifo)
    BY DEF MemsimInv
<1>8. sv.delay \in Nat /\ sv.head \in Nat /\ sv.fifo \in Seq(Answers) /\ Len(sv.fifo) \in Nat
    BY <1>7, LenProperties
<1>9. Depth \in Nat /\ Depth = (IF sv.delay = 0 THEN 1 ELSE sv.delay) /\ Depth >= 1
    BY <1>8 DEF Depth
<1>10. /\ g \in 0 .. Len(sv.fifo) - 1
       /\ (g - sv.delay) % Len(sv.fifo) \in 0 .. Len(sv.fifo) - 1
  <2>1. sv.head \in 0 .. Len(sv.fifo) - 1
    BY <1>7, <1>8
  <2>2. /\ g \in 0 .. Len(sv.fifo) - 1
        /\ (g - sv.delay) % Len(sv.fifo) = (sv.head - (Depth - 1)) % Len(sv.fifo)
        /\ \A j \in 0 .. Depth - 1 : (sv.head - j) % Len(sv.fifo) \in 0 .. Len(sv.fifo) - 1
    <3> DEFINE len == Len(sv.fifo)
    <3>1. /\ len \in Nat /\ sv.head \in 0 .. len - 1 /\ sv.delay \in Nat /\ Depth \in Nat
          /\ Depth = (IF sv.delay = 0 THEN 1 ELSE sv.delay) /\ Depth <= len
          /\ sv.delay = 0 => len = 1
          /\ g = (sv.head + 1) % len
      BY <1>7, <1>8, <1>9, <2>1
    <3> HIDE DEF len, g
    <3>2. /\ g \in 0 .. len - 1
          /\ (g - sv.delay) % len = (sv.head - (Depth - 1)) % len
          /\ \A j \in 0 .. Depth - 1 : (sv.head - j) % len \in 0 .. len - 1
      <4>1. Moves(len, sv.head, sv.delay, Depth, g)
        BY <3>1, PlacesMove
      <4> QED BY <4>1 DEF Moves
    <3> QED BY <3>2 DEF len
  <2>3. Depth - 1 \in 0 .. Depth - 1
    BY <1>9
  <2> QED BY <2>2, <2>3
<1>11. sv' = [sv EXCEPT !.head = g, !.out = o, !.fifo = q]
    BY DEF Apply, StoredWord
<1> HIDE DEF g, e, m
<1>12. /\ q \in Seq(Answers) /\ Len(q) = Len(sv.fifo)
       /\ \A i \in 1 .. Len(sv.fifo) : q[i] = IF i = g + 1 THEN e ELSE sv.fifo[i]
  <2>1. g + 1 \in 1 .. Len(sv.fifo)
    BY <1>8, <1>10
  <2> QED BY <1>6, <1>8, <2>1, ExceptSeq
<1>13. o = sv.fifo[((g - sv.delay) % Len(sv.fifo)) + 1] /\ o \in Answers
  <2>1. ((g - sv.delay) % Len(sv.fifo)) + 1 \in 1 .. Len(sv.fifo)
    BY <1>8, <1>10
  <2>2. sv.fifo[((g - sv.delay) % Len(sv.fifo)) + 1] \in Answers
    BY <1>8, <2>1, ElementOfSeq
  <2> QED BY <2>2 DEF TailOf
<1> HIDE DEF o, q
<1>14. /\ sv' \in [kind : {"memsim"}, delay : Nat, head : Nat, stall : {FALSE}, fifo : Seq(Answers), out : Answers]
       /\ sv'.delay = sv.delay /\ sv'.head = g /\ sv'.out = o /\ sv'.fifo = q
  <2>1. g \in Nat
    BY <1>8, <1>10
  <2> QED BY <1>7, <1>11, <1>12, <1>13, <2>1
<1>15. g + 1 \in 1 .. Len(sv.fifo) /\ g < Len(sv.fifo)
    BY <1>8, <1>10
<1>16. q[g + 1] = e /\ \A i \in 1 .. Len(sv.fifo) : i # g + 1 => q[i] = sv.fifo[i]
    BY <1>12, <1>15
<1> QED BY <1>3, <1>4, <1>6, <1>12, <1>13, <1>14, <1>15, <1>16 DEF g

LEMMA MemsimKept ==
    ASSUME MemTypes, MemsimInv, NEW r \in Driving, sv.kind = "memsim", Clocked(r, FALSE)
    PROVE  MemTypes' /\ sv'.kind = "memsim" /\ MemsimInv'
<1> DEFINE len == Len(sv.fifo)
           h == sv.head
           d == sv.delay
           g == sv'.head
           p == Depth
<1>1. /\ Apply(r)
      /\ truth' = IF r.stb /\ r.we THEN [truth EXCEPT ![r.a] = Merge(@, r.d, r.sel)] ELSE truth
    BY DEF Clocked
<1>2. /\ sv \in [kind : {"memsim"}, delay : Nat, head : Nat, stall : {FALSE}, fifo : Seq(Answers), out : Answers]
      /\ h < len /\ p <= len /\ (d = 0 => len = 1)
      /\ mem = truth /\ Fits(sv.out, 1)
    BY DEF MemsimInv
<1>3. /\ d \in Nat /\ h \in Nat /\ len \in Nat /\ p \in Nat /\ p = (IF d = 0 THEN 1 ELSE d) /\ p >= 1
      /\ sv.out.ack \in BOOLEAN /\ r.stb \in BOOLEAN /\ r.we \in BOOLEAN
      /\ wb.owed \in Seq(Owed) /\ Len(wb.owed) \in Nat
    BY <1>2, LenProperties DEF Depth, Answers, Driving, MemTypes
<1>4. PICK c : Counts(c) /\ \A j \in 1 .. p : Fits(Slot(j - 1), c[j - 1])
    BY DEF MemsimInv
<1>5. PICK f \in {0, 1} : f = One(sv.out.ack)
    BY <1>3, OneIs
<1>6. PICK s \in {0, 1} : s = One(r.stb)
    BY <1>3, OneIs
<1>7. /\ c \in [0 .. p -> Nat] /\ c[0] = Len(wb.owed) /\ c[p] = f
      /\ \A i, j \in 0 .. p : i <= j => c[j] <= c[i]
      /\ \A j \in 1 .. p : c[j - 1] = c[j] + One(Slot(j - 1).ack)
    BY <1>4, <1>5 DEF Counts
<1>8. f <= Len(wb.owed)
    BY <1>3, <1>7
<1>9. /\ wb' \in [n : Nat, owed : Seq(Owed)]
      /\ Len(wb'.owed) = Len(wb.owed) - f + s
      /\ \A k \in 1 .. Len(wb.owed) - f : wb'.owed[k] = wb.owed[k + f]
      /\ r.stb => wb'.owed[Len(wb.owed) - f + 1] = [we |-> r.we, d |-> truth[r.a]]
    BY <1>3, <1>5, <1>6, <1>8, OwedStep
<1>10. /\ sv' \in [kind : {"memsim"}, delay : Nat, head : Nat, stall : {FALSE}, fifo : Seq(Answers), out : Answers]
       /\ sv'.delay = d /\ Len(sv'.fifo) = len
       /\ g = (h + 1) % len /\ g < len
       /\ sv'.out = sv.fifo[((g - d) % len) + 1]
       /\ sv'.fifo[g + 1].ack = r.stb
       /\ r.stb /\ ~r.we => sv'.fifo[g + 1].d = mem[r.a]
       /\ \A i \in 1 .. len : i # g + 1 => sv'.fifo[i] = sv.fifo[i]
       /\ mem' \in [Addresses -> MemWord]
       /\ mem' = IF r.stb /\ r.we THEN [mem EXCEPT ![r.a] = Merge(@, r.d, r.sel)] ELSE mem
    BY <1>1, ApplyIs
<1>11. mem' = truth'
    BY <1>1, <1>2, <1>10
<1>12. MemTypes'
    BY <1>9, <1>10, <1>11 DEF MemTypes
<1>13. Depth' = p
    BY <1>10 DEF Depth
<1>14. Moves(len, h, d, p, g)
  <2>1. h \in 0 .. len - 1
    BY <1>2, <1>3
  <2>2. /\ len \in Nat /\ d \in Nat /\ p \in Nat /\ p = (IF d = 0 THEN 1 ELSE d) /\ p <= len
        /\ d = 0 => len = 1
        /\ g = (h + 1) % len
    BY <1>2, <1>3, <1>10
  <2> HIDE DEF len, h, d, g, p
  <2> QED BY <2>1, <2>2, PlacesMove
\* Where the answers of the last clocks are now
<1> DEFINE Now(j) == sv'.fifo[((g - j) % len) + 1]
<1>15. /\ Now(0).ack = r.stb /\ (r.stb /\ ~r.we => Now(0).d = mem[r.a])
       /\ \A j \in 1 .. p - 1 : Now(j) = Slot(j - 1)
       /\ sv'.out = Slot(p - 1)
       /\ \A j \in 0 .. p - 1 : Slot(j) \in Answers
  <2> HIDE DEF g, p
  <2>1. (g - 0) % len = g /\ (g - d) % len = (h - (p - 1)) % len
    BY <1>14 DEF Moves
  <2>2. ASSUME NEW j \in 1 .. p - 1
        PROVE  Now(j) = Slot(j - 1)
    <3>1. j \in 1 .. p /\ j - 1 \in 0 .. p - 1
      BY <1>3
    <3>2. /\ (g - j) % len = (h - (j - 1)) % len /\ (g - j) % len # g
          /\ (h - (j - 1)) % len \in 0 .. len - 1
      BY <1>14, <3>1 DEF Moves
    <3> DEFINE i == (g - j) % len
    <3>3. i \in 0 .. len - 1 /\ i # g /\ i = (h - (j - 1)) % len
      BY <3>2
    <3> HIDE DEF i
    <3>4. i + 1 \in 1 .. len /\ i + 1 # g + 1
      <4>1. g \in Nat
        BY <1>10 DEF g
      <4>2. len \in Nat /\ i \in Nat /\ i <= len - 1
        BY <1>3, <3>3
      <4> HIDE DEF len
      <4> QED BY <3>3, <4>1, <4>2
    <3>5. sv'.fifo[i + 1] = sv.fifo[i + 1]
      BY <1>10, <3>4 DEF g
    <3> QED BY <3>3, <3>5 DEF i, Slot, Place
  <2>3. sv'.out = Slot(p - 1)
    BY <1>10, <2>1 DEF Slot, Place, g
  <2>4. ASSUME NEW j \in 0 .. p - 1
        PROVE  Slot(j) \in Answers
    <3> DEFINE i == (h - j) % len
    <3>1. i \in 0 .. len - 1
      BY <1>14 DEF Moves
    <3> HIDE DEF i
    <3>2. i + 1 \in 1 .. len
      BY <1>3, <3>1
    <3>3. sv.fifo[i + 1] \in Answers
      BY <1>2, <3>2, ElementOfSeq
    <3> QED BY <3>3 DEF Slot, Place, i
  <2> QED BY <1>10, <2>1, <2>2, <2>3, <2>4 DEF g
<1>16. \A j \in Int : Slot(j)' = Now(j)
    BY <1>10 DEF Slot, Place
<1> HIDE DEF len, h, d, g, Now
<1> PICK e : e = [j \in 0 .. p |-> IF j = 0 THEN Len(wb.owed) - f + s ELSE c[j - 1] - f]
    OBVIOUS
<1>17. /\ e[0] = Len(wb.owed) - f + s
       /\ \A j \in 1 .. p : e[j] = c[j - 1] - f
       /\ \A j \in 0 .. p - 1 : c[j] \in Nat /\ f <= c[j] /\ c[j] <= Len(wb.owed)
       /\ c[p - 1] = f + One(Slot(p - 1).ack)
  <2> HIDE DEF p
  <2>1. 0 \in 0 .. p /\ p \in 0 .. p /\ p \in 1 .. p /\ (\A j \in 1 .. p : j \in 0 .. p /\ j # 0)
    BY <1>3
  <2>2. \A j \in 0 .. p - 1 : j \in 0 .. p /\ 0 <= j /\ j <= p
    BY <1>3
  <2> QED BY <1>7, <2>1, <2>2
<1>18. e \in [0 .. p -> Nat]
  <2> HIDE DEF p
  <2>1. ASSUME NEW j \in 0 .. p
        PROVE  e[j] \in Nat
    <3>1. CASE j = 0
      BY <1>3, <1>8, <1>17, <3>1
    <3>2. CASE j # 0
      <4>1. j \in 1 .. p /\ j - 1 \in 0 .. p - 1
        BY <1>3, <3>2
      <4>2. e[j] = c[j - 1] - f /\ c[j - 1] \in Nat /\ f <= c[j - 1]
        BY <1>17, <4>1
      <4> QED BY <4>2
    <3> QED BY <3>1, <3>2
  <2> QED BY <2>1
<1>19. \A i, j \in 0 .. p : i <= j => e[j] <= e[i]
  <2> HIDE DEF p
  <2> SUFFICES ASSUME NEW i \in 0 .. p, NEW j \in 0 .. p, i <= j
               PROVE  e[j] <= e[i]
    OBVIOUS
  <2>1. CASE j = 0
    <3>1. i = 0
      BY <2>1, <1>3
    <3> QED BY <2>1, <3>1, <1>18
  <2>2. CASE j # 0
    <3>1. j \in 1 .. p /\ j - 1 \in 0 .. p - 1 /\ j - 1 \in 0 .. p
      BY <1>3, <2>2
    <3>2. e[j] = c[j - 1] - f /\ c[j - 1] \in Nat /\ c[j - 1] <= Len(wb.owed)
      BY <1>17, <3>1
    <3>3. CASE i = 0
      BY <1>3, <1>17, <3>2, <3>3
    <3>4. CASE i # 0
      <4>1. i \in 1 .. p /\ i - 1 \in 0 .. p - 1 /\ i - 1 \in 0 .. p /\ i - 1 <= j - 1
        BY <1>3, <3>4
      <4>2. e[i] = c[i - 1] - f /\ c[i - 1] \in Nat /\ c[j - 1] <= c[i - 1]
        BY <1>7, <1>17, <3>1, <4>1
      <4> QED BY <3>2, <4>2
    <3> QED BY <3>3, <3>4
  <2> QED BY <2>1, <2>2
<1>20. \A j \in 1 .. p : e[j - 1] = e[j] + One(Now(j - 1).ack)
  <2> HIDE DEF p
  <2> TAKE j \in 1 .. p
  <2>1. CASE j = 1
    <3>1. e[1] = c[0] - f /\ c[0] = Len(wb.owed) /\ Now(0).ack = r.stb /\ j - 1 = 0
      BY <1>7, <1>15, <1>17, <2>1
    <3> QED BY <1>3, <1>6, <1>17, <2>1, <3>1
  <2>2. CASE j # 1
    <3>1. j - 1 \in 1 .. p /\ j - 1 \in 1 .. p - 1 /\ j - 1 \in 0 .. p - 1 /\ (j - 1) - 1 \in 0 .. p - 1
      <4>1. p \in Nat
        BY <1>3
      <4> QED BY <2>2, <4>1
    <3>2. e[j] = c[j - 1] - f /\ e[j - 1] = c[(j - 1) - 1] - f
      BY <1>17, <3>1
    <3>3. Now(j - 1) = Slot((j - 1) - 1) /\ Slot((j - 1) - 1) \in Answers
      BY <1>15, <3>1
    <3>4. c[(j - 1) - 1] = c[j - 1] + One(Slot((j - 1) - 1).ack)
      BY <1>7, <3>1
    <3>5. PICK a \in {0, 1} : a = One(Slot((j - 1) - 1).ack)
      BY <3>3, OneIs DEF Answers
    <3>6. c[j - 1] \in Nat /\ c[(j - 1) - 1] \in Nat
      BY <1>17, <3>1
    <3>7. One(Now(j - 1).ack) = a
      BY <3>3, <3>5
    <3> QED BY <3>2, <3>4, <3>5, <3>6, <3>7
  <2> QED BY <2>1, <2>2
<1>21. e[p] = One(sv'.out.ack)
  <2> HIDE DEF p
  <2>1. p \in 1 .. p /\ p - 1 \in 0 .. p - 1
    BY <1>3
  <2>2. PICK a \in {0, 1} : a = One(Slot(p - 1).ack)
    BY <1>15, <2>1, OneIs DEF Answers
  <2>3. e[p] = c[p - 1] - f /\ c[p - 1] = f + a
    BY <1>17, <2>1, <2>2
  <2> QED BY <1>15, <2>2, <2>3
<1>22. Counts(e)'
  <2>1. c \in [0 .. p -> Nat] /\ e \in [0 .. Depth' -> Nat]
    BY <1>7, <1>13, <1>18
  <2>2. \A j \in 1 .. p : Slot(j - 1)' = Now(j - 1)
    <3> HIDE DEF p
    <3>1. \A j \in 1 .. p : j - 1 \in Int
      BY <1>3
    <3> QED BY <1>16, <3>1
  <2>3. e[0] = Len(wb'.owed)
    BY <1>9, <1>17
  <2> HIDE DEF p
  <2> QED BY <1>13, <1>19, <1>20, <1>21, <2>1, <2>2, <2>3 DEF Counts
<1>23. ASSUME NEW j \in 0 .. p - 1, Slot(j).ack
       PROVE  /\ c[j] - f \in 1 .. Len(wb.owed) - f
              /\ wb'.owed[c[j] - f].we \/ Slot(j).d = wb'.owed[c[j] - f].d
  <2> HIDE DEF p
  <2>1. j + 1 \in 1 .. p /\ j + 1 \in 0 .. p /\ (j + 1) - 1 = j /\ p \in 0 .. p /\ j + 1 <= p
    BY <1>3
  <2>2. c[j] = c[j + 1] + One(Slot(j).ack) /\ f <= c[j + 1] /\ c[j + 1] \in Nat
    BY <1>7, <2>1
  <2>3. One(Slot(j).ack) = 1
    BY <1>23 DEF One
  <2>4. c[j] \in Nat /\ c[j] <= Len(wb.owed) /\ c[j] >= f + 1
    BY <1>17, <2>2, <2>3
  <2>5. c[j] - f \in 1 .. Len(wb.owed) - f /\ (c[j] - f) + f = c[j]
    BY <1>3, <2>4
  <2>6. wb'.owed[c[j] - f] = wb.owed[c[j]]
    BY <1>9, <2>5
  <2>7. Fits(Slot(j), c[j])
    BY <1>4, <2>1
  <2>8. wb.owed[c[j]].we \/ Slot(j).d = wb.owed[c[j]].d
    BY <1>23, <2>7 DEF Fits
  <2> QED BY <2>5, <2>6, <2>8
<1>24. \A j \in 1 .. p : Fits(Slot(j - 1), e[j - 1])'
  <2> HIDE DEF p
  <2> SUFFICES ASSUME NEW j \in 1 .. p, Now(j - 1).ack
               PROVE  wb'.owed[e[j - 1]].we \/ Now(j - 1).d = wb'.owed[e[j - 1]].d
    <3>1. \A j \in 1 .. p : Slot(j - 1)' = Now(j - 1)
      <4>1. \A j \in 1 .. p : j - 1 \in Int
        BY <1>3
      <4> QED BY <1>16, <4>1
    <3>2. ASSUME NEW j \in 1 .. p
          PROVE  Fits(Slot(j - 1), e[j - 1])'
      <4>1. Slot(j - 1)' = Now(j - 1)
        BY <3>1
      <4>2. Now(j - 1).ack => wb'.owed[e[j - 1]].we \/ Now(j - 1).d = wb'.owed[e[j - 1]].d
        OBVIOUS
      <4> QED BY <4>1, <4>2 DEF Fits
    <3> QED BY <3>2
  <2>1. CASE j = 1
    <3>1. j - 1 = 0 /\ r.stb /\ s = 1
      BY <1>6, <1>15, <2>1 DEF One
    <3>2. e[0] = Len(wb.owed) - f + 1
      BY <1>17, <3>1
    <3>3. wb'.owed[e[0]] = [we |-> r.we, d |-> truth[r.a]]
      BY <1>9, <3>1, <3>2
    <3>4. ~r.we => Now(0).d = truth[r.a]
      BY <1>2, <1>15, <3>1
    <3> QED BY <3>1, <3>3, <3>4, <1>3
  <2>2. CASE j # 1
    <3>1. j - 1 \in 1 .. p - 1 /\ j - 1 \in 1 .. p /\ (j - 1) - 1 \in 0 .. p - 1
      <4>1. p \in Nat
        BY <1>3
      <4> QED BY <2>2, <4>1
    <3>2. Now(j - 1) = Slot((j - 1) - 1) /\ e[j - 1] = c[(j - 1) - 1] - f
      BY <1>15, <1>17, <3>1
    <3> QED BY <1>23, <3>1, <3>2
  <2> QED BY <2>1, <2>2
<1>25. Fits(sv.out, 1)'
  <2> HIDE DEF p
  <2> SUFFICES ASSUME Slot(p - 1).ack
               PROVE  wb'.owed[1].we \/ Slot(p - 1).d = wb'.owed[1].d
    BY <1>15 DEF Fits
  <2>1. p - 1 \in 0 .. p - 1
    BY <1>3
  <2>2. c[p - 1] - f = 1
    <3>1. One(Slot(p - 1).ack) = 1
      BY DEF One
    <3> QED BY <1>17, <3>1
  <2> QED BY <1>23, <2>1, <2>2
<1>26. sv'.head < Len(sv'.fifo) /\ Depth' <= Len(sv'.fifo) /\ (sv'.delay = 0 => Len(sv'.fifo) = 1)
    BY <1>2, <1>10, <1>13 DEF len, h, d, g
<1>27. MemsimInv'
  <2>1. sv' \in [kind : {"memsim"}, delay : Nat, head : Nat, stall : {FALSE}, fifo : Seq(Answers), out : Answers]
    BY <1>10
  <2>2. \A j \in 1 .. Depth' : Fits(Slot(j - 1), e[j - 1])'
    BY <1>13, <1>24
  <2> QED BY <1>11, <1>22, <1>25, <1>26, <2>1, <2>2 DEF MemsimInv
<1> QED BY <1>10, <1>12, <1>27

-----------------------------------------------------------------------------
(* A clock of sramdev and its chip.                                        *)
Numbers == {0, 1, 2, 3}

LEMMA HalfTypes ==
    ASSUME NEW w \in MemWord, NEW x \in MemHalf, NEW y \in MemHalf
    PROVE  /\ High16(w) \in MemHalf /\ Low16(w) \in MemHalf /\ Joined(x, y) \in MemWord
           /\ High16(w)[0] = w[2] /\ High16(w)[1] = w[3] /\ Low16(w)[0] = w[0] /\ Low16(w)[1] = w[1]
           /\ High16(Joined(x, y)) = x /\ Low16(Joined(x, y)) = y
           /\ Joined(High16(w), Low16(w)) = w
<1>1. /\ 0 .. 3 = Numbers /\ 0 .. 1 = {0, 1}
    BY DEF Numbers
<1>2. High16(w) \in MemHalf /\ Low16(w) \in MemHalf
    BY DEF High16, Low16, MemHalf, MemWord
<1>3. High16(w)[0] = w[2] /\ High16(w)[1] = w[3] /\ Low16(w)[0] = w[0] /\ Low16(w)[1] = w[1]
    BY DEF High16, Low16
<1>4. Joined(x, y) \in MemWord
    BY DEF Joined, MemHalf, MemWord
<1>5. Joined(x, y)[0] = y[0] /\ Joined(x, y)[1] = y[1] /\ Joined(x, y)[2] = x[0] /\ Joined(x, y)[3] = x[1]
    BY DEF Joined
<1>6. High16(Joined(x, y)) = x
  <2>1. High16(Joined(x, y)) = [h \in 0 .. 1 |-> Joined(x, y)[h + 2]]
    BY DEF High16
  <2>2. \A h \in 0 .. 1 : Joined(x, y)[h + 2] = x[h]
    BY <1>5
  <2>3. x = [h \in 0 .. 1 |-> x[h]]
    BY DEF MemHalf
  <2> QED BY <2>1, <2>2, <2>3
<1>7. Low16(Joined(x, y)) = y
  <2>1. Low16(Joined(x, y)) = [h \in 0 .. 1 |-> Joined(x, y)[h]]
    BY DEF Low16
  <2>2. \A h \in 0 .. 1 : Joined(x, y)[h] = y[h]
    BY <1>5
  <2>3. y = [h \in 0 .. 1 |-> y[h]]
    BY DEF MemHalf
  <2> QED BY <2>1, <2>2, <2>3
<1>8. Joined(High16(w), Low16(w)) = w
  <2>1. Joined(High16(w), Low16(w)) = [b \in 0 .. 3 |-> IF b > 1 THEN High16(w)[b - 2] ELSE Low16(w)[b]]
    BY DEF Joined
  <2>2. \A b \in 0 .. 3 : (IF b > 1 THEN High16(w)[b - 2] ELSE Low16(w)[b]) = w[b]
    BY <1>3
  <2>3. w = [b \in 0 .. 3 |-> w[b]]
    BY DEF MemWord
  <2> QED BY <2>1, <2>2, <2>3
<1> QED BY <1>2, <1>3, <1>4, <1>6, <1>7, <1>8

SramFields == {"kind", "st", "nack", "stall", "data", "write", "nsel", "ce", "oe", "we", "off", "a", "half",
               "rd", "iram", "out"}

\* What a clock leaves in the registers, one by one
LEMMA SramdevIs ==
    ASSUME SramTypes, NEW r \in Driving, NEW cyc \in BOOLEAN, Sramdev(r, cyc)
    PROVE  /\ sv'.kind = "sramdev" /\ DOMAIN sv' = SramFields
           /\ sv' = [f \in SramFields |-> sv'[f]]
           /\ sv'.stall = (IF sv.st = 0 THEN r.stb ELSE sv.st # 7)
           /\ sv'.st = (IF sv.st = 0 /\ ~r.stb THEN 0 ELSE Wraps(sv.st))
           /\ sv'.nack = (IF sv.st = 0 THEN r.stb ELSE sv.nack /\ cyc)
           /\ sv'.data = (IF sv.st = 0 THEN r.d ELSE sv.data)
           /\ sv'.write = (IF sv.st = 0 THEN r.we ELSE sv.write)
           /\ sv'.nsel = (IF sv.st # 0 THEN sv.nsel ELSE IF r.we THEN (0 .. 3) \ r.sel ELSE {})
           /\ sv'.out = [ack |-> Acks(sv, cyc),
                         d |-> CASE sv.st \in {0, 7} -> Joined(High16(sv.out.d), sv.iram)
                                 [] HighThere(sv.st) -> Joined(sv.iram, Low16(sv.out.d))
                                 [] OTHER -> sv.out.d]
           /\ sv'.ce = Driven(sv, r).ce /\ sv'.oe = Driven(sv, r).oe /\ sv'.we = Driven(sv, r).we
           /\ sv'.off = Driven(sv, r).off /\ sv'.a = Driven(sv, r).a /\ sv'.half = Driven(sv, r).half
           /\ sv'.rd = Driven(sv, r).rd /\ sv'.iram = ChipData(sv') /\ mem' = ChipMem(sv')
<1> DEFINE e == Settled(sv, r, cyc)
           d == Driven(sv, r)
           c == [e EXCEPT !.ce = d.ce, !.oe = d.oe, !.we = d.we, !.off = d.off,
                          !.a = d.a, !.half = d.half, !.rd = d.rd]
<1>1. /\ DOMAIN e = SramFields /\ e = [f \in SramFields |-> e[f]]
      /\ e.kind = "sramdev" /\ e.stall = (IF sv.st = 0 THEN r.stb ELSE sv.st # 7)
      /\ e.st = (IF sv.st = 0 /\ ~r.stb THEN 0 ELSE Wraps(sv.st))
      /\ e.nack = (IF sv.st = 0 THEN r.stb ELSE sv.nack /\ cyc)
      /\ e.data = (IF sv.st = 0 THEN r.d ELSE sv.data)
      /\ e.write = (IF sv.st = 0 THEN r.we ELSE sv.write)
      /\ e.nsel = (IF sv.st # 0 THEN sv.nsel ELSE IF r.we THEN (0 .. 3) \ r.sel ELSE {})
      /\ e.out = [ack |-> Acks(sv, cyc),
                  d |-> CASE sv.st \in {0, 7} -> Joined(High16(sv.out.d), sv.iram)
                          [] HighThere(sv.st) -> Joined(sv.iram, Low16(sv.out.d))
                          [] OTHER -> sv.out.d]
  <2> DEFINE o == CASE sv.st \in {0, 7} -> Joined(High16(sv.out.d), sv.iram)
                    [] HighThere(sv.st) -> Joined(sv.iram, Low16(sv.out.d))
                    [] OTHER -> sv.out.d
  <2>1. e = [sv EXCEPT !.st = IF sv.st = 0 /\ ~r.stb THEN 0 ELSE Wraps(sv.st),
                  !.nack = IF sv.st = 0 THEN r.stb ELSE @ /\ cyc,
                  !.stall = IF sv.st = 0 THEN r.stb ELSE sv.st # 7,
                  !.data = IF sv.st = 0 THEN r.d ELSE @, !.write = IF sv.st = 0 THEN r.we ELSE @,
                  !.nsel = IF sv.st # 0 THEN @ ELSE IF r.we THEN (0 .. 3) \ r.sel ELSE {},
                  !.out = [ack |-> Acks(sv, cyc), d |-> o]]
    BY DEF Settled
  <2>2. DOMAIN sv = SramFields /\ sv = [f \in SramFields |-> sv[f]] /\ sv.kind = "sramdev"
    BY DEF SramTypes, SramFields
  <2> HIDE DEF e, o
  <2>3. DOMAIN e = SramFields /\ e = [f \in SramFields |-> e[f]]
    BY <2>1, <2>2
  <2>4. e.kind = "sramdev" /\ e.stall = (IF sv.st = 0 THEN r.stb ELSE sv.st # 7)
    BY <2>1, <2>2 DEF SramFields
  <2>5. e.nack = (IF sv.st = 0 THEN r.stb ELSE sv.nack /\ cyc)
    BY <2>1, <2>2 DEF SramFields
  <2> QED BY <2>1, <2>2, <2>3, <2>4, <2>5 DEF SramFields, o
<1>2. sv' = [c EXCEPT !.iram = ChipData(c)] /\ mem' = ChipMem(c)
    BY DEF Sramdev
<1> HIDE DEF e, d
<1>3. /\ DOMAIN c = SramFields /\ c = [f \in SramFields |-> c[f]]
      /\ c.ce = d.ce /\ c.oe = d.oe /\ c.we = d.we /\ c.off = d.off
      /\ c.a = d.a /\ c.half = d.half /\ c.rd = d.rd
      /\ c.kind = e.kind /\ c.stall = e.stall /\ c.st = e.st /\ c.nack = e.nack /\ c.data = e.data
      /\ c.write = e.write /\ c.nsel = e.nsel /\ c.out = e.out
  <2>1. DOMAIN c = SramFields /\ c = [f \in SramFields |-> c[f]]
    BY <1>1
  <2> QED BY <1>1, <2>1 DEF SramFields
<1> HIDE DEF c
<1>4. /\ DOMAIN sv' = SramFields /\ sv' = [f \in SramFields |-> sv'[f]]
      /\ sv'.iram = ChipData(c)
      /\ sv'.ce = c.ce /\ sv'.oe = c.oe /\ sv'.we = c.we /\ sv'.off = c.off
      /\ sv'.a = c.a /\ sv'.half = c.half /\ sv'.rd = c.rd
      /\ sv'.kind = c.kind /\ sv'.stall = c.stall /\ sv'.st = c.st /\ sv'.nack = c.nack /\ sv'.data = c.data
      /\ sv'.write = c.write /\ sv'.nsel = c.nsel /\ sv'.out = c.out
  <2>1. DOMAIN sv' = SramFields /\ sv' = [f \in SramFields |-> sv'[f]]
    BY <1>2, <1>3
  <2> QED BY <1>2, <1>3, <2>1 DEF SramFields
<1>5. ChipData(sv') = ChipData(c) /\ ChipMem(sv') = ChipMem(c)
  <2>1. /\ sv'.ce = c.ce /\ sv'.we = c.we /\ sv'.off = c.off /\ sv'.a = c.a
        /\ sv'.half = c.half /\ sv'.rd = c.rd
    BY <1>4
  <2>2. ChipData(sv') = ChipData(c)
    BY <2>1, Zenon DEF ChipData, Lane
  <2>3. ChipMem(sv') = ChipMem(c)
    BY <2>1, Zenon DEF ChipMem, Lane
  <2> QED BY <2>2, <2>3
<1>6. /\ sv'.kind = "sramdev" /\ sv'.iram = ChipData(sv') /\ mem' = ChipMem(sv')
    BY <1>1, <1>2, <1>3, <1>4, <1>5
<1>7. /\ sv'.ce = Driven(sv, r).ce /\ sv'.oe = Driven(sv, r).oe /\ sv'.we = Driven(sv, r).we
      /\ sv'.off = Driven(sv, r).off /\ sv'.a = Driven(sv, r).a /\ sv'.half = Driven(sv, r).half
      /\ sv'.rd = Driven(sv, r).rd
    BY <1>3, <1>4 DEF d
<1> QED BY <1>1, <1>3, <1>4, <1>6, <1>7

\* The chip is given and gives back halves of words
LEMMA ChipTypes ==
    ASSUME NEW m \in [Addresses -> MemWord], m = mem, NEW c, c.a \in Addresses, c.rd \in MemHalf, c.half \in 0 .. 1
    PROVE  ChipMem(c) \in [Addresses -> MemWord] /\ ChipData(c) \in MemHalf
<1>1. c.rd \in [{0, 1} -> Int] /\ 0 .. 1 = {0, 1}
    BY DEF MemHalf
<1>2. \A b \in 0 .. 3 : b % 2 \in {0, 1} /\ c.rd[b % 2] \in Int
    BY <1>1
<1>3. \A x \in Addresses, b \in 0 .. 3 : mem[x][b] \in Int
    BY DEF MemWord
<1>4. ChipMem(c) \in [Addresses -> MemWord]
  <2> DEFINE w == [b \in 0 .. 3 |-> IF \E h \in (0 .. 1) \ c.off : b = Lane(c, h)
                                    THEN c.rd[b % 2] ELSE mem[c.a][b]]
  <2>1. w \in MemWord
    BY <1>2, <1>3 DEF MemWord
  <2>2. ChipMem(c) = IF c.ce /\ c.we THEN [mem EXCEPT ![c.a] = w] ELSE mem
    BY DEF ChipMem
  <2> HIDE DEF w
  <2> QED BY <2>1, <2>2
<1>5. ChipData(c) \in MemHalf
  <2>1. Junk \in MemHalf
    BY DEF Junk, MemHalf
  <2>2. \A h \in 0 .. 1 : Lane(c, h) \in 0 .. 3
    BY <1>1 DEF Lane
  <2>3. \A h \in 0 .. 1 : (IF h \in c.off THEN c.rd[h] ELSE mem[c.a][Lane(c, h)]) \in Int
    BY <1>1, <1>3, <2>2
  <2> DEFINE w == [h \in 0 .. 1 |-> IF h \in c.off THEN c.rd[h] ELSE mem[c.a][Lane(c, h)]]
  <2>4. w \in MemHalf
    BY <2>3 DEF MemHalf
  <2>5. ChipData(c) = CASE ~c.ce -> Junk [] c.ce /\ c.we -> c.rd [] OTHER -> w
    BY DEF ChipData
  <2> HIDE DEF w
  <2>6. CASE ~c.ce
    BY <2>1, <2>5, <2>6
  <2>7. CASE c.ce /\ c.we
    BY <2>5, <2>7
  <2>8. CASE c.ce /\ ~c.we
    BY <2>4, <2>5, <2>8
  <2> QED BY <2>6, <2>7, <2>8
<1> QED BY <1>4, <1>5

\* What a clock tells the chip, by where the cycle stands
Starts(r) == /\ sv'.ce = r.stb /\ sv'.oe = (r.stb /\ ~r.we) /\ sv'.we = (r.stb /\ r.we) /\ sv'.off = {0, 1}
             /\ sv'.a = r.a /\ sv'.half = 0 /\ sv'.rd = High16(r.d)
GoesOn(off) == /\ sv'.ce = TRUE /\ sv'.oe = ~sv.write /\ sv'.we = sv.write /\ sv'.off = off
               /\ sv'.a = sv.a /\ sv'.half = sv.half /\ sv'.rd = sv.rd
Rests == sv'.ce = FALSE /\ sv'.oe = FALSE /\ sv'.we = FALSE /\ sv'.off = {0, 1} /\ sv'.a = sv.a

LEMMA DrivenIs ==
    ASSUME SramTypes, NEW r \in Driving, NEW cyc \in BOOLEAN, Sramdev(r, cyc)
    PROVE  /\ sv.st = 0 => Starts(r)
           /\ sv.st \in {1, 2} => GoesOn(Disabled(sv, 0))
           /\ sv.st \in {5, 6} => GoesOn(Disabled(sv, 1))
           /\ sv.st = 4 => GoesOn({0, 1})
           /\ sv.st = 3 => Rests /\ sv'.half = 1 /\ sv'.rd = Low16(sv.data)
           /\ sv.st = 7 => Rests /\ sv'.half = sv.half /\ sv'.rd = sv.rd
<1> DEFINE d == Driven(sv, r)
<1>1. /\ sv'.ce = d.ce /\ sv'.oe = d.oe /\ sv'.we = d.we
      /\ sv'.off = d.off /\ sv'.a = d.a /\ sv'.half = d.half /\ sv'.rd = d.rd
    BY SramdevIs
<1>2. DOMAIN sv = SramFields /\ sv.st \in 0 .. 7
    BY DEF SramTypes, SramFields
<1>3. sv.st = 0 => d = [sv EXCEPT !.ce = r.stb, !.oe = r.stb /\ ~r.we, !.we = r.stb /\ r.we, !.off = {0, 1},
                                  !.a = r.a, !.half = 0, !.rd = High16(r.d)]
    BY DEF Driven
<1>4. sv.st \in {1, 2} => d = [sv EXCEPT !.ce = TRUE, !.oe = ~sv.write, !.we = sv.write, !.off = Disabled(sv, 0)]
  <2> SUFFICES ASSUME sv.st \in {1, 2}
               PROVE  d = [sv EXCEPT !.ce = TRUE, !.oe = ~sv.write, !.we = sv.write, !.off = Disabled(sv, 0)]
    OBVIOUS
  <2>1. HalfOf(sv.st) = 0
    BY DEF HalfOf
  <2>2. d = [sv EXCEPT !.ce = TRUE, !.oe = ~sv.write, !.we = sv.write, !.off = Disabled(sv, HalfOf(sv.st))]
    BY DEF Driven
  <2> QED BY <2>1, <2>2
<1>5. sv.st \in {5, 6} => d = [sv EXCEPT !.ce = TRUE, !.oe = ~sv.write, !.we = sv.write, !.off = Disabled(sv, 1)]
  <2> SUFFICES ASSUME sv.st \in {5, 6}
               PROVE  d = [sv EXCEPT !.ce = TRUE, !.oe = ~sv.write, !.we = sv.write, !.off = Disabled(sv, 1)]
    OBVIOUS
  <2>1. HalfOf(sv.st) = 1
    BY DEF HalfOf
  <2>2. d = [sv EXCEPT !.ce = TRUE, !.oe = ~sv.write, !.we = sv.write, !.off = Disabled(sv, HalfOf(sv.st))]
    BY DEF Driven
  <2> QED BY <2>1, <2>2
<1>6. sv.st = 4 => d = [sv EXCEPT !.ce = TRUE, !.oe = ~sv.write, !.we = sv.write, !.off = {0, 1}]
    BY DEF Driven
<1>7. sv.st = 3 => d = [sv EXCEPT !.ce = FALSE, !.oe = FALSE, !.we = FALSE, !.off = {0, 1},
                                  !.half = 1, !.rd = Low16(sv.data)]
    BY DEF Driven
<1>8. sv.st = 7 => d = [sv EXCEPT !.ce = FALSE, !.oe = FALSE, !.we = FALSE, !.off = {0, 1}]
    BY DEF Driven
<1> HIDE DEF d
<1>9. sv.st = 0 => Starts(r)
  <2> SUFFICES ASSUME sv.st = 0
               PROVE  Starts(r)
    OBVIOUS
  <2> DEFINE oe == r.stb /\ ~r.we
             we == r.stb /\ r.we
  <2>1. d = [sv EXCEPT !.ce = r.stb, !.oe = oe, !.we = we, !.off = {0, 1}, !.a = r.a, !.half = 0, !.rd = High16(r.d)]
    BY <1>3
  <2> HIDE DEF oe, we
  <2>2. /\ d.ce = r.stb /\ d.oe = oe /\ d.we = we /\ d.off = {0, 1}
        /\ d.a = r.a /\ d.half = 0 /\ d.rd = High16(r.d)
    BY <1>2, <2>1 DEF SramFields
  <2>3. sv'.oe = oe /\ sv'.we = we
    BY <1>1, <2>2
  <2> QED BY <1>1, <2>2, <2>3 DEF Starts, oe, we
<1>10. ASSUME NEW off, d = [sv EXCEPT !.ce = TRUE, !.oe = ~sv.write, !.we = sv.write, !.off = off]
       PROVE  GoesOn(off)
  <2> DEFINE oe == ~sv.write
             we == sv.write
  <2>1. d = [sv EXCEPT !.ce = TRUE, !.oe = oe, !.we = we, !.off = off]
    BY <1>10
  <2> HIDE DEF oe, we
  <2>2. /\ d.ce = TRUE /\ d.oe = oe /\ d.we = we /\ d.off = off
        /\ d.a = sv.a /\ d.half = sv.half /\ d.rd = sv.rd
    BY <1>2, <2>1 DEF SramFields
  <2>3. sv'.oe = oe /\ sv'.we = we
    BY <1>1, <2>2
  <2> QED BY <1>1, <2>2, <2>3 DEF GoesOn, oe, we
<1>11. sv.st \in {1, 2} => GoesOn(Disabled(sv, 0))
    BY <1>4, <1>10
<1>12. sv.st \in {5, 6} => GoesOn(Disabled(sv, 1))
    BY <1>5, <1>10
<1>13. sv.st = 4 => GoesOn({0, 1})
    BY <1>6, <1>10
<1>14. sv.st = 3 => Rests /\ sv'.half = 1 /\ sv'.rd = Low16(sv.data)
  <2> SUFFICES ASSUME sv.st = 3
               PROVE  Rests /\ sv'.half = 1 /\ sv'.rd = Low16(sv.data)
    OBVIOUS
  <2>1. /\ d.ce = FALSE /\ d.oe = FALSE /\ d.we = FALSE /\ d.off = {0, 1}
        /\ d.a = sv.a /\ d.half = 1 /\ d.rd = Low16(sv.data)
    BY <1>2, <1>7 DEF SramFields
  <2> QED BY <1>1, <2>1 DEF Rests
<1>15. sv.st = 7 => Rests /\ sv'.half = sv.half /\ sv'.rd = sv.rd
  <2> SUFFICES ASSUME sv.st = 7
               PROVE  Rests /\ sv'.half = sv.half /\ sv'.rd = sv.rd
    OBVIOUS
  <2>1. /\ d.ce = FALSE /\ d.oe = FALSE /\ d.we = FALSE /\ d.off = {0, 1}
        /\ d.a = sv.a /\ d.half = sv.half /\ d.rd = sv.rd
    BY <1>2, <1>8 DEF SramFields
  <2> QED BY <1>1, <2>1 DEF Rests
<1> QED BY <1>9, <1>11, <1>12, <1>13, <1>14, <1>15

LEMMA WrapsIs ==
    \A st \in 0 .. 7 : Wraps(st) \in 0 .. 7 /\ Wraps(st) = (IF st = 7 THEN 0 ELSE st + 1)
BY DEF Wraps

LEMMA SramTypesKept ==
    ASSUME MemTypes, SramTypes, NEW r \in Driving, NEW cyc \in BOOLEAN, Sramdev(r, cyc)
    PROVE  SramTypes' /\ mem' \in [Addresses -> MemWord]
<1>1. /\ sv.st \in 0 .. 7 /\ sv.nack \in BOOLEAN /\ sv.write \in BOOLEAN /\ sv.data \in MemWord
      /\ sv.nsel \in SUBSET (0 .. 3) /\ sv.a \in Addresses /\ sv.half \in 0 .. 1 /\ sv.rd \in MemHalf
      /\ sv.iram \in MemHalf /\ sv.out.d \in MemWord /\ sv.out.ack \in BOOLEAN
    BY DEF SramTypes, Answers
<1>2. /\ r.stb \in BOOLEAN /\ r.we \in BOOLEAN /\ r.a \in Addresses /\ r.d \in MemWord /\ r.sel \in SUBSET (0 .. 3)
    BY DEF Driving
<1>3. /\ sv'.kind = "sramdev" /\ DOMAIN sv' = SramFields
      /\ sv' = [f \in SramFields |-> sv'[f]]
      /\ sv'.iram = ChipData(sv') /\ mem' = ChipMem(sv')
    BY SramdevIs
<1>4. sv'.st \in 0 .. 7
  <2>1. sv'.st = (IF sv.st = 0 /\ ~r.stb THEN 0 ELSE Wraps(sv.st))
    BY SramdevIs
  <2> QED BY <1>1, <2>1, WrapsIs
<1>5. sv'.stall \in BOOLEAN /\ sv'.nack \in BOOLEAN /\ sv'.write \in BOOLEAN
  <2>1. /\ sv'.stall = (IF sv.st = 0 THEN r.stb ELSE sv.st # 7)
        /\ sv'.nack = (IF sv.st = 0 THEN r.stb ELSE sv.nack /\ cyc)
        /\ sv'.write = (IF sv.st = 0 THEN r.we ELSE sv.write)
    BY SramdevIs
  <2>2. (sv.st # 7) \in BOOLEAN /\ (sv.nack /\ cyc) \in BOOLEAN
    OBVIOUS
  <2> QED BY <1>1, <1>2, <2>1, <2>2, Zenon
<1>6. sv'.data \in MemWord /\ sv'.nsel \in SUBSET (0 .. 3)
  <2>1. /\ sv'.data = (IF sv.st = 0 THEN r.d ELSE sv.data)
        /\ sv'.nsel = (IF sv.st # 0 THEN sv.nsel ELSE IF r.we THEN (0 .. 3) \ r.sel ELSE {})
    BY SramdevIs
  <2> QED BY <1>1, <1>2, <2>1
<1>7. sv'.out \in Answers
  <2> DEFINE o == CASE sv.st \in {0, 7} -> Joined(High16(sv.out.d), sv.iram)
                    [] HighThere(sv.st) -> Joined(sv.iram, Low16(sv.out.d))
                    [] OTHER -> sv.out.d
  <2>1. sv'.out = [ack |-> Acks(sv, cyc), d |-> o]
    BY SramdevIs
  <2>2. Joined(High16(sv.out.d), sv.iram) \in MemWord /\ Joined(sv.iram, Low16(sv.out.d)) \in MemWord
    BY <1>1, HalfTypes
  <2>3. o \in MemWord
    BY <1>1, <2>2 DEF HighThere
  <2>4. Acks(sv, cyc) \in BOOLEAN
    BY DEF Acks
  <2> HIDE DEF o
  <2> QED BY <2>1, <2>3, <2>4 DEF Answers
<1>8. /\ sv'.ce \in BOOLEAN /\ sv'.oe \in BOOLEAN /\ sv'.we \in BOOLEAN /\ sv'.off \in SUBSET (0 .. 1)
      /\ sv'.a \in Addresses /\ sv'.half \in 0 .. 1 /\ sv'.rd \in MemHalf
  <2>1. /\ sv.st = 0 => Starts(r)
        /\ sv.st \in {1, 2} => GoesOn(Disabled(sv, 0))
        /\ sv.st \in {5, 6} => GoesOn(Disabled(sv, 1))
        /\ sv.st = 4 => GoesOn({0, 1})
        /\ sv.st = 3 => Rests /\ sv'.half = 1 /\ sv'.rd = Low16(sv.data)
        /\ sv.st = 7 => Rests /\ sv'.half = sv.half /\ sv'.rd = sv.rd
    BY DrivenIs
  <2>2. Disabled(sv, 0) \in SUBSET (0 .. 1) /\ Disabled(sv, 1) \in SUBSET (0 .. 1) /\ {0, 1} \in SUBSET (0 .. 1)
    BY DEF Disabled
  <2>3. High16(r.d) \in MemHalf /\ Low16(sv.data) \in MemHalf
    BY <1>1, <1>2 DEF High16, Low16, MemHalf, MemWord
  <2>4. (r.stb /\ ~r.we) \in BOOLEAN /\ (r.stb /\ r.we) \in BOOLEAN /\ (~sv.write) \in BOOLEAN
        /\ 0 \in 0 .. 1 /\ 1 \in 0 .. 1
    OBVIOUS
  <2>5. CASE sv.st = 0
    BY <1>2, <2>1, <2>3, <2>4, <2>5, <2>2, Zenon DEF Starts
  <2>6. ASSUME NEW off \in SUBSET (0 .. 1), GoesOn(off)
        PROVE  /\ sv'.ce \in BOOLEAN /\ sv'.oe \in BOOLEAN /\ sv'.we \in BOOLEAN /\ sv'.off \in SUBSET (0 .. 1)
               /\ sv'.a \in Addresses /\ sv'.half \in 0 .. 1 /\ sv'.rd \in MemHalf
    <3>1. TRUE \in BOOLEAN
      OBVIOUS
    <3> QED BY <1>1, <2>4, <2>6, <3>1, Zenon DEF GoesOn
  <2>7. CASE sv.st = 3
    BY <1>1, <2>1, <2>2, <2>3, <2>4, <2>7, Zenon DEF Rests
  <2>8. CASE sv.st = 7
    BY <1>1, <2>1, <2>2, <2>8, Zenon DEF Rests
  <2>9. CASE sv.st \in {1, 2} \/ sv.st \in {5, 6} \/ sv.st = 4
    BY <2>1, <2>2, <2>6, <2>9
  <2> QED BY <1>1, <2>5, <2>7, <2>8, <2>9
<1>9. sv'.iram \in MemHalf /\ mem' \in [Addresses -> MemWord]
  <2>1. ChipMem(sv') \in [Addresses -> MemWord] /\ ChipData(sv') \in MemHalf
    BY <1>8, ChipTypes DEF MemTypes
  <2> QED BY <1>3, <2>1
<1>10. SramTypes'
  <2> DEFINE T == [kind : {"sramdev"}, st : 0 .. 7, nack : BOOLEAN, stall : BOOLEAN, data : MemWord, write : BOOLEAN,
                   nsel : SUBSET (0 .. 3), ce : BOOLEAN, oe : BOOLEAN, we : BOOLEAN, off : SUBSET (0 .. 1),
                   a : Addresses, half : 0 .. 1, rd : MemHalf, iram : MemHalf, out : Answers]
             v == [kind |-> sv'.kind, st |-> sv'.st, nack |-> sv'.nack, stall |-> sv'.stall, data |-> sv'.data,
                   write |-> sv'.write, nsel |-> sv'.nsel, ce |-> sv'.ce, oe |-> sv'.oe, we |-> sv'.we,
                   off |-> sv'.off, a |-> sv'.a, half |-> sv'.half, rd |-> sv'.rd, iram |-> sv'.iram,
                   out |-> sv'.out]
  <2>1. v \in T
    BY <1>3, <1>4, <1>5, <1>6, <1>7, <1>8, <1>9
  <2>2. v = sv'
    <3>1. DOMAIN v = SramFields /\ v = [f \in SramFields |-> v[f]]
      BY DEF SramFields
    <3>2. \A f \in SramFields : v[f] = sv'[f]
      BY DEF SramFields
    <3> HIDE DEF v
    <3> QED BY <1>3, <3>1, <3>2
  <2> QED BY <2>1, <2>2 DEF SramTypes
<1> QED BY <1>9, <1>10

\* The chip is told to read or to write, never both
LEMMA ChipToldKept ==
    ASSUME MemTypes, SramTypes, ChipTold, NEW r \in Driving, NEW cyc \in BOOLEAN, Sramdev(r, cyc)
    PROVE  ChipTold'
<1>1. /\ sv.st \in 0 .. 7 /\ sv.write \in BOOLEAN /\ r.stb \in BOOLEAN /\ r.we \in BOOLEAN
    BY DEF SramTypes, Driving
<1>2. /\ sv'.st = (IF sv.st = 0 /\ ~r.stb THEN 0 ELSE Wraps(sv.st))
      /\ Wraps(sv.st) = (IF sv.st = 7 THEN 0 ELSE sv.st + 1)
    BY <1>1, SramdevIs, WrapsIs
<1>3. /\ sv'.stall = (IF sv.st = 0 THEN r.stb ELSE sv.st # 7)
      /\ sv'.data = (IF sv.st = 0 THEN r.d ELSE sv.data)
      /\ sv'.write = (IF sv.st = 0 THEN r.we ELSE sv.write)
      /\ sv'.nsel = (IF sv.st # 0 THEN sv.nsel ELSE IF r.we THEN (0 .. 3) \ r.sel ELSE {})
    BY SramdevIs
<1>4. CASE sv.st = 0 /\ ~r.stb
  <2>1. sv'.st = 0 /\ sv'.stall = FALSE
    BY <1>1, <1>2, <1>3, <1>4
  <2>2. ~sv'.ce /\ ~sv'.oe /\ ~sv'.we
    BY <1>4, DrivenIs DEF Starts
  <2>3. sv'.stall = (sv'.st # 0)
    BY <2>1
  <2> QED BY <2>1, <2>2, <2>3 DEF ChipTold
<1>5. CASE sv.st = 0 /\ r.stb
  <2>1. sv'.st = 1 /\ sv'.stall = TRUE /\ sv'.data = r.d /\ sv'.write = r.we
    BY <1>1, <1>2, <1>3, <1>5
  <2>2. sv'.nsel = (IF r.we THEN (0 .. 3) \ r.sel ELSE {})
    BY <1>3, <1>5
  <2>3. /\ sv'.ce /\ sv'.oe = (r.stb /\ ~r.we) /\ sv'.we = (r.stb /\ r.we)
        /\ sv'.half = 0 /\ sv'.rd = High16(r.d)
    BY <1>5, DrivenIs DEF Starts
  <2>4. sv'.we = sv'.write /\ sv'.oe = ~sv'.write
    BY <1>1, <1>5, <2>1, <2>3
  <2>5. sv'.stall = (sv'.st # 0)
    <3>1. (sv'.st # 0) = TRUE /\ sv'.stall = TRUE
      BY <2>1
    <3> QED BY <3>1, Zenon
  <2>6. ~sv'.write => sv'.nsel = {}
    <3>1. ~sv'.write => ~r.we
      BY <2>1
    <3> QED BY <2>2, <3>1
  <2> QED BY <2>1, <2>3, <2>4, <2>5, <2>6 DEF ChipTold
<1>6. CASE sv.st # 0
  <2>1. /\ sv'.st = (IF sv.st = 7 THEN 0 ELSE sv.st + 1) /\ sv'.stall = (sv.st # 7)
        /\ sv'.data = sv.data /\ sv'.write = sv.write /\ sv'.nsel = sv.nsel
    BY <1>1, <1>2, <1>3, <1>6
  <2>2. /\ sv.st \in 1 .. 3 => sv.half = 0 /\ sv.rd = High16(sv.data)
        /\ sv.st \in 4 .. 7 => sv.half = 1 /\ sv.rd = Low16(sv.data)
        /\ ~sv.write => sv.nsel = {}
    BY <1>6 DEF ChipTold
  <2>3. sv'.stall = (sv'.st # 0)
    BY <1>1, <1>6, <2>1
  <2>4. ~sv'.write => sv'.nsel = {}
    BY <2>1, <2>2
  <2>5. CASE sv.st \in {1, 2} \/ sv.st \in {5, 6} \/ sv.st = 4
    <3>1. /\ sv'.ce /\ sv'.oe = ~sv.write /\ sv'.we = sv.write
          /\ sv'.half = sv.half /\ sv'.rd = sv.rd
      BY <2>5, DrivenIs DEF GoesOn
    <3>2. sv'.st = sv.st + 1 /\ sv'.st \notin {0, 4}
      BY <2>1, <2>5
    <3>3. sv'.we = sv'.write /\ sv'.oe = ~sv'.write
      BY <2>1, <3>1
    <3>4. sv'.st \in 1 .. 3 => sv'.half = 0 /\ sv'.rd = High16(sv'.data)
      <4>1. sv'.st \in 1 .. 3 => sv.st \in 1 .. 3
        BY <1>1, <1>6, <3>2
      <4> QED BY <2>1, <2>2, <3>1, <4>1
    <3>5. sv'.st \in 4 .. 7 => sv'.half = 1 /\ sv'.rd = Low16(sv'.data)
      <4>1. sv'.st \in 4 .. 7 => sv.st \in 4 .. 7
        BY <2>5, <3>2
      <4> QED BY <2>1, <2>2, <3>1, <4>1
    <3> QED BY <2>3, <2>4, <3>1, <3>2, <3>3, <3>4, <3>5 DEF ChipTold
  <2>6. CASE sv.st = 3
    <3>1. ~sv'.ce /\ ~sv'.oe /\ ~sv'.we /\ sv'.half = 1 /\ sv'.rd = Low16(sv.data)
      BY <2>6, DrivenIs DEF Rests
    <3>2. sv'.st = 4
      BY <2>1, <2>6
    <3> QED BY <2>1, <2>3, <2>4, <3>1, <3>2 DEF ChipTold
  <2>7. CASE sv.st = 7
    <3>1. ~sv'.ce /\ ~sv'.oe /\ ~sv'.we
      BY <2>7, DrivenIs DEF Rests
    <3>2. sv'.st = 0
      BY <2>1, <2>7
    <3> QED BY <2>3, <3>1, <3>2 DEF ChipTold
  <2> QED BY <1>1, <1>6, <2>5, <2>6, <2>7
<1> QED BY <1>1, <1>4, <1>5, <1>6

\* A word of the chip after a clock, byte by byte; c is what the chip is told
LEMMA ChipWrites ==
    ASSUME MemTypes, NEW c, c.a \in Addresses, c.half \in 0 .. 1, NEW m, m = ChipMem(c)
    PROVE  /\ ~(c.ce /\ c.we) => m = mem
           /\ \A x \in Addresses \ {c.a} : m[x] = mem[x]
           /\ c.off = {0, 1} => \A b \in 0 .. 3 : m[c.a][b] = mem[c.a][b]
           /\ c.half = 0 => /\ \A b \in 0 .. 1 : m[c.a][b] = mem[c.a][b]
                            /\ \A h \in 0 .. 1 : m[c.a][h + 2] = IF c.ce /\ c.we /\ h \notin c.off
                                                                 THEN c.rd[h] ELSE mem[c.a][h + 2]
           /\ c.half = 1 => /\ \A b \in 2 .. 3 : m[c.a][b] = mem[c.a][b]
                            /\ \A h \in 0 .. 1 : m[c.a][h] = IF c.ce /\ c.we /\ h \notin c.off
                                                             THEN c.rd[h] ELSE mem[c.a][h]
<1> DEFINE w == [b \in 0 .. 3 |-> IF \E h \in (0 .. 1) \ c.off : b = Lane(c, h)
                                  THEN c.rd[b % 2] ELSE mem[c.a][b]]
<1>1. m = IF c.ce /\ c.we THEN [mem EXCEPT ![c.a] = w] ELSE mem
    BY DEF ChipMem
<1>2. /\ 0 % 2 = 0 /\ 1 % 2 = 1 /\ 2 % 2 = 0 /\ 3 % 2 = 1 /\ 0 .. 1 = {0, 1} /\ 0 .. 3 = {0, 1, 2, 3}
      /\ 2 .. 3 = {2, 3} /\ 0 + 2 = 2 /\ 1 + 2 = 3
    OBVIOUS
<1>3. c.off = {0, 1} => \A b \in 0 .. 3 : w[b] = mem[c.a][b]
    BY <1>2
<1>4. c.half = 0 => /\ w[0] = mem[c.a][0] /\ w[1] = mem[c.a][1]
                    /\ w[2] = (IF 0 \notin c.off THEN c.rd[0] ELSE mem[c.a][2])
                    /\ w[3] = (IF 1 \notin c.off THEN c.rd[1] ELSE mem[c.a][3])
  <2> SUFFICES ASSUME c.half = 0
               PROVE  /\ w[0] = mem[c.a][0] /\ w[1] = mem[c.a][1]
                      /\ w[2] = (IF 0 \notin c.off THEN c.rd[0] ELSE mem[c.a][2])
                      /\ w[3] = (IF 1 \notin c.off THEN c.rd[1] ELSE mem[c.a][3])
    OBVIOUS
  <2>1. Lane(c, 0) = 2 /\ Lane(c, 1) = 3
    BY DEF Lane
  <2> QED BY <1>2, <2>1
<1>5. c.half = 1 => /\ w[2] = mem[c.a][2] /\ w[3] = mem[c.a][3]
                    /\ w[0] = (IF 0 \notin c.off THEN c.rd[0] ELSE mem[c.a][0])
                    /\ w[1] = (IF 1 \notin c.off THEN c.rd[1] ELSE mem[c.a][1])
  <2> SUFFICES ASSUME c.half = 1
               PROVE  /\ w[2] = mem[c.a][2] /\ w[3] = mem[c.a][3]
                      /\ w[0] = (IF 0 \notin c.off THEN c.rd[0] ELSE mem[c.a][0])
                      /\ w[1] = (IF 1 \notin c.off THEN c.rd[1] ELSE mem[c.a][1])
    OBVIOUS
  <2>1. Lane(c, 0) = 0 /\ Lane(c, 1) = 1
    BY DEF Lane
  <2> QED BY <1>2, <2>1
<1> HIDE DEF w
<1>6. CASE c.ce /\ c.we
  <2>1. m[c.a] = w /\ \A x \in Addresses \ {c.a} : m[x] = mem[x]
    BY <1>1, <1>6 DEF MemTypes
  <2> QED BY <1>2, <1>3, <1>4, <1>5, <1>6, <2>1
<1>7. CASE ~(c.ce /\ c.we)
    BY <1>1, <1>7
<1> QED BY <1>6, <1>7

\* What the chip drives while it is read
LEMMA ChipReads ==
    ASSUME MemTypes, NEW c, c.a \in Addresses, c.ce, ~c.we, c.off = {}
    PROVE  /\ c.half = 0 => ChipData(c) = High16(mem[c.a])
           /\ c.half = 1 => ChipData(c) = Low16(mem[c.a])
<1>1. ChipData(c) = [h \in 0 .. 1 |-> mem[c.a][Lane(c, h)]]
    BY DEF ChipData
<1>2. CASE c.half = 0
  <2>1. \A h \in 0 .. 1 : Lane(c, h) = h + 2
    BY <1>2 DEF Lane
  <2> QED BY <1>1, <1>2, <2>1 DEF High16
<1>3. CASE c.half = 1
  <2>1. \A h \in 0 .. 1 : Lane(c, h) = h
    BY <1>3 DEF Lane
  <2> QED BY <1>1, <1>3, <2>1 DEF Low16
<1> QED BY <1>2, <1>3

\* A write reaches the chip half by half, and a read comes back so
LEMMA ChipDoneKept ==
    ASSUME MemTypes, SramTypes, ChipTold, ChipDone, NEW r \in Driving, NEW cyc \in BOOLEAN, Sramdev(r, cyc),
           r.stb => ~sv.stall,
           truth' = IF r.stb /\ r.we THEN [truth EXCEPT ![r.a] = Merge(@, r.d, r.sel)] ELSE truth
    PROVE  ChipDone'
<1>1. /\ sv.st \in 0 .. 7 /\ sv.write \in BOOLEAN /\ sv.a \in Addresses /\ sv.iram \in MemHalf /\ sv.out.d \in MemWord
      /\ sv.nsel \in SUBSET (0 .. 3) /\ sv.data \in MemWord
      /\ r.stb \in BOOLEAN /\ r.we \in BOOLEAN /\ r.a \in Addresses /\ r.d \in MemWord /\ r.sel \in SUBSET (0 .. 3)
    BY DEF SramTypes, Driving, Answers
<1>2. SramTypes' /\ mem' \in [Addresses -> MemWord] /\ mem' = ChipMem(sv') /\ sv'.iram = ChipData(sv')
    BY SramTypesKept, SramdevIs
<1>3. sv'.a \in Addresses /\ sv'.half \in 0 .. 1
    BY <1>2 DEF SramTypes
<1>4. /\ sv'.st = (IF sv.st = 0 /\ ~r.stb THEN 0 ELSE Wraps(sv.st))
      /\ Wraps(sv.st) = (IF sv.st = 7 THEN 0 ELSE sv.st + 1)
    BY <1>1, SramdevIs, WrapsIs
<1>5. /\ sv'.data = (IF sv.st = 0 THEN r.d ELSE sv.data)
      /\ sv'.write = (IF sv.st = 0 THEN r.we ELSE sv.write)
      /\ sv'.nsel = (IF sv.st # 0 THEN sv.nsel ELSE IF r.we THEN (0 .. 3) \ r.sel ELSE {})
    BY SramdevIs
<1>6. /\ ~(sv'.ce /\ sv'.we) => mem' = mem
      /\ \A x \in Addresses \ {sv'.a} : mem'[x] = mem[x]
      /\ sv'.off = {0, 1} => \A b \in 0 .. 3 : mem'[sv'.a][b] = mem[sv'.a][b]
      /\ sv'.half = 0 => /\ \A b \in 0 .. 1 : mem'[sv'.a][b] = mem[sv'.a][b]
                         /\ \A h \in 0 .. 1 : mem'[sv'.a][h + 2] = IF sv'.ce /\ sv'.we /\ h \notin sv'.off
                                                                    THEN sv'.rd[h] ELSE mem[sv'.a][h + 2]
      /\ sv'.half = 1 => /\ \A b \in 2 .. 3 : mem'[sv'.a][b] = mem[sv'.a][b]
                         /\ \A h \in 0 .. 1 : mem'[sv'.a][h] = IF sv'.ce /\ sv'.we /\ h \notin sv'.off
                                                                THEN sv'.rd[h] ELSE mem[sv'.a][h]
    BY <1>2, <1>3, ChipWrites
<1>7. CASE sv.st = 0
  <2>1. /\ sv'.ce = r.stb /\ sv'.we = (r.stb /\ r.we) /\ sv'.off = {0, 1} /\ sv'.a = r.a
    BY <1>7, DrivenIs DEF Starts
  <2>2. mem = truth
    BY <1>7 DEF ChipDone
  <2>3. CASE ~(r.stb /\ r.we)
    <3>1. mem' = truth'
      BY <1>6, <2>1, <2>2, <2>3
    <3>2. sv'.st = 0 \/ (sv'.st = 1 /\ ~sv'.write)
      BY <1>1, <1>4, <1>5, <1>7, <2>3
    <3> QED BY <3>1, <3>2 DEF ChipDone
  <2>4. CASE r.stb /\ r.we
    <3>1. sv'.st = 1 /\ sv'.write /\ sv'.nsel = (0 .. 3) \ r.sel /\ sv'.data = r.d
      BY <1>4, <1>5, <1>7, <2>4
    <3>2. /\ truth'[r.a] = Merge(truth[r.a], r.d, r.sel)
          /\ \A x \in Addresses \ {r.a} : truth'[x] = truth[x]
      BY <2>4, TruthType
    <3>3. \A x \in Addresses \ {sv'.a} : mem'[x] = truth'[x]
      BY <1>6, <2>1, <2>2, <3>2
    <3>4. \A b \in 0 .. 3 : truth'[sv'.a][b] = IF b \in sv'.nsel THEN mem'[sv'.a][b] ELSE sv'.data[b]
      <4> TAKE b \in 0 .. 3
      <4>1. truth'[r.a][b] = IF b \in r.sel THEN r.d[b] ELSE mem[r.a][b]
        BY <2>2, <3>2 DEF Merge
      <4>2. mem'[r.a][b] = mem[r.a][b]
        BY <1>6, <2>1
      <4> QED BY <2>1, <3>1, <4>1, <4>2
    <3> QED BY <3>1, <3>3, <3>4 DEF ChipDone
  <2> QED BY <2>3, <2>4
<1>8. CASE sv.st # 0
  <2>0. (\E off : GoesOn(off)) \/ Rests
    <3>1. sv.st \in {1, 2} \/ sv.st \in {5, 6} \/ sv.st = 4 \/ sv.st = 3 \/ sv.st = 7
      BY <1>1, <1>8
    <3> QED BY <3>1, DrivenIs, Zenon
  <2>1. /\ ~r.stb /\ truth' = truth /\ sv'.a = sv.a
        /\ sv'.data = sv.data /\ sv'.write = sv.write /\ sv'.nsel = sv.nsel
        /\ sv'.st = (IF sv.st = 7 THEN 0 ELSE sv.st + 1)
    <3>1. ~r.stb
      BY <1>8 DEF ChipTold
    <3>2. sv'.a = sv.a
      BY <2>0 DEF GoesOn, Rests
    <3>3. truth' = truth
      BY <3>1
    <3> QED BY <1>4, <1>5, <1>8, <3>1, <3>2, <3>3
  <2>2. CASE ~sv.write
    <3>1. mem = truth /\ sv.nsel = {} /\ Disabled(sv, 0) = {} /\ Disabled(sv, 1) = {}
      BY <1>8, <2>2 DEF ChipDone, ChipTold, Disabled
    <3>2. ~sv'.we
      BY <2>0, <2>2 DEF GoesOn, Rests
    <3>3. mem' = mem /\ mem' = truth'
      BY <1>6, <2>1, <3>1, <3>2
    <3>4. sv.st \in {1, 2} => sv'.iram = High16(mem[sv.a])
      <4> SUFFICES ASSUME sv.st \in {1, 2}
                   PROVE  sv'.iram = High16(mem[sv.a])
        OBVIOUS
      <4>1. sv'.ce /\ sv'.off = {} /\ sv'.half = 0
        <5>1. GoesOn(Disabled(sv, 0))
          BY DrivenIs
        <5>2. sv.half = 0
          BY DEF ChipTold
        <5> QED BY <3>1, <5>1, <5>2 DEF GoesOn
      <4> QED BY <1>2, <1>3, <2>1, <3>2, <4>1, ChipReads
    <3>5. sv.st \in {5, 6} => sv'.iram = Low16(mem[sv.a])
      <4> SUFFICES ASSUME sv.st \in {5, 6}
                   PROVE  sv'.iram = Low16(mem[sv.a])
        OBVIOUS
      <4>1. sv'.ce /\ sv'.off = {} /\ sv'.half = 1
        <5>1. GoesOn(Disabled(sv, 1))
          BY DrivenIs
        <5>2. sv.half = 1
          BY DEF ChipTold
        <5> QED BY <3>1, <5>1, <5>2 DEF GoesOn
      <4> QED BY <1>2, <1>3, <2>1, <3>2, <4>1, ChipReads
    <3>6. /\ sv.st = 3 => High16(sv'.out.d) = High16(mem[sv.a])
          /\ sv.st \in {4, 5, 6} => High16(sv'.out.d) = High16(mem[sv.a])
      <4> DEFINE o == CASE sv.st \in {0, 7} -> Joined(High16(sv.out.d), sv.iram)
                        [] HighThere(sv.st) -> Joined(sv.iram, Low16(sv.out.d))
                        [] OTHER -> sv.out.d
      <4>1. sv'.out = [ack |-> Acks(sv, cyc), d |-> o]
        BY SramdevIs
      <4>2. sv'.out.d = o
        BY <4>1
      <4>3. sv.st = 3 => o = Joined(sv.iram, Low16(sv.out.d))
        BY DEF HighThere
      <4>4. sv.st \in {4, 5, 6} => o = sv.out.d
        BY DEF HighThere
      <4> HIDE DEF o
      <4>5. High16(Joined(sv.iram, Low16(sv.out.d))) = sv.iram
        BY <1>1, HalfTypes
      <4>6. /\ sv.st = 3 => sv.iram = High16(mem[sv.a])
            /\ sv.st \in {4, 5, 6} => High16(sv.out.d) = High16(mem[sv.a])
        BY <2>2 DEF ChipDone
      <4> QED BY <4>2, <4>3, <4>4, <4>5, <4>6
    <3>7. /\ sv'.st \in {2, 3} => sv.st \in {1, 2}
          /\ sv'.st >= 4 => sv.st \in {3, 4, 5, 6}
          /\ sv'.st >= 6 => sv.st \in {5, 6}
      BY <1>1, <1>8, <2>1
    <3>8. ~sv'.write /\ mem'[sv'.a] = mem[sv.a]
      BY <2>1, <2>2, <3>3
    <3>9. /\ sv'.st \in {2, 3} => sv'.iram = High16(mem'[sv'.a])
          /\ sv'.st >= 4 => High16(sv'.out.d) = High16(mem'[sv'.a])
          /\ sv'.st >= 6 => sv'.iram = Low16(mem'[sv'.a])
      BY <3>4, <3>5, <3>6, <3>7, <3>8
    <3> QED BY <3>3, <3>8, <3>9 DEF ChipDone
  <2>3. CASE sv.write
    <3>1. /\ \A x \in Addresses \ {sv.a} : mem[x] = truth[x]
          /\ \A b \in 0 .. 3 : truth[sv.a][b] = IF b \in sv.nsel THEN mem[sv.a][b] ELSE sv.data[b]
          /\ sv.st >= 2 => \A b \in 2 .. 3 : mem[sv.a][b] = truth[sv.a][b]
          /\ sv.st >= 6 => \A b \in 0 .. 1 : mem[sv.a][b] = truth[sv.a][b]
      BY <1>8, <2>3 DEF ChipDone
    <3>2. \A x \in Addresses \ {sv.a} : mem'[x] = truth'[x]
      BY <1>6, <2>1, <3>1
    \* A byte of the chip is its old one or the one that is written
    <3>3. CASE sv.st \in {1, 2}
      <4>1. sv'.ce /\ sv'.we /\ sv'.off = Disabled(sv, 0) /\ sv'.half = 0 /\ sv'.rd = High16(sv.data)
        <5>1. GoesOn(Disabled(sv, 0))
          BY <3>3, DrivenIs
        <5>2. sv.half = 0 /\ sv.rd = High16(sv.data)
          BY <3>3 DEF ChipTold
        <5> QED BY <2>3, <5>1, <5>2 DEF GoesOn
      <4>2. /\ \A b \in 0 .. 1 : mem'[sv.a][b] = mem[sv.a][b]
            /\ \A h \in 0 .. 1 : mem'[sv.a][h + 2] = IF h + 2 \in sv.nsel THEN mem[sv.a][h + 2] ELSE sv.data[h + 2]
        <5>1. \A h \in 0 .. 1 : (h \in Disabled(sv, 0) <=> h + 2 \in sv.nsel) /\ High16(sv.data)[h] = sv.data[h + 2]
          BY DEF Disabled, High16
        <5> QED BY <1>6, <2>1, <4>1, <5>1
      <4>3. \A b \in 2 .. 3 : mem'[sv.a][b] = IF b \in sv.nsel THEN mem[sv.a][b] ELSE sv.data[b]
        <5>1. \A b \in 2 .. 3 : b - 2 \in 0 .. 1 /\ (b - 2) + 2 = b
          OBVIOUS
        <5> QED BY <4>2, <5>1
      <4>4. sv'.st \in {2, 3}
        BY <2>1, <3>3
      <4>5. \A b \in 2 .. 3 : mem'[sv.a][b] = truth[sv.a][b]
        <5>1. 2 .. 3 \subseteq 0 .. 3
          OBVIOUS
        <5> QED BY <3>1, <4>3, <5>1
      <4>6. \A b \in 0 .. 3 : truth[sv.a][b] = IF b \in sv.nsel THEN mem'[sv.a][b] ELSE sv.data[b]
        <5>1. \A b \in 0 .. 3 : b \in 0 .. 1 \/ b \in 2 .. 3
          OBVIOUS
        <5>2. \A b \in 0 .. 3 : b \in sv.nsel => mem'[sv.a][b] = mem[sv.a][b]
          BY <4>2, <4>3, <5>1
        <5> QED BY <3>1, <5>2
      <4> QED BY <2>1, <2>3, <3>2, <4>4, <4>5, <4>6 DEF ChipDone
    <3>4. CASE sv.st \in {5, 6}
      <4>1. sv'.ce /\ sv'.we /\ sv'.off = Disabled(sv, 1) /\ sv'.half = 1 /\ sv'.rd = Low16(sv.data)
        <5>1. GoesOn(Disabled(sv, 1))
          BY <3>4, DrivenIs
        <5>2. sv.half = 1 /\ sv.rd = Low16(sv.data)
          BY <3>4 DEF ChipTold
        <5> QED BY <2>3, <5>1, <5>2 DEF GoesOn
      <4>2. /\ \A b \in 2 .. 3 : mem'[sv.a][b] = mem[sv.a][b]
            /\ \A b \in 0 .. 1 : mem'[sv.a][b] = IF b \in sv.nsel THEN mem[sv.a][b] ELSE sv.data[b]
        <5>1. \A h \in 0 .. 1 : (h \in Disabled(sv, 1) <=> h \in sv.nsel) /\ Low16(sv.data)[h] = sv.data[h]
          BY DEF Disabled, Low16
        <5> QED BY <1>6, <2>1, <4>1, <5>1
      <4>3. sv'.st \in {6, 7}
        BY <2>1, <3>4
      <4>4. \A b \in 2 .. 3 : mem'[sv.a][b] = truth[sv.a][b]
        BY <3>1, <3>4, <4>2
      <4>5. \A b \in 0 .. 1 : mem'[sv.a][b] = truth[sv.a][b]
        <5>1. 0 .. 1 \subseteq 0 .. 3
          OBVIOUS
        <5> QED BY <3>1, <4>2, <5>1
      <4>6. \A b \in 0 .. 3 : truth[sv.a][b] = IF b \in sv.nsel THEN mem'[sv.a][b] ELSE sv.data[b]
        <5>1. \A b \in 0 .. 3 : b \in 0 .. 1 \/ b \in 2 .. 3
          OBVIOUS
        <5>2. \A b \in 0 .. 3 : b \in sv.nsel => mem'[sv.a][b] = mem[sv.a][b]
          BY <4>2, <5>1
        <5> QED BY <3>1, <5>2
      <4> QED BY <2>1, <2>3, <3>2, <4>3, <4>4, <4>5, <4>6 DEF ChipDone
    <3>5. CASE sv.st \in {3, 4}
      <4>1. \A b \in 0 .. 3 : mem'[sv.a][b] = mem[sv.a][b]
        <5>1. sv'.off = {0, 1}
          BY <3>5, DrivenIs DEF GoesOn, Rests
        <5> QED BY <1>6, <2>1, <5>1
      <4>2. sv'.st \in {4, 5}
        BY <2>1, <3>5
      <4>3. \A b \in 2 .. 3 : mem'[sv.a][b] = truth[sv.a][b]
        <5>1. 2 .. 3 \subseteq 0 .. 3 /\ sv.st >= 2
          BY <3>5
        <5> QED BY <3>1, <4>1, <5>1
      <4>4. \A b \in 0 .. 3 : truth[sv.a][b] = IF b \in sv.nsel THEN mem'[sv.a][b] ELSE sv.data[b]
        BY <3>1, <4>1
      <4> QED BY <2>1, <2>3, <3>2, <4>2, <4>3, <4>4 DEF ChipDone
    <3>6. CASE sv.st = 7
      <4>1. mem' = mem
        BY <1>6, <3>6, DrivenIs DEF Rests
      <4>2. \A b \in 0 .. 3 : mem[sv.a][b] = truth[sv.a][b]
        <5>1. \A b \in 0 .. 3 : b \in 0 .. 1 \/ b \in 2 .. 3
          OBVIOUS
        <5> QED BY <3>1, <3>6, <5>1
      <4>3. mem[sv.a] = truth[sv.a]
        <5>1. mem[sv.a] \in MemWord /\ truth[sv.a] \in MemWord
          BY <1>1 DEF MemTypes
        <5> QED BY <4>2, <5>1 DEF MemWord
      <4>4. \A x \in Addresses : mem[x] = truth[x]
        BY <3>1, <4>3
      <4>5. mem = truth
        BY <4>4 DEF MemTypes
      <4>6. sv'.st = 0
        BY <2>1, <3>6
      <4> QED BY <2>1, <4>1, <4>5, <4>6 DEF ChipDone
    <3> QED BY <1>1, <1>8, <3>3, <3>4, <3>5, <3>6
  <2> QED BY <1>1, <2>2, <2>3
<1> QED BY <1>7, <1>8

\* The answer is the open request's
LEMMA OneOwedKept ==
    ASSUME MemTypes, SramTypes, ChipTold, ChipDone, OneOwed, NEW r \in Driving, sv.kind = "sramdev",
           Clocked(r, FALSE)
    PROVE  OneOwed' /\ wb' \in [n : Nat, owed : Seq(Owed)]
<1>1. /\ sv.st \in 0 .. 7 /\ sv.nack \in BOOLEAN /\ sv.write \in BOOLEAN /\ sv.a \in Addresses
      /\ sv.iram \in MemHalf /\ sv.out.d \in MemWord /\ sv.out.ack \in BOOLEAN
      /\ r.stb \in BOOLEAN /\ r.we \in BOOLEAN /\ r.a \in Addresses /\ r.d \in MemWord
    BY DEF SramTypes, Driving, Answers
<1>2. /\ Sramdev(r, TRUE) /\ (r.stb => ~sv.stall)
      /\ truth' = IF r.stb /\ r.we THEN [truth EXCEPT ![r.a] = Merge(@, r.d, r.sel)] ELSE truth
    BY DEF Clocked
<1>3. /\ sv'.st = (IF sv.st = 0 /\ ~r.stb THEN 0 ELSE Wraps(sv.st))
      /\ Wraps(sv.st) = (IF sv.st = 7 THEN 0 ELSE sv.st + 1)
    BY <1>1, <1>2, SramdevIs, WrapsIs
<1>4. /\ sv'.nack = (IF sv.st = 0 THEN r.stb ELSE sv.nack /\ TRUE)
      /\ sv'.write = (IF sv.st = 0 THEN r.we ELSE sv.write)
    BY <1>2, SramdevIs
<1>5. /\ sv'.out.ack = (sv.st = 7 /\ sv.nack)
      /\ sv.st = 7 => sv'.out.d = Joined(High16(sv.out.d), sv.iram)
  <2> DEFINE o == CASE sv.st \in {0, 7} -> Joined(High16(sv.out.d), sv.iram)
                    [] HighThere(sv.st) -> Joined(sv.iram, Low16(sv.out.d))
                    [] OTHER -> sv.out.d
  <2>1. sv'.out = [ack |-> Acks(sv, TRUE), d |-> o]
    BY <1>2, SramdevIs
  <2>2. sv.st = 7 => o = Joined(High16(sv.out.d), sv.iram)
    BY DEF HighThere
  <2> HIDE DEF o
  <2>3. sv'.out.ack = Acks(sv, TRUE) /\ sv'.out.d = o
    BY <2>1
  <2>4. Acks(sv, TRUE) = (sv.st = 7 /\ sv.nack)
    BY DEF Acks
  <2> QED BY <2>2, <2>3, <2>4
<1>14. sv.st # 7 => ~sv'.out.ack
    BY <1>5
<1>6. PICK f \in {0, 1} : f = One(sv.out.ack)
    BY <1>1, OneIs
<1>7. PICK s \in {0, 1} : s = One(r.stb)
    BY <1>1, OneIs
<1>8. /\ sv.out.ack => sv.st = 0
      /\ Len(wb.owed) = One(sv.out.ack \/ (sv.st # 0 /\ sv.nack))
      /\ sv.st # 0 /\ sv.nack => wb.owed[1].we = sv.write /\ (sv.write \/ wb.owed[1].d = truth[sv.a])
    BY DEF OneOwed
<1>9. f <= Len(wb.owed) /\ (sv.st = 0 => Len(wb.owed) = f)
      /\ (sv.st # 0 => f = 0 /\ Len(wb.owed) = One(sv.nack))
  <2>1. CASE sv.out.ack
    BY <1>6, <1>8, <2>1 DEF One
  <2>2. CASE ~sv.out.ack
    <3>1. f = 0
      BY <1>6, <2>2 DEF One
    <3>2. sv.st = 0 => Len(wb.owed) = 0
      BY <1>8, <2>2 DEF One
    <3>3. sv.st # 0 => Len(wb.owed) = One(sv.nack)
      BY <1>1, <1>8, <2>2 DEF One
    <3>4. One(sv.nack) \in {0, 1}
      BY <1>1, OneIs
    <3> QED BY <3>1, <3>2, <3>3, <3>4
  <2> QED BY <2>1, <2>2
<1>10. /\ wb' \in [n : Nat, owed : Seq(Owed)]
       /\ Len(wb'.owed) = Len(wb.owed) - f + s
       /\ \A k \in 1 .. Len(wb.owed) - f : wb'.owed[k] = wb.owed[k + f]
       /\ r.stb => wb'.owed[Len(wb.owed) - f + 1] = [we |-> r.we, d |-> truth[r.a]]
    BY <1>1, <1>6, <1>7, <1>9, OwedStep
<1>11. CASE sv.st = 0 /\ ~r.stb
  <2>1. sv'.st = 0 /\ ~sv'.out.ack /\ s = 0
    <3>1. s = 0
      BY <1>7, <1>11 DEF One
    <3>2. ~sv'.out.ack
      BY <1>11, <1>14
    <3> QED BY <1>3, <1>11, <3>1, <3>2
  <2>2. Len(wb'.owed) = 0
    BY <1>6, <1>9, <1>10, <1>11, <2>1
  <2>3. Len(wb'.owed) = One(sv'.out.ack \/ (sv'.st # 0 /\ sv'.nack))
    BY <2>1, <2>2 DEF One
  <2> QED BY <1>10, <2>1, <2>3 DEF OneOwed, Fits
<1>12. CASE sv.st = 0 /\ r.stb
  <2>1. sv'.st = 1 /\ ~sv'.out.ack /\ s = 1
    <3>1. s = 1
      BY <1>7, <1>12 DEF One
    <3>2. ~sv'.out.ack
      BY <1>12, <1>14
    <3> QED BY <1>3, <1>12, <3>1, <3>2
  <2>2. sv'.nack
    BY <1>4, <1>12
  <2>3. Len(wb.owed) - f = 0
    BY <1>6, <1>9, <1>12
  <2>4. Len(wb'.owed) = 1 /\ wb'.owed[1] = [we |-> r.we, d |-> truth[r.a]]
    BY <1>10, <1>12, <2>1, <2>3
  <2>5. Len(wb'.owed) = One(sv'.out.ack \/ (sv'.st # 0 /\ sv'.nack))
    BY <2>1, <2>2, <2>4 DEF One
  <2>6. sv'.write = r.we /\ sv'.a = r.a
    BY <1>2, <1>4, <1>12, DrivenIs DEF Starts
  <2>7. wb'.owed[1].we = sv'.write
    BY <2>4, <2>6
  <2>8. sv'.write \/ wb'.owed[1].d = truth'[sv'.a]
    <3>1. wb'.owed[1].d = truth[r.a]
      BY <2>4
    <3>2. ~r.we => truth' = truth
      BY <1>2
    <3> QED BY <2>6, <3>1, <3>2
  <2> QED BY <1>10, <2>1, <2>5, <2>7, <2>8 DEF OneOwed, Fits
<1>13. CASE sv.st # 0
  <2>1. ~r.stb /\ truth' = truth /\ s = 0 /\ f = 0
    <3>1. ~r.stb
      BY <1>2, <1>13 DEF ChipTold
    <3>2. truth' = truth
      BY <1>2, <3>1
    <3> QED BY <1>7, <1>9, <1>13, <3>1, <3>2 DEF One
  <2>2. Len(wb'.owed) = One(sv.nack) /\ One(sv.nack) \in {0, 1}
    <3>1. PICK k \in {0, 1} : k = One(sv.nack)
      BY <1>1, OneIs
    <3> QED BY <1>9, <1>10, <1>13, <2>1, <3>1
  <2>3. sv.nack => wb'.owed[1] = wb.owed[1]
    <3> SUFFICES ASSUME sv.nack
                 PROVE  wb'.owed[1] = wb.owed[1]
      OBVIOUS
    <3>1. Len(wb.owed) = 1
      BY <1>9, <1>13 DEF One
    <3>2. 1 \in 1 .. Len(wb.owed) - f /\ 1 + f = 1
      BY <2>1, <3>1
    <3> QED BY <1>10, <3>2
  <2>4. sv'.nack = sv.nack
    <3>1. sv'.nack = (sv.nack /\ TRUE)
      BY <1>4, <1>13
    <3> QED BY <1>1, <3>1
  <2>5. CASE sv.st = 7
    <3>1. sv'.st = 0 /\ sv'.out.ack = sv.nack
      <4>1. sv'.out.ack = (sv.st = 7 /\ sv.nack)
        BY <1>5
      <4>2. sv'.out.ack = sv.nack
        BY <1>1, <2>5, <4>1
      <4> QED BY <1>3, <2>5, <4>2
    <3>2. Len(wb'.owed) = One(sv'.out.ack \/ (sv'.st # 0 /\ sv'.nack))
      <4>1. (sv'.out.ack \/ (sv'.st # 0 /\ sv'.nack)) = sv.nack
        BY <1>1, <3>1
      <4> QED BY <2>2, <4>1
    <3>3. sv.nack => wb'.owed[1].we \/ sv'.out.d = wb'.owed[1].d
      <4> SUFFICES ASSUME sv.nack, ~sv.write
                   PROVE  sv'.out.d = wb'.owed[1].d
        <5>1. sv.nack => wb'.owed[1].we = sv.write
          BY <1>8, <1>13, <2>3
        <5> QED BY <5>1
      <4>1. mem = truth /\ High16(sv.out.d) = High16(mem[sv.a]) /\ sv.iram = Low16(mem[sv.a])
        BY <2>5 DEF ChipDone
      <4>2. mem[sv.a] \in MemWord
        BY <1>1 DEF MemTypes
      <4>3. Joined(High16(sv.out.d), sv.iram) = mem[sv.a]
        <5>1. Joined(High16(mem[sv.a]), Low16(mem[sv.a])) = mem[sv.a]
          BY <1>1, <4>2, HalfTypes
        <5> QED BY <4>1, <5>1
      <4>4. wb'.owed[1].d = truth[sv.a]
        BY <1>8, <1>13, <2>3
      <4> QED BY <1>5, <2>5, <4>1, <4>3, <4>4
    <3> QED BY <1>10, <3>1, <3>2, <3>3 DEF OneOwed, Fits
  <2>6. CASE sv.st # 7
    <3>1. sv'.st = sv.st + 1 /\ sv'.st # 0 /\ ~sv'.out.ack
      BY <1>1, <1>3, <1>13, <1>14, <2>6
    <3>2. Len(wb'.owed) = One(sv'.out.ack \/ (sv'.st # 0 /\ sv'.nack))
      <4>1. (sv'.out.ack \/ (sv'.st # 0 /\ sv'.nack)) = sv.nack
        BY <1>1, <2>4, <3>1
      <4> QED BY <2>2, <4>1
    <3>3. sv'.write = sv.write /\ sv'.a = sv.a
      <4>1. sv.st \in {1, 2} \/ sv.st \in {5, 6} \/ sv.st = 4 \/ sv.st = 3
        BY <1>1, <1>13, <2>6
      <4>2. (\E off : GoesOn(off)) \/ Rests
        BY <1>2, <4>1, DrivenIs, Zenon
      <4>3. sv'.a = sv.a
        BY <4>2 DEF GoesOn, Rests
      <4> QED BY <1>4, <1>13, <4>3
    <3>4. sv.nack => wb'.owed[1].we = sv'.write /\ (sv'.write \/ wb'.owed[1].d = truth'[sv'.a])
      BY <1>8, <1>13, <2>1, <2>3, <3>3
    <3> QED BY <1>10, <2>4, <3>1, <3>2, <3>4 DEF OneOwed, Fits
  <2> QED BY <2>5, <2>6
<1> QED BY <1>11, <1>12, <1>13

\* The end of a cycle leaves nothing to answer, and the chip to its work
LEMMA NothingOwed ==
    ASSUME MemTypes, SramTypes, ChipTold, OneOwed, sv.kind = "sramdev", Clocked(NoAccess, TRUE)
    PROVE  OneOwed' /\ wb' \in [n : Nat, owed : Seq(Owed)] /\ Sramdev(NoAccess, FALSE) /\ truth' = truth
<1>1. ~NoAccess.stb
    BY DEF NoAccess
<1>2. /\ Sramdev(NoAccess, FALSE) /\ truth' = truth
      /\ wb' = [n |-> wb.n, owed |-> <<>>]
    BY <1>1 DEF Clocked
<1>3. sv'.out.ack = FALSE /\ ~(sv'.st # 0 /\ sv'.nack)
  <2>1. NoAccess \in Driving
    BY RequestsAre
  <2>2. sv'.out.ack = FALSE
    <3> DEFINE o == CASE sv.st \in {0, 7} -> Joined(High16(sv.out.d), sv.iram)
                    [] HighThere(sv.st) -> Joined(sv.iram, Low16(sv.out.d))
                    [] OTHER -> sv.out.d
    <3>1. sv'.out = [ack |-> Acks(sv, FALSE), d |-> o]
      BY <1>2, <2>1, SramdevIs
    <3> HIDE DEF o
    <3>2. sv'.out.ack = Acks(sv, FALSE)
      BY <3>1
    <3>3. Acks(sv, FALSE) = FALSE
      BY DEF Acks
    <3> QED BY <3>2, <3>3
  <2>3. /\ sv'.st = (IF sv.st = 0 /\ ~NoAccess.stb THEN 0 ELSE Wraps(sv.st))
        /\ sv'.nack = (IF sv.st = 0 THEN NoAccess.stb ELSE sv.nack /\ FALSE)
    BY <1>2, <2>1, SramdevIs
  <2> QED BY <1>1, <2>2, <2>3
<1>4. wb.n \in Nat /\ <<>> \in Seq(Owed) /\ Len(<<>>) = 0
    BY EmptySeq DEF MemTypes
<1>5. wb' \in [n : Nat, owed : Seq(Owed)] /\ Len(wb'.owed) = 0
    BY <1>2, <1>4
<1>6. Len(wb'.owed) = One(sv'.out.ack \/ (sv'.st # 0 /\ sv'.nack))
    BY <1>3, <1>5 DEF One
<1> QED BY <1>2, <1>3, <1>5, <1>6 DEF OneOwed, Fits

-----------------------------------------------------------------------------
LEMMA MemInvFirst == MemInit => MemInv
<1> DEFINE w == WordOf(0)
           none == [ack |-> FALSE, d |-> w]
<1> SUFFICES ASSUME MemInit PROVE MemInv
    OBVIOUS
<1>1. w \in MemWord /\ none \in Answers /\ none.ack = FALSE
    BY DEF WordOf, MemWord, Answers
<1>2. /\ mem = [a \in Addresses |-> w] /\ truth = mem
      /\ wb = [n |-> 0, owed |-> <<>>]
      /\ sv \in {MemsimStart(d) : d \in Delays} \cup {SramdevStart}
    BY DEF MemInit, Addresses
<1>3. MemTypes /\ wb.owed = <<>> /\ Len(wb.owed) = 0
  <2>1. <<>> \in Seq(Owed) /\ Len(<<>>) = 0
    BY EmptySeq
  <2> HIDE DEF w
  <2> QED BY <1>1, <1>2, <2>1 DEF MemTypes
<1>4. ASSUME NEW delay \in Delays, sv = MemsimStart(delay)
      PROVE  MemInv
  <2> DEFINE n == FifoLen(delay)
             fifo == [i \in 1 .. n |-> none]
  <2>1. delay \in Nat
    BY MemConstants
  <2>2. n \in Nat /\ n >= 1 /\ n >= delay /\ (delay = 0 => n = 1)
    BY <2>1, FifoLenIs
  <2>3. sv = [kind |-> "memsim", delay |-> delay, head |-> 0, stall |-> FALSE, fifo |-> fifo, out |-> none]
    BY <1>4 DEF MemsimStart
  <2> HIDE DEF n
  <2>4. fifo \in Seq(Answers) /\ Len(fifo) = n /\ \A i \in 1 .. n : fifo[i] = none
    <3> HIDE DEF none
    <3>1. fifo \in [1 .. n -> Answers]
      BY <1>1
    <3> QED BY <2>2, <3>1
  <2> HIDE DEF fifo, none, w
  <2>5. /\ sv.kind = "memsim" /\ sv.delay = delay /\ sv.head = 0 /\ sv.fifo = fifo /\ sv.out = none
        /\ sv \in [kind : {"memsim"}, delay : Nat, head : Nat, stall : {FALSE}, fifo : Seq(Answers), out : Answers]
    BY <1>1, <2>1, <2>3, <2>4
  <2>6. PICK p \in Nat : p = Depth /\ p >= 1 /\ p <= n
    BY <2>1, <2>2, <2>5 DEF Depth
  <2>7. ASSUME NEW j \in 0 .. p - 1
        PROVE  Slot(j) = none
    <3>1. n > 0 /\ -n <= 0 - j /\ 0 - j <= n /\ 0 - j \in Int
      BY <2>2, <2>6
    <3>2. (0 - j) % n = IF 0 - j < 0 THEN 0 - j + n ELSE IF 0 - j = n THEN 0 ELSE 0 - j
      BY <2>2, <3>1, Around
    <3>3. ((0 - j) % n) + 1 \in 1 .. n
      BY <2>2, <2>6, <3>2
    <3> QED BY <2>4, <2>5, <3>3 DEF Slot, Place
  <2>8. \A j \in 1 .. p : Slot(j - 1) = none /\ One(Slot(j - 1).ack) = 0
    <3>1. \A j \in 1 .. p : j - 1 \in 0 .. p - 1
      BY <2>6
    <3> QED BY <1>1, <2>7, <3>1 DEF One
  <2> PICK c : c = [j \in 0 .. p |-> 0]
    OBVIOUS
  <2>9. c \in [0 .. p -> Nat] /\ (\A j \in 0 .. p : c[j] = 0) /\ 0 \in 0 .. p /\ p \in 0 .. p
    BY <2>6
  <2>10. One(sv.out.ack) = 0
    BY <1>1, <2>5 DEF One
  <2>11. \A j \in 1 .. p : c[j - 1] = c[j] + One(Slot(j - 1).ack)
    <3>1. \A j \in 1 .. p : j - 1 \in 0 .. p /\ j \in 0 .. p
      BY <2>6
    <3> QED BY <2>8, <2>9, <3>1
  <2>12. Counts(c)
    <3>1. c[0] = Len(wb.owed) /\ c[p] = One(sv.out.ack)
      BY <1>3, <2>9, <2>10
    <3>2. \A i, j \in 0 .. p : i <= j => c[j] <= c[i]
      BY <2>9
    <3>3. p = Depth
      BY <2>6
    <3> QED BY <2>9, <2>11, <3>1, <3>2, <3>3 DEF Counts
  <2>13. Fits(sv.out, 1) /\ \A j \in 1 .. p : Fits(Slot(j - 1), c[j - 1])
    BY <1>1, <2>5, <2>8 DEF Fits
  <2>14. sv.head < Len(sv.fifo) /\ Depth <= Len(sv.fifo) /\ (sv.delay = 0 => Len(sv.fifo) = 1)
    BY <2>2, <2>4, <2>5, <2>6
  <2>15. MemsimInv
    BY <1>2, <2>5, <2>6, <2>12, <2>13, <2>14 DEF MemsimInv
  <2> QED BY <1>3, <2>5, <2>15 DEF MemInv
<1>5. ASSUME sv = SramdevStart
      PROVE  MemInv
  <2>1. /\ Junk \in MemHalf /\ 0 \in Addresses
    BY MemConstants DEF Junk, MemHalf
  <2>2. sv = [kind |-> "sramdev", st |-> 0, nack |-> FALSE, stall |-> FALSE, data |-> w, write |-> FALSE, nsel |-> {},
              ce |-> FALSE, oe |-> FALSE, we |-> FALSE, off |-> {0, 1}, a |-> 0, half |-> 0, rd |-> Junk,
              iram |-> Junk, out |-> none]
    BY <1>5 DEF SramdevStart
  <2> HIDE DEF w, none
  <2>3. SramTypes
    BY <1>1, <2>1, <2>2 DEF SramTypes
  <2>4. ChipTold
    <3>1. sv.st = 0 /\ sv.stall = FALSE /\ sv.ce = FALSE /\ sv.oe = FALSE /\ sv.we = FALSE
      BY <2>2
    <3>2. ~(sv.st \in {1, 2, 3, 5, 6, 7}) /\ ~(sv.st \in 1 .. 3) /\ ~(sv.st \in 4 .. 7) /\ ~(sv.st # 0)
      BY <3>1
    <3>3. sv.stall = (sv.st # 0)
      BY <3>1, <3>2, Zenon
    <3> QED BY <3>1, <3>2, <3>3, Zenon DEF ChipTold
  <2>5. ChipDone
    BY <1>2, <2>2 DEF ChipDone
  <2>6. sv.out.ack = FALSE /\ sv.st = 0
    BY <1>1, <2>2
  <2>7. OneOwed
    BY <1>3, <2>6 DEF OneOwed, One, Fits
  <2>8. sv.kind = "sramdev"
    BY <2>2
  <2> QED BY <1>3, <2>3, <2>4, <2>5, <2>7, <2>8 DEF MemInv
<1> QED BY <1>2, <1>4, <1>5

LEMMA MemInvKept ==
    ASSUME MemInv, [MemNext]_memVars
    PROVE  MemInv'
<1>1. MemTypes
    BY DEF MemInv
<1>2. CASE MemClock
  <2>1. PICK r \in Requests \cup {NoAccess} : Clocked(r, FALSE)
    BY <1>2 DEF MemClock
  <2>2. r \in Driving
    BY <1>1, <2>1, RequestsAre
  <2>3. ASSUME sv.kind = "memsim"
        PROVE  MemInv'
    <3>1. MemsimInv
      BY <2>3 DEF MemInv
    <3>2. MemTypes' /\ sv'.kind = "memsim" /\ MemsimInv'
      BY <1>1, <2>1, <2>2, <2>3, <3>1, MemsimKept
    <3> QED BY <3>2 DEF MemInv
  <2>4. ASSUME sv.kind = "sramdev"
        PROVE  MemInv'
    <3>1. SramTypes /\ ChipTold /\ ChipDone /\ OneOwed
      BY <2>4 DEF MemInv
    <3>2. /\ Sramdev(r, TRUE) /\ (r.stb => ~sv.stall)
          /\ truth' = IF r.stb /\ r.we THEN [truth EXCEPT ![r.a] = Merge(@, r.d, r.sel)] ELSE truth
      BY <2>1, <2>4 DEF Clocked
    <3>3. SramTypes' /\ mem' \in [Addresses -> MemWord]
      BY <1>1, <2>2, <3>1, <3>2, SramTypesKept
    <3>4. ChipTold'
      BY <1>1, <2>2, <3>1, <3>2, ChipToldKept
    <3>5. ChipDone'
      BY <1>1, <2>2, <3>1, <3>2, ChipDoneKept
    <3>6. OneOwed' /\ wb' \in [n : Nat, owed : Seq(Owed)]
      BY <1>1, <2>1, <2>2, <2>4, <3>1, OneOwedKept
    <3>7. truth' \in [Addresses -> MemWord]
      BY <1>1, <2>2, <3>2, TruthType
    <3>8. sv'.kind = "sramdev"
      BY <2>2, <3>1, <3>2, SramdevIs
    <3> QED BY <3>3, <3>4, <3>5, <3>6, <3>7, <3>8 DEF MemInv, MemTypes
  <2> QED BY <2>3, <2>4 DEF MemInv
<1>3. CASE EndCycle
  <2>1. sv.kind = "sramdev" /\ Clocked(NoAccess, TRUE)
    BY <1>3 DEF EndCycle
  <2>2. SramTypes /\ ChipTold /\ ChipDone /\ OneOwed
    BY <2>1 DEF MemInv
  <2>3. OneOwed' /\ wb' \in [n : Nat, owed : Seq(Owed)] /\ Sramdev(NoAccess, FALSE) /\ truth' = truth
    BY <1>1, <2>1, <2>2, NothingOwed
  <2>4. PICK r \in Driving : r = NoAccess /\ ~r.stb
    <3>1. NoAccess \in Driving
      BY <1>1, RequestsAre
    <3>2. ~NoAccess.stb
      BY DEF NoAccess
    <3> QED BY <3>1, <3>2
  <2>5. /\ Sramdev(r, FALSE) /\ (r.stb => ~sv.stall)
        /\ truth' = IF r.stb /\ r.we THEN [truth EXCEPT ![r.a] = Merge(@, r.d, r.sel)] ELSE truth
    BY <2>3, <2>4
  <2>6. SramTypes' /\ mem' \in [Addresses -> MemWord]
    BY <1>1, <2>2, <2>5, SramTypesKept
  <2>7. ChipTold'
    BY <1>1, <2>2, <2>5, ChipToldKept
  <2>8. ChipDone'
    BY <1>1, <2>2, <2>5, ChipDoneKept
  <2>9. truth' \in [Addresses -> MemWord]
    BY <1>1, <2>3 DEF MemTypes
  <2>10. sv'.kind = "sramdev"
    BY <2>2, <2>5, SramdevIs
  <2> QED BY <2>3, <2>6, <2>7, <2>8, <2>9, <2>10 DEF MemInv, MemTypes
<1>4. CASE UNCHANGED memVars
  <2>1. mem' = mem /\ sv' = sv /\ wb' = wb /\ truth' = truth
    BY <1>4 DEF memVars
  <2>2. Depth' = Depth /\ \A j : Slot(j)' = Slot(j)
    BY <2>1 DEF Depth, Slot, Place
  <2>3. \A s, k : Fits(s, k)' = Fits(s, k)
    BY <2>1 DEF Fits
  <2>4. \A c : Counts(c)' = Counts(c)
    BY <2>1, <2>2 DEF Counts
  <2>5. MemTypes' /\ (MemsimInv => MemsimInv')
    BY <1>1, <2>1, <2>2, <2>3, <2>4 DEF MemTypes, MemsimInv
  <2>6. SramTypes /\ ChipTold /\ ChipDone /\ OneOwed => (SramTypes /\ ChipTold /\ ChipDone /\ OneOwed)'
    BY <2>1 DEF SramTypes, ChipTold, ChipDone, OneOwed, Fits
  <2> QED BY <2>1, <2>5, <2>6 DEF MemInv
<1> QED BY <1>2, <1>3, <1>4 DEF MemNext

LEMMA MemInvShows == MemInv => MemoriesHoldTheWords
<1> SUFFICES ASSUME MemInv PROVE MemoriesHoldTheWords
    OBVIOUS
<1>1. wb.owed \in Seq(Owed) /\ Len(wb.owed) \in Nat
    BY DEF MemInv, MemTypes
<1>2. ASSUME Len(wb.owed) >= 1, Fits(sv.out, 1)
      PROVE  AnswersFitRequests
  <2>1. wb.owed # <<>> /\ Head(wb.owed) = wb.owed[1]
    BY <1>1, <1>2, EmptySeq, HeadTailProperties
  <2> QED BY <1>2, <2>1 DEF AnswersFitRequests, Fits
<1>3. ASSUME sv.kind = "memsim"
      PROVE  MemoriesHoldTheWords
  <2>1. MemsimInv
    BY <1>3 DEF MemInv
  <2>2. ASSUME sv.out.ack
        PROVE  Len(wb.owed) >= 1
    <3>1. PICK c : Counts(c)
      BY <2>1 DEF MemsimInv
    <3>2. Depth \in Nat /\ Depth >= 1
      BY <2>1 DEF MemsimInv, Depth
    <3>3. c[0] = Len(wb.owed) /\ c[Depth] = 1 /\ c[Depth] <= c[0]
      BY <2>2, <3>1, <3>2 DEF Counts, One
    <3> QED BY <1>1, <3>3
  <2>3. AnswersFitRequests
    BY <1>2, <2>1, <2>2 DEF MemsimInv, AnswersFitRequests
  <2> QED BY <1>3, <2>3 DEF MemoriesHoldTheWords, ChipHoldsTheWords
<1>4. ASSUME sv.kind = "sramdev"
      PROVE  MemoriesHoldTheWords
  <2>1. SramTypes /\ ChipTold /\ ChipDone /\ OneOwed
    BY <1>4 DEF MemInv
  <2>2. ASSUME sv.out.ack
        PROVE  Len(wb.owed) >= 1
    BY <1>1, <2>1, <2>2 DEF OneOwed, One
  <2>3. AnswersFitRequests
    BY <1>2, <2>1, <2>2 DEF OneOwed, AnswersFitRequests
  <2>4. sv.st = 0 => mem = truth
    BY <2>1 DEF ChipDone
  <2>5. ChipAsserts(sv)
    <3>1. sv.st \in 0 .. 7 /\ sv.write \in BOOLEAN /\ sv.ce \in BOOLEAN /\ sv.oe \in BOOLEAN /\ sv.we \in BOOLEAN
      BY <2>1 DEF SramTypes
    <3>2. sv.st \in {0, 4} \/ sv.st \in {1, 2, 3, 5, 6, 7}
      BY <3>1
    <3>3. CASE sv.st \in {0, 4}
      BY <2>1, <3>3 DEF ChipTold, ChipAsserts
    <3>4. CASE sv.st \in {1, 2, 3, 5, 6, 7}
      <4>1. sv.we = sv.write /\ sv.oe = ~sv.write
        BY <2>1, <3>4, Zenon DEF ChipTold
      <4> QED BY <3>1, <4>1, Zenon DEF ChipAsserts
    <3> QED BY <3>2, <3>3, <3>4
  <2> QED BY <2>3, <2>4, <2>5 DEF MemoriesHoldTheWords, ChipHoldsTheWords
<1> QED BY <1>3, <1>4 DEF MemInv

\* What was written is what is read: MEMSIM's apply() (memsim.cpp) answers the
\* oldest open request, with the word as it was when that request was made;
\* sramdev.v, with the chip of sramsim.cpp behind it, joins the two halves of
\* the word asked for, never enables the chip's output and its write together,
\* and leaves the memory whole between requests, also after the master has
\* ended a cycle half way.
THEOREM WhatIsWrittenIsRead == MemSpec => []MemoriesHoldTheWords
<1>1. MemInit => MemInv
    BY MemInvFirst
<1>2. MemInv /\ [MemNext]_memVars => MemInv'
    BY MemInvKept
<1>3. MemInv => MemoriesHoldTheWords
    BY MemInvShows
<1> QED BY <1>1, <1>2, <1>3, PTL DEF MemSpec

-----------------------------------------------------------------------------
(* The parallel port.                                                      *)
Bytes  == PortBytes \cup {NoByte}
Stages == 1 .. SCLKS

PortTypes(p, k, f) ==
    /\ p \in [sh : [Stages -> {0, 1}], fb : {0, 1}, stb : BOOLEAN, data : Bytes, dir : {0, 1}, ckdir : {0, 1},
              rxstb : BOOLEAN, rxdata : Bytes, loaded : BOOLEAN, busy : BOOLEAN, out : Bytes]
    /\ k \in [clk : {0, 1}, dir : {0, 1}, data : Bytes]
    /\ f \in [wr : BOOLEAN, wdata : Bytes, sent : Seq(Bytes), got : Seq(Bytes)]
    /\ f.wr => f.wdata \in PortBytes

\* A new level of the clock goes through the stages from the first on
InStages(p, k) ==
    /\ \A i, j \in Stages : i <= j /\ p.sh[j] = k.clk => p.sh[i] = k.clk
    /\ p.fb = k.clk => \A i \in Stages : p.sh[i] = k.clk

\* What is known of the port while the clock rises through them
Rising(p, k) ==
    k.clk = 1 /\ p.fb = 0 =>
        /\ p.sh[1] = 1 => p.dir = k.dir /\ (p.sh[2] = 0 /\ p.busy => p.loaded)
        /\ p.sh[2] = 1 => p.ckdir = k.dir /\ (p.loaded \/ p.out = NoByte)
        /\ p.sh[3] = 1 /\ p.ckdir = FROM_FPGA => p.busy

\* and once it is up
Strobed(p) ==
    /\ p.stb => p.fb = 1
    /\ p.loaded => p.busy /\ p.out \in PortBytes
    /\ p.fb = 1 /\ p.dir = FROM_FPGA => p.busy /\ p.ckdir = FROM_FPGA /\ (p.loaded => p.stb)

PortInv(p, k, f) == PortTypes(p, k, f) /\ InStages(p, k) /\ Rising(p, k) /\ Strobed(p)

\* The bytes between the pins and the console
IfSo(t, b) == IF t THEN <<b>> ELSE <<>>
InFlight(p, k) == k.clk = 1 /\ p.fb = 0 /\ k.dir = TO_FPGA
Inward(p, k) ==
    IfSo(p.rxstb, p.rxdata) \o (IfSo(p.stb /\ p.dir = TO_FPGA, p.data)
                                \o IfSo(InFlight(p, k), k.data))
Showing(p, k) == k.clk = 1 /\ p.fb = 1 /\ p.dir = FROM_FPGA
Outward(p, k) ==
    IfSo(IF Showing(p, k) THEN p.out # NoByte ELSE p.loaded /\ ~(p.stb /\ p.dir = FROM_FPGA), p.out)

LowAt  == {"idle", "xfer", "xfer0", "xferdata", "turn0", "read"}
HighAt == {"xfer1", "turn", "turn1", "read1", "hi", "lo"}
HostFields == {"kind", "pc", "left", "hi", "delay", "out", "sent", "got"}
PeerFields == {"waiting", "up", "input", "over", "buf", "lines"}

HostTypes(h) ==
    /\ DOMAIN h = HostFields /\ h = [x \in HostFields |-> h[x]]
    /\ h.kind \in {"off", "net", "sim"} /\ h.pc \in LowAt \cup HighAt
    /\ h.out \in Seq(PortBytes) /\ h.sent \in Seq(PortBytes) /\ h.got \in Seq(Bytes)

PeerTypes(e) ==
    /\ DOMAIN e = Channels
    /\ \A c \in Channels : DOMAIN e[c] = PeerFields /\ e[c].input \in Seq(PortBytes)

\* The pins and the host's place in its program
NetPins(h, k, p) ==
    /\ h.pc \in HighAt <=> k.clk = 1
    /\ k.dir = IF h.pc \in {"xfer0", "xferdata", "xfer1"} THEN TO_FPGA ELSE FROM_FPGA
    /\ h.pc \in {"xfer", "xfer0", "xferdata", "xfer1"} => h.out # <<>>
    /\ h.pc \in {"xferdata", "xfer1"} => k.data = Head(h.out)
    /\ h.pc = "xferdata" => p.fb = 0
    /\ h.pc \in {"turn", "hi", "lo"} => p.fb = 1
    /\ h.pc = "lo" => h.hi = p.out[1]
SimPins(h, k) ==
    /\ h.pc = "idle" /\ h.delay \in Nat
    /\ k.dir = TO_FPGA => k.data = h.hi /\ h.hi \in PortBytes
\* The direction of the transfer that the clock has strobed
Strobes(h, k, p) ==
    k.clk = 1 /\ p.fb = 1 => p.dir = IF h.pc = "turn" THEN TO_FPGA ELSE k.dir

HostPins(h, k, p) ==
    /\ h.kind # "sim" => NetPins(h, k, p)
    /\ h.kind # "net" => SimPins(h, k)
    /\ Strobes(h, k, p)

\* The bytes of each way are those that have gone in at its beginning
Sending(h) == IfSo(h.pc = "xfer1", Head(h.out))
Crosses(p, k, f, h) ==
    /\ f.got \o Inward(p, k) = h.sent \o Sending(h)
    /\ f.sent = h.got \o Outward(p, k)

PortsInv ==
    /\ PortInv(pp, pins, fpga) /\ HostTypes(host) /\ PeerTypes(peer) /\ HostPins(host, pins, pp)
    /\ Crosses(pp, pins, fpga, host)

LEMMA PortConstants ==
    /\ SCLKS \in Nat /\ SCLKS >= 3
    /\ 1 \in Stages /\ 2 \in Stages /\ 3 \in Stages
    /\ PortBytes \subseteq Bytes /\ NoByte \in Bytes /\ NoByte \notin PortBytes
    /\ \A b \in Bytes : b = <<b[1], b[2]>>
<1>1. SCLKS \in Nat /\ SCLKS >= 3
    BY PPortAssumption
<1>2. \A b \in PortBytes : b = <<b[1], b[2]>> /\ b[1] \in Channels
    BY PPortAssumption
<1>3. NoByte = <<NoByte[1], NoByte[2]>> /\ NoByte[1] \notin Channels
    BY DEF NoByte, Channels
<1>4. NoByte \notin PortBytes
    BY <1>2, <1>3
<1> QED BY <1>1, <1>2, <1>3, <1>4 DEF Stages, Bytes

\* What the stages that count say
LEMMA OlderIs ==
    ASSUME PortInv(pp, pins, fpga)
    PROVE  /\ 1 \in Older <=> \E i \in 2 .. SCLKS : pp.sh[i] = 1
           /\ Older = {1} => pp.sh[2] = 1 /\ pp.sh[3] = 1
           /\ Older = {1} <=> \A i \in 2 .. SCLKS : pp.sh[i] = 1
           /\ Older = {0} <=> \A i \in 2 .. SCLKS : pp.sh[i] = 0
           /\ \A i \in Stages : pp.sh[i] \in {0, 1}
<1>1. \A i \in Stages : pp.sh[i] \in {0, 1}
    BY DEF PortInv, PortTypes
<1>2. 2 \in 2 .. SCLKS /\ 3 \in 2 .. SCLKS /\ 2 .. SCLKS \subseteq Stages
    BY PortConstants DEF Stages
<1> QED BY <1>1, <1>2 DEF Older

\* A level that has come through the stages that count has come through all
LEMMA EdgeLevels ==
    ASSUME PortInv(pp, pins, fpga)
    PROVE  /\ pins.clk \in {0, 1} /\ pp.fb \in {0, 1}
           /\ Ones /\ pp.fb = 0 => pins.clk = 1 /\ pp.sh[1] = 1 /\ pp.sh[2] = 1 /\ pp.sh[3] = 1
           /\ Older = {0} /\ pp.fb = 1 => pins.clk = 0
           /\ pp.fb = pins.clk => (pins.clk = 1 => ~(Older = {0})) /\ (pins.clk = 0 => ~Ones /\ ~(1 \in Older))
           /\ pins.clk = 1 /\ pp.fb = 0 /\ pp.sh[2] = 0 => ~(1 \in Older)
           /\ pins.clk = 1 /\ pp.fb = 0 /\ pp.sh[1] = 0 => ~(1 \in Older)
           /\ pins.clk = 1 /\ pp.fb = 0 /\ pp.sh[2] = 1 => 1 \in Older /\ pp.sh[1] = 1
           /\ pins.clk = 1 /\ pp.fb = 0 /\ pp.sh[3] = 1 => pp.sh[2] = 1
<1>1. pins.clk \in {0, 1} /\ pp.fb \in {0, 1} /\ \A i \in Stages : pp.sh[i] \in {0, 1}
    BY DEF PortInv, PortTypes
<1>2. /\ \A i, j \in Stages : i <= j /\ pp.sh[j] = pins.clk => pp.sh[i] = pins.clk
      /\ pp.fb = pins.clk => \A i \in Stages : pp.sh[i] = pins.clk
    BY DEF PortInv, InStages
<1>3. 1 \in Stages /\ 2 \in Stages /\ 3 \in Stages /\ 2 .. SCLKS \subseteq Stages /\ 2 \in 2 .. SCLKS
    BY PortConstants DEF Stages
<1>4. pp.fb = pins.clk => (pins.clk = 1 => ~(Older = {0})) /\ (pins.clk = 0 => ~Ones /\ ~(1 \in Older))
  <2>1. ASSUME pp.fb = pins.clk, pins.clk = 1
        PROVE  ~(Older = {0})
    <3>1. pp.sh[2] = 1
      BY <1>2, <1>3, <2>1
    <3> QED BY <1>3, <3>1 DEF Older
  <2>2. ASSUME pp.fb = pins.clk, pins.clk = 0
        PROVE  ~Ones /\ ~(1 \in Older)
    <3>1. ~(1 \in Older)
      BY <1>2, <1>3, <2>2, OlderIs
    <3> QED BY <3>1 DEF Ones
  <2> QED BY <2>1, <2>2
<1>5. Ones /\ pp.fb = 0 => pins.clk = 1 /\ pp.sh[1] = 1 /\ pp.sh[2] = 1 /\ pp.sh[3] = 1
  <2> SUFFICES ASSUME Ones, pp.fb = 0
               PROVE  pins.clk = 1 /\ pp.sh[1] = 1 /\ pp.sh[2] = 1 /\ pp.sh[3] = 1
    OBVIOUS
  <2>1. pp.sh[2] = 1 /\ pp.sh[3] = 1
    BY OlderIs DEF Ones
  <2>2. pins.clk = 1
    BY <1>1, <1>4
  <2>3. pp.sh[1] = 1
    BY <1>2, <1>3, <2>1, <2>2
  <2> QED BY <2>1, <2>2, <2>3
<1>6. Older = {0} /\ pp.fb = 1 => pins.clk = 0
    BY <1>1, <1>4
<1>7. \A i \in 2 .. SCLKS : 1 <= i /\ 2 <= i
    BY PortConstants
<1>8. ASSUME pins.clk = 1, pp.sh[2] = 0
      PROVE  ~(1 \in Older)
  <2>1. \A i \in 2 .. SCLKS : pp.sh[i] # 1
    BY <1>2, <1>3, <1>7, <1>8
  <2> QED BY <2>1, OlderIs
<1>9. ASSUME pins.clk = 1, pp.sh[1] = 0
      PROVE  ~(1 \in Older)
  <2>1. \A i \in 2 .. SCLKS : pp.sh[i] # 1
    BY <1>2, <1>3, <1>7, <1>9
  <2> QED BY <2>1, OlderIs
<1>10. ASSUME pins.clk = 1, pp.sh[2] = 1
       PROVE  1 \in Older /\ pp.sh[1] = 1
    BY <1>2, <1>3, <1>10, OlderIs
<1>11. ASSUME pins.clk = 1, pp.sh[3] = 1
       PROVE  pp.sh[2] = 1
    BY <1>2, <1>3, <1>11
<1> QED BY <1>1, <1>4, <1>5, <1>6, <1>8, <1>9, <1>10, <1>11

LEMMA EdgeIs ==
    ASSUME PortInv(pp, pins, fpga), FpgaEdge
    PROVE  /\ pp'.sh = [i \in Stages |-> IF i = 1 THEN pins.clk ELSE pp.sh[i - 1]]
           /\ pp'.fb = (IF Ones THEN 1 ELSE IF Older = {0} THEN 0 ELSE pp.fb)
           /\ pp'.stb = Strobe
           /\ pp'.data = (IF pp.fb = 0 THEN pins.data ELSE pp.data)
           /\ pp'.dir = (IF pp.fb = 0 THEN pins.dir ELSE pp.dir)
           /\ pp'.ckdir = pp.dir
           /\ pp'.rxstb = (pp.stb /\ pp.dir = TO_FPGA)
           /\ pp'.rxdata = (IF pp.stb THEN pp.data ELSE pp.rxdata)
           /\ pp'.loaded = (IF fpga.wr /\ ~pp.busy THEN TRUE ELSE pp.loaded /\ ~(pp.stb /\ pp.dir = FROM_FPGA))
           /\ pp'.busy = Busy_next
           /\ pp'.out = (IF pp.busy THEN pp.out ELSE IF fpga.wr THEN fpga.wdata ELSE NoByte)
BY DEF FpgaEdge, Edge, Stages

\* What the console does with the byte it holds and the one strobed in
LEMMA ConsoleIs ==
    ASSUME PortInv(pp, pins, fpga), FpgaEdge
    PROVE  /\ fpga'.got = IF pp.rxstb THEN Append(fpga.got, pp.rxdata) ELSE fpga.got
           /\ fpga'.sent = IF fpga.wr /\ ~pp.busy THEN Append(fpga.sent, fpga.wdata) ELSE fpga.sent
           /\ fpga' \in [wr : BOOLEAN, wdata : Bytes, sent : Seq(Bytes), got : Seq(Bytes)]
           /\ fpga'.wr => fpga'.wdata \in PortBytes
<1> DEFINE taken == fpga.wr /\ ~pp.busy
           got == IF pp.rxstb THEN Append(fpga.got, pp.rxdata) ELSE fpga.got
           sent == IF taken THEN Append(fpga.sent, fpga.wdata) ELSE fpga.sent
           wr == fpga.wr /\ ~taken
           wdata == IF taken THEN NoByte ELSE fpga.wdata
           g == [wr |-> wr, wdata |-> wdata, sent |-> sent, got |-> got]
<1>1. /\ fpga \in [wr : BOOLEAN, wdata : Bytes, sent : Seq(Bytes), got : Seq(Bytes)]
      /\ fpga.wr => fpga.wdata \in PortBytes
      /\ pp.rxstb \in BOOLEAN /\ pp.rxdata \in Bytes /\ pp.busy \in BOOLEAN
    BY DEF PortInv, PortTypes
<1>2. [fpga EXCEPT !.got = IF pp.rxstb THEN Append(@, pp.rxdata) ELSE @,
                   !.sent = IF taken THEN Append(@, fpga.wdata) ELSE @,
                   !.wr = @ /\ ~taken, !.wdata = IF taken THEN NoByte ELSE @] = g
  <2>1. [fpga EXCEPT !.got = IF pp.rxstb THEN Append(@, pp.rxdata) ELSE @,
                     !.sent = IF taken THEN Append(@, fpga.wdata) ELSE @,
                     !.wr = @ /\ ~taken, !.wdata = IF taken THEN NoByte ELSE @]
        = [fpga EXCEPT !.got = got, !.sent = sent, !.wr = wr, !.wdata = wdata]
    <3> HIDE DEF taken
    <3> QED BY <1>1
  <2> HIDE DEF taken, got, sent, wr, wdata
  <2>2. DOMAIN fpga = {"wr", "wdata", "sent", "got"} /\ fpga = [x \in {"wr", "wdata", "sent", "got"} |-> fpga[x]]
    BY <1>1
  <2> DEFINE e == [fpga EXCEPT !.got = got, !.sent = sent, !.wr = wr, !.wdata = wdata]
  <2>3. e = g
    <3>1. /\ DOMAIN e = {"wr", "wdata", "sent", "got"} /\ e = [x \in {"wr", "wdata", "sent", "got"} |-> e[x]]
          /\ e.got = got /\ e.sent = sent /\ e.wr = wr /\ e.wdata = wdata
      BY <2>2
    <3> HIDE DEF e
    <3> QED BY <3>1
  <2> QED BY <2>1, <2>3
<1>3. got \in Seq(Bytes) /\ sent \in Seq(Bytes)
  <2>1. \A s \in Seq(Bytes), b \in Bytes : Append(s, b) \in Seq(Bytes)
    BY AppendProperties
  <2> QED BY <1>1, <2>1
<1>4. wr \in BOOLEAN /\ wdata \in Bytes /\ (wr => wdata \in PortBytes)
  <2>1. CASE taken
    BY <2>1, PortConstants
  <2>2. CASE ~taken
    BY <1>1, <2>2
  <2> QED BY <2>1, <2>2
<1> HIDE DEF taken, got, sent, wr, wdata
<1>5. fpga' = g \/ \E b \in PortBytes : fpga' = [g EXCEPT !.wr = TRUE, !.wdata = b]
  <2>1. fpga' \in Console(fpga)
    BY DEF FpgaEdge
  <2>2. Console(fpga) \subseteq {g} \union {[g EXCEPT !.wr = TRUE, !.wdata = b] : b \in PortBytes}
    <3> HIDE DEF g
    <3> QED BY <1>2 DEF Console, taken
  <2> QED BY <2>1, <2>2
<1>6. CASE fpga' = g
    BY <1>3, <1>4, <1>6 DEF got, sent, taken
<1>7. ASSUME NEW b \in PortBytes, fpga' = [g EXCEPT !.wr = TRUE, !.wdata = b]
      PROVE  /\ fpga'.got = got /\ fpga'.sent = sent
             /\ fpga' \in [wr : BOOLEAN, wdata : Bytes, sent : Seq(Bytes), got : Seq(Bytes)]
             /\ fpga'.wr => fpga'.wdata \in PortBytes
  <2>1. fpga' = [wr |-> TRUE, wdata |-> b, sent |-> sent, got |-> got]
    BY <1>7
  <2>2. b \in Bytes
    BY PortConstants
  <2> QED BY <1>3, <2>1, <2>2
<1> QED BY <1>5, <1>6, <1>7 DEF got, sent, taken

\* An edge leaves the port what it should be, whatever the pins
LEMMA EdgeTypes ==
    ASSUME PortInv(pp, pins, fpga), FpgaEdge
    PROVE  PortTypes(pp', pins, fpga')
<1>1. /\ pp \in [sh : [Stages -> {0, 1}], fb : {0, 1}, stb : BOOLEAN, data : Bytes, dir : {0, 1}, ckdir : {0, 1},
                 rxstb : BOOLEAN, rxdata : Bytes, loaded : BOOLEAN, busy : BOOLEAN, out : Bytes]
      /\ pins \in [clk : {0, 1}, dir : {0, 1}, data : Bytes]
      /\ fpga.wdata \in Bytes
    BY DEF PortInv, PortTypes
<1>2. pp'.sh \in [Stages -> {0, 1}]
  <2>1. \A i \in Stages : i # 1 => i - 1 \in Stages
    BY PortConstants DEF Stages
  <2>2. \A i \in Stages : (IF i = 1 THEN pins.clk ELSE pp.sh[i - 1]) \in {0, 1}
    BY <1>1, <2>1
  <2> QED BY <2>2, EdgeIs
<1>3. pp'.fb \in {0, 1} /\ pp'.dir \in {0, 1} /\ pp'.ckdir \in {0, 1}
    BY <1>1, EdgeIs
<1>4. pp'.data \in Bytes /\ pp'.rxdata \in Bytes
    BY <1>1, EdgeIs
<1>5. pp'.out \in Bytes
    BY <1>1, EdgeIs, PortConstants
<1>6. pp'.stb \in BOOLEAN /\ pp'.rxstb \in BOOLEAN
  <2>1. Strobe \in BOOLEAN /\ (pp.stb /\ pp.dir = TO_FPGA) \in BOOLEAN
    BY DEF Strobe
  <2> QED BY <2>1, EdgeIs
<1>7. pp'.loaded \in BOOLEAN
  <2>1. (IF fpga.wr /\ ~pp.busy THEN TRUE ELSE pp.loaded /\ ~(pp.stb /\ pp.dir = FROM_FPGA)) \in BOOLEAN
    OBVIOUS
  <2> QED BY <2>1, EdgeIs
<1>8. pp'.busy \in BOOLEAN
  <2>1. Busy_next \in BOOLEAN
    BY DEF Busy_next
  <2> QED BY <2>1, EdgeIs
<1>9. pp' \in [sh : [Stages -> {0, 1}], fb : {0, 1}, stb : BOOLEAN, data : Bytes, dir : {0, 1}, ckdir : {0, 1},
               rxstb : BOOLEAN, rxdata : Bytes, loaded : BOOLEAN, busy : BOOLEAN, out : Bytes]
  <2> DEFINE fields == {"sh", "fb", "stb", "data", "dir", "ckdir", "rxstb", "rxdata", "loaded", "busy", "out"}
  <2>1. DOMAIN pp' = fields /\ pp' = [x \in fields |-> pp'[x]]
    <3> DEFINE rxstb == pp.stb /\ pp.dir = TO_FPGA
               loaded == IF fpga.wr /\ ~pp.busy THEN TRUE ELSE pp.loaded /\ ~(pp.stb /\ pp.dir = FROM_FPGA)
               sh == [i \in 1 .. SCLKS |-> IF i = 1 THEN pins.clk ELSE pp.sh[i - 1]]
               fb == IF Ones THEN 1 ELSE IF Older = {0} THEN 0 ELSE pp.fb
               data == IF pp.fb = 0 THEN pins.data ELSE pp.data
               dir == IF pp.fb = 0 THEN pins.dir ELSE pp.dir
               rxdata == IF pp.stb THEN pp.data ELSE pp.rxdata
               out == IF pp.busy THEN pp.out ELSE IF fpga.wr THEN fpga.wdata ELSE NoByte
    <3>1. pp' = [sh |-> sh, fb |-> fb, stb |-> Strobe, data |-> data, dir |-> dir, ckdir |-> pp.dir,
                 rxstb |-> rxstb, rxdata |-> rxdata, loaded |-> loaded, busy |-> Busy_next, out |-> out]
      BY Zenon DEF FpgaEdge, Edge
    <3> HIDE DEF rxstb, loaded, sh, fb, data, dir, rxdata, out
    <3> QED BY <3>1
  <2> QED BY <1>2, <1>3, <1>4, <1>5, <1>6, <1>7, <1>8, <2>1
<1> QED BY <1>1, <1>9, ConsoleIs DEF PortTypes

LEMMA EdgeStages ==
    ASSUME PortInv(pp, pins, fpga), FpgaEdge
    PROVE  InStages(pp', pins)
<1>1. /\ \A i, j \in Stages : i <= j /\ pp.sh[j] = pins.clk => pp.sh[i] = pins.clk
      /\ pp.fb = pins.clk => \A i \in Stages : pp.sh[i] = pins.clk
    BY DEF PortInv, InStages
<1>2. /\ pp'.sh[1] = pins.clk
      /\ \A i \in Stages : i # 1 => i - 1 \in Stages /\ pp'.sh[i] = pp.sh[i - 1]
    BY PortConstants, EdgeIs DEF Stages
<1>3. \A i \in Stages : i \in Nat /\ i >= 1
    BY DEF Stages
<1>4. ASSUME NEW i \in Stages, NEW j \in Stages, i <= j, pp'.sh[j] = pins.clk
      PROVE  pp'.sh[i] = pins.clk
  <2>1. CASE i = 1
    BY <1>2, <2>1
  <2>2. CASE i # 1
    <3>1. j # 1 /\ i - 1 <= j - 1
      BY <1>3, <1>4, <2>2
    <3> QED BY <1>1, <1>2, <1>4, <2>2, <3>1
  <2> QED BY <2>1, <2>2
<1>5. ASSUME pp'.fb = pins.clk
      PROVE  \A i \in Stages : pp.sh[i] = pins.clk
  <2>1. CASE pp.fb = pins.clk
    BY <1>1, <2>1
  <2>2. CASE pp.fb # pins.clk
    <3>1. pp'.fb = (IF Ones THEN 1 ELSE IF Older = {0} THEN 0 ELSE pp.fb)
      BY EdgeIs
    <3>2. Older = {pins.clk}
      BY <1>5, <2>2, <3>1, EdgeLevels DEF Ones
    <3>3. \A i \in 2 .. SCLKS : pp.sh[i] = pins.clk
      BY <3>2, EdgeLevels, OlderIs
    <3>4. pp.sh[1] = pins.clk
      BY <1>1, <3>3, PortConstants
    <3>5. \A i \in Stages : i = 1 \/ i \in 2 .. SCLKS
      BY PortConstants DEF Stages
    <3> QED BY <3>3, <3>4, <3>5
  <2> QED BY <2>1, <2>2
<1>6. pp'.fb = pins.clk => \A i \in Stages : pp'.sh[i] = pins.clk
    BY <1>2, <1>5
<1> QED BY <1>4, <1>6 DEF InStages

LEMMA EdgeRising ==
    ASSUME PortInv(pp, pins, fpga), FpgaEdge
    PROVE  Rising(pp', pins)
<1> SUFFICES ASSUME pins.clk = 1, pp'.fb = 0
             PROVE  /\ pp'.sh[1] = 1 => pp'.dir = pins.dir /\ (pp'.sh[2] = 0 /\ pp'.busy => pp'.loaded)
                    /\ pp'.sh[2] = 1 => pp'.ckdir = pins.dir /\ (pp'.loaded \/ pp'.out = NoByte)
                    /\ pp'.sh[3] = 1 /\ pp'.ckdir = FROM_FPGA => pp'.busy
    BY DEF Rising
<1>1. pp.fb = 0
  <2>1. pp'.fb = (IF Ones THEN 1 ELSE IF Older = {0} THEN 0 ELSE pp.fb)
    BY EdgeIs
  <2> QED BY <2>1, EdgeLevels
<1>2. ~pp.stb /\ (pp.loaded => pp.busy) /\ pp.loaded \in BOOLEAN /\ pp.busy \in BOOLEAN
    BY <1>1 DEF PortInv, Strobed, PortTypes
<1>3. /\ pp.sh[1] = 1 => pp.dir = pins.dir /\ (pp.sh[2] = 0 /\ pp.busy => pp.loaded)
      /\ pp.sh[2] = 1 => pp.ckdir = pins.dir /\ (pp.loaded \/ pp.out = NoByte)
    BY <1>1 DEF PortInv, Rising
<1>4. /\ pp'.sh[2] = pp.sh[1] /\ pp'.sh[3] = pp.sh[2] /\ pp.sh[1] \in {0, 1} /\ pp.sh[2] \in {0, 1}
  <2>1. pp'.sh = [i \in Stages |-> IF i = 1 THEN pins.clk ELSE pp.sh[i - 1]]
    BY EdgeIs
  <2> QED BY <2>1, PortConstants, OlderIs
<1>5. pp'.loaded <=> (fpga.wr /\ ~pp.busy) \/ pp.loaded
    BY <1>2, EdgeIs
<1>6. pp'.busy <=> pp.loaded \/ (fpga.wr /\ ~pp.busy) \/ (1 \in Older /\ pp.ckdir = FROM_FPGA)
  <2>1. pp'.busy = Busy_next
    BY EdgeIs
  <2>2. ~(pp.fb = 1)
    BY <1>1
  <2> QED BY <2>1, <2>2, Zenon DEF Busy_next
<1>7. pp'.dir = pins.dir /\ pp'.ckdir = pp.dir
    BY <1>1, EdgeIs
<1>8. ASSUME pp'.sh[2] = 0, pp'.busy
      PROVE  pp'.loaded
  <2>1. ~(1 \in Older)
    BY <1>1, <1>4, <1>8, EdgeLevels
  <2> QED BY <1>5, <1>6, <1>8, <2>1, Zenon
<1>9. ASSUME pp'.sh[2] = 1
      PROVE  pp'.ckdir = pins.dir /\ (pp'.loaded \/ pp'.out = NoByte)
  <2>1. pp.sh[1] = 1 /\ pp'.ckdir = pins.dir
    BY <1>3, <1>4, <1>7, <1>9
  <2>2. pp.busy => pp.loaded \/ pp.out = NoByte
    BY <1>3, <1>4, <2>1
  <2>3. pp'.out = (IF pp.busy THEN pp.out ELSE IF fpga.wr THEN fpga.wdata ELSE NoByte)
    BY EdgeIs
  <2>4. CASE pp.busy
    BY <1>5, <2>1, <2>2, <2>3, <2>4
  <2>5. CASE ~pp.busy
    BY <1>5, <2>1, <2>3, <2>5
  <2> QED BY <2>4, <2>5
<1>10. ASSUME pp'.sh[3] = 1, pp'.ckdir = FROM_FPGA
       PROVE  pp'.busy
  <2>1. pp.sh[2] = 1 /\ pp.sh[1] = 1 /\ 1 \in Older
    BY <1>1, <1>4, <1>10, EdgeLevels
  <2>2. pp.ckdir = FROM_FPGA
    BY <1>3, <1>7, <1>10, <2>1
  <2> QED BY <1>6, <2>1, <2>2
<1> QED BY <1>7, <1>8, <1>9, <1>10

LEMMA EdgeStrobed ==
    ASSUME PortInv(pp, pins, fpga), FpgaEdge
    PROVE  Strobed(pp')
<1>1. /\ pp.stb => pp.fb = 1
      /\ pp.loaded => pp.busy /\ pp.out \in PortBytes
      /\ pp.fb = 1 /\ pp.dir = FROM_FPGA => pp.busy /\ pp.ckdir = FROM_FPGA /\ (pp.loaded => pp.stb)
      /\ pp.fb \in {0, 1} /\ pp.loaded \in BOOLEAN /\ pp.busy \in BOOLEAN /\ pp.stb \in BOOLEAN
      /\ fpga.wr \in BOOLEAN /\ (fpga.wr => fpga.wdata \in PortBytes)
    BY DEF PortInv, Strobed, PortTypes
<1>2. pp'.fb = (IF Ones THEN 1 ELSE IF Older = {0} THEN 0 ELSE pp.fb)
    BY EdgeIs
<1>3. pp'.stb <=> Ones /\ pp.fb = 0
    BY EdgeIs DEF Strobe
<1>4. pp'.loaded <=> (fpga.wr /\ ~pp.busy) \/ (pp.loaded /\ ~(pp.stb /\ pp.dir = FROM_FPGA))
  <2>1. pp'.loaded = (IF fpga.wr /\ ~pp.busy THEN TRUE ELSE pp.loaded /\ ~(pp.stb /\ pp.dir = FROM_FPGA))
    BY EdgeIs
  <2> QED BY <2>1
<1>5. /\ pp'.busy <=> Busy_next
      /\ pp'.out = (IF pp.busy THEN pp.out ELSE IF fpga.wr THEN fpga.wdata ELSE NoByte)
    BY EdgeIs
<1>6. pp'.stb => pp'.fb = 1
    BY <1>2, <1>3
<1>7. ASSUME pp'.loaded
      PROVE  pp'.busy /\ pp'.out \in PortBytes
  <2>1. pp'.busy
    BY <1>4, <1>5, <1>7, Zenon DEF Busy_next
  <2>2. CASE fpga.wr /\ ~pp.busy
    BY <1>1, <1>5, <2>1, <2>2
  <2>3. CASE pp.loaded
    BY <1>1, <1>5, <2>1, <2>3
  <2> QED BY <1>4, <1>7, <2>2, <2>3
<1>8. ASSUME pp'.fb = 1, pp'.dir = FROM_FPGA
      PROVE  pp'.busy /\ pp'.ckdir = FROM_FPGA /\ (pp'.loaded => pp'.stb)
  <2>1. CASE pp.fb = 1
    <3>1. pp.dir = FROM_FPGA /\ pp'.ckdir = pp.dir
      BY <1>8, <2>1, EdgeIs
    <3>2. pp.busy /\ pp.ckdir = FROM_FPGA /\ (pp.loaded => pp.stb)
      BY <1>1, <2>1, <3>1
    <3>3. pp'.busy
      BY <1>5, <2>1, <3>2, Zenon DEF Busy_next
    <3>4. ~pp'.loaded
      BY <1>4, <3>1, <3>2, Zenon
    <3> QED BY <3>1, <3>3, <3>4
  <2>2. CASE pp.fb = 0
    <3>1. Ones /\ pins.clk = 1 /\ pp.sh[1] = 1 /\ pp.sh[2] = 1 /\ pp.sh[3] = 1 /\ 1 \in Older
      BY <1>2, <1>8, <2>2, EdgeLevels
    <3>2. pp.dir = pins.dir /\ pp.ckdir = pins.dir
      BY <2>2, <3>1 DEF PortInv, Rising
    <3>3. pp'.dir = pins.dir /\ pp'.ckdir = pp.dir
      BY <2>2, EdgeIs
    <3>4. pp.ckdir = FROM_FPGA /\ pp'.ckdir = FROM_FPGA
      BY <1>8, <3>2, <3>3
    <3>5. pp'.busy
      BY <1>5, <3>1, <3>4, Zenon DEF Busy_next
    <3> QED BY <1>3, <2>2, <3>1, <3>4, <3>5
  <2> QED BY <1>1, <2>1, <2>2
<1> QED BY <1>6, <1>7, <1>8 DEF Strobed

LEMMA EdgeKeepsPort ==
    ASSUME PortInv(pp, pins, fpga), FpgaEdge
    PROVE  PortInv(pp', pins, fpga')
BY EdgeTypes, EdgeStages, EdgeRising, EdgeStrobed DEF PortInv

LEMMA IfSoIs ==
    ASSUME NEW t \in BOOLEAN, NEW b
    PROVE  /\ t => IfSo(t, b) = <<b>>
           /\ ~t => IfSo(t, b) = <<>>
           /\ (t => b \in Bytes) => IfSo(t, b) \in Seq(Bytes)
BY EmptySeq DEF IfSo

LEMMA BytesAssociate ==
    \A a, b, c \in Seq(Bytes) : (a \o b) \o c = a \o (b \o c)
BY ConcatAssociative

\* A byte strobed into the port goes on to the console
LEMMA EdgeIn ==
    ASSUME PortInv(pp, pins, fpga), FpgaEdge
    PROVE  fpga'.got \o Inward(pp', pins) = fpga.got \o Inward(pp, pins)
<1> DEFINE isA == pp.rxstb
           isB == pp.stb /\ pp.dir = TO_FPGA
           isC == pins.clk = 1 /\ pp.fb = 0 /\ pins.dir = TO_FPGA
           isB2 == pp'.stb /\ pp'.dir = TO_FPGA
           isC2 == pins.clk = 1 /\ pp'.fb = 0 /\ pins.dir = TO_FPGA
           A == IfSo(isA, pp.rxdata)
           B == IfSo(isB, pp.data)
           C == IfSo(isC, pins.data)
           A2 == IfSo(pp'.rxstb, pp'.rxdata)
           B2 == IfSo(isB2, pp'.data)
           C2 == IfSo(isC2, pins.data)
<1>1. /\ pp.rxstb \in BOOLEAN /\ pp.stb \in BOOLEAN /\ pp.rxdata \in Bytes /\ pp.data \in Bytes
      /\ pins.data \in Bytes /\ fpga.got \in Seq(Bytes) /\ pp.fb \in {0, 1} /\ (pp.stb => pp.fb = 1)
    BY DEF PortInv, PortTypes, Strobed
<1>2. isA \in BOOLEAN /\ isB \in BOOLEAN /\ isC \in BOOLEAN /\ isB2 \in BOOLEAN /\ isC2 \in BOOLEAN
  <2>1. isB \in BOOLEAN /\ isC \in BOOLEAN /\ isB2 \in BOOLEAN /\ isC2 \in BOOLEAN
    BY Zenon
  <2> QED BY <1>1, <2>1
<1>3. A2 = B
  <2>1. pp'.rxstb = isB /\ (isB => pp'.rxdata = pp.data)
    BY EdgeIs
  <2> HIDE DEF isB
  <2> QED BY <2>1 DEF IfSo
<1>4. pp'.fb = (IF Ones THEN 1 ELSE IF Older = {0} THEN 0 ELSE pp.fb) /\ (pp'.stb <=> Ones /\ pp.fb = 0)
    BY EdgeIs DEF Strobe
<1>5. (isB2 => pp'.data = pins.data) /\ (isC <=> isB2 \/ isC2) /\ ~(isB2 /\ isC2)
  <2>1. isB2 => pp'.data = pins.data
    BY <1>4, EdgeIs
  <2>2. pp.fb = 0 => pp'.dir = pins.dir
    BY EdgeIs
  <2>3. isB2 => isC /\ ~isC2
    BY <1>4, <2>2, EdgeLevels
  <2>4. isC2 => isC
    BY <1>1, <1>4, EdgeLevels
  <2>5. isC => isB2 \/ isC2
    BY <1>4, <2>2
  <2> QED BY <2>1, <2>3, <2>4, <2>5
<1>6. A \in Seq(Bytes) /\ B \in Seq(Bytes) /\ C \in Seq(Bytes)
  <2> HIDE DEF isA, isB, isC
  <2> QED BY <1>1, <1>2, IfSoIs
<1>7. B2 \o C2 = C
  <2> HIDE DEF isB2, isC2, isC
  <2>1. \A s \in Seq(Bytes) : s \o <<>> = s /\ <<>> \o s = s
    BY ConcatEmptySeq
  <2>2. CASE isB2
    <3>1. B2 = <<pins.data>> /\ C2 = <<>> /\ C = <<pins.data>>
      BY <1>2, <1>5, <2>2 DEF IfSo
    <3> QED BY <1>6, <2>1, <3>1
  <2>3. CASE ~isB2
    <3>1. B2 = <<>> /\ C2 = C
      BY <1>2, <1>5, <2>3 DEF IfSo
    <3> QED BY <1>6, <2>1, <3>1
  <2> QED BY <2>2, <2>3
<1>8. fpga'.got = fpga.got \o A
  <2>1. fpga'.got = IF pp.rxstb THEN Append(fpga.got, pp.rxdata) ELSE fpga.got
    BY ConsoleIs
  <2>2. CASE pp.rxstb
    <3>1. A = <<pp.rxdata>>
      BY <2>2 DEF IfSo
    <3>2. Append(fpga.got, pp.rxdata) = fpga.got \o <<pp.rxdata>>
      BY <1>1, AppendIsConcat
    <3> QED BY <2>1, <2>2, <3>1, <3>2
  <2>3. CASE ~pp.rxstb
    <3>1. A = <<>>
      BY <2>3 DEF IfSo
    <3> QED BY <1>1, <2>1, <2>3, <3>1, ConcatEmptySeq
  <2> QED BY <2>2, <2>3
<1>9. Inward(pp, pins) = A \o (B \o C) /\ Inward(pp', pins) = A2 \o (B2 \o C2)
    BY Zenon DEF Inward, InFlight
<1> HIDE DEF A, B, C, A2, B2, C2
<1>10. B \o C \in Seq(Bytes)
    BY <1>6, ConcatProperties
<1>11. (fpga.got \o A) \o (B \o C) = fpga.got \o (A \o (B \o C))
  <2>1. \A a, b, c \in Seq(Bytes) : (a \o b) \o c = a \o (b \o c)
    BY BytesAssociate
  <2>2. fpga.got \in Seq(Bytes)
    BY <1>1
  <2> QED BY <1>6, <1>10, <2>1, <2>2, Zenon
<1> QED BY <1>3, <1>7, <1>8, <1>9, <1>11

\* The byte that the host will see stays the one it was, until it has seen it
LEMMA EdgeOut ==
    ASSUME PortInv(pp, pins, fpga), FpgaEdge, NEW g \in Seq(Bytes), fpga.sent = g \o Outward(pp, pins)
    PROVE  fpga'.sent = g \o Outward(pp', pins)
<1> DEFINE kept == pp.loaded /\ ~(pp.stb /\ pp.dir = FROM_FPGA)
           kept2 == pp'.loaded /\ ~(pp'.stb /\ pp'.dir = FROM_FPGA)
           has == IF Showing(pp, pins) THEN pp.out # NoByte ELSE kept
           has2 == IF Showing(pp', pins) THEN pp'.out # NoByte ELSE kept2
<1>1. Outward(pp, pins) = IfSo(has, pp.out) /\ Outward(pp', pins) = IfSo(has2, pp'.out)
    BY Zenon DEF Outward
<1>2. /\ pp.stb => pp.fb = 1
      /\ pp.loaded => pp.busy /\ pp.out \in PortBytes
      /\ pp.fb = 1 /\ pp.dir = FROM_FPGA => pp.busy /\ pp.ckdir = FROM_FPGA /\ (pp.loaded => pp.stb)
      /\ pp.fb \in {0, 1} /\ pp.loaded \in BOOLEAN /\ pp.busy \in BOOLEAN /\ pp.stb \in BOOLEAN
      /\ pp.out \in Bytes /\ fpga.wr \in BOOLEAN /\ (fpga.wr => fpga.wdata \in PortBytes)
    BY DEF PortInv, Strobed, PortTypes
<1>3. /\ pp'.fb = (IF Ones THEN 1 ELSE IF Older = {0} THEN 0 ELSE pp.fb)
      /\ pp'.dir = (IF pp.fb = 0 THEN pins.dir ELSE pp.dir)
      /\ pp'.out = (IF pp.busy THEN pp.out ELSE IF fpga.wr THEN fpga.wdata ELSE NoByte)
    BY EdgeIs
<1>4. pp'.stb <=> Ones /\ pp.fb = 0
    BY EdgeIs DEF Strobe
<1>5. pp'.loaded <=> (fpga.wr /\ ~pp.busy) \/ kept
  <2>1. pp'.loaded = (IF fpga.wr /\ ~pp.busy THEN TRUE ELSE kept)
    BY EdgeIs
  <2> QED BY <2>1
<1>6. fpga'.sent = IF fpga.wr /\ ~pp.busy THEN Append(fpga.sent, fpga.wdata) ELSE fpga.sent
    BY ConsoleIs
\* A strobe of the host's reading finds the port busy, and what it shows is loaded
<1>7. ASSUME Ones, pp.fb = 0, pins.dir = FROM_FPGA
      PROVE  pp.busy /\ (pp.loaded \/ pp.out = NoByte)
  <2>1. pins.clk = 1 /\ pp.sh[2] = 1 /\ pp.sh[3] = 1
    BY <1>7, EdgeLevels
  <2> QED BY <1>7, <2>1 DEF PortInv, Rising
<1>8. Showing(pp, pins) => Showing(pp', pins) /\ pp.busy
  <2> SUFFICES ASSUME Showing(pp, pins)
               PROVE  Showing(pp', pins) /\ pp.busy
    OBVIOUS
  <2>1. pins.clk = 1 /\ pp.fb = 1 /\ pp.dir = FROM_FPGA /\ pp.busy
    BY <1>2 DEF Showing
  <2>2. pp'.fb = 1
    BY <1>3, <2>1, EdgeLevels
  <2> QED BY <1>3, <2>1, <2>2 DEF Showing
<1>9. Showing(pp', pins) /\ ~Showing(pp, pins) => Ones /\ pp.fb = 0 /\ pins.dir = FROM_FPGA
  <2> SUFFICES ASSUME Showing(pp', pins), ~Showing(pp, pins)
               PROVE  Ones /\ pp.fb = 0 /\ pins.dir = FROM_FPGA
    OBVIOUS
  <2>1. pins.clk = 1 /\ pp'.fb = 1 /\ pp'.dir = FROM_FPGA
    BY DEF Showing
  <2>2. pp.fb = 0
    BY <1>2, <1>3, <2>1 DEF Showing
  <2> QED BY <1>3, <2>1, <2>2
<1>10. pp'.stb /\ pp'.dir = FROM_FPGA => Showing(pp', pins)
  <2> SUFFICES ASSUME pp'.stb, pp'.dir = FROM_FPGA
               PROVE  Showing(pp', pins)
    OBVIOUS
  <2>1. pins.clk = 1
    BY <1>4, EdgeLevels
  <2> QED BY <1>3, <1>4, <2>1 DEF Showing
<1>11. CASE fpga.wr /\ ~pp.busy
  <2>1. ~has /\ ~Showing(pp', pins)
    BY <1>2, <1>7, <1>8, <1>9, <1>11, Zenon
  <2>2. has2
    BY <1>5, <1>10, <1>11, <2>1, Zenon
  <2> HIDE DEF has, has2
  <2>3. Outward(pp, pins) = <<>> /\ Outward(pp', pins) = <<fpga.wdata>>
    BY <1>1, <1>3, <1>11, <2>1, <2>2 DEF IfSo
  <2>4. fpga.sent = g
    BY <2>3, ConcatEmptySeq
  <2>5. fpga.wdata \in Bytes
    BY <1>2, <1>11, PortConstants
  <2> QED BY <1>6, <1>11, <2>3, <2>4, <2>5, AppendIsConcat
<1>12. CASE ~(fpga.wr /\ ~pp.busy)
  <2>1. pp'.loaded <=> kept
    BY <1>5, <1>12, Zenon
  <2>2. CASE pp.busy
    <3>1. pp'.out = pp.out
      BY <1>3, <2>2
    <3>2. Showing(pp, pins) => has2 = has
      BY <1>8, <3>1
    <3>3. ASSUME ~Showing(pp, pins), Showing(pp', pins)
          PROVE  has2 <=> has
      <4>1. pp.loaded \/ pp.out = NoByte
        BY <1>7, <1>9, <3>3
      <4>2. ~pp.stb
        BY <1>2, <1>9, <3>3
      <4>3. pp.loaded => pp.out # NoByte
        BY <1>2, PortConstants
      <4>4. has2 <=> pp.out # NoByte
        BY <3>1, <3>3
      <4>5. has <=> pp.loaded
        BY <1>2, <3>3, <4>2
      <4> QED BY <4>1, <4>3, <4>4, <4>5, Zenon
    <3>4. ASSUME ~Showing(pp, pins), ~Showing(pp', pins)
          PROVE  has2 <=> has
      BY <1>10, <2>1, <3>4, Zenon
    <3>5. has2 <=> has
      BY <3>2, <3>3, <3>4, Zenon
    <3>6. Outward(pp', pins) = Outward(pp, pins)
      <4> HIDE DEF has, has2
      <4> QED BY <1>1, <3>1, <3>5 DEF IfSo
    <3> QED BY <1>6, <1>12, <3>6
  <2>3. CASE ~pp.busy
    <3>1. ~pp.loaded /\ ~kept
      BY <1>2, <2>3
    <3>2. ~Showing(pp, pins) /\ ~Showing(pp', pins)
      BY <1>7, <1>8, <1>9, <2>3, Zenon
    <3>3. ~has /\ ~has2
      BY <2>1, <3>1, <3>2, Zenon
    <3> HIDE DEF has, has2
    <3>4. Outward(pp', pins) = Outward(pp, pins)
      BY <1>1, <3>3 DEF IfSo
    <3> QED BY <1>6, <1>12, <3>4
  <2> QED BY <2>2, <2>3
<1> QED BY <1>11, <1>12

\* What the host may do to the pins at any moment
LEMMA PinsMove ==
    ASSUME NEW p, NEW k, NEW f, PortInv(p, k, f), NEW k2 \in [clk : {0, 1}, dir : {0, 1}, data : Bytes],
           k2.clk # k.clk => p.fb = k.clk,
           k.clk = 1 /\ p.fb = 0 => k2.dir = k.dir
    PROVE  PortInv(p, k2, f)
<1>1. /\ k.clk \in {0, 1} /\ k2.clk \in {0, 1} /\ p.fb \in {0, 1} /\ \A i \in Stages : p.sh[i] \in {0, 1}
      /\ PortTypes(p, k2, f) /\ Strobed(p)
    BY DEF PortInv, PortTypes
<1>2. InStages(p, k) /\ Rising(p, k)
    BY DEF PortInv
<1>3. CASE k2.clk = k.clk
  <2>1. InStages(p, k2)
    BY <1>2, <1>3 DEF InStages
  <2>2. Rising(p, k2)
    BY <1>2, <1>3 DEF Rising
  <2> QED BY <1>1, <2>1, <2>2 DEF PortInv
<1>4. CASE k2.clk # k.clk
  <2>1. p.fb = k.clk /\ \A i \in Stages : p.sh[i] = k.clk
    BY <1>2, <1>4 DEF InStages
  <2>2. InStages(p, k2)
    BY <1>4, <2>1 DEF InStages
  <2>3. Rising(p, k2)
    <3>1. k2.clk = 1 => p.sh[1] = 0 /\ p.sh[2] = 0 /\ p.sh[3] = 0
      BY <1>1, <1>4, <2>1, PortConstants
    <3> QED BY <3>1 DEF Rising
  <2> QED BY <1>1, <2>2, <2>3 DEF PortInv
<1> QED BY <1>3, <1>4

LEMMA SameInward ==
    ASSUME NEW p, NEW k, NEW k2, InFlight(p, k) <=> InFlight(p, k2), InFlight(p, k) => k2.data = k.data
    PROVE  Inward(p, k2) = Inward(p, k)
<1>1. IfSo(InFlight(p, k2), k2.data) = IfSo(InFlight(p, k), k.data)
    BY DEF IfSo
<1> QED BY <1>1 DEF Inward

LEMMA SameOutward ==
    ASSUME NEW p, NEW k, NEW k2, Showing(p, k) <=> Showing(p, k2)
    PROVE  Outward(p, k2) = Outward(p, k)
<1>1. CASE Showing(p, k)
    BY <1>1 DEF Outward
<1>2. CASE ~Showing(p, k)
    BY <1>2 DEF Outward
<1> QED BY <1>1, <1>2

\* An edge keeps the host where it is
LEMMA EdgeHost ==
    ASSUME PortInv(pp, pins, fpga), FpgaEdge, NEW h, HostPins(h, pins, pp), h.pc \in LowAt \cup HighAt
    PROVE  HostPins(h, pins, pp')
<1>1. /\ pins.clk \in {0, 1} /\ pins.dir \in {0, 1} /\ pp.fb \in {0, 1}
      /\ pp.fb = 1 /\ pp.dir = FROM_FPGA => pp.busy
    BY DEF PortInv, PortTypes, Strobed
<1>2. /\ pp'.fb = (IF Ones THEN 1 ELSE IF Older = {0} THEN 0 ELSE pp.fb)
      /\ pp'.dir = (IF pp.fb = 0 THEN pins.dir ELSE pp.dir)
      /\ pp.busy => pp'.out = pp.out
    BY EdgeIs
<1>3. pp.fb = pins.clk => pp'.fb = pp.fb
    BY <1>1, <1>2, EdgeLevels
<1>4. ASSUME h.kind # "sim"
      PROVE  NetPins(h, pins, pp')
  <2>1. NetPins(h, pins, pp)
    BY <1>4 DEF HostPins
  <2>2. h.pc = "xferdata" => pp'.fb = 0
    BY <1>1, <1>3, <2>1 DEF NetPins, HighAt
  <2>3. h.pc \in {"turn", "hi", "lo"} => pp'.fb = 1
    BY <1>1, <1>3, <2>1 DEF NetPins, HighAt
  <2>4. h.pc = "lo" => pp'.out = pp.out
    <3> SUFFICES ASSUME h.pc = "lo" PROVE pp'.out = pp.out
      OBVIOUS
    <3>1. pins.clk = 1 /\ pp.fb = 1 /\ pins.dir = FROM_FPGA
      BY <2>1 DEF NetPins, HighAt
    <3>2. pp.dir = pins.dir
      BY <3>1 DEF HostPins, Strobes
    <3> QED BY <1>1, <1>2, <3>1, <3>2
  <2> QED BY <2>1, <2>2, <2>3, <2>4 DEF NetPins
<1>5. Strobes(h, pins, pp')
  <2> SUFFICES ASSUME pins.clk = 1, pp'.fb = 1
               PROVE  pp'.dir = IF h.pc = "turn" THEN TO_FPGA ELSE pins.dir
    BY DEF Strobes
  <2>1. CASE pp.fb = 1
    BY <1>2, <2>1 DEF HostPins, Strobes
  <2>2. CASE pp.fb = 0
    <3>1. h.pc # "turn"
      BY <2>2 DEF HostPins, NetPins, SimPins
    <3> QED BY <1>2, <2>2, <3>1
  <2> QED BY <1>1, <2>1, <2>2
<1> QED BY <1>4, <1>5 DEF HostPins

\* An edge, and the host as it was
LEMMA EdgeKept ==
    ASSUME PortsInv, FpgaEdge
    PROVE  /\ PortInv(pp', pins, fpga') /\ HostPins(host, pins, pp')
           /\ Crosses(pp', pins, fpga', host)
<1>1. PortInv(pp, pins, fpga) /\ HostTypes(host) /\ HostPins(host, pins, pp) /\ Crosses(pp, pins, fpga, host)
    BY DEF PortsInv
<1>2. host.got \in Seq(Bytes) /\ host.pc \in LowAt \cup HighAt
    BY <1>1 DEF HostTypes
<1>3. PortInv(pp', pins, fpga')
    BY <1>1, EdgeKeepsPort
<1>4. HostPins(host, pins, pp')
    BY <1>1, <1>2, EdgeHost
<1>5. fpga'.got \o Inward(pp', pins) = host.sent \o Sending(host)
    BY <1>1, EdgeIn DEF Crosses
<1>6. fpga'.sent = host.got \o Outward(pp', pins)
    BY <1>1, <1>2, EdgeOut DEF Crosses
<1> QED BY <1>3, <1>4, <1>5, <1>6 DEF Crosses

\* The host's record, when it only goes to another place
LEMMA HostMoves ==
    ASSUME HostTypes(host), NEW pc \in LowAt \cup HighAt, host' = [host EXCEPT !.pc = pc]
    PROVE  /\ HostTypes(host') /\ host'.pc = pc
           /\ host'.kind = host.kind /\ host'.out = host.out /\ host'.sent = host.sent
           /\ host'.got = host.got /\ host'.hi = host.hi /\ host'.left = host.left
<1>1. /\ DOMAIN host = HostFields /\ host = [x \in HostFields |-> host[x]]
      /\ host.kind \in {"off", "net", "sim"}
      /\ host.out \in Seq(PortBytes) /\ host.sent \in Seq(PortBytes) /\ host.got \in Seq(Bytes)
    BY DEF HostTypes
<1>2. /\ DOMAIN host' = HostFields /\ host' = [x \in HostFields |-> host'[x]]
    BY <1>1
<1>3. /\ host'.pc = pc
      /\ host'.kind = host.kind /\ host'.out = host.out /\ host'.sent = host.sent
      /\ host'.got = host.got /\ host'.hi = host.hi /\ host'.left = host.left
    BY <1>1 DEF HostFields
<1> QED BY <1>1, <1>2, <1>3 DEF HostTypes

\* netpport's host and its pins
LEMMA NetIs ==
    ASSUME PortsInv, host.kind = "net"
    PROVE  /\ pins \in [clk : {0, 1}, dir : {0, 1}, data : Bytes] /\ pp.fb \in {0, 1} /\ pp.dir \in {0, 1}
           /\ HostTypes(host) /\ NetPins(host, pins, pp) /\ Strobes(host, pins, pp)
           /\ PortInv(pp, pins, fpga) /\ PeerTypes(peer)
           /\ fpga.got \o Inward(pp, pins) = host.sent \o Sending(host)
           /\ fpga.sent = host.got \o Outward(pp, pins)
           /\ InFlight(pp, pins) => host.pc = "xfer1"
<1>1. PortInv(pp, pins, fpga) /\ HostTypes(host) /\ HostPins(host, pins, pp) /\ Crosses(pp, pins, fpga, host)
    BY DEF PortsInv
<1>2. NetPins(host, pins, pp) /\ Strobes(host, pins, pp)
    BY <1>1 DEF HostPins
<1>3. InFlight(pp, pins) => host.pc = "xfer1"
    BY <1>2 DEF InFlight, NetPins, HighAt, TO_FPGA, FROM_FPGA
<1>4. pins \in [clk : {0, 1}, dir : {0, 1}, data : Bytes] /\ pp.fb \in {0, 1} /\ pp.dir \in {0, 1}
    BY <1>1 DEF PortInv, PortTypes
<1> QED BY <1>1, <1>2, <1>3, <1>4 DEF Crosses, PortsInv

\* A step of it that neither gives a byte to the pins nor takes one
LEMMA NetGoes ==
    ASSUME PortsInv, host.kind = "net", UNCHANGED <<pp, fpga, peer>>, NEW pc \in LowAt \cup HighAt,
           host' = [host EXCEPT !.pc = pc], host.pc # "xfer1", pc # "xfer1",
           pins' \in [clk : {0, 1}, dir : {0, 1}, data : Bytes],
           pins'.clk # pins.clk => pp.fb = pins.clk /\ (pins.clk = 0 \/ pp.dir = TO_FPGA),
           pins.clk = 1 /\ pp.fb = 0 => pins'.dir = pins.dir,
           NetPins(host', pins', pp), Strobes(host', pins', pp)
    PROVE  PortsInv'
<1>1. PortInv(pp, pins, fpga) /\ HostTypes(host) /\ PeerTypes(peer) /\ NetPins(host, pins, pp)
    BY NetIs
<1>2. PortInv(pp, pins', fpga)
    BY <1>1, PinsMove
<1>3. HostTypes(host') /\ host'.pc = pc /\ host'.kind = host.kind /\ host'.sent = host.sent /\ host'.got = host.got
    BY <1>1, HostMoves
<1>4. ~InFlight(pp, pins) /\ ~InFlight(pp, pins')
  <2>1. ~InFlight(pp, pins)
    BY NetIs
  <2>2. ~InFlight(pp, pins')
    BY <1>3 DEF InFlight, NetPins, HighAt, TO_FPGA, FROM_FPGA
  <2> QED BY <2>1, <2>2
<1>5. Inward(pp, pins') = Inward(pp, pins)
    BY <1>4, SameInward
<1>6. Outward(pp, pins') = Outward(pp, pins)
  <2>1. pins.clk \in {0, 1} /\ pins'.clk \in {0, 1}
    BY NetIs
  <2>2. Showing(pp, pins) <=> Showing(pp, pins')
    BY <2>1 DEF Showing, TO_FPGA, FROM_FPGA
  <2> QED BY <2>2, SameOutward
<1>7. Sending(host) = <<>> /\ Sending(host') = <<>>
    BY <1>3 DEF Sending, IfSo
<1>8. Crosses(pp, pins', fpga, host')
    BY <1>3, <1>5, <1>6, <1>7, NetIs DEF Crosses
<1>9. HostPins(host', pins', pp)
    BY <1>3 DEF HostPins
<1> QED BY <1>1, <1>2, <1>3, <1>8, <1>9 DEF PortsInv

\* pp_xfer and pp_read up to the rising of the clock with a byte for the FPGA
LEMMA NetGoesKept ==
    ASSUME PortsInv, NetXfer \/ NetRead, host.pc \notin {"xferdata", "xfer1", "hi", "lo"}
    PROVE  PortsInv'
<1>1. host.kind = "net" /\ UNCHANGED <<pp, fpga, peer>>
    BY DEF NetXfer, NetRead
<1>2. /\ pins \in [clk : {0, 1}, dir : {0, 1}, data : Bytes] /\ pp.fb \in {0, 1} /\ HostTypes(host)
      /\ NetPins(host, pins, pp) /\ Strobes(host, pins, pp)
    BY <1>1, NetIs
<1> USE DEF LowAt, HighAt, TO_FPGA, FROM_FPGA
<1>3. CASE host.pc = "xfer" /\ GoTo([pins EXCEPT !.clk = 0, !.dir = TO_FPGA], "xfer0")
  <2>1. /\ pins' = [pins EXCEPT !.clk = 0, !.dir = TO_FPGA] /\ host' = [host EXCEPT !.pc = "xfer0"]
    BY <1>3 DEF GoTo
  <2>2. /\ pins' \in [clk : {0, 1}, dir : {0, 1}, data : Bytes] /\ pins'.clk = 0 /\ pins'.dir = 1 /\ pins.clk = 0
    BY <1>2, <1>3, <2>1 DEF NetPins
  <2>3. host'.pc = "xfer0" /\ host'.out = host.out
    BY <1>2, <2>1, HostMoves
  <2>4. NetPins(host', pins', pp) /\ Strobes(host', pins', pp)
    BY <1>2, <1>3, <2>2, <2>3 DEF NetPins, Strobes
  <2>5. "xfer0" \in LowAt \cup HighAt
    OBVIOUS
  <2> QED BY <1>1, <1>3, <2>1, <2>2, <2>4, <2>5, NetGoes
<1>4. CASE host.pc = "xfer0" /\ Feedback = 0 /\ GoTo([pins EXCEPT !.data = Head(host.out)], "xferdata")
  <2>1. /\ pins' = [pins EXCEPT !.data = Head(host.out)] /\ host' = [host EXCEPT !.pc = "xferdata"] /\ pp.fb = 0
    BY <1>4 DEF GoTo, Feedback
  <2>2. Head(host.out) \in Bytes
    BY <1>2, <1>4, HeadTailProperties, PortConstants DEF NetPins, HostTypes
  <2>3. /\ pins' \in [clk : {0, 1}, dir : {0, 1}, data : Bytes] /\ pins'.clk = 0 /\ pins'.dir = 1 /\ pins.clk = 0
        /\ pins'.data = Head(host.out)
    BY <1>2, <1>4, <2>1, <2>2 DEF NetPins
  <2>4. host'.pc = "xferdata" /\ host'.out = host.out
    BY <1>2, <2>1, HostMoves
  <2>5. NetPins(host', pins', pp) /\ Strobes(host', pins', pp)
    BY <1>2, <1>4, <2>1, <2>3, <2>4 DEF NetPins, Strobes
  <2>6. "xferdata" \in LowAt \cup HighAt
    OBVIOUS
  <2> QED BY <1>1, <1>4, <2>1, <2>3, <2>5, <2>6, NetGoes
<1>5. CASE host.pc = "turn" /\ GoTo([pins EXCEPT !.clk = 0], "turn0")
  <2>1. /\ pins' = [pins EXCEPT !.clk = 0] /\ host' = [host EXCEPT !.pc = "turn0"]
    BY <1>5 DEF GoTo
  <2>2. /\ pins.clk = 1 /\ pp.fb = 1 /\ pp.dir = TO_FPGA
    BY <1>2, <1>5 DEF NetPins, Strobes
  <2>3. /\ pins' \in [clk : {0, 1}, dir : {0, 1}, data : Bytes] /\ pins'.clk = 0 /\ pins'.dir = 0
    BY <1>2, <1>5, <2>1 DEF NetPins
  <2>4. host'.pc = "turn0" /\ host'.out = host.out
    BY <1>2, <2>1, HostMoves
  <2>5. NetPins(host', pins', pp) /\ Strobes(host', pins', pp)
    BY <1>2, <1>5, <2>3, <2>4 DEF NetPins, Strobes
  <2>6. "turn0" \in LowAt \cup HighAt
    OBVIOUS
  <2> QED BY <1>1, <1>5, <2>1, <2>2, <2>3, <2>5, <2>6, NetGoes
<1>6. CASE host.pc \in {"turn0", "read"} /\ Feedback = 0
           /\ GoTo([pins EXCEPT !.clk = 1], IF host.pc = "read" THEN "read1" ELSE "turn1")
  <2> DEFINE pc == IF host.pc = "read" THEN "read1" ELSE "turn1"
  <2>1. /\ pins' = [pins EXCEPT !.clk = 1] /\ host' = [host EXCEPT !.pc = pc] /\ pp.fb = 0
        /\ pc \in {"turn1", "read1"}
    BY <1>6 DEF GoTo, Feedback
  <2> HIDE DEF pc
  <2>2. /\ pins' \in [clk : {0, 1}, dir : {0, 1}, data : Bytes] /\ pins'.clk = 1 /\ pins'.dir = 0 /\ pins.clk = 0
    BY <1>2, <1>6, <2>1 DEF NetPins
  <2>3. pc \in LowAt \cup HighAt /\ pc # "xfer1"
    BY <2>1
  <2>4. host'.pc = pc /\ host'.out = host.out
    BY <1>2, <2>1, <2>3, HostMoves
  <2>5. NetPins(host', pins', pp) /\ Strobes(host', pins', pp)
    BY <2>1, <2>2, <2>4 DEF NetPins, Strobes
  <2> QED BY <1>1, <1>6, <2>1, <2>2, <2>3, <2>5, NetGoes
<1>7. CASE host.pc \in {"turn1", "read1"} /\ Feedback = 1 /\ GoTo(pins, "hi")
  <2>1. /\ pins' = pins /\ host' = [host EXCEPT !.pc = "hi"] /\ pp.fb = 1
    BY <1>7 DEF GoTo, Feedback
  <2>2. pins.clk = 1 /\ pins.dir = 0
    BY <1>2, <1>7 DEF NetPins
  <2>3. host'.pc = "hi" /\ host'.out = host.out
    BY <1>2, <2>1, HostMoves
  <2>4. NetPins(host', pins', pp) /\ Strobes(host', pins', pp)
    BY <1>2, <1>7, <2>1, <2>2, <2>3 DEF NetPins, Strobes
  <2>5. "hi" \in LowAt \cup HighAt
    OBVIOUS
  <2> QED BY <1>1, <1>2, <1>7, <2>1, <2>4, <2>5, NetGoes
<1> QED BY <1>3, <1>4, <1>5, <1>6, <1>7 DEF NetXfer, NetRead

\* The clock rises with a byte for the FPGA
LEMMA InwardMore ==
    ASSUME NEW p, NEW k, NEW f, PortInv(p, k, f), NEW k2, k2.data \in Bytes,
           ~InFlight(p, k), InFlight(p, k2),
           f.got \o Inward(p, k) \in Seq(Bytes)
    PROVE  f.got \o Inward(p, k2) = (f.got \o Inward(p, k)) \o <<k2.data>>
<1> DEFINE isB == p.stb /\ p.dir = TO_FPGA
           A == IfSo(p.rxstb, p.rxdata)
           B == IfSo(isB, p.data)
           D == <<k2.data>>
<1>1. p.rxstb \in BOOLEAN /\ isB \in BOOLEAN /\ p.rxdata \in Bytes /\ p.data \in Bytes /\ f.got \in Seq(Bytes)
  <2>1. isB \in BOOLEAN
    BY Zenon
  <2> HIDE DEF isB
  <2> QED BY <2>1 DEF PortInv, PortTypes
<1>2. A \in Seq(Bytes) /\ B \in Seq(Bytes) /\ D \in Seq(Bytes) /\ <<>> \in Seq(Bytes)
  <2> HIDE DEF isB
  <2>1. A \in Seq(Bytes) /\ B \in Seq(Bytes)
    BY <1>1, IfSoIs
  <2> QED BY <2>1, EmptySeq
<1>3. Inward(p, k) = A \o (B \o <<>>) /\ Inward(p, k2) = A \o (B \o D)
  <2>1. IfSo(InFlight(p, k), k.data) = <<>> /\ IfSo(InFlight(p, k2), k2.data) = D
    BY DEF IfSo
  <2> QED BY <2>1, Zenon DEF Inward
<1> HIDE DEF A, B, D
<1>4. \A a, b, c \in Seq(Bytes) : (a \o b) \o c = a \o (b \o c)
    BY BytesAssociate
<1>5. f.got \o (A \o B) = f.got \o Inward(p, k) /\ A \o B \in Seq(Bytes)
  <2>1. B \o <<>> = B
    BY <1>2, ConcatEmptySeq
  <2>2. A \o B \in Seq(Bytes)
    BY <1>2, ConcatProperties
  <2> QED BY <1>3, <2>1, <2>2
<1>6. A \o (B \o D) = (A \o B) \o D
    BY <1>2, <1>4, Zenon
<1>7. f.got \o ((A \o B) \o D) = (f.got \o (A \o B)) \o D
  <2>1. f.got \in Seq(Bytes)
    BY <1>1
  <2>2. A \o B \in Seq(Bytes)
    BY <1>5
  <2>3. D \in Seq(Bytes)
    BY <1>2
  <2> QED BY <1>4, <2>1, <2>2, <2>3, Zenon
<1> QED BY <1>3, <1>5, <1>6, <1>7 DEF D

LEMMA PortBytesAre ==
    ASSUME NEW s \in Seq(PortBytes)
    PROVE  s \in Seq(Bytes) /\ (s # <<>> => Head(s) \in PortBytes /\ Head(s) \in Bytes /\ Tail(s) \in Seq(PortBytes))
<1>1. s \in Seq(Bytes)
    BY PortConstants, SeqMonotonic
<1>2. s # <<>> => Head(s) \in PortBytes /\ Tail(s) \in Seq(PortBytes)
    BY HeadTailProperties
<1> QED BY <1>1, <1>2, PortConstants

\* pp_xfer gives the byte to the pins and then counts it as sent
LEMMA NetGivesKept ==
    ASSUME PortsInv, NetXfer, host.pc \in {"xferdata", "xfer1"}
    PROVE  PortsInv'
<1>1. host.kind = "net" /\ UNCHANGED <<pp, fpga, peer>>
    BY DEF NetXfer
<1>2. /\ pins \in [clk : {0, 1}, dir : {0, 1}, data : Bytes] /\ pp.fb \in {0, 1} /\ HostTypes(host)
      /\ NetPins(host, pins, pp) /\ Strobes(host, pins, pp) /\ PortInv(pp, pins, fpga) /\ PeerTypes(peer)
      /\ fpga.got \o Inward(pp, pins) = host.sent \o Sending(host)
      /\ fpga.sent = host.got \o Outward(pp, pins)
    BY <1>1, NetIs
<1>3. /\ host.out \in Seq(PortBytes) /\ host.sent \in Seq(PortBytes) /\ host.sent \in Seq(Bytes)
      /\ host.out # <<>> /\ Head(host.out) \in PortBytes /\ Head(host.out) \in Bytes
      /\ Tail(host.out) \in Seq(PortBytes) /\ pins.data = Head(host.out)
    BY <1>2, PortBytesAre DEF HostTypes, NetPins
<1> USE DEF LowAt, HighAt, TO_FPGA, FROM_FPGA
<1>4. CASE host.pc = "xferdata"
  <2>1. pins' = [pins EXCEPT !.clk = 1] /\ host' = [host EXCEPT !.pc = "xfer1"]
    BY <1>4 DEF NetXfer, GoTo
  <2>2. pins.clk = 0 /\ pins.dir = 1 /\ pp.fb = 0
    BY <1>2, <1>4 DEF NetPins
  <2>3. /\ pins' \in [clk : {0, 1}, dir : {0, 1}, data : Bytes] /\ pins'.clk = 1 /\ pins'.dir = 1
        /\ pins'.data = Head(host.out)
    BY <1>2, <1>3, <2>1, <2>2
  <2>4. PortInv(pp, pins', fpga)
    BY <1>2, <2>2, <2>3, PinsMove
  <2>5. "xfer1" \in LowAt \cup HighAt
    OBVIOUS
  <2>6. /\ HostTypes(host') /\ host'.pc = "xfer1" /\ host'.kind = "net" /\ host'.out = host.out
        /\ host'.sent = host.sent /\ host'.got = host.got
    BY <1>1, <1>2, <2>1, <2>5, HostMoves
  <2>7. HostPins(host', pins', pp)
    BY <1>3, <2>2, <2>3, <2>6 DEF HostPins, NetPins, Strobes
  <2>8. fpga.got \o Inward(pp, pins') = host.sent \o <<pins'.data>>
    <3>1. ~InFlight(pp, pins) /\ InFlight(pp, pins')
      BY <2>2, <2>3 DEF InFlight
    <3>2. fpga.got \o Inward(pp, pins) = host.sent
      <4>1. Sending(host) = <<>>
        BY <1>4 DEF Sending, IfSo
      <4> QED BY <1>2, <1>3, <4>1, ConcatEmptySeq
    <3>3. pins'.data \in Bytes
      BY <1>3, <2>3
    <3>4. PortInv(pp, pins, fpga) /\ host.sent \in Seq(Bytes)
      BY <1>2, <1>3
    <3>5. fpga.got \o Inward(pp, pins') = (fpga.got \o Inward(pp, pins)) \o <<pins'.data>>
      <4>1. fpga.got \o Inward(pp, pins) \in Seq(Bytes)
        BY <3>2, <3>4
      <4>2. PortInv(pp, pins, fpga) /\ pins'.data \in Bytes /\ ~InFlight(pp, pins) /\ InFlight(pp, pins')
        BY <3>1, <3>3, <3>4
      <4> QED BY <4>1, <4>2, InwardMore
    <3> QED BY <3>2, <3>5
  <2>9. Sending(host') = <<pins'.data>>
    BY <2>3, <2>6 DEF Sending, IfSo
  <2>10. Outward(pp, pins') = Outward(pp, pins)
    BY <2>2, SameOutward DEF Showing
  <2> QED BY <1>1, <1>2, <2>4, <2>6, <2>7, <2>8, <2>9, <2>10 DEF PortsInv, Crosses
<1>5. CASE host.pc = "xfer1"
  <2>1. /\ pp.fb = 1 /\ pins' = [pins EXCEPT !.dir = FROM_FPGA, !.data = NoByte]
        /\ host' = [host EXCEPT !.pc = "turn", !.sent = Append(@, Head(host.out)), !.out = Tail(@)]
    BY <1>5 DEF NetXfer, Feedback
  <2>2. pins.clk = 1 /\ pins.dir = 1 /\ pp.dir = 1
    BY <1>2, <1>5, <2>1 DEF NetPins, Strobes
  <2>3. pins' \in [clk : {0, 1}, dir : {0, 1}, data : Bytes] /\ pins'.clk = 1 /\ pins'.dir = 0
    BY <1>2, <2>1, <2>2, PortConstants
  <2>4. PortInv(pp, pins', fpga)
    BY <1>2, <2>1, <2>2, <2>3, PinsMove
  <2>5. /\ host'.pc = "turn" /\ host'.kind = "net" /\ host'.out = Tail(host.out)
        /\ host'.sent = Append(host.sent, Head(host.out)) /\ host'.got = host.got
        /\ DOMAIN host' = HostFields /\ host' = [x \in HostFields |-> host'[x]]
    <3>1. DOMAIN host = HostFields /\ host = [x \in HostFields |-> host[x]]
      BY <1>2 DEF HostTypes
    <3> QED BY <1>1, <2>1, <3>1 DEF HostFields
  <2>6. HostTypes(host')
    <3>1. Append(host.sent, Head(host.out)) \in Seq(PortBytes)
      BY <1>3, AppendProperties
    <3> QED BY <1>2, <1>3, <2>5, <3>1 DEF HostTypes
  <2>7. HostPins(host', pins', pp)
    BY <2>1, <2>2, <2>3, <2>5 DEF HostPins, NetPins, Strobes
  <2>8. Inward(pp, pins') = Inward(pp, pins)
    BY <2>1, SameInward DEF InFlight
  <2>9. Outward(pp, pins') = Outward(pp, pins)
    BY <2>2, SameOutward DEF Showing
  <2>10. host.sent \o Sending(host) = host'.sent \o Sending(host')
    <3>1. Sending(host) = <<Head(host.out)>> /\ Sending(host') = <<>>
      BY <1>5, <2>5 DEF Sending, IfSo
    <3>2. host'.sent = host.sent \o <<Head(host.out)>> /\ host'.sent \in Seq(PortBytes)
      BY <1>3, <2>5, <2>6, AppendIsConcat DEF HostTypes
    <3> QED BY <3>1, <3>2, ConcatEmptySeq
  <2> QED BY <1>1, <1>2, <2>4, <2>5, <2>6, <2>7, <2>8, <2>9, <2>10 DEF PortsInv, Crosses
<1> QED BY <1>4, <1>5

\* pp_read and the end of pp_xfer read the two halves of the same byte
LEMMA NetTakesKept ==
    ASSUME PortsInv, NetRead, host.pc \in {"hi", "lo"}
    PROVE  PortsInv'
<1>1. host.kind = "net" /\ UNCHANGED <<pp, fpga, peer>>
    BY DEF NetRead
<1>2. /\ pins \in [clk : {0, 1}, dir : {0, 1}, data : Bytes] /\ pp.fb \in {0, 1} /\ HostTypes(host)
      /\ NetPins(host, pins, pp) /\ Strobes(host, pins, pp) /\ PortInv(pp, pins, fpga) /\ PeerTypes(peer)
      /\ fpga.got \o Inward(pp, pins) = host.sent \o Sending(host)
      /\ fpga.sent = host.got \o Outward(pp, pins)
    BY <1>1, NetIs
<1> USE DEF LowAt, HighAt, TO_FPGA, FROM_FPGA
<1>3. pins.clk = 1 /\ pins.dir = 0 /\ pp.fb = 1 /\ pp.dir = 0
    BY <1>2 DEF NetPins, Strobes
<1>4. DOMAIN host = HostFields /\ host = [x \in HostFields |-> host[x]]
    BY <1>2 DEF HostTypes
<1>5. CASE host.pc = "hi"
  <2>1. pins' = pins /\ host' = [host EXCEPT !.hi = pp.out[1], !.pc = "lo"]
    BY <1>5 DEF NetRead
  <2>2. /\ host'.pc = "lo" /\ host'.kind = "net" /\ host'.out = host.out /\ host'.hi = pp.out[1]
        /\ host'.sent = host.sent /\ host'.got = host.got
        /\ DOMAIN host' = HostFields /\ host' = [x \in HostFields |-> host'[x]]
    BY <1>1, <1>4, <2>1 DEF HostFields
  <2>3. HostTypes(host')
    BY <1>2, <2>2 DEF HostTypes
  <2>4. HostPins(host', pins', pp)
    BY <1>3, <2>1, <2>2 DEF HostPins, NetPins, Strobes
  <2>5. Sending(host') = Sending(host)
    BY <1>5, <2>2 DEF Sending, IfSo
  <2> QED BY <1>1, <1>2, <2>1, <2>2, <2>3, <2>4, <2>5 DEF PortsInv, Crosses
<1>6. CASE host.pc = "lo"
  <2> DEFINE b == <<host.hi, pp.out[2]>>
             more == host.left > 1 /\ b # NoByte
             got == IF b = NoByte THEN host.got ELSE Append(host.got, b)
             pc == IF more THEN "read" ELSE "idle"
             left == IF more THEN host.left - 1 ELSE 0
  <2>1. /\ pins' = [pins EXCEPT !.clk = 0]
        /\ host' = [host EXCEPT !.hi = "ff", !.got = got, !.left = left, !.pc = pc]
    BY <1>6 DEF NetRead
  <2>2. pp.out \in Bytes /\ host.got \in Seq(Bytes) /\ (pp.loaded => pp.stb)
    BY <1>2, <1>3 DEF PortInv, PortTypes, Strobed, HostTypes
  <2>3. b = pp.out
    BY <1>2, <1>6, <2>2, PortConstants DEF NetPins
  <2>4. got \in Seq(Bytes)
    BY <2>2, <2>3, AppendProperties
  <2>5. fpga.sent = got
    <3>1. Showing(pp, pins)
      BY <1>3 DEF Showing
    <3>2. Outward(pp, pins) = IF pp.out = NoByte THEN <<>> ELSE <<pp.out>>
      BY <3>1 DEF Outward, IfSo
    <3>3. CASE pp.out = NoByte
      BY <1>2, <2>2, <2>3, <3>2, <3>3, ConcatEmptySeq
    <3>4. CASE pp.out # NoByte
      <4>1. Append(host.got, pp.out) = host.got \o <<pp.out>>
        BY <2>2, AppendIsConcat
      <4>2. got = Append(host.got, pp.out)
        BY <2>3, <3>4
      <4>3. fpga.sent = host.got \o <<pp.out>>
        BY <1>2, <3>2, <3>4
      <4> QED BY <4>1, <4>2, <4>3, Zenon
    <3> QED BY <3>3, <3>4
  <2>6. pc \in {"read", "idle"}
    OBVIOUS
  <2> HIDE DEF b, more, got, pc, left
  <2>7. /\ host'.pc = pc /\ host'.kind = "net" /\ host'.out = host.out
        /\ host'.sent = host.sent /\ host'.got = got
        /\ DOMAIN host' = HostFields /\ host' = [x \in HostFields |-> host'[x]]
    BY <1>1, <1>4, <2>1 DEF HostFields
  <2>8. HostTypes(host')
    BY <1>2, <2>4, <2>6, <2>7 DEF HostTypes
  <2>9. pins' \in [clk : {0, 1}, dir : {0, 1}, data : Bytes] /\ pins'.clk = 0 /\ pins'.dir = 0
    BY <1>2, <1>3, <2>1
  <2>10. PortInv(pp, pins', fpga)
    BY <1>2, <1>3, <2>9, PinsMove
  <2>11. HostPins(host', pins', pp)
    BY <2>6, <2>7, <2>9 DEF HostPins, NetPins, Strobes
  <2>12. Inward(pp, pins') = Inward(pp, pins) /\ Sending(host') = Sending(host)
    <3>1. Inward(pp, pins') = Inward(pp, pins)
      BY <1>3, SameInward DEF InFlight
    <3> QED BY <1>6, <2>6, <2>7, <3>1 DEF Sending, IfSo
  <2>13. Outward(pp, pins') = <<>>
    <3>1. ~Showing(pp, pins')
      BY <2>9 DEF Showing
    <3>2. ~(pp.loaded /\ ~(pp.stb /\ pp.dir = FROM_FPGA))
      BY <1>3, <2>2
    <3> QED BY <3>1, <3>2 DEF Outward, IfSo
  <2>14. fpga.sent = host'.got \o Outward(pp, pins')
    BY <2>4, <2>5, <2>7, <2>13, ConcatEmptySeq
  <2> QED BY <1>1, <1>2, <2>7, <2>8, <2>10, <2>11, <2>12, <2>14 DEF PortsInv, Crosses
<1> QED BY <1>5, <1>6

\* A call of pp_xfer or pp_read
LEMMA NetCallKept ==
    ASSUME PortsInv, NetCall
    PROVE  PortsInv'
<1>1. host.kind = "net" /\ host.pc = "idle" /\ UNCHANGED <<pp, fpga, peer>>
    BY DEF NetCall
<1>2. /\ pins \in [clk : {0, 1}, dir : {0, 1}, data : Bytes] /\ pp.fb \in {0, 1} /\ HostTypes(host)
      /\ NetPins(host, pins, pp) /\ Strobes(host, pins, pp) /\ PortInv(pp, pins, fpga) /\ PeerTypes(peer)
      /\ fpga.got \o Inward(pp, pins) = host.sent \o Sending(host)
      /\ fpga.sent = host.got \o Outward(pp, pins)
    BY <1>1, NetIs
<1> USE DEF LowAt, HighAt, TO_FPGA, FROM_FPGA
<1>3. pins.clk = 0 /\ pins.dir = 0
    BY <1>1, <1>2 DEF NetPins
<1>4. DOMAIN host = HostFields /\ host = [x \in HostFields |-> host[x]]
    BY <1>2 DEF HostTypes
<1>5. ASSUME NEW out \in Seq(PortBytes), NEW pc \in {"xfer", "read"}, pc = "xfer" => out # <<>>, pins' = pins,
             host'.pc = pc /\ host'.out = out, host'.kind = host.kind, host'.sent = host.sent,
             host'.got = host.got, DOMAIN host' = HostFields, host' = [x \in HostFields |-> host'[x]]
      PROVE  PortsInv'
  <2>1. HostTypes(host')
    BY <1>2, <1>5 DEF HostTypes
  <2>2. HostPins(host', pins, pp)
    BY <1>1, <1>3, <1>5 DEF HostPins, NetPins, Strobes
  <2>3. Sending(host) = <<>> /\ Sending(host') = <<>>
    BY <1>1, <1>5 DEF Sending, IfSo
  <2> QED BY <1>1, <1>2, <1>5, <2>1, <2>2, <2>3 DEF PortsInv, Crosses
<1>6. ASSUME NEW b \in PortBytes, host' = [host EXCEPT !.pc = "xfer", !.out = <<b>>], pins' = pins
      PROVE  PortsInv'
  <2>1. <<b>> \in Seq(PortBytes) /\ <<b>> # <<>>
    OBVIOUS
  <2>2. /\ host'.pc = "xfer" /\ host'.out = <<b>> /\ host'.kind = host.kind /\ host'.sent = host.sent
        /\ host'.got = host.got /\ DOMAIN host' = HostFields /\ host' = [x \in HostFields |-> host'[x]]
    BY <1>4, <1>6 DEF HostFields
  <2> QED BY <1>5, <1>6, <2>1, <2>2
<1>7. ASSUME NEW n \in 1 .. 2, host' = [host EXCEPT !.pc = "read", !.left = n],
             pins' = [pins EXCEPT !.clk = 0, !.dir = FROM_FPGA]
      PROVE  PortsInv'
  <2>1. pins' = pins
    BY <1>2, <1>3, <1>7
  <2>2. /\ host'.pc = "read" /\ host'.out = host.out /\ host'.kind = host.kind /\ host'.sent = host.sent
        /\ host'.got = host.got /\ DOMAIN host' = HostFields /\ host' = [x \in HostFields |-> host'[x]]
    BY <1>4, <1>7 DEF HostFields
  <2>3. host.out \in Seq(PortBytes)
    BY <1>2 DEF HostTypes
  <2> QED BY <1>5, <2>1, <2>2, <2>3
<1>8. \/ \E b \in PortBytes : host' = [host EXCEPT !.pc = "xfer", !.out = <<b>>] /\ pins' = pins
      \/ \E n \in 1 .. 2 : /\ host' = [host EXCEPT !.pc = "read", !.left = n]
                           /\ pins' = [pins EXCEPT !.clk = 0, !.dir = FROM_FPGA]
    BY DEF NetCall
<1> QED BY <1>6, <1>7, <1>8

LEMMA NetClockKept ==
    ASSUME PortsInv, NetClock
    PROVE  PortsInv'
<1>1. FpgaEdge /\ pins' = pins /\ host' = host /\ peer' = peer
    BY DEF NetClock
<1>2. PortInv(pp', pins, fpga') /\ HostPins(host, pins, pp') /\ Crosses(pp', pins, fpga', host)
    BY <1>1, EdgeKept
<1> QED BY <1>1, <1>2 DEF PortsInv

LEMMA InwardType ==
    ASSUME NEW p, NEW k, NEW f, PortInv(p, k, f)
    PROVE  Inward(p, k) \in Seq(Bytes)
<1> DEFINE isB == p.stb /\ p.dir = TO_FPGA
           isC == InFlight(p, k)
           A == IfSo(p.rxstb, p.rxdata)
           B == IfSo(isB, p.data)
           C == IfSo(isC, k.data)
<1>1. isB \in BOOLEAN /\ isC \in BOOLEAN
    BY Zenon DEF InFlight
<1>2. p.rxstb \in BOOLEAN /\ p.rxdata \in Bytes /\ p.data \in Bytes /\ k.data \in Bytes
    BY DEF PortInv, PortTypes
<1>3. A \in Seq(Bytes) /\ B \in Seq(Bytes) /\ C \in Seq(Bytes)
  <2> HIDE DEF isB, isC
  <2> QED BY <1>1, <1>2, IfSoIs
<1>4. Inward(p, k) = A \o (B \o C)
    BY Zenon DEF Inward
<1> HIDE DEF A, B, C
<1>5. B \o C \in Seq(Bytes)
    BY <1>3, ConcatProperties
<1> QED BY <1>3, <1>4, <1>5, ConcatProperties

LEMMA PrefixOfConcat ==
    ASSUME NEW S, NEW s \in Seq(S), NEW t \in Seq(S)
    PROVE  IsPrefix(s, s \o t)
<1>1. s \o t \in Seq(S) /\ Len(s \o t) = Len(s) + Len(t) /\ Len(s) \in Nat /\ Len(t) \in Nat
    BY ConcatProperties, LenProperties
<1>2. Len(s) <= Len(s \o t)
    BY <1>1
<1>3. SubSeq(s \o t, 1, Len(s)) = SubSeq(s, 1, Len(s))
  <2>1. CASE Len(s) = 0
    BY <2>1, SubSeqEmpty
  <2>2. CASE Len(s) # 0
    <3>1. 1 \in 1 .. Len(s) /\ Len(s) \in 1 .. Len(s)
      BY <1>1, <2>2
    <3> QED BY <3>1, SubSeqOfConcat1
  <2> QED BY <2>1, <2>2
<1> QED BY <1>2, <1>3 DEF IsPrefix

LEMMA PortsInvShows == PortsInv => EachByteCrossesOnce
<1> SUFFICES ASSUME PortsInv PROVE EachByteCrossesOnce
    OBVIOUS
<1>1. PortInv(pp, pins, fpga) /\ HostTypes(host) /\ HostPins(host, pins, pp) /\ Crosses(pp, pins, fpga, host)
    BY DEF PortsInv
<1>2. fpga.got \in Seq(Bytes) /\ Inward(pp, pins) \in Seq(Bytes)
    BY <1>1, InwardType DEF PortInv, PortTypes
<1>3. host.sent \in Seq(Bytes) /\ host.out \in Seq(Bytes) /\ host.got \in Seq(Bytes)
    BY <1>1, PortBytesAre DEF HostTypes
<1>4. host.pc = "xfer1" => host.out # <<>>
    BY <1>1 DEF HostPins, NetPins, SimPins
<1>5. PICK rest \in Seq(Bytes) : Sending(host) \in Seq(Bytes) /\ host.out = Sending(host) \o rest
  <2>1. CASE host.pc = "xfer1"
    <3>1. Sending(host) = <<Head(host.out)>>
      BY <2>1 DEF Sending, IfSo
    <3>2. host.out # <<>> /\ Head(host.out) \in Bytes /\ Tail(host.out) \in Seq(Bytes)
      BY <1>3, <1>4, <2>1, HeadTailProperties
    <3>3. host.out = <<Head(host.out)>> \o Tail(host.out)
      <4>1. Len(host.out) \in Nat /\ Len(host.out) # 0
        BY <1>3, <3>2, EmptySeq
      <4>2. 1 \in 1 .. Len(host.out) /\ Len(host.out) \in 1 .. Len(host.out)
        BY <4>1
      <4>3. SubSeq(host.out, 1, Len(host.out)) = <<host.out[1]>> \o SubSeq(host.out, 1 + 1, Len(host.out))
        BY <1>3, <4>2, SubSeqRecursiveFirst
      <4>4. SubSeq(host.out, 1, Len(host.out)) = host.out /\ Tail(host.out) = SubSeq(host.out, 2, Len(host.out))
        BY <1>3, <3>2, SubSeqFull, TailIsSubSeq
      <4>5. Head(host.out) = host.out[1] /\ 1 + 1 = 2
        OBVIOUS
      <4> QED BY <4>3, <4>4, <4>5
    <3>4. Sending(host) \in Seq(Bytes)
      BY <3>1, <3>2
    <3> QED BY <3>1, <3>2, <3>3, <3>4
  <2>2. CASE host.pc # "xfer1"
    <3>1. Sending(host) = <<>>
      BY <2>2 DEF Sending, IfSo
    <3> QED BY <1>3, <3>1, ConcatEmptySeq, EmptySeq
  <2> QED BY <2>1, <2>2
<1>6. \A a, b, c \in Seq(Bytes) : (a \o b) \o c = a \o (b \o c)
    BY BytesAssociate
<1>7. host.sent \o host.out = fpga.got \o (Inward(pp, pins) \o rest)
  <2>1. host.sent \o (Sending(host) \o rest) = (host.sent \o Sending(host)) \o rest
    <3>1. host.sent \in Seq(Bytes)
      BY <1>3
    <3>2. Sending(host) \in Seq(Bytes)
      BY <1>5
    <3>3. (host.sent \o Sending(host)) \o rest = host.sent \o (Sending(host) \o rest)
      BY <3>1, <3>2, <1>6, Zenon
    <3> QED BY <3>3
  <2>2. host.sent \o Sending(host) = fpga.got \o Inward(pp, pins)
    BY <1>1 DEF Crosses
  <2>3. (fpga.got \o Inward(pp, pins)) \o rest = fpga.got \o (Inward(pp, pins) \o rest)
    BY <1>2, <1>5, <1>6, Zenon
  <2> QED BY <1>5, <2>1, <2>2, <2>3
<1>8. EachByteGoesInOnce
  <2>1. Inward(pp, pins) \o rest \in Seq(Bytes)
    BY <1>2, <1>5, ConcatProperties
  <2> QED BY <1>2, <1>7, <2>1, PrefixOfConcat DEF EachByteGoesInOnce
<1>9. EachByteComesOutOnce
  <2>1. Outward(pp, pins) \in Seq(Bytes)
    <3>1. pp.out \in Bytes
      BY <1>1 DEF PortInv, PortTypes
    <3>2. CASE Outward(pp, pins) = <<>>
      BY <3>2, EmptySeq
    <3>3. CASE Outward(pp, pins) = <<pp.out>>
      <4>1. <<pp.out>> \in Seq(Bytes)
        BY <3>1
      <4> QED BY <3>3, <4>1
    <3>4. Outward(pp, pins) = <<pp.out>> \/ Outward(pp, pins) = <<>>
      BY Zenon DEF Outward, IfSo
    <3> QED BY <3>2, <3>3, <3>4
  <2>2. fpga.sent = host.got \o Outward(pp, pins)
    BY <1>1 DEF Crosses
  <2> QED BY <1>3, <2>1, <2>2, PrefixOfConcat DEF EachByteComesOutOnce
<1> QED BY <1>8, <1>9 DEF EachByteCrossesOnce

\* What a client's record keeps
LEMMA ClientSets ==
    ASSUME NEW r, DOMAIN r = PeerFields, NEW i, NEW u, NEW v, NEW w
    PROVE  /\ DOMAIN [r EXCEPT !.input = i, !.up = u, !.over = v] = PeerFields
           /\ [r EXCEPT !.input = i, !.up = u, !.over = v].input = i
           /\ DOMAIN [r EXCEPT !.up = u, !.waiting = w] = PeerFields
           /\ [r EXCEPT !.up = u, !.waiting = w].input = r.input
BY DEF PeerFields

\* poll_accept keeps what the clients have sent
LEMMA PollAcceptTypes ==
    ASSUME NEW e, PeerTypes(e)
    PROVE  PeerTypes(PollAccept(e))
<1> DEFINE u(c) == e[c].up \/ e[c].waiting
           r(c) == [e[c] EXCEPT !.up = u(c), !.waiting = FALSE]
<1>1. PollAccept(e) = [c \in Channels |-> r(c)]
    BY Zenon DEF PollAccept
<1>2. ASSUME NEW c \in Channels
      PROVE  DOMAIN r(c) = PeerFields /\ r(c).input = e[c].input
  <2>1. DOMAIN e[c] = PeerFields
    BY DEF PeerTypes
  <2> HIDE DEF u
  <2> QED BY <2>1, ClientSets
<1> HIDE DEF r
<1>3. \A c \in Channels : PollAccept(e)[c] = r(c)
    BY <1>1
<1>4. DOMAIN PollAccept(e) = Channels
    BY <1>1
<1> QED BY <1>2, <1>3, <1>4 DEF PeerTypes

\* poll_read hands over what they have sent
LEMMA PollReadTypes ==
    ASSUME PeerTypes(peer)
    PROVE  PollRead.q \in Seq(PortBytes) /\ PeerTypes(PollRead.p)
<1> DEFINE u(c) == ~(peer[c].input = <<>> /\ peer[c].over)
           v(c) == peer[c].over /\ peer[c].input # <<>>
           t(c) == [peer[c] EXCEPT !.input = <<>>, !.up = u(c), !.over = v(c)]
           r(c) == IF ~peer[c].up THEN peer[c] ELSE t(c)
           P == [c \in Channels |-> r(c)]
           Q == Input("cmd") \o Input("con")
<1>1. PollRead = [q |-> Q, p |-> P]
    BY Zenon DEF PollRead
<1>2. ASSUME NEW c \in Channels
      PROVE  Input(c) \in Seq(PortBytes)
  <2>1. peer[c].input \in Seq(PortBytes)
    BY DEF PeerTypes
  <2> QED BY <2>1, EmptySeq DEF Input
<1>3. Q \in Seq(PortBytes)
  <2>1. Input("cmd") \in Seq(PortBytes) /\ Input("con") \in Seq(PortBytes)
    BY <1>2 DEF Channels
  <2> QED BY <2>1, ConcatProperties
<1>4. ASSUME NEW c \in Channels
      PROVE  DOMAIN r(c) = PeerFields /\ r(c).input \in Seq(PortBytes)
  <2>1. DOMAIN peer[c] = PeerFields /\ peer[c].input \in Seq(PortBytes)
    BY DEF PeerTypes
  <2>2. DOMAIN t(c) = PeerFields /\ t(c).input = <<>>
    <3> HIDE DEF u, v
    <3> QED BY <2>1, ClientSets
  <2> HIDE DEF t
  <2> QED BY <2>1, <2>2, EmptySeq
<1>5. PeerTypes(P)
  <2> HIDE DEF r
  <2> QED BY <1>4 DEF PeerTypes
<1> HIDE DEF P, Q
<1>6. PollRead.q = Q /\ PollRead.p = P
    BY <1>1
<1> QED BY <1>3, <1>5, <1>6

\* received adds to a line or hands it over
LEMMA ReceivedTypes ==
    ASSUME NEW e, PeerTypes(e), NEW b
    PROVE  PeerTypes(Received(e, b))
<1> DEFINE c == b[1]
           line == Append(e[c].buf, b[2])
           full == b[2] = "nl" \/ Len(line) >= PPORTSIMBUFLEN - 2
           lines == IF e[c].up THEN Append(e[c].lines, line) ELSE e[c].lines
           up == e[c].up /\ ~e[c].over
           A == [e EXCEPT ![c].buf = line]
           B == [e EXCEPT ![c].buf = <<>>, ![c].lines = lines, ![c].up = up]
<1>1. Received(e, b) = IF ~full THEN A ELSE B
    BY Zenon DEF Received
<1> HIDE DEF full, line, lines, up, c
<1>2. PeerTypes(A)
    BY DEF PeerTypes, PeerFields
<1>3. PeerTypes(B)
    BY DEF PeerTypes, PeerFields
<1> QED BY <1>1, <1>2, <1>3

\* A step of the simulator that gives and takes no byte
LEMMA SimHolds ==
    ASSUME NEW p, NEW f, PortInv(p, pins, f), HostPins(host, pins, p), Crosses(p, pins, f, host),
           host.kind = "sim", host'.kind = "sim", host'.pc = "idle", host'.delay \in Nat,
           host'.sent = host.sent, host'.got = host.got,
           pins' \in [clk : {0, 1}, dir : {0, 1}, data : Bytes],
           pins'.clk # pins.clk => p.fb = pins.clk,
           pins'.dir = TO_FPGA => pins'.data = host'.hi /\ host'.hi \in PortBytes,
           pins.clk = 1 /\ p.fb = 0 => pins'.dir = pins.dir,
           pins'.clk = 1 /\ p.fb = 1 => pins'.dir = pins.dir,
           InFlight(p, pins) => pins'.data = pins.data,
           InFlight(p, pins) <=> InFlight(p, pins'), Outward(p, pins') = Outward(p, pins)
    PROVE  PortInv(p, pins', f) /\ HostPins(host', pins', p) /\ Crosses(p, pins', f, host')
<1>1. SimPins(host, pins) /\ Strobes(host, pins, p)
    BY DEF HostPins
<1>2. p.fb \in {0, 1} /\ pins.clk \in {0, 1} /\ pins'.clk \in {0, 1}
    BY DEF PortInv, PortTypes
<1>3. PortInv(p, pins', f)
    BY PinsMove
<1>4. SimPins(host', pins')
    BY DEF SimPins
<1>5. Strobes(host', pins', p)
  <2> SUFFICES ASSUME pins'.clk = 1, p.fb = 1 PROVE p.dir = pins'.dir
    BY DEF Strobes
  <2>1. pins.clk = 1
    BY <1>2
  <2> QED BY <1>1, <2>1 DEF Strobes, SimPins
<1>6. Inward(p, pins') = Inward(p, pins)
    BY SameInward
<1>7. Sending(host') = Sending(host)
    BY <1>1 DEF Sending, IfSo, SimPins
<1>8. Crosses(p, pins', f, host')
    BY <1>6, <1>7 DEF Crosses
<1> QED BY <1>3, <1>4, <1>5, <1>8 DEF HostPins

\* What the simulator has to send, and the pins as it leaves them
Held(p) == [pins EXCEPT !.data = IF pins.dir = TO_FPGA THEN host.hi ELSE p.out]
Queue == IF host.out = <<>> THEN PollRead ELSE [q |-> host.out, p |-> peer]

LEMMA SimIs ==
    ASSUME NEW p, NEW f, PortInv(p, pins, f), HostTypes(host), PeerTypes(peer), HostPins(host, pins, p),
           host.kind = "sim"
    PROVE  /\ pins \in [clk : {0, 1}, dir : {0, 1}, data : Bytes] /\ p.fb \in {0, 1} /\ p.out \in Bytes
           /\ host.pc = "idle" /\ host.delay \in Nat /\ PP_DELAY \in Nat
           /\ pins.dir = TO_FPGA => pins.data = host.hi /\ host.hi \in PortBytes
           /\ pins.clk = 1 /\ p.fb = 1 => p.dir = pins.dir
           /\ Held(p) \in [clk : {0, 1}, dir : {0, 1}, data : Bytes]
           /\ Held(p).clk = pins.clk /\ Held(p).dir = pins.dir
           /\ pins.dir = TO_FPGA => Held(p).data = pins.data
           /\ Queue.q \in Seq(PortBytes) /\ PeerTypes(Queue.p)
<1>1. pins \in [clk : {0, 1}, dir : {0, 1}, data : Bytes] /\ p.fb \in {0, 1} /\ p.out \in Bytes
    BY DEF PortInv, PortTypes
<1>2. /\ host.pc = "idle" /\ host.delay \in Nat /\ PP_DELAY \in Nat
      /\ pins.dir = TO_FPGA => pins.data = host.hi /\ host.hi \in PortBytes
      /\ pins.clk = 1 /\ p.fb = 1 => p.dir = pins.dir
  <2>1. SimPins(host, pins) /\ Strobes(host, pins, p)
    BY DEF HostPins
  <2> QED BY <2>1, PPortAssumption DEF SimPins, Strobes
<1>3. (IF pins.dir = TO_FPGA THEN host.hi ELSE p.out) \in Bytes
    BY <1>1, <1>2, PortConstants
<1>4. /\ Held(p) \in [clk : {0, 1}, dir : {0, 1}, data : Bytes]
      /\ Held(p).clk = pins.clk /\ Held(p).dir = pins.dir
      /\ pins.dir = TO_FPGA => Held(p).data = pins.data
    BY <1>1, <1>2, <1>3 DEF Held
<1>5. Queue.q \in Seq(PortBytes) /\ PeerTypes(Queue.p)
  <2>1. CASE host.out = <<>>
    <3>1. Queue = PollRead
      BY <2>1 DEF Queue
    <3> QED BY <3>1, PollReadTypes
  <2>2. CASE host.out # <<>>
    <3>1. Queue.q = host.out /\ Queue.p = peer
      BY <2>2 DEF Queue
    <3> QED BY <3>1 DEF HostTypes
  <2> QED BY <2>1, <2>2
<1> QED BY <1>1, <1>2, <1>4, <1>5

\* The ways of a call
LEMMA SimWays ==
    ASSUME NEW p, SimCall(p.out, p.fb), host.delay \in Nat, pins.clk \in {0, 1}
    PROVE  \/ pins' = Held(p) /\ peer' = peer /\ host.delay > 0 /\ host' = [host EXCEPT !.delay = @ - 1]
           \/ pins' = Held(p) /\ peer' = peer /\ host' = Wait(host)
              /\ ~(pins.clk = p.fb /\ pins.clk = 1)
           \/ /\ pins.clk = 1 /\ p.fb = 1 /\ pins' = [Held(p) EXCEPT !.clk = 0]
              /\ pins.dir = FROM_FPGA /\ p.out # NoByte
              /\ peer' = Received(peer, p.out) /\ host' = Wait([host EXCEPT !.got = Append(@, p.out)])
           \/ /\ pins.clk = 1 /\ p.fb = 1 /\ pins' = [Held(p) EXCEPT !.clk = 0]
              /\ ~(pins.dir = FROM_FPGA /\ p.out # NoByte) /\ peer' = peer /\ host' = Wait(host)
           \/ /\ pins.clk = 0 /\ p.fb = 0 /\ Queue.q # <<>>
              /\ pins' = [clk |-> 1, dir |-> TO_FPGA, data |-> Head(Queue.q)] /\ peer' = Queue.p
              /\ host' = Wait([host EXCEPT !.hi = Head(Queue.q), !.out = Tail(Queue.q),
                                           !.sent = Append(@, Head(Queue.q))])
           \/ /\ pins.clk = 0 /\ p.fb = 0 /\ pins' = [clk |-> 1, dir |-> FROM_FPGA, data |-> p.out]
              /\ peer' \in {PollAccept(Queue.p), PollAccept(peer)} /\ host' = Wait(host)
<1> DEFINE taken == pins' = [Held(p) EXCEPT !.clk = 0] /\
                    IF pins.dir = FROM_FPGA /\ p.out # NoByte
                    THEN peer' = Received(peer, p.out) /\ host' = Wait([host EXCEPT !.got = Append(@, p.out)])
                    ELSE peer' = peer /\ host' = Wait(host)
           given == /\ pins' = [clk |-> 1, dir |-> TO_FPGA, data |-> Head(Queue.q)] /\ peer' = Queue.p
                    /\ host' = Wait([host EXCEPT !.hi = Head(Queue.q), !.out = Tail(Queue.q),
                                                 !.sent = Append(@, Head(Queue.q))])
           asked == /\ pins' = [clk |-> 1, dir |-> FROM_FPGA, data |-> p.out]
                    /\ peer' = PollAccept(IF pins.dir # TO_FPGA THEN Queue.p ELSE peer) /\ host' = Wait(host)
           later == pins' = Held(p) /\ peer' = peer /\ host' = [host EXCEPT !.delay = @ - 1]
           again == pins' = Held(p) /\ peer' = peer /\ host' = Wait(host)
           turn == pins.dir # TO_FPGA
           some == Queue.q # <<>>
           same == pins.clk = p.fb
<1>1. (CASE host.delay > 0 -> later
         [] host.delay = 0 /\ ~same -> again
         [] host.delay = 0 /\ same /\ pins.clk = 1 -> taken
         [] host.delay = 0 /\ same /\ pins.clk = 0 /\ turn /\ some -> given
         [] OTHER -> asked)
    BY DEF SimCall, Held, Queue
<1>2. \/ host.delay > 0 /\ later
      \/ ~same /\ again
      \/ same /\ pins.clk = 1 /\ taken
      \/ same /\ pins.clk = 0 /\ some /\ given
      \/ same /\ pins.clk = 0 /\ asked
  <2> HIDE DEF later, again, taken, given, asked, turn, some, same
  <2> QED BY <1>1
<1>3. asked => peer' \in {PollAccept(Queue.p), PollAccept(peer)}
    OBVIOUS
<1> QED BY <1>2, <1>3

\* The host's record, when only its delay changes
LEMMA HostWaits ==
    ASSUME HostTypes(host), NEW d, host' = [host EXCEPT !.delay = d]
    PROVE  /\ HostTypes(host') /\ host'.delay = d
           /\ host'.kind = host.kind /\ host'.pc = host.pc /\ host'.out = host.out /\ host'.sent = host.sent
           /\ host'.got = host.got /\ host'.hi = host.hi
<1>1. /\ DOMAIN host = HostFields /\ host = [x \in HostFields |-> host[x]]
      /\ host.kind \in {"off", "net", "sim"} /\ host.pc \in LowAt \cup HighAt
      /\ host.out \in Seq(PortBytes) /\ host.sent \in Seq(PortBytes) /\ host.got \in Seq(Bytes)
    BY DEF HostTypes
<1>2. DOMAIN host' = HostFields /\ host' = [x \in HostFields |-> host'[x]]
    BY <1>1
<1>3. /\ host'.delay = d
      /\ host'.kind = host.kind /\ host'.pc = host.pc /\ host'.out = host.out /\ host'.sent = host.sent
      /\ host'.got = host.got /\ host'.hi = host.hi
    BY <1>1 DEF HostFields
<1> QED BY <1>1, <1>2, <1>3 DEF HostTypes

\* The calls in which the simulator waits, or lowers its clock with no byte, or raises it to read
LEMMA SimWaits ==
    ASSUME NEW p, NEW f, PortInv(p, pins, f), HostTypes(host), PeerTypes(peer), HostPins(host, pins, p),
           Crosses(p, pins, f, host), host.kind = "sim", NEW d \in Nat, host' = [host EXCEPT !.delay = d],
           PeerTypes(peer'),
           \/ pins' = Held(p)
           \/ /\ pins.clk = 1 /\ p.fb = 1 /\ pins' = [Held(p) EXCEPT !.clk = 0]
              /\ ~(pins.dir = FROM_FPGA /\ p.out # NoByte)
           \/ pins.clk = 0 /\ p.fb = 0 /\ pins' = [clk |-> 1, dir |-> FROM_FPGA, data |-> p.out]
    PROVE  /\ PortInv(p, pins', f) /\ HostTypes(host') /\ PeerTypes(peer')
           /\ HostPins(host', pins', p) /\ Crosses(p, pins', f, host')
<1> USE DEF TO_FPGA, FROM_FPGA
<1>1. /\ pins \in [clk : {0, 1}, dir : {0, 1}, data : Bytes] /\ p.fb \in {0, 1} /\ p.out \in Bytes
      /\ host.pc = "idle"
      /\ pins.dir = TO_FPGA => pins.data = host.hi /\ host.hi \in PortBytes
      /\ pins.clk = 1 /\ p.fb = 1 => p.dir = pins.dir
      /\ Held(p) \in [clk : {0, 1}, dir : {0, 1}, data : Bytes]
      /\ Held(p).clk = pins.clk /\ Held(p).dir = pins.dir
      /\ pins.dir = TO_FPGA => Held(p).data = pins.data
    BY SimIs
<1>2. /\ HostTypes(host') /\ host'.delay = d
      /\ host'.kind = "sim" /\ host'.pc = "idle" /\ host'.sent = host.sent
      /\ host'.got = host.got /\ host'.hi = host.hi
    BY <1>1, HostWaits
<1>3. Strobed(p)
    BY DEF PortInv
<1>4. CASE pins' = Held(p)
  <2>1. InFlight(p, pins) <=> InFlight(p, pins')
    BY <1>1, <1>4 DEF InFlight
  <2>2. Outward(p, pins') = Outward(p, pins)
    BY <1>1, <1>4, SameOutward DEF Showing
  <2>3. InFlight(p, pins) => pins'.data = pins.data
    BY <1>1, <1>4 DEF InFlight
  <2> QED BY <1>1, <1>2, <1>4, <2>1, <2>2, <2>3, SimHolds
<1>5. CASE /\ pins.clk = 1 /\ p.fb = 1 /\ pins' = [Held(p) EXCEPT !.clk = 0]
           /\ ~(pins.dir = FROM_FPGA /\ p.out # NoByte)
  <2>1. /\ pins' \in [clk : {0, 1}, dir : {0, 1}, data : Bytes] /\ pins'.clk = 0 /\ pins'.dir = pins.dir
        /\ pins'.data = Held(p).data
    BY <1>1, <1>5
  <2>2. ~InFlight(p, pins) /\ ~InFlight(p, pins')
    BY <1>5, <2>1 DEF InFlight
  <2>3. Outward(p, pins') = Outward(p, pins)
    <3>1. CASE pins.dir = 1
      <4>1. ~Showing(p, pins) /\ ~Showing(p, pins')
        BY <1>1, <1>5, <2>1, <3>1 DEF Showing
      <4> QED BY <4>1, SameOutward
    <3>2. CASE pins.dir = 0
      <4>1. Showing(p, pins) /\ ~Showing(p, pins') /\ p.out = NoByte
        BY <1>1, <1>5, <2>1, <3>2 DEF Showing
      <4>2. ~(p.loaded /\ ~(p.stb /\ p.dir = FROM_FPGA))
        BY <1>3, <4>1 DEF Strobed, Showing
      <4>3. Outward(p, pins) = <<>>
        BY <4>1 DEF Outward, IfSo
      <4>4. Outward(p, pins') = <<>>
        BY <4>1, <4>2 DEF Outward, IfSo
      <4> QED BY <4>3, <4>4
    <3> QED BY <1>1, <3>1, <3>2
  <2> QED BY <1>1, <1>2, <1>5, <2>1, <2>2, <2>3, SimHolds
<1>6. CASE pins.clk = 0 /\ p.fb = 0 /\ pins' = [clk |-> 1, dir |-> FROM_FPGA, data |-> p.out]
  <2>1. pins' \in [clk : {0, 1}, dir : {0, 1}, data : Bytes] /\ pins'.clk = 1 /\ pins'.dir = 0
    BY <1>1, <1>6
  <2>2. ~InFlight(p, pins) /\ ~InFlight(p, pins') /\ ~Showing(p, pins) /\ ~Showing(p, pins')
    BY <1>6, <2>1 DEF InFlight, Showing
  <2>3. Outward(p, pins') = Outward(p, pins)
    BY <2>2, SameOutward
  <2> QED BY <1>1, <1>2, <1>6, <2>1, <2>2, <2>3, SimHolds
<1> QED BY <1>4, <1>5, <1>6

\* The simulator takes the byte that shows
LEMMA SimTakes ==
    ASSUME NEW p, NEW f, PortInv(p, pins, f), HostTypes(host), PeerTypes(peer), HostPins(host, pins, p),
           Crosses(p, pins, f, host), host.kind = "sim", PeerTypes(peer'),
           host' = Wait([host EXCEPT !.got = Append(@, p.out)]),
           pins.clk = 1, p.fb = 1, pins' = [Held(p) EXCEPT !.clk = 0], pins.dir = FROM_FPGA, p.out # NoByte
    PROVE  /\ PortInv(p, pins', f) /\ HostTypes(host') /\ PeerTypes(peer')
           /\ HostPins(host', pins', p) /\ Crosses(p, pins', f, host')
<1> USE DEF TO_FPGA, FROM_FPGA
<1>1. /\ pins \in [clk : {0, 1}, dir : {0, 1}, data : Bytes] /\ p.fb \in {0, 1} /\ p.out \in Bytes
      /\ host.pc = "idle" /\ PP_DELAY \in Nat
      /\ pins.clk = 1 /\ p.fb = 1 => p.dir = pins.dir
      /\ Held(p) \in [clk : {0, 1}, dir : {0, 1}, data : Bytes]
      /\ Held(p).clk = pins.clk /\ Held(p).dir = pins.dir
    BY SimIs
<1>2. /\ pins' \in [clk : {0, 1}, dir : {0, 1}, data : Bytes] /\ pins'.clk = 0 /\ pins'.dir = 0
    BY <1>1
<1>3. /\ DOMAIN host = HostFields /\ host = [x \in HostFields |-> host[x]]
      /\ host.out \in Seq(PortBytes) /\ host.sent \in Seq(PortBytes) /\ host.got \in Seq(Bytes)
    BY DEF HostTypes
<1> DEFINE got == Append(host.got, p.out)
<1>4. host' = [host EXCEPT !.got = got, !.delay = PP_DELAY]
    BY DEF Wait
<1>5. got \in Seq(Bytes) /\ got = host.got \o <<p.out>>
    BY <1>1, <1>3, AppendProperties, AppendIsConcat
<1> HIDE DEF got
<1>6. /\ DOMAIN host' = HostFields /\ host' = [x \in HostFields |-> host'[x]]
      /\ host'.kind = "sim" /\ host'.pc = "idle" /\ host'.out = host.out /\ host'.sent = host.sent
      /\ host'.got = got /\ host'.delay = PP_DELAY
    BY <1>1, <1>3, <1>4 DEF HostFields
<1>7. HostTypes(host')
    BY <1>3, <1>5, <1>6 DEF HostTypes, LowAt
<1>8. PortInv(p, pins', f)
    BY <1>1, <1>2, PinsMove
<1>9. HostPins(host', pins', p)
    BY <1>1, <1>2, <1>6 DEF HostPins, SimPins, Strobes
<1>10. Inward(p, pins') = Inward(p, pins)
    BY <1>2, SameInward DEF InFlight
<1>11. Sending(host') = Sending(host)
    BY <1>1, <1>6 DEF Sending, IfSo
<1>12. Outward(p, pins) = <<p.out>>
    BY <1>1 DEF Outward, Showing, IfSo
<1>13. Outward(p, pins') = <<>>
  <2>1. ~Showing(p, pins')
    BY <1>2 DEF Showing
  <2>2. ~(p.loaded /\ ~(p.stb /\ p.dir = FROM_FPGA))
    BY <1>1 DEF PortInv, Strobed
  <2> QED BY <2>1, <2>2 DEF Outward, IfSo
<1>14. f.sent = host'.got \o Outward(p, pins')
  <2>1. f.sent = got
    BY <1>5, <1>12 DEF Crosses
  <2> QED BY <1>5, <1>6, <1>13, <2>1, ConcatEmptySeq
<1>15. Crosses(p, pins', f, host')
    BY <1>6, <1>10, <1>11, <1>14 DEF Crosses
<1> QED BY <1>7, <1>8, <1>9, <1>15

\* It gives the first byte of its queue to the pins
LEMMA SimGives ==
    ASSUME NEW p, NEW f, PortInv(p, pins, f), HostTypes(host), PeerTypes(peer), HostPins(host, pins, p),
           Crosses(p, pins, f, host), host.kind = "sim", pins.clk = 0, p.fb = 0, Queue.q # <<>>,
           pins' = [clk |-> 1, dir |-> TO_FPGA, data |-> Head(Queue.q)], peer' = Queue.p,
           host' = Wait([host EXCEPT !.hi = Head(Queue.q), !.out = Tail(Queue.q),
                                     !.sent = Append(@, Head(Queue.q))])
    PROVE  /\ PortInv(p, pins', f) /\ HostTypes(host') /\ PeerTypes(peer')
           /\ HostPins(host', pins', p) /\ Crosses(p, pins', f, host')
<1> USE DEF TO_FPGA, FROM_FPGA
<1>1. /\ pins \in [clk : {0, 1}, dir : {0, 1}, data : Bytes]
      /\ host.pc = "idle" /\ PP_DELAY \in Nat /\ Queue.q \in Seq(PortBytes) /\ PeerTypes(Queue.p)
    BY SimIs
<1> DEFINE b == Head(Queue.q)
           rest == Tail(Queue.q)
           sent == Append(host.sent, b)
<1>2. /\ DOMAIN host = HostFields /\ host = [x \in HostFields |-> host[x]]
      /\ host.sent \in Seq(PortBytes) /\ host.sent \in Seq(Bytes) /\ host.got \in Seq(Bytes)
    BY PortBytesAre DEF HostTypes
<1>3. b \in PortBytes /\ b \in Bytes /\ rest \in Seq(PortBytes)
    BY <1>1, PortBytesAre
<1>4. sent \in Seq(PortBytes) /\ sent = host.sent \o <<b>>
  <2> HIDE DEF b
  <2> QED BY <1>2, <1>3, AppendProperties, AppendIsConcat
<1>5. host' = [host EXCEPT !.hi = b, !.out = rest, !.sent = sent, !.delay = PP_DELAY]
    BY DEF Wait
<1>6. pins' = [clk |-> 1, dir |-> 1, data |-> b]
    OBVIOUS
<1> HIDE DEF b, rest, sent
<1>7. /\ DOMAIN host' = HostFields /\ host' = [x \in HostFields |-> host'[x]]
      /\ host'.kind = "sim" /\ host'.pc = "idle" /\ host'.out = rest /\ host'.sent = sent
      /\ host'.got = host.got /\ host'.hi = b /\ host'.delay = PP_DELAY
    BY <1>1, <1>2, <1>5 DEF HostFields
<1>8. HostTypes(host')
    BY <1>2, <1>3, <1>4, <1>7 DEF HostTypes, LowAt
<1>9. pins' \in [clk : {0, 1}, dir : {0, 1}, data : Bytes] /\ pins'.clk = 1 /\ pins'.dir = 1 /\ pins'.data = b
    BY <1>3, <1>6
<1>10. PortInv(p, pins', f)
    BY <1>1, <1>9, PinsMove
<1>11. HostPins(host', pins', p)
    BY <1>1, <1>3, <1>7, <1>9 DEF HostPins, SimPins, Strobes
<1>12. ~InFlight(p, pins) /\ InFlight(p, pins')
    BY <1>9 DEF InFlight
<1>13. f.got \o Inward(p, pins) = host.sent
  <2>1. Sending(host) = <<>>
    BY <1>1 DEF Sending, IfSo
  <2> QED BY <1>2, <2>1, ConcatEmptySeq DEF Crosses
<1>14. f.got \o Inward(p, pins') = host'.sent \o Sending(host')
  <2>1. f.got \o Inward(p, pins) \in Seq(Bytes)
    BY <1>2, <1>13
  <2>2. pins'.data \in Bytes
    BY <1>3, <1>9
  <2>3. f.got \o Inward(p, pins') = (f.got \o Inward(p, pins)) \o <<pins'.data>>
    <3>1. PortInv(p, pins, f) /\ pins'.data \in Bytes /\ ~InFlight(p, pins) /\ InFlight(p, pins')
      BY <1>12, <2>2
    <3>2. ASSUME NEW k, k.data \in Bytes, InFlight(p, k)
          PROVE  f.got \o Inward(p, k) = (f.got \o Inward(p, pins)) \o <<k.data>>
      BY <2>1, <3>1, <3>2, InwardMore
    <3> QED BY <3>1, <3>2
  <2>4. f.got \o Inward(p, pins') = sent
    BY <1>4, <1>9, <1>13, <2>3
  <2>5. Sending(host') = <<>>
    BY <1>7 DEF Sending, IfSo
  <2>6. sent \o <<>> = sent
    BY <1>4, ConcatEmptySeq
  <2> QED BY <1>7, <2>4, <2>5, <2>6
<1>15. Outward(p, pins') = Outward(p, pins)
    BY SameOutward DEF Showing
<1>16. Crosses(p, pins', f, host')
    BY <1>7, <1>14, <1>15 DEF Crosses
<1> QED BY <1>1, <1>8, <1>10, <1>11, <1>16

LEMMA SimKept ==
    ASSUME NEW p, NEW f, PortInv(p, pins, f), HostTypes(host), PeerTypes(peer), HostPins(host, pins, p),
           Crosses(p, pins, f, host), host.kind = "sim", SimCall(p.out, p.fb)
    PROVE  /\ PortInv(p, pins', f) /\ HostTypes(host') /\ PeerTypes(peer')
           /\ HostPins(host', pins', p) /\ Crosses(p, pins', f, host')
<1>1. host.delay \in Nat /\ PP_DELAY \in Nat /\ pins.clk \in {0, 1} /\ PeerTypes(Queue.p)
    BY SimIs
<1>2. \/ pins' = Held(p) /\ peer' = peer /\ host.delay > 0 /\ host' = [host EXCEPT !.delay = @ - 1]
      \/ pins' = Held(p) /\ peer' = peer /\ host' = Wait(host)
         /\ ~(pins.clk = p.fb /\ pins.clk = 1)
      \/ /\ pins.clk = 1 /\ p.fb = 1 /\ pins' = [Held(p) EXCEPT !.clk = 0]
         /\ pins.dir = FROM_FPGA /\ p.out # NoByte
         /\ peer' = Received(peer, p.out) /\ host' = Wait([host EXCEPT !.got = Append(@, p.out)])
      \/ /\ pins.clk = 1 /\ p.fb = 1 /\ pins' = [Held(p) EXCEPT !.clk = 0]
         /\ ~(pins.dir = FROM_FPGA /\ p.out # NoByte) /\ peer' = peer /\ host' = Wait(host)
      \/ /\ pins.clk = 0 /\ p.fb = 0 /\ Queue.q # <<>>
         /\ pins' = [clk |-> 1, dir |-> TO_FPGA, data |-> Head(Queue.q)] /\ peer' = Queue.p
         /\ host' = Wait([host EXCEPT !.hi = Head(Queue.q), !.out = Tail(Queue.q),
                                      !.sent = Append(@, Head(Queue.q))])
      \/ /\ pins.clk = 0 /\ p.fb = 0 /\ pins' = [clk |-> 1, dir |-> FROM_FPGA, data |-> p.out]
         /\ peer' \in {PollAccept(Queue.p), PollAccept(peer)} /\ host' = Wait(host)
    BY <1>1, SimWays
<1>3. Wait(host) = [host EXCEPT !.delay = PP_DELAY]
    BY DEF Wait
<1>4. CASE pins' = Held(p) /\ peer' = peer /\ host.delay > 0 /\ host' = [host EXCEPT !.delay = @ - 1]
  <2>1. host.delay - 1 \in Nat
    BY <1>1, <1>4
  <2> QED BY <1>4, <2>1, SimWaits
<1>5. CASE pins' = Held(p) /\ peer' = peer /\ host' = Wait(host)
    BY <1>1, <1>3, <1>5, SimWaits
<1>6. CASE /\ pins.clk = 1 /\ p.fb = 1 /\ pins' = [Held(p) EXCEPT !.clk = 0]
           /\ pins.dir = FROM_FPGA /\ p.out # NoByte
           /\ peer' = Received(peer, p.out) /\ host' = Wait([host EXCEPT !.got = Append(@, p.out)])
  <2>1. PeerTypes(peer')
    BY <1>6, ReceivedTypes
  <2> QED BY <1>6, <2>1, SimTakes
<1>7. CASE /\ pins.clk = 1 /\ p.fb = 1 /\ pins' = [Held(p) EXCEPT !.clk = 0]
           /\ ~(pins.dir = FROM_FPGA /\ p.out # NoByte) /\ peer' = peer /\ host' = Wait(host)
    BY <1>1, <1>3, <1>7, SimWaits
<1>8. CASE /\ pins.clk = 0 /\ p.fb = 0 /\ Queue.q # <<>>
           /\ pins' = [clk |-> 1, dir |-> TO_FPGA, data |-> Head(Queue.q)] /\ peer' = Queue.p
           /\ host' = Wait([host EXCEPT !.hi = Head(Queue.q), !.out = Tail(Queue.q),
                                        !.sent = Append(@, Head(Queue.q))])
    BY <1>8, SimGives
<1>9. CASE /\ pins.clk = 0 /\ p.fb = 0 /\ pins' = [clk |-> 1, dir |-> FROM_FPGA, data |-> p.out]
           /\ peer' \in {PollAccept(Queue.p), PollAccept(peer)} /\ host' = Wait(host)
  <2>1. PeerTypes(peer')
    BY <1>1, <1>9, PollAcceptTypes
  <2> QED BY <1>1, <1>3, <1>9, <2>1, SimWaits
<1> QED BY <1>2, <1>4, <1>5, <1>6, <1>7, <1>8, <1>9

\* An edge and the simulator's call after it
LEMMA SimClockKept ==
    ASSUME PortsInv, SimClock
    PROVE  PortsInv'
<1>1. FpgaEdge /\ host.kind = "sim" /\ SimCall(pp'.out, pp'.fb)
    BY DEF SimClock
<1>2. PortInv(pp', pins, fpga') /\ HostPins(host, pins, pp') /\ Crosses(pp', pins, fpga', host)
    BY <1>1, EdgeKept
<1>3. HostTypes(host) /\ PeerTypes(peer)
    BY DEF PortsInv
<1>4. /\ PortInv(pp', pins', fpga') /\ HostTypes(host') /\ PeerTypes(peer')
      /\ HostPins(host', pins', pp') /\ Crosses(pp', pins', fpga', host')
    BY <1>1, <1>2, <1>3, SimKept
<1> QED BY <1>4 DEF PortsInv

\* The clients do nothing to the pins
LEMMA ClientKept ==
    ASSUME PortsInv, NEW c \in Channels, Client(c)
    PROVE  PortsInv'
<1>1. UNCHANGED <<pp, pins, fpga, host>>
    BY DEF Client
<1>2. PeerTypes(peer)
    BY DEF PortsInv
<1>3. \/ peer' = [peer EXCEPT ![c].waiting = TRUE]
      \/ \E b \in PortBytes : peer' = [peer EXCEPT ![c].input = Append(@, b)]
      \/ peer' = [peer EXCEPT ![c].over = TRUE]
    BY DEF Client
<1>4. ASSUME NEW b \in PortBytes, peer' = [peer EXCEPT ![c].input = Append(@, b)]
      PROVE  PeerTypes(peer')
  <2> DEFINE input == Append(peer[c].input, b)
  <2>1. input \in Seq(PortBytes)
    BY <1>2, AppendProperties DEF PeerTypes
  <2>2. peer' = [peer EXCEPT ![c].input = input]
    BY <1>4
  <2> HIDE DEF input
  <2> QED BY <1>2, <2>1, <2>2 DEF PeerTypes, PeerFields
<1>5. PeerTypes(peer')
  <2>1. CASE peer' = [peer EXCEPT ![c].waiting = TRUE]
    BY <1>2, <2>1 DEF PeerTypes, PeerFields
  <2>2. CASE peer' = [peer EXCEPT ![c].over = TRUE]
    BY <1>2, <2>2 DEF PeerTypes, PeerFields
  <2> QED BY <1>3, <1>4, <2>1, <2>2
<1> QED BY <1>1, <1>5 DEF PortsInv

\* Which host it is
LEMMA PowerKept ==
    ASSUME PortsInv, Power
    PROVE  PortsInv'
<1>1. host.kind = "off" /\ UNCHANGED <<pp, pins, fpga, peer>>
    BY DEF Power
<1>2. /\ PortInv(pp, pins, fpga) /\ HostTypes(host) /\ PeerTypes(peer) /\ HostPins(host, pins, pp)
      /\ Crosses(pp, pins, fpga, host)
    BY DEF PortsInv
<1>3. PICK k \in {"net", "sim"} :
        host' = [host EXCEPT !.kind = k, !.delay = IF k = "sim" THEN PP_DELAY ELSE 0]
    BY DEF Power
<1> DEFINE d == IF k = "sim" THEN PP_DELAY ELSE 0
<1>4. d \in Nat /\ host' = [host EXCEPT !.kind = k, !.delay = d]
    BY <1>3, PPortAssumption
<1> HIDE DEF d
<1>5. /\ host'.kind = k /\ host'.delay = d /\ host'.pc = host.pc /\ host'.out = host.out
      /\ host'.sent = host.sent /\ host'.got = host.got /\ host'.hi = host.hi
      /\ DOMAIN host' = HostFields /\ host' = [x \in HostFields |-> host'[x]]
  <2>1. DOMAIN host = HostFields /\ host = [x \in HostFields |-> host[x]]
    BY <1>2 DEF HostTypes
  <2> QED BY <1>4, <2>1 DEF HostFields
<1>6. HostTypes(host')
    BY <1>2, <1>5 DEF HostTypes
<1>7. NetPins(host, pins, pp) /\ SimPins(host, pins) /\ Strobes(host, pins, pp)
    BY <1>1, <1>2 DEF HostPins
<1>8. NetPins(host', pins, pp)
    BY <1>5, <1>7 DEF NetPins
<1>9. SimPins(host', pins)
    BY <1>4, <1>5, <1>7 DEF SimPins
<1>10. Strobes(host', pins, pp)
    BY <1>5, <1>7 DEF Strobes
<1>11. Sending(host') = Sending(host)
    BY <1>5 DEF Sending
<1>12. Crosses(pp, pins, fpga, host')
    BY <1>2, <1>5, <1>11 DEF Crosses
<1> QED BY <1>1, <1>2, <1>6, <1>8, <1>9, <1>10, <1>12 DEF PortsInv, HostPins

LEMMA PortsInvFirst == PPortInit => PortsInv
<1> SUFFICES ASSUME PPortInit PROVE PortsInv
    OBVIOUS
<1> USE DEF TO_FPGA, FROM_FPGA
<1>1. NoByte \in Bytes /\ PP_DELAY \in Nat /\ 1 \in Stages /\ 2 \in Stages /\ 3 \in Stages
    BY PortConstants, PPortAssumption
<1>2. /\ pp = [sh |-> [i \in Stages |-> 0], fb |-> 0, stb |-> FALSE, data |-> NoByte,
               dir |-> 0, ckdir |-> 0, rxstb |-> FALSE, rxdata |-> NoByte,
               loaded |-> FALSE, busy |-> FALSE, out |-> NoByte]
      /\ pins = [clk |-> 0, dir |-> 0, data |-> NoByte]
      /\ fpga = [wr |-> FALSE, wdata |-> NoByte, sent |-> <<>>, got |-> <<>>]
    BY DEF PPortInit, Stages
<1>3. PortTypes(pp, pins, fpga)
  <2>1. <<>> \in Seq(Bytes)
    BY EmptySeq
  <2>2. [i \in Stages |-> 0] \in [Stages -> {0, 1}]
    OBVIOUS
  <2> QED BY <1>1, <1>2, <2>1, <2>2 DEF PortTypes
<1>4. InStages(pp, pins)
    BY <1>2 DEF InStages
<1>5. Rising(pp, pins) /\ Strobed(pp)
    BY <1>2 DEF Rising, Strobed
<1>6. host = [kind |-> "off", pc |-> "idle", left |-> 0, hi |-> "ff", delay |-> 0,
              out |-> <<>>, sent |-> <<>>, got |-> <<>>]
    BY DEF PPortInit
<1>7. HostTypes(host)
  <2>1. <<>> \in Seq(PortBytes) /\ <<>> \in Seq(Bytes)
    BY EmptySeq
  <2> QED BY <1>6, <2>1 DEF HostTypes, HostFields, LowAt
<1>8. PeerTypes(peer)
  <2> DEFINE r == [waiting |-> FALSE, up |-> FALSE, input |-> <<>>, over |-> FALSE,
                   buf |-> <<>>, lines |-> <<>>]
  <2>1. peer = [c \in Channels |-> r]
    BY DEF PPortInit
  <2>2. DOMAIN r = PeerFields /\ r.input = <<>>
    BY DEF PeerFields
  <2> HIDE DEF r
  <2>3. r.input \in Seq(PortBytes)
    BY <2>2, EmptySeq
  <2> QED BY <2>1, <2>2, <2>3 DEF PeerTypes
<1>9. HostPins(host, pins, pp)
    BY <1>2, <1>6 DEF HostPins, NetPins, SimPins, Strobes, HighAt
<1>10. Crosses(pp, pins, fpga, host)
  <2>1. Inward(pp, pins) = <<>> \o (<<>> \o <<>>) /\ Outward(pp, pins) = <<>> /\ Sending(host) = <<>>
    BY <1>2, <1>6 DEF Inward, Outward, Sending, IfSo, InFlight, Showing
  <2>2. <<>> \in Seq(Bytes)
    BY EmptySeq
  <2>3. <<>> \o <<>> = <<>>
    BY <2>2, ConcatEmptySeq
  <2> QED BY <1>2, <1>6, <2>1, <2>3 DEF Crosses
<1> QED BY <1>3, <1>4, <1>5, <1>7, <1>8, <1>9, <1>10 DEF PortsInv, PortInv

LEMMA PortsInvKept == PortsInv /\ [PPortNext]_pportVars => PortsInv'
<1> SUFFICES ASSUME PortsInv, [PPortNext]_pportVars PROVE PortsInv'
    OBVIOUS
<1>1. CASE Power
    BY <1>1, PowerKept
<1>2. CASE NetClock
    BY <1>2, NetClockKept
<1>3. CASE NetXfer \/ NetRead
  <2>1. CASE host.pc \notin {"xferdata", "xfer1", "hi", "lo"}
    BY <1>3, <2>1, NetGoesKept
  <2>2. CASE host.pc \in {"xferdata", "xfer1"}
    <3>1. NetXfer
      BY <1>3, <2>2 DEF NetRead
    <3> QED BY <2>2, <3>1, NetGivesKept
  <2>3. CASE host.pc \in {"hi", "lo"}
    <3>1. NetRead
      BY <1>3, <2>3 DEF NetXfer
    <3> QED BY <2>3, <3>1, NetTakesKept
  <2> QED BY <2>1, <2>2, <2>3
<1>4. CASE SimClock
    BY <1>4, SimClockKept
<1>5. CASE NetCall
    BY <1>5, NetCallKept
<1>6. ASSUME NEW c \in Channels, Client(c)
      PROVE  PortsInv'
    BY <1>6, ClientKept
<1>7. CASE UNCHANGED pportVars
  <2>1. pp' = pp /\ pins' = pins /\ fpga' = fpga /\ host' = host /\ peer' = peer
    BY <1>7 DEF pportVars
  <2> QED BY <2>1 DEF PortsInv
<1> QED BY <1>1, <1>2, <1>3, <1>4, <1>5, <1>6, <1>7 DEF PPortNext, PPortStep

(* pport.v takes each byte that pp_xfer or PPORTSIM clocks out once, and   *)
(* pp_read or PPORTSIM takes each byte the console has handed to pport.v   *)
(* once, whole and in order, whatever the speed of the pins and with any   *)
(* number of stages of the synchronizer from three on.                     *)
THEOREM BytesCrossThePinsOnce == PPortSpec => []EachByteCrossesOnce
<1>1. PPortInit => PortsInv
    BY PortsInvFirst
<1>2. PortsInv /\ [PPortNext]_pportVars => PortsInv'
    BY PortsInvKept
<1>3. PortsInv => EachByteCrossesOnce
    BY PortsInvShows
<1> QED BY <1>1, <1>2, <1>3, PTL DEF PPortSpec
=============================================================================
