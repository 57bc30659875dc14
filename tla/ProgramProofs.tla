--------------------------- MODULE ProgramProofs ---------------------------
(***************************************************************************)
(* Proofs about LockCheck, for any number of tasks, loops and looks: the   *)
(* lock excludes, no task fails, and the verdict comes when all is done.   *)
(* Proofs about UartSim, for any baud rate, stop bits, parity and number   *)
(* of characters: each end hears what the other sent.                      *)
(***************************************************************************)
EXTENDS LockCheck, UartSim, SequenceTheorems, TLAPS

(* The lock is taken only by a task that is inside.                        *)
Owned == atomic = 1 => \E t \in Tasks : Holds(t)

(* From the store to the release the shared word is the task's own.        *)
Mine == \A t \in Tasks : task[t].pc \in {"look", "watch", "count", "release"}
                           => shared = t

NeverFails == \A t \in Tasks : task[t].fail = 0

(* The counts of a task fit the place it has come to.                      *)
Counts == \A t \in Tasks :
            /\ task[t].pc \in {"take", "store", "look", "watch", "count"}
                 => task[t].loops \in 0 .. Loops - 1
            /\ task[t].pc \in {"look", "watch"} => task[t].k \in 0 .. Checks - 1
            /\ task[t].pc = "release" => task[t].loops \in 1 .. Loops
            /\ task[t].pc \in Ending \cup {"takelast", "trap", "trapped"}
                 => task[t].loops = Loops

(* A round has counted as many tasks as it has passed only if all of them  *)
(* were trapped.                                                           *)
Rounds == /\ super.completed <= super.turn
          /\ super.completed = super.turn
               => \A t \in Tasks : t < super.turn => task[t].pc = "trapped"
          /\ super.pc # "run" => \A t \in Tasks : task[t].pc = "trapped"

LockInv == /\ LockTypeOK /\ MutualExclusion
           /\ Owned /\ Mine /\ NeverFails /\ Counts /\ Rounds

(* What is said of the tasks and the lock, without the supervisor.         *)
TasksInv == /\ atomic \in {0, 1}
            /\ shared \in Tasks
            /\ task \in [Tasks -> [pc : Places, k : 0 .. Checks,
                                   loops : -1 .. Loops, fail : {0, 1}]]
            /\ MutualExclusion /\ Owned /\ Mine /\ NeverFails /\ Counts

TrappedStays == \A u \in Tasks : task[u].pc = "trapped" => task'[u].pc = "trapped"

(* The start of main satisfies the invariant.                              *)
LEMMA TasksInit == LockInit => LockInv
BY LockAssumption DEF LockInit, LockInv, LockTypeOK, MutualExclusion, Owned, Mine,
   NeverFails, Counts, Rounds, Holds, Inside, Ending, Places, Tasks

(* No instruction of a task breaks what is said of the tasks.              *)
LEMMA InstructionKeeps ==
    ASSUME TasksInv, NEW t \in Tasks, Instruction(t)
    PROVE  TasksInv' /\ TrappedStays
<1>. DEFINE Result(where, n, count, failed) ==
           /\ task' \in [Tasks -> [pc : Places, k : 0 .. Checks,
                                  loops : -1 .. Loops, fail : {0, 1}]]
           /\ task'[t] = [pc |-> where, k |-> n, loops |-> count, fail |-> failed]
           /\ \A u \in Tasks : u # t => task'[u] = task[u]
<1>. HIDE DEF Result
<1>11. /\ task[t].pc \in Places /\ task[t].k \in 0 .. Checks
       /\ task[t].loops \in -1 .. Loops /\ task[t].fail = 0
       /\ atomic \in {0, 1}
       /\ task[t].pc \in {"look", "watch", "count", "release"} => shared = t
       /\ task[t].pc \in {"take", "store", "look", "watch", "count"}
            => task[t].loops \in 0 .. Loops - 1
       /\ task[t].pc \in {"look", "watch"} => task[t].k \in 0 .. Checks - 1
       /\ Holds(t) => atomic = 1
  BY DEF TasksInv, Mine, NeverFails, Counts, MutualExclusion
<1>1. CASE TestAndSet(t, "take", "store")
  <2>1. CASE atomic = 0
    <3>1. Result("store", task[t].k, task[t].loops, task[t].fail)
      BY LockAssumption, <1>11, <1>1, <2>1
       DEF TestAndSet, Goto, Becomes, Result, TasksInv, Places, Inside, Ending
    <3>2. shared' = shared /\ atomic' = 1 /\ task[t].pc = "take"
      BY <1>1 DEF TestAndSet
    <3>. QED  BY <1>11, <2>1, <3>1, <3>2, LockAssumption
      DEF Result, TasksInv, TrappedStays, MutualExclusion, Owned, Mine,
          NeverFails, Counts, Holds, Inside, Ending, Places
  <2>2. CASE atomic = 1
    BY <1>1, <2>2 DEF TestAndSet, TasksInv, TrappedStays, MutualExclusion,
       Owned, Mine, NeverFails, Counts, Holds
  <2>3. atomic = 0 \/ atomic = 1  BY <1>11
  <2>. QED  BY <2>1, <2>2, <2>3
<1>2. CASE TestAndSet(t, "takelast", "print")
  <2>1. CASE atomic = 0
    <3>1. Result("print", task[t].k, task[t].loops, task[t].fail)
      BY LockAssumption, <1>11, <1>2, <2>1
       DEF TestAndSet, Goto, Becomes, Result, TasksInv, Places, Inside, Ending
    <3>2. shared' = shared /\ atomic' = 1 /\ task[t].pc = "takelast"
      BY <1>2 DEF TestAndSet
    <3>. QED  BY <1>11, <2>1, <3>1, <3>2, LockAssumption
      DEF Result, TasksInv, TrappedStays, MutualExclusion, Owned, Mine,
          NeverFails, Counts, Holds, Inside, Ending, Places
  <2>2. CASE atomic = 1
    BY <1>2, <2>2 DEF TestAndSet, TasksInv, TrappedStays, MutualExclusion,
       Owned, Mine, NeverFails, Counts, Holds
  <2>3. atomic = 0 \/ atomic = 1  BY <1>11
  <2>. QED  BY <2>1, <2>2, <2>3
<1>3. CASE Store(t)
  <2>1. Result("look", 0, task[t].loops, task[t].fail)
    BY LockAssumption, <1>11, <1>3
       DEF Store, Becomes, Result, TasksInv, Places, Inside, Ending
  <2>2. shared' = t /\ atomic' = atomic /\ task[t].pc = "store"
    BY <1>3 DEF Store
  <2>. QED  BY <1>11, <2>1, <2>2, LockAssumption
      DEF Result, TasksInv, TrappedStays, MutualExclusion, Owned, Mine,
          NeverFails, Counts, Holds, Inside, Ending, Places
<1>4. CASE Look(t)
  <2>1. Result("watch", task[t].k, task[t].loops, 0)
    <3>1. task[t].fail = 0 /\ shared = t
      BY LockAssumption, <1>11, <1>4 DEF Look
    <3>2. task' = [task EXCEPT ![t] = [pc |-> "watch",
                                       k |-> task[t].k, loops |-> task[t].loops,
                                       fail |-> 0]]
      BY <3>1, <1>4 DEF Look, Becomes
    <3>. QED  BY LockAssumption, <1>11, <3>1, <3>2
         DEF Result, TasksInv, Places, Inside, Ending
  <2>2. shared' = shared /\ atomic' = atomic /\ task[t].pc = "look"
    BY <1>4 DEF Look
  <2>. QED  BY <1>11, <2>1, <2>2, LockAssumption
      DEF Result, TasksInv, TrappedStays, MutualExclusion, Owned, Mine,
          NeverFails, Counts, Holds, Inside, Ending, Places
<1>5. CASE Watch(t)
  <2>1. Result(IF task[t].k + 1 < Checks THEN "look" ELSE "count",
               task[t].k + 1, task[t].loops, 0)
    <3>1. task[t].fail = 0 /\ atomic = 1 /\ task[t].k + 1 \in 0 .. Checks
      BY LockAssumption, <1>11, <1>5 DEF Watch, Holds, Inside
    <3>2. task' = [task EXCEPT ![t] = [pc |-> IF task[t].k + 1 < Checks
                                              THEN "look" ELSE "count",
                                       k |-> task[t].k + 1, loops |-> task[t].loops,
                                       fail |-> 0]]
      BY <3>1, <1>5 DEF Watch, Becomes
    <3>. QED  BY LockAssumption, <1>11, <3>1, <3>2
         DEF Result, TasksInv, Places, Inside, Ending
  <2>2. shared' = shared /\ atomic' = atomic /\ task[t].pc = "watch"
    BY <1>5 DEF Watch
  <2>. QED  BY <1>11, <2>1, <2>2, LockAssumption
      DEF Result, TasksInv, TrappedStays, MutualExclusion, Owned, Mine,
          NeverFails, Counts, Holds, Inside, Ending, Places
<1>6. CASE Count(t)
  <2>1. Result("release", task[t].k, task[t].loops + 1, task[t].fail)
    <3>1. task[t].loops + 1 \in -1 .. Loops
      BY LockAssumption, <1>11, <1>6 DEF Count
    <3>2. task' = [task EXCEPT ![t] = [pc |-> "release",
                                       k |-> task[t].k, loops |-> task[t].loops + 1,
                                       fail |-> task[t].fail]]
      BY <3>1, <1>6 DEF Count, Becomes
    <3>. QED  BY LockAssumption, <1>11, <3>1, <3>2
         DEF Result, TasksInv, Places, Inside, Ending
  <2>2. shared' = shared /\ atomic' = atomic /\ task[t].pc = "count"
    BY <1>6 DEF Count
  <2>. QED  BY <1>11, <2>1, <2>2, LockAssumption
      DEF Result, TasksInv, TrappedStays, MutualExclusion, Owned, Mine,
          NeverFails, Counts, Holds, Inside, Ending, Places
<1>7. CASE Release(t)
  <2>1. Result(IF task[t].loops < Loops THEN "take" ELSE "takelast",
               task[t].k, task[t].loops, task[t].fail)
    BY LockAssumption, <1>11, <1>7
       DEF Release, Goto, Becomes, Result, TasksInv, Places, Inside, Ending
  <2>2. shared' = shared /\ atomic' = 0 /\ task[t].pc = "release"
    BY <1>7 DEF Release
  <2>. QED  BY <1>11, <2>1, <2>2, LockAssumption
      DEF Result, TasksInv, TrappedStays, MutualExclusion, Owned, Mine,
          NeverFails, Counts, Holds, Inside, Ending, Places
<1>8. CASE Print1(t)
  <2>1. Result("unlock", task[t].k, task[t].loops, task[t].fail)
    BY LockAssumption, <1>11, <1>8
       DEF Print1, Goto, Becomes, Result, TasksInv, Places, Inside, Ending
  <2>2. shared' = shared /\ atomic' = atomic /\ task[t].pc = "print"
    BY <1>8 DEF Print1
  <2>. QED  BY <1>11, <2>1, <2>2, LockAssumption
      DEF Result, TasksInv, TrappedStays, MutualExclusion, Owned, Mine,
          NeverFails, Counts, Holds, Inside, Ending, Places
<1>9. CASE Unlock(t)
  <2>1. Result("trap", task[t].k, task[t].loops, task[t].fail)
    BY LockAssumption, <1>11, <1>9
       DEF Unlock, Goto, Becomes, Result, TasksInv, Places, Inside, Ending
  <2>2. shared' = shared /\ atomic' = 0 /\ task[t].pc = "unlock"
    BY <1>9 DEF Unlock
  <2>3. \A u \in Tasks : u # t => ~Holds(u)
    BY <2>2 DEF TasksInv, MutualExclusion, Holds, Ending
  <2>. QED  BY <1>11, <2>1, <2>2, <2>3, LockAssumption
      DEF Result, TasksInv, TrappedStays, MutualExclusion, Owned, Mine,
          NeverFails, Counts, Holds, Inside, Ending, Places
<1>10. CASE Trap(t)
  <2>1. Result("trapped", task[t].k, task[t].loops, task[t].fail)
    <3>1. task[t].fail = 0
      BY LockAssumption, <1>11, <1>10 DEF Trap
    <3>2. task' = [task EXCEPT ![t] = [pc |-> "trapped",
                                       k |-> task[t].k, loops |-> task[t].loops,
                                       fail |-> task[t].fail]]
      BY <3>1, <1>10 DEF Trap, Becomes
    <3>. QED  BY LockAssumption, <1>11, <3>1, <3>2
         DEF Result, TasksInv, Places, Inside, Ending
  <2>2. shared' = shared /\ atomic' = atomic /\ task[t].pc = "trap"
    BY <1>10 DEF Trap
  <2>. QED  BY <1>11, <2>1, <2>2, LockAssumption
      DEF Result, TasksInv, TrappedStays, MutualExclusion, Owned, Mine,
          NeverFails, Counts, Holds, Inside, Ending, Places
<1>. QED  BY <1>1, <1>2, <1>3, <1>4, <1>5, <1>6, <1>7, <1>8, <1>9, <1>10 DEF Instruction

(* A visit counts a task only if it was trapped.                           *)
LEMMA VisitKeeps ==
    ASSUME LockTypeOK, Rounds, super.pc = "run", TrappedStays,
           NEW n, Visit(n),
           \/ n = super.completed
           \/ n = super.completed + 1 /\ task[super.turn].pc = "trapped"
    PROVE  /\ super' \in [pc : {"run", "ended", "success", "failure"},
                          turn : Tasks, completed : 0 .. NumTasks]
           /\ Rounds'
<1>. DEFINE Type == [pc : {"run", "ended", "success", "failure"},
                     turn : Tasks, completed : 0 .. NumTasks]
<1>. USE LockAssumption
<1>0. /\ super.turn \in 0 .. NumTasks - 1
      /\ super.completed \in 0 .. super.turn
      /\ n = super.completed \/ n = super.completed + 1
      /\ n = super.completed + 1 => task[super.turn].pc = "trapped"
  BY DEF LockTypeOK, Rounds, Tasks
<1>1. CASE super.turn + 1 < NumTasks
  <2>1. super' = [pc |-> "run", turn |-> super.turn + 1, completed |-> n]
    BY <1>1 DEF Visit
  <2>2. super.turn + 1 \in Tasks /\ n \in 0 .. super.turn + 1
    BY <1>0, <1>1 DEF Tasks
  <2>3. super' \in Type
    BY <1>0, <1>1, <2>1, <2>2
  <2>4. ASSUME n = super.turn + 1, NEW u \in Tasks, u < super.turn + 1
        PROVE  task'[u].pc = "trapped"
    <3>1. u < super.turn \/ u = super.turn
      BY <1>0, <2>4 DEF Tasks
    <3>2. super.completed = super.turn /\ task[super.turn].pc = "trapped"
      BY <1>0, <2>4
    <3>. QED  BY <3>1, <3>2 DEF Rounds, TrappedStays
  <2>. QED  BY <2>1, <2>2, <2>3, <2>4 DEF Rounds
<1>2. CASE super.turn + 1 = NumTasks
  <2>1. super' = [pc |-> IF n >= NumTasks THEN "ended" ELSE "run",
                  turn |-> 0, completed |-> 0]
    BY <1>2 DEF Visit
  <2>2. super' \in Type
    BY <2>1 DEF Tasks
  <2>3. ASSUME n >= NumTasks, NEW u \in Tasks
        PROVE  task'[u].pc = "trapped"
    <3>1. u < super.turn \/ u = super.turn
      BY <1>0, <1>2 DEF Tasks
    <3>2. super.completed = super.turn /\ task[super.turn].pc = "trapped"
      BY <1>0, <1>2, <2>3
    <3>. QED  BY <3>1, <3>2 DEF Rounds, TrappedStays
  <2>. QED  BY <2>1, <2>2, <2>3 DEF Rounds, Tasks
<1>. QED  BY <1>0, <1>1, <1>2

(* Every turn of the supervisor preserves it.                              *)
LEMMA NextKeeps == LockInv /\ [LockNext]_lockVars => LockInv'
<1>. SUFFICES ASSUME LockInv, [LockNext]_lockVars PROVE LockInv'
  OBVIOUS
<1>. USE DEF LockInv
<1>0. TasksInv
  BY DEF TasksInv, LockTypeOK
<1>1. ASSUME NEW t \in Tasks, Step(t) PROVE LockInv'
  <2>1. TasksInv' /\ TrappedStays
    BY <1>0, <1>1, InstructionKeeps DEF Step
  <2>2. Rounds' /\ super' \in [pc : {"run", "ended", "success", "failure"},
                               turn : Tasks, completed : 0 .. NumTasks]
    BY <1>1, <2>1, VisitKeeps DEF Step
  <2>. QED  BY <2>1, <2>2 DEF TasksInv, LockTypeOK
<1>2. ASSUME NEW t \in Tasks, Skip(t) \/ Spin(t) PROVE LockInv'
  <2>1. TasksInv' /\ TrappedStays
    BY <1>0, <1>2 DEF Skip, Spin, TasksInv, TrappedStays, MutualExclusion, Owned, Mine,
                      NeverFails, Counts, Holds
  <2>2. Rounds' /\ super' \in [pc : {"run", "ended", "success", "failure"},
                               turn : Tasks, completed : 0 .. NumTasks]
    BY <1>2, <2>1, VisitKeeps DEF Skip, Spin
  <2>. QED  BY <2>1, <2>2 DEF TasksInv, LockTypeOK
<1>3. CASE Report
  BY <1>3 DEF Report, LockTypeOK, MutualExclusion, Owned, Mine, NeverFails, Counts,
              Rounds, Holds
<1>4. CASE UNCHANGED lockVars
  BY <1>4 DEF lockVars, LockTypeOK, MutualExclusion, Owned, Mine, NeverFails, Counts,
              Rounds, Holds
<1>. QED  BY <1>1, <1>2, <1>3, <1>4 DEF LockNext

(* lockcheck.c: the invariant holds of every run of the program.           *)
THEOREM LockInvariant == LockSpec => []LockInv
<1>. QED  BY TasksInit, NextKeeps, PTL DEF LockSpec

(* lockcheck.c, user_task: whatever the number of tasks and of loops, and  *)
(* however their instructions interleave, two tasks are never inside the   *)
(* lock together.                                                          *)
THEOREM LockExcludes == LockSpec => []MutualExclusion
<1>1. LockInv => MutualExclusion
  BY DEF LockInv
<1>. QED  BY <1>1, LockInvariant, PTL

(* lockcheck.c, user_task: no task ever sees the shared word changed under *)
(* it, so none ends with a count of -1.                                    *)
THEOREM TasksNeverFail == LockSpec => []NoTaskFails
<1>1. LockInv => NoTaskFails
  <2>. SUFFICES ASSUME LockInv, NEW t \in Tasks
               PROVE  task[t].fail = 0 /\ task[t].loops # -1
    BY DEF NoTaskFails
  <2>. QED
    BY LockAssumption DEF LockInv, LockTypeOK, NeverFails, Counts, Places, Inside, Ending
<1>. QED  BY <1>1, LockInvariant, PTL

(* lockcheck.c, main: when the loop over the tasks ends, every one of them *)
(* has trapped after all of its loops and the lock is open.                *)
THEOREM VerdictComesLast == LockSpec => []VerdictIsFinal
<1>1. LockInv => VerdictIsFinal
  BY DEF LockInv, VerdictIsFinal, LockTypeOK, Owned, Counts, Rounds, Holds, Inside, Ending
<1>. QED  BY <1>1, LockInvariant, PTL

(* lockcheck.c: what the run checks for three tasks, for any number.       *)
THEOREM LockHolds == LockSpec => []LockIsSafe
<1>. QED  BY LockExcludes, TasksNeverFail, VerdictComesLast, PTL DEF LockIsSafe

-----------------------------------------------------------------------------
(* The serial port.  What the bits are taken from: parities included.      *)
UartBits == {0, 1} \union {Odd(b) : b \in UartBytes} \union {1 - Odd(b) : b \in UartBytes}

Half == B \div 2
FrameLen == FrameBits + 1

\* k bits of f have been sent and the next one is on the wire, or is about to be sampled.
Sending(tx, f, k) == /\ k \in 0 .. FrameLen - 1 /\ tx.baud \in 0 .. B - 1
                     /\ Len(tx.bits) = FrameLen - k
                     /\ \A i \in 1 .. FrameLen - k : tx.bits[i] = f[k + i]

\* The bits after the start bit that have been sampled.
Sampled(rx, f) == \A i \in 1 .. Len(rx.bits) : rx.bits[i] = f[i + 1]

\* The device samples in the middle of bit j + 1, while bit j or that one is sent.
InStepDown(rx, tx, k) ==
    LET j == Len(rx.bits)
    IN  \/ k = j /\ rx.baud = Half + 1 + tx.baud
        \/ k = j + 1 /\ rx.baud + B - 1 = Half + tx.baud /\ rx.baud >= 0

DownAs(u, w, c, k, f) ==
    /\ Sending(u.tx, f, k)
    /\ \/ /\ k = 0 /\ u.tx.baud = B - 1 /\ ~w.rx.busy
          /\ Len(w.heard) + 1 = Len(c.taken)
       \/ /\ w.rx.busy /\ Sampled(w.rx, f) /\ Len(w.rx.bits) + 1 < FrameLen
          /\ InStepDown(w.rx, u.tx, k)
          /\ Len(w.heard) + 1 = Len(c.taken)
       \/ /\ k = FrameLen - 1 /\ ~w.rx.busy
          /\ Len(w.heard) = Len(c.taken)

DownAt(u, w, c) ==
    \/ u.tx.bits = <<>> /\ ~w.rx.busy /\ Len(w.heard) = Len(c.taken)
    \/ c.taken # <<>> /\ \E k \in 0 .. FrameLen - 1 : DownAs(u, w, c, k, Frame(c.taken[Len(c.taken)]))
DownLink == DownAt(us, wire, client)

\* The simulator samples half a bit earlier in its count, and ends half a bit late.
InStepUp(rx, tx, k) ==
    LET j == Len(rx.bits)
    IN  \/ k = j /\ rx.baud = Half + tx.baud
        \/ k = j + 1 /\ rx.baud + B = Half + tx.baud /\ rx.baud >= 0

\* The last character is still to be taken in, in at most n clocks.
LastComing(rx, n) == rx.busy /\ 0 <= rx.baud /\ rx.baud <= n /\ Len(rx.bits) = FrameBits

UpIdle(u, w, c) ==
    /\ w.tx.bits = <<>>
    /\ \/ ~u.rx.busy /\ Len(c.heard) = Len(w.sent)
       \/ /\ LastComing(u.rx, Half - 1) /\ Len(c.heard) + 1 = Len(w.sent)
          /\ Sampled(u.rx, Frame(w.sent[Len(w.sent)]))
UpAs(u, w, c, k, f) ==
    /\ Sending(w.tx, f, k)
    /\ k = 0 => u.chg = B - 1 - w.tx.baud
    /\ \/ /\ k = 0 /\ LastComing(u.rx, Half + w.tx.baud - B - 1)
          /\ Len(c.heard) + 2 = Len(w.sent)
          /\ Sampled(u.rx, Frame(w.sent[Len(w.sent) - 1]))
       \/ /\ k = 0 /\ B - w.tx.baud <= Half /\ ~u.rx.busy
          /\ Len(c.heard) + 1 = Len(w.sent)
       \/ /\ u.rx.busy /\ Sampled(u.rx, f) /\ Len(u.rx.bits) + 1 <= FrameLen
          /\ InStepUp(u.rx, w.tx, k)
          /\ Len(c.heard) + 1 = Len(w.sent)

UpAt(u, w, c) ==
    \/ UpIdle(u, w, c)
    \/ w.sent # <<>> /\ \E k \in 0 .. FrameLen - 1 : UpAs(u, w, c, k, Frame(w.sent[Len(w.sent)]))
UpLink == UpAt(us, wire, client)

TxRec == [bits : Seq(UartBits), baud : Int]
RxRec == [busy : BOOLEAN, baud : Int, bits : Seq(UartBits)]


Cfgs == UartSetups \union {CHOOSE s \in UartSetups : TRUE}
UsRec == [mode : {"off", "net", "fd"}, con : BOOLEAN, cfg : Cfgs, rx : RxRec, tx : TxRec,
          chg : Int, last : UartBits, o : UartBits]
WireRec == [tx : TxRec, rx : RxRec, sent : Seq(UartBytes), heard : Seq(Seq(UartBits))]
ClientRec == [up : BOOLEAN, out : Seq(UartBytes), n : Int, taken : Seq(UartBytes),
              heard : Seq(Seq(UartBits)), got : Seq(Seq(UartBits))]

\* Before the construction nothing has moved.
Unbuilt == /\ us.tx.bits = <<>> /\ ~us.rx.busy /\ wire.tx.bits = <<>> /\ ~wire.rx.busy
           /\ client.taken = <<>> /\ client.heard = <<>> /\ wire.sent = <<>> /\ wire.heard = <<>>

HeardSoFar == Len(client.heard) <= Len(wire.sent)
              /\ \A i \in 1 .. Len(client.heard) : client.heard[i] = wire.sent[i]

UartIInv ==
    /\ us \in UsRec /\ wire \in WireRec /\ client \in ClientRec
    /\ IF us.mode = "off" THEN Unbuilt ELSE us.cfg \in UartSetups /\ DownLink /\ UpLink
    /\ us.o = Level(us.tx.bits) /\ us.last = Level(wire.tx.bits)
    /\ Len(wire.sent) <= MaxChars
    /\ HeardSoFar /\ FramedAsTaken

LEMMA SeqOfFcn ==
    ASSUME NEW S, NEW n \in Nat, NEW s \in [1 .. n -> S]
    PROVE  s \in Seq(S) /\ Len(s) = n
OBVIOUS

\* What is at the places of a concatenation u of s and t.
Joins(u, s, t) == /\ Len(u) = Len(s) + Len(t)
                  /\ \A i \in 1 .. Len(s) : u[i] = s[i]
                  /\ \A i \in 1 .. Len(t) : u[Len(s) + i] = t[i]

LEMMA JoinAt ==
    ASSUME NEW S, NEW s \in Seq(S), NEW t \in Seq(S)
    PROVE  s \o t \in Seq(S) /\ Joins(s \o t, s, t)
BY ConcatProperties DEF Joins

LEMMA SetupFacts ==
    ASSUME us.cfg \in UartSetups
    PROVE  /\ B \in Nat /\ B >= 2 /\ Half \in Nat /\ Half >= 1 /\ 2 * Half <= B /\ B <= 2 * Half + 1
           /\ FrameBits \in Nat /\ FrameBits >= 9 /\ FrameLen = FrameBits + 1
           /\ \A b : Len(Parity(b)) = FrameBits - 8 - us.cfg.stop
<1>1. B \in Nat /\ B >= 2 /\ us.cfg.stop \in {1, 2}
      /\ us.cfg.parity \in {"none", "fixed0", "fixed1", "p", "np"}
  BY UartAssumption DEF B
<1>2. Half \in Nat /\ Half >= 1 /\ 2 * Half <= B /\ B <= 2 * Half + 1
  BY <1>1 DEF Half
<1>3. \A b : Len(Parity(b)) = IF us.cfg.parity = "none" THEN 0 ELSE 1
  BY <1>1 DEF Parity
<1>. QED  BY <1>1, <1>2, <1>3 DEF FrameBits, FrameLen

LEMMA FrameFacts ==
    ASSUME us.cfg \in UartSetups, NEW b \in UartBytes
    PROVE  /\ Frame(b) \in Seq(UartBits) /\ Len(Frame(b)) = FrameLen
           /\ Frame(b)[1] = 0 /\ Frame(b)[FrameLen] = 1
           /\ \A i \in 1 .. 8 : Frame(b)[i + 1] = b[i]
<1>. DEFINE S == UartBits
            s0 == <<0>>
            p == Parity(b)
            t == Stops
<1>1. s0 \in Seq(S) /\ Len(s0) = 1 /\ s0[1] = 0
  BY DEF UartBits
<1>2. b \in Seq(S) /\ Len(b) = 8
  <2>1. b \in [1 .. 8 -> {0, 1}]
    BY UartAssumption
  <2>2. b \in [1 .. 8 -> S]
    BY <2>1 DEF UartBits
  <2>. HIDE DEF S
  <2>. QED  BY <2>2, SeqOfFcn
<1>3. p \in Seq(S) /\ Len(p) = FrameBits - 8 - us.cfg.stop
  <2>1. us.cfg.parity \in {"none", "fixed0", "fixed1", "p", "np"}
    BY UartAssumption
  <2>2. 0 \in S /\ 1 \in S /\ Odd(b) \in S /\ 1 - Odd(b) \in S
    BY DEF UartBits
  <2>3. p \in Seq(S)
    BY <2>1, <2>2 DEF Parity
  <2>. QED  BY <2>3, SetupFacts
<1>4. t \in Seq(S) /\ Len(t) = us.cfg.stop /\ us.cfg.stop \in {1, 2} /\ \A i \in 1 .. us.cfg.stop : t[i] = 1
  <2>1. us.cfg.stop \in {1, 2}
    BY UartAssumption
  <2>2. t \in [1 .. us.cfg.stop -> S] /\ \A i \in 1 .. us.cfg.stop : t[i] = 1
    BY <2>1 DEF Stops, UartBits
  <2>. QED  BY <2>1, <2>2
<1>. HIDE DEF S, s0, p, t
<1>. DEFINE u == s0 \o b
            v == u \o p
            w == v \o t
<1>5. u \in Seq(S) /\ Joins(u, s0, b)
  BY <1>1, <1>2, JoinAt
<1>. HIDE DEF u
<1>6. v \in Seq(S) /\ Joins(v, u, p)
  BY <1>3, <1>5, JoinAt
<1>. HIDE DEF v
<1>7. w \in Seq(S) /\ Joins(w, v, t)
  BY <1>4, <1>6, JoinAt
<1>. HIDE DEF w
<1>8. Frame(b) = w
  BY DEF Frame, w, v, u, s0, p, t
<1>9. /\ Len(p) \in Nat /\ Len(u) = 9 /\ Len(v) = 9 + Len(p) /\ Len(t) \in {1, 2}
      /\ Len(w) = FrameLen /\ FrameLen = Len(v) + Len(t)
  <2>1. Len(u) = 9
    BY <1>1, <1>2, <1>5 DEF Joins
  <2>2. Len(v) = 9 + Len(p)
    BY <1>6, <2>1 DEF Joins
  <2>3. Len(w) = Len(v) + Len(t)
    BY <1>7 DEF Joins
  <2>4. FrameLen = FrameBits + 1 /\ FrameBits \in Nat
    BY SetupFacts
  <2>5. Len(p) \in Nat
    BY <1>3
  <2>. QED  BY SMTT(40), <1>3, <1>4, <2>1, <2>2, <2>3, <2>4, <2>5
<1>10. w[FrameLen] = 1
  BY SMTT(40), <1>4, <1>7, <1>9 DEF Joins
<1>11. \A i \in 1 .. 9 : w[i] = u[i]
  BY <1>6, <1>7, <1>9 DEF Joins
<1>12. u[1] = 0
  BY <1>1, <1>5 DEF Joins
<1>13. \A i \in 1 .. 8 : w[i + 1] = b[i]
  <2>. SUFFICES ASSUME NEW i \in 1 .. 8 PROVE w[i + 1] = b[i]
    OBVIOUS
  <2>1. w[i + 1] = u[i + 1]
    BY <1>11
  <2>2. u[1 + i] = b[i]
    BY <1>1, <1>2, <1>5 DEF Joins
  <2>. QED  BY <2>1, <2>2
<1>. QED  BY <1>7, <1>8, <1>9, <1>10, <1>11, <1>12, <1>13 DEF S

\* A clock of a transmitter that is sending.
TxNext(tx) == IF tx.baud > 0 THEN [tx EXCEPT !.baud = @ - 1]
              ELSE [bits |-> Tail(tx.bits), baud |-> IF Len(tx.bits) = 1 THEN 0 ELSE B - 1]

LEMMA StartSends ==
    ASSUME us.cfg \in UartSetups, NEW b \in UartBytes
    PROVE  /\ Start(b) \in TxRec /\ Sending(Start(b), Frame(b), 0)
           /\ Start(b).baud = B - 1 /\ Start(b).bits # <<>>
<1>. DEFINE f == Frame(b)
<1>1. f \in Seq(UartBits) /\ Len(f) = FrameLen /\ FrameLen \in Nat /\ FrameLen >= 10 /\ B \in Nat /\ B >= 2
  BY FrameFacts, SetupFacts
<1>2. Start(b) = [bits |-> f, baud |-> B - 1]
  BY DEF Start
<1>. HIDE DEF f
<1>3. Start(b) \in TxRec /\ Start(b).bits = f /\ Start(b).baud = B - 1
  BY <1>1, <1>2 DEF TxRec
<1>4. f # <<>>
  BY <1>1
<1>5. Sending(Start(b), f, 0)
  BY <1>1, <1>3 DEF Sending
<1>. QED  BY <1>3, <1>4, <1>5 DEF f

LEMMA SendingLevel ==
    ASSUME us.cfg \in UartSetups, NEW tx \in TxRec, NEW f, NEW k, Sending(tx, f, k)
    PROVE  /\ tx.bits # <<>> /\ Level(tx.bits) = f[k + 1] /\ k \in 0 .. FrameLen - 1 /\ k + 1 \in 1 .. FrameLen
           /\ tx.baud \in Int /\ 0 <= tx.baud /\ tx.baud <= B - 1
<1>1. FrameLen \in Nat /\ B \in Nat /\ tx.bits \in Seq(UartBits)
  BY SetupFacts DEF TxRec
<1>2. k \in 0 .. FrameLen - 1 /\ Len(tx.bits) = FrameLen - k /\ tx.bits[1] = f[k + 1] /\ tx.baud \in 0 .. B - 1
  BY <1>1 DEF Sending
<1>3. tx.bits # <<>>
  BY <1>1, <1>2
<1>4. Head(tx.bits) = tx.bits[1]
  BY <1>1, <1>3
<1>. QED  BY <1>1, <1>2, <1>3, <1>4 DEF Level

LEMMA SendingGoesOn ==
    ASSUME us.cfg \in UartSetups, NEW tx \in TxRec, NEW f, NEW k, Sending(tx, f, k)
    PROVE  /\ TxNext(tx) \in TxRec
           /\ tx.baud > 0 => Sending(TxNext(tx), f, k) /\ TxNext(tx).baud = tx.baud - 1
           /\ tx.baud = 0 /\ k < FrameLen - 1 => Sending(TxNext(tx), f, k + 1) /\ TxNext(tx).baud = B - 1
           /\ tx.baud = 0 /\ k = FrameLen - 1 => TxNext(tx).bits = <<>>
<1>. DEFINE q == tx.bits
            u == TxNext(tx)
<1>1. FrameLen \in Nat /\ B \in Nat /\ B >= 2 /\ q \in Seq(UartBits) /\ tx.baud \in Int
  BY SetupFacts DEF TxRec
<1>2. k \in 0 .. FrameLen - 1 /\ Len(q) = FrameLen - k /\ tx.baud \in 0 .. B - 1
      /\ \A i \in 1 .. FrameLen - k : q[i] = f[k + i]
  BY DEF Sending
<1>3. q # <<>> /\ tx = [bits |-> q, baud |-> tx.baud]
  BY <1>1, <1>2 DEF TxRec
<1>4. Tail(q) \in Seq(UartBits) /\ Len(Tail(q)) = Len(q) - 1 /\ \A i \in 1 .. Len(q) - 1 : Tail(q)[i] = q[i + 1]
  BY <1>1, <1>3, HeadTailProperties
<1>5. CASE tx.baud > 0
  <2>1. u = [bits |-> q, baud |-> tx.baud - 1]
    BY <1>3, <1>5 DEF TxNext, TxRec
  <2>. HIDE DEF u, q
  <2>2. u \in TxRec /\ u.bits = q /\ u.baud = tx.baud - 1
    BY <1>1, <2>1 DEF TxRec
  <2>3. Sending(u, f, k)
    BY <1>1, <1>2, <1>5, <2>2 DEF Sending
  <2>. QED  BY <1>1, <1>5, <2>2, <2>3 DEF u
<1>6. CASE tx.baud = 0
  <2>1. u = [bits |-> Tail(q), baud |-> IF Len(q) = 1 THEN 0 ELSE B - 1]
    BY <1>6 DEF TxNext
  <2>. HIDE DEF u, q
  <2>2. u \in TxRec /\ u.bits = Tail(q) /\ u.baud = IF Len(q) = 1 THEN 0 ELSE B - 1
    BY <1>1, <1>4, <2>1 DEF TxRec
  <2>3. ASSUME k = FrameLen - 1 PROVE u.bits = <<>>
    <3>1. Len(q) = 1
      BY <1>1, <1>2, <2>3
    <3>. QED  BY <1>4, <2>2, <3>1
  <2>4. ASSUME k < FrameLen - 1 PROVE Sending(u, f, k + 1) /\ u.baud = B - 1
    <3>1. Len(q) # 1 /\ k + 1 \in 0 .. FrameLen - 1 /\ Len(u.bits) = FrameLen - (k + 1)
      BY <1>1, <1>2, <1>4, <2>2, <2>4
    <3>2. u.baud = B - 1 /\ u.baud \in 0 .. B - 1
      BY <1>1, <2>2, <3>1
    <3>3. \A i \in 1 .. FrameLen - (k + 1) : u.bits[i] = f[(k + 1) + i]
      <4>. SUFFICES ASSUME NEW i \in 1 .. FrameLen - (k + 1) PROVE u.bits[i] = f[(k + 1) + i]
        OBVIOUS
      <4>1. i \in 1 .. Len(q) - 1 /\ i + 1 \in 1 .. FrameLen - k /\ k + (i + 1) = (k + 1) + i
        BY <1>1, <1>2
      <4>2. u.bits[i] = q[i + 1]
        BY <1>4, <2>2, <4>1
      <4>3. q[i + 1] = f[k + (i + 1)]
        BY <1>2, <4>1
      <4>. QED  BY <4>1, <4>2, <4>3
    <3>. QED  BY <3>1, <3>2, <3>3 DEF Sending
  <2>. QED  BY <1>1, <1>6, <2>2, <2>3, <2>4 DEF u
<1>. QED  BY <1>1, <1>2, <1>5, <1>6

\* What the wire of the device does in a clock; the device's receiver is as it was.
WireSends(w) ==
    /\ w \in WireRec /\ w.rx = wire.rx /\ w.heard = wire.heard /\ Len(w.sent) <= MaxChars
    /\ \/ w = wire /\ wire.tx.bits = <<>>
       \/ /\ wire.tx.bits = <<>>
          /\ \E b \in UartBytes : w.tx = Start(b) /\ w.sent = Append(wire.sent, b)
       \/ wire.tx.bits # <<>> /\ w.tx = TxNext(wire.tx) /\ w.sent = wire.sent

LEMMA DeviceSends ==
    ASSUME us.cfg \in UartSetups, wire \in WireRec, Len(wire.sent) <= MaxChars,
           wire.tx.bits # <<>> => wire.tx.baud >= 0, NEW w \in DeviceTx
    PROVE  WireSends(w)
<1>1. wire.tx \in TxRec /\ wire.rx \in RxRec /\ wire.sent \in Seq(UartBytes) /\ wire.tx.baud \in Int
      /\ Len(wire.sent) \in Nat /\ MaxChars \in Nat /\ wire.tx.bits \in Seq(UartBits) /\ B \in Nat
  BY UartAssumption, SetupFacts DEF WireRec, TxRec
<1>2. CASE wire.tx.bits = <<>> /\ Len(wire.sent) < MaxChars
  <2>1. w = wire \/ \E b \in UartBytes : w = [wire EXCEPT !.tx = Start(b), !.sent = Append(@, b)]
    BY <1>1, <1>2 DEF DeviceTx
  <2>2. CASE w = wire
    BY <1>2, <2>2 DEF WireSends
  <2>3. ASSUME NEW b \in UartBytes, w = [wire EXCEPT !.tx = Start(b), !.sent = Append(@, b)]
        PROVE  WireSends(w)
    <3>1. Start(b) \in TxRec
      BY StartSends
    <3>2. Append(wire.sent, b) \in Seq(UartBytes) /\ Len(Append(wire.sent, b)) = Len(wire.sent) + 1
      BY <1>1
    <3>3. w \in WireRec /\ w.rx = wire.rx /\ w.heard = wire.heard /\ w.tx = Start(b)
          /\ w.sent = Append(wire.sent, b)
      BY <2>3, <3>1, <3>2 DEF WireRec
    <3>. QED  BY <1>1, <1>2, <3>2, <3>3 DEF WireSends
  <2>. QED  BY <2>1, <2>2, <2>3
<1>3. CASE wire.tx.bits = <<>> /\ Len(wire.sent) = MaxChars
  BY <1>1, <1>3 DEF DeviceTx, WireSends
<1>4. CASE wire.tx.bits # <<>>
  <2>0. TxNext(wire.tx) \in TxRec
    <3>1. Tail(wire.tx.bits) \in Seq(UartBits)
      BY <1>1, <1>4
    <3>. DEFINE t == Tail(wire.tx.bits)
                n == IF Len(wire.tx.bits) = 1 THEN 0 ELSE B - 1
    <3>2. n \in Int
      BY <1>1
    <3>. HIDE DEF t, n
    <3>3. [bits |-> t, baud |-> n] \in TxRec
      BY <3>1, <3>2 DEF TxRec, t
    <3>4. [wire.tx EXCEPT !.baud = @ - 1] \in TxRec
      BY <1>1 DEF TxRec
    <3>. QED  BY <3>3, <3>4 DEF TxNext, t, n
  <2>1. w = [wire EXCEPT !.tx = TxNext(wire.tx)]
    <3>1. CASE wire.tx.baud > 0
      <4>1. w = [wire EXCEPT !.tx.baud = @ - 1]
        BY <1>1, <1>4, <3>1 DEF DeviceTx
      <4>2. TxNext(wire.tx) = [wire.tx EXCEPT !.baud = @ - 1]
        BY <3>1 DEF TxNext
      <4>. QED  BY <4>1, <4>2 DEF WireRec, TxRec
    <3>2. CASE wire.tx.baud = 0
      BY <1>1, <1>4, <3>2 DEF DeviceTx, TxNext
    <3>. QED  BY <1>1, <1>4, <3>1, <3>2
  <2>2. w \in WireRec /\ w.rx = wire.rx /\ w.heard = wire.heard /\ w.tx = TxNext(wire.tx) /\ w.sent = wire.sent
    BY <2>0, <2>1 DEF WireRec
  <2>. QED  BY <1>4, <2>2 DEF WireSends
<1>. QED  BY <1>1, <1>2, <1>3, <1>4

\* What the simulator's transmitter does in a clock.
UsSends ==
    \/ us.tx.bits = <<>> /\ us'.tx = us.tx /\ client'.taken = client.taken
    \/ us.tx.bits = <<>> /\ \E b \in UartBytes : us'.tx = Start(b) /\ client'.taken = Append(client.taken, b)
    \/ us.tx.bits # <<>> /\ us'.tx = TxNext(us.tx) /\ client'.taken = client.taken

\* A clock, as the two links see it.
Ticked ==
    LET i == Level(wire'.tx.bits)
    IN  /\ us'.cfg = us.cfg /\ us'.mode = us.mode /\ us.mode # "off" /\ us.cfg \in UartSetups
        /\ \E w : WireSends(w) /\ wire' = DeviceRx(w)
        /\ UsSends
        /\ us'.rx = Sample(i) /\ us'.chg = ChangeCtr(i) /\ us'.last = i /\ us'.o = Level(us'.tx.bits)
        /\ client'.heard = IF FrameDone THEN Append(client.heard, SubSeq(us.rx.bits, 1, 8)) ELSE client.heard
        /\ us' \in [mode : {"off", "net", "fd"}, con : BOOLEAN, cfg : Cfgs, rx : {us'.rx}, tx : {us'.tx},
                    chg : {us'.chg}, last : {i}, o : {us'.o}]
        /\ client' \in [up : BOOLEAN, out : Seq(UartBytes), n : Int, taken : {client'.taken},
                        heard : {client'.heard}, got : {client'.got}]
        /\ client'.got = client.got \/ (client'.got = Append(client.got, SubSeq(us.rx.bits, 1, 8)) /\ FrameDone)

LEMMA AdvanceFacts ==
    ASSUME us \in UsRec, client \in ClientRec, us.cfg \in UartSetups, us.mode # "off",
           NEW i, i = Level(wire'.tx.bits),
           NEW con \in BOOLEAN, NEW ready \in BOOLEAN, NEW delivered \in BOOLEAN,
           ready => us.tx.bits = <<>> /\ client.out # <<>>,
           AdvanceLine(i, con, ready, delivered),
           \E w : WireSends(w) /\ wire' = DeviceRx(w)
    PROVE  Ticked
<1>. DEFINE t == IF ready THEN Start(Head(client.out)) ELSE Shift
            byte == SubSeq(us.rx.bits, 1, 8)
            o2 == IF ready THEN Tail(client.out) ELSE IF con THEN client.out ELSE <<>>
            t2 == IF ready THEN Append(client.taken, Head(client.out)) ELSE client.taken
            h2 == IF FrameDone THEN Append(client.heard, byte) ELSE client.heard
            g2 == IF FrameDone /\ delivered THEN Append(client.got, byte) ELSE client.got
            r2 == Sample(i)
            c2 == ChangeCtr(i)
            l2 == Level(t.bits)
<1>1. us' = [us EXCEPT !.con = con, !.rx = r2, !.chg = c2, !.last = i, !.tx = t, !.o = l2]
  BY DEF AdvanceLine
<1>2. client' = [client EXCEPT !.out = o2, !.taken = t2, !.heard = h2, !.got = g2]
  BY DEF AdvanceLine
<1>3. o2 \in Seq(UartBytes)
  <2>1. client.out \in Seq(UartBytes)
    BY DEF ClientRec
  <2>. QED  BY <2>1
<1>4. UsSends \/ ~(us'.tx = t /\ client'.taken = t2)
  <2>. SUFFICES ASSUME us'.tx = t, client'.taken = t2 PROVE UsSends
    OBVIOUS
  <2>1. CASE ready
    <3>1. Head(client.out) \in UartBytes
      BY <2>1 DEF ClientRec
    <3>. QED  BY <2>1, <3>1 DEF UsSends
  <2>2. CASE ~ready
    BY <2>2 DEF UsSends, Shift, TxNext
  <2>. QED  BY <2>1, <2>2
<1>. HIDE DEF o2, t2, h2, g2, r2, c2, l2, t
<1>5. /\ us'.cfg = us.cfg /\ us'.mode = us.mode /\ us'.rx = r2 /\ us'.chg = c2 /\ us'.last = i /\ us'.tx = t
      /\ us'.o = l2 /\ us' \in [mode : {"off", "net", "fd"}, con : BOOLEAN, cfg : Cfgs, rx : {us'.rx}, tx : {us'.tx},
                    chg : {us'.chg}, last : {i}, o : {us'.o}]
  BY <1>1 DEF UsRec
<1>6. /\ client'.taken = t2 /\ client'.heard = h2 /\ client'.got = g2
      /\ client' \in [up : BOOLEAN, out : Seq(UartBytes), n : Int, taken : {client'.taken},
                        heard : {client'.heard}, got : {client'.got}]
  BY <1>2, <1>3 DEF ClientRec
<1>7. l2 = Level(us'.tx.bits)
  BY <1>5 DEF l2
<1>8. UsSends
  BY <1>4, <1>5, <1>6
<1>9. client'.got = client.got \/ (client'.got = Append(client.got, SubSeq(us.rx.bits, 1, 8)) /\ FrameDone)
  <2>1. CASE FrameDone /\ delivered
    BY <1>6, <2>1 DEF g2
  <2>2. CASE ~(FrameDone /\ delivered)
    <3>1. g2 = client.got
      BY <2>2 DEF g2
    <3>. QED  BY <1>6, <3>1
  <2>. QED  BY <2>1, <2>2
<1>10. client'.heard = IF FrameDone THEN Append(client.heard, SubSeq(us.rx.bits, 1, 8)) ELSE client.heard
  BY <1>6 DEF h2
<1>11. us'.rx = Sample(i) /\ us'.chg = ChangeCtr(i)
  BY <1>5 DEF r2, c2
<1>. QED  BY <1>5, <1>6, <1>7, <1>8, <1>9, <1>10, <1>11 DEF Ticked

LEMMA TickFacts ==
    ASSUME UartIInv, UartTick
    PROVE  Ticked
<1>1. /\ us \in UsRec /\ wire \in WireRec /\ client \in ClientRec /\ Len(wire.sent) <= MaxChars
      /\ us.mode # "off" /\ us.cfg \in UartSetups /\ UpLink
  BY DEF UartIInv, UartTick, NetTick, FdTick
<1>2. wire.tx.bits # <<>> => wire.tx.baud >= 0
  BY <1>1, SendingLevel DEF UpLink, UpAt, UpIdle, UpAs, WireRec
<1>3. \E w : WireSends(w) /\ wire' = DeviceRx(w)
  <2>1. PICK w \in DeviceTx : wire' = DeviceRx(w)
    BY DEF UartTick
  <2>. QED  BY <1>1, <1>2, <2>1, DeviceSends
<1>. DEFINE i == Level(wire'.tx.bits)
<1>4. CASE NetTick(i)
  <2>. DEFINE accepted == us.con \/ client.up
              idle == us.tx.bits = <<>>
  <2>1. PICK failed \in IF FrameDone /\ accepted /\ ~client.up THEN BOOLEAN ELSE {FALSE} :
            LET open == accepted /\ ~failed
                ended == idle /\ client.out = <<>> /\ ~client.up
            IN AdvanceLine(i, open /\ ~ended, idle /\ open /\ client.out # <<>>, open /\ client.up)
    BY <1>4 DEF NetTick
  <2>. DEFINE open == accepted /\ ~failed
              ended == idle /\ client.out = <<>> /\ ~client.up
              con == open /\ ~ended
              ready == idle /\ open /\ client.out # <<>>
              del == open /\ client.up
  <2>2. AdvanceLine(i, con, ready, del)
    BY <2>1
  <2>3. con \in BOOLEAN /\ ready \in BOOLEAN /\ del \in BOOLEAN /\ (ready => us.tx.bits = <<>> /\ client.out # <<>>)
    OBVIOUS
  <2>. HIDE DEF con, ready, del, i
  <2>4. i = Level(wire'.tx.bits)
    BY DEF i
  <2>. QED  BY <1>1, <1>3, <2>2, <2>3, <2>4, AdvanceFacts
<1>5. CASE FdTick(i)
  <2>. DEFINE ready == us.tx.bits = <<>> /\ client.out # <<>>
  <2>1. AdvanceLine(i, TRUE, ready, TRUE)
    BY <1>5 DEF FdTick
  <2>2. ready \in BOOLEAN /\ TRUE \in BOOLEAN /\ (ready => us.tx.bits = <<>> /\ client.out # <<>>)
    OBVIOUS
  <2>. HIDE DEF ready, i
  <2>3. i = Level(wire'.tx.bits)
    BY DEF i
  <2>. QED  BY <1>1, <1>3, <2>1, <2>2, <2>3, AdvanceFacts
<1>. QED  BY <1>4, <1>5 DEF UartTick

\* What the device's receiver does in a clock.
DeviceHears ==
    /\ wire' \in WireRec
    /\ CASE ~wire.rx.busy /\ us.o = 1 -> wire'.rx = wire.rx /\ wire'.heard = wire.heard
         [] ~wire.rx.busy /\ us.o # 1 -> /\ wire'.rx = [busy |-> TRUE, bits |-> <<>>, baud |-> B + Half - 1]
                                         /\ wire'.heard = wire.heard
         [] wire.rx.busy /\ wire.rx.baud > 0 -> /\ wire'.rx = [wire.rx EXCEPT !.baud = @ - 1]
                                                /\ wire'.heard = wire.heard
         [] wire.rx.busy /\ ~(wire.rx.baud > 0) /\ Len(wire.rx.bits) + 1 < FrameBits ->
              /\ wire'.rx = [busy |-> TRUE, bits |-> Append(wire.rx.bits, us.o), baud |-> B - 1]
              /\ wire'.heard = wire.heard
         [] OTHER -> wire'.rx = IdleRx /\ wire'.heard = Append(wire.heard, Append(wire.rx.bits, us.o))

LEMMA RxSet ==
    ASSUME NEW r \in RxRec, r.busy = TRUE, NEW a \in Seq(UartBits), NEW c \in Int
    PROVE  [r EXCEPT !.bits = a, !.baud = c] = [busy |-> TRUE, bits |-> a, baud |-> c]
<1>. DEFINE u == [r EXCEPT !.bits = a, !.baud = c]
<1>1. u \in RxRec /\ u.busy = r.busy /\ u.bits = a /\ u.baud = c
  BY DEF RxRec
<1>. HIDE DEF u
<1>2. u = [busy |-> u.busy, baud |-> u.baud, bits |-> u.bits]
  BY <1>1 DEF RxRec
<1>3. u = [busy |-> TRUE, bits |-> a, baud |-> c]
  BY <1>1, <1>2
<1>. QED  BY <1>3 DEF u

LEMMA ReceiverFacts ==
    ASSUME us \in UsRec, us.cfg \in UartSetups, wire \in WireRec, NEW w, WireSends(w), wire' = DeviceRx(w),
           ~wire.rx.busy => us.o \in {0, 1}, wire.rx.busy => wire.rx.baud >= 0
    PROVE  wire'.tx = w.tx /\ wire'.sent = w.sent /\ DeviceHears
<1>1. /\ w \in WireRec /\ w.rx = wire.rx /\ w.heard = wire.heard /\ wire.rx \in RxRec
      /\ wire.rx.baud \in Int /\ wire.rx.bits \in Seq(UartBits) /\ wire.rx.busy \in BOOLEAN /\ us.o \in UartBits
  BY DEF WireSends, WireRec, RxRec, UsRec
<1>2. B \in Nat /\ Half \in Nat /\ FrameBits \in Nat
  BY SetupFacts
<1>. DEFINE r0 == [busy |-> TRUE, bits |-> <<>>, baud |-> B + Half - 1]
            r1 == [wire.rx EXCEPT !.baud = @ - 1]
            r2 == [busy |-> TRUE, bits |-> Append(wire.rx.bits, us.o), baud |-> B - 1]
            h2 == Append(wire.heard, Append(wire.rx.bits, us.o))
<1>3. r0 \in RxRec /\ r1 \in RxRec /\ r2 \in RxRec /\ IdleRx \in RxRec
  <2>. DEFINE e == <<>>
              a == Append(wire.rx.bits, us.o)
              z == 0
  <2>1. e \in Seq(UartBits) /\ a \in Seq(UartBits) /\ z \in Int /\ B + Half - 1 \in Int /\ B - 1 \in Int
    BY <1>1, <1>2
  <2>2. IdleRx = [busy |-> FALSE, baud |-> z, bits |-> e]
    BY DEF IdleRx
  <2>. HIDE DEF e, a, z
  <2>3. [busy |-> TRUE, bits |-> e, baud |-> B + Half - 1] \in RxRec
        /\ [busy |-> TRUE, bits |-> a, baud |-> B - 1] \in RxRec /\ IdleRx \in RxRec
    BY <2>1, <2>2 DEF RxRec
  <2>4. r1 \in RxRec
    BY <1>1 DEF RxRec
  <2>. QED  BY <2>3, <2>4 DEF e, a
<1>4. h2 \in Seq(Seq(UartBits))
  BY <1>1 DEF WireRec
<1>5. CASE ~wire.rx.busy /\ us.o = 1
  <2>1. wire' = w
    BY <1>1, <1>5 DEF DeviceRx
  <2>. QED  BY <1>1, <1>5, <2>1 DEF DeviceHears
<1>6. CASE ~wire.rx.busy /\ us.o # 1
  <2>1. wire' = [w EXCEPT !.rx = r0]
    BY <1>1, <1>6 DEF DeviceRx, Half
  <2>. HIDE DEF r0
  <2>2. wire' \in WireRec /\ wire'.rx = r0 /\ wire'.tx = w.tx /\ wire'.sent = w.sent /\ wire'.heard = w.heard
    BY <1>1, <1>3, <2>1 DEF WireRec
  <2>. QED  BY <1>1, <1>6, <2>2 DEF DeviceHears, r0
<1>7. CASE wire.rx.busy /\ wire.rx.baud > 0
  <2>1. wire' = [w EXCEPT !.rx = r1]
    <3>1. wire' = [w EXCEPT !.rx.baud = @ - 1]
      BY <1>1, <1>7 DEF DeviceRx
    <3>. QED  BY <1>1, <3>1 DEF WireRec, RxRec
  <2>. HIDE DEF r1
  <2>2. wire' \in WireRec /\ wire'.rx = r1 /\ wire'.tx = w.tx /\ wire'.sent = w.sent /\ wire'.heard = w.heard
    BY <1>1, <1>3, <2>1 DEF WireRec
  <2>. QED  BY <1>1, <1>7, <2>2 DEF DeviceHears, r1
<1>8. CASE wire.rx.busy /\ ~(wire.rx.baud > 0) /\ Len(wire.rx.bits) + 1 < FrameBits
  <2>1. wire' = [w EXCEPT !.rx = r2]
    <3>1. wire' = [w EXCEPT !.rx.bits = Append(@, us.o), !.rx.baud = B - 1]
      BY <1>1, <1>8 DEF DeviceRx
    <3>2. wire' = [w EXCEPT !.rx = [w.rx EXCEPT !.bits = Append(@, us.o), !.baud = B - 1]]
      BY <1>1, <3>1 DEF WireRec
    <3>. DEFINE a == Append(wire.rx.bits, us.o)
                c == B - 1
    <3>3. w.rx = wire.rx /\ wire.rx.busy = TRUE /\ wire.rx \in RxRec
      BY <1>1, <1>8
    <3>4. a \in Seq(UartBits) /\ c \in Int
      BY <1>1, <1>2
    <3>5. [w.rx EXCEPT !.bits = Append(@, us.o), !.baud = B - 1] = [wire.rx EXCEPT !.bits = a, !.baud = c]
      <4>. DEFINE r == w.rx
      <4>1. [r EXCEPT !.bits = Append(@, us.o), !.baud = B - 1] = [r EXCEPT !.bits = Append(r.bits, us.o), !.baud = B - 1]
        <5>1. r \in RxRec
          BY <3>3
        <5>. HIDE DEF r
        <5>. QED  BY <5>1 DEF RxRec
      <4>. QED  BY <3>3, <4>1
    <3>. HIDE DEF a, c
    <3>6. [wire.rx EXCEPT !.bits = a, !.baud = c] = [busy |-> TRUE, bits |-> a, baud |-> c]
      BY <3>3, <3>4, RxSet
    <3>. QED  BY <3>2, <3>5, <3>6 DEF a, c
  <2>. HIDE DEF r2
  <2>2. wire' \in WireRec /\ wire'.rx = r2 /\ wire'.tx = w.tx /\ wire'.sent = w.sent /\ wire'.heard = w.heard
    BY <1>1, <1>3, <2>1 DEF WireRec
  <2>. QED  BY <1>1, <1>8, <2>2 DEF DeviceHears, r2
<1>9. CASE wire.rx.busy /\ ~(wire.rx.baud > 0) /\ ~(Len(wire.rx.bits) + 1 < FrameBits)
  <2>1. wire' = [w EXCEPT !.rx = IdleRx, !.heard = h2]
    BY <1>1, <1>9 DEF DeviceRx
  <2>. HIDE DEF h2
  <2>2. wire' \in WireRec /\ wire'.rx = IdleRx /\ wire'.tx = w.tx /\ wire'.sent = w.sent /\ wire'.heard = h2
    BY <1>1, <1>3, <1>4, <2>1 DEF WireRec
  <2>. QED  BY <1>1, <1>9, <2>2 DEF DeviceHears, h2
<1>. QED  BY <1>1, <1>5, <1>6, <1>7, <1>8, <1>9

\* The links are as long as the setup is the same what they say of the next state.
LEMMA SameSetup ==
    ASSUME us'.cfg = us.cfg
    PROVE  /\ B' = B /\ Half' = Half /\ FrameLen' = FrameLen /\ FrameBits' = FrameBits
           /\ \A b : Frame(b)' = Frame(b)
<1>1. B' = B /\ Half' = Half
  BY DEF B, Half
<1>2. \A b : Parity(b)' = Parity(b)
  BY DEF Parity
<1>3. Stops' = Stops
  BY DEF Stops
<1>. QED  BY <1>1, <1>2, <1>3 DEF FrameLen, FrameBits, Frame

LEMMA SameLinks ==
    ASSUME us'.cfg = us.cfg
    PROVE  /\ DownAt(us', wire', client') => DownLink'
           /\ UpAt(us', wire', client') => UpLink'
<1>1. DownAt(us', wire', client') => DownLink'
  BY SameSetup DEF DownLink, DownAt, DownAs, Sending, Sampled, InStepDown
<1>2. UpAt(us', wire', client') => UpLink'
  <2>1. ASSUME UpIdle(us', wire', client') PROVE UpIdle(us, wire, client)'
    BY SameSetup, <2>1 DEF UpIdle, Sampled, LastComing
  <2>2. ASSUME NEW k, NEW f, UpAs(us', wire', client', k, f), f = Frame(wire'.sent[Len(wire'.sent)])
        PROVE  UpAs(us, wire, client, k, Frame(wire.sent[Len(wire.sent)]))'
    <3>1. f = Frame(wire.sent[Len(wire.sent)])' /\ Frame(wire'.sent[Len(wire'.sent) - 1]) = Frame(wire.sent[Len(wire.sent) - 1])'
      BY SameSetup, <2>2
    <3>2. Sending(wire.tx, Frame(wire.sent[Len(wire.sent)]), k)' /\ (k = 0 => us'.chg = B' - 1 - wire'.tx.baud)
      BY SameSetup, <2>2, <3>1 DEF UpAs, Sending
    <3>3. CASE /\ k = 0 /\ LastComing(us'.rx, Half + wire'.tx.baud - B - 1)
               /\ Len(client'.heard) + 2 = Len(wire'.sent)
               /\ Sampled(us'.rx, Frame(wire'.sent[Len(wire'.sent) - 1]))
      BY SameSetup, <3>1, <3>2, <3>3 DEF UpAs, LastComing, Sampled
    <3>4. CASE k = 0 /\ B - wire'.tx.baud <= Half /\ ~us'.rx.busy /\ Len(client'.heard) + 1 = Len(wire'.sent)
      BY SameSetup, <3>1, <3>2, <3>4 DEF UpAs
    <3>5. CASE /\ us'.rx.busy /\ Sampled(us'.rx, f) /\ Len(us'.rx.bits) + 1 <= FrameLen
               /\ InStepUp(us'.rx, wire'.tx, k)
               /\ Len(client'.heard) + 1 = Len(wire'.sent)
      BY SameSetup, <3>1, <3>2, <3>5 DEF UpAs, Sampled, InStepUp
    <3>. QED  BY <2>2, <3>3, <3>4, <3>5 DEF UpAs
  <2>3. (wire'.sent # <<>>) <=> (wire.sent # <<>>)'
    OBVIOUS
  <2>. QED  BY SameSetup, <2>1, <2>2, <2>3 DEF UpLink, UpAt
<1>. QED  BY <1>1, <1>2

LEMMA DownIntro ==
    ASSUME NEW u, NEW w, NEW c, NEW k, NEW f, c.taken # <<>>, f = Frame(c.taken[Len(c.taken)]),
           k \in 0 .. FrameLen - 1, DownAs(u, w, c, k, f)
    PROVE  DownAt(u, w, c)
BY DEF DownAt

LEMMA UpIntro ==
    ASSUME NEW u, NEW w, NEW c, NEW k, NEW f, w.sent # <<>>, f = Frame(w.sent[Len(w.sent)]),
           k \in 0 .. FrameLen - 1, UpAs(u, w, c, k, f)
    PROVE  UpAt(u, w, c)
BY DEF UpAt

\* The next sample is the next bit.
LEMMA SampledMore ==
    ASSUME us.cfg \in UartSetups, NEW rx \in RxRec, NEW rx2, NEW f, NEW o,
           Sampled(rx, f), rx2.bits = Append(rx.bits, o), o = f[Len(rx.bits) + 2]
    PROVE  Sampled(rx2, f) /\ Len(rx2.bits) = Len(rx.bits) + 1
<1>. DEFINE q == rx.bits
            j == Len(q)
<1>1. q \in Seq(UartBits) /\ j \in Nat
  BY DEF RxRec
<1>2. \A i \in 1 .. j : q[i] = f[i + 1]
  BY DEF Sampled
<1>3. rx2.bits = Append(q, o) /\ o = f[j + 2]
  OBVIOUS
<1>. HIDE DEF q
<1>4. Len(Append(q, o)) = j + 1 /\ Append(q, o)[j + 1] = o /\ \A i \in 1 .. j : Append(q, o)[i] = q[i]
  BY <1>1
<1>5. \A i \in 1 .. j + 1 : Append(q, o)[i] = f[i + 1]
  <2>. SUFFICES ASSUME NEW i \in 1 .. j + 1 PROVE Append(q, o)[i] = f[i + 1]
    OBVIOUS
  <2>1. CASE i = j + 1
    BY <1>1, <1>3, <1>4, <2>1
  <2>2. CASE i \in 1 .. j
    BY <1>1, <1>2, <1>4, <2>2
  <2>. QED  BY <1>1, <2>1, <2>2
<1>6. Sampled(rx2, f)
  BY <1>3, <1>4, <1>5 DEF Sampled
<1>. QED  BY <1>3, <1>4, <1>6 DEF q

\* All bits sampled are the frame without its start bit.
LEMMA SampledAll ==
    ASSUME us.cfg \in UartSetups, NEW b \in UartBytes, NEW rx, rx.bits \in Seq(UartBits),
           Sampled(rx, Frame(b)), Len(rx.bits) = FrameBits
    PROVE  rx.bits = Tail(Frame(b)) /\ SubSeq(rx.bits, 1, 8) = b
<1>. DEFINE f == Frame(b)
            q == rx.bits
<1>1. /\ f \in Seq(UartBits) /\ Len(f) = FrameLen /\ FrameLen = FrameBits + 1 /\ FrameBits \in Nat /\ FrameBits >= 9
      /\ \A i \in 1 .. 8 : f[i + 1] = b[i]
  BY FrameFacts, SetupFacts
<1>2. q \in Seq(UartBits) /\ Len(q) = FrameBits /\ \A i \in 1 .. FrameBits : q[i] = f[i + 1]
  BY DEF Sampled
<1>3. b \in [1 .. 8 -> {0, 1}]
  BY UartAssumption
<1>. HIDE DEF f, q
<1>4. f # <<>>
  BY <1>1
<1>5. Tail(f) \in Seq(UartBits) /\ Len(Tail(f)) = FrameBits /\ \A i \in 1 .. FrameBits : Tail(f)[i] = f[i + 1]
  BY <1>1, <1>4
<1>6. q = Tail(f)
  <2>1. \A i \in 1 .. Len(q) : q[i] = Tail(f)[i]
    BY <1>2, <1>5
  <2>2. Len(q) = Len(Tail(f))
    BY <1>2, <1>5
  <2>. QED  BY <1>2, <1>5, <2>1, <2>2, SeqEqual
<1>7. SubSeq(q, 1, 8) = [i \in 1 .. 8 |-> q[i]]
  BY <1>1, <1>2
<1>8. \A i \in 1 .. 8 : q[i] = b[i]
  BY <1>1, <1>2
<1>9. [i \in 1 .. 8 |-> q[i]] = b
  BY <1>3, <1>8
<1>. QED  BY <1>6, <1>7, <1>9 DEF q, f

\* A clock on the way from the client to the device.
LEMMA DownSending ==
    ASSUME us \in UsRec, wire \in WireRec, client \in ClientRec, Ticked, DeviceHears,
           NEW k, NEW b \in UartBytes, client.taken # <<>>, b = client.taken[Len(client.taken)],
           DownAs(us, wire, client, k, Frame(b)), us.o = Level(us.tx.bits)
    PROVE  /\ DownAt(us', wire', client') /\ client'.taken = client.taken /\ us'.tx \in TxRec
           /\ \/ wire'.heard = wire.heard
              \/ /\ Len(wire.heard) + 1 = Len(client.taken)
                 /\ wire'.heard = Append(wire.heard, Tail(Frame(b)))
<1>. DEFINE f == Frame(b)
            tx == us.tx
            rx == wire.rx
            j == Len(rx.bits)
<1>1. /\ us.cfg \in UartSetups /\ tx \in TxRec /\ rx \in RxRec /\ j \in Nat /\ rx.baud \in Int
      /\ rx.bits \in Seq(UartBits) /\ rx.busy \in BOOLEAN /\ Sending(tx, f, k)
  BY DEF Ticked, UsRec, WireRec, RxRec, DownAs
<1>2. /\ B \in Nat /\ B >= 2 /\ Half \in Nat /\ Half >= 1 /\ 2 * Half <= B /\ B <= 2 * Half + 1
      /\ FrameBits \in Nat /\ FrameBits >= 9 /\ FrameLen = FrameBits + 1
  BY <1>1, SetupFacts
<1>3. f[1] = 0 /\ f[FrameLen] = 1
  BY <1>1, FrameFacts
<1>4. tx.bits # <<>> /\ us.o = f[k + 1] /\ k \in 0 .. FrameLen - 1 /\ tx.baud \in Int /\ 0 <= tx.baud /\ tx.baud <= B - 1
  BY <1>1, SendingLevel
<1>5. us'.tx = TxNext(tx) /\ client'.taken = client.taken
  BY <1>4 DEF Ticked, UsSends
<1>6. /\ us'.tx \in TxRec
      /\ tx.baud > 0 => Sending(us'.tx, f, k) /\ us'.tx.baud = tx.baud - 1
      /\ tx.baud = 0 /\ k < FrameLen - 1 => Sending(us'.tx, f, k + 1) /\ us'.tx.baud = B - 1
      /\ tx.baud = 0 /\ k = FrameLen - 1 => us'.tx.bits = <<>>
  BY <1>1, <1>5, SendingGoesOn
<1>7. client'.taken # <<>> /\ f = Frame(client'.taken[Len(client'.taken)]) /\ Len(client'.taken) = Len(client.taken)
  BY <1>5
<1>8. Len(wire.heard) \in Nat /\ Len(client.taken) \in Nat
  BY DEF WireRec, ClientRec
<1>9. j \in Nat /\ k \in Int /\ tx.baud \in Int /\ 0 <= tx.baud /\ rx.baud \in Int
  BY <1>1, <1>2, <1>4
<1>. HIDE DEF f
<1>11. CASE k = 0 /\ tx.baud = B - 1 /\ ~rx.busy /\ Len(wire.heard) + 1 = Len(client.taken)
  <2>1. us.o # 1
    BY <1>3, <1>4, <1>11
  <2>2. wire'.rx = [busy |-> TRUE, bits |-> <<>>, baud |-> B + Half - 1] /\ wire'.heard = wire.heard
    BY <1>11, <2>1 DEF DeviceHears
  <2>3. wire'.rx.busy /\ Len(wire'.rx.bits) = 0 /\ wire'.rx.baud = B + Half - 1
    BY <2>2
  <2>4. Sending(us'.tx, f, 0) /\ us'.tx.baud = B - 2
    BY <1>2, <1>6, <1>11
  <2>5. Sampled(wire'.rx, f) /\ InStepDown(wire'.rx, us'.tx, 0) /\ Len(wire'.rx.bits) + 1 < FrameLen
    BY <1>2, <2>3, <2>4 DEF Sampled, InStepDown
  <2>6. DownAs(us', wire', client', 0, f) /\ 0 \in 0 .. FrameLen - 1
    BY <1>2, <1>7, <1>11, <2>2, <2>3, <2>4, <2>5 DEF DownAs
  <2>. QED  BY <1>5, <1>6, <1>7, <2>2, <2>6, DownIntro
<1>12. ASSUME rx.busy, Sampled(rx, f), j + 1 < FrameLen, InStepDown(rx, tx, k), Len(wire.heard) + 1 = Len(client.taken)
       PROVE  /\ DownAt(us', wire', client')
              /\ wire'.heard = wire.heard \/ wire'.heard = Append(wire.heard, Tail(f))
  <2>1. \/ k = j /\ rx.baud = Half + 1 + tx.baud
        \/ k = j + 1 /\ rx.baud + B - 1 = Half + tx.baud /\ rx.baud >= 0
    BY <1>12 DEF InStepDown
  <2>2. CASE rx.baud > 0
    <3>1. wire'.rx = [rx EXCEPT !.baud = @ - 1] /\ wire'.heard = wire.heard
      BY <1>12, <2>2 DEF DeviceHears
    <3>2. wire'.rx.busy /\ wire'.rx.bits = rx.bits /\ wire'.rx.baud = rx.baud - 1
      BY <1>1, <1>12, <3>1 DEF RxRec
    <3>3. Sampled(wire'.rx, f) /\ Len(wire'.rx.bits) = j
      BY <1>12, <3>2 DEF Sampled
    <3>4. CASE tx.baud > 0
      <4>1. InStepDown(wire'.rx, us'.tx, k)
        <5>1. us'.tx.baud = tx.baud - 1
          BY <1>6, <3>4
        <5>2. \/ k = j /\ rx.baud - 1 = Half + 1 + (tx.baud - 1)
              \/ k = j + 1 /\ (rx.baud - 1) + B - 1 = Half + (tx.baud - 1) /\ rx.baud - 1 >= 0
          <6>. HIDE DEF j, rx, tx
          <6>1. CASE k = j /\ rx.baud = Half + 1 + tx.baud
            <7>1. rx.baud - 1 = Half + 1 + (tx.baud - 1)
              BY <1>2, <1>9, <6>1
            <7>. QED  BY <6>1, <7>1
          <6>2. CASE k = j + 1 /\ rx.baud + B - 1 = Half + tx.baud /\ rx.baud >= 0
            <7>1. (rx.baud - 1) + B - 1 = Half + (tx.baud - 1)
              <8>1. \A r, t, h, n \in Int : r + n - 1 = h + t => (r - 1) + n - 1 = h + (t - 1)
                OBVIOUS
              <8>. QED  BY SMTT(40), <1>2, <1>9, <6>2, <8>1
            <7>2. rx.baud - 1 >= 0
              BY <1>9, <2>2
            <7>. QED  BY <6>2, <7>1, <7>2
          <6>. QED  BY <2>1, <6>1, <6>2
        <5>. QED  BY <3>2, <3>3, <5>1, <5>2 DEF InStepDown
      <4>2. DownAs(us', wire', client', k, f)
        BY <1>6, <1>7, <1>12, <3>1, <3>2, <3>3, <3>4, <4>1 DEF DownAs
      <4>. QED  BY <1>4, <1>7, <3>1, <4>2, DownIntro
    <3>5. CASE tx.baud = 0
      <4>1. k = j /\ k < FrameLen - 1 /\ k + 1 \in 0 .. FrameLen - 1 /\ rx.baud = Half + 1
        BY <1>1, <1>2, <1>4, <1>12, <2>1, <2>2, <3>5
      <4>2. InStepDown(wire'.rx, us'.tx, k + 1)
        <5>1. us'.tx.baud = B - 1
          BY <1>6, <3>5, <4>1
        <5>2. wire'.rx.baud = Half
          BY <1>2, <3>2, <4>1
        <5>3. k + 1 = Len(wire'.rx.bits) + 1
          BY <3>3, <4>1
        <5>4. wire'.rx.baud + B - 1 = Half + us'.tx.baud /\ wire'.rx.baud >= 0
          BY <1>2, <5>1, <5>2
        <5>. QED  BY <5>3, <5>4 DEF InStepDown
      <4>3. DownAs(us', wire', client', k + 1, f)
        BY <1>6, <1>7, <1>12, <3>1, <3>2, <3>3, <3>5, <4>1, <4>2 DEF DownAs
      <4>. QED  BY <1>7, <3>1, <4>1, <4>3, DownIntro
    <3>. QED  BY <1>4, <3>4, <3>5
  <2>3. CASE ~(rx.baud > 0) /\ j + 1 < FrameBits
    <3>1. wire'.rx = [busy |-> TRUE, bits |-> Append(rx.bits, us.o), baud |-> B - 1] /\ wire'.heard = wire.heard
      BY <1>12, <2>3 DEF DeviceHears
    <3>2. wire'.rx.busy /\ wire'.rx.bits = Append(rx.bits, us.o) /\ wire'.rx.baud = B - 1
      BY <3>1
    <3>3. k = j + 1 /\ rx.baud = 0 /\ tx.baud = B - 1 - Half
      <4>. HIDE DEF j, rx, tx
      <4>. QED  BY <1>2, <1>9, <2>1, <2>3
    <3>4. us.o = f[j + 2]
      BY <1>1, <1>4, <3>3
    <3>5. Sampled(wire'.rx, f) /\ Len(wire'.rx.bits) = j + 1
      BY <1>1, <1>12, <3>2, <3>4, SampledMore
    <3>6. CASE tx.baud > 0
      <4>1. InStepDown(wire'.rx, us'.tx, k)
        BY <1>1, <1>2, <1>4, <1>6, <3>2, <3>3, <3>5, <3>6 DEF InStepDown
      <4>2. DownAs(us', wire', client', k, f)
        BY <1>2, <1>6, <1>7, <1>12, <2>3, <3>1, <3>2, <3>5, <3>6, <4>1 DEF DownAs
      <4>. QED  BY <1>4, <1>7, <3>1, <4>2, DownIntro
    <3>7. CASE tx.baud = 0
      <4>1. k < FrameLen - 1 /\ k + 1 \in 0 .. FrameLen - 1 /\ Half = B - 1
        BY <1>1, <1>2, <1>4, <2>3, <3>3, <3>7
      <4>2. InStepDown(wire'.rx, us'.tx, k + 1)
        BY <1>1, <1>2, <1>4, <1>6, <3>2, <3>3, <3>5, <3>7, <4>1 DEF InStepDown
      <4>3. DownAs(us', wire', client', k + 1, f)
        BY <1>2, <1>6, <1>7, <1>12, <2>3, <3>1, <3>2, <3>5, <3>7, <4>1, <4>2 DEF DownAs
      <4>. QED  BY <1>7, <3>1, <4>1, <4>3, DownIntro
    <3>. QED  BY <1>4, <3>6, <3>7
  <2>4. CASE ~(rx.baud > 0) /\ ~(j + 1 < FrameBits)
    <3>1. wire'.rx = IdleRx /\ wire'.heard = Append(wire.heard, Append(rx.bits, us.o))
      BY <1>12, <2>4 DEF DeviceHears
    <3>2. k = j + 1 /\ rx.baud = 0 /\ k = FrameLen - 1 /\ j + 1 = FrameBits
      <4>. HIDE DEF j, rx, tx
      <4>1. k = j + 1 /\ rx.baud = 0
        BY <1>2, <1>9, <2>1, <2>4
      <4>. QED  BY <1>2, <1>9, <1>12, <2>4, <4>1
    <3>3. us.o = f[j + 2]
      BY <1>1, <1>4, <3>2
    <3>. DEFINE q == [bits |-> Append(rx.bits, us.o)]
    <3>4. q.bits = Append(rx.bits, us.o) /\ q.bits \in Seq(UartBits)
      <4>1. us.o \in UartBits
        BY DEF UsRec
      <4>. QED  BY <1>1, <4>1
    <3>. HIDE DEF q
    <3>5. Sampled(q, f) /\ Len(q.bits) = FrameBits
      BY <1>1, <1>12, <3>2, <3>3, <3>4, SampledMore
    <3>6. q.bits = Tail(f)
      BY <1>1, <3>4, <3>5, SampledAll DEF f
    <3>7. ~wire'.rx.busy /\ wire'.heard = Append(wire.heard, Tail(f)) /\ Len(wire'.heard) = Len(client'.taken)
      <4>1. Len(Append(wire.heard, Tail(f))) = Len(wire.heard) + 1
        BY DEF WireRec
      <4>. QED  BY <1>7, <1>12, <3>1, <3>4, <3>6, <4>1 DEF IdleRx
    <3>8. CASE tx.baud > 0
      <4>1. DownAs(us', wire', client', k, f)
        BY <1>6, <3>2, <3>7, <3>8 DEF DownAs
      <4>. QED  BY <1>4, <1>7, <3>7, <4>1, DownIntro
    <3>9. CASE tx.baud = 0
      <4>1. DownAt(us', wire', client')
        BY <1>6, <3>2, <3>7, <3>9 DEF DownAt
      <4>. QED  BY <3>7, <4>1
    <3>. QED  BY <1>4, <3>8, <3>9
  <2>. QED  BY <2>2, <2>3, <2>4
<1>13. CASE k = FrameLen - 1 /\ ~rx.busy /\ Len(wire.heard) = Len(client.taken)
  <2>1. us.o = 1
    BY <1>2, <1>3, <1>4, <1>13
  <2>2. wire'.rx = rx /\ wire'.heard = wire.heard
    BY <1>13, <2>1 DEF DeviceHears
  <2>3. CASE tx.baud > 0
    <3>1. DownAs(us', wire', client', k, f)
      BY <1>6, <1>7, <1>13, <2>2, <2>3 DEF DownAs
    <3>. QED  BY <1>4, <1>5, <1>6, <1>7, <2>2, <3>1, DownIntro
  <2>4. CASE tx.baud = 0
    <3>1. DownAt(us', wire', client')
      BY <1>6, <1>7, <1>13, <2>2, <2>4 DEF DownAt
    <3>. QED  BY <1>5, <1>6, <2>2, <3>1
  <2>. QED  BY <1>4, <2>3, <2>4
<1>. QED  BY <1>5, <1>6, <1>11, <1>12, <1>13 DEF DownAs, f

\* The state before a clock, as the links need it.
LEMMA BeforeTick ==
    ASSUME UartIInv, Ticked
    PROVE  /\ us \in UsRec /\ wire \in WireRec /\ client \in ClientRec /\ us.cfg \in UartSetups
           /\ DownLink /\ UpLink /\ us.o = Level(us.tx.bits) /\ us.last = Level(wire.tx.bits)
           /\ HeardSoFar /\ FramedAsTaken /\ DeviceHears
           /\ \E w : WireSends(w) /\ wire'.tx = w.tx /\ wire'.sent = w.sent
<1>1. /\ us \in UsRec /\ wire \in WireRec /\ client \in ClientRec /\ us.cfg \in UartSetups
      /\ DownLink /\ UpLink /\ us.o = Level(us.tx.bits) /\ us.last = Level(wire.tx.bits)
      /\ HeardSoFar /\ FramedAsTaken
  BY DEF UartIInv, Ticked
<1>2. PICK w : WireSends(w) /\ wire' = DeviceRx(w)
  BY DEF Ticked
<1>3. wire.rx \in RxRec /\ us.tx \in TxRec /\ wire.rx.baud \in Int /\ wire.rx.busy \in BOOLEAN
      /\ wire.rx.bits \in Seq(UartBits) /\ Len(wire.rx.bits) \in Nat
  BY <1>1 DEF WireRec, UsRec, RxRec
<1>4. (~wire.rx.busy => us.o \in {0, 1}) /\ (wire.rx.busy => wire.rx.baud >= 0)
  <2>1. CASE us.tx.bits = <<>> /\ ~wire.rx.busy
    BY <1>1, <2>1 DEF Level
  <2>2. ASSUME client.taken # <<>>,
               NEW k \in 0 .. FrameLen - 1, DownAs(us, wire, client, k, Frame(client.taken[Len(client.taken)]))
        PROVE  (~wire.rx.busy => us.o \in {0, 1}) /\ (wire.rx.busy => wire.rx.baud >= 0)
    <3>. DEFINE b == client.taken[Len(client.taken)]
                f == Frame(b)
    <3>1. b \in UartBytes
      <4>1. client.taken \in Seq(UartBytes)
        BY <1>1 DEF ClientRec
      <4>. QED  BY <2>2, <4>1
    <3>2. f[1] = 0 /\ f[FrameLen] = 1 /\ FrameLen \in Nat /\ B \in Nat /\ Half \in Nat /\ Half <= B - 1
      BY SMTT(40), <1>1, <3>1, FrameFacts, SetupFacts
    <3>3. Sending(us.tx, f, k)
      BY <2>2 DEF DownAs
    <3>4. us.o = f[k + 1] /\ us.tx.baud \in Int /\ us.tx.baud >= 0
      BY <1>1, <1>3, <3>3, SendingLevel
    <3>. HIDE DEF f
    <3>5. ~wire.rx.busy => k = 0 \/ k = FrameLen - 1
      BY <2>2 DEF DownAs, f
    <3>6. ~wire.rx.busy => us.o \in {0, 1}
      BY <2>2, <3>2, <3>4, <3>5
    <3>7. wire.rx.busy => InStepDown(wire.rx, us.tx, k)
      BY <2>2 DEF DownAs, f
    <3>8. wire.rx.busy => wire.rx.baud >= 0
      BY <1>3, <3>2, <3>4, <3>7 DEF InStepDown
    <3>. QED  BY <3>6, <3>8
  <2>. QED  BY <1>1, <2>1, <2>2 DEF DownLink, DownAt
<1>5. wire'.tx = w.tx /\ wire'.sent = w.sent /\ DeviceHears
  BY <1>1, <1>2, <1>4, ReceiverFacts
<1>. QED  BY <1>1, <1>2, <1>5

\* From the client to the device.
Framed(h, t) == Len(h) <= Len(t) /\ \A i \in 1 .. Len(h) : h[i] = Tail(Frame(t[i]))

LEMMA FramedMore ==
    ASSUME NEW S, NEW T, NEW h \in Seq(S), NEW t \in Seq(T), NEW b \in T, Framed(h, t)
    PROVE  Framed(h, Append(t, b))
<1>1. Len(Append(t, b)) = Len(t) + 1 /\ \A i \in 1 .. Len(t) : Append(t, b)[i] = t[i]
  OBVIOUS
<1>2. Len(h) \in Nat /\ Len(t) \in Nat /\ Len(h) <= Len(t)
  BY DEF Framed
<1>3. \A i \in 1 .. Len(h) : Append(t, b)[i] = t[i]
  BY <1>1, <1>2
<1>. DEFINE u == Append(t, b)
<1>. HIDE DEF u
<1>4. Len(h) <= Len(u)
  BY <1>1, <1>2 DEF u
<1>5. \A i \in 1 .. Len(h) : h[i] = Tail(Frame(u[i]))
  BY <1>3 DEF Framed, u
<1>6. Framed(h, u)
  BY <1>4, <1>5 DEF Framed
<1>. QED  BY <1>6 DEF u

LEMMA FramedNext ==
    ASSUME us'.cfg = us.cfg, wire' \in WireRec, Framed(wire'.heard, client'.taken)
    PROVE  FramedAsTaken'
<1>. DEFINE h == wire'.heard
            t == client'.taken
<1>1. DOMAIN h = 1 .. Len(h)
  BY DEF WireRec
<1>2. \A b : Frame(b)' = Frame(b)
  BY SameSetup
<1>3. Len(h) <= Len(t) /\ \A i \in DOMAIN h : h[i] = Tail(Frame(t[i]))
  BY <1>1 DEF Framed
<1>. QED  BY <1>2, <1>3 DEF FramedAsTaken
LEMMA DownTick ==
    ASSUME UartIInv, Ticked
    PROVE  /\ DownAt(us', wire', client') /\ FramedAsTaken'
           /\ client'.taken \in Seq(UartBytes) /\ us'.tx \in TxRec
<1>1. /\ us \in UsRec /\ wire \in WireRec /\ client \in ClientRec /\ us.cfg \in UartSetups
      /\ DownLink /\ us.o = Level(us.tx.bits) /\ FramedAsTaken /\ DeviceHears
  BY BeforeTick
<1>2. /\ client.taken \in Seq(UartBytes) /\ us.tx \in TxRec /\ wire.heard \in Seq(Seq(UartBits))
      /\ Len(wire.heard) \in Nat /\ Len(client.taken) \in Nat
  BY <1>1 DEF UsRec, ClientRec, WireRec
<1>3. \A b : Frame(b)' = Frame(b)
  BY SameSetup DEF Ticked
<1>4. Framed(wire.heard, client.taken) /\ us'.cfg = us.cfg /\ wire' \in WireRec
  <2>1. DOMAIN wire.heard = 1 .. Len(wire.heard)
    BY <1>2
  <2>2. Framed(wire.heard, client.taken)
    BY <1>1, <2>1 DEF FramedAsTaken, Framed
  <2>3. us'.cfg = us.cfg
    BY DEF Ticked
  <2>4. wire' \in WireRec
    BY <1>1 DEF DeviceHears
  <2>. QED  BY <2>2, <2>3, <2>4
<1>5. CASE us.tx.bits = <<>> /\ ~wire.rx.busy /\ Len(wire.heard) = Len(client.taken)
  <2>1. us.o = 1
    BY <1>1, <1>5 DEF Level
  <2>2. wire'.rx = wire.rx /\ wire'.heard = wire.heard
    BY <1>1, <1>5, <2>1 DEF DeviceHears
  <2>3. CASE us'.tx = us.tx /\ client'.taken = client.taken
    <3>1. DownAt(us', wire', client')
      BY <1>5, <2>2, <2>3 DEF DownAt
    <3>2. FramedAsTaken'
      BY <1>4, <2>2, <2>3, FramedNext
    <3>. QED  BY <1>2, <2>3, <3>1, <3>2
  <2>4. ASSUME NEW b \in UartBytes, us'.tx = Start(b), client'.taken = Append(client.taken, b)
        PROVE  /\ DownAt(us', wire', client') /\ FramedAsTaken'
               /\ client'.taken \in Seq(UartBytes) /\ us'.tx \in TxRec
    <3>. DEFINE q == client.taken
    <3>0. q \in Seq(UartBytes)
      BY <1>2
    <3>. HIDE DEF q
    <3>1. /\ client'.taken \in Seq(UartBytes) /\ Len(client'.taken) = Len(client.taken) + 1
          /\ client'.taken # <<>> /\ client'.taken[Len(client'.taken)] = b
      <4>1. /\ Append(q, b) \in Seq(UartBytes) /\ Len(Append(q, b)) = Len(q) + 1
            /\ Append(q, b) # <<>> /\ Append(q, b)[Len(q) + 1] = b
        BY <3>0
      <4>. QED  BY <2>4, <4>1 DEF q
    <3>2. us'.tx \in TxRec /\ Sending(us'.tx, Frame(b), 0) /\ us'.tx.baud = B - 1
      BY <1>1, <2>4, StartSends
    <3>3. 0 \in 0 .. FrameLen - 1
      BY <1>1, SetupFacts
    <3>4. DownAs(us', wire', client', 0, Frame(b))
      BY <1>5, <2>2, <3>1, <3>2 DEF DownAs
    <3>5. DownAt(us', wire', client')
      BY <3>1, <3>3, <3>4, DownIntro
    <3>6. FramedAsTaken'
      <4>1. Framed(wire.heard, Append(client.taken, b))
        BY <1>2, <1>4, FramedMore
      <4>. QED  BY <1>4, <2>2, <2>4, <4>1, FramedNext
    <3>. QED  BY <3>1, <3>2, <3>5, <3>6
  <2>. QED  BY <1>5, <2>3, <2>4 DEF Ticked, UsSends
<1>6. ASSUME client.taken # <<>>,
             NEW k \in 0 .. FrameLen - 1, DownAs(us, wire, client, k, Frame(client.taken[Len(client.taken)]))
      PROVE  /\ DownAt(us', wire', client') /\ FramedAsTaken'
             /\ client'.taken \in Seq(UartBytes) /\ us'.tx \in TxRec
  <2>. DEFINE n == Len(client.taken)
              b == client.taken[n]
  <2>1. b \in UartBytes
    BY <1>2, <1>6
  <2>2. /\ DownAt(us', wire', client') /\ client'.taken = client.taken /\ us'.tx \in TxRec
        /\ \/ wire'.heard = wire.heard
           \/ Len(wire.heard) + 1 = n /\ wire'.heard = Append(wire.heard, Tail(Frame(b)))
    BY <1>1, <1>6, <2>1, DownSending
  <2>3. CASE wire'.heard = wire.heard
    <3>1. FramedAsTaken'
      BY <1>4, <2>2, <2>3, FramedNext
    <3>. QED  BY <1>2, <2>2, <3>1
  <2>4. CASE Len(wire.heard) + 1 = n /\ wire'.heard = Append(wire.heard, Tail(Frame(b)))
    <3>. DEFINE x == Tail(Frame(b))
                h == Append(wire.heard, x)
    <3>1. x \in Seq(UartBits)
      <4>1. Frame(b) \in Seq(UartBits) /\ Len(Frame(b)) = FrameLen /\ FrameLen \in Nat /\ FrameLen > 0
        BY SMTT(40), <1>1, <2>1, FrameFacts, SetupFacts
      <4>2. Frame(b) # <<>>
        BY <4>1
      <4>. QED  BY <4>1, <4>2
    <3>. HIDE DEF x
    <3>2. Len(h) = n /\ h[n] = x /\ \A i \in 1 .. Len(wire.heard) : h[i] = wire.heard[i]
      BY <1>2, <2>4, <3>1
    <3>3. DOMAIN h = 1 .. n
      BY <1>2, <3>1, <3>2
    <3>4. \A i \in 1 .. n : h[i] = Tail(Frame(client.taken[i]))
      <4>. SUFFICES ASSUME NEW i \in 1 .. n PROVE h[i] = Tail(Frame(client.taken[i]))
        OBVIOUS
      <4>1. CASE i = n
        BY <3>2, <4>1 DEF x
      <4>2. CASE i \in 1 .. Len(wire.heard)
        BY <1>4, <3>2, <4>2 DEF Framed
      <4>. QED  BY SMTT(40), <1>2, <2>4, <4>1, <4>2
    <3>. HIDE DEF h
    <3>5. wire'.heard = h
      BY <2>4 DEF h, x
    <3>6. Framed(h, client.taken)
      BY <1>2, <3>2, <3>4 DEF Framed
    <3>7. FramedAsTaken'
      BY <1>4, <2>2, <3>5, <3>6, FramedNext
    <3>. QED  BY <1>2, <2>2, <3>7
  <2>. QED  BY <2>2, <2>3, <2>4
<1>. QED  BY <1>1, <1>5, <1>6 DEF DownLink, DownAt

\* What the simulator's receiver does in a clock that ends with i on the wire.
UsHears(i) ==
    /\ us'.rx \in RxRec /\ us'.chg \in Int
    /\ i = 0 /\ us.last = 1 => us'.chg = 0
    /\ i = 0 /\ us.last = 0 /\ us.chg < 2 * B => us'.chg = us.chg + 1
    /\ ~us.rx.busy /\ i = 1 => us'.rx = us.rx
    /\ ~us.rx.busy /\ i = 0 => us'.rx = [busy |-> TRUE, bits |-> <<>>, baud |-> B + Half - 1 - us'.chg]
    /\ us.rx.busy /\ us.rx.baud > 0 => us'.rx = [us.rx EXCEPT !.baud = @ - 1]
    /\ FrameDone => ~us'.rx.busy
    /\ us.rx.busy /\ ~(us.rx.baud > 0) /\ Len(us.rx.bits) < FrameBits
         => us'.rx = [us.rx EXCEPT !.bits = Append(@, i), !.baud = B - 1]

LEMMA SampleFacts ==
    ASSUME us \in UsRec, us.cfg \in UartSetups, Ticked, NEW i, i = Level(wire'.tx.bits), i \in UartBits,
           ~us.rx.busy => i \in {0, 1}
    PROVE  UsHears(i)
<1>1. us.rx \in RxRec /\ us.chg \in Int /\ us.rx.busy \in BOOLEAN /\ us.rx.baud \in Int
      /\ us.rx.bits \in Seq(UartBits) /\ Len(us.rx.bits) \in Nat
  BY DEF UsRec, RxRec
<1>2. B \in Nat /\ Half \in Nat /\ FrameBits \in Nat
  BY SetupFacts
<1>3. us'.rx = Sample(i) /\ us'.chg = ChangeCtr(i)
  BY DEF Ticked
<1>4. us'.chg \in Int
  BY <1>1, <1>3 DEF ChangeCtr
<1>5. /\ i = 0 /\ us.last = 1 => us'.chg = 0
      /\ i = 0 /\ us.last = 0 /\ us.chg < 2 * B => us'.chg = us.chg + 1
  BY <1>1, <1>3 DEF ChangeCtr
<1>. DEFINE r0 == [busy |-> TRUE, bits |-> <<>>, baud |-> B + Half - 1 - us'.chg]
            r1 == [us.rx EXCEPT !.baud = @ - 1]
            r2 == [IdleRx EXCEPT !.baud = B - 1]
            r3 == [us.rx EXCEPT !.bits = Append(@, i), !.baud = B - 1]
<1>6. r0 \in RxRec /\ r1 \in RxRec /\ r2 \in RxRec /\ r3 \in RxRec
  <2>. DEFINE e == <<>>
              c == B + Half - 1 - us'.chg
              d == B - 1
              z == 0
  <2>1. e \in Seq(UartBits) /\ c \in Int /\ d \in Int /\ z \in Int
    BY <1>2, <1>4
  <2>. HIDE DEF e, c, d, z
  <2>2. [busy |-> TRUE, bits |-> e, baud |-> c] \in RxRec /\ [busy |-> FALSE, baud |-> z, bits |-> e] \in RxRec
    BY <2>1 DEF RxRec
  <2>3. [[busy |-> FALSE, baud |-> z, bits |-> e] EXCEPT !.baud = d] \in RxRec
    BY <2>1, <2>2 DEF RxRec
  <2>4. r1 \in RxRec
    BY <1>1 DEF RxRec
  <2>5. r3 \in RxRec
    <3>. DEFINE r == us.rx
                q == Append(r.bits, i)
    <3>1. r \in RxRec /\ q \in Seq(UartBits) /\ d \in Int
      BY <1>1, <2>1
    <3>2. [r EXCEPT !.bits = Append(@, i), !.baud = B - 1] = [r EXCEPT !.bits = q, !.baud = d]
      <4>. HIDE DEF r
      <4>. QED  BY <3>1 DEF RxRec, q, d
    <3>. HIDE DEF r, q
    <3>3. [r EXCEPT !.bits = q, !.baud = d] \in RxRec
      BY <3>1 DEF RxRec
    <3>. QED  BY <3>2, <3>3 DEF r
  <2>. QED  BY <2>2, <2>3, <2>4, <2>5 DEF e, c, d, z, IdleRx
<1>7. CASE ~us.rx.busy /\ i = 1
  <2>1. us'.rx = us.rx
    <3>1. ~FrameDone
      BY <1>7 DEF FrameDone
    <3>2. Sample(i) = us.rx
      BY <1>7, <3>1 DEF Sample
    <3>. QED  BY <1>3, <3>2
  <2>. QED  BY <1>1, <1>4, <1>5, <1>7, <2>1 DEF UsHears, FrameDone
<1>8. CASE ~us.rx.busy /\ i = 0
  <2>1. us'.rx = r0
    <3>1. ~FrameDone
      BY <1>8 DEF FrameDone
    <3>2. Sample(i) = [busy |-> TRUE, bits |-> <<>>, baud |-> B + Half - 1 - ChangeCtr(i)]
      BY <1>8, <3>1 DEF Sample, Half
    <3>. QED  BY <1>3, <3>2
  <2>. HIDE DEF r0
  <2>2. us'.rx \in RxRec
    BY <1>6, <2>1
  <2>. QED  BY <1>4, <1>5, <1>8, <2>1, <2>2 DEF UsHears, FrameDone, r0
<1>9. CASE us.rx.busy /\ us.rx.baud > 0
  <2>0. ~FrameDone
    BY <1>1, <1>9 DEF FrameDone
  <2>1. us'.rx = r1
    BY <1>3, <1>9, <2>0 DEF Sample
  <2>. QED  BY <1>4, <1>5, <1>6, <1>9, <2>0, <2>1 DEF UsHears
<1>10. CASE FrameDone
  <2>0. us.rx.busy /\ ~(us.rx.baud > 0) /\ ~(Len(us.rx.bits) < FrameBits)
    BY <1>1, <1>2, <1>10 DEF FrameDone
  <2>1. us'.rx = r2
    BY <1>3, <1>10, <2>0 DEF Sample
  <2>2. ~r2.busy
    BY DEF IdleRx
  <2>. QED  BY <1>4, <1>5, <1>6, <1>10, <2>0, <2>1, <2>2 DEF UsHears
<1>11. CASE us.rx.busy /\ ~(us.rx.baud > 0) /\ ~FrameDone
  <2>1. us'.rx = r3
    BY <1>3, <1>11 DEF Sample
  <2>. QED  BY <1>4, <1>5, <1>6, <1>11, <2>1 DEF UsHears
<1>. QED  BY <1>1, <1>7, <1>8, <1>9, <1>10, <1>11

LEMMA SameBits ==
    ASSUME NEW rx, NEW rx2, NEW f, Sampled(rx, f), rx2.bits = rx.bits
    PROVE  Sampled(rx2, f)
BY DEF Sampled

\* A clock on the way from the device while it sends.
LEMMA UpSending ==
    ASSUME us \in UsRec, wire \in WireRec, client \in ClientRec, us.cfg \in UartSetups,
           NEW k, NEW b \in UartBytes, wire.sent # <<>>, b = wire.sent[Len(wire.sent)],
           UpAs(us, wire, client, k, Frame(b)), us.last = Level(wire.tx.bits),
           Len(wire.sent) > 1 => wire.sent[Len(wire.sent) - 1] \in UartBytes,
           wire'.tx = TxNext(wire.tx), wire'.sent = wire.sent, wire'.tx \in TxRec,
           NEW i, i = Level(wire'.tx.bits), UsHears(i),
           client'.heard = IF FrameDone THEN Append(client.heard, SubSeq(us.rx.bits, 1, 8)) ELSE client.heard
    PROVE  /\ UpAt(us', wire', client')
           /\ \/ client'.heard = client.heard
              \/ /\ Len(client.heard) < Len(wire.sent)
                 /\ client'.heard = Append(client.heard, wire.sent[Len(client.heard) + 1])
<1>. DEFINE f == Frame(b)
            tx == wire.tx
            rx == us.rx
            rx2 == us'.rx
            tx2 == wire'.tx
            j == Len(rx.bits)
            n == Len(wire.sent)
            h == Len(client.heard)
<1>1. /\ tx \in TxRec /\ rx \in RxRec /\ j \in Nat /\ rx.baud \in Int /\ rx2 \in RxRec
      /\ rx.bits \in Seq(UartBits) /\ rx.busy \in BOOLEAN /\ Sending(tx, f, k)
      /\ n \in Nat /\ n > 0 /\ h \in Nat /\ wire'.sent # <<>> /\ f = Frame(wire'.sent[Len(wire'.sent)])
      /\ client.heard \in Seq(Seq(UartBits)) /\ us.chg \in Int /\ us'.chg \in Int
  <2>1. /\ rx \in RxRec /\ rx2 \in RxRec /\ us.chg \in Int /\ us'.chg \in Int
    BY DEF UsRec, UsHears
  <2>2. tx \in TxRec /\ wire.sent \in Seq(UartBytes) /\ client.heard \in Seq(Seq(UartBits))
    BY DEF WireRec, ClientRec
  <2>3. n \in Nat /\ n > 0 /\ h \in Nat
    BY <2>2
  <2>4. j \in Nat /\ rx.baud \in Int /\ rx.bits \in Seq(UartBits) /\ rx.busy \in BOOLEAN
    BY <2>1 DEF RxRec
  <2>5. Sending(tx, f, k)
    BY DEF UpAs
  <2>6. wire'.sent # <<>> /\ f = Frame(wire'.sent[Len(wire'.sent)])
    OBVIOUS
  <2>. QED  BY <2>1, <2>2, <2>3, <2>4, <2>5, <2>6
<1>2. /\ B \in Nat /\ B >= 2 /\ Half \in Nat /\ Half >= 1 /\ 2 * Half <= B /\ B <= 2 * Half + 1
      /\ FrameBits \in Nat /\ FrameBits >= 9 /\ FrameLen = FrameBits + 1
  BY SetupFacts
<1>3. f[1] = 0 /\ f[FrameLen] = 1
  BY FrameFacts
<1>4. us.last = f[k + 1] /\ k \in 0 .. FrameLen - 1 /\ k \in Int /\ tx.baud \in Int /\ 0 <= tx.baud /\ tx.baud <= B - 1
  BY <1>1, <1>2, SendingLevel
<1>5. /\ 0 \in 0 .. FrameLen - 1 /\ j \in Nat /\ rx.baud \in Int /\ n \in Nat /\ h \in Nat
      /\ k \in Int /\ tx.baud \in Int /\ 0 <= tx.baud /\ tx.baud <= B - 1 /\ B \in Int /\ Half \in Int
  BY <1>1, <1>2, <1>4
<1>6. /\ tx.baud > 0 => Sending(tx2, f, k) /\ tx2.baud = tx.baud - 1
      /\ tx.baud = 0 /\ k < FrameLen - 1 => Sending(tx2, f, k + 1) /\ tx2.baud = B - 1
      /\ tx.baud = 0 /\ k = FrameLen - 1 => tx2.bits = <<>>
  BY <1>1, SendingGoesOn
<1>7. tx.baud > 0 => i = f[k + 1] /\ tx2.baud \in Int
  BY <1>1, <1>4, <1>6, SendingLevel
<1>. HIDE DEF f
<1>8. tx.baud > 0 /\ k = 0 => i = 0 /\ us.last = 0
  BY <1>3, <1>4, <1>7
<1>9. tx.baud > 0 /\ k = 0 => us'.chg = B - 1 - tx2.baud
  <2>. SUFFICES ASSUME tx.baud > 0, k = 0 PROVE us'.chg = B - 1 - tx2.baud
    OBVIOUS
  <2>1. us.chg = B - 1 - tx.baud
    BY DEF UpAs
  <2>2. us.chg < 2 * B
    BY <1>2, <1>4, <2>1
  <2>3. us'.chg = us.chg + 1
    BY <1>8, <2>2 DEF UsHears
  <2>. HIDE DEF tx, tx2
  <2>. QED  BY <1>2, <1>4, <1>6, <2>1, <2>3
<1>10. ASSUME rx.busy, rx.baud > 0
       PROVE  rx2.busy /\ rx2.bits = rx.bits /\ rx2.baud = rx.baud - 1 /\ client'.heard = client.heard
  <2>1. ~FrameDone
    BY <1>1, <1>10 DEF FrameDone
  <2>2. us'.rx = [us.rx EXCEPT !.baud = @ - 1]
    BY <1>10 DEF UsHears
  <2>3. rx2.busy /\ rx2.bits = rx.bits /\ rx2.baud = rx.baud - 1
    BY <1>1, <1>10, <2>2 DEF RxRec
  <2>. QED  BY <2>1, <2>3
<1>11. CASE /\ k = 0 /\ LastComing(rx, Half + tx.baud - B - 1) /\ h + 2 = n
            /\ Sampled(rx, Frame(wire.sent[n - 1]))
  <2>1. rx.busy /\ 0 <= rx.baud /\ rx.baud <= Half + tx.baud - B - 1 /\ Len(rx.bits) = FrameBits
    BY <1>11 DEF LastComing
  <2>2. tx.baud > 0 /\ B - (tx.baud - 1) <= Half
    <3>. HIDE DEF tx, rx
    <3>1. 0 <= Half + (tx.baud - B - 1)
      BY <1>2, <1>5, <2>1
    <3>. QED  BY <1>2, <1>5, <3>1
  <2>3. Sending(tx2, f, 0) /\ tx2.baud = tx.baud - 1 /\ us'.chg = B - 1 - tx2.baud
    BY <1>6, <1>9, <1>11, <2>2
  <2>4. CASE rx.baud > 0
    <3>1. LastComing(rx2, Half + tx2.baud - B - 1)
      <4>1. rx.baud - 1 <= Half + (tx.baud - 1) - B - 1
        <5>. HIDE DEF tx, rx
        <5>. QED  BY <1>2, <1>5, <2>1
      <4>. QED  BY <1>1, <1>10, <2>1, <2>3, <2>4, <4>1 DEF LastComing
    <3>2. Sampled(rx2, Frame(wire'.sent[Len(wire'.sent) - 1]))
      BY <1>10, <1>11, <2>1, <2>4, SameBits
    <3>3. UpAs(us', wire', client', 0, f)
      BY <1>10, <1>11, <2>1, <2>3, <2>4, <3>1, <3>2 DEF UpAs
    <3>4. UpAt(us', wire', client')
      BY <1>1, <1>5, <3>3, UpIntro
    <3>. QED  BY <1>10, <2>1, <2>4, <3>4
  <2>5. CASE rx.baud = 0
    <3>1. FrameDone
      BY <1>2, <2>1, <2>5 DEF FrameDone
    <3>2. ~rx2.busy
      BY <3>1 DEF UsHears
    <3>. DEFINE c == wire.sent[n - 1]
    <3>3. c \in UartBytes
      BY <1>1, <1>11
    <3>4. SubSeq(rx.bits, 1, 8) = c
      BY <1>1, <1>11, <2>1, <3>3, SampledAll
    <3>5. client'.heard = Append(client.heard, c) /\ Len(client'.heard) = h + 1
      <4>1. client'.heard = Append(client.heard, c)
        BY <3>1, <3>4
      <4>2. c \in Seq(UartBits)
        <5>1. c \in [1 .. 8 -> {0, 1}]
          BY <3>3, UartAssumption
        <5>2. c \in [1 .. 8 -> UartBits]
          BY <5>1 DEF UartBits
        <5>. QED  BY <5>2, SeqOfFcn
      <4>. HIDE DEF c
      <4>3. Len(Append(client.heard, c)) = Len(client.heard) + 1
        BY <1>1, <4>2
      <4>. QED  BY <4>1, <4>3
    <3>6. UpAs(us', wire', client', 0, f)
      <4>1. B - tx2.baud <= Half
        BY <2>2, <2>3
      <4>2. Len(client'.heard) + 1 = Len(wire'.sent)
        BY <1>1, <1>11, <3>5
      <4>. QED  BY <2>3, <3>2, <4>1, <4>2 DEF UpAs
    <3>7. h < n /\ n - 1 = h + 1
      BY <1>1, <1>11
    <3>8. UpAt(us', wire', client')
      BY <1>1, <1>5, <3>6, UpIntro
    <3>. QED  BY <3>5, <3>7, <3>8
  <2>. QED  BY <1>1, <2>1, <2>4, <2>5
<1>12. CASE k = 0 /\ B - tx.baud <= Half /\ ~rx.busy /\ h + 1 = n
  <2>1. tx.baud > 0
    <3>. HIDE DEF tx, rx
    <3>. QED  BY <1>2, <1>4, <1>12
  <2>2. Sending(tx2, f, 0) /\ tx2.baud = tx.baud - 1 /\ us'.chg = B - 1 - tx2.baud /\ i = 0
    BY <1>6, <1>8, <1>9, <1>12, <2>1
  <2>3. rx2 = [busy |-> TRUE, bits |-> <<>>, baud |-> B + Half - 1 - us'.chg]
    BY <1>12, <2>2 DEF UsHears
  <2>4. rx2.busy /\ Len(rx2.bits) = 0 /\ rx2.baud = B + Half - 1 - us'.chg
    BY <2>3
  <2>5. rx2.baud = Half + tx2.baud
    <3>. HIDE DEF tx, rx2, tx2
    <3>1. rx2.baud = B + Half - 1 - (B - 1 - (tx.baud - 1))
      BY <2>2, <2>4
    <3>2. \A x, y, z \in Int : x + y - 1 - (x - 1 - (z - 1)) = y + (z - 1)
      OBVIOUS
    <3>3. B + Half - 1 - (B - 1 - (tx.baud - 1)) = Half + (tx.baud - 1)
      BY Zenon, <1>5, <3>2
    <3>. QED  BY <2>2, <3>1, <3>3
  <2>6. Sampled(rx2, f) /\ InStepUp(rx2, tx2, 0) /\ Len(rx2.bits) + 1 <= FrameLen
    BY <1>2, <2>4, <2>5 DEF Sampled, InStepUp
  <2>7. client'.heard = client.heard
    BY <1>12 DEF FrameDone
  <2>8. UpAs(us', wire', client', 0, f)
    BY <1>12, <2>2, <2>4, <2>6, <2>7 DEF UpAs
  <2>9. UpAt(us', wire', client')
    BY <1>1, <1>5, <2>8, UpIntro
  <2>. QED  BY <2>7, <2>9
<1>13. ASSUME rx.busy, Sampled(rx, f), j + 1 <= FrameLen, InStepUp(rx, tx, k), h + 1 = n
       PROVE  UpAt(us', wire', client') /\ client'.heard = client.heard
  <2>1. \/ k = j /\ rx.baud = Half + tx.baud
        \/ k = j + 1 /\ rx.baud + B = Half + tx.baud /\ rx.baud >= 0
    BY <1>13 DEF InStepUp
  <2>2. CASE rx.baud > 0
    <3>1. rx2.busy /\ rx2.bits = rx.bits /\ rx2.baud = rx.baud - 1 /\ client'.heard = client.heard /\ Sampled(rx2, f)
      BY <1>10, <1>13, <2>2, SameBits
    <3>2. CASE tx.baud > 0
      <4>1. InStepUp(rx2, tx2, k)
        <5>1. \/ k = j /\ rx.baud - 1 = Half + (tx.baud - 1)
              \/ k = j + 1 /\ (rx.baud - 1) + B = Half + (tx.baud - 1) /\ rx.baud - 1 >= 0
          <6>. HIDE DEF j, rx, tx
          <6>2. CASE k = j /\ rx.baud = Half + tx.baud
            BY <1>2, <1>5, <6>2
          <6>3. CASE k = j + 1 /\ rx.baud + B = Half + tx.baud /\ rx.baud >= 0
            <7>1. (rx.baud - 1) + B = Half + (tx.baud - 1)
              <8>. DEFINE p == rx.baud
                          q == tx.baud
              <8>1. p \in Int /\ q \in Int /\ B \in Int /\ Half \in Int /\ p + B = Half + q
                BY <1>5, <6>3
              <8>. HIDE DEF p, q
              <8>2. (p - 1) + B = Half + (q - 1)
                BY <8>1
              <8>. QED  BY <8>2 DEF p, q
            <7>2. rx.baud - 1 >= 0
              BY <1>5, <2>2
            <7>. QED  BY <6>3, <7>1, <7>2
          <6>. QED  BY <2>1, <6>2, <6>3
        <5>. QED  BY <1>6, <3>1, <3>2, <5>1 DEF InStepUp
      <4>2. UpAs(us', wire', client', k, f)
        BY <1>6, <1>9, <1>13, <3>1, <3>2, <4>1 DEF UpAs
      <4>. QED  BY <1>1, <1>4, <3>1, <4>2, UpIntro
    <3>3. CASE tx.baud = 0
      <4>1. k = j /\ rx.baud = Half
        <5>. HIDE DEF j, rx, tx
        <5>. QED  BY <1>2, <1>5, <2>1, <3>3
      <4>2. CASE k < FrameLen - 1
        <5>1. Sending(tx2, f, k + 1) /\ tx2.baud = B - 1 /\ k + 1 # 0 /\ k + 1 \in 0 .. FrameLen - 1
          BY <1>2, <1>4, <1>6, <3>3, <4>2
        <5>2. rx2.baud = Half - 1 /\ (Half - 1) + B = Half + (B - 1) /\ Half - 1 >= 0
          BY <1>2, <3>1, <4>1
        <5>3. InStepUp(rx2, tx2, k + 1)
          BY <3>1, <4>1, <5>1, <5>2 DEF InStepUp
        <5>4. UpAs(us', wire', client', k + 1, f)
          BY <1>13, <3>1, <5>1, <5>3 DEF UpAs
        <5>. QED  BY <1>1, <3>1, <5>1, <5>4, UpIntro
      <4>3. CASE k = FrameLen - 1
        <5>1. tx2.bits = <<>>
          BY <1>6, <3>3, <4>3
        <5>2. LastComing(rx2, Half - 1)
          BY <1>2, <3>1, <4>1, <4>3 DEF LastComing
        <5>3. Sampled(rx2, Frame(wire'.sent[Len(wire'.sent)]))
          BY <1>1, <3>1
        <5>4. UpIdle(us', wire', client')
          BY <1>13, <3>1, <5>1, <5>2, <5>3 DEF UpIdle
        <5>. QED  BY <3>1, <5>4 DEF UpAt
      <4>. QED  BY <1>2, <1>4, <4>2, <4>3
    <3>. QED  BY <1>4, <3>2, <3>3
  <2>3. CASE ~(rx.baud > 0)
    <3>1. k = j + 1 /\ rx.baud = 0 /\ tx.baud = B - Half /\ tx.baud > 0 /\ j < FrameBits
      <4>1. k = j + 1 /\ rx.baud = 0 /\ tx.baud = B - Half
        <5>. HIDE DEF j, rx, tx
        <5>. QED  BY <1>2, <1>5, <2>1, <2>3
      <4>. QED  BY <1>1, <1>2, <1>4, <4>1
    <3>2. us'.rx = [us.rx EXCEPT !.bits = Append(@, i), !.baud = B - 1]
      BY <1>13, <3>1, <2>3 DEF UsHears
    <3>3. rx2.busy /\ rx2.bits = Append(rx.bits, i) /\ rx2.baud = B - 1
      BY <1>1, <1>13, <3>2 DEF RxRec
    <3>4. i = f[j + 2]
      BY <1>1, <1>7, <3>1
    <3>5. Sampled(rx2, f) /\ Len(rx2.bits) = j + 1
      BY <1>1, <1>13, <3>3, <3>4, SampledMore
    <3>6. ~FrameDone
      BY <1>1, <1>2, <3>1 DEF FrameDone
    <3>7. Sending(tx2, f, k) /\ tx2.baud = tx.baud - 1
      BY <1>6, <3>1
    <3>8. InStepUp(rx2, tx2, k)
      <4>1. B - 1 = Half + (tx.baud - 1)
        BY <1>2, <3>1
      <4>. QED  BY <3>1, <3>3, <3>5, <3>7, <4>1 DEF InStepUp
    <3>9. UpAs(us', wire', client', k, f)
      <4>1. Len(rx2.bits) + 1 <= FrameLen /\ k # 0
        BY SMTT(40), <1>1, <1>2, <1>4, <3>1, <3>5
      <4>. QED  BY <1>13, <3>3, <3>5, <3>6, <3>7, <3>8, <4>1 DEF UpAs
    <3>. QED  BY <1>1, <1>4, <3>6, <3>9, UpIntro
  <2>. QED  BY <2>2, <2>3
<1>. QED  BY <1>11, <1>12, <1>13 DEF UpAs, f

\* A clock with the wire of the device free before it.
LEMMA UpIdling ==
    ASSUME us \in UsRec, wire \in WireRec, client \in ClientRec, us.cfg \in UartSetups,
           UpIdle(us, wire, client), us.last = 1, NEW i, UsHears(i),
           wire.sent # <<>> => wire.sent[Len(wire.sent)] \in UartBytes,
           client'.heard = IF FrameDone THEN Append(client.heard, SubSeq(us.rx.bits, 1, 8)) ELSE client.heard,
           \/ wire'.tx.bits = <<>> /\ wire'.sent = wire.sent /\ i = 1
           \/ i = 0 /\ \E b \in UartBytes : wire'.tx = Start(b) /\ wire'.sent = Append(wire.sent, b)
    PROVE  /\ UpAt(us', wire', client')
           /\ \/ client'.heard = client.heard
              \/ /\ Len(client.heard) < Len(wire.sent)
                 /\ client'.heard = Append(client.heard, wire.sent[Len(client.heard) + 1])
<1>. DEFINE rx == us.rx
            rx2 == us'.rx
            n == Len(wire.sent)
            h == Len(client.heard)
            Heard == \/ client'.heard = client.heard
                     \/ /\ Len(client.heard) < Len(wire.sent)
                        /\ client'.heard = Append(client.heard, wire.sent[Len(client.heard) + 1])
<1>1. /\ rx \in RxRec /\ rx2 \in RxRec /\ rx.baud \in Int /\ rx.bits \in Seq(UartBits) /\ rx.busy \in BOOLEAN
      /\ n \in Nat /\ h \in Nat /\ wire.sent \in Seq(UartBytes) /\ client.heard \in Seq(Seq(UartBits))
  BY SMTT(40) DEF UsRec, WireRec, RxRec, ClientRec, UsHears
<1>2. /\ B \in Nat /\ B >= 2 /\ Half \in Nat /\ Half >= 1 /\ FrameBits \in Nat /\ FrameBits >= 9
      /\ FrameLen = FrameBits + 1 /\ 0 \in 0 .. FrameLen - 1
  BY SetupFacts
<1>3. ASSUME NEW b \in UartBytes, wire'.tx = Start(b), wire'.sent = Append(wire.sent, b)
      PROVE  /\ wire'.sent # <<>> /\ Len(wire'.sent) = n + 1 /\ wire'.sent[n + 1] = b
             /\ n > 0 => wire'.sent[n] = wire.sent[n]
             /\ Sending(wire'.tx, Frame(b), 0) /\ wire'.tx.baud = B - 1
             /\ Frame(b) = Frame(wire'.sent[Len(wire'.sent)])
  <2>. DEFINE q == wire.sent
  <2>1. q \in Seq(UartBytes)
    BY <1>1
  <2>. HIDE DEF q
  <2>2. /\ Append(q, b) # <<>> /\ Len(Append(q, b)) = Len(q) + 1 /\ Append(q, b)[Len(q) + 1] = b
        /\ Len(q) > 0 => Append(q, b)[Len(q)] = q[Len(q)]
    <3>1. /\ Append(q, b) # <<>> /\ Len(Append(q, b)) = Len(q) + 1 /\ Append(q, b)[Len(q) + 1] = b
      BY <2>1
    <3>2. Len(q) \in Nat /\ \A m \in 1 .. Len(q) : Append(q, b)[m] = q[m]
      BY <2>1
    <3>. QED  BY <3>1, <3>2
  <2>3. Sending(wire'.tx, Frame(b), 0) /\ wire'.tx.baud = B - 1
    BY <1>3, StartSends
  <2>. QED  BY <1>3, <2>2, <2>3 DEF q
<1>4. CASE ~rx.busy /\ h = n
  <2>0. client'.heard = client.heard
    BY <1>4 DEF FrameDone
  <2>1. CASE wire'.tx.bits = <<>> /\ wire'.sent = wire.sent /\ i = 1
    <3>1. us'.rx = us.rx
      BY <1>4, <2>1 DEF UsHears
    <3>2. UpIdle(us', wire', client')
      BY <1>4, <2>0, <2>1, <3>1 DEF UpIdle
    <3>. QED  BY <2>0, <3>2 DEF UpAt
  <2>2. ASSUME i = 0, NEW b \in UartBytes, wire'.tx = Start(b), wire'.sent = Append(wire.sent, b)
        PROVE  UpAt(us', wire', client')
    <3>1. us'.chg = 0
      BY <2>2 DEF UsHears
    <3>2. rx2 = [busy |-> TRUE, bits |-> <<>>, baud |-> B + Half - 1 - us'.chg]
      BY <1>4, <2>2 DEF UsHears
    <3>3. rx2.busy /\ Len(rx2.bits) = 0 /\ rx2.baud = B + Half - 1 - us'.chg
      BY <3>2
    <3>4. rx2.baud = Half + (B - 1) /\ us'.chg = B - 1 - (B - 1)
      BY <1>2, <3>1, <3>3
    <3>5. Sampled(rx2, Frame(b)) /\ InStepUp(rx2, wire'.tx, 0) /\ Len(rx2.bits) + 1 <= FrameLen
      BY <1>2, <1>3, <2>2, <3>3, <3>4 DEF Sampled, InStepUp
    <3>6. UpAs(us', wire', client', 0, Frame(b))
      BY <1>3, <1>4, <2>0, <2>2, <3>3, <3>4, <3>5 DEF UpAs
    <3>. QED  BY <1>2, <1>3, <2>2, <3>6, UpIntro
  <2>. QED  BY <2>0, <2>1, <2>2
<1>5. CASE LastComing(rx, Half - 1) /\ h + 1 = n /\ Sampled(rx, Frame(wire.sent[n]))
  <2>. DEFINE c == wire.sent[n]
  <2>1. rx.busy /\ 0 <= rx.baud /\ rx.baud <= Half - 1 /\ Len(rx.bits) = FrameBits
    BY <1>5 DEF LastComing
  <2>2. wire.sent # <<>> /\ n > 0 /\ c \in UartBytes
    BY <1>1, <1>5
  <2>3. CASE rx.baud > 0
    <3>1. us'.rx = [us.rx EXCEPT !.baud = @ - 1] /\ ~FrameDone
      BY <1>1, <2>1, <2>3 DEF UsHears, FrameDone
    <3>2. rx2.busy /\ rx2.bits = rx.bits /\ rx2.baud = rx.baud - 1 /\ client'.heard = client.heard
      BY <1>1, <2>1, <3>1 DEF RxRec
    <3>3. Sampled(rx2, Frame(c)) /\ LastComing(rx2, Half - 2)
      BY <1>1, <1>2, <1>5, <2>1, <2>3, <3>2, SameBits DEF LastComing
    <3>4. CASE wire'.tx.bits = <<>> /\ wire'.sent = wire.sent /\ i = 1
      <4>1. LastComing(rx2, Half - 1)
        BY <1>1, <1>2, <3>2, <3>3 DEF LastComing, RxRec
      <4>2. UpIdle(us', wire', client')
        BY <1>5, <3>2, <3>3, <3>4, <4>1 DEF UpIdle
      <4>. QED  BY <3>2, <4>2 DEF UpAt
    <3>5. ASSUME i = 0, NEW b \in UartBytes, wire'.tx = Start(b), wire'.sent = Append(wire.sent, b)
          PROVE  UpAt(us', wire', client')
      <4>1. us'.chg = B - 1 - wire'.tx.baud
        <5>1. us'.chg = 0
          BY <3>5 DEF UsHears
        <5>. QED  BY <1>2, <1>3, <3>5, <5>1
      <4>2. Half + wire'.tx.baud - B - 1 = Half - 2
        BY <1>2, <1>3, <3>5
      <4>3. LastComing(rx2, Half + wire'.tx.baud - B - 1)
        BY <3>3, <4>2
      <4>4. Sampled(rx2, Frame(wire'.sent[Len(wire'.sent) - 1])) /\ Len(client'.heard) + 2 = Len(wire'.sent)
        <5>1. Len(wire'.sent) - 1 = n /\ wire'.sent[n] = c
          BY <1>1, <1>3, <2>2, <3>5
        <5>2. Sampled(rx2, Frame(wire'.sent[Len(wire'.sent) - 1]))
          BY <3>3, <5>1
        <5>3. Len(client'.heard) = h /\ Len(wire'.sent) = n + 1 /\ h + 2 = n + 1
          <6>1. Len(client'.heard) = h
            BY <3>2
          <6>2. Len(wire'.sent) = n + 1
            BY <1>3, <3>5
          <6>3. h + 2 = n + 1
            BY <1>1, <1>5
          <6>. QED  BY <6>1, <6>2, <6>3
        <5>. QED  BY <5>2, <5>3
      <4>5. UpAs(us', wire', client', 0, Frame(b))
        BY <1>3, <3>5, <4>1, <4>3, <4>4 DEF UpAs
      <4>. QED  BY <1>2, <1>3, <3>5, <4>5, UpIntro
    <3>. QED  BY <3>2, <3>4, <3>5
  <2>4. CASE rx.baud = 0
    <3>1. FrameDone
      BY <1>2, <2>1, <2>4 DEF FrameDone
    <3>2. ~rx2.busy
      BY <3>1 DEF UsHears
    <3>3. SubSeq(rx.bits, 1, 8) = c
      BY <1>1, <1>5, <2>1, <2>2, SampledAll
    <3>4. client'.heard = Append(client.heard, c) /\ Len(client'.heard) = h + 1
      <4>1. client'.heard = Append(client.heard, c)
        BY <3>1, <3>3
      <4>2. c \in Seq(UartBits)
        <5>1. c \in [1 .. 8 -> {0, 1}]
          BY <2>2, UartAssumption
        <5>2. c \in [1 .. 8 -> UartBits]
          BY <5>1 DEF UartBits
        <5>. QED  BY <5>2, SeqOfFcn
      <4>. HIDE DEF c
      <4>3. Len(Append(client.heard, c)) = Len(client.heard) + 1
        BY <1>1, <4>2
      <4>. QED  BY <4>1, <4>3
    <3>5. Heard
      <4>1. h < n /\ n = h + 1
        BY <1>1, <1>5
      <4>. QED  BY <3>4, <4>1
    <3>. HIDE DEF Heard
    <3>6. CASE wire'.tx.bits = <<>> /\ wire'.sent = wire.sent /\ i = 1
      <4>1. UpIdle(us', wire', client')
        BY <1>5, <3>2, <3>4, <3>6 DEF UpIdle
      <4>. QED  BY <3>5, <4>1 DEF UpAt, Heard
    <3>7. ASSUME i = 0, NEW b \in UartBytes, wire'.tx = Start(b), wire'.sent = Append(wire.sent, b)
          PROVE  UpAt(us', wire', client')
      <4>1. us'.chg = B - 1 - wire'.tx.baud /\ B - wire'.tx.baud <= Half
        <5>1. us'.chg = 0
          BY <3>7 DEF UsHears
        <5>. QED  BY <1>2, <1>3, <3>7, <5>1
      <4>2. Len(client'.heard) + 1 = Len(wire'.sent)
        BY <1>1, <1>3, <1>5, <3>4, <3>7
      <4>3. UpAs(us', wire', client', 0, Frame(b))
        BY <1>3, <3>2, <3>7, <4>1, <4>2 DEF UpAs
      <4>. QED  BY <1>2, <1>3, <3>7, <4>3, UpIntro
    <3>. QED  BY <3>5, <3>6, <3>7 DEF Heard
  <2>. QED  BY <1>1, <2>1, <2>3, <2>4
<1>. QED  BY <1>4, <1>5 DEF UpIdle

\* From the device to the client.
LEMMA UpTick ==
    ASSUME UartIInv, Ticked
    PROVE  /\ UpAt(us', wire', client') /\ HeardSoFar' /\ Len(wire'.sent) <= MaxChars
           /\ us'.rx \in RxRec /\ us'.chg \in Int /\ us'.last \in UartBits /\ us'.last = Level(wire'.tx.bits)
           /\ wire' \in WireRec /\ client'.heard \in Seq(Seq(UartBits))
<1>. DEFINE i == Level(wire'.tx.bits)
<1>1. /\ us \in UsRec /\ wire \in WireRec /\ client \in ClientRec /\ us.cfg \in UartSetups
      /\ UpLink /\ us.last = Level(wire.tx.bits) /\ HeardSoFar /\ wire' \in WireRec
  BY BeforeTick DEF DeviceHears
<1>2. PICK w : WireSends(w) /\ wire'.tx = w.tx /\ wire'.sent = w.sent
  BY BeforeTick
<1>3. /\ wire.tx \in TxRec /\ wire'.tx \in TxRec /\ wire.sent \in Seq(UartBytes) /\ wire'.sent \in Seq(UartBytes)
      /\ client.heard \in Seq(Seq(UartBits)) /\ us.rx.busy \in BOOLEAN /\ Len(wire'.sent) <= MaxChars
  BY <1>1, <1>2 DEF WireRec, ClientRec, UsRec, RxRec, WireSends
<1>4. i \in UartBits
  <2>1. wire'.tx.bits \in Seq(UartBits)
    BY <1>3 DEF TxRec
  <2>. QED  BY <2>1 DEF Level, UartBits
<1>5. client'.heard = IF FrameDone THEN Append(client.heard, SubSeq(us.rx.bits, 1, 8)) ELSE client.heard
  BY DEF Ticked
<1>6. wire.sent # <<>> => /\ wire.sent[Len(wire.sent)] \in UartBytes
                          /\ Len(wire.sent) > 1 => wire.sent[Len(wire.sent) - 1] \in UartBytes
  BY <1>3
<1>. DEFINE Heard == \/ client'.heard = client.heard
                     \/ /\ Len(client.heard) < Len(wire.sent)
                        /\ client'.heard = Append(client.heard, wire.sent[Len(client.heard) + 1])
<1>7. wire'.sent = wire.sent \/ \E b \in UartBytes : wire'.sent = Append(wire.sent, b)
  BY <1>2 DEF WireSends
<1>. HIDE DEF i, Heard
<1>8. UpAt(us', wire', client') /\ Heard /\ UsHears(i)
  <2>1. CASE UpIdle(us, wire, client)
    <3>1. wire.tx.bits = <<>>
      BY <2>1 DEF UpIdle
    <3>2. us.last = 1
      BY <1>1, <3>1 DEF Level
    <3>3. \/ wire'.tx.bits = <<>> /\ wire'.sent = wire.sent /\ i = 1
          \/ i = 0 /\ \E b \in UartBytes : wire'.tx = Start(b) /\ wire'.sent = Append(wire.sent, b)
      <4>1. CASE w = wire
        BY <1>2, <3>1, <4>1 DEF i, Level
      <4>2. ASSUME NEW b \in UartBytes, w.tx = Start(b), w.sent = Append(wire.sent, b)
            PROVE  i = 0
        <5>1. Start(b) \in TxRec /\ Sending(Start(b), Frame(b), 0) /\ Frame(b)[1] = 0
          BY <1>1, StartSends, FrameFacts
        <5>2. Level(Start(b).bits) = Frame(b)[0 + 1]
          BY <1>1, <5>1, SendingLevel
        <5>. QED  BY <1>2, <4>2, <5>1, <5>2 DEF i
      <4>. QED  BY <1>2, <3>1, <4>1, <4>2 DEF WireSends
    <3>4. i \in {0, 1}
      BY <3>3
    <3>5. UsHears(i)
      BY <1>1, <1>4, <3>4, SampleFacts DEF i
    <3>6. UpAt(us', wire', client') /\ Heard
      BY <1>1, <1>5, <1>6, <2>1, <3>2, <3>3, <3>5, UpIdling DEF Heard
    <3>. QED  BY <3>5, <3>6
  <2>2. ASSUME wire.sent # <<>>,
               NEW k \in 0 .. FrameLen - 1, UpAs(us, wire, client, k, Frame(wire.sent[Len(wire.sent)]))
        PROVE  UpAt(us', wire', client') /\ Heard /\ UsHears(i)
    <3>. DEFINE b == wire.sent[Len(wire.sent)]
                f == Frame(b)
    <3>1. b \in UartBytes
      BY <1>6, <2>2
    <3>2. Sending(wire.tx, f, k)
      BY <2>2 DEF UpAs
    <3>3. /\ wire.tx.bits # <<>> /\ wire.tx.baud \in Int /\ wire.tx.baud <= B - 1 /\ 0 <= wire.tx.baud
          /\ B \in Nat /\ Half \in Nat /\ 2 * Half <= B /\ B >= 2
      BY <1>1, <1>3, <3>2, SendingLevel, SetupFacts
    <3>4. wire'.tx = TxNext(wire.tx) /\ wire'.sent = wire.sent
      BY <1>2, <3>3 DEF WireSends
    <3>5. ~us.rx.busy => i \in {0, 1}
      <4>. SUFFICES ASSUME ~us.rx.busy PROVE i \in {0, 1}
        OBVIOUS
      <4>1. k = 0 /\ B - wire.tx.baud <= Half
        BY <2>2 DEF UpAs, LastComing
      <4>2. wire.tx.baud > 0
        BY <3>3, <4>1
      <4>3. Sending(TxNext(wire.tx), f, k)
        BY <1>1, <1>3, <3>2, <4>2, SendingGoesOn
      <4>4. i = f[k + 1]
        BY <1>1, <1>3, <3>4, <4>3, SendingLevel DEF i
      <4>5. f[1] = 0
        BY <1>1, <3>1, FrameFacts
      <4>. QED  BY <4>1, <4>4, <4>5
    <3>6. UsHears(i)
      BY <1>1, <1>4, <3>5, SampleFacts DEF i
    <3>7. i = Level(wire'.tx.bits)
      BY DEF i
    <3>8. Len(wire.sent) > 1 => wire.sent[Len(wire.sent) - 1] \in UartBytes
      BY <1>6, <2>2
    <3>9. UpAt(us', wire', client') /\ Heard
      BY <1>1, <1>3, <1>5, <2>2, <3>1, <3>4, <3>6, <3>7, <3>8, UpSending DEF Heard
    <3>. QED  BY <3>6, <3>9
  <2>. QED  BY <1>1, <2>1, <2>2 DEF UpLink, UpAt
<1>9. us'.rx \in RxRec /\ us'.chg \in Int /\ us'.last = i
  BY <1>8 DEF UsHears, Ticked, i
<1>10. HeardSoFar' /\ client'.heard \in Seq(Seq(UartBits))
  <2>. DEFINE s == wire.sent
              s2 == wire'.sent
              h == client.heard
              h2 == client'.heard
  <2>1. s \in Seq(UartBytes) /\ s2 \in Seq(UartBytes) /\ h \in Seq(Seq(UartBits))
    BY <1>3
  <2>2. Len(h) <= Len(s) /\ \A m \in 1 .. Len(h) : h[m] = s[m]
    BY <1>1 DEF HeardSoFar
  <2>3. s2 = s \/ \E b \in UartBytes : s2 = Append(s, b)
    BY <1>7
  <2>4. h2 = h \/ (Len(h) < Len(s) /\ h2 = Append(h, s[Len(h) + 1]))
    BY <1>8 DEF Heard
  <2>5. UartBytes \subseteq Seq(UartBits)
    <3>. SUFFICES ASSUME NEW c \in UartBytes PROVE c \in Seq(UartBits)
      OBVIOUS
    <3>1. c \in [1 .. 8 -> {0, 1}]
      BY UartAssumption
    <3>2. c \in [1 .. 8 -> UartBits]
      BY <3>1 DEF UartBits
    <3>. QED  BY <3>2, SeqOfFcn
  <2>. HIDE DEF s, s2, h, h2
  <2>6. Len(s) \in Nat /\ Len(h) \in Nat /\ Len(s2) >= Len(s) /\ \A m \in 1 .. Len(s) : s2[m] = s[m]
    BY <2>1, <2>3
  <2>7. h2 \in Seq(Seq(UartBits)) /\ Len(h2) <= Len(s) /\ \A m \in 1 .. Len(h2) : h2[m] = s[m]
    <3>1. CASE h2 = h
      BY <2>1, <2>2, <3>1
    <3>2. CASE Len(h) < Len(s) /\ h2 = Append(h, s[Len(h) + 1])
      <4>. DEFINE x == s[Len(h) + 1]
      <4>1. x \in Seq(UartBits)
        BY <2>1, <2>5, <2>6, <3>2
      <4>. HIDE DEF x
      <4>2. h2 = Append(h, x)
        BY <3>2 DEF x
      <4>3. h2 \in Seq(Seq(UartBits)) /\ Len(h2) = Len(h) + 1 /\ h2[Len(h) + 1] = x
            /\ \A m \in 1 .. Len(h) : h2[m] = h[m]
        BY <2>1, <4>1, <4>2
      <4>4. \A m \in 1 .. Len(h2) : h2[m] = s[m]
        <5>. SUFFICES ASSUME NEW m \in 1 .. Len(h2) PROVE h2[m] = s[m]
          OBVIOUS
        <5>1. CASE m = Len(h) + 1
          BY <4>3, <5>1 DEF x
        <5>2. CASE m \in 1 .. Len(h)
          BY <2>2, <4>3, <5>2
        <5>. QED  BY <2>6, <4>3, <5>1, <5>2
      <4>. QED  BY <2>6, <3>2, <4>3, <4>4
    <3>. QED  BY <2>4, <3>1, <3>2
  <2>8. Len(h2) \in Nat /\ Len(s2) \in Nat
    BY <2>1, <2>7
  <2>9. Len(h2) <= Len(s2) /\ \A m \in 1 .. Len(h2) : h2[m] = s2[m]
    BY <2>6, <2>7, <2>8
  <2>. QED  BY <2>7, <2>9 DEF HeardSoFar, h2, s2
<1>. QED  BY <1>1, <1>3, <1>4, <1>8, <1>9, <1>10 DEF i

LEMMA UartInitRight == UartInit => UartIInv
<1>. SUFFICES ASSUME UartInit PROVE UartIInv
  OBVIOUS
<1>. DEFINE e == <<>>
            c == CHOOSE s \in UartSetups : TRUE
            z == 0
<1>1. e \in Seq(UartBits) /\ e \in Seq(UartBytes) /\ e \in Seq(Seq(UartBits)) /\ Len(e) = 0
  OBVIOUS
<1>2. c \in Cfgs /\ 1 \in UartBits /\ z \in Int
  BY DEF Cfgs, UartBits
<1>3. MaxChars \in Nat
  BY UartAssumption
<1>4. us = [mode |-> "off", con |-> FALSE, cfg |-> c, rx |-> [busy |-> FALSE, baud |-> z, bits |-> e],
            tx |-> [bits |-> e, baud |-> z], chg |-> z, last |-> 1, o |-> 1]
  BY DEF UartInit, IdleRx, IdleTx
<1>5. wire = [tx |-> [bits |-> e, baud |-> z], rx |-> [busy |-> FALSE, baud |-> z, bits |-> e],
              sent |-> e, heard |-> e]
  BY DEF UartInit, IdleRx, IdleTx
<1>6. client = [up |-> FALSE, out |-> e, n |-> z, taken |-> e, heard |-> e, got |-> e]
  BY DEF UartInit
<1>7. Level(e) = 1
  BY DEF Level
<1>8. wire.heard = e /\ DOMAIN e = {}
  BY <1>5
<1>9. us.mode = "off" /\ Unbuilt
  BY <1>4, <1>5, <1>6 DEF Unbuilt
<1>. HIDE DEF e, c, z
<1>10. us \in UsRec
  BY <1>1, <1>2, <1>4 DEF UsRec, RxRec, TxRec
<1>11. wire \in WireRec
  BY <1>1, <1>2, <1>5 DEF WireRec, RxRec, TxRec
<1>12. client \in ClientRec
  BY <1>1, <1>2, <1>6 DEF ClientRec
<1>13. us.o = Level(us.tx.bits) /\ us.last = Level(wire.tx.bits)
  BY <1>4, <1>5, <1>7
<1>14. Len(wire.sent) = 0 /\ Len(client.heard) = 0 /\ Len(wire.heard) = 0 /\ Len(client.taken) = 0
  BY <1>1, <1>5, <1>6
<1>15. HeardSoFar /\ Len(wire.sent) <= MaxChars
  BY <1>3, <1>14 DEF HeardSoFar
<1>16. FramedAsTaken
  BY <1>8, <1>14 DEF FramedAsTaken
<1>. QED  BY <1>9, <1>10, <1>11, <1>12, <1>13, <1>15, <1>16 DEF UartIInv

LEMMA ConstructRight ==
    ASSUME UartIInv, Construct
    PROVE  UartIInv'
<1>1. us \in UsRec /\ wire \in WireRec /\ client \in ClientRec /\ us.mode = "off" /\ Unbuilt
      /\ us.o = Level(us.tx.bits) /\ us.last = Level(wire.tx.bits) /\ Len(wire.sent) <= MaxChars
  BY DEF UartIInv, Construct
<1>2. wire' = wire /\ client' = client
  BY DEF Construct
<1>3. PICK s \in UartSetups, m \in {"net", "fd"} : us' = [us EXCEPT !.mode = m, !.cfg = s, !.con = (m = "fd")]
  BY DEF Construct
<1>4. us' \in UsRec /\ us'.mode # "off" /\ us'.cfg \in UartSetups /\ us'.tx = us.tx /\ us'.rx = us.rx
      /\ us'.o = us.o /\ us'.last = us.last
  BY <1>1, <1>3 DEF UsRec, Cfgs
<1>5. Len(client.taken) = 0 /\ Len(client.heard) = 0 /\ Len(wire.sent) = 0 /\ Len(wire.heard) = 0
      /\ DOMAIN wire.heard = {}
  BY <1>1 DEF Unbuilt
<1>6. DownLink'
  BY <1>1, <1>2, <1>4, <1>5 DEF Unbuilt, DownLink, DownAt
<1>7. UpLink'
  BY <1>1, <1>2, <1>4, <1>5 DEF Unbuilt, UpLink, UpAt, UpIdle
<1>8. HeardSoFar'
  BY <1>2, <1>5 DEF HeardSoFar
<1>9. FramedAsTaken'
  BY <1>2, <1>5 DEF FramedAsTaken
<1>10. us'.o = Level(us'.tx.bits) /\ us'.last = Level(wire'.tx.bits)
  BY <1>1, <1>2, <1>4
<1>11. Level(us.tx.bits)' = Level(us'.tx.bits) /\ Level(wire.tx.bits)' = Level(wire'.tx.bits)
  BY DEF Level
<1>. QED  BY <1>1, <1>2, <1>4, <1>6, <1>7, <1>8, <1>9, <1>10, <1>11 DEF UartIInv

LEMMA UartTickRight ==
    ASSUME UartIInv, UartTick
    PROVE  UartIInv'
<1>1. Ticked
  BY TickFacts
<1>2. us \in UsRec /\ wire \in WireRec /\ client \in ClientRec
  BY DEF UartIInv
<1>3. /\ DownAt(us', wire', client') /\ FramedAsTaken'
      /\ client'.taken \in Seq(UartBytes) /\ us'.tx \in TxRec
  BY <1>1, DownTick
<1>4. /\ UpAt(us', wire', client') /\ HeardSoFar' /\ Len(wire'.sent) <= MaxChars
      /\ us'.rx \in RxRec /\ us'.chg \in Int /\ us'.last \in UartBits /\ us'.last = Level(wire'.tx.bits)
      /\ wire' \in WireRec /\ client'.heard \in Seq(Seq(UartBits))
  BY <1>1, UpTick
<1>5. /\ us'.cfg = us.cfg /\ us'.mode # "off" /\ us'.cfg \in UartSetups /\ us'.o = Level(us'.tx.bits)
      /\ us' \in [mode : {"off", "net", "fd"}, con : BOOLEAN, cfg : Cfgs, rx : {us'.rx}, tx : {us'.tx},
                    chg : {us'.chg}, last : {us'.last}, o : {us'.o}]
      /\ client' \in [up : BOOLEAN, out : Seq(UartBytes), n : Int, taken : {client'.taken},
                        heard : {client'.heard}, got : {client'.got}]
      /\ client'.got = client.got \/ (client'.got = Append(client.got, SubSeq(us.rx.bits, 1, 8)) /\ FrameDone)
  <2>. DEFINE i == Level(wire'.tx.bits)
  <2>1. us'.last = i
    BY <1>4
  <2>2. us' \in [mode : {"off", "net", "fd"}, con : BOOLEAN, cfg : Cfgs, rx : {us'.rx}, tx : {us'.tx},
                    chg : {us'.chg}, last : {i}, o : {us'.o}]
    BY <1>1 DEF Ticked
  <2>. HIDE DEF i
  <2>3. us' \in [mode : {"off", "net", "fd"}, con : BOOLEAN, cfg : Cfgs, rx : {us'.rx}, tx : {us'.tx},
                    chg : {us'.chg}, last : {us'.last}, o : {us'.o}]
    BY <2>1, <2>2
  <2>. QED  BY <1>1, <2>3 DEF Ticked
<1>6. us'.o \in UartBits
  <2>1. us'.tx.bits \in Seq(UartBits)
    BY <1>3 DEF TxRec
  <2>. QED  BY <1>5, <2>1 DEF Level, UartBits
<1>7. us' \in UsRec
  BY <1>3, <1>4, <1>5, <1>6 DEF UsRec
<1>8. client'.got \in Seq(Seq(UartBits))
  <2>1. client.got \in Seq(Seq(UartBits)) /\ us.rx.bits \in Seq(UartBits)
    BY <1>2 DEF ClientRec, UsRec, RxRec
  <2>2. us.cfg \in UartSetups
    BY <1>5
  <2>3. CASE FrameDone
    <3>1. Len(us.rx.bits) >= FrameBits /\ FrameBits \in Nat /\ FrameBits >= 9 /\ Len(us.rx.bits) \in Nat
      BY <2>1, <2>2, <2>3, SetupFacts DEF FrameDone
    <3>2. Len(us.rx.bits) >= 8
      BY <3>1
    <3>3. SubSeq(us.rx.bits, 1, 8) \in Seq(UartBits)
      BY <2>1, <3>2, SubSeqProperties
    <3>. DEFINE byte == SubSeq(us.rx.bits, 1, 8)
    <3>4. client'.got = client.got \/ client'.got = Append(client.got, byte)
      BY <1>5
    <3>5. byte \in Seq(UartBits)
      BY <3>3
    <3>. DEFINE S == Seq(UartBits)
                g == client.got
    <3>6. g \in Seq(S)
      BY <2>1
    <3>. HIDE DEF byte, S, g
    <3>7. Append(g, byte) \in Seq(S)
      BY <3>5, <3>6 DEF S
    <3>. QED  BY <3>4, <3>6, <3>7 DEF S, g
  <2>4. CASE ~FrameDone
    BY <1>5, <2>1, <2>4
  <2>. QED  BY <2>3, <2>4
<1>9. client' \in ClientRec
  BY <1>3, <1>4, <1>5, <1>8 DEF ClientRec
<1>10. DownLink' /\ UpLink'
  BY <1>3, <1>4, <1>5, SameLinks
<1>11. Level(us.tx.bits)' = Level(us'.tx.bits) /\ Level(wire.tx.bits)' = Level(wire'.tx.bits)
  BY DEF Level
<1>. QED  BY <1>3, <1>4, <1>5, <1>7, <1>9, <1>10, <1>11 DEF UartIInv

\* The far end's own steps touch neither wire.
LEMMA ClientRight ==
    ASSUME UartIInv, UNCHANGED <<us, wire>>, client' \in ClientRec,
           client'.taken = client.taken, client'.heard = client.heard
    PROVE  UartIInv'
<1>1. us' = us /\ wire' = wire
  OBVIOUS
<1>2. us'.cfg = us.cfg
  BY <1>1
<1>3. FramedAsTaken'
  BY <1>1, <1>2, SameSetup DEF UartIInv, FramedAsTaken
<1>4. HeardSoFar'
  BY <1>1 DEF UartIInv, HeardSoFar
<1>5. Level(us.tx.bits)' = Level(us.tx.bits) /\ Level(wire.tx.bits)' = Level(wire.tx.bits)
  BY <1>1 DEF Level
<1>6. Unbuilt => Unbuilt'
  BY <1>1 DEF Unbuilt
<1>7. DownLink => DownLink'
  <2>1. DownLink => DownAt(us', wire', client')
    BY <1>1 DEF DownLink, DownAt, DownAs
  <2>. QED  BY <1>2, <2>1, SameLinks
<1>8. UpLink => UpLink'
  <2>1. UpLink => UpAt(us', wire', client')
    BY <1>1 DEF UpLink, UpAt, UpIdle, UpAs
  <2>. QED  BY <1>2, <2>1, SameLinks
<1>9. Len(wire'.sent) <= MaxChars /\ us' \in UsRec /\ wire' \in WireRec
      /\ us'.o = Level(us.tx.bits)' /\ us'.last = Level(wire.tx.bits)'
  BY <1>1, <1>5 DEF UartIInv
<1>10. IF us'.mode = "off" THEN Unbuilt' ELSE us'.cfg \in UartSetups /\ DownLink' /\ UpLink'
  BY <1>1, <1>6, <1>7, <1>8 DEF UartIInv
<1>. QED  BY <1>3, <1>4, <1>9, <1>10 DEF UartIInv

LEMMA UartStepRight == UartIInv /\ [UartNext]_uartVars => UartIInv'
<1>. SUFFICES ASSUME UartIInv, [UartNext]_uartVars PROVE UartIInv'
  OBVIOUS
<1>1. client \in ClientRec
  BY DEF UartIInv
<1>2. CASE Construct
  BY <1>2, ConstructRight
<1>3. CASE UartTick
  BY <1>3, UartTickRight
<1>4. CASE ClientOpen
  <2>1. UNCHANGED <<us, wire>> /\ client' = [client EXCEPT !.up = TRUE]
    BY <1>4 DEF ClientOpen
  <2>2. client' \in ClientRec /\ client'.taken = client.taken /\ client'.heard = client.heard
    BY <1>1, <2>1 DEF ClientRec
  <2>. QED  BY <2>1, <2>2, ClientRight
<1>5. CASE ClientSend
  <2>1. PICK b \in UartBytes : client' = [client EXCEPT !.out = Append(@, b), !.n = @ + 1]
    BY <1>5 DEF ClientSend
  <2>2. UNCHANGED <<us, wire>>
    BY <1>5 DEF ClientSend
  <2>3. client.out \in Seq(UartBytes) /\ client.n \in Int
    BY <1>1 DEF ClientRec
  <2>4. Append(client.out, b) \in Seq(UartBytes) /\ client.n + 1 \in Int
    BY <2>3
  <2>5. client' \in ClientRec /\ client'.taken = client.taken /\ client'.heard = client.heard
    BY <1>1, <2>1, <2>4 DEF ClientRec
  <2>. QED  BY <2>2, <2>5, ClientRight
<1>6. CASE ClientClose
  <2>1. UNCHANGED <<us, wire>> /\ client' = [client EXCEPT !.up = FALSE]
    BY <1>6 DEF ClientClose
  <2>2. client' \in ClientRec /\ client'.taken = client.taken /\ client'.heard = client.heard
    BY <1>1, <2>1 DEF ClientRec
  <2>. QED  BY <2>1, <2>2, ClientRight
<1>7. CASE UNCHANGED uartVars
  <2>1. UNCHANGED <<us, wire>> /\ client' = client
    BY <1>7 DEF uartVars
  <2>. QED  BY <1>1, <2>1, ClientRight
<1>. QED  BY <1>2, <1>3, <1>4, <1>5, <1>6, <1>7 DEF UartNext

LEMMA UartKept == UartIInv => CharactersAreKept
<1>. SUFFICES ASSUME UartIInv PROVE CharactersAreKept
  OBVIOUS
<1>. DEFINE h == client.heard
            s == wire.sent
            T == Seq(UartBits) \union UartBytes
<1>1. h \in Seq(T) /\ s \in Seq(T)
  <2>1. h \in Seq(Seq(UartBits)) /\ s \in Seq(UartBytes)
    BY DEF UartIInv, ClientRec, WireRec
  <2>. QED  BY <2>1
<1>2. Len(h) <= Len(s) /\ \A i \in 1 .. Len(h) : h[i] = s[i]
  BY DEF UartIInv, HeardSoFar
<1>. HIDE DEF h, s, T
<1>3. IsPrefix(h, s)
  <2>1. Len(h) \in Nat /\ Len(s) \in Nat
    BY <1>1
  <2>2. SubSeq(s, 1, Len(h)) = h
    <3>1. SubSeq(s, 1, Len(h)) = [i \in 1 .. Len(h) |-> s[i]]
      BY <1>1, <1>2, <2>1
    <3>2. h = [i \in 1 .. Len(h) |-> h[i]]
      BY <1>1
    <3>. QED  BY <1>2, <3>1, <3>2
  <2>. QED  BY <1>2, <2>2 DEF IsPrefix
<1>. QED  BY <1>3 DEF CharactersAreKept, HeardAsSent, UartIInv, h, s

(* UARTSIM, the serial port simulator: whatever the baud rate, the stop    *)
(* bits and the parity, what the simulator hears is what the device sent   *)
(* and what the device hears is the frames of what was taken from the      *)
(* client, both ways at once and as connections come and go.               *)
THEOREM CharactersKept == UartSpec => []CharactersAreKept
<1>1. UartIInv /\ [UartNext]_uartVars => UartIInv'
  BY UartStepRight
<1>. QED  BY UartInitRight, <1>1, UartKept, PTL DEF UartSpec
=============================================================================
