------------------------------ MODULE LockCheck ------------------------------
(***************************************************************************)
(* sw/board/lockcheck.c: a supervisor that single-steps a set of user      *)
(* tasks in turn, and the tasks, which share one word under a spin lock.   *)
(*                                                                         *)
(* A step of a task is one instruction of the CPU.  Only the instructions  *)
(* that touch shared memory or end the task are told apart; the ones in    *)
(* between are Spin visits.  The test-and-set is one step: it is compiled  *)
(* to a sequence under the CPU's LOCK instruction, which a single step     *)
(* does not break (external, the CPU).                                     *)
(***************************************************************************)
EXTENDS Integers, FiniteSets

CONSTANTS NumTasks,   \* NUM_TASKS, 4 in the source
          Loops,      \* times each task takes the lock, 1024 in the source
          Checks      \* times it looks at the shared word, 5 in the source

ASSUME LockAssumption == /\ NumTasks \in Nat \ {0}
                         /\ Loops \in Nat \ {0}
                         /\ Checks \in Nat \ {0}

VARIABLES atomic,     \* the lock
          shared,     \* shared_resource
          task,       \* [pc, k, loops, fail] of each task
          super       \* the supervisor: [pc, turn, completed]

lockVars == <<atomic, shared, task, super>>

Tasks == 0 .. NumTasks - 1

(* Where a task is: taking the lock, inside, giving it back, the last      *)
(* lock around its message, the trap that ends it.                         *)
Inside == {"store", "look", "watch", "count", "release"}
Ending == {"print", "unlock"}
Places == Inside \cup Ending \cup {"take", "takelast", "trap", "trapped"}

(* The task owns the lock.                                                 *)
Holds(t) == task[t].pc \in Inside \cup Ending

LockInit == /\ atomic = 0
            /\ shared = 0
            /\ task = [t \in Tasks |->
                         [pc |-> "take", k |-> 0, loops |-> 0, fail |-> 0]]
            /\ super = [pc |-> "run", turn |-> 0, completed |-> 0]

Becomes(t, where, n, count, failed) ==
  task' = [task EXCEPT ![t] = [pc |-> where, k |-> n, loops |-> count, fail |-> failed]]

Goto(t, where) == Becomes(t, where, task[t].k, task[t].loops, task[t].fail)

MutTestAndSet(t, from, to) == /\ task[t].pc = from     \* two tasks may pass
                              /\ atomic' = 1
                              /\ Goto(t, to)
                              /\ UNCHANGED shared

(* __atomic_test_and_set(&atomic), and the branch on what it found.        *)
TestAndSet(t, from, to) == /\ task[t].pc = from
                           /\ atomic' = 1
                           /\ IF atomic = 0 THEN Goto(t, to) ELSE UNCHANGED task
                           /\ UNCHANGED shared

Store(t) == /\ task[t].pc = "store"
            /\ shared' = t
            /\ Becomes(t, "look", 0, task[t].loops, task[t].fail)
            /\ UNCHANGED atomic

(* The two reads of one turn of the loop over k.                           *)
Look(t) == /\ task[t].pc = "look"
           /\ Becomes(t, "watch", task[t].k, task[t].loops,
                      IF shared # t THEN 1 ELSE task[t].fail)
           /\ UNCHANGED <<atomic, shared>>

Watch(t) == /\ task[t].pc = "watch"
            /\ Becomes(t, IF task[t].k + 1 < Checks THEN "look" ELSE "count",
                       task[t].k + 1, task[t].loops,
                       IF atomic # 1 THEN 1 ELSE task[t].fail)
            /\ UNCHANGED <<atomic, shared>>

Count(t) == /\ task[t].pc = "count"
            /\ Becomes(t, "release", task[t].k, task[t].loops + 1, task[t].fail)
            /\ UNCHANGED <<atomic, shared>>

MutRelease(t) == /\ task[t].pc = "release"             \* the lock is kept
                 /\ atomic' = atomic
                 /\ Goto(t, IF task[t].loops < Loops THEN "take" ELSE "takelast")
                 /\ UNCHANGED shared

(* atomic = 0, and the test of the while.                                  *)
Release(t) == /\ task[t].pc = "release"
              /\ atomic' = 0
              /\ Goto(t, IF task[t].loops < Loops THEN "take" ELSE "takelast")
              /\ UNCHANGED shared

(* printf("Task #%d: COMPLETE\n").                                         *)
Print1(t) == /\ task[t].pc = "print"
             /\ Goto(t, "unlock")
             /\ UNCHANGED <<atomic, shared>>

Unlock(t) == /\ task[t].pc = "unlock"
             /\ atomic' = 0
             /\ Goto(t, "trap")
             /\ UNCHANGED shared

(* A task that failed reports it as its count of loops; zip_syscall traps. *)
Trap(t) == /\ task[t].pc = "trap"
           /\ Becomes(t, "trapped", task[t].k,
                      IF task[t].fail = 1 THEN -1 ELSE task[t].loops, task[t].fail)
           /\ UNCHANGED <<atomic, shared>>

Instruction(t) == \/ TestAndSet(t, "take", "store")
                  \/ Store(t) \/ Look(t) \/ Watch(t) \/ Count(t) \/ Release(t)
                  \/ TestAndSet(t, "takelast", "print")
                  \/ Print1(t) \/ Unlock(t) \/ Trap(t)

(* The supervisor's loop over the tasks: a trapped task is counted, one    *)
(* instruction of any other is run; a round in which all were trapped ends *)
(* the loop.                                                               *)
Visit(n) == super' = IF super.turn + 1 < NumTasks
                     THEN [pc |-> super.pc, turn |-> super.turn + 1, completed |-> n]
                     ELSE [pc |-> IF n >= NumTasks THEN "ended" ELSE "run",
                           turn |-> 0, completed |-> 0]

Step(t) == /\ super.pc = "run" /\ super.turn = t
           /\ Instruction(t)
           /\ Visit(super.completed)

Skip(t) == /\ super.pc = "run" /\ super.turn = t
           /\ task[t].pc = "trapped"
           /\ Visit(super.completed + 1)
           /\ UNCHANGED <<atomic, shared, task>>

Spin(t) == /\ super.pc = "run" /\ super.turn = t
           /\ task[t].pc # "trapped"
           /\ Visit(super.completed)
           /\ UNCHANGED <<atomic, shared, task>>

(* What main prints at the end: TASK FAILURE for a count of -1.            *)
Report == /\ super.pc = "ended"
          /\ super' = [super EXCEPT !.pc = IF \E t \in Tasks : task[t].loops = -1
                                           THEN "failure" ELSE "success"]
          /\ UNCHANGED <<atomic, shared, task>>

LockNext == \/ \E t \in Tasks : Step(t) \/ Skip(t) \/ Spin(t)
            \/ Report

(* The supervisor never stops visiting, and between two of the             *)
(* instructions told apart a task has finitely many others: a task that is *)
(* visited again and again comes to its next one.                          *)
LockFairness == /\ WF_lockVars(LockNext)
                /\ \A t \in Tasks : SF_lockVars(Step(t))

LockSpec == LockInit /\ [][LockNext]_lockVars /\ LockFairness

-----------------------------------------------------------------------------
(* Every value is one the program can hold, -1 being a failed task's count.*)
LockTypeOK == /\ atomic \in {0, 1}
              /\ shared \in Tasks
              /\ task \in [Tasks -> [pc : Places, k : 0 .. Checks,
                                     loops : -1 .. Loops, fail : {0, 1}]]
              /\ super \in [pc : {"run", "ended", "success", "failure"},
                            turn : Tasks, completed : 0 .. NumTasks]

(* user_task: two tasks are never between the test-and-set that succeeded  *)
(* and the store of 0 that ends it, and while one is, the lock is taken.   *)
MutualExclusion == /\ \A t, u \in Tasks : Holds(t) /\ Holds(u) => t = u
                   /\ (\E t \in Tasks : Holds(t)) => atomic = 1

(* user_task: no task ever finds another's number in the shared word or    *)
(* the lock open while it is inside, so no count is turned into -1.        *)
NoTaskFails == \A t \in Tasks : task[t].fail = 0 /\ task[t].loops # -1

(* main: the verdict is given only when every task has done its loops and  *)
(* has let go of the lock.                                                 *)
VerdictIsFinal == super.pc # "run" =>
                    /\ \A t \in Tasks : task[t].pc = "trapped" /\ task[t].loops = Loops
                    /\ atomic = 0

(* main: stepping the tasks in turn lets all of them through the lock; the *)
(* program that has begun its rounds ends, and says SUCCESS.               *)
SuccessIsReported == (super.turn # 0 \/ super.completed # 0) ~> super.pc = "success"

(* lockcheck.c: the lock excludes, no task sees it broken, and the verdict *)
(* is about all of them.                                                   *)
LockIsSafe == MutualExclusion /\ NoTaskFails /\ VerdictIsFinal
=============================================================================
