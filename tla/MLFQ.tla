-------------------------------- MODULE MLFQ --------------------------------
(***************************************************************************)
(* What the scheduler of len-os promises, with its linked lists, tick      *)
(* counters and PCB fields abstracted away: the tasks stand in three       *)
(* first-come-first-served levels; a scheduling decision takes the first   *)
(* runnable task of level 1, else of level 2, and may demote the task it   *)
(* took to the end of the next level; when both levels have no runnable    *)
(* task the decision leaves the levels alone.  Scheduler.tla (lib/         *)
(* interrupt/interrupt.cc) implements it.                                  *)
(***************************************************************************)
EXTENDS Integers, SequencesExt

CONSTANTS
    Task,        \* the tasks of proc_table, without the idle process
    Outcome,     \* what p_proc_ready may hold: a process, or the null pointer
    Flag,        \* the values of the flags field
    InitialOrder \* the order init_proc puts the tasks in level 1

RUNNING == 0   \* include/essential/const.h

\* every task stands in InitialOrder, once
IsOrder ==
    /\ InitialOrder \in Seq(Task)
    /\ \A t \in Task : \E i \in 1..Len(InitialOrder) : InitialOrder[i] = t
    /\ \A i, j \in 1..Len(InitialOrder) :
           InitialOrder[i] = InitialOrder[j] => i = j

VARIABLES
    queue,       \* level -> the tasks on it, first to last
    flags,       \* task -> RUNNING, SENDING or RECEIVING
    running      \* the process the CPU runs next

mlfqVars == <<queue, flags, running>>

Level == 1..3

Init ==
    /\ IsOrder
    /\ queue = [l \in Level |-> IF l = 1 THEN InitialOrder ELSE <<>>]
    /\ flags = [t \in Task |-> RUNNING]
    /\ running \in Outcome

-----------------------------------------------------------------------------
Runnable(t) == flags'[t] = RUNNING

SomeRunnable(l) == \E i \in 1..Len(queue[l]) : Runnable(queue[l][i])

FirstRunnable(l, i) ==
    /\ i \in 1..Len(queue[l])
    /\ Runnable(queue[l][i])
    /\ \A j \in 1..(i - 1) : ~Runnable(queue[l][j])

\* queue after the task in place i of level l went to the end of the next
Demoted(l, i) ==
    [queue EXCEPT ![l]     = RemoveAt(@, i),
                  ![l + 1] = Append(@, queue[l][i])]

\* The first runnable task of level l runs; its slice may end with this tick.
DispatchFrom(l) ==
    /\ \A k \in 1..(l - 1) : ~SomeRunnable(k)
    /\ \E i \in 1..Len(queue[l]) :
          /\ FirstRunnable(l, i)
          /\ running' = queue[l][i]
          /\ queue' \in {queue, Demoted(l, i)}

\* Nothing to run on levels 1 and 2: level 3, the idle process, or nothing.
DispatchLast ==
    /\ \A k \in 1..2 : ~SomeRunnable(k)
    /\ running' \in Outcome
    /\ UNCHANGED queue

Dispatch == DispatchFrom(1) \/ DispatchFrom(2) \/ DispatchLast

Tick == flags' = flags /\ Dispatch

\* A task blocks in a system call, with or without a scheduling decision.
Block == \E t \in Task, f \in Flag :
    /\ flags' = [flags EXCEPT ![t] = f]
    /\ Dispatch \/ UNCHANGED <<queue, running>>

Unblock == \E t \in Task :
    /\ flags' = [flags EXCEPT ![t] = RUNNING]
    /\ UNCHANGED <<queue, running>>

Next == Tick \/ Block \/ Unblock

Spec == Init /\ [][Next]_mlfqVars

-----------------------------------------------------------------------------
(***************************************************************************)
(* Type invariant of the abstract scheduler.                               *)
(***************************************************************************)
MLFQTypeOK ==
    /\ queue \in [Level -> Seq(Task)]
    /\ flags \in [Task -> Flag \cup {RUNNING}]
    /\ running \in Outcome \cup Task

(***************************************************************************)
(* Every task stands on exactly one of the levels, exactly once: demotion  *)
(* neither loses a task (it would never run again) nor duplicates it (the  *)
(* pointers of the linked list would form a cycle).                        *)
(***************************************************************************)
NoTaskLost ==
    \A t \in Task : \E l \in Level : \E i \in 1..Len(queue[l]) : queue[l][i] = t

NoTaskTwice ==
    \A k, l \in Level : \A i \in 1..Len(queue[k]), j \in 1..Len(queue[l]) :
        queue[k][i] = queue[l][j] => k = l /\ i = j

OneLevelEach == NoTaskLost /\ NoTaskTwice
=============================================================================
