------------------------ MODULE SchedulerRefinement -------------------------
(***************************************************************************)
(* The linked-list scheduler implements the abstract one: the refinement   *)
(* mapping reads each list, from its head pointer to process_tail, as the  *)
(* sequence of its members.                                                *)
(***************************************************************************)
EXTENDS Scheduler, Sequences

Contents(q) ==
    LET from[p \in Proc] == IF p = process_tail THEN <<>>
                                                ELSE <<p>> \o from[next_pcb[p]]
    IN  from[head[q]]

Abstract == INSTANCE MLFQ WITH
    Outcome      <- Proc \cup {nullptr},
    Flag         <- {RUNNING, SENDING, RECEIVING},
    InitialOrder <- [i \in 1..NR_TASK |-> i - 1],
    queue        <- <<Contents(1), Contents(2), Contents(3)>>,
    flags        <- [t \in Task |-> flags[t]],
    running      <- p_proc_ready

(***************************************************************************)
(* Every step of the linked-list scheduler (schedule, next_quene,          *)
(* find_first) is a step of MLFQ or leaves it unchanged: a decision takes  *)
(* the first runnable task of the highest level that has one, in first-    *)
(* come-first-served order, and leaves it in its place or moves it to the  *)
(* end of the next level; nothing else ever moves a task.                  *)
(***************************************************************************)
ImplementsMLFQ == Abstract!Spec
=============================================================================
