------------------------------- MODULE Lists --------------------------------
(***************************************************************************)
(* Linked lists through proc_table: the scheduler threads its queues       *)
(* through next_pcb, the message queues go through next_sending.  A loop   *)
(* "while (...) p = p->next" starts at h and ends at the first member of   *)
(* Stop; nx gives the next pointers of the processes P.                    *)
(***************************************************************************)
EXTENDS Integers

nullptr == -4   \* no pid, and none of ANY, NO_TASK and INTERRUPT

\* what the loop touches: the least set with h that is closed under nx until
\* the loop stops
Visited(P, nx, h, Stop) ==
    {p \in P : \A S \in SUBSET P :
        (h \in S /\ \A x \in S \ Stop : nx[x] \in S) => p \in S}

\* where the loop ends; nullptr stands for a loop that never does
WalkTo(P, nx, h, Stop) ==
    LET hit == Visited(P, nx, h, Stop) \cap Stop
    IN  IF hit = {} THEN nullptr ELSE CHOOSE p \in hit : TRUE
=============================================================================
