---------------------------- MODULE ScheduleSteps ----------------------------
(***************************************************************************)
(* schedule() and next_quene() (interrupt.cc) statement by statement.      *)
(* schedule runs with interrupts on, in clock_handler (whose line stays    *)
(* open) and at the end of the system calls that block, so the clock can   *)
(* enter it again in its middle: acts has the activations, the innermost   *)
(* last, and only that one goes on.                                        *)
(*                                                                         *)
(* next_quene has its parameters by reference: curr is p_proc_ready        *)
(* itself, read again at every use.                                        *)
(***************************************************************************)
EXTENDS Scheduler, Sequences

CONSTANT Interrupted   \* whose schedule interrupts come into the middle of;
                       \* bound: one clock in the middle of another schedule

ASSUME StepsAssumption == Interrupted \subseteq {"clock", "call"}

VARIABLES
    acts,     \* the activations of schedule: where each is and its queue
    before    \* flags, scheduler variables and caller when the outermost
              \* activation started, for the refinement

stepsVars == <<vars, acts, before>>

Now == [flags |-> flags, ticks |-> ticks, queen_number |-> queen_number,
        next_pcb |-> next_pcb, head |-> head, tail |-> tail,
        p_proc_ready |-> p_proc_ready, caller |-> caller]

StepsInit == Init /\ acts = <<>> /\ before = <<>>

\* an activation: pc, the statement it is at; q, a queue; by, who called it
Act  == acts[Len(acts)]
Q    == Act.q
curr == p_proc_ready

\* the innermost activation is at this statement of schedule or next_quene
at(place) == acts # <<>> /\ Act.pc = place

goto(place) ==
    /\ acts' = [acts EXCEPT ![Len(acts)].pc = place]
    /\ UNCHANGED <<caller, before>>

\* schedule is called by the clock, or at the end of a system call
enter(by) ==
    /\ acts' = Append(acts, [pc |-> "find", q |-> 1, by |-> by])
    /\ before' = IF acts = <<>> THEN Now ELSE before

\* schedule returns, and the system call with it
return ==
    /\ acts' = SubSeq(acts, 1, Len(acts) - 1)
    /\ before' = IF Len(acts) = 1 THEN <<>> ELSE before
    /\ caller' = IF Act.by = "call" THEN nullptr ELSE caller

-----------------------------------------------------------------------------
(* schedule: find_first on queue 1, on queue 2, and what is left           *)

find ==
    LET p == find_first(head[Q], tail[Q]) IN
    /\ at("find")
    /\ UNCHANGED <<flags, ticks, quVars>>
    /\ \/ /\ p # nullptr
          /\ p_proc_ready' = p
          /\ goto("charge")
       \/ /\ p = nullptr
          /\ acts' = [acts EXCEPT ![Len(acts)].q = @ + 1,
                                 ![Len(acts)].pc = IF Q = 1 THEN @ ELSE "charge_last"]
          /\ UNCHANGED <<p_proc_ready, caller, before>>

\* p_proc_ready->ticks--; a process at address 0 counts down in the vector
\* table there, and nothing follows
charge_last ==
    /\ at("charge_last")
    /\ UNCHANGED <<flags, quVars, p_proc_ready>>
    /\ IF curr = nullptr THEN UNCHANGED ticks /\ return
       ELSE /\ ticks' = [ticks EXCEPT ![curr] = @ - 1]
            /\ goto("test_last")

test_last ==
    /\ at("test_last") /\ curr # nullptr
    /\ UNCHANGED <<flags, ticks, quVars>>
    /\ \/ /\ ticks[curr] = 0 \/ (flags[curr] # RUNNING /\ queen_number[curr] = 3)
          /\ goto("renew")
          /\ UNCHANGED p_proc_ready
       \/ /\ ticks[curr] # 0 /\ (flags[curr] = RUNNING \/ queen_number[curr] # 3)
          /\ p_proc_ready' = IF queen_number[curr] < 3
                             THEN find_first(head[3], process_tail) ELSE curr
          /\ return

renew ==
    /\ at("renew") /\ curr # nullptr
    /\ ticks' = [ticks EXCEPT ![curr] = LAST_QUENE_SLICE]
    /\ goto("follow")
    /\ UNCHANGED <<flags, quVars, p_proc_ready>>

follow ==
    /\ at("follow") /\ curr # nullptr
    /\ UNCHANGED <<flags, ticks, quVars>>
    /\ p_proc_ready' = successor(curr)
    /\ return

-----------------------------------------------------------------------------
(* next_quene for queue Q; the references curr_head, next_tail, ... are    *)
(* the head and tail pointers themselves                                   *)

next_slice == IF Q = 1 THEN SECOND_QUENE_SLICE ELSE LAST_QUENE_SLICE

charge ==
    /\ at("charge") /\ curr # nullptr
    /\ ticks' = [ticks EXCEPT ![curr] = @ - 1]
    /\ goto("test")
    /\ UNCHANGED <<flags, quVars, p_proc_ready>>

\* the end of a slice is looked for one tick too early
used_up_early(t) == t <= 1

used_up(t) == t = 0

test ==
    /\ at("test") /\ curr # nullptr
    /\ IF used_up(ticks[curr]) THEN goto("number") ELSE return
    /\ UNCHANGED <<flags, schedVars>>

number ==
    /\ at("number") /\ curr # nullptr
    /\ queen_number' = [queen_number EXCEPT ![curr] = next_number(curr)]
    /\ goto("slice")
    /\ UNCHANGED <<flags, ticks, next_pcb, head, tail, p_proc_ready>>

slice ==
    /\ at("slice") /\ curr # nullptr
    /\ ticks' = [ticks EXCEPT ![curr] = next_slice]
    /\ goto("unlink")
    /\ UNCHANGED <<flags, quVars, p_proc_ready>>

\* curr_head = curr->next_pcb, or the walk to the process before curr
unlink ==
    LET p == WalkTo(Proc, next_pcb, head[Q], {x \in Proc : next_pcb[x] = curr}) IN
    /\ at("unlink") /\ curr # nullptr
    /\ UNCHANGED <<flags, ticks, queen_number, tail, p_proc_ready>>
    /\ \/ /\ head[Q] = curr
          /\ head' = [head EXCEPT ![Q] = next_pcb[curr]]
          /\ goto("link")
          /\ UNCHANGED next_pcb
       \/ /\ head[Q] # curr
          /\ UNCHANGED head
          /\ IF p = nullptr THEN goto("spin") /\ UNCHANGED next_pcb
             ELSE next_pcb' = [next_pcb EXCEPT ![p] = next_pcb[curr]] /\ goto("link")

\* the first statement of both branches on next_tail
link ==
    /\ at("link") /\ curr # nullptr
    /\ IF tail[Q + 1] # process_tail
       THEN next_pcb' = [next_pcb EXCEPT ![tail[Q + 1]] = curr] /\ UNCHANGED head
       ELSE head' = [head EXCEPT ![Q + 1] = curr] /\ UNCHANGED next_pcb
    /\ goto("append")
    /\ UNCHANGED <<flags, ticks, queen_number, tail, p_proc_ready>>

append ==
    /\ at("append") /\ curr # nullptr
    /\ tail' = [tail EXCEPT ![Q + 1] = curr]
    /\ goto("end")
    /\ UNCHANGED <<flags, ticks, queen_number, next_pcb, head, p_proc_ready>>

\* the new last process of the next queue still points to its old successor
ended_nowhere == next_pcb

\* next_tail->next_pcb = tail
ended == [next_pcb EXCEPT ![tail[Q + 1]] = process_tail]

end ==
    /\ at("end")
    /\ next_pcb' = ended
    /\ goto("retail")
    /\ UNCHANGED <<flags, ticks, queen_number, head, tail, p_proc_ready>>

\* the loop to the process before curr, copied
last_left_copied == WalkTo(Proc, next_pcb, head[Q], {x \in Proc : next_pcb[x] = curr})

\* the last process that is left on the queue
last_left == last(next_pcb, head[Q])

\* if (curr_tail == curr)
retail ==
    LET p == last_left IN
    /\ at("retail") /\ curr # nullptr
    /\ UNCHANGED <<flags, ticks, queen_number, next_pcb, head, p_proc_ready>>
    /\ \/ /\ tail[Q] # curr
          /\ UNCHANGED tail
          /\ return
       \/ /\ tail[Q] = curr /\ p # nullptr
          /\ tail' = [tail EXCEPT ![Q] = p]
          /\ return
       \/ /\ tail[Q] = curr /\ p = nullptr
          /\ goto("spin")
          /\ UNCHANGED tail

schedule_step ==
    \/ find \/ charge_last \/ test_last \/ renew \/ follow
    \/ charge \/ test \/ number \/ slice \/ unlink \/ link \/ append \/ end \/ retail

-----------------------------------------------------------------------------
(* What calls schedule, and what else changes its data.  While a system    *)
(* call or the clock is in schedule, interrupts may come and processes do  *)
(* not run.                                                                *)

\* interrupts come before the next statement
InterruptsCome ==
    \/ acts = <<>>
    \/ Len(acts) = 1 /\ Act.by \in Interrupted

clock ==
    /\ Alive
    /\ InterruptsCome
    /\ enter("clock")
    /\ UNCHANGED vars

\* ... block(...); schedule();
block_call == \E f \in BlockFlag :
    /\ acts = <<>> /\ caller # nullptr
    /\ flags' = [flags EXCEPT ![caller] = f]
    /\ enter("call")
    /\ UNCHANGED <<schedVars, caller>>

\* the steps of Scheduler that do not call schedule; the disk interrupt can
\* unblock a process in the middle of one
other ==
    /\ \/ acts = <<>> /\ (sys_call \/ sys_return \/ block_only)
       \/ InterruptsCome /\ \E p \in Task : unblock(p)
    /\ UNCHANGED <<acts, before>>

StepsNext == schedule_step \/ clock \/ block_call \/ other

StepsSpec == StepsInit /\ [][StepsNext]_stepsVars

\* the CPU goes on with schedule
FairSteps == StepsSpec /\ WF_stepsVars(schedule_step)

-----------------------------------------------------------------------------
\* what Scheduler sees: nothing until the outermost schedule returns
Seen == IF acts = <<>> THEN Now ELSE before

Atomic == INSTANCE Scheduler WITH
    flags <- Seen.flags, ticks <- Seen.ticks, queen_number <- Seen.queen_number,
    next_pcb <- Seen.next_pcb, head <- Seen.head, tail <- Seen.tail,
    p_proc_ready <- Seen.p_proc_ready, caller <- Seen.caller

(***************************************************************************)
(* Not interrupted, the statements of schedule and next_quene add up to    *)
(* the one step that Scheduler makes of them: no statement reads what an   *)
(* earlier one has already changed, although curr, curr_head and next_tail *)
(* are references into the same lists.                                     *)
(***************************************************************************)
StepsImplementSchedule == Atomic!Spec

(***************************************************************************)
(* schedule comes back: its walks along next_pcb end, in the lists as they *)
(* are in the middle of next_quene.                                        *)
(***************************************************************************)
ScheduleReturns == acts # <<>> ~> acts = <<>>

(***************************************************************************)
(* const.h:143 "limits of the time slices of the multilevel feedback       *)
(* queues": between two calls of schedule no process has more ticks than   *)
(* the longest slice, nor has its count passed zero, where the test for    *)
(* the end of the slice would not see it for 2^32 ticks.                   *)
(***************************************************************************)
SlicesLimited == acts = <<>> => SliceNeverMissed

(***************************************************************************)
(* protect.h:134 "pointers inside the scheduling queues": between two      *)
(* calls of schedule every task is on a queue.                             *)
(***************************************************************************)
NobodyLost == acts = <<>> => \A p \in Task : \E q \in Queue : p \in Members(q)
=============================================================================
