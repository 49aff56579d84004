----------------------------- MODULE Scheduler ------------------------------
(***************************************************************************)
(* The multilevel feedback scheduler of lib/interrupt/interrupt.cc over    *)
(* the process table init_proc builds (lib/process/process.cc).            *)
(*                                                                         *)
(* The three levels are linked lists threaded through next_pcb, each with  *)
(* a head and a tail pointer; the idle process, process_tail, ends all     *)
(* three lists and points to itself.  Processes are their pids, which are  *)
(* also their indices in proc_table.  One call of schedule() is one step;  *)
(* it reads flags', the flags block() has just written.                    *)
(*                                                                         *)
(* A system call runs with interrupts enabled (sti in sys_call,            *)
(* kernel.asm), so the clock may choose another process before its caller  *)
(* blocks; the kernel returns to the call all the same.                    *)
(***************************************************************************)
EXTENDS Integers, Lists

CONSTANTS
    NR_TASK,             \* number of tasks; proc_table has one more, idle
    FIRST_QUENE_SLICE,   \* ticks a process has in queue 1, 2 and 3
    SECOND_QUENE_SLICE,
    LAST_QUENE_SLICE,
    TtyQueen,            \* what may stand in proc_table[0].queen_number at
                         \* boot: init_proc never writes it
    BlockFlag            \* the values block() is called with

RUNNING   == 0
SENDING   == 2
RECEIVING == 4

Proc         == 0..NR_TASK
process_tail == NR_TASK
Task         == Proc \ {process_tail}
Queue        == 1..3

ASSUME SchedulerAssumption ==
    /\ NR_TASK \in Nat \ {0}
    /\ FIRST_QUENE_SLICE \in Nat \ {0}
    /\ SECOND_QUENE_SLICE \in Nat \ {0}
    /\ LAST_QUENE_SLICE \in Nat \ {0}
    /\ TtyQueen \subseteq 0..255
    /\ BlockFlag \subseteq {SENDING, RECEIVING}

VARIABLES
    flags,         \* pid -> RUNNING, SENDING or RECEIVING
    ticks,         \* pid -> ticks left of the slice
    queen_number,  \* pid -> the u8 that should say which queue it is on
    next_pcb,      \* pid -> the next process on its queue
    head, tail,    \* queue -> process_queenN_head, process_queenN_tail
    p_proc_ready,  \* the process the return from the kernel resumes
    caller         \* the process whose system call runs, or nullptr

quVars    == <<queen_number, next_pcb, head, tail>>
schedVars == <<ticks, queen_number, next_pcb, head, tail, p_proc_ready>>
vars      == <<flags, schedVars, caller>>

\* init_proc with one loop for all processes: the idle process is linked
\* behind itself like the others
Init_IdleLinkedLikeATask ==
    /\ flags = [p \in Proc |-> RUNNING]
    /\ ticks = [p \in Proc |-> FIRST_QUENE_SLICE]
    /\ queen_number = [p \in Proc |-> 1]
    /\ next_pcb = [p \in Proc |-> p + 1]
    /\ head = [q \in Queue |-> IF q = 1 THEN 0 ELSE process_tail]
    /\ tail = [q \in Queue |-> IF q = 1 THEN process_tail - 1 ELSE process_tail]
    /\ p_proc_ready = 0
    /\ caller = nullptr

\* init_proc: all tasks on queue 1 in pid order, queues 2 and 3 empty
Init ==
    /\ flags = [p \in Proc |-> RUNNING]
    /\ ticks = [p \in Proc |-> IF p = process_tail THEN LAST_QUENE_SLICE
                                                   ELSE FIRST_QUENE_SLICE]
    /\ \E q \in TtyQueen :
          queen_number = [p \in Proc |-> CASE p = process_tail -> 3
                                           [] p = 0            -> q
                                           [] OTHER            -> 1]
    /\ next_pcb = [p \in Proc |-> IF p = process_tail THEN process_tail ELSE p + 1]
    /\ head = [q \in Queue |-> IF q = 1 THEN 0 ELSE process_tail]
    /\ tail = [q \in Queue |-> IF q = 1 THEN process_tail - 1 ELSE process_tail]
    /\ p_proc_ready = 0
    /\ caller = nullptr

-----------------------------------------------------------------------------
Running == {p \in Proc : flags'[p] = RUNNING}

\* find_first that looks at the head of the queue only
find_first_head(h, t) == IF h \in Running THEN h ELSE nullptr

\* the first process between h and t that is not blocked, or nullptr; every
\* call with t = process_tail returns nullptr, whatever is on the list
find_first(h, t) ==
    LET p == WalkTo(Proc, next_pcb, h, Running \cup {t})
    IN  IF t = process_tail \/ p \notin Running THEN nullptr ELSE p

\* next_pcb when the process before curr is not made to skip it
unlinked_late(q, curr) == next_pcb

\* next_pcb after curr has been taken out of queue q
unlinked(q, curr) ==
    IF head[q] = curr THEN next_pcb
    ELSE [next_pcb EXCEPT ![WalkTo(Proc, next_pcb, head[q],
                                   {p \in Proc : next_pcb[p] = curr})] = next_pcb[curr]]

\* next_pcb after curr has then been chained to the end of queue q + 1
linked(q, curr) ==
    IF tail[q + 1] = process_tail
    THEN [unlinked(q, curr) EXCEPT ![curr] = process_tail]
    ELSE [unlinked(q, curr) EXCEPT ![tail[q + 1]] = curr, ![curr] = process_tail]

\* the end of the list nx that starts at h
last(nx, h) == WalkTo(Proc, nx, h, {p \in Proc : nx[p] = process_tail})

\* the slice is not renewed when it is used up
charged_once(curr, next_ticks) == ticks[curr] - 1

\* ticks of curr after one more tick, next_ticks being its next slice
charged(curr, next_ticks) == IF ticks[curr] = 1 THEN next_ticks ELSE ticks[curr] - 1

\* the number of the queue below
next_number(curr) == (queen_number[curr] + 1) % 256

\* charge curr, which is on queue q, for one tick; when its slice is used up
\* move it to the end of queue q + 1
next_quene(q, curr, next_ticks) ==
    /\ ticks' = [ticks EXCEPT ![curr] = charged(curr, next_ticks)]
    /\ IF ticks[curr] # 1
       THEN UNCHANGED quVars
       ELSE LET new_head == IF head[q] = curr THEN next_pcb[curr] ELSE head[q]
            IN  /\ queen_number' = [queen_number EXCEPT ![curr] = next_number(curr)]
                /\ next_pcb' = linked(q, curr)
                /\ head' = [head EXCEPT
                      ![q]     = new_head,
                      ![q + 1] = IF tail[q + 1] = process_tail THEN curr ELSE @]
                /\ tail' = [tail EXCEPT
                      ![q]     = IF @ = curr THEN last(linked(q, curr), new_head) ELSE @,
                      ![q + 1] = curr]

\* queue 3 is never left behind its first process
successor_same(p) == p

\* who follows p once its turn in queue 3 is over
successor(p) == IF p = process_tail THEN WalkTo(Proc, next_pcb, head[3], Running)
                                    ELSE next_pcb[p]

\* queues 1 and 2 have nothing to run: the rest of schedule(), which looks
\* at the process that was running
schedule_last ==
    LET p       == p_proc_ready
        left    == ticks[p] - 1
        expired == left = 0 \/ (p \notin Running /\ queen_number[p] = 3)
    IN  /\ ticks' = [ticks EXCEPT ![p] = IF expired THEN LAST_QUENE_SLICE ELSE left]
        /\ p_proc_ready' =
              CASE expired                       -> successor(p)
                [] ~expired /\ queen_number[p] < 3 -> find_first(head[3], process_tail)
                [] OTHER                         -> p
        /\ UNCHANGED quVars

schedule ==
    LET p_first  == find_first(head[1], tail[1])
        p_second == find_first(head[2], tail[2])
    IN  \/ /\ p_first # nullptr
           /\ p_proc_ready' = p_first
           /\ next_quene(1, p_first, SECOND_QUENE_SLICE)
        \/ /\ p_first = nullptr /\ p_second # nullptr
           /\ p_proc_ready' = p_second
           /\ next_quene(2, p_second, LAST_QUENE_SLICE)
        \/ /\ p_first = nullptr /\ p_second = nullptr
           /\ p_proc_ready # nullptr
           /\ schedule_last
        \* a process at address 0: counts down in the vector table there
        \/ /\ p_first = nullptr /\ p_second = nullptr
           /\ p_proc_ready = nullptr
           /\ UNCHANGED schedVars

-----------------------------------------------------------------------------
(* The kernel returns through restart, which loads esp from p_proc_ready:  *)
(* with the null pointer there, it takes a fault it cannot return from and *)
(* no action is enabled any more.                                          *)

Alive == caller # nullptr \/ p_proc_ready # nullptr

clock_handler ==
    /\ Alive
    /\ UNCHANGED <<flags, caller>>
    /\ schedule

\* ipc: the running task calls send_msg or receive_msg
sys_call ==
    /\ caller = nullptr
    /\ p_proc_ready \in Task
    /\ caller' = p_proc_ready
    /\ UNCHANGED <<flags, schedVars>>

\* the call returns without blocking
sys_return ==
    /\ caller # nullptr
    /\ caller' = nullptr
    /\ UNCHANGED <<flags, schedVars>>

\* the call ends with block(...); schedule();
block_and_schedule == \E f \in BlockFlag :
    /\ caller # nullptr
    /\ flags' = [flags EXCEPT ![caller] = f]
    /\ schedule
    /\ caller' = nullptr

\* the one path of receive_msg that blocks and returns to its caller
block_only ==
    /\ caller # nullptr
    /\ flags' = [flags EXCEPT ![caller] = RECEIVING]
    /\ caller' = nullptr
    /\ UNCHANGED schedVars

\* a partner of the process, or the disk interrupt, ends the wait
unblock(p) ==
    /\ Alive
    /\ flags[p] # RUNNING
    /\ flags' = [flags EXCEPT ![p] = RUNNING]
    /\ UNCHANGED <<schedVars, caller>>

Next ==
    \/ clock_handler
    \/ sys_call
    \/ sys_return
    \/ block_and_schedule
    \/ block_only
    \/ \E p \in Task : unblock(p)

Spec == Init /\ [][Next]_vars

\* The 8253 interrupts the CPU HZ times a second for as long as it runs:
\* WF_vars(clock_handler), with ENABLED <<clock_handler>>_vars written out
\* (with a process in p_proc_ready, schedule changes its ticks)
FairSpec == Spec /\ ([]<>(p_proc_ready = nullptr) \/ []<><<clock_handler>>_vars)

-----------------------------------------------------------------------------
\* pointers are null or processes, slices and queue numbers stay in their
\* ranges
TypeOK ==
    /\ flags \in [Proc -> {RUNNING, SENDING, RECEIVING}]
    /\ ticks \in [Proc -> Int]
    /\ queen_number \in [Proc -> 0..255]
    /\ next_pcb \in [Proc -> Proc]
    /\ head \in [Queue -> Proc]
    /\ tail \in [Queue -> Proc \cup {nullptr}]
    /\ p_proc_ready \in Proc \cup {nullptr}
    /\ caller \in Task \cup {nullptr}

(***************************************************************************)
(* The lists stay lists: every one of them leads to process_tail, its tail *)
(* pointer is its last process (process_tail when it is empty), and every  *)
(* task is on exactly one of them: the one that its queen_number says,     *)
(* except process 0, whose field init_proc never writes.  next_quene takes *)
(* a process out of one list and chains it to another with a handful of    *)
(* pointer writes; a wrong one makes find_first or the walks of next_quene *)
(* loop in the kernel, or loses a process for good.  schedule() decides    *)
(* from queen_number, find_first from the lists.                           *)
(***************************************************************************)
Members(q) == Visited(Proc, next_pcb, head[q], {process_tail}) \ {process_tail}

QueuesWellFormed ==
    /\ next_pcb[process_tail] = process_tail
    /\ \A q \in Queue :
          /\ process_tail \in Visited(Proc, next_pcb, head[q], {process_tail})
          /\ IF Members(q) = {} THEN tail[q] = process_tail
                                ELSE /\ tail[q] \in Members(q)
                                     /\ next_pcb[tail[q]] = process_tail
    /\ \A p \in Task : \E q \in Queue :
          /\ p \in Members(q)
          /\ \A r \in Queue \ {q} : p \notin Members(r)
          /\ p = 0 \/ queen_number[p] = q

(***************************************************************************)
(* A slice is always between one tick and the longest slice.  Both tests   *)
(* of the code are "ticks == 0" after a decrement: a process whose counter *)
(* once passed zero would keep the CPU for 2^32 ticks.                     *)
(***************************************************************************)
SliceNeverMissed ==
    \A p \in Proc : /\ ticks[p] >= 1
                    /\ \/ ticks[p] <= FIRST_QUENE_SLICE
                       \/ ticks[p] <= SECOND_QUENE_SLICE
                       \/ ticks[p] <= LAST_QUENE_SLICE

(***************************************************************************)
(* Once the processes are CPU bound (nobody calls, blocks or is unblocked  *)
(* any more) every runnable process gets the CPU again and again, for as   *)
(* long as the kernel is alive: slices run out, so queues 1 and 2 drain    *)
(* into queue 3, and schedule() goes round queue 3.  It needs the premise: *)
(* a process of queue 2 that blocks whenever one tick is left is given a   *)
(* fresh slice there each time and starves queue 3.                        *)
(***************************************************************************)
CpuBound == <>[](caller = nullptr) /\ <>[][UNCHANGED flags]_vars

NoStarvation ==
    CpuBound => \A p \in Task :
        <>[](flags[p] = RUNNING) => []<>(p_proc_ready \in {p, nullptr})

(***************************************************************************)
(* What the comments promise and the code does not keep.                   *)
(* protect.h:138 "scheduling blocks according to this flag": a process the *)
(* scheduler switches to is not blocked.                                   *)
(***************************************************************************)
SwitchesToRunnable ==
    [][ p_proc_ready' \notin {p_proc_ready, nullptr}
            => flags'[p_proc_ready'] = RUNNING ]_vars

(***************************************************************************)
(* process.cc:249 "the empty process, for when the system is idle": there  *)
(* is always a process to resume.                                          *)
(***************************************************************************)
AlwaysAProcess == p_proc_ready # nullptr
=============================================================================
