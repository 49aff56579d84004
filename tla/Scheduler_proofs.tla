-------------------------- MODULE Scheduler_proofs --------------------------
(***************************************************************************)
(* Theorems about Scheduler.tla, for any number of tasks and any slices.   *)
(***************************************************************************)
EXTENDS SchedulerRefinement, Lists_proofs, TLAPS

LEMMA ConstantTypes ==
    /\ Proc \subseteq Int /\ process_tail \in Proc /\ Task \subseteq Proc
    /\ 0 \in Proc /\ nullptr \notin Proc
  BY SchedulerAssumption DEF Proc, process_tail, Task, nullptr

(***************************************************************************)
(* A walk ends in its stop set, or does not end.                           *)
(***************************************************************************)
LEMMA WalkEnds ==
    ASSUME NEW P, NEW nx, NEW h, NEW Stop
    PROVE  \/ WalkTo(P, nx, h, Stop) = nullptr
           \/ WalkTo(P, nx, h, Stop) \in Stop \cap P
  BY DEF WalkTo, Visited

(***************************************************************************)
(* find_first never returns a blocked process.                             *)
(***************************************************************************)
LEMMA FindFirstRuns ==
    ASSUME NEW h, NEW t
    PROVE  \/ find_first(h, t) = nullptr
           \/ find_first(h, t) \in Proc /\ flags'[find_first(h, t)] = RUNNING
  BY DEF find_first, Running

-----------------------------------------------------------------------------
Inv == TypeOK /\ SliceNeverMissed

FlagsTyped == /\ flags' \in [Proc -> {RUNNING, SENDING, RECEIVING}]
              /\ caller' \in Task \cup {nullptr}

LEMMA InitInv == Init => Inv
<1> SUFFICES ASSUME Init PROVE Inv
  OBVIOUS
<1>1. \A p \in Proc : p # process_tail => p + 1 \in Proc
  BY SchedulerAssumption DEF Proc, process_tail
<1>2. process_tail - 1 \in Proc
  BY SchedulerAssumption DEF Proc, process_tail
<1>3. TypeOK
  <2>1. flags \in [Proc -> {RUNNING, SENDING, RECEIVING}]
    BY DEF Init
  <2>2. ticks \in [Proc -> Int]
    BY SchedulerAssumption DEF Init
  <2>3. queen_number \in [Proc -> 0..255]
    <3>1. PICK q \in TtyQueen :
             queen_number = [p \in Proc |-> CASE p = process_tail -> 3
                                              [] p = 0            -> q
                                              [] OTHER            -> 1]
      BY DEF Init
    <3>2. q \in 0..255
      BY SchedulerAssumption
    <3> QED  BY <3>1, <3>2
  <2>4. next_pcb \in [Proc -> Proc]
    BY <1>1, ConstantTypes DEF Init
  <2>5. head \in [Queue -> Proc] /\ tail \in [Queue -> Proc \cup {nullptr}]
    BY <1>2, ConstantTypes DEF Init
  <2>6. p_proc_ready \in Proc \cup {nullptr}
    BY ConstantTypes DEF Init
  <2>7. caller \in Task \cup {nullptr}
    BY DEF Init
  <2> QED  BY <2>1, <2>2, <2>3, <2>4, <2>5, <2>6, <2>7 DEF TypeOK
<1>4. SliceNeverMissed
  BY SchedulerAssumption DEF Init, SliceNeverMissed
<1> QED  BY <1>3, <1>4 DEF Inv

LEMMA NextQueneTyped ==
    ASSUME Inv, NEW q \in {1, 2}, NEW curr \in Proc, NEW slice \in Int,
           slice \in {FIRST_QUENE_SLICE, SECOND_QUENE_SLICE, LAST_QUENE_SLICE},
           next_quene(q, curr, slice)
    PROVE  /\ ticks' \in [Proc -> Int]
           /\ queen_number' \in [Proc -> 0..255]
           /\ next_pcb' \in [Proc -> Proc]
           /\ head' \in [Queue -> Proc]
           /\ tail' \in [Queue -> Proc \cup {nullptr}]
           /\ SliceNeverMissed'
<1> USE DEF Inv, TypeOK
<1>1. charged(curr, slice) \in Int
  BY DEF charged
<1>2. ticks' = [ticks EXCEPT ![curr] = charged(curr, slice)]
  BY DEF next_quene
<1>3. ticks' \in [Proc -> Int]
  BY <1>1, <1>2
<1>4. SliceNeverMissed'
  <2> SUFFICES ASSUME NEW p \in Proc
               PROVE  /\ ticks'[p] >= 1
                      /\ \/ ticks'[p] <= FIRST_QUENE_SLICE
                         \/ ticks'[p] <= SECOND_QUENE_SLICE
                         \/ ticks'[p] <= LAST_QUENE_SLICE
    BY DEF SliceNeverMissed
  <2>1. CASE p # curr
    BY <1>2, <2>1 DEF SliceNeverMissed
  <2>2. CASE p = curr
    <3>1. ticks'[p] = charged(curr, slice)
      BY <1>2, <2>2
    <3> QED  BY <3>1, SchedulerAssumption DEF charged, SliceNeverMissed
  <2> QED  BY <2>1, <2>2
<1>5. CASE ticks[curr] # 1
  <2>1. UNCHANGED quVars
    BY <1>5 DEF next_quene
  <2> QED  BY <2>1, <1>3, <1>4 DEF quVars
<1>6. CASE ticks[curr] = 1
  <2> DEFINE new_head == IF head[q] = curr THEN next_pcb[curr] ELSE head[q]
  <2>1. /\ queen_number' = [queen_number EXCEPT ![curr] = next_number(curr)]
        /\ next_pcb' = linked(q, curr)
        /\ head' = [head EXCEPT
              ![q]     = new_head,
              ![q + 1] = IF tail[q + 1] = process_tail THEN curr ELSE @]
        /\ tail' = [tail EXCEPT
              ![q]     = IF @ = curr THEN last(linked(q, curr), new_head) ELSE @,
              ![q + 1] = curr]
    BY <1>6 DEF next_quene
  <2>2. new_head \in Proc
    BY DEF Queue
  <2>3. next_number(curr) \in 0..255
    <3>1. queen_number[curr] \in 0..255
      OBVIOUS
    <3> QED  BY <3>1 DEF next_number
  <2>4. unlinked(q, curr) \in [Proc -> Proc]
    BY DEF unlinked
  <2>5. linked(q, curr) \in [Proc -> Proc]
    BY <2>4, ConstantTypes DEF linked
  <2>6. last(linked(q, curr), new_head) \in Proc \cup {nullptr}
    BY WalkEnds DEF last
  <2>7. queen_number' \in [Proc -> 0..255]
    BY <2>1, <2>3
  <2>8. head' \in [Queue -> Proc]
    BY <2>1, <2>2
  <2>9. tail' \in [Queue -> Proc \cup {nullptr}]
    BY <2>1, <2>6
  <2> QED  BY <2>1, <2>5, <2>7, <2>8, <2>9, <1>3, <1>4
<1> QED  BY <1>5, <1>6

LEMMA ScheduleLastTyped ==
    ASSUME Inv, p_proc_ready # nullptr, schedule_last
    PROVE  /\ ticks' \in [Proc -> Int]
           /\ p_proc_ready' \in Proc \cup {nullptr}
           /\ SliceNeverMissed'
<1> USE DEF Inv, TypeOK
<1> DEFINE p       == p_proc_ready
           left    == ticks[p] - 1
           expired == left = 0 \/ (p \notin Running /\ queen_number[p] = 3)
<1>1. p \in Proc
  OBVIOUS
<1>2. ticks' = [ticks EXCEPT ![p] = IF expired THEN LAST_QUENE_SLICE ELSE left]
  BY DEF schedule_last
<1>3. /\ LAST_QUENE_SLICE \in Int /\ LAST_QUENE_SLICE >= 1
      /\ left \in Int /\ (~expired => left >= 1)
  BY <1>1, SchedulerAssumption DEF SliceNeverMissed
<1>4. ticks' \in [Proc -> Int]
  BY <1>2, <1>3
<1>5. SliceNeverMissed'
  <2> SUFFICES ASSUME NEW r \in Proc
               PROVE  /\ ticks'[r] >= 1
                      /\ \/ ticks'[r] <= FIRST_QUENE_SLICE
                         \/ ticks'[r] <= SECOND_QUENE_SLICE
                         \/ ticks'[r] <= LAST_QUENE_SLICE
    BY DEF SliceNeverMissed
  <2>1. CASE r # p
    BY <1>2, <2>1 DEF SliceNeverMissed
  <2>2. CASE r = p /\ expired
    BY <1>1, <1>2, <1>3, <2>2
  <2>3. CASE r = p /\ ~expired
    <3>1. ticks'[r] = left
      BY <1>1, <1>2, <2>3
    <3> QED  BY <1>1, <1>3, <2>3, <3>1, SchedulerAssumption DEF SliceNeverMissed
  <2> QED  BY <2>1, <2>2, <2>3
<1>6. p_proc_ready' \in Proc \cup {nullptr}
  <2>1. successor(p) \in Proc \cup {nullptr}
    BY <1>1, WalkEnds DEF successor
  <2>2. find_first(head[3], process_tail) \in Proc \cup {nullptr}
    BY FindFirstRuns
  <2> QED  BY <1>1, <2>1, <2>2 DEF schedule_last
<1> QED  BY <1>4, <1>5, <1>6

LEMMA ScheduleTyped ==
    ASSUME Inv, FlagsTyped, schedule
    PROVE  Inv'
<1> DEFINE p_first  == find_first(head[1], tail[1])
           p_second == find_first(head[2], tail[2])
<1>1. CASE p_first # nullptr /\ p_proc_ready' = p_first
              /\ next_quene(1, p_first, SECOND_QUENE_SLICE)
  <2>1. p_first \in Proc
    BY <1>1, FindFirstRuns
  <2> QED  BY <1>1, <2>1, NextQueneTyped, SchedulerAssumption
           DEF Inv, TypeOK, FlagsTyped
<1>2. CASE p_second # nullptr /\ p_proc_ready' = p_second
              /\ next_quene(2, p_second, LAST_QUENE_SLICE)
  <2>1. p_second \in Proc
    BY <1>2, FindFirstRuns
  <2> QED  BY <1>2, <2>1, NextQueneTyped, SchedulerAssumption
           DEF Inv, TypeOK, FlagsTyped
<1>3. CASE p_proc_ready # nullptr /\ schedule_last
  <2>1. UNCHANGED quVars
    BY <1>3 DEF schedule_last
  <2> QED  BY <1>3, <2>1, ScheduleLastTyped DEF Inv, TypeOK, FlagsTyped, quVars
<1>4. CASE UNCHANGED schedVars
  BY <1>4 DEF Inv, TypeOK, FlagsTyped, SliceNeverMissed, schedVars
<1> QED  BY <1>1, <1>2, <1>3, <1>4 DEF schedule

LEMMA StepInv == Inv /\ [Next]_vars => Inv'
<1> SUFFICES ASSUME Inv, [Next]_vars PROVE Inv'
  OBVIOUS
<1> USE DEF Inv, TypeOK
<1>1. CASE clock_handler
  BY <1>1, ScheduleTyped DEF clock_handler, FlagsTyped
<1>2. CASE sys_call \/ sys_return
  BY <1>2 DEF sys_call, sys_return, schedVars, SliceNeverMissed
<1>3. CASE block_and_schedule
  <2>1. FlagsTyped
    <3>1. PICK f \in BlockFlag : flags' = [flags EXCEPT ![caller] = f]
      BY <1>3 DEF block_and_schedule
    <3>2. f \in {RUNNING, SENDING, RECEIVING}
      BY SchedulerAssumption
    <3>3. caller' = nullptr
      BY <1>3 DEF block_and_schedule
    <3> QED  BY <3>1, <3>2, <3>3 DEF FlagsTyped
  <2>2. schedule
    BY <1>3 DEF block_and_schedule
  <2> HIDE DEF Inv, TypeOK
  <2> QED  BY <2>1, <2>2, ScheduleTyped
<1>4. CASE block_only
  BY <1>4 DEF block_only, schedVars, SliceNeverMissed
<1>5. CASE \E p \in Task : unblock(p)
  <2>1. PICK p \in Task : /\ flags' = [flags EXCEPT ![p] = RUNNING]
                          /\ UNCHANGED <<schedVars, caller>>
    BY <1>5 DEF unblock
  <2>2. flags' \in [Proc -> {RUNNING, SENDING, RECEIVING}]
    BY <2>1
  <2> QED  BY <2>1, <2>2 DEF schedVars, SliceNeverMissed
<1>6. CASE UNCHANGED vars
  BY <1>6 DEF vars, schedVars, SliceNeverMissed
<1> QED  BY <1>1, <1>2, <1>3, <1>4, <1>5, <1>6 DEF Next

(***************************************************************************)
(* The scheduler's state stays well typed: pointers into proc_table, or    *)
(* null, however init_proc, schedule and next_quene move them.             *)
(***************************************************************************)
THEOREM SchedulerTypes == Spec => []TypeOK
<1>1. Inv => TypeOK
  BY DEF Inv
<1> QED  BY InitInv, StepInv, <1>1, PTL DEF Spec

(***************************************************************************)
(* No process ever has fewer than one tick left, or more than the longest  *)
(* slice: neither "ticks == 0" test of interrupt.cc can be stepped over,   *)
(* whatever the number of tasks and the slices.                            *)
(***************************************************************************)
THEOREM SlicesBounded == Spec => []SliceNeverMissed
<1>1. Inv => SliceNeverMissed
  BY DEF Inv
<1> QED  BY InitInv, StepInv, <1>1, PTL DEF Spec
-----------------------------------------------------------------------------
(***************************************************************************)
(* The lists.  A queue stands for the sequence of its processes; with      *)
(* process_tail behind it, it is what the loops of the code walk along.    *)
(***************************************************************************)
Full(s) == Append(s, process_tail)

EndOf(s) == IF s = <<>> THEN process_tail ELSE s[Len(s)]

\* the pointers h, t and nx are those of the queue s
IsQueue(s, nx, h, t) ==
    /\ s \in Seq(Task)
    /\ h = Full(s)[1]
    /\ t = EndOf(s)
    /\ Linked(Full(s), nx)

LEMMA FullProperties ==
    ASSUME NEW s \in Seq(Task)
    PROVE  /\ Full(s) \in Seq(Proc) /\ Len(Full(s)) = Len(s) + 1
           /\ \A i \in 1..Len(s) : Full(s)[i] = s[i] /\ s[i] \in Task
           /\ Full(s)[Len(s) + 1] = process_tail
           /\ s = <<>> <=> Len(s) = 0
<1>1. s \in Seq(Proc) /\ process_tail \in Proc
  BY ConstantTypes, SeqDef DEF Task
<1>2. \A i \in 1..Len(s) : s[i] \in Task
  OBVIOUS
<1> QED  BY <1>1, <1>2, AppendElements DEF Full

LEMMA QueueLinks ==
    ASSUME NEW s, NEW nx, NEW h, NEW t, IsQueue(s, nx, h, t), NEW i \in 1..Len(s)
    PROVE  nx[s[i]] = IF i = Len(s) THEN process_tail ELSE s[i + 1]
<1>1. s \in Seq(Task) /\ Linked(Full(s), nx)
  BY DEF IsQueue
<1>2. Len(s) \in Nat /\ i \in Int
  BY <1>1
<1>3. nx[Full(s)[i]] = Full(s)[i + 1]
  BY <1>1, <1>2, FullProperties DEF Linked
<1>4. CASE i = Len(s)
  BY <1>1, <1>3, <1>4, FullProperties
<1>5. CASE i # Len(s)
  <2>1. i + 1 \in 1..Len(s)
    BY <1>2, <1>5
  <2> QED  BY <1>1, <1>3, <1>5, <2>1, FullProperties
<1> QED  BY <1>4, <1>5

LEMMA LinkedQueue ==
    ASSUME NEW s \in Seq(Task), NEW nx,
           \A i \in 1..Len(s) : nx[s[i]] = IF i = Len(s) THEN process_tail ELSE s[i + 1]
    PROVE  Linked(Full(s), nx)
<1> SUFFICES ASSUME NEW i \in 1..(Len(Full(s)) - 1)
             PROVE  nx[Full(s)[i]] = Full(s)[i + 1]
  BY DEF Linked
<1>1. i \in 1..Len(s) /\ Len(s) \in Nat
  BY FullProperties
<1>2. Full(s)[i] = s[i]
  BY <1>1, FullProperties
<1>3. CASE i = Len(s)
  BY <1>1, <1>2, <1>3, FullProperties
<1>4. CASE i # Len(s)
  <2>1. i + 1 \in 1..Len(s)
    BY <1>1, <1>4
  <2> QED  BY <1>1, <1>2, <1>4, <2>1, FullProperties
<1> QED  BY <1>3, <1>4

\* the whole of a queue, with process_tail at its end
LEMMA QueueVisited ==
    ASSUME NEW s, NEW nx, NEW h, NEW t, IsQueue(s, nx, h, t)
    PROVE  Visited(Proc, nx, h, {process_tail})
               = {s[i] : i \in 1..Len(s)} \cup {process_tail}
<1> DEFINE f == Full(s)
           k == Len(s) + 1
<1>1. /\ s \in Seq(Task) /\ Linked(f, nx) /\ h = f[1]
  BY DEF IsQueue
<1>2. /\ f \in Seq(Proc) /\ Len(f) = k /\ Len(s) \in Nat /\ f[k] = process_tail
      /\ \A i \in 1..Len(s) : f[i] = s[i] /\ s[i] \in Task
  BY <1>1, FullProperties
<1>3. k \in 1..Len(f) /\ \A j \in 1..(k - 1) : f[j] \notin {process_tail}
  BY <1>2 DEF Task
<1>4. Visited(Proc, nx, f[1], {process_tail}) = {f[i] : i \in 1..k}
  <2> DEFINE Stop == {process_tail}
  <2>1. /\ f \in Seq(Proc) /\ Linked(f, nx) /\ k \in 1..Len(f) /\ f[k] \in Stop
        /\ \A j \in 1..(k - 1) : f[j] \notin Stop
    BY <1>1, <1>2, <1>3
  <2> HIDE DEF f, k, Stop
  <2>2. Visited(Proc, nx, f[1], Stop) = UpTo(f, k)
    BY <2>1, WalkAlong
  <2> QED  BY <2>2 DEF Stop, UpTo
<1>5. {f[i] : i \in 1..k} = {s[i] : i \in 1..Len(s)} \cup {process_tail}
  <2>1. ASSUME NEW i \in 1..k
        PROVE  f[i] \in {s[j] : j \in 1..Len(s)} \cup {process_tail}
    <3>1. CASE i = k
      BY <1>2, <3>1
    <3>2. CASE i # k
      <4>1. i \in 1..Len(s)
        BY <1>2, <3>2
      <4> QED  BY <1>2, <4>1
    <3> QED  BY <3>1, <3>2
  <2>2. ASSUME NEW j \in 1..Len(s) PROVE s[j] \in {f[i] : i \in 1..k}
    <3>1. j \in 1..k /\ f[j] = s[j]
      BY <1>2
    <3> QED  BY <3>1
  <2>3. process_tail \in {f[i] : i \in 1..k}
    BY <1>2, <1>3
  <2> QED  BY <2>1, <2>2, <2>3
<1> QED  BY <1>1, <1>4, <1>5

\* a queue none of whose pointers is written is left as it is
LEMMA QueueFrame ==
    ASSUME NEW s, NEW nx, NEW ny, NEW h, NEW t, IsQueue(s, nx, h, t),
           \A i \in 1..Len(s) : ny[s[i]] = nx[s[i]]
    PROVE  IsQueue(s, ny, h, t)
<1>1. s \in Seq(Task) /\ h = Full(s)[1] /\ t = EndOf(s)
  BY DEF IsQueue
<1>2. \A i \in 1..Len(s) : ny[s[i]] = IF i = Len(s) THEN process_tail ELSE s[i + 1]
  BY QueueLinks
<1> QED  BY <1>1, <1>2, LinkedQueue DEF IsQueue

\* the process in place i is taken out: the one before it skips it
LEMMA QueueRemove ==
    ASSUME NEW s, NEW nx, NEW h, NEW t, IsQueue(s, nx, h, t),
           NEW i \in 1..Len(s),
           \A j, k \in 1..Len(s) : s[j] = s[k] => j = k,
           NEW ny,
           i > 1 => ny[s[i - 1]] = nx[s[i]],
           \A j \in 1..Len(s) : j # i /\ j # i - 1 => ny[s[j]] = nx[s[j]],
           NEW g, g = IF h = s[i] THEN nx[s[i]] ELSE h
    PROVE  IsQueue(RemoveAt(s, i), ny, g, EndOf(RemoveAt(s, i)))
<1> DEFINE r == RemoveAt(s, i)
<1>1. s \in Seq(Task) /\ h = Full(s)[1] /\ Len(s) \in Nat /\ i \in Int
  BY DEF IsQueue
<1>2. /\ r \in Seq(Task) /\ Len(r) = Len(s) - 1
      /\ \A j \in 1..(Len(s) - 1) : r[j] = IF j < i THEN s[j] ELSE s[j + 1]
  BY <1>1, RemoveAtElements
<1>3. \A j \in 1..Len(s) : nx[s[j]] = IF j = Len(s) THEN process_tail ELSE s[j + 1]
  BY QueueLinks
<1>4. h = s[1] /\ s[1] \in Task
  BY <1>1, FullProperties
<1>5. g = Full(r)[1]
  <2>1. CASE i = 1
    <3>1. g = nx[s[1]]
      BY <1>4, <2>1
    <3>2. CASE Len(s) = 1
      <4>1. g = process_tail
        BY <1>3, <3>1, <3>2
      <4>2. Full(r)[1] = process_tail
        BY <1>2, <3>2, FullProperties
      <4> QED  BY <4>1, <4>2
    <3>3. CASE Len(s) # 1
      <4>1. g = s[2] /\ r[1] = s[2] /\ 1 \in 1..Len(r)
        BY <1>1, <1>2, <1>3, <2>1, <3>1, <3>3
      <4> QED  BY <1>2, <4>1, FullProperties
    <3> QED  BY <3>2, <3>3
  <2>2. CASE i # 1
    <3>1. s[1] # s[i] /\ 1 \in 1..Len(r) /\ r[1] = s[1]
      BY <1>1, <1>2, <2>2
    <3> QED  BY <1>2, <1>4, <3>1, FullProperties
  <2> QED  BY <2>1, <2>2
<1>6. ASSUME NEW j \in 1..Len(r)
      PROVE  ny[r[j]] = IF j = Len(r) THEN process_tail ELSE r[j + 1]
  <2>0. Len(r) = Len(s) - 1 /\ j \in 1..Len(s) /\ j + 1 \in 1..Len(s) /\ j \in Int
    BY <1>1, <1>2
  <2>1. r[j] = IF j < i THEN s[j] ELSE s[j + 1]
    BY <1>2, <2>0
  <2>2. j # Len(r) => r[j + 1] = IF j + 1 < i THEN s[j + 1] ELSE s[j + 2]
    BY <1>2, <2>0
  <2> HIDE DEF r
  <2>3. CASE j < i - 1
    BY <1>1, <1>3, <2>0, <2>1, <2>2, <2>3
  <2>4. CASE j = i - 1
    BY <1>1, <1>3, <2>0, <2>1, <2>2, <2>4
  <2>5. CASE j >= i
    <3>1. j + 1 # i /\ j + 1 # i - 1 /\ (j + 1) + 1 = j + 2
      BY <1>1, <2>0, <2>5
    <3>2. ny[s[j + 1]] = nx[s[j + 1]]
      BY <2>0, <3>1
    <3>3. nx[s[j + 1]] = IF j + 1 = Len(s) THEN process_tail ELSE s[(j + 1) + 1]
      BY <1>3, <2>0
    <3>4. r[j] = s[j + 1] /\ (j # Len(r) => r[j + 1] = s[j + 2])
      BY <1>1, <2>0, <2>1, <2>2, <2>5
    <3>5. j = Len(r) <=> j + 1 = Len(s)
      BY <1>1, <2>0
    <3> QED  BY <3>1, <3>2, <3>3, <3>4, <3>5
  <2> QED  BY <1>1, <2>0, <2>3, <2>4, <2>5
<1>7. Linked(Full(r), ny)
  <2> HIDE DEF r
  <2> QED  BY <1>2, <1>6, LinkedQueue
<1> QED  BY <1>2, <1>5, <1>7 DEF IsQueue

\* c is chained to the end
LEMMA QueueAppend ==
    ASSUME NEW s, NEW nx, NEW h, NEW t, IsQueue(s, nx, h, t), NEW c \in Task,
           NEW ny, ny[c] = process_tail,
           s # <<>> => ny[s[Len(s)]] = c,
           \A j \in 1..Len(s) : j # Len(s) => ny[s[j]] = nx[s[j]]
    PROVE  IsQueue(Append(s, c), ny, IF s = <<>> THEN c ELSE h, c)
<1> DEFINE a == Append(s, c)
<1>1. s \in Seq(Task) /\ h = Full(s)[1] /\ Len(s) \in Nat
  BY DEF IsQueue
<1>2. /\ a \in Seq(Task) /\ Len(a) = Len(s) + 1 /\ a[Len(s) + 1] = c
      /\ \A j \in 1..Len(s) : a[j] = s[j]
  BY <1>1, AppendElements
<1>3. \A j \in 1..Len(s) : nx[s[j]] = IF j = Len(s) THEN process_tail ELSE s[j + 1]
  BY QueueLinks
<1> HIDE DEF a
<1>4. (IF s = <<>> THEN c ELSE h) = Full(a)[1]
  <2>1. Full(a)[1] = a[1]
    BY <1>1, <1>2, FullProperties
  <2>2. s = <<>> => a[1] = c
    BY <1>1, <1>2, FullProperties
  <2>3. s # <<>> => a[1] = h
    BY <1>1, <1>2, FullProperties
  <2> QED  BY <2>1, <2>2, <2>3
<1>5. c = EndOf(a)
  BY <1>1, <1>2, FullProperties DEF EndOf
<1>6. ASSUME NEW j \in 1..Len(a)
      PROVE  ny[a[j]] = IF j = Len(a) THEN process_tail ELSE a[j + 1]
  <2>1. CASE j = Len(s) + 1
    BY <1>1, <1>2, <2>1
  <2>2. CASE j = Len(s)
    <3>1. s # <<>> /\ a[j] = s[Len(s)] /\ a[j + 1] = c /\ j # Len(a)
      BY <1>1, <1>2, <2>2, FullProperties
    <3> QED  BY <3>1
  <2>3. CASE j < Len(s)
    <3>1. /\ j \in 1..Len(s) /\ j + 1 \in 1..Len(s) /\ j # Len(s) /\ j # Len(a)
      BY <1>1, <1>2, <2>3
    <3> QED  BY <1>2, <1>3, <3>1
  <2> QED  BY <1>1, <1>2, <2>1, <2>2, <2>3
<1>7. Linked(Full(a), ny)
  BY <1>2, <1>6, LinkedQueue
<1> QED  BY <1>2, <1>4, <1>5, <1>7 DEF IsQueue, a

\* the processes whose next one is p
Before(nx, p) == {x \in Proc : nx[x] = p}

\* the walk to the process before the one in place i
LEMMA WalkBefore ==
    ASSUME NEW s, NEW nx, NEW h, NEW t, IsQueue(s, nx, h, t),
           NEW i \in 2..Len(s),
           \A j, k \in 1..Len(s) : s[j] = s[k] => j = k
    PROVE  WalkTo(Proc, nx, h, Before(nx, s[i])) = s[i - 1]
<1> DEFINE f == Full(s)
           k == i - 1
           Stop == Before(nx, s[i])
<1>1. s \in Seq(Task) /\ Linked(f, nx) /\ h = f[1] /\ Len(s) \in Nat /\ i \in Int
  BY DEF IsQueue
<1>2. /\ f \in Seq(Proc) /\ Len(f) = Len(s) + 1
      /\ \A j \in 1..Len(s) : f[j] = s[j] /\ s[j] \in Proc
  BY <1>1, FullProperties, ConstantTypes
<1>3. k \in 1..Len(s) /\ k \in 1..Len(f) /\ k # Len(s) /\ k + 1 = i /\ i \in 1..Len(s)
  BY <1>1, <1>2
<1>4. f[k] \in Stop
  <2>1. nx[s[k]] = s[i]
    BY <1>3, QueueLinks
  <2> QED  BY <1>2, <1>3, <2>1 DEF Before
<1>5. ASSUME NEW j \in 1..(k - 1) PROVE f[j] \notin Stop
  <2>1. j \in 1..Len(s) /\ j # Len(s) /\ j + 1 \in 1..Len(s) /\ j + 1 # i
    BY <1>1, <1>3
  <2>2. nx[s[j]] = s[j + 1]
    BY <2>1, QueueLinks
  <2> QED  BY <1>2, <1>3, <2>1, <2>2 DEF Before
<1>6. /\ f \in Seq(Proc) /\ Linked(f, nx) /\ k \in 1..Len(f) /\ f[k] \in Stop
      /\ \A j \in 1..(k - 1) : f[j] \notin Stop
  <2> HIDE DEF f, k, Stop
  <2> QED  BY <1>1, <1>2, <1>3, <1>4, <1>5
<1> HIDE DEF f, k, Stop
<1>7. WalkTo(Proc, nx, f[1], Stop) = f[k]
  BY <1>6, WalkAlong
<1>8. f[k] = s[k]
  BY <1>2, <1>3
<1>9. WalkTo(Proc, nx, h, Stop) = s[k]
  BY <1>1, <1>7, <1>8
<1> QED  BY <1>9 DEF Stop, k

\* the walk to the last process
LEMMA WalkLast ==
    ASSUME NEW s, NEW nx, NEW h, NEW t, IsQueue(s, nx, h, t),
           nx[process_tail] = process_tail
    PROVE  last(nx, h) = EndOf(s)
<1> DEFINE f == Full(s)
           k == IF Len(s) = 0 THEN 1 ELSE Len(s)
           Stop == {p \in Proc : nx[p] = process_tail}
<1>1. s \in Seq(Task) /\ Linked(f, nx) /\ h = f[1] /\ Len(s) \in Nat
  BY DEF IsQueue
<1>2. /\ f \in Seq(Proc) /\ Len(f) = Len(s) + 1 /\ f[Len(s) + 1] = process_tail
      /\ \A j \in 1..Len(s) : f[j] = s[j] /\ s[j] \in Task
      /\ s = <<>> <=> Len(s) = 0
  BY <1>1, FullProperties
<1>3. k \in 1..Len(f) /\ f[k] = EndOf(s) /\ f[k] \in Proc
  BY <1>1, <1>2 DEF EndOf
<1>4. f[k] \in Stop
  <2>1. CASE Len(s) = 0
    BY <1>2, <1>3, <2>1
  <2>2. CASE Len(s) # 0
    <3>1. Len(s) \in 1..Len(s) /\ k = Len(s)
      BY <1>1, <2>2
    <3>2. nx[s[Len(s)]] = process_tail
      BY <3>1, QueueLinks
    <3> QED  BY <1>2, <1>3, <3>1, <3>2
  <2> QED  BY <2>1, <2>2
<1>5. ASSUME NEW j \in 1..(k - 1) PROVE f[j] \notin Stop
  <2>1. j \in 1..Len(s) /\ j # Len(s) /\ j + 1 \in 1..Len(s)
    BY <1>1
  <2>2. nx[s[j]] = s[j + 1] /\ s[j + 1] # process_tail
    BY <1>2, <2>1, QueueLinks DEF Task
  <2> QED  BY <1>2, <2>1, <2>2
<1> HIDE DEF f, k, Stop
<1>6. WalkTo(Proc, nx, f[1], Stop) = f[k]
  BY <1>2, <1>1, <1>3, <1>4, <1>5, WalkAlong
<1> QED  BY <1>1, <1>3, <1>6 DEF Stop, last

\* find_first finds the first process of the queue that is not blocked
LEMMA FindFirstOf ==
    ASSUME NEW s, NEW h, NEW t, IsQueue(s, next_pcb, h, t),
           \A j, k \in 1..Len(s) : s[j] = s[k] => j = k
    PROVE  \/ /\ find_first(h, t) = nullptr
              /\ \A j \in 1..Len(s) : flags'[s[j]] # RUNNING
           \/ \E k \in 1..Len(s) :
                /\ find_first(h, t) = s[k] /\ flags'[s[k]] = RUNNING
                /\ \A j \in 1..(k - 1) : flags'[s[j]] # RUNNING
<1> DEFINE f == Full(s)
           n == Len(s)
           Stop == Running \cup {t}
<1>1. /\ s \in Seq(Task) /\ Linked(f, next_pcb) /\ h = f[1] /\ n \in Nat
      /\ t = EndOf(s)
  BY DEF IsQueue
<1>2. /\ f \in Seq(Proc) /\ Len(f) = n + 1
      /\ \A j \in 1..n : f[j] = s[j] /\ s[j] \in Task /\ s[j] \in Proc
      /\ s = <<>> <=> n = 0
  BY <1>1, FullProperties, ConstantTypes
<1>3. CASE n = 0
  BY <1>1, <1>2, <1>3 DEF find_first, EndOf
<1>4. CASE n # 0
  <2>1. n \in 1..n /\ n \in 1..Len(f) /\ t = s[n] /\ f[n] \in Stop /\ t # process_tail
    BY <1>1, <1>2, <1>4 DEF EndOf, Task
  <2>2. PICK k \in 1..Len(f) : /\ k <= n /\ f[k] \in Stop
                               /\ \A j \in 1..(k - 1) : f[j] \notin Stop
    <3> HIDE DEF f, n, Stop
    <3>1. f \in Seq(Proc) /\ n \in 1..Len(f) /\ f[n] \in Stop
      BY <1>2, <2>1
    <3> QED  BY <3>1, FirstStop
  <2>3. WalkTo(Proc, next_pcb, f[1], Stop) = f[k]
    <3> HIDE DEF f, n, Stop
    <3> QED  BY <1>1, <1>2, <2>2, WalkAlong
  <2>4. k \in 1..n /\ f[k] = s[k]
    BY <1>1, <1>2, <2>2
  <2>5. ASSUME NEW j \in 1..(k - 1) PROVE flags'[s[j]] # RUNNING
    <3>1. j \in 1..n
      BY <1>1, <2>4
    <3> QED  BY <1>2, <2>2, <3>1 DEF Running
  <2>6. WalkTo(Proc, next_pcb, h, Running \cup {t}) = s[k]
    BY <1>1, <2>3, <2>4
  <2>7. CASE s[k] \in Running
    <3>1. find_first(h, t) = s[k] /\ flags'[s[k]] = RUNNING
      BY <2>1, <2>6, <2>7 DEF find_first, Running
    <3> QED  BY <2>4, <2>5, <3>1
  <2>8. CASE s[k] \notin Running
    <3>1. find_first(h, t) = nullptr
      BY <2>6, <2>8 DEF find_first
    <3>2. s[k] = s[n]
      BY <2>1, <2>2, <2>4, <2>8
    <3>3. k = n
      BY <2>1, <2>4, <3>2
    <3>4. ASSUME NEW j \in 1..n PROVE flags'[s[j]] # RUNNING
      <4>1. CASE j = n
        BY <1>2, <2>8, <3>3, <4>1 DEF Running
      <4>2. CASE j # n
        <5>1. j \in 1..(k - 1)
          BY <1>1, <3>3, <4>2
        <5> QED  BY <2>5, <5>1
      <4> QED  BY <4>1, <4>2
    <3> QED  BY <3>1, <3>4
  <2> QED  BY <2>7, <2>8
<1> QED  BY <1>3, <1>4

-----------------------------------------------------------------------------
(* The three queues: every task has one place on one of them.              *)

ListsOf(S, nx, h, t) ==
    /\ S \in [Levels -> Seq(Task)]
    /\ nx[process_tail] = process_tail
    /\ \A q \in Levels : IsQueue(S[q], nx, h[q], t[q])
    /\ AllPlaced(S, Task) /\ PlacedOnce(S)

Numbered(S, number) ==
    \A q \in Levels : \A i \in 1..Len(S[q]) : S[q][i] = 0 \/ number[S[q][i]] = q

Stands(S) ==
    ListsOf(S, next_pcb, head, tail) /\ Numbered(S, queen_number)

ListsInv == \E S \in [Levels -> Seq(Task)] : Stands(S)

AtBoot == [l \in Levels |-> IF l = 1 THEN [i \in 1..NR_TASK |-> i - 1] ELSE <<>>]

LEMMA AtBootOrder ==
    /\ AtBoot \in [Levels -> Seq(Task)]
    /\ AtBoot[1] \in Seq(Task) /\ Len(AtBoot[1]) = NR_TASK
    /\ \A i \in 1..NR_TASK : AtBoot[1][i] = i - 1
    /\ AtBoot[2] = <<>> /\ AtBoot[3] = <<>>
<1> DEFINE o == [i \in 1..NR_TASK |-> i - 1]
<1>1. NR_TASK \in Nat /\ \A i \in 1..NR_TASK : i - 1 \in Task
  BY SchedulerAssumption DEF Task, Proc, process_tail
<1>2. o \in [1..NR_TASK -> Task]
  BY <1>1
<1>3. o \in Seq(Task) /\ Len(o) = NR_TASK
  BY <1>1, <1>2
<1>4. AtBoot[1] = o /\ AtBoot[2] = <<>> /\ AtBoot[3] = <<>>
  BY DEF AtBoot, Levels
<1>5. AtBoot \in [Levels -> Seq(Task)]
  <2>1. <<>> \in Seq(Task) /\ AtBoot = [l \in Levels |-> IF l = 1 THEN o ELSE <<>>]
    BY DEF AtBoot
  <2> HIDE DEF o
  <2> QED  BY <1>3, <2>1
<1> QED  BY <1>3, <1>4, <1>5

LEMMA EmptyQueue ==
    ASSUME NEW s \in Seq(Task), s = <<>>, NEW nx
    PROVE  IsQueue(s, nx, process_tail, process_tail)
<1>1. Len(s) = 0 /\ Len(Full(s)) = Len(s) + 1 /\ Full(s)[Len(s) + 1] = process_tail
  BY FullProperties
<1>2. Full(s)[1] = process_tail /\ EndOf(s) = process_tail
  BY <1>1 DEF EndOf
<1>3. Linked(Full(s), nx)
  BY <1>1 DEF Linked
<1> QED  BY <1>2, <1>3 DEF IsQueue

LEMMA InitLists == ASSUME Init PROVE Stands(AtBoot)
<1> DEFINE S == AtBoot
<1>1. NR_TASK \in Nat /\ NR_TASK >= 1 /\ process_tail = NR_TASK
  BY SchedulerAssumption DEF process_tail
<1>2. /\ next_pcb[process_tail] = process_tail
      /\ \A p \in Task : p \in Nat /\ p < NR_TASK /\ next_pcb[p] = p + 1
      /\ head[1] = 0 /\ tail[1] = NR_TASK - 1
      /\ \A q \in {2, 3} : head[q] = process_tail /\ tail[q] = process_tail
  BY <1>1 DEF Init, Task, Proc, Queue, process_tail
<1>3. IsQueue(S[1], next_pcb, head[1], tail[1])
  <2>1. head[1] = Full(S[1])[1]
    <3>1. 1 \in 1..Len(S[1]) /\ S[1][1] = 0
      BY <1>1, AtBootOrder
    <3> QED  BY <1>2, <3>1, AtBootOrder, FullProperties
  <2>2. tail[1] = EndOf(S[1])
    BY <1>1, <1>2, AtBootOrder, FullProperties DEF EndOf
  <2>3. ASSUME NEW i \in 1..Len(S[1])
        PROVE  next_pcb[S[1][i]] = IF i = Len(S[1]) THEN process_tail ELSE S[1][i + 1]
    <3>1. i \in 1..NR_TASK /\ S[1][i] = i - 1 /\ S[1][i] \in Task
      BY AtBootOrder
    <3>2. next_pcb[S[1][i]] = i
      BY <1>1, <1>2, <3>1
    <3>3. i # NR_TASK => S[1][i + 1] = i
      BY <1>1, <3>1, AtBootOrder
    <3> QED  BY <1>1, <3>2, <3>3, AtBootOrder
  <2>4. Linked(Full(S[1]), next_pcb)
    BY <2>3, AtBootOrder, LinkedQueue
  <2> QED  BY <2>1, <2>2, <2>4, AtBootOrder DEF IsQueue
<1>4. ASSUME NEW q \in {2, 3} PROVE IsQueue(S[q], next_pcb, head[q], tail[q])
  <2>1. S[q] = <<>> /\ S[q] \in Seq(Task)
    <3>1. q = 2 \/ q = 3
      OBVIOUS
    <3>2. <<>> \in Seq(Task)
      OBVIOUS
    <3> QED  BY <3>1, <3>2, AtBootOrder
  <2>2. head[q] = process_tail /\ tail[q] = process_tail
    BY <1>2
  <2> QED  BY <2>1, <2>2, EmptyQueue
<1>5. AllPlaced(S, Task)
  <2> SUFFICES ASSUME NEW p \in Task
               PROVE  \E l \in Levels : \E i \in 1..Len(S[l]) : S[l][i] = p
    BY DEF AllPlaced
  <2>1. p + 1 \in 1..Len(S[1]) /\ S[1][p + 1] = p
    <3>1. p + 1 \in 1..NR_TASK /\ (p + 1) - 1 = p
      BY <1>1, <1>2
    <3> DEFINE i == p + 1
    <3> HIDE DEF i
    <3>2. i \in 1..Len(S[1]) /\ S[1][i] = i - 1
      BY <3>1, AtBootOrder DEF i
    <3> QED  BY <3>1, <3>2 DEF i
  <2> QED  BY <2>1 DEF Levels
<1>6. PlacedOnce(S)
  <2> SUFFICES ASSUME NEW k \in Levels, NEW l \in Levels,
                      NEW i \in 1..Len(S[k]), NEW j \in 1..Len(S[l]),
                      S[k][i] = S[l][j]
               PROVE  k = l /\ i = j
    BY DEF PlacedOnce
  <2>1. k = 1 /\ l = 1
    BY AtBootOrder DEF Levels
  <2>2. i \in 1..NR_TASK /\ j \in 1..NR_TASK /\ i - 1 = j - 1
    BY <2>1, AtBootOrder
  <2> QED  BY <1>1, <2>1, <2>2
<1>7. Numbered(S, queen_number)
  <2> SUFFICES ASSUME NEW q \in Levels, NEW i \in 1..Len(S[q])
               PROVE  S[q][i] = 0 \/ queen_number[S[q][i]] = q
    BY DEF Numbered
  <2>1. q = 1 /\ S[q][i] \in Task
    BY AtBootOrder DEF Levels
  <2>2. \A p \in Task : p = 0 \/ queen_number[p] = 1
    <3>1. PICK n \in TtyQueen :
             queen_number = [p \in Proc |-> CASE p = process_tail -> 3
                                              [] p = 0            -> n
                                              [] OTHER            -> 1]
      BY DEF Init
    <3> QED  BY <3>1 DEF Task
  <2> QED  BY <2>1, <2>2
<1>8. \A q \in Levels : IsQueue(S[q], next_pcb, head[q], tail[q])
  BY <1>3, <1>4 DEF Levels
<1>9. S \in [Levels -> Seq(Task)]
  BY AtBootOrder
<1> HIDE DEF S
<1>10. ListsOf(S, next_pcb, head, tail)
  BY <1>2, <1>5, <1>6, <1>8, <1>9 DEF ListsOf
<1> QED  BY <1>7, <1>10 DEF Stands, S

(***************************************************************************)
(* next_quene, when the slice of the process in place i of queue q is used *)
(* up: its pointer writes take the process from there and chain it to the  *)
(* end of the queue below, and leave every other place as it was.          *)
(***************************************************************************)
LEMMA DemoteLists ==
    ASSUME TypeOK, NEW S \in [Levels -> Seq(Task)],
           ListsOf(S, next_pcb, head, tail),
           NEW q \in {1, 2}, NEW i \in 1..Len(S[q]), NEW slice,
           next_quene(q, S[q][i], slice), ticks[S[q][i]] = 1
    PROVE  ListsOf(Demote(S, q, i), next_pcb', head', tail')
<1> DEFINE c  == S[q][i]
           L  == S[q]
           M  == S[q + 1]
           ny == linked(q, c)
           nh == IF head[q] = c THEN next_pcb[c] ELSE head[q]
<1>1. q \in Levels /\ q + 1 \in Levels /\ q # q + 1
  BY DEF Levels
<1>2. /\ L \in Seq(Task) /\ M \in Seq(Task) /\ c \in Task /\ c \in Proc
      /\ Len(L) \in Nat /\ Len(M) \in Nat /\ i \in Int /\ i \in 1..Len(L)
  <2>1. L \in Seq(Task) /\ M \in Seq(Task) /\ i \in 1..Len(L) /\ c = L[i]
    BY <1>1
  <2> HIDE DEF L, M, c, ny, nh
  <2>2. Len(L) \in Nat /\ Len(M) \in Nat /\ i \in Int /\ c \in Task
    BY <2>1
  <2> QED  BY <2>1, <2>2, ConstantTypes
<1>3. /\ IsQueue(L, next_pcb, head[q], tail[q])
      /\ IsQueue(M, next_pcb, head[q + 1], tail[q + 1])
      /\ next_pcb[process_tail] = process_tail
      /\ AllPlaced(S, Task) /\ PlacedOnce(S)
  BY <1>1 DEF ListsOf
<1>4. /\ \A j, k \in 1..Len(L) : L[j] = L[k] => j = k
      /\ \A j \in 1..Len(L), k \in 1..Len(M) : L[j] # M[k]
      /\ \A j, k \in 1..Len(M) : M[j] = M[k] => j = k
  BY <1>1, <1>3 DEF PlacedOnce
<1>5. ASSUME NEW l \in Levels \ {q, q + 1}, NEW k \in 1..Len(S[l])
      PROVE  /\ S[l][k] \in Task
             /\ \A j \in 1..Len(L) : L[j] # S[l][k]
             /\ \A j \in 1..Len(M) : M[j] # S[l][k]
  <2>1. S[l] \in Seq(Task)
    OBVIOUS
  <2> QED  BY <1>1, <1>3, <2>1 DEF PlacedOnce
<1>6. /\ next_pcb' = ny
      /\ head' = [head EXCEPT
            ![q]     = nh,
            ![q + 1] = IF tail[q + 1] = process_tail THEN c ELSE @]
      /\ tail' = [tail EXCEPT
            ![q]     = IF @ = c THEN last(ny, nh) ELSE @,
            ![q + 1] = c]
  BY DEF next_quene
<1>7. \A x \in Task : x \in Proc /\ x # process_tail
  BY ConstantTypes DEF Task
<1>8. /\ M = <<>> <=> tail[q + 1] = process_tail
      /\ M # <<>> => Len(M) \in 1..Len(M) /\ tail[q + 1] = M[Len(M)]
      /\ M = <<>> <=> Len(M) = 0
  BY <1>2, <1>3, <1>7, FullProperties DEF IsQueue, EndOf
<1>9. /\ head[q] = L[1] /\ 1 \in 1..Len(L) /\ tail[q] = L[Len(L)]
      /\ head[q] = c <=> i = 1
  <2>1. 1 \in 1..Len(L) /\ L # <<>>
    BY <1>2, FullProperties
  <2>2. head[q] = L[1] /\ tail[q] = L[Len(L)]
    BY <1>2, <1>3, <2>1, FullProperties DEF IsQueue, EndOf
  <2> QED  BY <1>2, <1>4, <2>1, <2>2
\* the pointers after each write
<1>10. ASSUME NEW x \in Proc
       PROVE  unlinked(q, c)[x] =
                  IF i > 1 /\ x = L[i - 1] THEN next_pcb[c] ELSE next_pcb[x]
  <2>1. CASE i = 1
    <3>1. unlinked(q, c) = next_pcb
      BY <1>9, <2>1 DEF unlinked
    <3> QED  BY <2>1, <3>1
  <2>2. CASE i # 1
    <3>1. i \in 2..Len(L) /\ i > 1
      BY <1>2, <2>2
    <3>2. WalkTo(Proc, next_pcb, head[q], Before(next_pcb, L[i])) = L[i - 1]
      <4> HIDE DEF L
      <4> QED  BY <1>3, <1>4, <3>1, WalkBefore
    <3>3. unlinked(q, c) = [next_pcb EXCEPT ![L[i - 1]] = next_pcb[c]]
      BY <1>9, <2>2, <3>2 DEF unlinked, Before
    <3> QED  BY <3>1, <3>3 DEF TypeOK
  <2> QED  BY <2>1, <2>2
<1>11. unlinked(q, c) \in [Proc -> Proc]
  BY <1>2 DEF unlinked, TypeOK
<1>12. ASSUME NEW x \in Proc
       PROVE  ny[x] = IF x = c THEN process_tail
                      ELSE IF M # <<>> /\ x = M[Len(M)] THEN c
                      ELSE unlinked(q, c)[x]
  <2> HIDE DEF c, L, M
  <2>1. CASE M = <<>>
    <3>1. ny = [unlinked(q, c) EXCEPT ![c] = process_tail]
      BY <1>8, <2>1 DEF linked
    <3> QED  BY <1>2, <1>11, <2>1, <3>1
  <2>2. CASE M # <<>>
    <3>1. ny = [unlinked(q, c) EXCEPT ![M[Len(M)]] = c, ![c] = process_tail]
      BY <1>8, <2>2 DEF linked
    <3> QED  BY <1>2, <1>11, <2>2, <3>1
  <2> QED  BY <2>1, <2>2
<1> HIDE DEF ny
<1>13. IsQueue(RemoveAt(L, i), ny, nh, EndOf(RemoveAt(L, i)))
  <2>1. i > 1 => ny[L[i - 1]] = next_pcb[L[i]]
    <3> SUFFICES ASSUME i > 1 PROVE ny[L[i - 1]] = next_pcb[L[i]]
      OBVIOUS
    <3>1. i - 1 \in 1..Len(L) /\ i - 1 # i
      BY <1>2
    <3>2. L[i - 1] \in Proc /\ L[i - 1] # c
      BY <1>2, <1>4, <1>7, <3>1
    <3>3. M # <<>> => L[i - 1] # M[Len(M)]
      BY <1>4, <1>8, <3>1
    <3> QED  BY <1>10, <1>12, <3>2, <3>3
  <2>2. \A j \in 1..Len(L) : j # i /\ j # i - 1 => ny[L[j]] = next_pcb[L[j]]
    <3> SUFFICES ASSUME NEW j \in 1..Len(L), j # i, j # i - 1
                 PROVE  ny[L[j]] = next_pcb[L[j]]
      OBVIOUS
    <3>1. L[j] \in Proc /\ L[j] # c
      BY <1>2, <1>4, <1>7
    <3>2. i > 1 => L[j] # L[i - 1]
      <4>1. i > 1 => i - 1 \in 1..Len(L)
        BY <1>2
      <4> QED  BY <1>4, <4>1
    <3>3. M # <<>> => L[j] # M[Len(M)]
      BY <1>4, <1>8
    <3> QED  BY <1>10, <1>12, <3>1, <3>2, <3>3
  <2>3. nh = IF head[q] = L[i] THEN next_pcb[L[i]] ELSE head[q]
    OBVIOUS
  <2>4. /\ IsQueue(L, next_pcb, head[q], tail[q]) /\ i \in 1..Len(L)
        /\ \A j, k \in 1..Len(L) : L[j] = L[k] => j = k
    BY <1>2, <1>3, <1>4
  <2> HIDE DEF L, nh
  <2> QED  BY <2>1, <2>2, <2>3, <2>4, QueueRemove
<1>14. IsQueue(Append(M, c), ny, IF M = <<>> THEN c ELSE head[q + 1], c)
  <2>1. ny[c] = process_tail
    BY <1>2, <1>12
  <2>2. M # <<>> => ny[M[Len(M)]] = c
    <3> SUFFICES ASSUME M # <<>> PROVE ny[M[Len(M)]] = c
      OBVIOUS
    <3>1. M[Len(M)] \in Proc /\ M[Len(M)] # c
      BY <1>2, <1>4, <1>7, <1>8
    <3> QED  BY <1>12, <3>1
  <2>3. ASSUME NEW j \in 1..Len(M), j # Len(M)
        PROVE  ny[M[j]] = next_pcb[M[j]]
    <3>1. M[j] \in Proc /\ M[j] # c
      BY <1>2, <1>4, <1>7
    <3>2. M # <<>> => M[j] # M[Len(M)]
      BY <1>4, <1>8, <2>3
    <3>3. i > 1 => M[j] # L[i - 1]
      <4>1. i > 1 => i - 1 \in 1..Len(L)
        BY <1>2
      <4> QED  BY <1>4, <4>1
    <3> QED  BY <1>10, <1>12, <3>1, <3>2, <3>3
  <2> HIDE DEF M, c
  <2> QED  BY <1>2, <1>3, <2>1, <2>2, <2>3, QueueAppend
<1>15. ASSUME NEW l \in Levels \ {q, q + 1} PROVE IsQueue(S[l], ny, head[l], tail[l])
  <2>1. IsQueue(S[l], next_pcb, head[l], tail[l])
    BY DEF ListsOf
  <2>2. ASSUME NEW k \in 1..Len(S[l]) PROVE ny[S[l][k]] = next_pcb[S[l][k]]
    <3>1. S[l][k] \in Proc /\ S[l][k] # c
      BY <1>2, <1>5, <1>7
    <3>2. M # <<>> => S[l][k] # M[Len(M)]
      BY <1>5, <1>8
    <3>3. i > 1 => S[l][k] # L[i - 1]
      <4>1. i > 1 => i - 1 \in 1..Len(L)
        BY <1>2
      <4> QED  BY <1>5, <4>1
    <3> QED  BY <1>10, <1>12, <3>1, <3>2, <3>3
  <2> QED  BY <2>1, <2>2, QueueFrame
<1>16. ny[process_tail] = process_tail
  <2>1. process_tail \in Proc /\ process_tail # c
    BY <1>2, <1>7, ConstantTypes
  <2>2. M # <<>> => process_tail # M[Len(M)]
    BY <1>2, <1>7, <1>8
  <2>3. i > 1 => process_tail # L[i - 1]
    <3>1. i > 1 => i - 1 \in 1..Len(L)
      BY <1>2
    <3> QED  BY <1>2, <1>7, <3>1
  <2> QED  BY <1>3, <1>10, <1>12, <2>1, <2>2, <2>3
\* the head and tail pointers
<1>17. (IF tail[q] = c THEN last(ny, nh) ELSE tail[q]) = EndOf(RemoveAt(L, i))
  <2>1. CASE tail[q] = c
    <3>1. last(ny, nh) = EndOf(RemoveAt(L, i))
      <4> HIDE DEF L, nh
      <4> QED  BY <1>13, <1>16, WalkLast
    <3> QED  BY <2>1, <3>1
  <2>2. CASE tail[q] # c
    <3> DEFINE r == RemoveAt(L, i)
    <3>1. i # Len(L)
      BY <1>9, <2>2
    <3>2. /\ r \in Seq(Task) /\ Len(r) = Len(L) - 1
          /\ \A j \in 1..(Len(L) - 1) : r[j] = IF j < i THEN L[j] ELSE L[j + 1]
      BY <1>2, RemoveAtElements
    <3> HIDE DEF r, L
    <3>3. Len(r) \in 1..(Len(L) - 1) /\ ~ (Len(r) < i) /\ Len(r) + 1 = Len(L)
      BY <1>2, <3>1, <3>2
    <3>4. r # <<>>
      BY <3>2, <3>3, FullProperties
    <3>5. r[Len(r)] = L[Len(r) + 1]
      BY <3>2, <3>3
    <3> QED  BY <1>9, <2>2, <3>3, <3>4, <3>5 DEF EndOf, r
  <2> QED  BY <2>1, <2>2
<1>18. /\ head'[q] = nh /\ head'[q + 1] = (IF M = <<>> THEN c ELSE head[q + 1])
       /\ tail'[q] = EndOf(RemoveAt(L, i)) /\ tail'[q + 1] = c
       /\ \A l \in Levels \ {q, q + 1} : head'[l] = head[l] /\ tail'[l] = tail[l]
  <2>1. /\ head \in [Levels -> Proc] /\ tail \in [Levels -> Proc \cup {nullptr}]
    BY DEF TypeOK, Levels, Queue
  <2> HIDE DEF L, M, c, nh
  <2> QED  BY <1>1, <1>6, <1>8, <1>17, <2>1
<1> HIDE DEF c, L, M, nh
<1> DEFINE R == Demote(S, q, i)
<1>19. /\ R \in [Levels -> Seq(Task)] /\ R[q] = RemoveAt(L, i) /\ R[q + 1] = Append(M, c)
       /\ \A l \in Levels \ {q, q + 1} : R[l] = S[l]
  <2> HIDE DEF R
  <2>1. Demote(S, q, i) \in [Levels -> Seq(Task)]
    BY DemoteElements
  <2>2. /\ Demote(S, q, i)[q] = RemoveAt(S[q], i)
        /\ Demote(S, q, i)[q + 1] = Append(S[q + 1], S[q][i])
        /\ \A l \in Levels \ {q, q + 1} : Demote(S, q, i)[l] = S[l]
    BY <1>1 DEF Demote
  <2> QED  BY <2>1, <2>2 DEF R, L, M, c
<1>20. AllPlaced(R, Task) /\ PlacedOnce(R)
  BY <1>3, DemoteKeepsPlaces
<1>21. ASSUME NEW l \in Levels PROVE IsQueue(R[l], next_pcb', head'[l], tail'[l])
  <2> HIDE DEF R, L, M, c, nh
  <2>1. CASE l = q
    BY <1>6, <1>13, <1>18, <1>19, <2>1
  <2>2. CASE l = q + 1
    BY <1>6, <1>14, <1>18, <1>19, <2>2
  <2>3. CASE l \in Levels \ {q, q + 1}
    BY <1>6, <1>15, <1>18, <1>19, <2>3
  <2> QED  BY <2>1, <2>2, <2>3
<1> HIDE DEF R
<1>22. ListsOf(R, next_pcb', head', tail')
  BY <1>6, <1>16, <1>19, <1>20, <1>21 DEF ListsOf
<1> QED  BY <1>22 DEF R

LEMMA OnQueue ==
    ASSUME NEW S \in [Levels -> Seq(Task)], NEW l \in Levels, NEW j \in 1..Len(S[l])
    PROVE  S[l] \in Seq(Task) /\ S[l][j] \in Task /\ S[l][j] \in Proc /\ S[l][j] # nullptr
<1>1. S[l] \in Seq(Task)
  OBVIOUS
<1>2. S[l][j] \in Task
  BY <1>1
<1> QED  BY <1>1, <1>2, ConstantTypes

\* the field follows the process to the queue below
LEMMA DemoteNumbers ==
    ASSUME TypeOK, NEW S \in [Levels -> Seq(Task)], PlacedOnce(S),
           Numbered(S, queen_number),
           NEW q \in {1, 2}, NEW i \in 1..Len(S[q]), NEW slice,
           next_quene(q, S[q][i], slice), ticks[S[q][i]] = 1
    PROVE  Numbered(Demote(S, q, i), queen_number')
<1> DEFINE c == S[q][i]
           L == S[q]
           M == S[q + 1]
           r == RemoveAt(L, i)
           a == Append(M, c)
<1>1. q \in Levels /\ q + 1 \in Levels /\ q # q + 1
  BY DEF Levels
<1>2. L \in Seq(Task) /\ M \in Seq(Task) /\ i \in 1..Len(L) /\ c = L[i]
  BY <1>1
<1>3. queen_number' = [queen_number EXCEPT ![c] = next_number(c)]
  BY DEF next_quene
<1>4. /\ Demote(S, q, i)[q] = r /\ Demote(S, q, i)[q + 1] = a
      /\ \A l \in Levels \ {q, q + 1} : Demote(S, q, i)[l] = S[l]
  BY <1>1 DEF Demote
<1>5. \A x \in Proc : x # c => queen_number'[x] = queen_number[x]
  BY <1>3 DEF TypeOK
<1>6. c \in Task /\ c \in Proc
  BY <1>1, OnQueue
<1>7. c = 0 \/ queen_number'[c] = q + 1
  <2>1. c = 0 \/ queen_number[c] = q
    BY <1>1 DEF Numbered
  <2>2. queen_number'[c] = next_number(c)
    BY <1>3, <1>6 DEF TypeOK
  <2>3. queen_number[c] = q => next_number(c) = q + 1
    <3> HIDE DEF c
    <3>1. (q + 1) % 256 = q + 1
      OBVIOUS
    <3> QED  BY <3>1 DEF next_number
  <2> HIDE DEF c
  <2> QED  BY <2>1, <2>2, <2>3
<1>8. /\ Len(r) = Len(L) - 1 /\ Len(L) \in Nat
      /\ \A j \in 1..(Len(L) - 1) : r[j] = IF j < i THEN L[j] ELSE L[j + 1]
  <2>1. L \in Seq(Task) /\ i \in 1..Len(L)
    BY <1>2
  <2> HIDE DEF L, c, M, a
  <2>2. Len(L) \in Nat
    BY <2>1
  <2> QED  BY <2>1, <2>2, RemoveAtElements
<1>9. /\ Len(a) = Len(M) + 1 /\ Len(M) \in Nat /\ a[Len(M) + 1] = c
      /\ \A j \in 1..Len(M) : a[j] = M[j]
  <2> HIDE DEF M, c
  <2> QED  BY <1>2, <1>6, AppendElements
<1>10. ASSUME NEW l \in Levels, NEW j \in 1..Len(S[l]), S[l][j] # c
       PROVE  S[l][j] = 0 \/ queen_number'[S[l][j]] = l
  <2>1. S[l][j] \in Proc
    BY OnQueue
  <2> QED  BY <1>5, <1>10, <2>1 DEF Numbered
<1> SUFFICES ASSUME NEW l \in Levels, NEW j \in 1..Len(Demote(S, q, i)[l])
             PROVE  \/ Demote(S, q, i)[l][j] = 0
                    \/ queen_number'[Demote(S, q, i)[l][j]] = l
  BY DEF Numbered
<1> HIDE DEF r, a
<1>11. CASE l = q
  <2>1. PICK k \in 1..Len(L) : r[j] = L[k] /\ k # i
    <3>1. j \in 1..(Len(L) - 1) /\ i \in Int
      BY <1>4, <1>8, <1>11
    <3>2. CASE j < i
      BY <1>8, <3>1, <3>2
    <3>3. CASE j >= i
      <4>1. j + 1 \in 1..Len(L) /\ j + 1 # i /\ ~(j < i)
        BY <1>8, <3>1, <3>3
      <4> QED  BY <1>8, <3>1, <4>1
    <3> QED  BY <3>1, <3>2, <3>3
  <2>2. L[k] # c
    BY <1>1, <2>1 DEF PlacedOnce
  <2> QED  BY <1>1, <1>4, <1>10, <1>11, <2>1, <2>2
<1>12. CASE l = q + 1
  <2>1. CASE j = Len(M) + 1
    BY <1>4, <1>7, <1>9, <1>12, <2>1
  <2>2. CASE j # Len(M) + 1
    <3>1. j \in 1..Len(M)
      BY <1>4, <1>9, <1>12, <2>2
    <3>2. M[j] # c
      BY <1>1, <3>1 DEF PlacedOnce
    <3> QED  BY <1>1, <1>4, <1>9, <1>10, <1>12, <3>1, <3>2
  <2> QED  BY <2>1, <2>2
<1>13. CASE l \in Levels \ {q, q + 1}
  <2>1. j \in 1..Len(S[l])
    BY <1>4, <1>13
  <2>2. S[l][j] # c
    BY <1>1, <1>13, <2>1 DEF PlacedOnce
  <2> QED  BY <1>4, <1>10, <1>13, <2>1, <2>2
<1> QED  BY <1>11, <1>12, <1>13

(***************************************************************************)
(* What schedule does to the three sequences: it takes the first process   *)
(* of queue 1 that is not blocked, else of queue 2, and leaves it in its   *)
(* place or moves it to the end of the queue below; else it leaves them    *)
(* alone.                                                                  *)
(***************************************************************************)
Ready(p)    == flags'[p] = RUNNING
NoneOf(s)   == \A j \in 1..Len(s) : ~Ready(s[j])
FirstOf(s, i) == Ready(s[i]) /\ \A j \in 1..(i - 1) : ~Ready(s[j])

Decides(S, R) ==
    \/ \E q \in {1, 2} : \E i \in 1..Len(S[q]) :
          /\ q = 2 => NoneOf(S[1])
          /\ FirstOf(S[q], i)
          /\ p_proc_ready' = S[q][i]
          /\ R = S \/ R = Demote(S, q, i)
    \/ NoneOf(S[1]) /\ NoneOf(S[2]) /\ R = S

StandsNext(S) ==
    ListsOf(S, next_pcb', head', tail') /\ Numbered(S, queen_number')

LEMMA Found ==
    ASSUME NEW S \in [Levels -> Seq(Task)], Stands(S), NEW q \in Levels
    PROVE  \/ find_first(head[q], tail[q]) = nullptr /\ NoneOf(S[q])
           \/ \E i \in 1..Len(S[q]) :
                find_first(head[q], tail[q]) = S[q][i] /\ FirstOf(S[q], i)
<1>1. IsQueue(S[q], next_pcb, head[q], tail[q])
  BY DEF Stands, ListsOf
<1>2. \A j, k \in 1..Len(S[q]) : S[q][j] = S[q][k] => j = k
  BY DEF Stands, ListsOf, PlacedOnce
<1> QED  BY <1>1, <1>2, FindFirstOf DEF NoneOf, FirstOf, Ready

LEMMA NextQueneLists ==
    ASSUME TypeOK, NEW S \in [Levels -> Seq(Task)], Stands(S),
           NEW q \in {1, 2}, NEW i \in 1..Len(S[q]), NEW slice,
           next_quene(q, S[q][i], slice)
    PROVE  \E R \in [Levels -> Seq(Task)] :
               StandsNext(R) /\ (R = S \/ R = Demote(S, q, i))
<1>1. CASE ticks[S[q][i]] # 1
  <2>1. UNCHANGED quVars
    BY <1>1 DEF next_quene
  <2> QED  BY <2>1 DEF Stands, StandsNext, quVars
<1>2. CASE ticks[S[q][i]] = 1
  <2>1. StandsNext(Demote(S, q, i))
    <3>1. ListsOf(Demote(S, q, i), next_pcb', head', tail')
      BY <1>2, DemoteLists DEF Stands
    <3>2. Numbered(Demote(S, q, i), queen_number')
      BY <1>2, DemoteNumbers DEF Stands, ListsOf
    <3> QED  BY <3>1, <3>2 DEF StandsNext
  <2>2. Demote(S, q, i) \in [Levels -> Seq(Task)]
    BY DemoteElements
  <2> QED  BY <2>1, <2>2
<1> QED  BY <1>1, <1>2

LEMMA ScheduleLists ==
    ASSUME TypeOK, NEW S \in [Levels -> Seq(Task)], Stands(S), schedule
    PROVE  \E R \in [Levels -> Seq(Task)] : StandsNext(R) /\ Decides(S, R)
<1> DEFINE p_first  == find_first(head[1], tail[1])
           p_second == find_first(head[2], tail[2])
<1>1. \/ p_first = nullptr /\ NoneOf(S[1])
      \/ \E i \in 1..Len(S[1]) : p_first = S[1][i] /\ FirstOf(S[1], i)
  BY Found DEF Levels
<1>2. \/ p_second = nullptr /\ NoneOf(S[2])
      \/ \E i \in 1..Len(S[2]) : p_second = S[2][i] /\ FirstOf(S[2], i)
  BY Found DEF Levels
<1>3. ASSUME NEW q \in {1, 2}, NEW i \in 1..Len(S[q]) PROVE S[q][i] # nullptr
  <2>1. q \in Levels
    BY DEF Levels
  <2> QED  BY <2>1, OnQueue
<1> HIDE DEF p_first, p_second
<1>4. CASE p_first # nullptr /\ p_proc_ready' = p_first
              /\ next_quene(1, p_first, SECOND_QUENE_SLICE)
  <2>1. PICK i \in 1..Len(S[1]) : p_first = S[1][i] /\ FirstOf(S[1], i)
    BY <1>1, <1>4
  <2>2. PICK R \in [Levels -> Seq(Task)] :
             StandsNext(R) /\ (R = S \/ R = Demote(S, 1, i))
    BY <1>4, <2>1, NextQueneLists
  <2> QED  BY <1>4, <2>1, <2>2 DEF Decides
<1>5. CASE p_first = nullptr /\ p_second # nullptr /\ p_proc_ready' = p_second
              /\ next_quene(2, p_second, LAST_QUENE_SLICE)
  <2>1. PICK i \in 1..Len(S[2]) : p_second = S[2][i] /\ FirstOf(S[2], i)
    BY <1>2, <1>5
  <2>2. PICK R \in [Levels -> Seq(Task)] :
             StandsNext(R) /\ (R = S \/ R = Demote(S, 2, i))
    BY <1>5, <2>1, NextQueneLists
  <2>3. NoneOf(S[1])
    BY <1>1, <1>3, <1>5
  <2> QED  BY <1>5, <2>1, <2>2, <2>3 DEF Decides
<1>6. CASE p_first = nullptr /\ p_second = nullptr /\ UNCHANGED quVars
  <2>1. NoneOf(S[1]) /\ NoneOf(S[2])
    BY <1>1, <1>2, <1>3, <1>6
  <2>2. StandsNext(S)
    BY <1>6 DEF Stands, StandsNext, quVars
  <2> QED  BY <2>1, <2>2 DEF Decides
<1>7. schedule_last => UNCHANGED quVars
  BY DEF schedule_last
<1>8. UNCHANGED schedVars => UNCHANGED quVars
  BY DEF schedVars, quVars
<1> QED  BY <1>4, <1>5, <1>6, <1>7, <1>8 DEF schedule, p_first, p_second

LEMMA StepLists ==
    ASSUME TypeOK, ListsInv, [Next]_vars
    PROVE  ListsInv'
<1>1. PICK S \in [Levels -> Seq(Task)] : Stands(S)
  BY DEF ListsInv
<1>2. \A R \in [Levels -> Seq(Task)] : StandsNext(R) => ListsInv'
  BY DEF StandsNext, ListsInv, Stands
<1>3. CASE schedule
  BY <1>1, <1>2, <1>3, ScheduleLists
<1>4. CASE UNCHANGED quVars
  <2>1. StandsNext(S)
    BY <1>1, <1>4 DEF Stands, StandsNext, quVars
  <2> QED  BY <1>1, <1>2, <2>1
<1>5. schedule \/ UNCHANGED quVars
  BY DEF Next, vars, schedVars, quVars, clock_handler, sys_call, sys_return,
         block_and_schedule, block_only, unblock
<1> QED  BY <1>3, <1>4, <1>5

\* the processes on queue q are those of its sequence
LEMMA MembersOf ==
    ASSUME NEW S \in [Levels -> Seq(Task)], Stands(S), NEW q \in Levels
    PROVE  /\ Members(q) = {S[q][i] : i \in 1..Len(S[q])}
           /\ process_tail \in Visited(Proc, next_pcb, head[q], {process_tail})
<1> DEFINE s == S[q]
           E == {s[i] : i \in 1..Len(s)}
<1>1. IsQueue(s, next_pcb, head[q], tail[q]) /\ s \in Seq(Task)
  BY DEF Stands, ListsOf
<1> HIDE DEF s
<1>2. Visited(Proc, next_pcb, head[q], {process_tail}) = E \cup {process_tail}
  BY <1>1, QueueVisited
<1>3. process_tail \notin E
  BY <1>1 DEF Task
<1> HIDE DEF E
<1>4. Members(q) = E
  BY <1>2, <1>3 DEF Members
<1> QED  BY <1>2, <1>4 DEF E, s

LEMMA ListsWellFormed ==
    ASSUME ListsInv
    PROVE  QueuesWellFormed
<1>1. PICK S \in [Levels -> Seq(Task)] : Stands(S)
  BY DEF ListsInv
<1>2. next_pcb[process_tail] = process_tail
  BY <1>1 DEF Stands, ListsOf
<1>3. ASSUME NEW q \in Queue
      PROVE  /\ process_tail \in Visited(Proc, next_pcb, head[q], {process_tail})
             /\ IF Members(q) = {} THEN tail[q] = process_tail
                                   ELSE /\ tail[q] \in Members(q)
                                        /\ next_pcb[tail[q]] = process_tail
  <2> DEFINE s == S[q]
  <2>1. q \in Levels
    BY DEF Queue, Levels
  <2>2. IsQueue(s, next_pcb, head[q], tail[q]) /\ s \in Seq(Task)
    BY <1>1, <2>1 DEF Stands, ListsOf
  <2>3. /\ Members(q) = {s[i] : i \in 1..Len(s)}
        /\ process_tail \in Visited(Proc, next_pcb, head[q], {process_tail})
    BY <1>1, <2>1, MembersOf
  <2> HIDE DEF s
  <2>4. Len(s) \in Nat /\ (s = <<>> <=> Len(s) = 0) /\ tail[q] = EndOf(s)
    BY <2>2, FullProperties DEF IsQueue
  <2>5. CASE Len(s) = 0
    <3>1. Members(q) = {}
      BY <2>3, <2>5
    <3> QED  BY <2>3, <2>4, <2>5, <3>1 DEF EndOf
  <2>6. CASE Len(s) # 0
    <3>1. Len(s) \in 1..Len(s) /\ tail[q] = s[Len(s)]
      BY <2>4, <2>6 DEF EndOf
    <3>2. tail[q] \in Members(q)
      BY <2>3, <3>1
    <3>3. next_pcb[s[Len(s)]] = process_tail
      BY <2>2, <3>1, QueueLinks
    <3> QED  BY <2>3, <3>1, <3>2, <3>3
  <2> QED  BY <2>5, <2>6
<1>4. ASSUME NEW p \in Task
      PROVE  \E q \in Queue : /\ p \in Members(q)
                              /\ \A r \in Queue \ {q} : p \notin Members(r)
                              /\ p = 0 \/ queen_number[p] = q
  <2>1. PICK q \in Levels : \E i \in 1..Len(S[q]) : S[q][i] = p
    BY <1>1 DEF Stands, ListsOf, AllPlaced
  <2>2. PICK i \in 1..Len(S[q]) : S[q][i] = p
    BY <2>1
  <2>3. p \in Members(q)
    BY <1>1, <2>2, MembersOf
  <2>4. ASSUME NEW r \in Queue \ {q} PROVE p \notin Members(r)
    <3>1. r \in Levels
      BY DEF Queue, Levels
    <3>2. \A j \in 1..Len(S[r]) : S[r][j] # p
      BY <1>1, <2>2, <3>1 DEF Stands, ListsOf, PlacedOnce
    <3> QED  BY <1>1, <3>1, <3>2, MembersOf
  <2>5. p = 0 \/ queen_number[p] = q
    BY <1>1, <2>2 DEF Stands, Numbered
  <2> QED  BY <2>3, <2>4, <2>5 DEF Queue, Levels
<1> QED  BY <1>2, <1>3, <1>4 DEF QueuesWellFormed

(***************************************************************************)
(* The three lists stay lists, every task is on exactly one of them, and   *)
(* queen_number says which: no sequence of ticks, blocking calls and       *)
(* wake-ups makes the pointer writes of next_quene lose a process, link it *)
(* twice or close a cycle, whatever the number of tasks and the slices.    *)
(***************************************************************************)
THEOREM ListsStayLists == Spec => []QueuesWellFormed
<1>1. Init => Inv /\ ListsInv
  BY InitInv, InitLists, AtBootOrder DEF ListsInv
<1>2. Inv /\ ListsInv /\ [Next]_vars => Inv' /\ ListsInv'
  BY StepInv, StepLists DEF Inv
<1>3. ListsInv => QueuesWellFormed
  BY ListsWellFormed
<1> QED  BY <1>1, <1>2, <1>3, PTL DEF Spec

-----------------------------------------------------------------------------
(* The refinement mapping reads the sequences off the lists.               *)

Reads(f) == f = [p \in Proc |-> IF p = process_tail THEN <<>>
                                ELSE <<p>> \o f[next_pcb[p]]]

Reader == CHOOSE f : Reads(f)

LEMMA ContentsRead ==
    ASSUME NEW q \in Queue
    PROVE  Contents(q) = Reader[head[q]]
  BY DEF Contents, Reader, Reads

Rest(s, i) == SubSeq(s, i, Len(s))

LEMMA RestProperties ==
    ASSUME NEW s \in Seq(Task), NEW i \in 1..Len(s)
    PROVE  /\ Rest(s, i) \in Seq(Task) /\ Rest(s, 1) = s
           /\ i = Len(s) => Rest(s, i) = <<s[i]>> \o <<>>
           /\ i # Len(s) => Rest(s, i) = <<s[i]>> \o Rest(s, i + 1)
<1>1. Len(s) \in Nat /\ i \in Nat /\ s[i] \in Task
  OBVIOUS
<1>2. Rest(s, i) \in Seq(Task) /\ Rest(s, 1) = s
  BY <1>1 DEF Rest
<1>3. i = Len(s) => Rest(s, i) = <<s[i]>> \o <<>>
  <2>1. Rest(s, Len(s)) = <<s[Len(s)]>>
    <3> DEFINE t == Rest(s, Len(s))
               u == <<s[Len(s)]>>
    <3>1. t \in Seq(Task) /\ Len(t) = 1 /\ t[1] = s[Len(s)]
      BY <1>1 DEF Rest
    <3>2. u \in Seq(Task) /\ Len(u) = 1 /\ u[1] = s[Len(s)]
      BY <1>1
    <3> HIDE DEF t, u
    <3>3. t = u
      BY <3>1, <3>2, SeqEqual
    <3> QED  BY <3>3 DEF t, u
  <2>2. <<s[i]>> \in Seq(Task)
    BY <1>1
  <2>3. <<s[i]>> \o <<>> = <<s[i]>>
    BY <2>2, ConcatEmptySeq
  <2> QED  BY <2>1, <2>3
<1>4. i # Len(s) => Rest(s, i) = <<s[i]>> \o Rest(s, i + 1)
  BY <1>1 DEF Rest
<1> QED  BY <1>2, <1>3, <1>4

\* where a process stands
LevelOf(S, p) == CHOOSE l \in Levels : \E i \in 1..Len(S[l]) : S[l][i] = p
PlaceOf(S, p) == CHOOSE i \in 1..Len(S[LevelOf(S, p)]) : S[LevelOf(S, p)][i] = p

LEMMA StandsThere ==
    ASSUME NEW S \in [Levels -> Seq(Task)], AllPlaced(S, Task), PlacedOnce(S)
    PROVE  /\ \A p \in Task : /\ LevelOf(S, p) \in Levels
                              /\ PlaceOf(S, p) \in 1..Len(S[LevelOf(S, p)])
                              /\ S[LevelOf(S, p)][PlaceOf(S, p)] = p
           /\ \A l \in Levels : \A i \in 1..Len(S[l]) :
                  LevelOf(S, S[l][i]) = l /\ PlaceOf(S, S[l][i]) = i
<1>1. ASSUME NEW p \in Task
      PROVE  /\ LevelOf(S, p) \in Levels
             /\ PlaceOf(S, p) \in 1..Len(S[LevelOf(S, p)])
             /\ S[LevelOf(S, p)][PlaceOf(S, p)] = p
  <2>1. /\ LevelOf(S, p) \in Levels
        /\ \E i \in 1..Len(S[LevelOf(S, p)]) : S[LevelOf(S, p)][i] = p
    BY DEF AllPlaced, LevelOf
  <2> QED  BY <2>1 DEF PlaceOf
<1>2. ASSUME NEW l \in Levels, NEW i \in 1..Len(S[l])
      PROVE  LevelOf(S, S[l][i]) = l /\ PlaceOf(S, S[l][i]) = i
  <2>1. S[l][i] \in Task
    BY OnQueue
  <2> DEFINE k == LevelOf(S, S[l][i])
             j == PlaceOf(S, S[l][i])
  <2>2. k \in Levels /\ j \in 1..Len(S[k]) /\ S[k][j] = S[l][i]
    BY <1>1, <2>1
  <2> HIDE DEF k, j
  <2>3. k = l /\ j = i
    BY <2>2 DEF PlacedOnce
  <2> QED  BY <2>3 DEF k, j
<1> QED  BY <1>1, <1>2

LEMMA ReaderReads ==
    ASSUME NEW S \in [Levels -> Seq(Task)], Stands(S)
    PROVE  Reads(Reader)
<1> DEFINE g == [p \in Proc |-> IF p = process_tail THEN <<>>
                                ELSE Rest(S[LevelOf(S, p)], PlaceOf(S, p))]
<1>1. AllPlaced(S, Task) /\ PlacedOnce(S)
  BY DEF Stands, ListsOf
<1>2. ASSUME NEW p \in Proc
      PROVE  g[p] = IF p = process_tail THEN <<>> ELSE <<p>> \o g[next_pcb[p]]
  <2>1. CASE p = process_tail
    BY <2>1
  <2>2. CASE p # process_tail
    <3> DEFINE l == LevelOf(S, p)
               i == PlaceOf(S, p)
               s == S[l]
    <3>1. l \in Levels /\ i \in 1..Len(s) /\ s[i] = p
      BY <1>1, <2>2, StandsThere DEF Task
    <3>2. IsQueue(s, next_pcb, head[l], tail[l]) /\ s \in Seq(Task)
      BY <3>1 DEF Stands, ListsOf
    <3>3. g[p] = Rest(s, i)
      BY <2>2
    <3>4. CASE i = Len(s)
      <4> HIDE DEF l, i, s
      <4>1. next_pcb[p] = process_tail
        BY <3>1, <3>2, <3>4, QueueLinks
      <4>2. g[next_pcb[p]] = <<>>
        BY <4>1, ConstantTypes
      <4> HIDE DEF g
      <4>3. Rest(s, i) = <<s[i]>> \o <<>>
        BY <3>1, <3>2, <3>4, RestProperties
      <4> QED  BY <2>2, <3>1, <3>3, <4>2, <4>3
    <3>5. CASE i # Len(s)
      <4>0. i + 1 \in 1..Len(s)
        <5> HIDE DEF l, i, s
        <5> QED  BY <3>1, <3>2, <3>5
      <4>1. next_pcb[p] = s[i + 1]
        <5> HIDE DEF l, i, s
        <5> QED  BY <3>1, <3>2, <3>5, QueueLinks
      <4>2. LevelOf(S, s[i + 1]) = l /\ PlaceOf(S, s[i + 1]) = i + 1
        <5> HIDE DEF l, i
        <5> QED  BY <1>1, <3>1, <4>0, StandsThere
      <4>3. s[i + 1] \in Proc /\ s[i + 1] # process_tail
        <5> HIDE DEF l, i
        <5> QED  BY <3>1, <4>0, OnQueue DEF Task
      <4>4. g[next_pcb[p]] = Rest(s, i + 1)
        <5> HIDE DEF l, i
        <5> QED  BY <4>1, <4>2, <4>3
      <4> HIDE DEF g, l, i, s
      <4>5. Rest(s, i) = <<s[i]>> \o Rest(s, i + 1)
        BY <3>1, <3>2, <3>5, RestProperties
      <4> QED  BY <2>2, <3>1, <3>3, <4>4, <4>5
    <3> QED  BY <3>4, <3>5
  <2> QED  BY <2>1, <2>2
<1>3. Reads(g)
  <2>1. g = [p \in Proc |-> g[p]]
    OBVIOUS
  <2> HIDE DEF g
  <2>2. [p \in Proc |-> g[p]] = [p \in Proc |-> IF p = process_tail THEN <<>>
                                                ELSE <<p>> \o g[next_pcb[p]]]
    BY <1>2
  <2> QED  BY <2>1, <2>2 DEF Reads
<1> HIDE DEF g
<1> QED  BY <1>3 DEF Reader

LEMMA ContentsStand ==
    ASSUME NEW S \in [Levels -> Seq(Task)], Stands(S), NEW q \in Levels
    PROVE  Contents(q) = S[q]
<1> DEFINE s == S[q]
           n == Len(s)
<1>1. /\ IsQueue(s, next_pcb, head[q], tail[q]) /\ s \in Seq(Task)
      /\ head[q] = Full(s)[1] /\ n \in Nat
  BY DEF Stands, ListsOf, IsQueue
<1>2. \A p \in Proc : Reader[p] = IF p = process_tail THEN <<>>
                                  ELSE <<p>> \o Reader[next_pcb[p]]
  <2>1. Reads(Reader)
    BY ReaderReads
  <2> HIDE DEF Reader
  <2> QED  BY <2>1 DEF Reads
<1>3. Contents(q) = Reader[head[q]]
  BY ContentsRead DEF Queue, Levels
<1>4. \A i \in 1..n : s[i] \in Proc /\ s[i] # process_tail
  BY OnQueue DEF Task
<1> HIDE DEF s, Reader
<1>5. ASSUME NEW i \in 1..n PROVE Reader[s[i]] = Rest(s, i)
  <2> SUFFICES ASSUME Reader[s[i]] # Rest(s, i) PROVE FALSE
    OBVIOUS
  <2> DEFINE T == {d \in 0..(n - 1) : Reader[s[n - d]] # Rest(s, n - d)}
  <2>1. T \in SUBSET Nat /\ T # {}
    <3>1. n - i \in 0..(n - 1) /\ n - (n - i) = i
      BY <1>1
    <3> HIDE DEF n
    <3>2. n - i \in T
      BY <3>1
    <3> QED  BY <3>2
  <2> HIDE DEF T
  <2>2. PICK m \in T : \A d \in T : m <= d
    BY <2>1, LeastNumber
  <2>3. m \in 0..(n - 1) /\ Reader[s[n - m]] # Rest(s, n - m)
    BY <2>2 DEF T
  <2> DEFINE j == n - m
  <2>4. j \in 1..n
    BY <1>1, <2>3
  <2>5. Reader[s[j]] = <<s[j]>> \o Reader[next_pcb[s[j]]]
    BY <1>2, <1>4, <2>4
  <2>6. CASE j = n
    <3>1. next_pcb[s[j]] = process_tail
      BY <1>1, <2>4, <2>6, QueueLinks
    <3>2. Reader[process_tail] = <<>>
      BY <1>2, ConstantTypes
    <3>3. Rest(s, j) = <<s[j]>> \o <<>>
      BY <1>1, <2>4, <2>6, RestProperties
    <3> QED  BY <2>3, <2>5, <3>1, <3>2, <3>3
  <2>7. CASE j # n
    <3>1. m - 1 \in 0..(n - 1) /\ n - (m - 1) = j + 1 /\ m - 1 < m
      BY <1>1, <2>3, <2>7
    <3>2. m - 1 \notin T
      BY <2>1, <2>2, <3>1
    <3>3. Reader[s[j + 1]] = Rest(s, j + 1)
      <4> HIDE DEF j, n
      <4> QED  BY <3>1, <3>2 DEF T
    <3>4. next_pcb[s[j]] = s[j + 1]
      BY <1>1, <2>4, <2>7, QueueLinks
    <3>5. Rest(s, j) = <<s[j]>> \o Rest(s, j + 1)
      BY <1>1, <2>4, <2>7, RestProperties
    <3> QED  BY <2>3, <2>5, <3>3, <3>4, <3>5
  <2> QED  BY <2>6, <2>7
<1>6. CASE n = 0
  <2>1. s = <<>> /\ Full(s)[n + 1] = process_tail
    BY <1>1, <1>6, FullProperties
  <2>3. head[q] = process_tail
    BY <1>1, <1>6, <2>1
  <2>2. Reader[process_tail] = <<>>
    BY <1>2, ConstantTypes
  <2> QED  BY <1>3, <2>1, <2>2, <2>3 DEF s
<1>7. CASE n # 0
  <2>1. 1 \in 1..n /\ head[q] = s[1]
    BY <1>1, <1>7, FullProperties
  <2>2. Reader[s[1]] = Rest(s, 1) /\ Rest(s, 1) = s
    BY <1>1, <1>5, <2>1, RestProperties
  <2> QED  BY <1>3, <2>1, <2>2 DEF s
<1> QED  BY <1>6, <1>7

MappedQueue == <<Contents(1), Contents(2), Contents(3)>>

LEMMA ThreeLevels ==
    ASSUME NEW S \in [Levels -> Seq(Task)]
    PROVE  S = <<S[1], S[2], S[3]>>
<1>1. S = [l \in 1..3 |-> S[l]]
  BY DEF Levels
<1>2. <<S[1], S[2], S[3]>> = [l \in 1..3 |-> S[l]]
  OBVIOUS
<1> QED  BY <1>1, <1>2

LEMMA MapStands ==
    \A S \in [Levels -> Seq(Task)] : Stands(S) => MappedQueue = S
<1> SUFFICES ASSUME NEW S \in [Levels -> Seq(Task)], Stands(S)
             PROVE  MappedQueue = S
  OBVIOUS
<1>1. Contents(1) = S[1] /\ Contents(2) = S[2] /\ Contents(3) = S[3]
  BY ContentsStand DEF Levels
<1> QED  BY <1>1, ThreeLevels DEF MappedQueue

LEMMA MapStandsNext ==
    ASSUME NEW R \in [Levels -> Seq(Task)], StandsNext(R)
    PROVE  MappedQueue' = R
<1>1. (\A S \in [Levels -> Seq(Task)] : Stands(S) => MappedQueue = S)'
  BY MapStands, PTL
<1>2. Stands(R)'
  BY DEF Stands, StandsNext
<1> QED  BY <1>1, <1>2

LEMMA MapInit ==
    ASSUME Init
    PROVE  Abstract!Init
<1>1. MappedQueue = AtBoot
  BY InitLists, AtBootOrder, MapStands
<1>2. MappedQueue = [l \in 1..3 |-> IF l = 1 THEN [i \in 1..NR_TASK |-> i - 1] ELSE <<>>]
  BY <1>1 DEF AtBoot, Levels
<1>3. Abstract!IsOrder
  <2> DEFINE o == [i \in 1..NR_TASK |-> i - 1]
  <2>1. NR_TASK \in Nat
    BY SchedulerAssumption
  <2>2. o \in Seq(Task) /\ Len(o) = NR_TASK /\ \A i \in 1..NR_TASK : o[i] = i - 1
    <3>1. AtBoot[1] = o
      BY DEF AtBoot, Levels
    <3> HIDE DEF o
    <3> QED  BY <3>1, AtBootOrder
  <2>3. ASSUME NEW t \in Task PROVE \E i \in 1..NR_TASK : o[i] = t
    <3>1. t + 1 \in 1..NR_TASK /\ (t + 1) - 1 = t
      BY <2>1 DEF Task, Proc, process_tail
    <3> QED  BY <2>2, <3>1
  <2>4. \A i, j \in 1..NR_TASK : o[i] = o[j] => i = j
    BY <2>1, <2>2
  <2> HIDE DEF o
  <2>5. /\ o \in Seq(Task)
        /\ \A t \in Task : \E i \in 1..Len(o) : o[i] = t
        /\ \A i, j \in 1..Len(o) : o[i] = o[j] => i = j
    BY <2>2, <2>3, <2>4
  <2> QED  BY <2>5 DEF Abstract!IsOrder, o
<1>4. [t \in Task |-> flags[t]] = [t \in Task |-> Abstract!RUNNING]
  BY ConstantTypes DEF Init, Abstract!RUNNING, RUNNING
<1>5. p_proc_ready \in Proc \cup {nullptr}
  BY ConstantTypes DEF Init
<1> QED  BY <1>2, <1>3, <1>4, <1>5 DEF Abstract!Init, Abstract!Level, MappedQueue

LEMMA MapDispatch ==
    ASSUME Inv, Inv', NEW S \in [Levels -> Seq(Task)], NEW R \in [Levels -> Seq(Task)],
           Stands(S), StandsNext(R), Decides(S, R)
    PROVE  Abstract!Dispatch
<1>1. MappedQueue = S /\ MappedQueue' = R
  BY MapStands, MapStandsNext
<1> DEFINE runs(t) == [x \in Task |-> flags'[x]][t] = 0
<1>2. ASSUME NEW l \in Levels, NEW i \in 1..Len(S[l])
      PROVE  runs(S[l][i]) <=> Ready(S[l][i])
  BY OnQueue DEF Ready, RUNNING
<1>3. ASSUME NEW l \in Levels, NoneOf(S[l]) PROVE ~ Abstract!SomeRunnable(l)
  <2>1. Abstract!SomeRunnable(l) <=>
            \E i \in 1..Len(MappedQueue[l]) : runs(MappedQueue[l][i])
    BY DEF Abstract!SomeRunnable, Abstract!Runnable, Abstract!RUNNING, MappedQueue
  <2> HIDE DEF runs
  <2>2. ASSUME NEW i \in 1..Len(S[l]) PROVE ~ runs(S[l][i])
    BY <1>2, <1>3 DEF NoneOf
  <2> QED  BY <1>1, <2>1, <2>2
<1>4. ASSUME NEW l \in Levels, NEW i \in 1..Len(S[l]), FirstOf(S[l], i)
      PROVE  Abstract!FirstRunnable(l, i)
  <2>1. \A j \in 1..(i - 1) : j \in 1..Len(S[l])
    <3>1. S[l] \in Seq(Task)
      OBVIOUS
    <3>2. Len(S[l]) \in Nat
      BY <3>1
    <3> QED  BY <3>2
  <2>2. Abstract!FirstRunnable(l, i) <=>
            /\ i \in 1..Len(MappedQueue[l]) /\ runs(MappedQueue[l][i])
            /\ \A j \in 1..(i - 1) : ~ runs(MappedQueue[l][j])
    BY DEF Abstract!FirstRunnable, Abstract!Runnable, Abstract!RUNNING, MappedQueue
  <2> HIDE DEF runs
  <2>3. runs(S[l][i]) /\ \A j \in 1..(i - 1) : ~ runs(S[l][j])
    BY <1>2, <1>4, <2>1 DEF FirstOf
  <2> QED  BY <1>1, <2>2, <2>3
<1>5. ASSUME NEW l, NEW i PROVE Demote(S, l, i) = Abstract!Demoted(l, i)
  <2>1. Abstract!Demoted(l, i) = Demote(MappedQueue, l, i)
    BY DEF Abstract!Demoted, Abstract!RemoveAt, Demote, RemoveAt, MappedQueue
  <2> QED  BY <1>1, <2>1
<1> HIDE DEF runs
<1>6. CASE NoneOf(S[1]) /\ NoneOf(S[2]) /\ R = S
  <2>1. \A k \in 1..2 : ~ Abstract!SomeRunnable(k)
    BY <1>3, <1>6 DEF Levels
  <2>2. p_proc_ready' \in Proc \cup {nullptr}
    BY DEF Inv, TypeOK
  <2> QED  BY <1>1, <1>6, <2>1, <2>2
           DEF Abstract!Dispatch, Abstract!DispatchLast, MappedQueue
<1>7. ASSUME NEW q \in {1, 2}, NEW i \in 1..Len(S[q]), q = 2 => NoneOf(S[1]),
             FirstOf(S[q], i), p_proc_ready' = S[q][i], R = S \/ R = Demote(S, q, i)
      PROVE  Abstract!Dispatch
  <2>1. \A k \in 1..(q - 1) : ~ Abstract!SomeRunnable(k)
    BY <1>3, <1>7 DEF Levels
  <2>2. Abstract!FirstRunnable(q, i)
    BY <1>4, <1>7 DEF Levels
  <2>3. MappedQueue' \in {MappedQueue, Abstract!Demoted(q, i)}
    BY <1>1, <1>5, <1>7
  <2>4. p_proc_ready' = MappedQueue[q][i] /\ i \in 1..Len(MappedQueue[q])
    BY <1>1, <1>7
  <2>5. Abstract!DispatchFrom(q)
    BY <2>1, <2>2, <2>3, <2>4 DEF Abstract!DispatchFrom, MappedQueue
  <2> QED  BY <2>5 DEF Abstract!Dispatch
<1> QED  BY <1>6, <1>7 DEF Decides

LEMMA MapStep ==
    ASSUME Inv, Inv', ListsInv, [Next]_vars
    PROVE  [Abstract!Next]_(Abstract!mlfqVars)
<1> DEFINE flagsOf == [t \in Task |-> flags[t]]
<1>1. PICK S \in [Levels -> Seq(Task)] : Stands(S)
  BY DEF ListsInv
<1>2. schedule => Abstract!Dispatch
  <2> SUFFICES ASSUME schedule PROVE Abstract!Dispatch
    OBVIOUS
  <2>1. PICK R \in [Levels -> Seq(Task)] : StandsNext(R) /\ Decides(S, R)
    BY <1>1, ScheduleLists DEF Inv
  <2> QED  BY <1>1, <2>1, MapDispatch
<1>3. UNCHANGED quVars => UNCHANGED MappedQueue
  <2> SUFFICES ASSUME UNCHANGED quVars PROVE UNCHANGED MappedQueue
    OBVIOUS
  <2>1. StandsNext(S)
    BY <1>1 DEF Stands, StandsNext, quVars
  <2> QED  BY <1>1, <2>1, MapStands, MapStandsNext
<1>4. ASSUME NEW t \in Task, NEW f, flags' = [flags EXCEPT ![t] = f]
      PROVE  flagsOf' = [flagsOf EXCEPT ![t] = f]
  BY <1>4, ConstantTypes DEF Inv, TypeOK
<1>5. CASE clock_handler
  BY <1>2, <1>5 DEF clock_handler, Abstract!Next, Abstract!Tick
<1>6. CASE sys_call \/ sys_return
  <2>1. UNCHANGED <<flags, quVars, p_proc_ready>>
    BY <1>6 DEF sys_call, sys_return, schedVars, quVars
  <2> QED  BY <1>3, <2>1 DEF Abstract!mlfqVars, MappedQueue
<1>7. CASE block_and_schedule
  <2>1. PICK f \in BlockFlag :
            caller # nullptr /\ flags' = [flags EXCEPT ![caller] = f] /\ schedule
    BY <1>7 DEF block_and_schedule
  <2>2. caller \in Task /\ f \in {RUNNING, SENDING, RECEIVING}
    BY <2>1, SchedulerAssumption DEF Inv, TypeOK
  <2>3. flagsOf' = [flagsOf EXCEPT ![caller] = f]
    BY <1>4, <2>1, <2>2
  <2>4. Abstract!Block
    BY <1>2, <2>1, <2>2, <2>3 DEF Abstract!Block
  <2> QED  BY <2>4 DEF Abstract!Next
<1>8. CASE block_only
  <2>1. /\ caller \in Task /\ flags' = [flags EXCEPT ![caller] = RECEIVING]
        /\ UNCHANGED <<quVars, p_proc_ready>>
    BY <1>8 DEF block_only, schedVars, quVars, Inv, TypeOK
  <2>2. flagsOf' = [flagsOf EXCEPT ![caller] = RECEIVING]
    BY <1>4, <2>1
  <2>3. UNCHANGED <<MappedQueue, p_proc_ready>>
    BY <1>3, <2>1
  <2>4. Abstract!Block
    BY <2>1, <2>2, <2>3 DEF Abstract!Block, MappedQueue
  <2> QED  BY <2>4 DEF Abstract!Next
<1>9. CASE \E p \in Task : unblock(p)
  <2>1. PICK p \in Task : /\ flags' = [flags EXCEPT ![p] = RUNNING]
                          /\ UNCHANGED <<quVars, p_proc_ready>>
    BY <1>9 DEF unblock, schedVars, quVars
  <2>2. flagsOf' = [flagsOf EXCEPT ![p] = RUNNING]
    BY <1>4, <2>1
  <2>3. UNCHANGED <<MappedQueue, p_proc_ready>>
    BY <1>3, <2>1
  <2>4. Abstract!Unblock
    BY <2>2, <2>3 DEF Abstract!Unblock, MappedQueue, Abstract!RUNNING, RUNNING
  <2> QED  BY <2>4 DEF Abstract!Next
<1>10. CASE UNCHANGED vars
  <2>1. UNCHANGED <<flags, quVars, p_proc_ready>>
    BY <1>10 DEF vars, schedVars, quVars
  <2> QED  BY <1>3, <2>1 DEF Abstract!mlfqVars, MappedQueue
<1> QED  BY <1>5, <1>6, <1>7, <1>8, <1>9, <1>10 DEF Next

(***************************************************************************)
(* The linked-list scheduler implements the abstract one: whatever the     *)
(* number of tasks and the slices, schedule, next_quene and find_first     *)
(* dispatch the first runnable task of the highest level that has one, and *)
(* a task only ever moves from its level to the end of the next.           *)
(***************************************************************************)
THEOREM SchedulerImplementsMLFQ == Spec => ImplementsMLFQ
<1>1. Init => Inv /\ ListsInv
  BY InitInv, InitLists, AtBootOrder DEF ListsInv
<1>2. Inv /\ ListsInv /\ [Next]_vars => Inv' /\ ListsInv'
  BY StepInv, StepLists DEF Inv
<1>3. Init => Abstract!Init
  BY MapInit
<1>4. Inv /\ Inv' /\ ListsInv /\ [Next]_vars => [Abstract!Next]_(Abstract!mlfqVars)
  BY MapStep
<1> QED  BY <1>1, <1>2, <1>3, <1>4, PTL DEF Spec, ImplementsMLFQ, Abstract!Spec

-----------------------------------------------------------------------------
(* What the abstract scheduler promises                                    *)

OneEach(q) == q \in [Levels -> Seq(Task)] /\ AllPlaced(q, Task) /\ PlacedOnce(q)

LEMMA AbstractOneLevel == OneEach(MappedQueue) => Abstract!OneLevelEach
  BY DEF OneEach, AllPlaced, PlacedOnce, Levels, MappedQueue,
         Abstract!OneLevelEach, Abstract!NoTaskLost, Abstract!NoTaskTwice, Abstract!Level

\* a step of the abstract scheduler leaves the levels alone or demotes a task
LEMMA AbstractMoves ==
    ASSUME [Abstract!Next]_(Abstract!mlfqVars)
    PROVE  \/ MappedQueue' = MappedQueue
           \/ \E l \in {1, 2} : \E i \in 1..Len(MappedQueue[l]) :
                  MappedQueue' = Demote(MappedQueue, l, i)
<1>1. ASSUME NEW l \in {1, 2}, Abstract!DispatchFrom(l)
      PROVE  \E i \in 1..Len(MappedQueue[l]) :
                 MappedQueue' = MappedQueue \/ MappedQueue' = Demote(MappedQueue, l, i)
  <2>1. PICK i \in 1..Len(MappedQueue[l]) : MappedQueue' \in {MappedQueue, Abstract!Demoted(l, i)}
    BY <1>1 DEF Abstract!DispatchFrom, MappedQueue
  <2>2. Abstract!Demoted(l, i) = Demote(MappedQueue, l, i)
    BY DEF Abstract!Demoted, Abstract!RemoveAt, Demote, RemoveAt, MappedQueue
  <2> QED  BY <2>1, <2>2
<1>2. CASE Abstract!Dispatch
  <2>1. Abstract!DispatchLast => MappedQueue' = MappedQueue
    BY DEF Abstract!DispatchLast, MappedQueue
  <2> QED  BY <1>1, <1>2, <2>1 DEF Abstract!Dispatch
<1>3. Abstract!Unblock \/ UNCHANGED Abstract!mlfqVars => MappedQueue' = MappedQueue
  BY DEF Abstract!Unblock, Abstract!mlfqVars, MappedQueue
<1>4. Abstract!Tick \/ Abstract!Block => Abstract!Dispatch \/ MappedQueue' = MappedQueue
  BY DEF Abstract!Tick, Abstract!Block, MappedQueue
<1> QED  BY <1>2, <1>3, <1>4 DEF Abstract!Next

(***************************************************************************)
(* The abstract scheduler keeps its promise: whatever the tasks, the       *)
(* decisions and the slices, demotion neither loses nor duplicates a task, *)
(* and each stands on exactly one level, once.                             *)
(***************************************************************************)
THEOREM TasksOnOneLevel == Abstract!Spec => []Abstract!OneLevelEach
<1> DEFINE I == OneEach(MappedQueue)
<1>1. Abstract!Init => I
  <2> SUFFICES ASSUME Abstract!Init PROVE I
    OBVIOUS
  <2> DEFINE o == [i \in 1..NR_TASK |-> i - 1]
             q == MappedQueue
  <2>1. /\ o \in Seq(Task) /\ \A t \in Task : \E i \in 1..Len(o) : o[i] = t
        /\ \A i, j \in 1..Len(o) : o[i] = o[j] => i = j
    BY DEF Abstract!Init, Abstract!IsOrder
  <2>2. q = [l \in Levels |-> IF l = 1 THEN o ELSE <<>>]
    BY DEF Abstract!Init, Abstract!Level, Levels, MappedQueue
  <2> HIDE DEF o, q
  <2>3. q \in [Levels -> Seq(Task)] /\ q[1] = o /\ \A l \in Levels \ {1} : q[l] = <<>>
    BY <2>1, <2>2 DEF Levels
  <2>4. AllPlaced(q, Task)
    BY <2>1, <2>3 DEF AllPlaced, Levels
  <2>5. PlacedOnce(q)
    <3> SUFFICES ASSUME NEW k \in Levels, NEW l \in Levels,
                        NEW i \in 1..Len(q[k]), NEW j \in 1..Len(q[l]), q[k][i] = q[l][j]
                 PROVE  k = l /\ i = j
      BY DEF PlacedOnce
    <3>1. k = 1 /\ l = 1
      BY <2>3
    <3> QED  BY <2>1, <2>3, <3>1
  <2> QED  BY <2>3, <2>4, <2>5 DEF OneEach, q
<1>2. I /\ [Abstract!Next]_(Abstract!mlfqVars) => I'
  <2> SUFFICES ASSUME I, [Abstract!Next]_(Abstract!mlfqVars) PROVE OneEach(MappedQueue')
    BY DEF OneEach, AllPlaced, PlacedOnce
  <2> HIDE DEF MappedQueue
  <2>1. CASE MappedQueue' = MappedQueue
    BY <2>1
  <2>2. ASSUME NEW l \in {1, 2}, NEW i \in 1..Len(MappedQueue[l]),
               MappedQueue' = Demote(MappedQueue, l, i)
        PROVE  OneEach(MappedQueue')
    BY <2>2, DemoteElements, DemoteKeepsPlaces DEF OneEach
  <2> QED  BY <2>1, <2>2, AbstractMoves
<1> QED  BY <1>1, <1>2, AbstractOneLevel, PTL DEF Abstract!Spec

(***************************************************************************)
(* So do the linked lists that implement it (schedule, next_quene,         *)
(* find_first): read from its head to process_tail, each of the three      *)
(* queues is a sequence, and every task is on one of them, in one place.   *)
(***************************************************************************)
THEOREM TasksOnOneList == Spec => []Abstract!OneLevelEach
  BY SchedulerImplementsMLFQ, TasksOnOneLevel, PTL DEF ImplementsMLFQ
=============================================================================
