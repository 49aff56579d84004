---------------------------- MODULE Tasks_proofs ----------------------------
(***************************************************************************)
(* Theorems about Tasks.tla, for any sizes of sectors, files and commands. *)
(*                                                                         *)
(* The tasks run over IPC.tla.  What IPC_proofs shows of it makes a call   *)
(* of send_msg or receive_msg one of four things for the tasks: nothing,   *)
(* a message that is dropped, a message that goes from a sender to a       *)
(* receiver, both of which run on, or an interrupt that task_hd is told of *)
(* (IPCSteps).  The rest speaks of what each task is doing and no longer   *)
(* of flags, pointers and queues.                                          *)
(*                                                                         *)
(* RunInv says how the tasks and the disk keep in step; TransferInv, which *)
(* rests on it, what a request has read so far, sector by sector, and what *)
(* there is of a file, block by block.                                     *)
(***************************************************************************)
EXTENDS Tasks, IPC_proofs

LEMMA TaskPids ==
    /\ TTY \in Proc /\ FS \in Proc /\ HD \in Proc
    /\ TTY # FS /\ HD # TTY /\ HD # FS
  BY TasksAssumption, IPCAssumption

\* the calls a task makes, by their kind
LEMMA CallKinds ==
    ASSUME NEW p \in Proc, NEW q
    PROVE  /\ <<p, "send", q>> \in Calls =>
                  \/ p = TTY /\ q = FS
                  \/ p = FS /\ q \in {TTY, HD}
                  \/ p = HD /\ q = FS
           /\ <<p, "receive", q>> \in Calls =>
                  \/ p = TTY /\ q = FS
                  \/ p = FS /\ q \in {ANY, HD}
                  \/ p = HD /\ q \in {ANY, INTERRUPT}
<1>1. <<p, "send", q>> \in Calls => <<p, "send", q>> \in TaskCalls
  BY TasksAssumption
<1>2. <<p, "receive", q>> \in Calls => <<p, "receive", q>> \in TaskCalls
  BY TasksAssumption
<1> QED  BY <1>1, <1>2 DEF TaskCalls

LEMMA TasksNameOne == OneNamedSource
<1>1. ASSUME NEW c \in Calls, NEW d \in Calls, c[1] = d[1],
             c[2] = "receive", c[3] # ANY, d[2] = "receive", d[3] # ANY
      PROVE  c[3] = d[3]
  <2>1. c \in TaskCalls /\ d \in TaskCalls
    BY TasksAssumption
  <2> QED  BY <1>1, <2>1, TaskPids DEF TaskCalls
<1>2. ASSUME NEW p \in Proc PROVE <<HD, "receive", p>> \notin Calls
  BY CallKinds, TaskPids, NotPids
<1> QED  BY <1>1, <1>2 DEF OneNamedSource

-----------------------------------------------------------------------------
(* The tasks run over IPC                                                  *)

LEMMA TaskStepIsIPC == [TasksNext]_tasksVars => [Next]_vars
<1> SUFFICES ASSUME [TasksNext]_tasksVars PROVE [Next]_vars
  OBVIOUS
<1>0. Proc \cup {ANY} \subseteq Source /\ INTERRUPT \in Source
  BY DEF Source
<1>1. ASSUME NEW p \in Proc, NEW q, send_enter(p, q) PROVE Next
  <2>1. q \in Proc
    BY <1>1, CallKinds, TaskPids DEF send_enter
  <2> QED  BY <1>1, <2>1 DEF Next
<1>2. ASSUME NEW p \in Proc, NEW s \in Source, receive_enter(p, s) PROVE Next
  BY <1>2 DEF Next
<1>3. CASE tty_send
  BY <1>1, <1>3, TaskPids DEF tty_send
<1>4. CASE task_tty
  BY <1>0, <1>2, <1>4, TaskPids DEF task_tty, tty_receive, tty_answer
<1>5. CASE task_fs
  BY <1>0, <1>1, <1>2, <1>5, TaskPids
  DEF task_fs, fs_receive, fs_request, fs_walk, fs_op_send, fs_op_receive, fs_reply
<1>6. CASE task_hd
  BY <1>0, <1>1, <1>2, <1>6, TaskPids
  DEF task_hd, hd_receive, hd_request, hd_command, hd_wait, hd_next_command,
      hd_data, hd_reply
<1>7. CASE in_call
  BY <1>7 DEF in_call, Next
<1>8. CASE disk_ready
  BY <1>8 DEF disk_ready
<1>9. CASE hd_interrupt
  BY <1>9 DEF hd_interrupt, Next
<1>10. CASE UNCHANGED tasksVars
  BY <1>10 DEF tasksVars
<1> QED  BY <1>3, <1>4, <1>5, <1>6, <1>7, <1>8, <1>9, <1>10 DEF TasksNext

(***************************************************************************)
(* Every run of the tasks is one of IPC.tla, so all that IPC_proofs shows  *)
(* of message passing holds of them: no rendezvous is missed, and a waiter *)
(* is woken with what it asked for.                                        *)
(***************************************************************************)
THEOREM TasksRunOverIPC == TasksSpec => Spec /\ []NoMissedRendezvous /\ WokenWithAnswer
<1>1. TasksInit => Init
  BY DEF TasksInit
<1>2. TasksSpec => Spec
  BY <1>1, TaskStepIsIPC, PTL DEF TasksSpec, Spec
<1>3. Spec => []NoMissedRendezvous
  BY TasksNameOne, RendezvousNotMissed
<1>4. Spec => WokenWithAnswer
  BY TasksNameOne, ReceiversGetAnswers
<1> QED  BY <1>2, <1>3, <1>4
-----------------------------------------------------------------------------
(* What a task is doing                                                    *)

run          == <<"run", NO_TASK>>
Sending(q)   == <<"send", q>>
Receiving(q) == <<"receive", q>>

\* a call in progress and a process blocked in one are told apart no more
doing == [p \in Proc |->
    IF call # NoCall /\ call.by = p THEN <<call.op, call.peer>>
    ELSE IF flags[p] = SENDING THEN Sending(send_to_record[p])
    ELSE IF flags[p] = RECEIVING THEN Receiving(recv_from_record[p])
    ELSE run]

\* the processes outside S go on as they were, with the messages they have
Same(S) == \A r \in Proc \ S :
    doing'[r] = doing[r] /\ content'[r] = content[r] /\ source'[r] = source[r]

Keeps(p) == content'[p] = content[p] /\ source'[p] = source[p]

Nothing == Same({}) /\ UNCHANGED has_int_msg

Drops(p) ==
    /\ \E d \in Proc : doing[p] = Sending(d)
    /\ doing'[p] = run /\ Keeps(p) /\ Same({p})
    /\ UNCHANGED has_int_msg

Passes(p, d) ==
    /\ p # d /\ doing[p] = Sending(d) /\ doing[d] \in {Receiving(p), Receiving(ANY)}
    /\ doing'[p] = run /\ Keeps(p)
    /\ doing'[d] = run /\ content'[d] = content[p] /\ source'[d] = p
    /\ Same({p, d})
    /\ UNCHANGED has_int_msg

Tells ==
    /\ doing[HD] \in {Receiving(ANY), Receiving(INTERRUPT)}
    /\ doing'[HD] = run /\ content'[HD] = content[HD]
    /\ Same({HD})
    /\ has_int_msg[HD] /\ ~has_int_msg'[HD]

\* the disk task is the only one that is interrupted, and a receiver that a
\* sender has tested still waits
Undisturbed ==
    /\ \A p \in Proc \ {HD} : ~has_int_msg[p]
    /\ at("send", "match") \/ at("send", "copy") => flags[call.peer] = RECEIVING

LEMMA DoingsDiffer ==
    ASSUME NEW p, NEW q
    PROVE  /\ run # Sending(p) /\ run # Receiving(p) /\ Sending(p) # Receiving(q)
           /\ Sending(p) = Sending(q) => p = q
           /\ Receiving(p) = Receiving(q) => p = q
  BY DEF run, Sending, Receiving

LEMMA OpsDiffer == "send" # "receive" /\ {"send", "receive"} = Op
  BY DEF Op

\* a process whose call returns
LEMMA DoingReturned ==
    ASSUME return, NEW p \in Proc
    PROVE  doing'[p] = IF flags'[p] = SENDING THEN Sending(send_to_record'[p])
                       ELSE IF flags'[p] = RECEIVING THEN Receiving(recv_from_record'[p])
                       ELSE run
  BY DEF return, doing

LEMMA DoingNow ==
    ASSUME NEW p \in Proc, call = NoCall \/ call.by # p
    PROVE  doing[p] = IF flags[p] = SENDING THEN Sending(send_to_record[p])
                      ELSE IF flags[p] = RECEIVING THEN Receiving(recv_from_record[p])
                      ELSE run
  BY DEF doing

LEMMA DoingCall ==
    ASSUME WakeInv, NEW o \in Op, NEW l, at(o, l)
    PROVE  call.by \in Proc /\ doing[call.by] = <<o, call.peer>>
<1>1. call # NoCall /\ call.op = o /\ call.by \in Proc
  BY InCallFacts
<1> QED  BY <1>1 DEF doing

\* nobody's MESSAGE is copied by a step that neither copies nor wakes
LEMMA NoCopies ==
    ASSUME in_call, DOMAIN content = Proc,
           \A p, d \in Proc : ~Copies(p, d)
    PROVE  \A d \in Proc : content'[d] = content[d]
  BY DEF in_call

LEMMA OneCopies ==
    ASSUME in_call, NEW p \in Proc, NEW d \in Proc,
           \A q, e \in Proc : Copies(q, e) <=> q = p /\ e = d
    PROVE  content'[d] = content[p] /\ \A e \in Proc \ {d} : content'[e] = content[e]
<1>1. (CHOOSE q \in Proc : Copies(q, d)) = p
  <2>1. \E q \in Proc : Copies(q, d)
    OBVIOUS
  <2>2. Copies(CHOOSE q \in Proc : Copies(q, d), d)
        /\ (CHOOSE q \in Proc : Copies(q, d)) \in Proc
    BY <2>1
  <2> QED  BY <2>2
<1>2. content' = [e \in Proc |-> IF \E q \in Proc : Copies(q, e)
                  THEN content[CHOOSE q \in Proc : Copies(q, e)] ELSE content[e]]
  BY DEF in_call
<1>3. \A e \in Proc \ {d} : ~\E q \in Proc : Copies(q, e)
  OBVIOUS
<1> QED  BY <1>1, <1>2, <1>3

(***************************************************************************)
(* A step of send_msg or receive_msg, as the tasks see it.                 *)
(***************************************************************************)
LEMMA IPCSteps ==
    ASSUME RendezvousInv, Undisturbed, DOMAIN content = Proc, in_call
    PROVE  /\ \/ Nothing \/ Tells
              \/ \E p \in Proc : Drops(p) \/ \E d \in Proc : Passes(p, d)
           /\ Undisturbed'
<1> USE DEF RendezvousInv
<1>0. TypeOK /\ WakeInv
  BY DEF WakeInv
<1>1. CASE send_test
  <2>1. /\ call.by \in Proc /\ call.peer \in Proc
        /\ flags[call.by] = RUNNING /\ at("send", "test")
        /\ UNCHANGED <<flags, has_int_msg, source, pcbVars>>
    BY <1>0, <1>1, InCallFacts, OpsDiffer DEF send_test
  <2>2. \A d \in Proc : content'[d] = content[d]
    BY <2>1, NoCopies, FlagsDiffer DEF Copies, at
  <2>3. doing[call.by] = Sending(call.peer)
    BY <1>0, <2>1, DoingCall, OpsDiffer DEF Sending
  <2>4. ASSUME NEW m \in {"match", "spin"}, goto(m) PROVE Nothing
    <3>1. call' # NoCall /\ call'.by = call.by /\ call'.op = call.op /\ call'.peer = call.peer
      BY <1>0, <2>1, <2>4, GotoTyped, OpsDiffer DEF at, NoCall
    <3>2. call # NoCall
      BY <2>1 DEF at, NoCall
    <3>3. \A r \in Proc : doing'[r] = doing[r]
      BY <2>1, <3>1, <3>2 DEF doing, pcbVars
    <3> QED  BY <2>1, <2>2, <3>3 DEF Nothing, Same
  <2>5. ASSUME return PROVE Drops(call.by)
    <3>1. \A r \in Proc \ {call.by} : doing'[r] = doing[r]
      BY <2>1, <2>5, DoingReturned, DoingNow DEF pcbVars
    <3>2. doing'[call.by] = run
      BY <2>1, <2>5, DoingReturned, FlagsDiffer
    <3> QED  BY <2>1, <2>2, <2>3, <3>1, <3>2 DEF Drops, Keeps, Same
  <2>6. Undisturbed'
    <3>1. ASSUME goto("match"), flags[call.peer] = RECEIVING PROVE Undisturbed'
      <4>1. call'.peer = call.peer
        BY <1>0, <2>1, <3>1, GotoTyped, OpsDiffer
      <4> QED  BY <2>1, <3>1, <4>1 DEF Undisturbed, pcbVars
    <3>2. ASSUME goto("spin") PROVE Undisturbed'
      <4>1. call'.at = "spin"
        BY <1>0, <2>1, <3>2, GotoTyped, OpsDiffer
      <4> QED  BY <2>1, <4>1 DEF Undisturbed, pcbVars, at
    <3>3. ASSUME return PROVE Undisturbed'
      BY <2>1, <3>3 DEF Undisturbed, pcbVars, return, at, NoCall
    <3> QED  BY <1>1, <3>1, <3>2, <3>3 DEF send_test
  <2> QED  BY <1>1, <2>1, <2>4, <2>5, <2>6 DEF send_test
<1>2. CASE send_accepted
  <2>1. /\ call.by \in Proc /\ at("send", "match") /\ goto("copy")
        /\ UNCHANGED <<flags, has_int_msg, source, pcbVars>>
    BY <1>0, <1>2, InCallFacts, OpsDiffer DEF send_accepted
  <2>2. \A d \in Proc : content'[d] = content[d]
    BY <2>1, NoCopies, FlagsDiffer DEF Copies, at
  <2>3. call' # NoCall /\ call'.by = call.by /\ call'.op = call.op /\ call'.peer = call.peer
    BY <1>0, <2>1, GotoTyped, OpsDiffer DEF at, NoCall
  <2>4. \A r \in Proc : doing'[r] = doing[r]
    BY <2>1, <2>3 DEF doing, pcbVars, at, NoCall
  <2>5. Undisturbed'
    BY <2>1, <2>3 DEF Undisturbed, pcbVars
  <2> QED  BY <2>1, <2>2, <2>4, <2>5 DEF Nothing, Same
<1>3. CASE send_copy
  <2> DEFINE p == call.by
             d == call.peer
  <2>1. /\ p \in Proc /\ d \in Proc /\ p # d /\ source[p] = p
        /\ flags[p] = RUNNING /\ at("send", "copy")
    BY <1>0, <1>3, InCallFacts, OpsDiffer DEF send_copy
  <2>2. flags[d] = RECEIVING /\ recv_from_record[d] \in {p, ANY}
    BY <2>1 DEF Undisturbed, MeetInv, AcceptedInv, Accepts
  <2>3. message[d]
    BY <1>0, <2>1, <2>2 DEF WakeInv, WaitInv
  <2>4. /\ source' = [source EXCEPT ![d] = p]
        /\ flags' = [flags EXCEPT ![d] = RUNNING]
        /\ recv_from_record' = [recv_from_record EXCEPT ![d] = NO_TASK]
        /\ return
        /\ UNCHANGED <<has_int_msg, send_to_record>>
    BY <1>3, <2>1, <2>3 DEF send_copy
  <2>5. doing[p] = Sending(d)
    BY <1>0, <2>1, DoingCall, OpsDiffer DEF Sending
  <2>6. doing[d] = Receiving(recv_from_record[d])
    BY <2>1, <2>2, DoingNow, FlagsDiffer
  <2>7. /\ flags'[d] = RUNNING /\ source'[d] = p
        /\ \A r \in Proc \ {d} : flags'[r] = flags[r] /\ source'[r] = source[r]
                                 /\ recv_from_record'[r] = recv_from_record[r]
    BY <1>0, <2>1, <2>4 DEF TypeOK
  <2>8. doing'[p] = run /\ doing'[d] = run
    BY <2>1, <2>4, <2>7, DoingReturned, FlagsDiffer
  <2>9. \A r \in Proc \ {p, d} : doing'[r] = doing[r]
    BY <2>4, <2>7, DoingReturned, DoingNow
  <2>10. \A q, e \in Proc : Copies(q, e) <=> q = p /\ e = d
    BY <2>1, <2>3, OpsDiffer DEF Copies, at
  <2>11. content'[d] = content[p] /\ \A e \in Proc \ {d} : content'[e] = content[e]
    <3>1. p \in Proc /\ d \in Proc
      BY <2>1
    <3> HIDE DEF p, d
    <3> QED  BY <2>10, <3>1, OneCopies
  <2>12. Passes(p, d)
    BY <2>1, <2>2, <2>4, <2>5, <2>6, <2>7, <2>8, <2>9, <2>11 DEF Passes, Keeps, Same
  <2>13. Undisturbed'
    BY <2>4 DEF Undisturbed, return, at, NoCall
  <2> QED  BY <2>1, <2>12, <2>13
<1>4. CASE send_queue
  <2> DEFINE p == call.by
  <2>1. /\ p \in Proc /\ flags[p] = RUNNING /\ at("send", "match")
        /\ send_to_record' = [send_to_record EXCEPT ![p] = call.peer]
        /\ flags' = [flags EXCEPT ![p] = SENDING]
        /\ return
        /\ UNCHANGED <<has_int_msg, recv_from_record, source>>
    BY <1>0, <1>4, InCallFacts, OpsDiffer DEF send_queue
  <2>2. \A d \in Proc : content'[d] = content[d]
    BY <2>1, NoCopies, FlagsDiffer, OpsDiffer DEF Copies, at
  <2>3. doing[p] = Sending(call.peer)
    BY <1>0, <2>1, DoingCall, OpsDiffer DEF Sending
  <2>4. /\ flags'[p] = SENDING /\ send_to_record'[p] = call.peer
        /\ \A r \in Proc \ {p} : flags'[r] = flags[r]
                                 /\ send_to_record'[r] = send_to_record[r]
    BY <1>0, <2>1 DEF TypeOK
  <2>5. \A r \in Proc : doing'[r] = doing[r]
    BY <2>1, <2>3, <2>4, DoingReturned, DoingNow
  <2>6. Undisturbed'
    BY <2>1 DEF Undisturbed, return, at, NoCall
  <2> QED  BY <2>1, <2>2, <2>5, <2>6 DEF Nothing, Same
<1>5. CASE receive_interrupt
  <2>1. /\ call.by \in Proc /\ flags[call.by] = RUNNING /\ at("receive", "test")
        /\ has_int_msg[call.by] /\ call.peer \in {ANY, INTERRUPT}
        /\ source' = source \/ source' = [source EXCEPT ![call.by] = INTERRUPT]
        /\ has_int_msg' = [has_int_msg EXCEPT ![call.by] = FALSE]
        /\ return
        /\ UNCHANGED <<flags, pcbVars>>
    BY <1>0, <1>5, InCallFacts, OpsDiffer DEF receive_interrupt, InterruptPending
  <2>2. call.by = HD
    BY <2>1 DEF Undisturbed
  <2>3. \A d \in Proc : content'[d] = content[d]
    BY <2>1, NoCopies, FlagsDiffer, OpsDiffer DEF Copies, at
  <2>4. doing[HD] = Receiving(call.peer)
    BY <1>0, <2>1, <2>2, DoingCall, OpsDiffer DEF Receiving
  <2>5. doing'[HD] = run
    BY <2>1, <2>2, DoingReturned, FlagsDiffer
  <2>6. \A r \in Proc \ {HD} : doing'[r] = doing[r]
    BY <2>1, <2>2, DoingReturned, DoingNow DEF pcbVars
  <2>7. /\ \A r \in Proc \ {HD} : source'[r] = source[r] /\ has_int_msg'[r] = has_int_msg[r]
        /\ has_int_msg[HD] /\ ~has_int_msg'[HD]
    BY <1>0, <2>1, <2>2 DEF TypeOK
  <2>8. Undisturbed'
    BY <2>1, <2>7 DEF Undisturbed, return, at, NoCall
  <2>9. Tells
    BY <2>1, <2>2, <2>3, <2>4, <2>5, <2>6, <2>7 DEF Tells, Same
  <2> QED  BY <2>8, <2>9
<1>6. CASE receive_no_interrupt
  <2>1. /\ call.by \in Proc /\ at("receive", "test") /\ goto("take")
        /\ UNCHANGED <<flags, has_int_msg, source, pcbVars>>
    BY <1>0, <1>6, InCallFacts, OpsDiffer DEF receive_no_interrupt
  <2>2. \A d \in Proc : content'[d] = content[d]
    BY <2>1, NoCopies, FlagsDiffer DEF Copies, at
  <2>3. /\ call' # NoCall /\ call'.by = call.by /\ call'.op = call.op
        /\ call'.peer = call.peer /\ call'.at = "take"
    BY <1>0, <2>1, GotoTyped, OpsDiffer DEF at, NoCall
  <2>4. \A r \in Proc : doing'[r] = doing[r]
    BY <2>1, <2>3 DEF doing, pcbVars, at, NoCall
  <2>5. Undisturbed'
    BY <2>1, <2>3 DEF Undisturbed, pcbVars, at
  <2> QED  BY <2>1, <2>2, <2>4, <2>5 DEF Nothing, Same
<1>7. CASE receive_any
  <2> DEFINE d == call.by
             p == receive_quene[d]
  <2>1. /\ d \in Proc /\ flags[d] = RUNNING /\ at("receive", "take")
        /\ call.peer = ANY /\ p \in Proc
    BY <1>0, <1>7, InCallFacts, OpsDiffer DEF receive_any, TypeOK
  <2>2. flags[p] = SENDING /\ send_to_record[p] = d
    <3>1. p \in Chain(next_sending, p)
      BY <1>0, <2>1, ChainClosed DEF TypeOK, Pointers
    <3> QED  BY <2>1, <3>1 DEF QueueInv, SendersQueued, SendersTo
  <2>3. message[p] /\ source[p] = p /\ p # d
    BY <1>0, <2>1, <2>2, FlagsDiffer DEF WakeInv, SendInv
  <2>4. /\ source' = [source EXCEPT ![d] = p]
        /\ flags' = [flags EXCEPT ![p] = RUNNING]
        /\ send_to_record' = [send_to_record EXCEPT ![p] = NO_TASK]
        /\ return
        /\ UNCHANGED <<has_int_msg, recv_from_record>>
    BY <1>7, <2>1, <2>3 DEF receive_any, take_from, copied
  <2>5. doing[p] = Sending(d)
    BY <2>1, <2>2, <2>3, DoingNow
  <2>6. doing[d] = Receiving(ANY)
    BY <1>0, <2>1, DoingCall, OpsDiffer DEF Receiving
  <2>7. /\ flags'[p] = RUNNING /\ source'[d] = p /\ flags'[d] = RUNNING
        /\ \A r \in Proc \ {p} : flags'[r] = flags[r]
                                 /\ send_to_record'[r] = send_to_record[r]
        /\ \A r \in Proc \ {d} : source'[r] = source[r]
    BY <1>0, <2>1, <2>3, <2>4 DEF TypeOK
  <2>8. doing'[p] = run /\ doing'[d] = run
    BY <2>1, <2>4, <2>7, DoingReturned, FlagsDiffer
  <2>9. \A r \in Proc \ {p, d} : doing'[r] = doing[r]
    BY <2>4, <2>7, DoingReturned, DoingNow
  <2>10. \A q, e \in Proc : Copies(q, e) <=> q = p /\ e = d
    <3>1. ~at("send", "copy")
      BY <2>1 DEF at
    <3>2. \A q, e \in Proc : Copies(q, e) <=>
              d = e /\ message[q] /\ flags[q] = SENDING /\ flags'[q] = RUNNING
      BY <2>1, <3>1 DEF Copies
    <3>3. \A q \in Proc : flags[q] = SENDING /\ flags'[q] = RUNNING => q = p
      BY <2>7, FlagsDiffer
    <3> QED  BY <2>2, <2>3, <2>7, <3>2, <3>3
  <2>11. content'[d] = content[p] /\ \A e \in Proc \ {d} : content'[e] = content[e]
    <3>1. p \in Proc /\ d \in Proc
      BY <2>1
    <3> HIDE DEF p, d
    <3> QED  BY <2>10, <3>1, OneCopies
  <2>12. Passes(p, d)
    BY <2>1, <2>3, <2>4, <2>5, <2>6, <2>7, <2>8, <2>9, <2>11 DEF Passes, Keeps, Same
  <2>13. Undisturbed'
    BY <2>4 DEF Undisturbed, return, at, NoCall
  <2> QED  BY <2>1, <2>12, <2>13
<1>8. CASE receive_named \/ receive_missing
  BY <1>0, <1>8, NoNamedWait DEF receive_named, receive_missing
<1>9. CASE receive_block
  <2> DEFINE d == call.by
  <2>1. /\ d \in Proc /\ flags[d] = RUNNING /\ at("receive", "take")
        /\ recv_from_record' = [recv_from_record EXCEPT ![d] = call.peer]
        /\ flags' = [flags EXCEPT ![d] = RECEIVING]
        /\ return
        /\ UNCHANGED <<has_int_msg, send_to_record, source>>
    BY <1>0, <1>9, InCallFacts, OpsDiffer DEF receive_block
  <2>2. /\ flags'[d] = RECEIVING /\ recv_from_record'[d] = call.peer
        /\ \A r \in Proc \ {d} : flags'[r] = flags[r]
                                 /\ recv_from_record'[r] = recv_from_record[r]
    BY <1>0, <2>1 DEF TypeOK
  <2>3. \A q, e \in Proc : ~Copies(q, e)
    BY <2>1, <2>2, FlagsDiffer, OpsDiffer DEF Copies, at
  <2>4. \A e \in Proc : content'[e] = content[e]
    BY <2>3, NoCopies
  <2>5. doing[d] = Receiving(call.peer)
    BY <1>0, <2>1, DoingCall, OpsDiffer DEF Receiving
  <2>6. \A r \in Proc : doing'[r] = doing[r]
    BY <2>1, <2>2, <2>5, DoingReturned, DoingNow, FlagsDiffer
  <2>7. Undisturbed'
    BY <2>1 DEF Undisturbed, return, at, NoCall
  <2> QED  BY <2>1, <2>4, <2>6, <2>7 DEF Nothing, Same
<1> QED  BY <1>1, <1>2, <1>3, <1>4, <1>5, <1>6, <1>7, <1>8, <1>9 DEF in_call
-----------------------------------------------------------------------------
(* The other steps, as the tasks see them                                  *)

\* p begins a call; the rest goes on as it was
Begins(p, what) ==
    /\ doing[p] = run /\ doing'[p] = what
    /\ \A r \in Proc \ {p} : doing'[r] = doing[r] /\ source'[r] = source[r]
    /\ UNCHANGED has_int_msg
    /\ Undisturbed'

LEMMA SendBegins ==
    ASSUME WakeInv, Undisturbed, NEW p \in Proc, NEW q, send_enter(p, q)
    PROVE  Begins(p, Sending(q)) /\ <<p, "send", q>> \in Calls
<1>1. /\ call = NoCall /\ flags[p] = RUNNING /\ <<p, "send", q>> \in Calls
      /\ source' = [source EXCEPT ![p] = p]
      /\ call' = [op |-> "send", by |-> p, peer |-> q, at |-> "test"]
      /\ UNCHANGED <<flags, has_int_msg, pcbVars>>
  BY DEF send_enter
<1>2. call' # NoCall /\ call'.by = p /\ call'.op = "send" /\ call'.peer = q
      /\ call'.at = "test"
  BY <1>1 DEF NoCall
<1>3. doing[p] = run
  BY <1>1, DoingNow, FlagsDiffer
<1>4. doing'[p] = Sending(q)
  BY <1>2 DEF doing, Sending
<1>5. \A r \in Proc \ {p} : doing'[r] = doing[r]
  BY <1>1, <1>2 DEF doing, pcbVars
<1>6. Undisturbed'
  BY <1>1, <1>2 DEF Undisturbed, at
<1> QED  BY <1>1, <1>3, <1>4, <1>5, <1>6 DEF Begins, WakeInv, TypeOK

LEMMA ReceiveBegins ==
    ASSUME WakeInv, Undisturbed, NEW p \in Proc, NEW q, receive_enter(p, q)
    PROVE  Begins(p, Receiving(q))
<1>1. /\ call = NoCall /\ flags[p] = RUNNING
      /\ call' = [op |-> "receive", by |-> p, peer |-> q, at |-> "test"]
      /\ UNCHANGED <<flags, has_int_msg, source, pcbVars>>
  BY DEF receive_enter
<1>2. call' # NoCall /\ call'.by = p /\ call'.op = "receive" /\ call'.peer = q
      /\ call'.at = "test"
  BY <1>1 DEF NoCall
<1>3. doing[p] = run
  BY <1>1, DoingNow, FlagsDiffer
<1>4. doing'[p] = Receiving(q)
  BY <1>2 DEF doing, Receiving
<1>5. \A r \in Proc \ {p} : doing'[r] = doing[r]
  BY <1>1, <1>2 DEF doing, pcbVars
<1>6. Undisturbed'
  BY <1>1, <1>2 DEF Undisturbed, at
<1> QED  BY <1>1, <1>3, <1>4, <1>5, <1>6 DEF Begins

\* a step between two calls
Between ==
    /\ \A r \in Proc : doing'[r] = doing[r] /\ source'[r] = source[r]
    /\ UNCHANGED has_int_msg
    /\ Undisturbed'

LEMMA NoCallStep ==
    ASSUME Undisturbed, UNCHANGED vars
    PROVE  Between
<1>1. UNCHANGED <<call, flags, send_to_record, recv_from_record, has_int_msg, source>>
  BY DEF vars
<1> QED  BY <1>1 DEF Between, doing, Undisturbed, at

LEMMA ReadyRuns ==
    ASSUME NEW p \in Proc, Ready(p)
    PROVE  doing[p] = run
BY DoingNow, FlagsDiffer DEF Ready

(***************************************************************************)
(* The disk interrupt, while nobody sends to task_hd.                      *)
(***************************************************************************)
HandlerTells ==
    /\ doing[HD] \in {Receiving(ANY), Receiving(INTERRUPT)} /\ doing'[HD] = run
    /\ ~has_int_msg'[HD]

HandlerKeeps ==
    doing'[HD] = doing[HD] /\ source'[HD] = source[HD] /\ has_int_msg'[HD]

LEMMA HandlerStep ==
    ASSUME WakeInv, Undisturbed, hd_handler, \A p \in Proc : doing[p] # Sending(HD)
    PROVE  /\ HandlerTells \/ HandlerKeeps
           /\ \A r \in Proc \ {HD} : doing'[r] = doing[r] /\ source'[r] = source[r]
           /\ Undisturbed'
<1> USE DEF WakeInv
<1>0. HD \in Proc
  BY TaskPids
<1>1. CASE /\ flags[HD] = RECEIVING /\ recv_from_record[HD] \in {INTERRUPT, ANY}
           /\ source' = source \/ source' = [source EXCEPT ![HD] = INTERRUPT]
           /\ has_int_msg' = [has_int_msg EXCEPT ![HD] = FALSE]
           /\ flags' = [flags EXCEPT ![HD] = RUNNING]
           /\ recv_from_record' = [recv_from_record EXCEPT ![HD] = NO_TASK]
           /\ UNCHANGED <<send_to_record, call>>
  <2>1. call = NoCall \/ call.by # HD
    BY <1>1, FlagsDiffer DEF CallInv
  <2>2. doing[HD] = Receiving(recv_from_record[HD])
    BY <1>0, <1>1, <2>1, DoingNow, FlagsDiffer
  <2>3. /\ flags'[HD] = RUNNING /\ ~has_int_msg'[HD]
        /\ \A r \in Proc \ {HD} :
              /\ flags'[r] = flags[r] /\ source'[r] = source[r]
              /\ recv_from_record'[r] = recv_from_record[r]
              /\ has_int_msg'[r] = has_int_msg[r]
    BY <1>0, <1>1 DEF TypeOK
  <2>4. doing'[HD] = run
    BY <1>0, <1>1, <2>1, <2>3, FlagsDiffer DEF doing
  <2>5. \A r \in Proc \ {HD} : doing'[r] = doing[r]
    BY <1>1, <2>3 DEF doing
  <2>6. ASSUME at("send", "match") \/ at("send", "copy")
        PROVE  call.peer \in Proc \ {HD}
    <3>1. PICK l : at("send", l)
      BY <2>6
    <3>2. call.peer \in Proc /\ call.by \in Proc /\ doing[call.by] = Sending(call.peer)
      BY <3>1, InCallFacts, DoingCall, OpsDiffer DEF Sending
    <3> QED  BY <3>2
  <2>7. Undisturbed'
    BY <1>1, <2>3, <2>6 DEF Undisturbed, at
  <2> QED  BY <1>1, <2>2, <2>3, <2>4, <2>5, <2>7 DEF HandlerTells
<1>2. CASE /\ has_int_msg' = [has_int_msg EXCEPT ![HD] = TRUE]
           /\ UNCHANGED <<flags, source, call, pcbVars>>
  <2>1. has_int_msg'[HD] /\ \A r \in Proc \ {HD} : has_int_msg'[r] = has_int_msg[r]
    BY <1>0, <1>2 DEF TypeOK
  <2>2. \A r \in Proc : doing'[r] = doing[r]
    BY <1>2 DEF doing, pcbVars
  <2>3. Undisturbed'
    BY <1>2, <2>1 DEF Undisturbed, at
  <2> QED  BY <1>0, <1>2, <2>1, <2>2, <2>3 DEF HandlerKeeps
<1> QED  BY <1>1, <1>2 DEF hd_handler

-----------------------------------------------------------------------------
(* Sectors                                                                 *)

\* of so many bytes that are left to read; hd_read counts below zero
SectorsOf(bytes) == IF bytes > 0 THEN sectors(bytes) ELSE 0

LEMMA SectorFacts ==
    ASSUME NEW bytes \in Int
    PROVE  /\ SectorsOf(bytes) \in Nat
           /\ SectorsOf(bytes) = 0 <=> bytes <= 0
           /\ bytes > 0 => SectorsOf(bytes - SECTOR_SIZE) = SectorsOf(bytes) - 1
<1>0. SECTOR_SIZE \in Nat \ {0}
  BY TasksAssumption
<1>1. CASE bytes <= 0
  BY <1>1 DEF SectorsOf
<1>2. CASE bytes > 0
  <2> DEFINE x == bytes - 1
  <2>1. x \in Nat /\ SectorsOf(bytes) = x \div SECTOR_SIZE + 1
    BY <1>2 DEF SectorsOf, sectors
  <2>2. x \div SECTOR_SIZE \in Nat
    <3> HIDE DEF x
    <3> QED  BY <1>0, <2>1
  <2>3. CASE bytes - SECTOR_SIZE > 0
    <3>1. SectorsOf(bytes - SECTOR_SIZE) = (x - SECTOR_SIZE) \div SECTOR_SIZE + 1
      <4>1. (bytes - SECTOR_SIZE) - 1 = x - SECTOR_SIZE
        BY <1>0
      <4> QED  BY <2>3, <4>1 DEF SectorsOf, sectors
    <3>2. (x - SECTOR_SIZE) \div SECTOR_SIZE = x \div SECTOR_SIZE - 1
      <4> HIDE DEF x
      <4> QED  BY <1>0, <2>1
    <3> HIDE DEF x
    <3> QED  BY <1>2, <2>1, <2>2, <3>1, <3>2
  <2>4. CASE ~(bytes - SECTOR_SIZE > 0)
    <3>1. SectorsOf(bytes - SECTOR_SIZE) = 0
      BY <2>4 DEF SectorsOf
    <3>2. x \in 0..(SECTOR_SIZE - 1)
      BY <1>0, <1>2, <2>4
    <3>3. x \div SECTOR_SIZE = 0
      <4> HIDE DEF x
      <4> QED  BY <1>0, <3>2
    <3> QED  BY <1>2, <2>1, <3>1, <3>3
  <2> HIDE DEF x
  <2> QED  BY <1>2, <2>1, <2>2, <2>3, <2>4
<1> QED  BY <1>1, <1>2
-----------------------------------------------------------------------------
(* The tasks in step with one another                                      *)

Three == {TTY, FS, HD}

\* what a task is doing at each of its places; nobody else makes calls
Places ==
    /\ DOMAIN pc = Three /\ DOMAIN content = Proc
    /\ \A p \in Proc \ Three : doing[p] = run
    /\ \/ pc[TTY] = "idle"    /\ doing[TTY] = run
       \/ pc[TTY] = "sent"    /\ doing[TTY] \in {run, Sending(FS)}
       \/ pc[TTY] = "answer"  /\ doing[TTY] \in {run, Receiving(FS)}
    /\ \/ pc[FS] = "receive"  /\ doing[FS] \in {run, Receiving(HD), Sending(TTY)}
       \/ pc[FS] = "request"  /\ doing[FS] \in {run, Receiving(ANY)}
       \/ pc[FS] = "walk"     /\ doing[FS] \in {run, Receiving(HD)}
       \/ pc[FS] = "op_sent"  /\ doing[FS] \in {run, Sending(HD)}
       \/ pc[FS] \in {"op", "reply"} /\ doing[FS] = run
    /\ \/ pc[HD] = "receive"  /\ doing[HD] \in {run, Sending(FS)}
       \/ pc[HD] = "request"  /\ doing[HD] \in {run, Receiving(ANY)}
       \/ pc[HD] = "data"     /\ doing[HD] \in {run, Receiving(INTERRUPT)}
       \/ pc[HD] \in {"command", "loop", "reply"} /\ doing[HD] = run

\* a request has reached the task and is not answered
HDBusy ==
    \/ pc[HD] \in {"command", "loop", "data", "reply"}
    \/ pc[HD] = "request" /\ doing[HD] = run
    \/ doing[HD] = Sending(FS)

FSServes ==
    \/ pc[FS] = "request" /\ doing[FS] = run
    \/ pc[FS] \in {"walk", "op", "op_sent", "reply"} /\ fs.stage = "file"
    \/ doing[FS] = Sending(TTY)

\* the send of the request is over, and its answer is not there yet
FSAwaits ==
    \/ pc[FS] = "op_sent" /\ doing[FS] = run
    \/ doing[FS] = Receiving(HD)

TTYAwaits ==
    \/ pc[TTY] = "sent" /\ doing[TTY] = run
    \/ doing[TTY] = Receiving(FS)

Handshake == (HDBusy => FSAwaits) /\ (FSServes => TTYAwaits)

(***************************************************************************)
(* A sector that the disk has ready is known in exactly one place: in the  *)
(* request of the disk, in the PCB of task_hd, or to task_hd itself.       *)
(***************************************************************************)
Told == pc[HD] = "data" /\ doing[HD] = run

Signals ==
    /\ disk.drq => disk.left > 0
    /\ irq => disk.drq /\ ~has_int_msg[HD] /\ ~Told
    /\ has_int_msg[HD] => disk.drq /\ ~Told
    /\ Told => disk.drq

(***************************************************************************)
(* The sectors of the command that the disk has left are those that        *)
(* hd_read will still wait for, and those without a command are in sum.    *)
(***************************************************************************)
HDFields == {"stage", "src", "msg", "sum", "bytes", "la", "epoch"}
FSFields == {"stage", "src", "msg", "inode", "i", "indexed", "bytes"}

Sectors ==
    /\ disk.left \in Nat /\ {"sector", "left", "drq"} \subseteq DOMAIN disk
    /\ pc[HD] \in {"receive", "request", "command", "reply"} => disk.left = 0
    /\ pc[HD] \notin {"receive", "request"} => HDFields \subseteq DOMAIN hd
    /\ pc[HD] \in {"command", "loop", "data"} =>
          /\ hd.sum \in Nat /\ hd.bytes \in Int
          /\ hd.sum + disk.left = SectorsOf(hd.bytes)
    /\ pc[HD] = "loop" => hd.epoch \in Nat /\ hd.epoch + disk.left <= MaxBatch
    /\ pc[HD] = "data" =>
          hd.epoch \in Nat /\ hd.epoch + disk.left <= MaxBatch + 1 /\ hd.bytes > 0

\* the answer to the request of the terminal
Answer == [tty EXCEPT !.inode_index = IF tty.function = "root" THEN 2 ELSE @]

TTYRequests == [function : {"root", "read", "other"}, inode_index : DOMAIN InodeAt]

ForDisk(msg) == msg.bytes_count \in Nat \ {0}

(***************************************************************************)
(* What the messages hold on their way.                                    *)
(***************************************************************************)
TTYMessages ==
    /\ pc[TTY] # "idle" => tty \in TTYRequests
    /\ doing[TTY] = Sending(FS) => content[TTY] = tty
    /\ pc[FS] = "request" /\ doing[FS] = run => content[FS] = tty /\ source[FS] = TTY
    /\ pc[FS] \in {"walk", "op", "op_sent", "reply"} /\ fs.stage = "file" =>
          fs.msg = Answer /\ fs.src = TTY
    /\ doing[FS] = Sending(TTY) => content[FS] = Answer
    /\ pc[TTY] = "answer" /\ doing[TTY] = run => source[TTY] = FS /\ content[TTY] = Answer

DiskMessages ==
    /\ fs.stage \in {"init", "file"} /\ (pc[FS] \in {"walk", "reply"} => fs.stage = "file")
    /\ fs.stage = "file" => FSFields \subseteq DOMAIN fs /\ fs.bytes \in Nat
    /\ pc[FS] = "op" \/ doing[FS] = Sending(HD) => ForDisk(content[FS])
    /\ pc[HD] = "request" /\ doing[HD] = run => ForDisk(content[HD]) /\ source[HD] = FS
    /\ pc[HD] \in {"command", "loop", "data", "reply"} => hd.src = FS

StepInv == Places /\ Handshake /\ Signals /\ Sectors /\ TTYMessages /\ DiskMessages

RunInv == RendezvousInv /\ Undisturbed /\ StepInv

LEMMA StepInvInit == ASSUME TasksInit PROVE Undisturbed /\ StepInv
<1>1. /\ TTY \in Proc /\ FS \in Proc /\ HD \in Proc
      /\ TTY # FS /\ HD # TTY /\ HD # FS
  BY TaskPids
<1>2. \A p \in Proc : doing[p] = run /\ ~has_int_msg[p]
  BY FlagsDiffer DEF TasksInit, Init, doing
<1>3. pc[TTY] = "idle" /\ pc[FS] = "op" /\ pc[HD] = "receive" /\ DOMAIN pc = Three
  BY <1>1 DEF TasksInit, Three
<1>4. /\ DOMAIN content = Proc
      /\ content[FS] = DiskRequest("table", 0, TableSector, TableBytes)
      /\ fs.stage = "init" /\ disk = [sector |-> 0, left |-> 0, drq |-> FALSE] /\ ~irq
  BY <1>1 DEF TasksInit
<1>5. Undisturbed
  BY <1>2 DEF TasksInit, Init, Undisturbed, at, NoCall
<1>6. Places
  BY <1>1, <1>2, <1>3, <1>4 DEF Places, Three
<1>7. Handshake
  BY <1>1, <1>2, <1>3, <1>4, DoingsDiffer
  DEF Handshake, HDBusy, FSServes, FSAwaits, TTYAwaits
<1>8. Signals /\ Sectors
  BY <1>1, <1>2, <1>3, <1>4 DEF Signals, Sectors, Told
<1>9. TTYMessages
  BY <1>1, <1>2, <1>3, <1>4, DoingsDiffer DEF TTYMessages
<1>10. ForDisk(content[FS])
  BY <1>4, TasksAssumption DEF ForDisk, DiskRequest
<1>11. DiskMessages
  BY <1>1, <1>2, <1>3, <1>4, <1>10, DoingsDiffer DEF DiskMessages
<1> QED  BY <1>5, <1>6, <1>7, <1>8, <1>9, <1>11 DEF StepInv
-----------------------------------------------------------------------------
(* The steps of task_tty                                                   *)

LEMMA TTYSteps ==
    ASSUME RunInv, tty_send \/ task_tty
    PROVE  Undisturbed' /\ StepInv'
<1> USE DEF RunInv, StepInv
<1>0. /\ TTY \in Proc /\ FS \in Proc /\ HD \in Proc
      /\ TTY # FS /\ HD # TTY /\ HD # FS
  BY TaskPids
<1>1. CASE tty_send
  <2>1. PICK f \in {"root", "read", "other"}, i \in DOMAIN InodeAt :
            tty' = [function |-> f, inode_index |-> i]
    BY <1>1 DEF tty_send
  <2>2. /\ send_enter(TTY, FS) /\ pc[TTY] = "idle"
        /\ pc' = [pc EXCEPT ![TTY] = "sent"]
        /\ content' = [content EXCEPT ![TTY] = tty']
        /\ UNCHANGED <<fs, hd, memory, disk, irq, dropped>>
    BY <1>1 DEF tty_send, jump
  <2>3. Begins(TTY, Sending(FS))
    BY <1>0, <2>2, SendBegins DEF RendezvousInv
  <2>4. /\ pc'[TTY] = "sent" /\ pc'[FS] = pc[FS] /\ pc'[HD] = pc[HD]
        /\ DOMAIN pc' = Three
    BY <1>0, <2>2 DEF Places, Three
  <2>5. /\ content'[TTY] = tty' /\ content'[FS] = content[FS] /\ content'[HD] = content[HD]
        /\ DOMAIN content' = Proc
    BY <1>0, <2>2 DEF Places
  <2>6. /\ doing[TTY] = run /\ doing'[TTY] = Sending(FS)
        /\ doing'[FS] = doing[FS] /\ source'[FS] = source[FS]
        /\ doing'[HD] = doing[HD] /\ source'[HD] = source[HD]
        /\ \A p \in Proc \ Three : doing'[p] = doing[p]
        /\ UNCHANGED has_int_msg
    BY <1>0, <2>3 DEF Begins, Three
  <2>7. ~TTYAwaits /\ ~FSServes
    BY <2>2, <2>6, DoingsDiffer DEF TTYAwaits, Handshake
  <2>8. Places'
    BY <2>4, <2>5, <2>6 DEF Places
  <2>9. Handshake'
    BY <2>2, <2>4, <2>6, <2>7 DEF Handshake, HDBusy, FSAwaits, FSServes
  <2>10. Signals' /\ Sectors' /\ DiskMessages'
    BY <2>2, <2>4, <2>5, <2>6 DEF Signals, Sectors, DiskMessages, Told
  <2>11. TTYMessages'
    BY <2>1, <2>2, <2>4, <2>5, <2>6, <2>7 DEF TTYMessages, TTYRequests, FSServes
  <2> QED  BY <2>3, <2>8, <2>9, <2>10, <2>11 DEF Begins
<1>2. CASE tty_receive
  <2>1. /\ receive_enter(TTY, FS) /\ pc[TTY] = "sent"
        /\ pc' = [pc EXCEPT ![TTY] = "answer"]
        /\ UNCHANGED <<content, tty, fs, hd, memory, disk, irq, dropped>>
    BY <1>2 DEF tty_receive, jump
  <2>2. Begins(TTY, Receiving(FS))
    BY <1>0, <2>1, ReceiveBegins DEF RendezvousInv
  <2>3. /\ pc'[TTY] = "answer" /\ pc'[FS] = pc[FS] /\ pc'[HD] = pc[HD]
        /\ DOMAIN pc' = Three
    BY <1>0, <2>1 DEF Places, Three
  <2>4. /\ doing[TTY] = run /\ doing'[TTY] = Receiving(FS)
        /\ doing'[FS] = doing[FS] /\ source'[FS] = source[FS]
        /\ doing'[HD] = doing[HD] /\ source'[HD] = source[HD]
        /\ \A p \in Proc \ Three : doing'[p] = doing[p]
        /\ UNCHANGED has_int_msg
    BY <1>0, <2>2 DEF Begins, Three
  <2>5. Places'
    BY <2>1, <2>3, <2>4 DEF Places
  <2>6. Handshake'
    BY <2>1, <2>3, <2>4 DEF Handshake, HDBusy, FSAwaits, FSServes, TTYAwaits
  <2>7. Signals' /\ Sectors' /\ DiskMessages'
    BY <2>1, <2>3, <2>4 DEF Signals, Sectors, DiskMessages, Told
  <2>8. TTYMessages'
    <3>1. Answer' = Answer
      BY <2>1 DEF Answer
    <3> QED  BY <2>1, <2>3, <2>4, <3>1, DoingsDiffer DEF TTYMessages
  <2> QED  BY <2>2, <2>5, <2>6, <2>7, <2>8 DEF Begins
<1>3. CASE tty_answer
  <2>1. /\ Ready(TTY) /\ pc[TTY] = "answer"
        /\ pc' = [pc EXCEPT ![TTY] = "idle"]
        /\ UNCHANGED <<vars, content, tty, fs, hd, memory, disk, irq, dropped>>
    BY <1>3 DEF tty_answer, jump
  <2>2. Between /\ doing[TTY] = run
    BY <1>0, <2>1, NoCallStep, ReadyRuns
  <2>3. /\ pc'[TTY] = "idle" /\ pc'[FS] = pc[FS] /\ pc'[HD] = pc[HD]
        /\ DOMAIN pc' = Three
    BY <1>0, <2>1 DEF Places, Three
  <2>4. /\ doing'[TTY] = run
        /\ doing'[FS] = doing[FS] /\ source'[FS] = source[FS]
        /\ doing'[HD] = doing[HD] /\ source'[HD] = source[HD]
        /\ \A p \in Proc \ Three : doing'[p] = doing[p]
        /\ UNCHANGED has_int_msg
    BY <1>0, <2>2 DEF Between, Three
  <2>5. Places'
    BY <2>1, <2>3, <2>4 DEF Places
  <2>6. Handshake'
    BY <2>1, <2>2, <2>3, <2>4, DoingsDiffer
    DEF Handshake, HDBusy, FSAwaits, FSServes, TTYAwaits
  <2>7. Signals' /\ Sectors' /\ DiskMessages'
    BY <2>1, <2>3, <2>4 DEF Signals, Sectors, DiskMessages, Told
  <2>8. TTYMessages'
    <3>1. Answer' = Answer
      BY <2>1 DEF Answer
    <3> QED  BY <2>1, <2>3, <2>4, <3>1, DoingsDiffer DEF TTYMessages
  <2> QED  BY <2>2, <2>5, <2>6, <2>7, <2>8 DEF Between
<1> QED  BY <1>1, <1>2, <1>3 DEF task_tty
-----------------------------------------------------------------------------
(* The steps of task_fs.  What each leaves alone comes first.              *)

\* a step of task p that is not in a call
Apart(p) ==
    /\ DOMAIN pc' = Three /\ DOMAIN content' = Proc
    /\ \A q \in Three \ {p} :
          /\ pc'[q] = pc[q] /\ doing'[q] = doing[q]
          /\ content'[q] = content[q] /\ source'[q] = source[q]
    /\ \A q \in Proc \ Three : doing'[q] = run
    /\ UNCHANGED has_int_msg
    /\ Undisturbed'

LEMMA BeginsApart ==
    ASSUME Places, NEW p \in Three, NEW what, Begins(p, what),
           NEW place, jump(p, place),
           content' = content \/ \E msg : content' = [content EXCEPT ![p] = msg]
    PROVE  Apart(p) /\ pc'[p] = place /\ doing[p] = run /\ doing'[p] = what
  BY TaskPids DEF Begins, jump, Places, Three, Apart

LEMMA BetweenApart ==
    ASSUME Places, Undisturbed, NEW p \in Three, Ready(p), UNCHANGED vars,
           NEW place, jump(p, place),
           content' = content \/ \E msg : content' = [content EXCEPT ![p] = msg]
    PROVE  /\ Apart(p) /\ pc'[p] = place /\ doing[p] = run /\ doing'[p] = run
           /\ source'[p] = source[p]
<1>1. p \in Proc
  BY TaskPids DEF Three
<1>2. Between /\ doing[p] = run
  BY <1>1, NoCallStep, ReadyRuns
<1> QED  BY <1>1, <1>2, TaskPids DEF Between, jump, Places, Three, Apart

LEMMA FSSteps ==
    ASSUME RunInv, task_fs
    PROVE  Undisturbed' /\ StepInv'
<1> USE DEF RunInv, StepInv
<1>0. /\ TTY \in Proc /\ FS \in Proc /\ HD \in Proc
      /\ TTY # FS /\ HD # TTY /\ HD # FS /\ FS \in Three /\ Three = {TTY, FS, HD}
  BY TaskPids DEF Three
<1> DEFINE Rest == Undisturbed' /\ Signals' /\ Sectors'
\* nothing of the disk, and its driver only hears of task_fs
<1>1. ASSUME Apart(FS), UNCHANGED <<tty, hd, memory, disk, irq, dropped>> PROVE Rest
  BY <1>0, <1>1 DEF Apart, Signals, Sectors, Told
<1>2. CASE fs_receive
  <2>1. /\ receive_enter(FS, ANY) /\ pc[FS] = "receive" /\ jump(FS, "request")
        /\ UNCHANGED <<content, tty, fs, hd, memory, disk, irq, dropped>>
    BY <1>2 DEF fs_receive
  <2>2. Begins(FS, Receiving(ANY))
    BY <1>0, <2>1, ReceiveBegins DEF RendezvousInv
  <2>3. Apart(FS) /\ pc'[FS] = "request" /\ doing[FS] = run /\ doing'[FS] = Receiving(ANY)
    BY <1>0, <2>1, <2>2, BeginsApart
  <2>4. Places'
    BY <1>0, <2>3 DEF Places, Apart
  <2>5. Handshake'
    BY <1>0, <2>1, <2>3, DoingsDiffer
    DEF Handshake, HDBusy, FSAwaits, FSServes, TTYAwaits, Apart
  <2>6. TTYMessages'
    <3>1. Answer' = Answer
      BY <2>1 DEF Answer
    <3> QED  BY <1>0, <2>1, <2>3, <3>1, DoingsDiffer DEF TTYMessages, Apart
  <2>7. DiskMessages'
    BY <1>0, <2>1, <2>3, DoingsDiffer DEF DiskMessages, Apart
  <2> QED  BY <1>1, <2>1, <2>3, <2>4, <2>5, <2>6, <2>7
<1>3. CASE fs_request
  <2> DEFINE msg   == content[FS]
             index == IF msg.function = "root" THEN 2 ELSE msg.inode_index
  <2>1. /\ Ready(FS) /\ pc[FS] = "request"
        /\ fs' = [stage |-> "file", src |-> source[FS],
                  msg |-> [msg EXCEPT !.inode_index = index],
                  inode |-> InodeAt[index], i |-> 0, indexed |-> FALSE,
                  bytes |-> InodeAt[index].i_size]
        /\ jump(FS, IF msg.function \in {"root", "read"} THEN "walk" ELSE "reply")
        /\ UNCHANGED <<vars, content, tty, hd, memory, disk, irq, dropped>>
    BY <1>3 DEF fs_request
  <2>2. PICK place \in {"walk", "reply"} : jump(FS, place)
    BY <2>1
  <2>3. Apart(FS) /\ pc'[FS] = place /\ doing[FS] = run /\ doing'[FS] = run
    BY <1>0, <2>1, <2>2, BetweenApart
  <2>4. FSServes /\ TTYAwaits /\ ~FSAwaits
    BY <1>0, <2>1, <2>3, DoingsDiffer DEF Handshake, FSServes, FSAwaits
  <2>5. msg = tty /\ source[FS] = TTY /\ tty \in TTYRequests
    BY <2>1, <2>3, <2>4, DoingsDiffer DEF TTYMessages, TTYAwaits, Places
  <2>6. index \in DOMAIN InodeAt
    BY <2>5, TasksAssumption DEF TTYRequests
  <2>7. InodeAt[index].i_size \in Nat
    <3> HIDE DEF index
    <3> QED  BY <2>6, TasksAssumption
  <2>8. [msg EXCEPT !.inode_index = index] = Answer /\ Answer' = Answer
    BY <2>1, <2>5 DEF Answer, TTYRequests
  <2>9. /\ fs'.stage = "file" /\ fs'.src = TTY /\ fs'.msg = Answer
        /\ FSFields \subseteq DOMAIN fs' /\ fs'.bytes \in Nat
    <3> HIDE DEF index, msg
    <3> QED  BY <2>1, <2>5, <2>7, <2>8 DEF FSFields
  <2>10. Places'
    BY <1>0, <2>2, <2>3 DEF Places, Apart
  <2>11. Handshake'
    BY <1>0, <2>1, <2>3, <2>4, DoingsDiffer
    DEF Handshake, HDBusy, FSAwaits, TTYAwaits, Apart
  <2>12. TTYMessages'
    BY <1>0, <2>1, <2>2, <2>3, <2>8, <2>9, DoingsDiffer DEF TTYMessages, Apart
  <2>13. DiskMessages'
    BY <1>0, <2>1, <2>2, <2>3, <2>9, DoingsDiffer DEF DiskMessages, Apart
  <2> QED  BY <1>1, <2>1, <2>3, <2>10, <2>11, <2>12, <2>13
<1>4. CASE fs_walk
  <2>1. /\ Ready(FS) /\ pc[FS] = "walk"
        /\ UNCHANGED <<vars, tty, hd, memory, disk, irq, dropped>>
    BY <1>4 DEF fs_walk
  <2>2. /\ fs.stage = "file" /\ FSFields \subseteq DOMAIN fs /\ fs.bytes \in Nat
        /\ BLOCK_SIZE \in Nat \ {0}
    BY <2>1, TasksAssumption DEF DiskMessages, BLOCK_SIZE
  <2> DEFINE Asks == \E msg : content' = [content EXCEPT ![FS] = msg] /\ ForDisk(msg)
             Work == /\ fs'.stage = fs.stage /\ fs'.msg = fs.msg /\ fs'.src = fs.src
                     /\ FSFields \subseteq DOMAIN fs' /\ fs'.bytes \in Nat
  <2>3. ASSUME NEW a, NEW o, NEW b, NEW n \in Nat \ {0}, op_disk(a, o, b, n)
        PROVE  Asks /\ jump(FS, "op")
    <3> DEFINE msg == DiskRequest(a, o, 2 * b, n)
    <3>1. content' = [content EXCEPT ![FS] = msg] /\ jump(FS, "op")
      BY <2>3 DEF op_disk
    <3>2. ForDisk(msg)
      BY <2>3 DEF ForDisk, DiskRequest
    <3> HIDE DEF msg
    <3> QED  BY <3>1, <3>2
  <2> DEFINE least == smaller(fs.bytes, BLOCK_SIZE)
  <2>4. least \in Nat /\ fs.bytes - least \in Nat /\ (fs.bytes > 0 => least # 0)
    BY <2>2 DEF smaller
  <2>5. \/ Asks /\ jump(FS, "op") /\ Work
        \/ content' = content /\ jump(FS, "reply") /\ fs' = fs
    <3>1. CASE /\ op_disk("index", 0, fs.inode.i_block[NDirect + 1], BLOCK_SIZE)
               /\ fs' = [fs EXCEPT !.indexed = TRUE]
      <4>1. Work
        BY <2>2, <3>1 DEF FSFields
      <4> QED  BY <2>2, <2>3, <3>1, <4>1
    <3>2. CASE /\ fs.bytes > 0
               /\ op_disk("tty", fs.inode.i_size - fs.bytes, block(fs.i), least)
               /\ fs' = [fs EXCEPT !.i = @ + 1, !.bytes = @ - least]
      <4> HIDE DEF least
      <4>1. Work
        BY <2>2, <2>4, <3>2 DEF FSFields
      <4>2. least \in Nat \ {0}
        BY <2>4, <3>2
      <4> QED  BY <2>3, <3>2, <4>1, <4>2
    <3>3. CASE jump(FS, "reply") /\ UNCHANGED <<content, fs>>
      BY <3>3
    <3> QED  BY <1>4, <3>1, <3>2, <3>3 DEF fs_walk
  <2>6. PICK place \in {"op", "reply"} : jump(FS, place)
    BY <2>5
  <2>7. Apart(FS) /\ pc'[FS] = place /\ doing[FS] = run /\ doing'[FS] = run
    BY <1>0, <2>1, <2>5, <2>6, BetweenApart
  <2>8. Work /\ (pc'[FS] = "op" => ForDisk(content'[FS]))
    <3>1. CASE Asks /\ Work /\ jump(FS, "op")
      BY <1>0, <3>1 DEF Places
    <3>2. CASE jump(FS, "reply") /\ fs' = fs
      <4>1. pc'[FS] = "reply"
        BY <1>0, <3>2 DEF jump, Places, Three
      <4> QED  BY <2>2, <3>2, <4>1
    <3> QED  BY <2>5, <3>1, <3>2
  <2> HIDE DEF Asks
  <2>9. Answer' = Answer /\ FSServes /\ ~FSAwaits
    BY <1>0, <2>1, <2>2, <2>7, DoingsDiffer DEF Answer, FSServes, FSAwaits
  <2>10. Places'
    BY <1>0, <2>6, <2>7 DEF Places, Apart
  <2>11. Handshake'
    BY <1>0, <2>1, <2>7, <2>9, DoingsDiffer
    DEF Handshake, HDBusy, FSAwaits, TTYAwaits, Apart
  <2>12. TTYMessages'
    BY <1>0, <2>1, <2>2, <2>6, <2>7, <2>8, <2>9, DoingsDiffer DEF TTYMessages, Apart
  <2>13. DiskMessages'
    BY <1>0, <2>1, <2>2, <2>6, <2>7, <2>8, DoingsDiffer DEF DiskMessages, Apart
  <2> QED  BY <1>1, <2>1, <2>7, <2>10, <2>11, <2>12, <2>13
<1>5. CASE fs_op_send
  <2>1. /\ send_enter(FS, HD) /\ pc[FS] = "op" /\ jump(FS, "op_sent")
        /\ UNCHANGED <<content, tty, fs, hd, memory, disk, irq, dropped>>
    BY <1>5 DEF fs_op_send
  <2>2. Begins(FS, Sending(HD))
    BY <1>0, <2>1, SendBegins DEF RendezvousInv
  <2>3. Apart(FS) /\ pc'[FS] = "op_sent" /\ doing[FS] = run /\ doing'[FS] = Sending(HD)
    BY <1>0, <2>1, <2>2, BeginsApart
  <2>4. Answer' = Answer /\ ~FSAwaits
    BY <2>1, <2>3, DoingsDiffer DEF Answer, FSAwaits
  <2>5. Places'
    BY <1>0, <2>3 DEF Places, Apart
  <2>6. Handshake'
    BY <1>0, <2>1, <2>3, <2>4, DoingsDiffer
    DEF Handshake, HDBusy, FSAwaits, FSServes, TTYAwaits, Apart
  <2>7. TTYMessages'
    BY <1>0, <2>1, <2>3, <2>4, DoingsDiffer DEF TTYMessages, Apart
  <2>8. DiskMessages'
    BY <1>0, <2>1, <2>3, DoingsDiffer DEF DiskMessages, Apart
  <2> QED  BY <1>1, <2>1, <2>3, <2>5, <2>6, <2>7, <2>8
<1>6. CASE fs_op_receive
  <2>1. /\ receive_enter(FS, HD) /\ pc[FS] = "op_sent"
        /\ jump(FS, IF fs.stage = "init" THEN "receive" ELSE "walk")
        /\ UNCHANGED <<content, tty, fs, hd, memory, disk, irq, dropped>>
    BY <1>6 DEF fs_op_receive
  <2>2. PICK place : /\ jump(FS, place)
                     /\ place = IF fs.stage = "init" THEN "receive" ELSE "walk"
    BY <2>1
  <2>3. Begins(FS, Receiving(HD))
    BY <1>0, <2>1, ReceiveBegins DEF RendezvousInv
  <2>4. Apart(FS) /\ pc'[FS] = place /\ doing[FS] = run /\ doing'[FS] = Receiving(HD)
    BY <1>0, <2>1, <2>2, <2>3, BeginsApart
  <2>5. /\ Answer' = Answer /\ fs.stage \in {"init", "file"}
        /\ place \in {"receive", "walk"} /\ (place = "walk" <=> fs.stage = "file")
    BY <2>1, <2>2 DEF Answer, DiskMessages
  <2>6. Places'
    BY <1>0, <2>2, <2>4 DEF Places, Apart
  <2>7. Handshake'
    <3>1. FSAwaits' /\ (TTYAwaits => TTYAwaits')
      BY <1>0, <2>4 DEF FSAwaits, TTYAwaits, Apart
    <3>2. FSServes' => FSServes
      BY <1>0, <2>1, <2>4, <2>5, DoingsDiffer DEF FSServes
    <3> QED  BY <3>1, <3>2 DEF Handshake
  <2>8. TTYMessages'
    <3>1. fs.stage = "file" => fs.msg = Answer /\ fs.src = TTY
      BY <2>1 DEF TTYMessages
    <3>2. UNCHANGED <<tty, fs>>
      BY <2>1
    <3>3. /\ pc'[FS] # "request" /\ doing'[FS] # Sending(TTY)
          /\ pc'[FS] # "receive" => fs.stage = "file"
      BY <2>4, <2>5, DoingsDiffer
    <3>4. /\ pc'[TTY] = pc[TTY] /\ doing'[TTY] = doing[TTY]
          /\ content'[TTY] = content[TTY] /\ source'[TTY] = source[TTY]
      BY <1>0, <2>4 DEF Apart
    <3> QED  BY <2>5, <3>1, <3>2, <3>3, <3>4 DEF TTYMessages
  <2>9. DiskMessages'
    BY <1>0, <2>1, <2>2, <2>4, <2>5, DoingsDiffer DEF DiskMessages, Apart
  <2> QED  BY <1>1, <2>1, <2>4, <2>6, <2>7, <2>8, <2>9
<1>7. CASE fs_reply
  <2>1. /\ send_enter(FS, fs.src) /\ pc[FS] = "reply" /\ jump(FS, "receive")
        /\ content' = [content EXCEPT ![FS] = fs.msg]
        /\ UNCHANGED <<tty, fs, hd, memory, disk, irq, dropped>>
    BY <1>7 DEF fs_reply
  <2>2. fs.stage = "file" /\ fs.src = TTY /\ fs.msg = Answer /\ FSServes /\ ~FSAwaits
    BY <2>1, DoingsDiffer DEF DiskMessages, TTYMessages, FSServes, FSAwaits, Places
  <2>3. Begins(FS, Sending(TTY))
    BY <1>0, <2>1, <2>2, SendBegins DEF RendezvousInv
  <2>4. Apart(FS) /\ pc'[FS] = "receive" /\ doing[FS] = run /\ doing'[FS] = Sending(TTY)
    BY <1>0, <2>1, <2>3, BeginsApart
  <2>5. content'[FS] = Answer /\ Answer' = Answer
    BY <1>0, <2>1, <2>2 DEF Answer, Places
  <2>6. Places'
    BY <1>0, <2>4 DEF Places, Apart
  <2>7. Handshake'
    BY <1>0, <2>1, <2>2, <2>4, DoingsDiffer
    DEF Handshake, HDBusy, FSAwaits, TTYAwaits, Apart
  <2>8. TTYMessages'
    BY <1>0, <2>1, <2>4, <2>5, DoingsDiffer DEF TTYMessages, Apart
  <2>9. DiskMessages'
    BY <1>0, <2>1, <2>2, <2>4, DoingsDiffer DEF DiskMessages, Apart
  <2> QED  BY <1>1, <2>1, <2>4, <2>6, <2>7, <2>8, <2>9
<1> QED  BY <1>2, <1>3, <1>4, <1>5, <1>6, <1>7 DEF task_fs
-----------------------------------------------------------------------------
(* The steps of task_hd                                                    *)

LEMMA HDSteps ==
    ASSUME RunInv, task_hd
    PROVE  Undisturbed' /\ StepInv'
<1> USE DEF RunInv, StepInv
<1>0. /\ TTY \in Proc /\ FS \in Proc /\ HD \in Proc
      /\ TTY # FS /\ HD # TTY /\ HD # FS /\ HD \in Three /\ Three = {TTY, FS, HD}
      /\ MaxBatch \in Nat \ {0} /\ SECTOR_SIZE \in Nat \ {0}
  BY TaskPids, TasksAssumption DEF Three
\* the terminal is none of its business
<1>1. ASSUME Apart(HD), UNCHANGED <<tty, fs, dropped>>
      PROVE  /\ Undisturbed' /\ TTYMessages'
             /\ (FSServes' => TTYAwaits') /\ FSAwaits' = FSAwaits
             /\ fs' = fs /\ pc'[FS] = pc[FS] /\ doing'[FS] = doing[FS]
             /\ content'[FS] = content[FS]
  <2>1. Answer' = Answer
    BY <1>1 DEF Answer
  <2>2. /\ pc'[FS] = pc[FS] /\ doing'[FS] = doing[FS]
        /\ content'[FS] = content[FS] /\ source'[FS] = source[FS]
        /\ pc'[TTY] = pc[TTY] /\ doing'[TTY] = doing[TTY]
        /\ content'[TTY] = content[TTY] /\ source'[TTY] = source[TTY]
    BY <1>0, <1>1 DEF Apart
  <2>3. TTYMessages'
    BY <1>1, <2>1, <2>2 DEF TTYMessages
  <2>4. (FSServes' => TTYAwaits') /\ FSAwaits' = FSAwaits
    BY <1>1, <2>2 DEF Handshake, FSServes, TTYAwaits, FSAwaits
  <2> QED  BY <1>1, <2>2, <2>3, <2>4 DEF Apart
<1>2. CASE hd_receive
  <2>1. /\ receive_enter(HD, ANY) /\ pc[HD] = "receive" /\ jump(HD, "request")
        /\ UNCHANGED <<content, tty, fs, hd, memory, disk, irq, dropped>>
    BY <1>2 DEF hd_receive
  <2>2. Begins(HD, Receiving(ANY))
    BY <1>0, <2>1, ReceiveBegins DEF RendezvousInv
  <2>3. Apart(HD) /\ pc'[HD] = "request" /\ doing[HD] = run /\ doing'[HD] = Receiving(ANY)
    BY <1>0, <2>1, <2>2, BeginsApart
  <2>4. Places'
    BY <1>0, <2>3 DEF Places, Apart
  <2>5. Handshake'
    BY <1>1, <2>1, <2>3, DoingsDiffer DEF Handshake, HDBusy
  <2>6. Signals' /\ Sectors'
    BY <1>0, <2>1, <2>3 DEF Signals, Sectors, Told, Apart
  <2>7. DiskMessages'
    BY <1>1, <2>1, <2>3, DoingsDiffer DEF DiskMessages
  <2> QED  BY <1>1, <2>1, <2>3, <2>4, <2>5, <2>6, <2>7
<1>3. CASE hd_request
  <2>1. /\ Ready(HD) /\ pc[HD] = "request" /\ jump(HD, "command")
        /\ hd' = [stage |-> "read", src |-> source[HD], msg |-> content[HD],
                  sum |-> sectors(content[HD].bytes_count),
                  bytes |-> content[HD].bytes_count, la |-> 0, epoch |-> 0]
        /\ UNCHANGED <<vars, content, tty, fs, memory, disk, irq, dropped>>
    BY <1>3 DEF hd_request
  <2>2. Apart(HD) /\ pc'[HD] = "command" /\ doing[HD] = run /\ doing'[HD] = run
    BY <1>0, <2>1, BetweenApart
  <2>3. content[HD].bytes_count \in Nat \ {0} /\ source[HD] = FS
    BY <2>1, <2>2 DEF DiskMessages, ForDisk
  <2>4. /\ hd'.src = FS /\ hd'.bytes = content[HD].bytes_count
        /\ hd'.sum = SectorsOf(hd'.bytes) /\ HDFields \subseteq DOMAIN hd'
    BY <2>1, <2>3 DEF SectorsOf, HDFields
  <2>5. hd'.sum \in Nat
    BY <2>3, <2>4, SectorFacts
  <2>6. Places'
    BY <1>0, <2>2 DEF Places, Apart
  <2>7. Handshake'
    BY <1>1, <2>1, <2>2 DEF Handshake, HDBusy
  <2>8. Signals'
    BY <1>0, <2>1, <2>2 DEF Signals, Told, Apart
  <2>9. Sectors'
    <3>1. disk' = disk /\ disk.left = 0
      BY <2>1 DEF Sectors
    <3>2. hd'.sum + 0 = hd'.sum /\ hd'.bytes \in Int
      BY <2>3, <2>4, <2>5
    <3>3. SectorsOf(hd.bytes)' = SectorsOf(hd'.bytes)
      BY DEF SectorsOf, sectors
    <3> QED  BY <2>2, <2>3, <2>4, <2>5, <3>1, <3>2, <3>3 DEF Sectors
  <2>10. DiskMessages'
    BY <1>1, <2>1, <2>2, <2>4 DEF DiskMessages
  <2> QED  BY <1>1, <2>1, <2>2, <2>6, <2>7, <2>8, <2>9, <2>10
<1>4. CASE hd_command
  <2> DEFINE count == batch(hd.sum)
  <2>1. /\ Ready(HD) /\ pc[HD] = "command"
        /\ UNCHANGED <<vars, content, tty, fs, memory, irq, dropped>>
        /\ \/ /\ hd.sum > 0
              /\ disk' = [sector |-> hd.msg.sector_head, left |-> count, drq |-> FALSE]
              /\ hd' = [hd EXCEPT !.sum = @ - count, !.la = 0, !.epoch = 0]
              /\ jump(HD, "loop")
           \/ jump(HD, "reply") /\ UNCHANGED <<disk, hd>>
    BY <1>4 DEF hd_command
  <2>2. PICK place \in {"loop", "reply"} : jump(HD, place)
    BY <2>1
  <2>3. Apart(HD) /\ pc'[HD] = place /\ doing[HD] = run /\ doing'[HD] = run
    BY <1>0, <2>1, <2>2, BetweenApart
  <2>4. /\ HDFields \subseteq DOMAIN hd /\ hd.sum \in Nat /\ hd.bytes \in Int
        /\ disk.left = 0 /\ hd.sum = SectorsOf(hd.bytes) /\ hd.src = FS /\ ~disk.drq
        /\ {"sector", "left", "drq"} \subseteq DOMAIN disk
    <3>1. disk.left = 0 /\ hd.sum + disk.left = SectorsOf(hd.bytes) /\ hd.sum \in Nat
      BY <2>1 DEF Sectors
    <3>2. hd.sum + 0 = hd.sum
      BY <3>1
    <3> QED  BY <2>1, <3>1, <3>2 DEF Sectors, Signals, DiskMessages
  <2>5. count \in Nat /\ count <= MaxBatch /\ hd.sum - count \in Nat
    BY <1>0, <2>4 DEF batch, smaller
  <2>6. /\ hd'.src = FS /\ ~disk'.drq /\ HDFields \subseteq DOMAIN hd'
        /\ {"sector", "left", "drq"} \subseteq DOMAIN disk'
        /\ place = "loop" => /\ hd'.sum = hd.sum - count /\ hd'.bytes = hd.bytes
                             /\ hd'.epoch = 0 /\ disk'.left = count
        /\ place = "reply" => disk'.left = 0
    <3>1. CASE /\ disk' = [sector |-> hd.msg.sector_head, left |-> count, drq |-> FALSE]
               /\ hd' = [hd EXCEPT !.sum = @ - count, !.la = 0, !.epoch = 0]
               /\ jump(HD, "loop")
      <4>1. pc'[HD] = "loop"
        BY <1>0, <3>1 DEF jump, Places
      <4> HIDE DEF count
      <4> QED  BY <2>3, <2>4, <3>1, <4>1 DEF HDFields
    <3>2. CASE jump(HD, "reply") /\ UNCHANGED <<disk, hd>>
      <4>1. pc'[HD] = "reply"
        BY <1>0, <3>2 DEF jump, Places
      <4> QED  BY <2>3, <2>4, <3>2, <4>1
    <3> QED  BY <2>1, <3>1, <3>2
  <2> HIDE DEF count
  <2>7. Places'
    BY <1>0, <2>3 DEF Places, Apart
  <2>8. Handshake'
    BY <1>1, <2>1, <2>3 DEF Handshake, HDBusy
  <2>9. Signals'
    <3>1. ~irq /\ ~has_int_msg[HD]
      BY <2>4 DEF Signals
    <3>2. has_int_msg' = has_int_msg /\ ~irq'
      BY <2>1, <2>3, <3>1 DEF Apart
    <3> QED  BY <2>3, <2>6, <3>1, <3>2 DEF Signals, Told
  <2>10. Sectors'
    <3>1. SectorsOf(hd.bytes)' = SectorsOf(hd'.bytes)
      BY DEF SectorsOf, sectors
    <3>2. place = "loop" => /\ hd'.sum \in Nat /\ disk'.left \in Nat
                            /\ hd'.sum + disk'.left = SectorsOf(hd'.bytes)
                            /\ hd'.epoch + disk'.left <= MaxBatch
      BY <1>0, <2>4, <2>5, <2>6
    <3> QED  BY <2>3, <2>4, <2>6, <3>1, <3>2 DEF Sectors
  <2>11. DiskMessages'
    BY <1>1, <2>1, <2>3, <2>6 DEF DiskMessages
  <2> QED  BY <1>1, <2>1, <2>3, <2>7, <2>8, <2>9, <2>10, <2>11
<1>5. CASE hd_wait
  <2>1. /\ pc[HD] = "loop" /\ hd.bytes > 0 /\ receive_enter(HD, INTERRUPT)
        /\ hd' = [hd EXCEPT !.epoch = @ + 1] /\ jump(HD, "data")
        /\ UNCHANGED <<content, tty, fs, memory, disk, irq, dropped>>
    BY <1>5 DEF hd_wait, wanted
  <2>2. Begins(HD, Receiving(INTERRUPT))
    BY <1>0, <2>1, ReceiveBegins DEF RendezvousInv
  <2>3. /\ Apart(HD) /\ pc'[HD] = "data" /\ doing[HD] = run
        /\ doing'[HD] = Receiving(INTERRUPT)
    BY <1>0, <2>1, <2>2, BeginsApart
  <2>4. /\ HDFields \subseteq DOMAIN hd' /\ hd'.sum = hd.sum /\ hd'.bytes = hd.bytes
        /\ hd'.epoch = hd.epoch + 1 /\ hd'.src = FS
    BY <2>1 DEF Sectors, HDFields, DiskMessages
  <2>5. Places'
    BY <1>0, <2>3 DEF Places, Apart
  <2>6. Handshake'
    BY <1>1, <2>1, <2>3 DEF Handshake, HDBusy
  <2>7. Signals'
    BY <2>1, <2>3, DoingsDiffer DEF Signals, Told, Apart
  <2>8. Sectors'
    <3>1. SectorsOf(hd.bytes)' = SectorsOf(hd.bytes)
      BY <2>4 DEF SectorsOf, sectors
    <3> QED  BY <1>0, <2>1, <2>3, <2>4, <3>1 DEF Sectors
  <2>9. DiskMessages'
    BY <1>1, <2>1, <2>3, <2>4 DEF DiskMessages
  <2> QED  BY <1>1, <2>1, <2>3, <2>5, <2>6, <2>7, <2>8, <2>9
<1>6. CASE hd_next_command
  <2>1. /\ Ready(HD) /\ pc[HD] = "loop" /\ ~(hd.bytes > 0 /\ hd.epoch < MaxBatch)
        /\ jump(HD, "command")
        /\ UNCHANGED <<vars, content, tty, fs, hd, memory, disk, irq, dropped>>
    BY <1>6 DEF hd_next_command, wanted
  <2>2. Apart(HD) /\ pc'[HD] = "command" /\ doing[HD] = run /\ doing'[HD] = run
    BY <1>0, <2>1, BetweenApart
  <2>3. disk.left = 0
    <3>1. /\ disk.left \in Nat /\ hd.sum \in Nat /\ hd.bytes \in Int /\ hd.epoch \in Nat
          /\ hd.sum + disk.left = SectorsOf(hd.bytes) /\ hd.epoch + disk.left <= MaxBatch
      BY <2>1 DEF Sectors
    <3>2. CASE ~(hd.bytes > 0)
      <4>1. SectorsOf(hd.bytes) = 0
        BY <3>2 DEF SectorsOf
      <4> QED  BY <3>1, <4>1
    <3>3. CASE ~(hd.epoch < MaxBatch)
      BY <1>0, <3>1, <3>3
    <3> QED  BY <2>1, <3>2, <3>3
  <2>4. Places'
    BY <1>0, <2>2 DEF Places, Apart
  <2>5. Handshake'
    BY <1>1, <2>1, <2>2 DEF Handshake, HDBusy
  <2>6. Signals'
    BY <2>1, <2>2 DEF Signals, Told, Apart
  <2>7. Sectors'
    <3>1. SectorsOf(hd.bytes)' = SectorsOf(hd.bytes)
      BY <2>1 DEF SectorsOf, sectors
    <3> QED  BY <2>1, <2>2, <2>3, <3>1 DEF Sectors
  <2>8. DiskMessages'
    BY <1>1, <2>1, <2>2 DEF DiskMessages
  <2> QED  BY <1>1, <2>1, <2>2, <2>4, <2>5, <2>6, <2>7, <2>8
<1>7. CASE hd_data
  <2>1. /\ Ready(HD) /\ pc[HD] = "data" /\ jump(HD, "loop")
        /\ disk' = IF disk.drq THEN [sector |-> disk.sector + 1,
                                     left |-> disk.left - 1, drq |-> FALSE]
                               ELSE disk
        /\ hd' = [hd EXCEPT !.bytes = @ - SECTOR_SIZE, !.la = @ + SECTOR_SIZE]
        /\ UNCHANGED <<vars, content, tty, fs, irq, dropped>>
    BY <1>7 DEF hd_data
  <2>2. Apart(HD) /\ pc'[HD] = "loop" /\ doing[HD] = run /\ doing'[HD] = run
    BY <1>0, <2>1, BetweenApart
  <2>3. disk.drq /\ ~irq /\ ~has_int_msg[HD] /\ disk.left > 0
    BY <2>1, <2>2 DEF Signals, Told
  <2>4. disk'.left = disk.left - 1 /\ ~disk'.drq
        /\ {"sector", "left", "drq"} \subseteq DOMAIN disk'
    BY <2>1, <2>3
  <2>5. /\ HDFields \subseteq DOMAIN hd' /\ hd'.sum = hd.sum
        /\ hd'.bytes = hd.bytes - SECTOR_SIZE /\ hd'.epoch = hd.epoch /\ hd'.src = FS
    BY <2>1 DEF Sectors, HDFields, DiskMessages
  <2>6. Places'
    BY <1>0, <2>2 DEF Places, Apart
  <2>7. Handshake'
    BY <1>1, <2>1, <2>2 DEF Handshake, HDBusy
  <2>8. Signals'
    BY <2>1, <2>2, <2>3, <2>4 DEF Signals, Told, Apart
  <2>9. Sectors'
    <3>1. SectorsOf(hd.bytes)' = SectorsOf(hd.bytes - SECTOR_SIZE)
      BY <2>5 DEF SectorsOf, sectors
    <3>2. /\ disk.left \in Nat /\ hd.sum \in Nat /\ hd.bytes \in Int /\ hd.epoch \in Nat
          /\ hd.sum + disk.left = SectorsOf(hd.bytes)
          /\ hd.epoch + disk.left <= MaxBatch + 1 /\ hd.bytes > 0
      BY <2>1 DEF Sectors
    <3>3. SectorsOf(hd.bytes - SECTOR_SIZE) = SectorsOf(hd.bytes) - 1
      BY <3>2, SectorFacts
    <3>4. /\ disk'.left \in Nat /\ hd'.bytes \in Int
          /\ hd'.sum + disk'.left = SectorsOf(hd.bytes)'
          /\ hd'.epoch + disk'.left <= MaxBatch
      BY <1>0, <2>3, <2>4, <2>5, <3>1, <3>2, <3>3
    <3> QED  BY <2>2, <2>4, <2>5, <3>2, <3>4 DEF Sectors
  <2>10. DiskMessages'
    BY <1>1, <2>1, <2>2, <2>5 DEF DiskMessages
  <2> QED  BY <1>1, <2>1, <2>2, <2>6, <2>7, <2>8, <2>9, <2>10
<1>8. CASE hd_reply
  <2>1. /\ send_enter(HD, hd.src) /\ pc[HD] = "reply" /\ jump(HD, "receive")
        /\ content' = [content EXCEPT ![HD] = hd.msg]
        /\ UNCHANGED <<tty, fs, hd, memory, disk, irq, dropped>>
    BY <1>8 DEF hd_reply
  <2>2. hd.src = FS
    BY <2>1 DEF DiskMessages
  <2>3. Begins(HD, Sending(FS))
    BY <1>0, <2>1, <2>2, SendBegins DEF RendezvousInv
  <2>4. Apart(HD) /\ pc'[HD] = "receive" /\ doing[HD] = run /\ doing'[HD] = Sending(FS)
    BY <1>0, <2>1, <2>3, BeginsApart
  <2>5. Places'
    BY <1>0, <2>4 DEF Places, Apart
  <2>6. Handshake'
    BY <1>1, <2>1, <2>4 DEF Handshake, HDBusy
  <2>7. Signals' /\ Sectors'
    BY <2>1, <2>4 DEF Signals, Sectors, Told, Apart
  <2>8. DiskMessages'
    BY <1>1, <2>1, <2>4 DEF DiskMessages
  <2> QED  BY <1>1, <2>1, <2>4, <2>5, <2>6, <2>7, <2>8
<1> QED  BY <1>2, <1>3, <1>4, <1>5, <1>6, <1>7, <1>8 DEF task_hd
-----------------------------------------------------------------------------
(* The steps of a call, of the disk and of its interrupt                   *)

\* who can pass a message to whom, and where the two are
Requesting == pc[TTY] = "sent" /\ doing[TTY] = Sending(FS)
              /\ pc[FS] = "request" /\ doing[FS] = Receiving(ANY)

Answering == pc[FS] = "receive" /\ doing[FS] = Sending(TTY)
             /\ pc[TTY] = "answer" /\ doing[TTY] = Receiving(FS)

Asking == pc[FS] = "op_sent" /\ doing[FS] = Sending(HD)
          /\ pc[HD] = "request" /\ doing[HD] = Receiving(ANY)

Reporting == pc[HD] = "receive" /\ doing[HD] = Sending(FS)
             /\ pc[FS] \in {"receive", "walk"} /\ doing[FS] = Receiving(HD)

LEMMA Meetings ==
    ASSUME RunInv, NEW p \in Proc, NEW d \in Proc, Passes(p, d)
    PROVE  \/ p = TTY /\ d = FS /\ Requesting
           \/ p = FS /\ d = TTY /\ Answering
           \/ p = FS /\ d = HD /\ Asking
           \/ p = HD /\ d = FS /\ Reporting
<1> USE DEF RunInv, StepInv
<1>0. /\ TTY \in Proc /\ FS \in Proc /\ HD \in Proc
      /\ TTY # FS /\ HD # TTY /\ HD # FS /\ Three = {TTY, FS, HD}
      /\ ANY \notin Proc /\ INTERRUPT \notin Proc /\ ANY # INTERRUPT
  BY TaskPids, NotPids DEF Three
<1>1. /\ doing[p] = Sending(d) /\ doing[d] \in {Receiving(p), Receiving(ANY)}
      /\ p # d
  BY DEF Passes
<1>2. p \in Three /\ d \in Three
  BY <1>1, DoingsDiffer DEF Places
<1>3. \/ p = TTY /\ d = FS
      \/ p = FS /\ d = TTY
      \/ p = FS /\ d = HD
      \/ p = HD /\ d = FS
  BY <1>0, <1>1, <1>2, DoingsDiffer DEF Places
<1>4. CASE p = TTY /\ d = FS
  BY <1>0, <1>1, <1>4, DoingsDiffer DEF Places, Requesting
<1>5. CASE p = FS /\ d = TTY
  BY <1>0, <1>1, <1>5, DoingsDiffer DEF Places, Answering
<1>6. CASE p = FS /\ d = HD
  BY <1>0, <1>1, <1>6, DoingsDiffer DEF Places, Asking
<1>7. CASE p = HD /\ d = FS
  BY <1>0, <1>1, <1>7, DoingsDiffer DEF Places, Handshake, HDBusy, FSAwaits, Reporting
<1> QED  BY <1>3, <1>4, <1>5, <1>6, <1>7

\* an interrupt that was kept for task_hd is of the sector it waits for
LEMMA KeptForSector ==
    ASSUME RunInv, Tells
    PROVE  disk.drq /\ disk.left > 0 /\ ~irq /\ pc[HD] = "data"
<1> USE DEF RunInv, StepInv
<1>1. disk.drq /\ disk.left > 0 /\ ~irq
  BY DEF Tells, Signals
<1>2. pc[HD] \notin {"receive", "request", "command", "reply"}
  BY <1>1 DEF Sectors
<1>3. \A q : doing[HD] \notin {run, Sending(q)}
  BY DoingsDiffer DEF Tells
<1> QED  BY <1>1, <1>2, <1>3 DEF Places

LEMMA CallSteps ==
    ASSUME RunInv, in_call
    PROVE  Undisturbed' /\ StepInv'
<1> USE DEF RunInv, StepInv
<1>0. /\ TTY \in Proc /\ FS \in Proc /\ HD \in Proc
      /\ TTY # FS /\ HD # TTY /\ HD # FS /\ Three = {TTY, FS, HD}
      /\ ANY \notin Proc /\ INTERRUPT \notin Proc /\ ANY # INTERRUPT
  BY TaskPids, NotPids DEF Three
<1>1. /\ UNCHANGED <<pc, tty, fs, hd, memory, disk, irq>>
      /\ DOMAIN content' = Proc /\ DOMAIN content = Proc
      /\ Answer' = Answer /\ Undisturbed'
  <2>1. DOMAIN content = Proc
    BY DEF Places
  <2>2. UNCHANGED <<pc, tty, fs, hd, memory, disk, irq>> /\ DOMAIN content' = Proc
    BY DEF in_call
  <2>3. Answer' = Answer
    BY <2>2 DEF Answer
  <2> QED  BY <2>1, <2>2, <2>3, IPCSteps
<1>2. ASSUME NEW S \in SUBSET Three, Same(S)
      PROVE  /\ \A r \in Three \ S : doing'[r] = doing[r] /\ Keeps(r)
             /\ \A r \in Proc \ Three : doing'[r] = doing[r]
  BY <1>0, <1>2 DEF Same, Keeps
<1>3. CASE Nothing
  <2>1. /\ doing'[TTY] = doing[TTY] /\ doing'[FS] = doing[FS] /\ doing'[HD] = doing[HD]
        /\ Keeps(TTY) /\ Keeps(FS) /\ Keeps(HD)
        /\ \A r \in Proc \ Three : doing'[r] = doing[r]
        /\ UNCHANGED has_int_msg
    BY <1>0, <1>2, <1>3 DEF Nothing
  <2>2. Places' /\ Handshake'
    BY <1>1, <2>1 DEF Places, Handshake, HDBusy, FSServes, FSAwaits, TTYAwaits
  <2>3. Signals' /\ Sectors'
    BY <1>1, <2>1 DEF Signals, Sectors, Told
  <2>4. TTYMessages' /\ DiskMessages'
    BY <1>1, <2>1 DEF TTYMessages, DiskMessages, Keeps
  <2> QED  BY <1>1, <2>2, <2>3, <2>4
<1>4. ASSUME NEW p \in Proc, Drops(p) PROVE Undisturbed' /\ StepInv'
  <2>1. PICK d \in Proc : doing[p] = Sending(d)
    BY <1>4 DEF Drops
  <2>2. p \in Three
    BY <2>1, DoingsDiffer DEF Places
  <2>3. /\ doing'[p] = run /\ UNCHANGED has_int_msg
        /\ Keeps(TTY) /\ Keeps(FS) /\ Keeps(HD)
        /\ \A r \in Three \ {p} : doing'[r] = doing[r]
        /\ \A r \in Proc \ Three : doing'[r] = doing[r]
    BY <1>0, <1>2, <1>4, <2>2 DEF Drops
  <2>4. CASE p = TTY
    <3>1. /\ pc[TTY] = "sent" /\ doing'[TTY] = run
          /\ doing'[FS] = doing[FS] /\ doing'[HD] = doing[HD]
      BY <1>0, <2>1, <2>3, <2>4, DoingsDiffer DEF Places
    <3>2. Places'
      BY <1>1, <2>3, <3>1 DEF Places
    <3>3. Handshake'
      BY <1>1, <3>1 DEF Handshake, HDBusy, FSServes, FSAwaits, TTYAwaits
    <3>4. Signals' /\ Sectors'
      BY <1>1, <2>3, <3>1 DEF Signals, Sectors, Told
    <3>5. TTYMessages' /\ DiskMessages'
      BY <1>1, <2>3, <3>1, DoingsDiffer DEF TTYMessages, DiskMessages, Keeps
    <3> QED  BY <1>1, <3>2, <3>3, <3>4, <3>5
  <2>5. CASE p = FS
    <3>1. /\ \/ pc[FS] = "receive" /\ doing[FS] = Sending(TTY)
             \/ pc[FS] = "op_sent" /\ doing[FS] = Sending(HD)
          /\ doing'[FS] = run
          /\ doing'[TTY] = doing[TTY] /\ doing'[HD] = doing[HD]
      BY <1>0, <2>1, <2>3, <2>5, DoingsDiffer DEF Places
    <3>2. Places'
      BY <1>1, <2>3, <3>1 DEF Places
    <3>3. Handshake'
      BY <1>1, <3>1, DoingsDiffer DEF Handshake, HDBusy, FSServes, FSAwaits, TTYAwaits
    <3>4. Signals' /\ Sectors'
      BY <1>1, <2>3, <3>1 DEF Signals, Sectors, Told
    <3>5. TTYMessages' /\ DiskMessages'
      BY <1>1, <2>3, <3>1, DoingsDiffer DEF TTYMessages, DiskMessages, Keeps
    <3> QED  BY <1>1, <3>2, <3>3, <3>4, <3>5
  <2>6. CASE p = HD
    <3>1. /\ pc[HD] = "receive" /\ doing'[HD] = run
          /\ doing'[TTY] = doing[TTY] /\ doing'[FS] = doing[FS]
      BY <1>0, <2>1, <2>3, <2>6, DoingsDiffer DEF Places
    <3>2. Places'
      BY <1>1, <2>3, <3>1 DEF Places
    <3>3. Handshake'
      BY <1>1, <3>1, DoingsDiffer DEF Handshake, HDBusy, FSServes, FSAwaits, TTYAwaits
    <3>4. Signals' /\ Sectors'
      BY <1>1, <2>3, <3>1 DEF Signals, Sectors, Told
    <3>5. TTYMessages' /\ DiskMessages'
      BY <1>1, <2>3, <3>1, DoingsDiffer DEF TTYMessages, DiskMessages, Keeps
    <3> QED  BY <1>1, <3>2, <3>3, <3>4, <3>5
  <2> QED  BY <1>0, <2>2, <2>4, <2>5, <2>6
<1>5. ASSUME NEW p \in Proc, NEW d \in Proc, Passes(p, d) PROVE Undisturbed' /\ StepInv'
  <2>1. \/ p = TTY /\ d = FS /\ Requesting
        \/ p = FS /\ d = TTY /\ Answering
        \/ p = FS /\ d = HD /\ Asking
        \/ p = HD /\ d = FS /\ Reporting
    BY <1>5, Meetings
  <2>2. p \in Three /\ d \in Three
    BY <1>0, <2>1
  <2>3. /\ doing'[p] = run /\ Keeps(p)
        /\ doing'[d] = run /\ content'[d] = content[p] /\ source'[d] = p
        /\ \A r \in Three \ {p, d} : doing'[r] = doing[r] /\ Keeps(r)
        /\ \A r \in Proc \ Three : doing'[r] = doing[r]
        /\ UNCHANGED has_int_msg
    BY <1>0, <1>2, <1>5, <2>2 DEF Passes
  <2>4. CASE p = TTY /\ d = FS /\ Requesting
    <3>1. /\ pc[TTY] = "sent" /\ doing[TTY] = Sending(FS)
          /\ pc[FS] = "request" /\ doing[FS] = Receiving(ANY)
      BY <2>4 DEF Requesting
    <3>2. /\ doing'[TTY] = run /\ Keeps(TTY)
          /\ doing'[FS] = run /\ content'[FS] = content[TTY] /\ source'[FS] = TTY
          /\ doing'[HD] = doing[HD] /\ Keeps(HD)
      BY <1>0, <2>3, <2>4
    <3>3. Places'
      BY <1>1, <2>3, <3>1, <3>2 DEF Places
    <3>4. Handshake'
      BY <1>0, <1>1, <3>1, <3>2, DoingsDiffer
      DEF Handshake, HDBusy, FSServes, FSAwaits, TTYAwaits
    <3>5. Signals' /\ Sectors'
      BY <1>1, <2>3, <3>1, <3>2 DEF Signals, Sectors, Told
    <3>6. TTYMessages'
      BY <1>1, <3>1, <3>2, DoingsDiffer DEF TTYMessages
    <3>7. DiskMessages'
      BY <1>1, <3>1, <3>2, DoingsDiffer DEF DiskMessages, Keeps
    <3> QED  BY <1>1, <3>3, <3>4, <3>5, <3>6, <3>7
  <2>5. CASE p = FS /\ d = TTY /\ Answering
    <3>1. /\ pc[FS] = "receive" /\ doing[FS] = Sending(TTY)
          /\ pc[TTY] = "answer" /\ doing[TTY] = Receiving(FS)
      BY <2>5 DEF Answering
    <3>2. /\ doing'[FS] = run /\ Keeps(FS)
          /\ doing'[TTY] = run /\ content'[TTY] = content[FS] /\ source'[TTY] = FS
          /\ doing'[HD] = doing[HD] /\ Keeps(HD)
      BY <1>0, <2>3, <2>5
    <3>3. Places'
      BY <1>1, <2>3, <3>1, <3>2 DEF Places
    <3>4. Handshake'
      BY <1>0, <1>1, <3>1, <3>2, DoingsDiffer
      DEF Handshake, HDBusy, FSServes, FSAwaits, TTYAwaits
    <3>5. Signals' /\ Sectors'
      BY <1>1, <2>3, <3>1, <3>2 DEF Signals, Sectors, Told
    <3>6. TTYMessages'
      BY <1>1, <3>1, <3>2, DoingsDiffer DEF TTYMessages
    <3>7. DiskMessages'
      BY <1>1, <3>1, <3>2, DoingsDiffer DEF DiskMessages, Keeps
    <3> QED  BY <1>1, <3>3, <3>4, <3>5, <3>6, <3>7
  <2>6. CASE p = FS /\ d = HD /\ Asking
    <3>1. /\ pc[FS] = "op_sent" /\ doing[FS] = Sending(HD)
          /\ pc[HD] = "request" /\ doing[HD] = Receiving(ANY)
      BY <2>6 DEF Asking
    <3>2. /\ doing'[FS] = run /\ Keeps(FS)
          /\ doing'[HD] = run /\ content'[HD] = content[FS] /\ source'[HD] = FS
          /\ doing'[TTY] = doing[TTY] /\ Keeps(TTY)
      BY <1>0, <2>3, <2>6
    <3>3. Places'
      BY <1>1, <2>3, <3>1, <3>2 DEF Places
    <3>4. Handshake'
      BY <1>0, <1>1, <3>1, <3>2, DoingsDiffer
      DEF Handshake, HDBusy, FSServes, FSAwaits, TTYAwaits
    <3>5. Signals' /\ Sectors'
      BY <1>1, <2>3, <3>1, <3>2 DEF Signals, Sectors, Told
    <3>6. TTYMessages'
      BY <1>1, <3>1, <3>2, DoingsDiffer DEF TTYMessages, Keeps
    <3>7. ForDisk(content[FS]) /\ ForDisk(content[HD])'
      BY <3>1, <3>2 DEF DiskMessages, ForDisk
    <3>8. DiskMessages'
      BY <1>1, <3>1, <3>2, <3>7, DoingsDiffer DEF DiskMessages
    <3> QED  BY <1>1, <3>3, <3>4, <3>5, <3>6, <3>8
  <2>7. CASE p = HD /\ d = FS /\ Reporting
    <3>1. /\ pc[HD] = "receive" /\ doing[HD] = Sending(FS)
          /\ pc[FS] \in {"receive", "walk"} /\ doing[FS] = Receiving(HD)
      BY <2>7 DEF Reporting
    <3>2. /\ doing'[HD] = run /\ Keeps(HD)
          /\ doing'[FS] = run
          /\ doing'[TTY] = doing[TTY] /\ Keeps(TTY)
      BY <1>0, <2>3, <2>7
    <3>3. Places'
      BY <1>1, <2>3, <3>1, <3>2 DEF Places
    <3>4. Handshake'
      BY <1>0, <1>1, <3>1, <3>2, DoingsDiffer
      DEF Handshake, HDBusy, FSServes, FSAwaits, TTYAwaits
    <3>5. Signals' /\ Sectors'
      BY <1>1, <2>3, <3>1, <3>2 DEF Signals, Sectors, Told
    <3>6. TTYMessages'
      BY <1>1, <3>1, <3>2, DoingsDiffer DEF TTYMessages, Keeps
    <3>7. DiskMessages'
      BY <1>1, <3>1, <3>2, DoingsDiffer DEF DiskMessages
    <3> QED  BY <1>1, <3>3, <3>4, <3>5, <3>6, <3>7
  <2> QED  BY <2>1, <2>4, <2>5, <2>6, <2>7
\* the interrupt that was kept for task_hd: its sector is known to it now
<1>6. CASE Tells
  <2>1. /\ doing[HD] \in {Receiving(ANY), Receiving(INTERRUPT)}
        /\ doing'[HD] = run /\ has_int_msg[HD] /\ ~has_int_msg'[HD]
    BY <1>6 DEF Tells
  <2>2. /\ doing'[TTY] = doing[TTY] /\ doing'[FS] = doing[FS]
        /\ Keeps(TTY) /\ Keeps(FS)
        /\ \A r \in Proc \ Three : doing'[r] = doing[r]
    BY <1>0, <1>2, <1>6 DEF Tells
  <2>3. disk.drq /\ disk.left > 0 /\ ~irq
    BY <1>6, KeptForSector
  <2>4. pc[HD] = "data"
    BY <1>6, KeptForSector
  <2>5. Places'
    BY <1>1, <2>1, <2>2, <2>4 DEF Places
  <2>6. Handshake'
    BY <1>1, <2>1, <2>2, <2>4, DoingsDiffer
    DEF Handshake, HDBusy, FSServes, FSAwaits, TTYAwaits
  <2>7. Signals' /\ Sectors'
    BY <1>1, <2>1, <2>3, <2>4 DEF Signals, Sectors, Told
  <2>8. TTYMessages'
    BY <1>1, <2>2 DEF TTYMessages, Keeps
  <2>9. DiskMessages'
    BY <1>1, <2>2, <2>4 DEF DiskMessages, Keeps
  <2> QED  BY <1>1, <2>5, <2>6, <2>7, <2>8, <2>9
<1> QED  BY <1>1, <1>3, <1>4, <1>5, <1>6, IPCSteps

\* nobody sends to task_hd while the disk works for it
LEMMA DiskInterrupts ==
    ASSUME RunInv, hd_interrupt
    PROVE  /\ disk.drq /\ disk.left > 0 /\ ~Told
           /\ (HandlerTells /\ pc[HD] = "data") \/ HandlerKeeps
           /\ doing'[TTY] = doing[TTY] /\ doing'[FS] = doing[FS]
           /\ source'[TTY] = source[TTY] /\ source'[FS] = source[FS]
           /\ \A r \in Proc \ Three : doing'[r] = doing[r]
           /\ Undisturbed'
<1> USE DEF RunInv, StepInv
<1>0. /\ TTY \in Proc /\ FS \in Proc /\ HD \in Proc
      /\ TTY # FS /\ HD # TTY /\ HD # FS /\ Three = {TTY, FS, HD}
  BY TaskPids DEF Three
<1>1. disk.drq /\ disk.left > 0 /\ ~Told
  BY DEF hd_interrupt, Signals
<1>2. pc[HD] \in {"loop", "data"}
  <2>1. pc[HD] \notin {"receive", "request", "command", "reply"}
    BY <1>1 DEF Sectors
  <2> QED  BY <2>1 DEF Places
<1>3. \A p \in Proc : doing[p] # Sending(HD)
  <2>1. \A p \in Proc \ Three : doing[p] # Sending(HD)
    BY DoingsDiffer DEF Places
  <2>2. doing[TTY] # Sending(HD) /\ doing[HD] # Sending(HD)
    BY <1>0, DoingsDiffer DEF Places
  <2>3. doing[FS] # Sending(HD)
    BY <1>2, DoingsDiffer DEF Places, Handshake, HDBusy, FSAwaits
  <2> QED  BY <1>0, <2>1, <2>2, <2>3
<1>4. /\ HandlerTells \/ HandlerKeeps
      /\ \A r \in Proc \ {HD} : doing'[r] = doing[r] /\ source'[r] = source[r]
      /\ Undisturbed'
  BY <1>3, HandlerStep DEF RendezvousInv, hd_interrupt
<1>5. HandlerTells => pc[HD] = "data"
  BY <1>2, DoingsDiffer DEF HandlerTells, Places
<1> QED  BY <1>0, <1>1, <1>4, <1>5

LEMMA DiskSteps ==
    ASSUME RunInv, disk_ready \/ hd_interrupt \/ UNCHANGED tasksVars
    PROVE  Undisturbed' /\ StepInv'
<1> USE DEF RunInv, StepInv
<1>0. /\ TTY \in Proc /\ FS \in Proc /\ HD \in Proc
      /\ TTY # FS /\ HD # TTY /\ HD # FS /\ Three = {TTY, FS, HD}
  BY TaskPids DEF Three
<1>1. UNCHANGED <<pc, content, tty, fs, hd>>
  BY DEF disk_ready, hd_interrupt, tasksVars, tasks
<1>2. /\ SectorsOf(hd.bytes)' = SectorsOf(hd.bytes) /\ Answer' = Answer
  BY <1>1 DEF SectorsOf, sectors, Answer
<1>3. ASSUME Between
      PROVE  /\ Undisturbed' /\ Places' /\ Handshake' /\ TTYMessages' /\ DiskMessages'
             /\ UNCHANGED has_int_msg /\ doing'[HD] = doing[HD]
  <2>1. /\ doing'[TTY] = doing[TTY] /\ doing'[FS] = doing[FS] /\ doing'[HD] = doing[HD]
        /\ source'[TTY] = source[TTY] /\ source'[FS] = source[FS]
        /\ source'[HD] = source[HD]
        /\ \A r \in Proc \ Three : doing'[r] = doing[r]
        /\ UNCHANGED has_int_msg /\ Undisturbed'
    BY <1>0, <1>3 DEF Between
  <2>2. Places' /\ Handshake'
    BY <1>1, <2>1 DEF Places, Handshake, HDBusy, FSServes, FSAwaits, TTYAwaits
  <2>3. TTYMessages'
    BY <1>1, <1>2, <2>1 DEF TTYMessages
  <2>4. DiskMessages'
    BY <1>1, <2>1 DEF DiskMessages
  <2> QED  BY <2>1, <2>2, <2>3, <2>4
<1>4. CASE disk_ready
  <2>1. /\ disk.left > 0 /\ ~disk.drq /\ irq'
        /\ disk' = [disk EXCEPT !.drq = TRUE] /\ UNCHANGED vars
    BY <1>4 DEF disk_ready
  <2>2. disk'.drq /\ disk'.left = disk.left /\ DOMAIN disk' = DOMAIN disk
    BY <2>1 DEF Sectors
  <2>3. Between
    BY <2>1, NoCallStep
  <2>4. Signals'
    BY <1>1, <1>3, <2>1, <2>2, <2>3 DEF Signals, Told
  <2>5. Sectors'
    BY <1>1, <1>2, <2>2 DEF Sectors
  <2> QED  BY <1>3, <2>3, <2>4, <2>5
<1>5. CASE hd_interrupt
  <2>1. irq /\ hd_handler /\ ~irq' /\ UNCHANGED disk
    BY <1>5 DEF hd_interrupt
  <2>2. /\ disk.drq /\ disk.left > 0 /\ ~Told
        /\ (HandlerTells /\ pc[HD] = "data") \/ HandlerKeeps
        /\ doing'[TTY] = doing[TTY] /\ doing'[FS] = doing[FS]
        /\ source'[TTY] = source[TTY] /\ source'[FS] = source[FS]
        /\ \A r \in Proc \ Three : doing'[r] = doing[r]
        /\ Undisturbed'
    BY <1>5, DiskInterrupts
  <2>3. CASE HandlerTells /\ pc[HD] = "data"
    <3>1. /\ pc[HD] = "data" /\ doing'[HD] = run /\ ~has_int_msg'[HD]
      BY <2>3 DEF HandlerTells
    <3>2. Places' /\ Handshake'
      BY <1>1, <2>2, <3>1
      DEF Places, Handshake, HDBusy, FSServes, FSAwaits, TTYAwaits
    <3>3. Signals'
      BY <1>1, <2>1, <2>2, <3>1 DEF Signals, Told
    <3>4. Sectors'
      BY <1>1, <1>2, <2>1 DEF Sectors
    <3>5. TTYMessages'
      BY <1>1, <1>2, <2>2 DEF TTYMessages
    <3>6. DiskMessages'
      BY <1>1, <2>2, <3>1 DEF DiskMessages
    <3> QED  BY <2>2, <3>2, <3>3, <3>4, <3>5, <3>6
  <2>4. CASE HandlerKeeps
    <3>1. doing'[HD] = doing[HD] /\ source'[HD] = source[HD] /\ has_int_msg'[HD]
      BY <2>4 DEF HandlerKeeps
    <3>2. Places' /\ Handshake'
      BY <1>1, <2>2, <3>1
      DEF Places, Handshake, HDBusy, FSServes, FSAwaits, TTYAwaits
    <3>3. Signals'
      BY <1>1, <2>1, <2>2, <3>1 DEF Signals, Told
    <3>4. Sectors'
      BY <1>1, <1>2, <2>1 DEF Sectors
    <3>5. TTYMessages'
      BY <1>1, <1>2, <2>2 DEF TTYMessages
    <3>6. DiskMessages'
      BY <1>1, <2>2, <3>1 DEF DiskMessages
    <3> QED  BY <2>2, <3>2, <3>3, <3>4, <3>5, <3>6
  <2> QED  BY <2>2, <2>3, <2>4
<1>6. CASE UNCHANGED tasksVars
  <2>1. UNCHANGED vars /\ UNCHANGED <<disk, irq>>
    BY <1>6 DEF tasksVars, tasks
  <2>2. Between
    BY <2>1, NoCallStep
  <2>3. Signals' /\ Sectors'
    BY <1>1, <1>2, <1>3, <2>1, <2>2 DEF Signals, Sectors, Told
  <2> QED  BY <1>3, <2>2, <2>3
<1> QED  BY <1>4, <1>5, <1>6

LEMMA RunInvariant == TasksSpec => []RunInv
<1>1. TasksInit => RunInv
  <2>1. TasksInit => Init
    BY DEF TasksInit
  <2> QED  BY <2>1, StepInvInit, WakeInit, QueueInit, MeetInit DEF RunInv, RendezvousInv
<1>2. RunInv /\ [TasksNext]_tasksVars => RunInv'
  <2> SUFFICES ASSUME RunInv, [TasksNext]_tasksVars PROVE RunInv'
    OBVIOUS
  <2>1. RendezvousInv'
    <3>1. RendezvousInv /\ WakeInv /\ TypeOK /\ [Next]_vars /\ OneNamedSource
      BY TaskStepIsIPC, TasksNameOne DEF RunInv, RendezvousInv, WakeInv
    <3>2. WakeInv'
      BY <3>1, WakeStep, NextTyped DEF WakeInv
    <3> QED  BY <3>1, <3>2, RendezvousStep DEF RendezvousInv, WakeInv
  <2>2. Undisturbed' /\ StepInv'
    BY TTYSteps, FSSteps, HDSteps, CallSteps, DiskSteps DEF TasksNext
  <2> QED  BY <2>1, <2>2 DEF RunInv
<1> QED  BY <1>1, <1>2, PTL DEF TasksSpec

(***************************************************************************)
(* hd_read takes a sector from the data port only when the disk has it     *)
(* ready, for any number of sectors and whenever the interrupts come: each *)
(* of them is counted once, and none of an earlier sector is left over.    *)
(***************************************************************************)
THEOREM ReadsWhatIsReady == TasksSpec => []DataIsReady
<1>1. RunInv => DataIsReady
  BY TaskPids, ReadyRuns DEF RunInv, StepInv, Signals, Told, DataIsReady
<1> QED  BY <1>1, RunInvariant, PTL

(***************************************************************************)
(* hd_cmd_out writes a command only when the disk has carried out the one  *)
(* before, though the loop that should wait for this does not wait.        *)
(***************************************************************************)
THEOREM CommandsFindDiskIdle == TasksSpec => []DiskIsIdle
<1>1. RunInv => DiskIsIdle
  BY DEF RunInv, StepInv, Sectors, DiskIsIdle
<1> QED  BY <1>1, RunInvariant, PTL

(***************************************************************************)
(* task_tty goes on with the answer of task_fs to the request it has made, *)
(* whatever task_fs and task_hd send each other meanwhile and whichever of *)
(* their messages send_msg drops.                                          *)
(***************************************************************************)
THEOREM AnswersAreMine == TasksSpec => []AnswerOfMyRequest
<1>1. RunInv => AnswerOfMyRequest
  BY TaskPids, ReadyRuns DEF RunInv, StepInv, TTYMessages, Answer, AnswerOfMyRequest
<1> QED  BY <1>1, RunInvariant, PTL
-----------------------------------------------------------------------------
(***************************************************************************)
(* What is read.  For as long as the tasks run, a request of task_fs that  *)
(* is not answered yet is the rest of its MESSAGE, and what task_hd works  *)
(* on is that request.                                                     *)
(***************************************************************************)
Pending == pc[FS] \in {"op", "op_sent"} \/ doing[FS] = Receiving(HD)

HDWorks == pc[HD] \in {"command", "loop", "data", "reply"}

\* the requests that task_fs makes: they fit their buffer
Requests ==
    {m \in [area : DOMAIN Memory, offset : Nat, sector_head : Nat, bytes_count : Nat \ {0}] :
        m.offset + m.bytes_count <= Memory[m.area]}

\* cell o of a buffer, and the n - 1 after it, have what starts at a sector
Holds(buffer, o, sector, n) == \A b \in 0..(n - 1) : buffer[o + b] = byte_at(sector, b)

MemoryInv ==
    /\ DOMAIN memory = DOMAIN Memory
    /\ \A m \in DOMAIN Memory : memory[m] \in [0..(Memory[m] - 1) -> Cell]
    /\ disk \in [sector : Nat, left : 0..MaxBatch, drq : BOOLEAN]
    /\ irq \in BOOLEAN /\ dropped \in BOOLEAN
    /\ hd.stage = "read" => hd.sum \in Nat

RequestInv ==
    /\ Pending => content[FS] \in Requests
    /\ pc[HD] = "request" /\ doing[HD] = run => content[HD] = content[FS]
    /\ HDWorks => hd.msg = content[FS]
    /\ doing[HD] = Sending(FS) =>
          content[HD] = content[FS] /\ Filled(content[FS], FirstBytes(content[FS]))

BatchBytes == MaxBatch * SECTOR_SIZE

\* sector by sector: hd.bytes are before hd_read, la bytes of this command
\* behind it, and those of earlier commands, each of a whole batch.  A command
\* starts at the first sector and at the start of the buffer, so it stores
\* there what the first has stored.
earlier == hd.msg.bytes_count - hd.bytes - hd.la

stored == IF earlier = 0 THEN hd.la ELSE BatchBytes

Progress ==
    /\ hd.la \in Nat /\ hd.bytes \in Int /\ earlier \in Nat
    /\ earlier = 0 \/ earlier >= BatchBytes
    /\ Filled(hd.msg, smaller(stored, hd.msg.bytes_count))
    /\ pc[HD] \in {"loop", "data"} =>
          /\ disk.sector - hd.msg.sector_head \in Nat
          /\ hd.la = (disk.sector - hd.msg.sector_head) * SECTOR_SIZE
          /\ hd.epoch = (disk.sector - hd.msg.sector_head) + (IF pc[HD] = "loop" THEN 0 ELSE 1)
    /\ pc[HD] = "command" =>
          hd.bytes <= 0 \/ hd.la >= BatchBytes \/ (hd.la = 0 /\ earlier = 0)
    /\ pc[HD] = "reply" => hd.bytes <= 0

ProgressInv == HDWorks => Progress

(***************************************************************************)
(* block by block: what fs_read_file has of its file, and the part it has  *)
(* asked for.                                                              *)
(***************************************************************************)
FSReads == pc[FS] \in {"walk", "op", "op_sent", "reply"} /\ fs.stage = "file"

bytes_done == fs.inode.i_size - fs.bytes

entries == BLOCK_SIZE \div ENTRY_SIZE

\* the first n bytes of the file are in the buffer of the terminal
FileRead(n) == \A b \in 0..(n - 1) :
    memory["tty"][b] = byte_at(2 * FileBlock(b \div BLOCK_SIZE), b % BLOCK_SIZE)

IndexRequest == DiskRequest("index", 0, 2 * fs.inode.i_block[NDirect + 1], BLOCK_SIZE)

PartRequest(i) == DiskRequest("tty", i * BLOCK_SIZE, 2 * FileBlock(i),
                              bytes_done - i * BLOCK_SIZE)

IndexRead == fs.indexed => Filled(IndexRequest, BLOCK_SIZE)

WalkInv == FSReads =>
    /\ \E n \in DOMAIN InodeAt : fs.inode = InodeAt[n]
    /\ fs.i \in Nat /\ bytes_done \in Nat
    /\ fs.bytes > 0 => bytes_done = fs.i * BLOCK_SIZE
    /\ bytes_done <= fs.i * BLOCK_SIZE
    /\ fs.indexed \in BOOLEAN /\ (fs.indexed => fs.inode.i_size > NDirect * BLOCK_SIZE)
    /\ Pending =>
          \/ content[FS] = IndexRequest /\ fs.indexed /\ FileRead(bytes_done)
          \/ /\ fs.i > 0 /\ content[FS] = PartRequest(fs.i - 1)
             /\ FileRead((fs.i - 1) * BLOCK_SIZE) /\ IndexRead
    /\ ~Pending => FileRead(bytes_done) /\ IndexRead
    /\ pc[FS] = "reply" /\ fs.msg.function \in {"root", "read"} =>
          fs.bytes = 0 \/ fs.i >= NDirect + entries

TransferInv == MemoryInv /\ RequestInv /\ ProgressInv /\ WalkInv

-----------------------------------------------------------------------------
(* Numbers                                                                 *)

LEMMA Quotients ==
    ASSUME NEW S \in Nat \ {0}, NEW e \in Nat, NEW r \in 0..(S - 1)
    PROVE  /\ (e * S) + r \in Nat
           /\ ((e * S) + r) \div S = e /\ ((e * S) + r) % S = r
  OBVIOUS

LEMMA QuotientOf ==
    ASSUME NEW S \in Nat \ {0}, NEW b \in Nat
    PROVE  /\ b \div S \in Nat /\ b % S \in 0..(S - 1)
           /\ b = ((b \div S) * S) + (b % S)
  OBVIOUS

LEMMA QuotientBelow ==
    ASSUME NEW S \in Nat \ {0}, NEW b \in Nat, NEW e \in Nat, b < e * S
    PROVE  b \div S < e
<1> DEFINE q == b \div S
<1>1. q \in Nat /\ q * S <= b
  BY QuotientOf
<1> HIDE DEF q
<1>2. ~(q >= e)
  <2> SUFFICES ASSUME q >= e PROVE FALSE
    OBVIOUS
  <2>1. q * S >= e * S
    <3>1. PICK d \in Nat : q = e + d
      <4>1. q - e \in Nat /\ q = e + (q - e)
        BY <1>1
      <4> QED  BY <4>1
    <3>2. (e + d) * S = e * S + d * S /\ d * S \in Nat /\ e * S \in Nat
      OBVIOUS
    <3> QED  BY <3>1, <3>2
  <2>2. q * S \in Nat /\ e * S \in Nat
    BY <1>1
  <2> QED  BY <1>1, <2>1, <2>2
<1> QED  BY <1>1, <1>2 DEF q

LEMMA ProductsOrdered ==
    ASSUME NEW S \in Nat \ {0}, NEW a \in Nat, NEW b \in Nat, a <= b
    PROVE  a * S \in Nat /\ b * S \in Nat /\ a * S <= b * S
<1>1. PICK d \in Nat : b = a + d
  <2>1. b - a \in Nat /\ b = a + (b - a)
    OBVIOUS
  <2> QED  BY <2>1
<1>2. (a + d) * S = a * S + d * S /\ d * S \in Nat /\ a * S \in Nat
  OBVIOUS
<1> QED  BY <1>1, <1>2

-----------------------------------------------------------------------------
(* The requests                                                            *)

LEMMA Sizes_ ==
    /\ SECTOR_SIZE \in Nat \ {0} /\ ENTRY_SIZE \in Nat \ {0}
    /\ MaxBatch \in Nat \ {0} /\ MaxBatch >= 2
    /\ BLOCK_SIZE \in Nat \ {0} /\ BLOCK_SIZE = 2 * SECTOR_SIZE
    /\ NDirect \in Nat /\ TableSector \in Nat /\ TableBytes \in Nat \ {0}
    /\ SIZE_OF_TTY_DIR \in Nat
    /\ DOMAIN Memory = {"table", "index", "tty"}
    /\ Memory["table"] = TableBytes /\ Memory["index"] = BLOCK_SIZE
    /\ Memory["tty"] = SIZE_OF_TTY_DIR
  BY TasksAssumption DEF BLOCK_SIZE, Memory

LEMMA Requested ==
    ASSUME NEW area \in DOMAIN Memory, NEW o \in Nat, NEW s \in Nat, NEW n \in Nat \ {0},
           o + n <= Memory[area]
    PROVE  DiskRequest(area, o, s, n) \in Requests
  BY DEF DiskRequest, Requests

LEMMA TableRequested == DiskRequest("table", 0, TableSector, TableBytes) \in Requests
  BY Sizes_, Requested

\* one command can read a block
LEMMA BlockFits ==
    /\ BatchBytes \in Nat /\ BLOCK_SIZE <= BatchBytes
    /\ \A m : m.bytes_count \in 0..BLOCK_SIZE => FirstBytes(m) = m.bytes_count
<1>1. BatchBytes \in Nat /\ 2 * SECTOR_SIZE <= BatchBytes
  BY Sizes_, ProductsOrdered DEF BatchBytes
<1>2. ASSUME NEW n \in 0..BLOCK_SIZE PROVE smaller(n, BatchBytes) = n
  BY <1>1, Sizes_ DEF smaller
<1> QED  BY <1>1, <1>2, Sizes_ DEF FirstBytes, BatchBytes

LEMMA IndexRequested ==
    ASSUME NEW n \in Nat
    PROVE  DiskRequest("index", 0, 2 * n, BLOCK_SIZE) \in Requests
<1> DEFINE sector == 2 * n
<1>1. sector \in Nat
  OBVIOUS
<1>2. /\ "index" \in DOMAIN Memory /\ 0 + BLOCK_SIZE <= Memory["index"]
      /\ BLOCK_SIZE \in Nat \ {0}
  BY Sizes_
<1> HIDE DEF sector
<1>3. DiskRequest("index", 0, sector, BLOCK_SIZE) \in Requests
  BY <1>1, <1>2, Requested
<1> QED  BY <1>3 DEF sector

LEMMA PartRequested ==
    ASSUME NEW o \in Nat, NEW n \in Nat, NEW k \in 1..BLOCK_SIZE,
           o + k <= SIZE_OF_TTY_DIR
    PROVE  DiskRequest("tty", o, 2 * n, k) \in Requests
  BY Sizes_, Requested

-----------------------------------------------------------------------------
(* Steps that leave what is read alone                                     *)

LEMMA DriverIdle ==
    ASSUME ~HDBusy', Pending' => content'[FS] \in Requests
    PROVE  RequestInv' /\ ProgressInv'
<1>1. ~HDWorks' /\ ~(pc'[HD] = "request" /\ doing'[HD] = run) /\ doing'[HD] # Sending(FS)
  BY DEF HDBusy, HDWorks
<1>2. Requests' = Requests
  BY DEF Requests
<1> QED  BY <1>1, <1>2 DEF RequestInv, ProgressInv

\* what is stored, when hd_read has come no further
LEMMA StoredKept ==
    ASSUME memory' = memory, hd'.msg = hd.msg, hd'.bytes = hd.bytes, hd'.la = hd.la
    PROVE  /\ earlier' = earlier
           /\ Filled(hd.msg, smaller(stored, hd.msg.bytes_count))'
              <=> Filled(hd.msg, smaller(stored, hd.msg.bytes_count))
<1>1. earlier' = earlier
  BY DEF earlier
<1>2. stored' = stored
  BY <1>1 DEF stored, BatchBytes
<1> QED  BY <1>1, <1>2 DEF Filled, smaller, byte_at

LEMMA DriverKept ==
    ASSUME RequestInv, ProgressInv, UNCHANGED <<hd, memory>>,
           disk'.sector = disk.sector,
           content'[HD] = content[HD] /\ content'[FS] = content[FS],
           Pending' => Pending, pc'[HD] = pc[HD],
           doing'[HD] = doing[HD] \/ (doing'[HD] = run /\ pc[HD] # "request")
    PROVE  RequestInv' /\ ProgressInv'
<1>1. /\ HDWorks' <=> HDWorks
      /\ pc'[HD] = "request" /\ doing'[HD] = run => pc[HD] = "request" /\ doing[HD] = run
      /\ doing'[HD] = Sending(FS) => doing[HD] = Sending(FS)
  BY DoingsDiffer DEF HDWorks
<1>3. Filled(content[FS], FirstBytes(content[FS]))' <=> Filled(content[FS], FirstBytes(content[FS]))
  BY DEF Filled, FirstBytes, smaller, byte_at
<1>4. hd' = hd /\ memory' = memory
  OBVIOUS
<1>5. RequestInv'
  <2>1. Requests' = Requests
    BY DEF Requests
  <2> QED  BY <1>1, <1>3, <2>1 DEF RequestInv
<1>6. ProgressInv'
  BY <1>1, <1>4, StoredKept DEF ProgressInv, Progress
<1> QED  BY <1>5, <1>6

LEMMA WalkSame ==
    ASSUME UNCHANGED <<fs, memory>>
    PROVE  /\ bytes_done' = bytes_done
           /\ IndexRequest' = IndexRequest
           /\ PartRequest(fs.i - 1)' = PartRequest(fs.i - 1)
           /\ IndexRead' <=> IndexRead
           /\ FileRead(bytes_done)' <=> FileRead(bytes_done)
           /\ FileRead((fs.i - 1) * BLOCK_SIZE)' <=> FileRead((fs.i - 1) * BLOCK_SIZE)
  BY DEF bytes_done, IndexRequest, PartRequest, FileBlock, IndexRead, Filled, FileRead

LEMMA WalkKept ==
    ASSUME WalkInv, UNCHANGED <<fs, memory>>, content'[FS] = content[FS],
           Pending' <=> Pending, FSReads' => FSReads,
           pc'[FS] = "reply" => pc[FS] = "reply"
    PROVE  WalkInv'
<1> SUFFICES ASSUME FSReads' PROVE WalkInv'
  BY DEF WalkInv
<1> USE WalkSame
<1>1. FSReads /\ fs' = fs
  OBVIOUS
<1> QED  BY <1>1 DEF WalkInv

LEMMA MemoryKept ==
    ASSUME MemoryInv, UNCHANGED <<hd, memory, disk, irq, dropped>>
    PROVE  MemoryInv'
  BY DEF MemoryInv, Cell

\* a step that neither of the two takes part in, or by which a call of task_hd
\* is over
LEMMA TransferKept ==
    ASSUME TransferInv, MemoryInv', UNCHANGED <<fs, hd, memory>>,
           disk'.sector = disk.sector,
           pc'[FS] = pc[FS] /\ pc'[HD] = pc[HD],
           content'[HD] = content[HD] /\ content'[FS] = content[FS],
           Pending' <=> Pending,
           doing'[HD] = doing[HD] \/ (doing'[HD] = run /\ pc[HD] # "request")
    PROVE  TransferInv'
<1>1. FSReads' <=> FSReads
  BY DEF FSReads
<1>2. WalkInv'
  <2>1. UNCHANGED <<fs, memory>> /\ WalkInv
    BY DEF TransferInv
  <2> QED  BY <1>1, <2>1, WalkKept
<1>3. RequestInv' /\ ProgressInv'
  <2>1. UNCHANGED <<hd, memory>> /\ RequestInv /\ ProgressInv
    BY DEF TransferInv
  <2> QED  BY <2>1, DriverKept
<1> QED  BY <1>2, <1>3 DEF TransferInv

LEMMA TransferInit == ASSUME TasksInit PROVE TransferInv
<1>1. /\ pc[FS] = "op" /\ pc[HD] = "receive" /\ doing[HD] = run
      /\ content[FS] = DiskRequest("table", 0, TableSector, TableBytes)
      /\ fs.stage = "init" /\ hd.stage = "init"
      /\ memory = [m \in DOMAIN Memory |-> [b \in 0..(Memory[m] - 1) |-> nothing]]
      /\ disk = [sector |-> 0, left |-> 0, drq |-> FALSE]
      /\ irq = FALSE /\ dropped = FALSE
  <2>1. TTY # FS /\ HD # TTY /\ HD # FS /\ FS \in Proc /\ HD \in Proc
    BY TaskPids
  <2>2. doing[HD] = run
    BY <2>1, FlagsDiffer DEF TasksInit, Init, doing
  <2> QED  BY <2>1, <2>2 DEF TasksInit
<1>2. MemoryInv
  <2>1. \A m \in DOMAIN Memory : memory[m] \in [0..(Memory[m] - 1) -> Cell]
    BY <1>1 DEF Cell
  <2>2. disk \in [sector : Nat, left : 0..MaxBatch, drq : BOOLEAN]
    BY <1>1, Sizes_
  <2> QED  BY <1>1, <2>1, <2>2 DEF MemoryInv
<1>3. RequestInv
  BY <1>1, TableRequested, DoingsDiffer DEF RequestInv, HDWorks
<1>4. ProgressInv /\ WalkInv
  BY <1>1 DEF ProgressInv, WalkInv, HDWorks, FSReads
<1> QED  BY <1>2, <1>3, <1>4 DEF TransferInv

LEMMA TTYTransfers ==
    ASSUME RunInv, TransferInv, tty_send \/ task_tty
    PROVE  TransferInv'
<1>0. /\ TTY \in Three /\ FS \in Three /\ HD \in Three
      /\ TTY # FS /\ HD # TTY /\ TTY \in Proc /\ WakeInv /\ Undisturbed /\ Places
  BY TaskPids DEF Three, RunInv, StepInv, RendezvousInv
<1>1. UNCHANGED <<fs, hd, memory, disk, irq, dropped>>
  BY DEF tty_send, task_tty, tty_receive, tty_answer
<1>2. Apart(TTY)
  <2>1. CASE tty_send
    <3>1. /\ send_enter(TTY, FS) /\ jump(TTY, "sent")
          /\ \E msg : content' = [content EXCEPT ![TTY] = msg]
      BY <2>1 DEF tty_send
    <3>2. Begins(TTY, Sending(FS))
      BY <1>0, <3>1, SendBegins
    <3> QED  BY <1>0, <3>1, <3>2, BeginsApart
  <2>2. CASE tty_receive
    <3>1. receive_enter(TTY, FS) /\ jump(TTY, "answer") /\ content' = content
      BY <2>2 DEF tty_receive
    <3>2. Begins(TTY, Receiving(FS))
      BY <1>0, <3>1, ReceiveBegins
    <3> QED  BY <1>0, <3>1, <3>2, BeginsApart
  <2>3. CASE tty_answer
    <3>1. Ready(TTY) /\ jump(TTY, "idle") /\ content' = content /\ UNCHANGED vars
      BY <2>3 DEF tty_answer
    <3> QED  BY <1>0, <3>1, BetweenApart
  <2> QED  BY <2>1, <2>2, <2>3 DEF task_tty
<1>3. /\ pc'[FS] = pc[FS] /\ pc'[HD] = pc[HD]
      /\ doing'[FS] = doing[FS] /\ doing'[HD] = doing[HD]
      /\ content'[FS] = content[FS] /\ content'[HD] = content[HD]
  BY <1>0, <1>2 DEF Apart
<1>4. MemoryInv'
  <2>1. UNCHANGED <<hd, memory, disk, irq, dropped>>
    BY <1>1
  <2> QED  BY <2>1, MemoryKept DEF TransferInv
<1>5. Pending' <=> Pending
  BY <1>3 DEF Pending
<1>6. UNCHANGED <<fs, hd, memory>> /\ disk'.sector = disk.sector
  BY <1>1
<1> QED  BY <1>3, <1>4, <1>5, <1>6, TransferKept

-----------------------------------------------------------------------------
(* The walk through a file                                                 *)

LEMMA Divided ==
    ASSUME NEW S \in Nat \ {0}, NEW e \in Nat, NEW r \in 0..(S - 1), NEW b,
           b = (e * S) + r
    PROVE  b \div S = e /\ b % S = r
  BY Quotients

LEMMA BelowProduct ==
    ASSUME NEW S \in Nat \ {0}, NEW b \in Nat, NEW i \in Nat, b \div S < i
    PROVE  b < i * S
<1> DEFINE q == b \div S
           x == q * S
           y == i * S
<1>1. q \in Nat /\ b % S \in 0..(S - 1) /\ b = x + (b % S)
  BY QuotientOf
<1>2. q < i
  OBVIOUS
<1> HIDE DEF q
<1>3. q + 1 \in Nat /\ q + 1 <= i
  BY <1>1, <1>2
<1>4. (q + 1) * S <= y /\ y \in Nat
  BY <1>3, ProductsOrdered
<1>5. (q + 1) * S = x + S /\ x \in Nat
  BY <1>1
<1> HIDE DEF x, y
<1>6. b < x + S
  BY <1>1, <1>5
<1>7. b < y
  BY <1>4, <1>5, <1>6
<1> QED  BY <1>7 DEF y

LEMMA EntriesFit ==
    /\ entries \in Nat
    /\ \A k \in 0..(entries - 1) : k * ENTRY_SIZE \in 0..(BLOCK_SIZE - 1)
<1>1. /\ entries \in Nat /\ entries * ENTRY_SIZE \in Nat
      /\ entries * ENTRY_SIZE <= BLOCK_SIZE
  <2>1. /\ BLOCK_SIZE \div ENTRY_SIZE \in Nat
        /\ BLOCK_SIZE % ENTRY_SIZE \in 0..(ENTRY_SIZE - 1)
        /\ BLOCK_SIZE = ((BLOCK_SIZE \div ENTRY_SIZE) * ENTRY_SIZE)
                        + (BLOCK_SIZE % ENTRY_SIZE)
    <3>1. BLOCK_SIZE \in Nat /\ ENTRY_SIZE \in Nat \ {0}
      BY Sizes_
    <3> QED  BY <3>1, QuotientOf
  <2>2. BLOCK_SIZE % ENTRY_SIZE \in Nat /\ entries \in Nat
        /\ BLOCK_SIZE = (entries * ENTRY_SIZE) + (BLOCK_SIZE % ENTRY_SIZE)
    BY <2>1, Sizes_ DEF entries
  <2>3. entries * ENTRY_SIZE \in Nat
    BY <2>2, Sizes_
  <2> HIDE DEF entries
  <2> QED  BY <2>2, <2>3, Sizes_
<1>2. ASSUME NEW k \in 0..(entries - 1)
      PROVE  k * ENTRY_SIZE \in 0..(BLOCK_SIZE - 1)
  <2>1. k + 1 \in Nat /\ k \in Nat /\ k + 1 <= entries
    BY <1>1
  <2>2. (k + 1) * ENTRY_SIZE <= entries * ENTRY_SIZE /\ (k + 1) * ENTRY_SIZE \in Nat
    BY <1>1, <2>1, Sizes_, ProductsOrdered
  <2>3. (k + 1) * ENTRY_SIZE = k * ENTRY_SIZE + ENTRY_SIZE /\ k * ENTRY_SIZE \in Nat
    BY <2>1, Sizes_
  <2> QED  BY <1>1, <2>2, <2>3, Sizes_
<1> QED  BY <1>1, <1>2

\* entry finds the number that stands there on the disk
LEMMA EntryRead ==
    ASSUME Filled(IndexRequest, BLOCK_SIZE), fs.inode.i_block[NDirect + 1] \in Nat,
           NEW k \in 0..(entries - 1)
    PROVE  entry(k) = Indirect[fs.inode.i_block[NDirect + 1]][k]
<1> DEFINE b == fs.inode.i_block[NDirect + 1]
           x == k * ENTRY_SIZE
           q == x \div SECTOR_SIZE
           r == x % SECTOR_SIZE
<1>1. x \in 0..(BLOCK_SIZE - 1) /\ x \in Nat /\ k \in Nat
  BY EntriesFit, Sizes_
<1>2. memory["index"][x] = <<2 * b + q, r>>
  <2>1. memory["index"][0 + x] = byte_at(2 * b, x)
    BY <1>1 DEF Filled, Holds, IndexRequest, DiskRequest
  <2> QED  BY <1>1, <2>1 DEF byte_at
<1>3. q \in {0, 1} /\ r \in Nat /\ q * SECTOR_SIZE + r = x
  <2>1. q \in Nat /\ r \in 0..(SECTOR_SIZE - 1) /\ x = (q * SECTOR_SIZE) + r
    BY <1>1, Sizes_, QuotientOf
  <2>2. x < 2 * SECTOR_SIZE
    BY <1>1, Sizes_
  <2>3. q < 2
    <3> HIDE DEF x
    <3> QED  BY <1>1, <2>2, Sizes_, QuotientBelow
  <2> HIDE DEF q, r, x
  <2> QED  BY <2>1, <2>3
<1>4. x \div ENTRY_SIZE = k
  <2>1. 0 \in 0..(ENTRY_SIZE - 1) /\ x = (k * ENTRY_SIZE) + 0
    BY <1>1, Sizes_
  <2> QED  BY <1>1, <2>1, Sizes_, Quotients
<1> HIDE DEF x, q, r, b
<1>5. (2 * b + q) % 2 = q /\ (2 * b + q) \div 2 = b
  <2>1. b \in Nat
    BY DEF b
  <2> QED  BY <1>3, <2>1
<1>6. entry(k) = LET cell == memory["index"][x]
                     byte == (cell[1] % 2) * SECTOR_SIZE + cell[2]
                 IN  Indirect[cell[1] \div 2][byte \div ENTRY_SIZE]
  BY DEF entry, x
<1> QED  BY <1>2, <1>3, <1>4, <1>5, <1>6 DEF b

LEMMA BlockNumbers ==
    ASSUME NEW n \in DOMAIN InodeAt, fs.inode = InodeAt[n], NEW i \in Nat,
           i < NDirect + entries,
           i >= NDirect => fs.inode.i_size > NDirect * BLOCK_SIZE
    PROVE  /\ FileBlock(i) \in Nat /\ fs.inode.i_block[NDirect + 1] \in Nat
           /\ fs.inode.i_size \in 0..SIZE_OF_TTY_DIR
<1>1. /\ fs.inode.i_size \in 0..SIZE_OF_TTY_DIR
      /\ \A k \in 1..(NDirect + 1) : fs.inode.i_block[k] \in Nat
      /\ fs.inode.i_size > NDirect * BLOCK_SIZE =>
            \A k \in 0..(entries - 1) : Indirect[fs.inode.i_block[NDirect + 1]][k] \in Nat
  BY TasksAssumption DEF entries
<1>2. CASE i < NDirect
  BY <1>1, <1>2, Sizes_ DEF FileBlock
<1>3. CASE i >= NDirect
  <2>1. i - NDirect \in 0..(entries - 1)
    BY <1>3, Sizes_, EntriesFit
  <2>2. FileBlock(i) = Indirect[fs.inode.i_block[NDirect + 1]][i - NDirect]
    BY <1>3, Sizes_ DEF FileBlock
  <2> QED  BY <1>1, <1>3, <2>1, <2>2, Sizes_
<1> QED  BY <1>2, <1>3, Sizes_

\* while task_fs does not wait for it, task_hd has no request
LEMMA DiskAlone ==
    ASSUME RunInv, Apart(FS), doing[FS] = run, pc[FS] # "op_sent"
    PROVE  ~HDBusy'
<1>1. ~HDBusy
  BY DoingsDiffer DEF RunInv, StepInv, Handshake, FSAwaits
<1>2. pc'[HD] = pc[HD] /\ doing'[HD] = doing[HD]
  BY TaskPids DEF Apart, Three
<1> QED  BY <1>1, <1>2 DEF HDBusy

\* a turn of the loops of fs_read_file
LEMMA FSWalks ==
    ASSUME RunInv, TransferInv, fs_walk
    PROVE  TransferInv'
<1> USE DEF TransferInv
<1>0. /\ FS \in Three /\ FS \in Proc /\ DOMAIN content = Proc
      /\ Undisturbed /\ Places /\ DiskMessages
  BY TaskPids DEF Three, RunInv, StepInv, Places
<1>1. /\ UNCHANGED <<vars, hd, memory, disk, irq, dropped>>
      /\ Ready(FS) /\ pc[FS] = "walk"
  BY DEF fs_walk
<1>2. MemoryInv'
  <2>1. UNCHANGED <<hd, memory, disk, irq, dropped>>
    BY <1>1
  <2> QED  BY <2>1, MemoryKept
<1>3. /\ fs.stage = "file" /\ FSFields \subseteq DOMAIN fs /\ fs.bytes \in Nat
      /\ FSReads /\ doing[FS] = run /\ ~Pending
  BY <1>0, <1>1, ReadyRuns, DoingsDiffer DEF DiskMessages, FSReads, Pending
<1>4. PICK n \in DOMAIN InodeAt : fs.inode = InodeAt[n]
  BY <1>3 DEF WalkInv
<1>5. /\ fs.i \in Nat /\ bytes_done \in Nat /\ fs.indexed \in BOOLEAN
      /\ fs.bytes > 0 => bytes_done = fs.i * BLOCK_SIZE
      /\ bytes_done <= fs.i * BLOCK_SIZE
      /\ fs.indexed => fs.inode.i_size > NDirect * BLOCK_SIZE
      /\ FileRead(bytes_done) /\ IndexRead
  BY <1>3 DEF WalkInv
<1>6. fs.inode.i_size \in Nat /\ bytes_done = fs.inode.i_size - fs.bytes
      /\ fs.inode.i_size <= SIZE_OF_TTY_DIR
  BY <1>4, TasksAssumption DEF bytes_done
<1> DEFINE least == smaller(fs.bytes, BLOCK_SIZE)
           more  == fs.bytes > 0 /\ fs.i < NDirect + entries
           must  == more /\ fs.i >= NDirect /\ ~fs.indexed
\* the driver has no request before the step, and none by it
<1>7. ASSUME NEW place, jump(FS, place), content'[FS] \in Requests \/ place = "reply",
             content' = content \/ \E msg : content' = [content EXCEPT ![FS] = msg]
      PROVE  /\ pc'[FS] = place /\ doing'[FS] = run
             /\ RequestInv' /\ ProgressInv'
  <2>1. Apart(FS) /\ pc'[FS] = place /\ doing'[FS] = run
    BY <1>0, <1>1, <1>7, BetweenApart
  <2>2. Pending' => content'[FS] \in Requests
    BY <1>7, <2>1, DoingsDiffer DEF Pending
  <2>3. ~HDBusy'
    BY <1>1, <1>3, <2>1, DiskAlone
  <2> QED  BY <2>1, <2>2, <2>3, DriverIdle
<1>8. CASE /\ must
           /\ op_disk("index", 0, fs.inode.i_block[NDirect + 1], BLOCK_SIZE)
           /\ fs' = [fs EXCEPT !.indexed = TRUE]
  <2>1. fs.inode.i_size > NDirect * BLOCK_SIZE
    <3>1. NDirect * BLOCK_SIZE <= fs.i * BLOCK_SIZE /\ NDirect * BLOCK_SIZE \in Nat
          /\ fs.i * BLOCK_SIZE \in Nat
      BY <1>5, <1>8, Sizes_, ProductsOrdered
    <3> QED  BY <1>3, <1>5, <1>6, <1>8, <3>1
  <2>2. fs.inode.i_block[NDirect + 1] \in Nat
    BY <1>4, Sizes_, TasksAssumption
  <2> DEFINE req == DiskRequest("index", 0, 2 * fs.inode.i_block[NDirect + 1], BLOCK_SIZE)
  <2>3. content' = [content EXCEPT ![FS] = req] /\ jump(FS, "op")
    BY <1>8 DEF op_disk
  <2>4. req \in Requests
    BY <2>2, IndexRequested
  <2>5. content'[FS] = req
    BY <1>0, <2>3
  <2>6. pc'[FS] = "op" /\ RequestInv' /\ ProgressInv'
    <3> HIDE DEF req
    <3> QED  BY <1>7, <2>3, <2>4, <2>5
  <2>7. /\ fs'.inode = fs.inode /\ fs'.i = fs.i /\ fs'.bytes = fs.bytes /\ fs'.indexed
        /\ fs'.indexed \in BOOLEAN
    BY <1>3, <1>8 DEF FSFields
  <2>8. bytes_done' = bytes_done
    BY <2>7 DEF bytes_done
  <2>9. req = IndexRequest'
    BY <2>7 DEF IndexRequest, DiskRequest
  <2>10. FileRead(bytes_done)'
    BY <1>1, <1>5, <2>7, <2>8 DEF FileRead, FileBlock
  <2>11. Pending'
    BY <2>6 DEF Pending
  <2>12. WalkInv'
    <3> HIDE DEF req
    <3> QED  BY <1>4, <1>5, <2>1, <2>5, <2>6, <2>7, <2>8, <2>9, <2>10, <2>11 DEF WalkInv
  <2> QED  BY <1>2, <2>6, <2>12
<1>9. CASE /\ more /\ ~must
           /\ op_disk("tty", fs.inode.i_size - fs.bytes, block(fs.i), least)
           /\ fs' = [fs EXCEPT !.i = @ + 1, !.bytes = @ - least]
  <2>1. fs.i >= NDirect => fs.indexed /\ fs.inode.i_size > NDirect * BLOCK_SIZE
    BY <1>5, <1>9
  <2>2. /\ FileBlock(fs.i) \in Nat /\ fs.inode.i_block[NDirect + 1] \in Nat
    BY <1>4, <1>5, <1>9, <2>1, BlockNumbers
  <2>3. block(fs.i) = FileBlock(fs.i)
    <3>1. CASE fs.i < NDirect
      BY <3>1 DEF block, FileBlock
    <3>2. CASE ~(fs.i < NDirect)
      <4>1. fs.i - NDirect \in 0..(entries - 1)
        BY <1>5, <1>9, <3>2, Sizes_, EntriesFit
      <4>2. Filled(IndexRequest, BLOCK_SIZE)
        BY <1>5, <2>1, <3>2, Sizes_ DEF IndexRead
      <4>3. entry(fs.i - NDirect)
              = Indirect[fs.inode.i_block[NDirect + 1]][fs.i - NDirect]
        BY <2>2, <4>1, <4>2, EntryRead
      <4> QED  BY <3>2, <4>3 DEF block, FileBlock
    <3> QED  BY <3>1, <3>2
  <2>4. /\ least \in 1..BLOCK_SIZE /\ fs.bytes - least \in Nat
        /\ fs.bytes - least > 0 => least = BLOCK_SIZE
    BY <1>3, <1>9, Sizes_ DEF smaller
  <2>5. /\ bytes_done = fs.i * BLOCK_SIZE /\ fs.i * BLOCK_SIZE \in Nat
        /\ (fs.i + 1) * BLOCK_SIZE = fs.i * BLOCK_SIZE + BLOCK_SIZE
    BY <1>5, <1>9, Sizes_
  <2> DEFINE req == DiskRequest("tty", bytes_done, 2 * FileBlock(fs.i), least)
  <2>6. content' = [content EXCEPT ![FS] = req] /\ jump(FS, "op")
    BY <1>6, <1>9, <2>3 DEF op_disk
  <2>7. req \in Requests
    <3>1. bytes_done + least <= SIZE_OF_TTY_DIR
      <4> HIDE DEF least
      <4> QED  BY <1>3, <1>5, <1>6, <2>4, Sizes_
    <3> HIDE DEF least
    <3> QED  BY <1>5, <2>2, <2>4, <3>1, PartRequested
  <2>8. content'[FS] = req
    BY <1>0, <2>6
  <2>9. pc'[FS] = "op" /\ RequestInv' /\ ProgressInv'
    <3> HIDE DEF req
    <3> QED  BY <1>7, <2>6, <2>7, <2>8
  <2>10. /\ fs'.inode = fs.inode /\ fs'.i = fs.i + 1 /\ fs'.bytes = fs.bytes - least
         /\ fs'.indexed = fs.indexed
    <3> HIDE DEF least
    <3> QED  BY <1>3, <1>9 DEF FSFields
  <2>11. bytes_done' = bytes_done + least /\ bytes_done' \in Nat
    <3> HIDE DEF least
    <3> QED  BY <1>3, <1>5, <1>6, <2>4, <2>10, Sizes_ DEF bytes_done
  <2>12. /\ fs'.bytes > 0 => bytes_done' = fs'.i * BLOCK_SIZE
         /\ bytes_done' <= fs'.i * BLOCK_SIZE
    <3> HIDE DEF least
    <3> QED  BY <2>4, <2>5, <2>10, <2>11, Sizes_
  <2>13. fs'.i - 1 = fs.i /\ fs'.i \in Nat /\ fs'.i > 0
    BY <1>5, <2>10
  <2>14. req = PartRequest(fs.i - 1)'
    <3>1. FileBlock(fs.i - 1)' = FileBlock(fs.i)
      BY <2>10, <2>13 DEF FileBlock
    <3>2. bytes_done' - (fs'.i - 1) * BLOCK_SIZE = least
      <4> HIDE DEF least
      <4> QED  BY <1>5, <2>4, <2>5, <2>11, <2>13, Sizes_
    <3> HIDE DEF least
    <3> QED  BY <2>5, <2>13, <3>1, <3>2 DEF PartRequest
  <2>15. FileRead((fs.i - 1) * BLOCK_SIZE)'
    <3>1. (fs'.i - 1) * BLOCK_SIZE = bytes_done
      BY <2>5, <2>13
    <3> QED  BY <1>1, <1>5, <2>10, <3>1 DEF FileRead, FileBlock
  <2>16. IndexRead'
    BY <1>1, <1>5, <2>10 DEF IndexRead, IndexRequest, Filled
  <2>17. Pending'
    BY <2>9 DEF Pending
  <2>18. WalkInv'
    <3> HIDE DEF req, least
    <3> QED  BY <1>4, <1>5, <2>8, <2>9, <2>10, <2>11, <2>12, <2>13, <2>14, <2>15, <2>16,
                <2>17 DEF WalkInv
  <2> QED  BY <1>2, <2>9, <2>18
<1>10. CASE ~more /\ jump(FS, "reply") /\ UNCHANGED <<content, fs>>
  <2>1. pc'[FS] = "reply" /\ doing'[FS] = run /\ RequestInv' /\ ProgressInv'
    BY <1>7, <1>10
  <2>2. fs.bytes = 0 \/ fs.i >= NDirect + entries
    BY <1>3, <1>5, <1>10, Sizes_, EntriesFit
  <2>3. ~Pending' /\ UNCHANGED <<fs, memory>>
    BY <1>1, <1>10, <2>1, DoingsDiffer DEF Pending
  <2>4. entries' = entries
    BY DEF entries, BLOCK_SIZE
  <2>5. WalkInv'
    BY <1>4, <1>5, <2>2, <2>3, <2>4, WalkSame DEF WalkInv
  <2> QED  BY <1>2, <2>1, <2>5
<1> QED
  <2>1. more <=> fs.bytes > 0 /\ fs.i < NDirect + BLOCK_SIZE \div ENTRY_SIZE
    BY DEF entries
  <2> QED  BY <1>8, <1>9, <1>10, <2>1 DEF fs_walk

LEMMA FSTransfers ==
    ASSUME RunInv, TransferInv, task_fs
    PROVE  TransferInv'
<1> USE DEF TransferInv
<1>0. /\ TTY \in Three /\ FS \in Three /\ HD \in Three
      /\ TTY # FS /\ HD # TTY /\ HD # FS /\ FS \in Proc /\ HD \in Proc /\ HD # ANY
      /\ WakeInv /\ Undisturbed /\ Places /\ DiskMessages /\ TTYMessages /\ Handshake
  BY TaskPids, NotPids DEF Three, RunInv, StepInv, RendezvousInv
<1>1. UNCHANGED <<hd, memory, disk, irq, dropped>>
  BY DEF task_fs, fs_receive, fs_request, fs_walk, fs_op_send, fs_op_receive, fs_reply
<1>2. MemoryInv'
  BY <1>1, MemoryKept
\* while task_hd has no request, only the walk matters
<1>3. ASSUME Apart(FS), doing[FS] = run, pc[FS] # "op_sent",
             Pending' => content'[FS] \in Requests
      PROVE  RequestInv' /\ ProgressInv'
  BY <1>3, DiskAlone, DriverIdle
<1>4. CASE fs_receive
  <2>1. /\ receive_enter(FS, ANY) /\ pc[FS] = "receive" /\ jump(FS, "request")
        /\ content' = content
    BY <1>4 DEF fs_receive
  <2>2. Begins(FS, Receiving(ANY))
    BY <1>0, <2>1, ReceiveBegins
  <2>3. Apart(FS) /\ pc'[FS] = "request" /\ doing[FS] = run /\ doing'[FS] = Receiving(ANY)
    BY <1>0, <2>1, <2>2, BeginsApart
  <2>4. ~Pending' /\ ~FSReads'
    BY <1>0, <2>3, DoingsDiffer DEF Pending, FSReads
  <2>5. WalkInv'
    BY <2>4 DEF WalkInv
  <2> QED  BY <1>2, <1>3, <2>1, <2>3, <2>4, <2>5
<1>5. CASE fs_request
  <2> DEFINE msg   == content[FS]
             index == IF msg.function = "root" THEN 2 ELSE msg.inode_index
             place == IF msg.function \in {"root", "read"} THEN "walk" ELSE "reply"
  <2>1. /\ Ready(FS) /\ pc[FS] = "request"
        /\ fs' = [stage |-> "file", src |-> source[FS],
                  msg |-> [msg EXCEPT !.inode_index = index],
                  inode |-> InodeAt[index], i |-> 0, indexed |-> FALSE,
                  bytes |-> InodeAt[index].i_size]
        /\ jump(FS, place) /\ content' = content /\ UNCHANGED vars
    BY <1>5 DEF fs_request
  <2>2. Apart(FS) /\ pc'[FS] = place /\ doing[FS] = run /\ doing'[FS] = run
    <3> HIDE DEF place
    <3> QED  BY <1>0, <2>1, BetweenApart
  <2>3. ~Pending'
    BY <2>2, DoingsDiffer DEF Pending
  <2>4. msg = tty /\ tty \in TTYRequests
    <3>1. FSServes
      BY <2>1, <2>2 DEF FSServes
    <3>2. pc[TTY] # "idle"
      BY <1>0, <3>1, DoingsDiffer DEF Handshake, TTYAwaits, Places
    <3> QED  BY <1>0, <2>1, <2>2, <3>2 DEF TTYMessages
  <2>5. index \in DOMAIN InodeAt /\ "function" \in DOMAIN msg
    BY <2>4, TasksAssumption DEF TTYRequests
  <2>6. InodeAt[index].i_size \in Nat
    <3> HIDE DEF index
    <3> QED  BY <2>5, TasksAssumption
  <2>7. /\ fs'.inode = InodeAt[index] /\ fs'.i = 0 /\ ~fs'.indexed /\ fs'.indexed \in BOOLEAN
        /\ fs'.bytes = InodeAt[index].i_size /\ fs'.msg.function = msg.function
    <3> HIDE DEF index, msg
    <3> QED  BY <2>1, <2>5
  <2>8. bytes_done' = 0
    <3> HIDE DEF index
    <3> QED  BY <2>6, <2>7 DEF bytes_done
  <2>9. IndexRead' /\ FileRead(bytes_done)'
    BY <2>7, <2>8 DEF IndexRead, FileRead
  <2>10. ~(pc'[FS] = "reply" /\ fs'.msg.function \in {"root", "read"})
    BY <2>2, <2>7
  <2>11. 0 * BLOCK_SIZE = 0
    BY Sizes_
  <2>12. WalkInv'
    <3> HIDE DEF index, msg, place
    <3> QED  BY <2>3, <2>5, <2>7, <2>8, <2>9, <2>10, <2>11 DEF WalkInv
  <2> QED  BY <1>2, <1>3, <2>1, <2>2, <2>3, <2>12
<1>6. CASE fs_walk
  <2> QED  BY <1>6, <1>0, <1>1, <1>2, <1>3, FSWalks
<1>7. CASE fs_op_send
  <2>1. /\ send_enter(FS, HD) /\ pc[FS] = "op" /\ jump(FS, "op_sent")
        /\ content' = content /\ fs' = fs
    BY <1>7 DEF fs_op_send
  <2>2. Begins(FS, Sending(HD))
    BY <1>0, <2>1, SendBegins
  <2>3. Apart(FS) /\ pc'[FS] = "op_sent" /\ doing[FS] = run /\ doing'[FS] = Sending(HD)
    BY <1>0, <2>1, <2>2, BeginsApart
  <2>4. Pending' /\ Pending /\ (FSReads' => FSReads)
    BY <2>1, <2>3 DEF Pending, FSReads
  <2>5. content'[FS] \in Requests
    BY <2>1, <2>4 DEF RequestInv
  <2>6. WalkInv'
    <3>1. UNCHANGED <<fs, memory>> /\ pc'[FS] # "reply" /\ content'[FS] = content[FS]
      BY <1>1, <2>1, <2>3
    <3> QED  BY <2>4, <3>1, WalkKept
  <2> QED  BY <1>2, <1>3, <2>1, <2>3, <2>5, <2>6
<1>8. CASE fs_op_receive
  <2>1. /\ receive_enter(FS, HD) /\ pc[FS] = "op_sent"
        /\ content' = content /\ fs' = fs
    BY <1>8 DEF fs_op_receive
  <2>2. PICK place : jump(FS, place)
                     /\ place = IF fs.stage = "init" THEN "receive" ELSE "walk"
    BY <1>8 DEF fs_op_receive
  <2>3. Begins(FS, Receiving(HD))
    BY <1>0, <2>1, ReceiveBegins
  <2>4. Apart(FS) /\ pc'[FS] = place /\ doing[FS] = run /\ doing'[FS] = Receiving(HD)
    BY <1>0, <2>1, <2>2, <2>3, BeginsApart
  <2>5. Pending' /\ Pending /\ (FSReads' => FSReads) /\ pc'[FS] # "reply"
    BY <2>1, <2>2, <2>4 DEF Pending, FSReads
  <2>6. WalkInv'
    <3>1. UNCHANGED <<fs, memory>> /\ content'[FS] = content[FS]
      BY <1>1, <2>1
    <3> QED  BY <2>5, <3>1, WalkKept
  <2>7. pc'[HD] = pc[HD] /\ doing'[HD] = doing[HD]
    BY <1>0, <2>4 DEF Apart
  <2>8. RequestInv' /\ ProgressInv'
    <3>1. UNCHANGED <<hd, memory>> /\ disk'.sector = disk.sector
          /\ content'[HD] = content[HD] /\ content'[FS] = content[FS]
      BY <1>1, <2>1
    <3>2. /\ Pending' => Pending
          /\ doing'[HD] = doing[HD] \/ (doing'[HD] = run /\ pc[HD] # "request")
      BY <2>5, <2>7
    <3> QED  BY <2>7, <3>1, <3>2, DriverKept
  <2> QED  BY <1>2, <2>6, <2>8
<1>9. CASE fs_reply
  <2>1. /\ send_enter(FS, fs.src) /\ pc[FS] = "reply" /\ jump(FS, "receive")
        /\ content' = [content EXCEPT ![FS] = fs.msg]
    BY <1>9 DEF fs_reply
  <2>2. fs.src = TTY
    BY <1>0, <2>1 DEF DiskMessages, TTYMessages
  <2>3. Begins(FS, Sending(TTY))
    BY <1>0, <2>1, <2>2, TaskPids, SendBegins
  <2>4. Apart(FS) /\ pc'[FS] = "receive" /\ doing[FS] = run /\ doing'[FS] = Sending(TTY)
    BY <1>0, <2>1, <2>3, BeginsApart
  <2>5. ~Pending' /\ ~FSReads'
    BY <2>4, DoingsDiffer DEF Pending, FSReads
  <2>6. WalkInv'
    BY <2>5 DEF WalkInv
  <2> QED  BY <1>2, <1>3, <2>1, <2>4, <2>5, <2>6
<1> QED  BY <1>4, <1>5, <1>6, <1>7, <1>8, <1>9 DEF task_fs

-----------------------------------------------------------------------------
(* The sectors of a request                                                *)

LEMMA RequestFacts ==
    ASSUME NEW m \in Requests
    PROVE  /\ m.area \in DOMAIN Memory /\ m.offset \in Nat /\ m.sector_head \in Nat
           /\ m.bytes_count \in Nat \ {0} /\ m.offset + m.bytes_count <= Memory[m.area]
           /\ Memory[m.area] \in Nat
<1>1. m.area \in DOMAIN Memory
  BY DEF Requests
<1>2. Memory[m.area] \in Nat
  BY <1>1, Sizes_
<1> QED  BY <1>2 DEF Requests

LEMMA SectorPlace ==
    ASSUME NEW head \in Nat, NEW e \in Nat, NEW r \in 0..(SECTOR_SIZE - 1)
    PROVE  byte_at(head, (e * SECTOR_SIZE) + r) = <<head + e, r>>
<1>1. /\ ((e * SECTOR_SIZE) + r) \div SECTOR_SIZE = e
      /\ ((e * SECTOR_SIZE) + r) % SECTOR_SIZE = r
  BY Sizes_, Quotients
<1> QED  BY <1>1 DEF byte_at

\* cells first to first + w - 1 of a buffer are taken from a sector
Takes(new, old, first, w, sector) == \A k \in DOMAIN old :
    new[k] = IF k \in first..(first + w - 1) THEN <<sector, k - first>> ELSE old[k]

\* a sector more of the buffer, or one that is there already
LEMMA SectorFills ==
    ASSUME NEW o \in Nat, NEW size \in Nat, NEW k \in Nat, NEW n \in Nat, o + n <= size,
           NEW la \in Nat, NEW w \in 0..SECTOR_SIZE, n <= k \/ (la <= k /\ n <= la + w),
           NEW head, NEW sector,
           \A r \in 0..(SECTOR_SIZE - 1) : byte_at(head, la + r) = <<sector, r>>,
           NEW old, NEW new, DOMAIN old = 0..(size - 1),
           Holds(old, o, head, k),
           Takes(new, old, o + la, w, sector)
    PROVE  Holds(new, o, head, n)
<1>0. SECTOR_SIZE \in Nat \ {0}
  BY Sizes_
<1> SUFFICES ASSUME NEW b \in 0..(n - 1)
             PROVE  new[o + b] = byte_at(head, b)
  BY DEF Holds
<1> DEFINE part == (o + la)..((o + la) + w - 1)
<1>1. b < n /\ b \in Nat /\ o + b \in DOMAIN old
  OBVIOUS
<1>2. new[o + b] = IF o + b \in part THEN <<sector, (o + b) - (o + la)>> ELSE old[o + b]
  BY <1>1 DEF Takes
<1>3. CASE (o + b) \in part
  <2>1. b - la \in 0..(SECTOR_SIZE - 1) /\ la + (b - la) = b /\ (o + b) - (o + la) = b - la
    BY <1>0, <1>1, <1>3
  <2>2. byte_at(head, la + (b - la)) = <<sector, b - la>>
    BY <2>1
  <2> HIDE DEF part
  <2> QED  BY <1>2, <1>3, <2>1, <2>2
<1>4. CASE (o + b) \notin part
  <2>1. b \in 0..(k - 1)
    BY <1>0, <1>1, <1>4
  <2> HIDE DEF part
  <2> QED  BY <1>2, <1>4, <2>1 DEF Holds
<1> QED  BY <1>3, <1>4

LEMMA PatchedTyped ==
    ASSUME NEW S, NEW T, NEW f \in [S -> T], NEW R, NEW x, NEW y,
           \A b \in R : <<x, b - y>> \in T
    PROVE  [b \in DOMAIN f |-> IF b \in R THEN <<x, b - y>> ELSE f[b]] \in [S -> T]
  OBVIOUS

\* a sector is taken from the data port: it goes to its place in the buffer,
\* and to no other
LEMMA DataTransfers ==
    ASSUME RunInv, TransferInv, hd_data
    PROVE  TransferInv'
<1> USE DEF TransferInv
<1> DEFINE m == hd.msg
           start == m.offset + hd.la
           w == wanted_bytes(hd.bytes)
<1>0. /\ FS \in Three /\ HD \in Three /\ FS # HD /\ FS \in Proc /\ HD \in Proc
      /\ Undisturbed /\ Places /\ Handshake /\ Signals /\ Sectors
      /\ SECTOR_SIZE \in Nat \ {0} /\ MaxBatch \in Nat \ {0}
  BY TaskPids, Sizes_ DEF Three, RunInv, StepInv
<1>1. /\ Ready(HD) /\ pc[HD] = "data" /\ jump(HD, "loop") /\ content' = content
      /\ hd' = [hd EXCEPT !.bytes = @ - SECTOR_SIZE, !.la = @ + SECTOR_SIZE]
      /\ UNCHANGED vars /\ UNCHANGED <<fs, irq, dropped>>
  BY DEF hd_data
<1>2. Apart(HD) /\ pc'[HD] = "loop" /\ doing[HD] = run /\ doing'[HD] = run
  BY <1>0, <1>1, BetweenApart
<1>3. disk.drq /\ disk.left > 0
  BY <1>0, <1>1, <1>2 DEF Signals, Told
<1>4. /\ memory' = [memory EXCEPT ![m.area] = [b \in DOMAIN @ |->
             IF b \in start..(start + w - 1) THEN <<disk.sector, b - start>> ELSE @[b]]]
      /\ disk' = [sector |-> disk.sector + 1, left |-> disk.left - 1, drq |-> FALSE]
  BY <1>3 DEF hd_data
<1>5. HDBusy /\ HDWorks /\ Pending
  BY <1>0, <1>1 DEF HDBusy, HDWorks, Handshake, FSAwaits, Pending
<1>6. m = content[FS] /\ m \in Requests
  BY <1>5 DEF RequestInv
<1>7. /\ m.area \in DOMAIN Memory /\ m.offset \in Nat /\ m.sector_head \in Nat
      /\ m.bytes_count \in Nat \ {0} /\ m.offset + m.bytes_count <= Memory[m.area]
  BY <1>6 DEF Requests
<1>8. /\ hd.la \in Nat /\ hd.bytes \in Int /\ hd.bytes > 0 /\ start \in Nat
      /\ HDFields \subseteq DOMAIN hd
  BY <1>0, <1>1, <1>5, <1>7 DEF Sectors, ProgressInv, Progress
<1>9. /\ hd'.msg = m /\ hd'.bytes = hd.bytes - SECTOR_SIZE /\ hd'.la = hd.la + SECTOR_SIZE
      /\ hd'.sum = hd.sum /\ hd'.stage = hd.stage /\ hd'.la \in Nat
  BY <1>0, <1>1, <1>8 DEF HDFields
<1>10. /\ DOMAIN memory = DOMAIN Memory
       /\ \A a \in DOMAIN Memory : memory[a] \in [0..(Memory[a] - 1) -> Cell]
       /\ disk \in [sector : Nat, left : 0..MaxBatch, drq : BOOLEAN]
  BY DEF MemoryInv
<1>11. /\ \A a \in DOMAIN Memory \ {m.area} : memory'[a] = memory[a]
       /\ DOMAIN memory' = DOMAIN Memory
       /\ memory'[m.area] = [b \in DOMAIN memory[m.area] |->
              IF b \in start..(start + w - 1) THEN <<disk.sector, b - start>>
              ELSE memory[m.area][b]]
  <2> HIDE DEF m, start, w
  <2> QED  BY <1>4, <1>7, <1>10
<1>12. w \in 1..SECTOR_SIZE /\ w = smaller(hd.bytes, SECTOR_SIZE)
  BY <1>0, <1>8 DEF wanted_bytes, smaller
<1>13. MemoryInv'
  <2>1. ASSUME NEW b \in start..(start + w - 1) PROVE <<disk.sector, b - start>> \in Cell
    <3> HIDE DEF start, w
    <3>1. b - start \in 0..(SECTOR_SIZE - 1) /\ disk.sector \in Nat
      BY <1>0, <1>8, <1>10, <1>12, <2>1
    <3> QED  BY <3>1 DEF Cell
  <2>2. memory'[m.area] \in [0..(Memory[m.area] - 1) -> Cell]
    <3>1. memory[m.area] \in [0..(Memory[m.area] - 1) -> Cell]
      BY <1>7, <1>10
    <3> DEFINE R == start..(start + w - 1)
               f == memory[m.area]
    <3>2. \A b \in R : <<disk.sector, b - start>> \in Cell
      BY <2>1
    <3>3. memory'[m.area] = [b \in DOMAIN f |->
              IF b \in R THEN <<disk.sector, b - start>> ELSE f[b]]
      BY <1>11
    <3>4. f \in [0..(Memory[m.area] - 1) -> Cell]
      BY <3>1
    <3> HIDE DEF R, f, start
    <3>5. [b \in DOMAIN f |-> IF b \in R THEN <<disk.sector, b - start>> ELSE f[b]]
              \in [0..(Memory[m.area] - 1) -> Cell]
      BY <3>2, <3>4, PatchedTyped
    <3> QED  BY <3>3, <3>5
  <2>3. \A a \in DOMAIN Memory : memory'[a] \in [0..(Memory[a] - 1) -> Cell]
    <3> HIDE DEF m
    <3> QED  BY <1>10, <1>11, <2>2
  <2>4. disk' \in [sector : Nat, left : 0..MaxBatch, drq : BOOLEAN]
    BY <1>0, <1>3, <1>4, <1>10
  <2> HIDE DEF m
  <2> QED  BY <1>1, <1>9, <1>11, <2>3, <2>4 DEF MemoryInv, Cell
<1>14. /\ pc'[FS] = pc[FS] /\ doing'[FS] = doing[FS] /\ content'[FS] = content[FS]
       /\ Pending' /\ (FSReads' <=> FSReads)
  <2>1. pc'[FS] = pc[FS] /\ doing'[FS] = doing[FS] /\ content'[FS] = content[FS]
    BY <1>0, <1>2 DEF Apart
  <2> QED  BY <1>1, <1>5, <2>1 DEF Pending, FSReads
<1>15. Requests' = Requests
  BY DEF Requests
<1>16. RequestInv'
  <2> HIDE DEF m
  <2> QED  BY <1>2, <1>6, <1>9, <1>14, <1>15, DoingsDiffer DEF RequestInv
<1>17. Progress'
  <2> DEFINE e == disk.sector - m.sector_head
             n == m.bytes_count
             k == smaller(stored, n)
             x == smaller(stored', n)
  <2>1. /\ earlier \in Nat /\ earlier = n - hd.bytes - hd.la
        /\ earlier = 0 \/ earlier >= BatchBytes
        /\ Filled(m, k) /\ e \in Nat /\ hd.la = e * SECTOR_SIZE /\ hd.epoch = e + 1
    <3>1. Progress
      BY <1>5 DEF ProgressInv
    <3> QED  BY <1>1, <3>1 DEF Progress, earlier
  <2>2. disk.sector \in Nat /\ disk.sector = m.sector_head + e /\ n \in Nat /\ BatchBytes \in Nat
    <3>1. disk.sector \in Nat /\ m.sector_head \in Nat
      BY <1>7, <1>10
    <3> QED  BY <1>7, <3>1, BlockFits
  <2>3. earlier' = earlier /\ stored' = (IF earlier = 0 THEN hd.la + SECTOR_SIZE ELSE BatchBytes)
    <3>1. earlier' = n - (hd.bytes - SECTOR_SIZE) - (hd.la + SECTOR_SIZE)
      BY <1>9 DEF earlier
    <3>2. earlier' = earlier
      <4> HIDE DEF n
      <4> QED  BY <1>0, <1>8, <2>1, <2>2, <3>1
    <3> QED  BY <1>9, <3>2 DEF stored, BatchBytes
  <2>4. k \in Nat /\ x \in Nat /\ x <= n /\ (x <= k \/ (hd.la <= k /\ x <= hd.la + w))
    <3> HIDE DEF n
    <3>1. stored \in Nat /\ stored' \in Nat
      BY <1>0, <1>8, <2>2, <2>3 DEF stored
    <3>2. CASE earlier = 0
      <4>1. hd.bytes = n - hd.la /\ stored = hd.la /\ stored' = hd.la + SECTOR_SIZE
        BY <1>8, <2>1, <2>2, <2>3, <3>2 DEF stored
      <4> HIDE DEF w
      <4> QED  BY <1>0, <1>8, <1>12, <2>2, <4>1 DEF smaller
    <3>3. CASE earlier # 0
      <4>1. stored = BatchBytes /\ stored' = BatchBytes
        BY <2>3, <3>3 DEF stored
      <4> QED  BY <2>2, <4>1 DEF smaller
    <3> QED  BY <3>2, <3>3
  <2>5. Holds(memory'[m.area], m.offset, m.sector_head, x)
    <3> DEFINE old == memory[m.area]
               new == memory'[m.area]
               head == m.sector_head
    <3>1. /\ DOMAIN old = 0..(Memory[m.area] - 1) /\ Memory[m.area] \in Nat
          /\ m.offset \in Nat /\ m.offset + n <= Memory[m.area]
      BY <1>6, <1>7, <1>10, RequestFacts
    <3>2. m.offset + x <= Memory[m.area]
      <4> DEFINE size == Memory[m.area]
                 o == m.offset
      <4>1. o \in Nat /\ o + n <= size /\ size \in Nat /\ x \in Nat /\ x <= n /\ n \in Nat
        BY <2>2, <2>4, <3>1
      <4> HIDE DEF x, n, size, o
      <4>2. o + x <= size
        BY <4>1
      <4> QED  BY <4>2 DEF size, o
    <3>3. Takes(new, old, m.offset + hd.la, w, m.sector_head + e)
      BY <1>11, <2>2 DEF Takes
    <3>4. Holds(old, m.offset, head, k)
      BY <2>1 DEF Filled, Holds
    <3>5. \A r \in 0..(SECTOR_SIZE - 1) : byte_at(head, hd.la + r) = <<head + e, r>>
      <4> SUFFICES ASSUME NEW r \in 0..(SECTOR_SIZE - 1)
                   PROVE  byte_at(head, hd.la + r) = <<head + e, r>>
        OBVIOUS
      <4>1. head \in Nat
        BY <1>7
      <4> HIDE DEF m, e, head
      <4>2. byte_at(head, (e * SECTOR_SIZE) + r) = <<head + e, r>>
        BY <2>1, <4>1, SectorPlace
      <4> QED  BY <2>1, <4>2
    <3>6. w \in 0..SECTOR_SIZE
      BY <1>0, <1>12
    <3>7. Takes(new, old, m.offset + hd.la, w, head + e)
      BY <3>3
    <3> HIDE DEF m, e, w, old, new, head, k, x, n
    <3>8. Holds(new, m.offset, head, x)
      BY <1>8, <2>4, <3>1, <3>2, <3>4, <3>5, <3>6, <3>7, SectorFills
    <3> QED  BY <3>8 DEF new, head
  <2>6. Filled(hd.msg, smaller(stored, hd.msg.bytes_count))'
    <3>1. smaller(stored, hd.msg.bytes_count)' = x
      BY <1>9 DEF smaller
    <3>2. hd'.msg = m
      BY <1>9
    <3> HIDE DEF m, x
    <3> QED  BY <2>5, <3>1, <3>2 DEF Filled, Holds, byte_at
  <2>7. /\ disk'.sector - hd'.msg.sector_head = e + 1 /\ e + 1 \in Nat
        /\ hd'.la = (e + 1) * SECTOR_SIZE
    <3>1. disk'.sector = disk.sector + 1
      BY <1>4
    <3>2. (e + 1) * SECTOR_SIZE = e * SECTOR_SIZE + SECTOR_SIZE
      BY <1>0, <2>1
    <3>3. m.sector_head \in Nat
      BY <1>7
    <3> QED  BY <1>0, <1>9, <2>1, <2>2, <3>1, <3>2, <3>3
  <2>8. hd'.bytes \in Int /\ hd'.epoch = e + 1
    BY <1>0, <1>1, <1>8, <1>9, <2>1 DEF HDFields
  <2>9. BatchBytes' = BatchBytes
    BY DEF BatchBytes
  <2> HIDE DEF e
  <2> QED  BY <1>2, <1>9, <2>1, <2>3, <2>6, <2>7, <2>8, <2>9 DEF Progress
<1>18. ProgressInv'
  BY <1>17 DEF ProgressInv
<1>19. WalkInv'
  <2> SUFFICES ASSUME FSReads' PROVE WalkInv'
    BY DEF WalkInv
  <2>1. FSReads /\ fs' = fs
    BY <1>1, <1>14
  <2>2. /\ bytes_done' = bytes_done /\ IndexRequest' = IndexRequest
        /\ PartRequest(fs.i - 1)' = PartRequest(fs.i - 1)
    BY <2>1 DEF bytes_done, IndexRequest, PartRequest, FileBlock
  <2>3. fs.i \in Nat /\ bytes_done \in Nat
    BY <2>1 DEF WalkInv
  <2>4. CASE content[FS] = IndexRequest /\ fs.indexed /\ FileRead(bytes_done)
    <3>1. m.area # "tty"
      BY <1>6, <2>4 DEF IndexRequest, DiskRequest
    <3>2. memory'["tty"] = memory["tty"]
      <4> HIDE DEF m
      <4> QED  BY <1>11, <3>1, Sizes_
    <3>3. FileRead(bytes_done)'
      BY <2>1, <2>2, <2>4, <3>2 DEF FileRead, FileBlock
    <3> QED  BY <1>14, <2>1, <2>2, <2>4, <3>3 DEF WalkInv
  <2>5. CASE /\ fs.i > 0 /\ content[FS] = PartRequest(fs.i - 1)
             /\ FileRead((fs.i - 1) * BLOCK_SIZE) /\ IndexRead
    <3> DEFINE o == (fs.i - 1) * BLOCK_SIZE
    <3>1. m.area = "tty" /\ m.offset = o
      BY <1>6, <2>5 DEF PartRequest, DiskRequest
    <3>2. memory'["index"] = memory["index"]
      <4> HIDE DEF m
      <4> QED  BY <1>11, <3>1, Sizes_
    <3>3. ASSUME NEW b \in 0..(o - 1) PROVE memory'["tty"][b] = memory["tty"][b]
      <4>1. o \in Nat /\ o <= Memory["tty"] /\ DOMAIN memory["tty"] = 0..(Memory["tty"] - 1)
            /\ Memory["tty"] \in Nat
        BY <1>7, <1>10, <3>1, Sizes_
      <4>2. b \in DOMAIN memory["tty"] /\ b \notin start..(start + w - 1)
        <5> HIDE DEF o, w
        <5> QED  BY <1>8, <3>1, <3>3, <4>1
      <4> HIDE DEF m, start, w, o
      <4> QED  BY <1>11, <3>1, <4>2
    <3>4. FileRead((fs.i - 1) * BLOCK_SIZE)'
      BY <2>1, <2>5, <3>3 DEF FileRead, FileBlock
    <3>5. IndexRead'
      BY <2>1, <2>2, <2>5, <3>2 DEF IndexRead, IndexRequest, DiskRequest, Filled
    <3> HIDE DEF o
    <3> QED  BY <1>14, <2>1, <2>2, <2>5, <3>4, <3>5 DEF WalkInv
  <2> QED  BY <1>5, <2>1, <2>4, <2>5 DEF WalkInv
<1> QED  BY <1>13, <1>16, <1>18, <1>19

\* what hd_read has stored when it returns
LEMMA ReadUpToBatch ==
    ASSUME ProgressInv, HDWorks, pc[HD] = "reply", hd.msg \in Requests
    PROVE  Filled(hd.msg, FirstBytes(hd.msg))
<1> DEFINE n == hd.msg.bytes_count
<1>1. /\ hd.la \in Nat /\ hd.bytes \in Int /\ earlier = n - hd.bytes - hd.la /\ hd.bytes <= 0
      /\ Filled(hd.msg, smaller(stored, n))
  BY DEF ProgressInv, Progress, earlier
<1>2. n \in Nat /\ BatchBytes \in Nat /\ FirstBytes(hd.msg) = smaller(n, BatchBytes)
  BY BlockFits, RequestFacts DEF FirstBytes, BatchBytes
<1> HIDE DEF n
<1>3. stored \in Nat /\ (stored >= n \/ stored = BatchBytes)
  BY <1>1, <1>2 DEF stored
<1>4. /\ smaller(stored, n) \in Nat /\ smaller(n, BatchBytes) \in Nat
      /\ smaller(n, BatchBytes) <= smaller(stored, n)
  BY <1>2, <1>3 DEF smaller
<1> QED  BY <1>1, <1>2, <1>4 DEF Filled

LEMMA HDTransfers ==
    ASSUME RunInv, TransferInv, task_hd
    PROVE  TransferInv'
<1> USE DEF TransferInv
<1>0. /\ FS \in Three /\ HD \in Three /\ FS # HD /\ FS \in Proc /\ HD \in Proc
      /\ WakeInv /\ Undisturbed /\ Places /\ DiskMessages /\ Handshake /\ Signals /\ Sectors
      /\ SECTOR_SIZE \in Nat \ {0} /\ MaxBatch \in Nat \ {0}
  BY TaskPids, Sizes_ DEF Three, RunInv, StepInv, RendezvousInv
<1>1. fs' = fs /\ Sectors'
  BY HDSteps DEF StepInv, task_hd, hd_receive, hd_request, hd_command, hd_wait,
                 hd_next_command, hd_data, hd_reply
\* what the step finds of task_fs, and leaves
<1>2. ASSUME Apart(HD)
      PROVE  /\ pc'[FS] = pc[FS] /\ doing'[FS] = doing[FS] /\ content'[FS] = content[FS]
             /\ (Pending' <=> Pending) /\ (FSReads' <=> FSReads)
             /\ memory' = memory => WalkInv'
  <2>1. pc'[FS] = pc[FS] /\ doing'[FS] = doing[FS] /\ content'[FS] = content[FS]
    BY <1>0, <1>2 DEF Apart
  <2>2. (Pending' <=> Pending) /\ (FSReads' <=> FSReads)
    BY <1>1, <2>1 DEF Pending, FSReads
  <2>3. ASSUME memory' = memory PROVE WalkInv'
    BY <1>1, <2>1, <2>2, <2>3, WalkKept
  <2> QED  BY <2>1, <2>2, <2>3
<1>3. HDBusy => Pending /\ content[FS] \in Requests
  BY <1>0 DEF Handshake, FSAwaits, Pending, RequestInv
<1>4. Requests' = Requests /\ BatchBytes' = BatchBytes
  BY DEF Requests, BatchBytes
<1>5. CASE hd_receive
  <2>1. /\ receive_enter(HD, ANY) /\ pc[HD] = "receive" /\ jump(HD, "request")
        /\ content' = content /\ UNCHANGED <<hd, memory, disk, irq, dropped>>
    BY <1>5 DEF hd_receive
  <2>2. Begins(HD, Receiving(ANY))
    BY <1>0, <2>1, ReceiveBegins
  <2>3. Apart(HD) /\ pc'[HD] = "request" /\ doing'[HD] = Receiving(ANY)
    BY <1>0, <2>1, <2>2, BeginsApart
  <2>4. ~HDBusy'
    BY <2>3, DoingsDiffer DEF HDBusy
  <2>5. Pending' => content'[FS] \in Requests
    BY <1>2, <2>3 DEF RequestInv
  <2>6. MemoryInv'
    BY <2>1, MemoryKept
  <2>7. WalkInv'
    BY <1>2, <2>1, <2>3
  <2> QED  BY <2>4, <2>5, <2>6, <2>7, DriverIdle
<1>6. CASE hd_request
  <2>1. /\ Ready(HD) /\ pc[HD] = "request" /\ jump(HD, "command") /\ content' = content
        /\ hd' = [stage |-> "read", src |-> source[HD], msg |-> content[HD],
                  sum |-> sectors(content[HD].bytes_count),
                  bytes |-> content[HD].bytes_count, la |-> 0, epoch |-> 0]
        /\ UNCHANGED vars /\ UNCHANGED <<memory, disk, irq, dropped>>
    BY <1>6 DEF hd_request
  <2>2. Apart(HD) /\ pc'[HD] = "command" /\ doing[HD] = run /\ doing'[HD] = run
    BY <1>0, <2>1, BetweenApart
  <2>3. content[HD] = content[FS] /\ content[FS] \in Requests
    BY <1>3, <2>1, <2>2 DEF RequestInv, HDBusy
  <2>4. /\ hd'.msg = content[FS] /\ hd'.la = 0 /\ hd'.bytes = content[FS].bytes_count
        /\ hd'.bytes \in Nat
    BY <2>1, <2>3 DEF Requests
  <2>5. MemoryInv'
    <3>1. hd'.sum \in Nat
      BY <1>1, <2>2 DEF Sectors
    <3> QED  BY <2>1, <3>1 DEF MemoryInv, Cell
  <2>6. RequestInv'
    BY <1>2, <1>3, <1>4, <2>2, <2>3, <2>4, DoingsDiffer DEF RequestInv
  <2>7. ProgressInv'
    <3>1. earlier' = 0 /\ stored' = 0
      BY <2>4 DEF earlier, stored
    <3>2. Filled(hd.msg, smaller(stored, hd.msg.bytes_count))'
      BY <2>4, <3>1 DEF Filled, smaller
    <3> QED  BY <2>2, <2>4, <3>1, <3>2 DEF ProgressInv, Progress
  <2>8. WalkInv'
    BY <1>2, <2>1, <2>2
  <2> QED  BY <2>5, <2>6, <2>7, <2>8
<1>7. CASE hd_command
  <2> DEFINE count == batch(hd.sum)
  <2>1. /\ Ready(HD) /\ pc[HD] = "command" /\ content' = content
        /\ UNCHANGED vars /\ UNCHANGED <<memory, irq, dropped>>
        /\ \/ /\ hd.sum > 0
              /\ disk' = [sector |-> hd.msg.sector_head, left |-> count, drq |-> FALSE]
              /\ hd' = [hd EXCEPT !.sum = @ - count, !.la = 0, !.epoch = 0]
              /\ jump(HD, "loop")
           \/ ~(hd.sum > 0) /\ jump(HD, "reply") /\ UNCHANGED <<disk, hd>>
    BY <1>7 DEF hd_command
  <2>2. PICK place \in {"loop", "reply"} : jump(HD, place)
    BY <2>1
  <2>3. Apart(HD) /\ pc'[HD] = place /\ doing[HD] = run /\ doing'[HD] = run
    BY <1>0, <2>1, <2>2, BetweenApart
  <2>4. hd.msg = content[FS] /\ content[FS] \in Requests
    BY <1>3, <2>1 DEF RequestInv, HDBusy, HDWorks
  <2>5. hd.msg.sector_head \in Nat /\ hd.msg.bytes_count \in Nat \ {0}
    BY <2>4 DEF Requests
  <2>6. /\ HDFields \subseteq DOMAIN hd /\ hd.sum \in Nat /\ hd.bytes \in Int
        /\ hd.sum = SectorsOf(hd.bytes)
    <3>1. disk.left = 0 /\ hd.sum + disk.left = SectorsOf(hd.bytes) /\ hd.sum \in Nat
      BY <1>0, <2>1 DEF Sectors
    <3>2. hd.sum + 0 = hd.sum
      BY <3>1
    <3> QED  BY <1>0, <2>1, <3>1, <3>2 DEF Sectors
  <2>7. count \in 0..MaxBatch /\ hd.sum - count \in Nat
    BY <1>0, <2>6 DEF batch, smaller
  <2>8. CASE /\ hd.sum > 0
             /\ disk' = [sector |-> hd.msg.sector_head, left |-> count, drq |-> FALSE]
             /\ hd' = [hd EXCEPT !.sum = @ - count, !.la = 0, !.epoch = 0]
             /\ jump(HD, "loop")
    <3>1. /\ hd'.msg = hd.msg /\ hd'.bytes = hd.bytes /\ hd'.la = 0 /\ hd'.stage = hd.stage
          /\ hd'.sum = hd.sum - count /\ disk'.sector = hd.msg.sector_head
      <4> HIDE DEF count
      <4> QED  BY <2>6, <2>8 DEF HDFields
    <3>2. pc'[HD] = "loop"
      BY <1>0, <2>8 DEF jump, Places, Three
    <3>3. disk' \in [sector : Nat, left : 0..MaxBatch, drq : BOOLEAN]
      <4> HIDE DEF count
      <4> QED  BY <2>5, <2>7, <2>8
    <3>4. MemoryInv'
      <4> HIDE DEF count
      <4> QED  BY <2>1, <2>7, <3>1, <3>3 DEF MemoryInv, Cell
    <3>5. RequestInv'
      BY <1>2, <1>3, <1>4, <2>1, <2>3, <2>4, <3>1, <3>2, DoingsDiffer
      DEF RequestInv, HDBusy
    <3>6. Progress'
      <4> DEFINE n == hd.msg.bytes_count
      <4>1. /\ hd.la \in Nat /\ earlier \in Nat /\ earlier = n - hd.bytes - hd.la
            /\ earlier = 0 \/ earlier >= BatchBytes
            /\ Filled(hd.msg, smaller(stored, n))
            /\ hd.bytes <= 0 \/ hd.la >= BatchBytes \/ (hd.la = 0 /\ earlier = 0)
        BY <2>1 DEF ProgressInv, Progress, HDWorks, earlier
      <4>2. hd.bytes > 0 /\ n \in Nat /\ BatchBytes \in Nat /\ hd.bytes \in Int
        BY <2>5, <2>6, <2>8, SectorFacts, BlockFits
      <4>3. earlier' = earlier + hd.la
        <5>1. earlier' = n - hd.bytes - 0
          BY <3>1 DEF earlier
        <5> HIDE DEF n
        <5> QED  BY <4>1, <4>2, <5>1
      <4>4. earlier' \in Nat /\ (earlier' = 0 \/ earlier' >= BatchBytes)
        BY <4>1, <4>2, <4>3
      <4>5. Filled(hd.msg, smaller(stored', n))
        <5>1. CASE earlier' = 0
          <6>1. stored' = 0
            BY <3>1, <5>1 DEF stored
          <6> QED  BY <4>2, <6>1 DEF Filled, smaller
        <5>2. CASE earlier' # 0
          <6>1. stored' = BatchBytes /\ stored \in Nat /\ stored >= BatchBytes
            BY <1>4, <4>1, <4>2, <4>3, <5>2 DEF stored
          <6>2. /\ smaller(stored, n) \in Nat /\ smaller(stored', n) \in Nat
                /\ smaller(stored', n) <= smaller(stored, n)
            <7> HIDE DEF n
            <7> QED  BY <4>2, <6>1 DEF smaller
          <6> QED  BY <4>1, <6>2 DEF Filled
        <5> QED  BY <5>1, <5>2
      <4>6. Filled(hd.msg, smaller(stored, hd.msg.bytes_count))'
        BY <2>1, <3>1, <4>5 DEF Filled, smaller, byte_at
      <4>7. /\ disk'.sector - hd'.msg.sector_head = 0 /\ 0 * SECTOR_SIZE = 0
            /\ hd'.la = 0 /\ hd'.bytes \in Int /\ hd'.epoch = 0
        <5>1. hd'.epoch = 0
          <6> HIDE DEF count
          <6> QED  BY <2>6, <2>8 DEF HDFields
        <5> QED  BY <1>0, <2>5, <2>6, <3>1, <5>1
      <4> HIDE DEF n
      <4> QED  BY <1>4, <3>2, <4>4, <4>6, <4>7 DEF Progress
    <3>7. ProgressInv'
      BY <3>6 DEF ProgressInv
    <3>8. WalkInv'
      BY <1>2, <2>1, <2>3
    <3> QED  BY <3>4, <3>5, <3>7, <3>8
  <2>9. CASE ~(hd.sum > 0) /\ jump(HD, "reply") /\ UNCHANGED <<disk, hd>>
    <3>1. pc'[HD] = "reply"
      BY <1>0, <2>9 DEF jump, Places, Three
    <3>2. hd.bytes <= 0
      BY <2>6, <2>9, SectorFacts
    <3>3. MemoryInv'
      BY <2>1, <2>9, MemoryKept
    <3>4. RequestInv'
      BY <1>2, <1>3, <1>4, <2>1, <2>3, <2>4, <2>9, <3>1, DoingsDiffer
      DEF RequestInv, HDBusy
    <3>5. ProgressInv'
      <4>1. HDWorks /\ hd' = hd /\ memory' = memory
        BY <2>1, <2>9 DEF HDWorks
      <4> QED  BY <1>4, <3>1, <3>2, <4>1, StoredKept DEF ProgressInv, Progress
    <3>6. WalkInv'
      BY <1>2, <2>1, <2>3
    <3> QED  BY <3>3, <3>4, <3>5, <3>6
  <2> QED  BY <2>1, <2>8, <2>9
<1>8. CASE hd_wait
  <2>1. /\ receive_enter(HD, INTERRUPT) /\ pc[HD] = "loop" /\ jump(HD, "data")
        /\ content' = content /\ hd' = [hd EXCEPT !.epoch = @ + 1]
        /\ UNCHANGED <<memory, disk, irq, dropped>>
    BY <1>8 DEF hd_wait
  <2>2. Begins(HD, Receiving(INTERRUPT))
    BY <1>0, <2>1, ReceiveBegins
  <2>3. Apart(HD) /\ pc'[HD] = "data" /\ doing'[HD] = Receiving(INTERRUPT)
    BY <1>0, <2>1, <2>2, BeginsApart
  <2>4. HDFields \subseteq DOMAIN hd
    BY <1>0, <2>1 DEF Sectors
  <2>5. /\ hd'.msg = hd.msg /\ hd'.bytes = hd.bytes /\ hd'.la = hd.la
        /\ hd'.sum = hd.sum /\ hd'.stage = hd.stage
    BY <2>1, <2>4 DEF HDFields
  <2>6. MemoryInv'
    BY <2>1, <2>5 DEF MemoryInv, Cell
  <2>7. RequestInv'
    BY <1>2, <1>3, <1>4, <2>1, <2>3, <2>5, DoingsDiffer DEF RequestInv, HDBusy, HDWorks
  <2>8. ProgressInv'
    <3>1. memory' = memory /\ disk' = disk /\ hd'.epoch = hd.epoch + 1 /\ HDWorks
      BY <2>1, <2>4 DEF HDFields, HDWorks
    <3>2. Progress /\ (hd.epoch = disk.sector - hd.msg.sector_head)
          /\ disk.sector - hd.msg.sector_head \in Nat
      BY <2>1, <3>1 DEF ProgressInv, Progress
    <3> QED  BY <1>4, <2>1, <2>3, <2>5, <3>1, <3>2, StoredKept DEF ProgressInv, Progress
  <2>9. WalkInv'
    BY <1>2, <2>1, <2>3
  <2> QED  BY <2>6, <2>7, <2>8, <2>9
<1>9. CASE hd_next_command
  <2>1. /\ Ready(HD) /\ pc[HD] = "loop" /\ jump(HD, "command") /\ content' = content
        /\ UNCHANGED vars /\ UNCHANGED <<hd, memory, disk, irq, dropped>>
    BY <1>9 DEF hd_next_command
  <2>2. Apart(HD) /\ pc'[HD] = "command" /\ doing'[HD] = run
    BY <1>0, <2>1, BetweenApart
  <2>3. MemoryInv'
    BY <2>1, MemoryKept
  <2>4. RequestInv'
    BY <1>2, <1>3, <1>4, <2>1, <2>2, DoingsDiffer DEF RequestInv, HDBusy, HDWorks
  <2>5. ProgressInv'
    <3> DEFINE e == disk.sector - hd.msg.sector_head
    <3>1. Progress /\ e \in Nat /\ hd.la = e * SECTOR_SIZE /\ hd.epoch = e
      BY <2>1 DEF ProgressInv, Progress, HDWorks
    <3>2. hd.bytes <= 0 \/ hd.la >= BatchBytes
      <4>1. hd.bytes <= 0 \/ hd.epoch >= MaxBatch
        BY <1>0, <1>9, <2>1, <3>1 DEF hd_next_command, wanted, Progress
      <4>2. ASSUME e >= MaxBatch PROVE e * SECTOR_SIZE >= BatchBytes
        <5> HIDE DEF e
        <5> QED  BY <1>0, <3>1, <4>2, ProductsOrdered DEF BatchBytes
      <4> HIDE DEF e
      <4> QED  BY <3>1, <4>1, <4>2
    <3>3. hd' = hd /\ memory' = memory
      BY <2>1
    <3> QED  BY <1>4, <2>2, <3>1, <3>2, <3>3, StoredKept DEF ProgressInv, Progress
  <2>6. WalkInv'
    BY <1>2, <2>1, <2>2
  <2> QED  BY <2>3, <2>4, <2>5, <2>6
<1>10. CASE hd_data
  BY <1>10, DataTransfers
<1>11. CASE hd_reply
  <2>1. /\ send_enter(HD, hd.src) /\ pc[HD] = "reply" /\ jump(HD, "receive")
        /\ content' = [content EXCEPT ![HD] = hd.msg]
        /\ UNCHANGED <<hd, memory, disk, irq, dropped>>
    BY <1>11 DEF hd_reply
  <2>2. hd.src = FS
    BY <1>0, <2>1 DEF DiskMessages
  <2>3. Begins(HD, Sending(FS))
    BY <1>0, <2>1, <2>2, SendBegins
  <2>4. Apart(HD) /\ pc'[HD] = "receive" /\ doing'[HD] = Sending(FS)
    BY <1>0, <2>1, <2>3, BeginsApart
  <2>5. /\ hd.msg = content[FS] /\ content[FS] \in Requests /\ Pending
        /\ content'[HD] = content[FS] /\ content'[FS] = content[FS]
    BY <1>0, <1>2, <1>3, <2>1, <2>4 DEF RequestInv, HDBusy, HDWorks, Places
  <2>6. MemoryInv'
    BY <2>1, MemoryKept
  <2>7. Filled(content[FS], FirstBytes(content[FS]))'
    <3>1. Filled(content[FS], FirstBytes(content[FS]))
      BY <2>1, <2>5, ReadUpToBatch DEF HDWorks
    <3> QED  BY <2>1, <2>5, <3>1 DEF Filled, FirstBytes, smaller, byte_at
  <2>8. RequestInv' /\ ProgressInv'
    <3>1. ~HDWorks' /\ pc'[HD] # "request"
      BY <2>4 DEF HDWorks
    <3> QED  BY <1>2, <1>4, <2>4, <2>5, <2>7, <3>1 DEF RequestInv, ProgressInv
  <2>9. WalkInv'
    BY <1>2, <2>1, <2>4
  <2> QED  BY <2>6, <2>8, <2>9
<1> QED  BY <1>5, <1>6, <1>7, <1>8, <1>9, <1>10, <1>11 DEF task_hd

-----------------------------------------------------------------------------
(* Calls and interrupts                                                    *)

\* what a part that has been read adds to the file
LEMMA PartAdds ==
    ASSUME NEW i \in Nat, i > 0, bytes_done \in Nat, bytes_done <= i * BLOCK_SIZE,
           FileRead((i - 1) * BLOCK_SIZE),
           Filled(PartRequest(i - 1), PartRequest(i - 1).bytes_count)
    PROVE  FileRead(bytes_done)
<1> DEFINE o == (i - 1) * BLOCK_SIZE
<1>1. /\ BLOCK_SIZE \in Nat \ {0} /\ o \in Nat /\ i * BLOCK_SIZE = o + BLOCK_SIZE
      /\ i - 1 \in Nat
  BY Sizes_
<1> SUFFICES ASSUME NEW b \in 0..(bytes_done - 1)
             PROVE  memory["tty"][b] = byte_at(2 * FileBlock(b \div BLOCK_SIZE),
                                               b % BLOCK_SIZE)
  BY DEF FileRead
<1>2. \A c \in 0..(bytes_done - o - 1) :
          memory["tty"][o + c] = byte_at(2 * FileBlock(i - 1), c)
  BY DEF Filled, Holds, PartRequest, DiskRequest
<1>3. CASE b < o
  <2>1. b \in 0..(o - 1)
    BY <1>1, <1>3
  <2> QED  BY <2>1 DEF FileRead
<1>4. CASE ~(b < o)
  <2> DEFINE c == b - o
  <2>1. c \in 0..(BLOCK_SIZE - 1) /\ c \in 0..(bytes_done - o - 1) /\ o + c = b
    <3> HIDE DEF o
    <3> QED  BY <1>1, <1>4
  <2>2. b = ((i - 1) * BLOCK_SIZE) + c
    BY <2>1
  <2>3. b \div BLOCK_SIZE = i - 1 /\ b % BLOCK_SIZE = c
    <3> DEFINE e == i - 1
    <3>1. e \in Nat /\ c \in 0..(BLOCK_SIZE - 1) /\ b = (e * BLOCK_SIZE) + c
      BY <1>1, <2>1, <2>2
    <3> HIDE DEF c, e
    <3>2. b \div BLOCK_SIZE = e /\ b % BLOCK_SIZE = c
      BY <1>1, <3>1, Divided
    <3> QED  BY <3>2 DEF e
  <2>4. memory["tty"][o + c] = byte_at(2 * FileBlock(i - 1), c)
    <3> HIDE DEF c, o
    <3> QED  BY <1>2, <2>1
  <2> HIDE DEF c, o
  <2> QED  BY <2>1, <2>3, <2>4
<1> QED  BY <1>3, <1>4

LEMMA CallTransfers ==
    ASSUME RunInv, TransferInv, in_call
    PROVE  TransferInv'
<1> USE DEF TransferInv
<1>0. /\ TTY \in Proc /\ FS \in Proc /\ HD \in Proc
      /\ TTY # FS /\ HD # TTY /\ HD # FS /\ HD # ANY
      /\ Places /\ Handshake /\ DOMAIN content = Proc /\ RendezvousInv /\ Undisturbed
  BY TaskPids, NotPids DEF RunInv, StepInv, Places
<1>1. UNCHANGED <<pc, tty, fs, hd, memory, disk, irq>> /\ dropped' \in BOOLEAN
  BY DEF in_call
<1>2. MemoryInv'
  BY <1>1 DEF MemoryInv, Cell
<1>3. UNCHANGED <<fs, hd, memory>> /\ disk'.sector = disk.sector
      /\ pc'[FS] = pc[FS] /\ pc'[HD] = pc[HD]
  BY <1>1
<1>4. CASE Nothing
  <2>1. /\ doing'[FS] = doing[FS] /\ doing'[HD] = doing[HD]
        /\ content'[FS] = content[FS] /\ content'[HD] = content[HD]
    BY <1>0, <1>4 DEF Nothing, Same
  <2>2. Pending' <=> Pending
    BY <1>3, <2>1 DEF Pending
  <2> QED  BY <1>2, <1>3, <2>1, <2>2, TransferKept
<1>5. CASE Tells
  <2>1. /\ doing'[FS] = doing[FS] /\ doing'[HD] = run
        /\ content'[FS] = content[FS] /\ content'[HD] = content[HD]
    BY <1>0, <1>5 DEF Tells, Same
  <2>2. Pending' <=> Pending
    BY <1>3, <2>1 DEF Pending
  <2>3. pc[HD] # "request"
    BY <1>5, KeptForSector
  <2> QED  BY <1>2, <1>3, <2>1, <2>2, <2>3, TransferKept
<1>6. ASSUME NEW p \in Proc, Drops(p) PROVE TransferInv'
  <2>1. /\ content'[FS] = content[FS] /\ content'[HD] = content[HD]
        /\ doing'[FS] = doing[FS] \/ doing'[FS] = run
        /\ p # HD => doing'[HD] = doing[HD]
        /\ p # FS => doing'[FS] = doing[FS]
        /\ p = HD => doing'[HD] = run
        /\ \E q \in Proc : doing[p] = Sending(q)
    BY <1>0, <1>6 DEF Drops, Keeps, Same
  <2>2. Pending' <=> Pending
    BY <1>3, <2>1, DoingsDiffer DEF Pending
  <2>3. doing'[HD] = doing[HD] \/ (doing'[HD] = run /\ pc[HD] # "request")
    BY <1>0, <2>1, DoingsDiffer DEF Places
  <2> QED  BY <1>2, <1>3, <2>1, <2>2, <2>3, TransferKept
<1>7. ASSUME NEW p \in Proc, NEW d \in Proc, Passes(p, d) PROVE TransferInv'
  <2>1. \/ p = TTY /\ d = FS /\ Requesting
        \/ p = FS /\ d = TTY /\ Answering
        \/ p = FS /\ d = HD /\ Asking
        \/ p = HD /\ d = FS /\ Reporting
    BY <1>7, Meetings
  <2>2. /\ doing'[p] = run /\ content'[p] = content[p]
        /\ doing'[d] = run /\ content'[d] = content[p]
        /\ FS \notin {p, d} => doing'[FS] = doing[FS] /\ content'[FS] = content[FS]
        /\ HD \notin {p, d} => doing'[HD] = doing[HD] /\ content'[HD] = content[HD]
    BY <1>0, <1>7 DEF Passes, Keeps, Same
  <2>3. CASE p = TTY /\ d = FS /\ Requesting
    <3>1. /\ pc[FS] = "request" /\ doing[FS] = Receiving(ANY) /\ doing'[FS] = run
          /\ doing'[HD] = doing[HD]
      BY <1>0, <2>2, <2>3 DEF Requesting
    <3>2. ~Pending' /\ ~FSReads'
      BY <1>1, <3>1, DoingsDiffer DEF Pending, FSReads
    <3>3. ~HDBusy'
      BY <1>0, <1>1, <3>1, DoingsDiffer DEF Handshake, HDBusy, FSAwaits
    <3>4. WalkInv'
      BY <3>2 DEF WalkInv
    <3> QED  BY <1>2, <3>2, <3>3, <3>4, DriverIdle
  <2>4. CASE p = FS /\ d = TTY /\ Answering
    <3>1. /\ pc[FS] = "receive" /\ doing[FS] = Sending(TTY) /\ doing'[FS] = run
          /\ doing'[HD] = doing[HD] /\ content'[HD] = content[HD]
          /\ content'[FS] = content[FS]
      BY <1>0, <2>2, <2>4 DEF Answering
    <3>2. Pending' <=> Pending
      BY <1>1, <3>1, DoingsDiffer DEF Pending
    <3> QED  BY <1>2, <1>3, <3>1, <3>2, TransferKept
  <2>5. CASE p = FS /\ d = HD /\ Asking
    <3>1. /\ pc[FS] = "op_sent" /\ pc[HD] = "request" /\ doing'[HD] = run
          /\ content'[HD] = content[FS] /\ content'[FS] = content[FS]
      BY <1>0, <2>2, <2>5 DEF Asking
    <3>2. Pending /\ Pending' /\ (FSReads' <=> FSReads)
      BY <1>1, <3>1 DEF Pending, FSReads
    <3>3. ~HDWorks'
      BY <1>1, <3>1 DEF HDWorks
    <3>4. Requests' = Requests
      BY DEF Requests
    <3>5. RequestInv' /\ ProgressInv'
      BY <3>1, <3>2, <3>3, <3>4, DoingsDiffer DEF RequestInv, ProgressInv
    <3>6. WalkInv'
      <4>1. UNCHANGED <<fs, memory>> /\ (pc'[FS] = "reply" => pc[FS] = "reply")
        BY <1>1
      <4> QED  BY <3>1, <3>2, <4>1, WalkKept
    <3> QED  BY <1>2, <3>5, <3>6
  <2>6. CASE p = HD /\ d = FS /\ Reporting
    <3>1. /\ pc[HD] = "receive" /\ doing[HD] = Sending(FS) /\ pc[FS] \in {"receive", "walk"}
          /\ doing[FS] = Receiving(HD) /\ doing'[HD] = run /\ doing'[FS] = run
          /\ content'[FS] = content[HD]
      BY <1>0, <2>2, <2>6 DEF Reporting
    <3>2. /\ content'[FS] = content[FS] /\ content[FS] \in Requests /\ Pending
          /\ Filled(content[FS], FirstBytes(content[FS]))
      BY <3>1 DEF RequestInv, Pending
    <3>3. ~Pending' /\ ~HDBusy'
      BY <1>1, <3>1, DoingsDiffer DEF Pending, HDBusy
    <3>4. WalkInv'
      <4> SUFFICES ASSUME FSReads' PROVE WalkInv'
        BY DEF WalkInv
      <4>1. FSReads /\ fs' = fs /\ memory' = memory /\ pc'[FS] # "reply"
        BY <1>1, <3>1 DEF FSReads
      <4>2. /\ fs.i \in Nat /\ bytes_done \in Nat /\ bytes_done <= fs.i * BLOCK_SIZE
        BY <4>1 DEF WalkInv
      <4>3. FileRead(bytes_done) /\ IndexRead
        <5>1. CASE content[FS] = IndexRequest /\ fs.indexed /\ FileRead(bytes_done)
          <6>1. content[FS].bytes_count = BLOCK_SIZE
            BY <5>1 DEF IndexRequest, DiskRequest
          <6>2. FirstBytes(content[FS]) = BLOCK_SIZE
            BY <6>1, Sizes_, BlockFits
          <6> QED  BY <3>2, <5>1, <6>2 DEF IndexRead
        <5>2. CASE /\ fs.i > 0 /\ content[FS] = PartRequest(fs.i - 1)
                   /\ FileRead((fs.i - 1) * BLOCK_SIZE) /\ IndexRead
          <6>1. content[FS].bytes_count \in 0..BLOCK_SIZE
            <7> DEFINE o == (fs.i - 1) * BLOCK_SIZE
            <7>1. content[FS].bytes_count \in Nat
              BY <3>2, RequestFacts
            <7>2. content[FS].bytes_count = bytes_done - o
              BY <5>2 DEF PartRequest, DiskRequest
            <7>3. o \in Nat /\ fs.i * BLOCK_SIZE = o + BLOCK_SIZE
              BY <4>2, <5>2, Sizes_
            <7> HIDE DEF o
            <7> QED  BY <4>2, <7>1, <7>2, <7>3, Sizes_
          <6>2. Filled(PartRequest(fs.i - 1), PartRequest(fs.i - 1).bytes_count)
            BY <3>2, <5>2, <6>1, BlockFits
          <6> QED  BY <4>2, <5>2, <6>2, PartAdds
        <5> QED  BY <3>2, <4>1, <5>1, <5>2 DEF WalkInv
      <4>4. FileRead(bytes_done)' /\ IndexRead'
        BY <4>1, <4>3, WalkSame
      <4>5. bytes_done' = bytes_done
        BY <4>1 DEF bytes_done
      <4> QED  BY <3>3, <4>1, <4>4, <4>5 DEF WalkInv
    <3> QED  BY <1>2, <3>3, <3>4, DriverIdle
  <2> QED  BY <2>1, <2>3, <2>4, <2>5, <2>6
<1> QED  BY <1>0, <1>4, <1>5, <1>6, <1>7, IPCSteps

LEMMA DiskTransfers ==
    ASSUME RunInv, TransferInv, disk_ready \/ hd_interrupt \/ UNCHANGED tasksVars
    PROVE  TransferInv'
<1> USE DEF TransferInv
<1>1. UNCHANGED <<pc, content, fs, hd, memory>>
  BY DEF disk_ready, hd_interrupt, tasksVars, tasks
<1>2. disk'.sector = disk.sector /\ MemoryInv'
  <2>1. CASE disk_ready
    <3>1. disk' = [disk EXCEPT !.drq = TRUE] /\ irq' = TRUE /\ dropped' = dropped
      BY <2>1 DEF disk_ready
    <3>2. /\ disk'.sector = disk.sector
          /\ disk' \in [sector : Nat, left : 0..MaxBatch, drq : BOOLEAN]
      BY <3>1 DEF MemoryInv
    <3> QED  BY <1>1, <3>1, <3>2 DEF MemoryInv, Cell
  <2>2. CASE hd_interrupt
    BY <1>1, <2>2 DEF hd_interrupt, MemoryInv, Cell
  <2>3. CASE UNCHANGED tasksVars
    BY <2>3 DEF tasksVars, tasks, MemoryInv, Cell
  <2> QED  BY <2>1, <2>2, <2>3
<1>3. /\ doing'[FS] = doing[FS]
      /\ doing'[HD] = doing[HD] \/ (doing'[HD] = run /\ pc[HD] # "request")
  <2>1. CASE disk_ready \/ UNCHANGED tasksVars
    <3>1. UNCHANGED vars /\ Undisturbed
      BY <2>1 DEF disk_ready, tasksVars, RunInv
    <3> QED  BY <3>1, NoCallStep, TaskPids DEF Between
  <2>2. CASE hd_interrupt
    BY <2>2, DiskInterrupts DEF HandlerTells, HandlerKeeps
  <2> QED  BY <2>1, <2>2
<1>4. Pending' <=> Pending
  BY <1>1, <1>3 DEF Pending
<1>5. UNCHANGED <<fs, hd, memory>> /\ pc'[FS] = pc[FS] /\ pc'[HD] = pc[HD]
      /\ content'[HD] = content[HD] /\ content'[FS] = content[FS]
  BY <1>1
<1> QED  BY <1>2, <1>3, <1>4, <1>5, TransferKept

LEMMA TransferInvariant == TasksSpec => [](RunInv /\ TransferInv)
<1>1. TasksInit => TransferInv
  BY TransferInit
<1>2. RunInv /\ TransferInv /\ [TasksNext]_tasksVars => TransferInv'
  BY TTYTransfers, FSTransfers, HDTransfers, CallTransfers, DiskTransfers DEF TasksNext
<1> QED  BY <1>1, <1>2, RunInvariant, PTL DEF TasksSpec

(***************************************************************************)
(* When task_hd answers, the buffer has what was asked for, byte by byte,  *)
(* however the interrupts, the calls and the requests interleave: all of a *)
(* request that one command can read, and what the first command reads of  *)
(* a longer one (hd_batch.cfg: and no more), whatever the size of the      *)
(* inode table.                                                            *)
(***************************************************************************)
THEOREM AnswersUpToBatch == TasksSpec => []AnsweredUpToBatch
<1>1. RunInv /\ TransferInv => AnsweredUpToBatch
  <2> SUFFICES ASSUME RunInv, TransferInv, pc[HD] = "reply"
               PROVE  Filled(hd.msg, FirstBytes(hd.msg))
    BY DEF AnsweredUpToBatch
  <2>1. HDBusy /\ HDWorks /\ Pending
    BY DEF HDBusy, HDWorks, RunInv, StepInv, Handshake, FSAwaits, Pending
  <2>2. hd.msg \in Requests
    BY <2>1 DEF TransferInv, RequestInv
  <2> QED  BY <2>1, <2>2, ReadUpToBatch DEF TransferInv
<1> QED  BY <1>1, TransferInvariant, PTL

(***************************************************************************)
(* When task_fs answers a request for a file, the buffer of the terminal   *)
(* has the file, through the indirect block where it is needed: for every  *)
(* file whose inode InodeAt holds, and whatever the size of the table.     *)
(***************************************************************************)
THEOREM AnswersAreFiles == TasksSpec => []AnswerIsTheFile
<1>1. RunInv /\ TransferInv => AnswerIsTheFile
  <2> SUFFICES ASSUME RunInv, TransferInv, pc[FS] = "reply",
                      fs.msg.function \in {"root", "read"},
                      NEW b \in 0..(fs.inode.i_size - 1),
                      b \div BLOCK_SIZE < NDirect + BLOCK_SIZE \div ENTRY_SIZE
               PROVE  memory["tty"][b] =
                          byte_at(2 * FileBlock(b \div BLOCK_SIZE), b % BLOCK_SIZE)
    BY DEF AnswerIsTheFile
  <2>1. FSReads /\ ~Pending /\ fs.bytes \in Nat
    BY DoingsDiffer DEF RunInv, StepInv, Places, DiskMessages, FSReads, Pending
  <2>2. /\ fs.i \in Nat /\ bytes_done \in Nat
        /\ fs.bytes > 0 => bytes_done = fs.i * BLOCK_SIZE
        /\ FileRead(bytes_done)
        /\ fs.bytes = 0 \/ fs.i >= NDirect + entries
    BY <2>1 DEF TransferInv, WalkInv
  <2>3. fs.inode.i_size \in Nat
    BY <2>1, TasksAssumption DEF TransferInv, WalkInv
  <2>4. b < bytes_done
    <3>1. CASE fs.bytes = 0
      BY <2>3, <3>1 DEF bytes_done
    <3>2. CASE fs.bytes > 0
      <4>1. bytes_done = fs.i * BLOCK_SIZE /\ b \in Nat /\ fs.i >= NDirect + entries
        BY <2>1, <2>2, <3>2
      <4>2. b \div BLOCK_SIZE < fs.i
        <5> DEFINE q == b \div BLOCK_SIZE
        <5>1. q < NDirect + entries
          BY DEF entries
        <5>2. q \in Nat
          BY <4>1, Sizes_, QuotientOf
        <5> HIDE DEF q
        <5>3. q < fs.i
          BY <2>2, <4>1, <5>1, <5>2, Sizes_, EntriesFit
        <5> QED  BY <5>3 DEF q
      <4>3. b < fs.i * BLOCK_SIZE
        BY <2>2, <4>1, <4>2, Sizes_, BelowProduct
      <4> QED  BY <4>1, <4>3
    <3> QED  BY <2>1, <3>1, <3>2
  <2>5. b \in 0..(bytes_done - 1)
    BY <2>2, <2>4
  <2> QED  BY <2>2, <2>5 DEF FileRead
<1> QED  BY <1>1, TransferInvariant, PTL

(***************************************************************************)
(* The types, of which two are more than types: memory never has a byte    *)
(* outside its buffers, and hd_read, which counts unsigned, never goes     *)
(* below no sector.                                                        *)
(***************************************************************************)
THEOREM TasksWellTyped == TasksSpec => []TasksTypeOK
<1>1. RunInv /\ TransferInv => TasksTypeOK
  <2> SUFFICES ASSUME RunInv, TransferInv PROVE TasksTypeOK
    OBVIOUS
  <2>1. TypeOK
    BY DEF RunInv, RendezvousInv, WakeInv
  <2>2. /\ pc[TTY] \in {"idle", "sent", "answer"}
        /\ pc[FS] \in {"receive", "request", "walk", "op", "op_sent", "reply"}
        /\ pc[HD] \in {"receive", "request", "command", "loop", "data", "reply"}
    BY DEF RunInv, StepInv, Places
  <2> QED  BY <2>1, <2>2 DEF TransferInv, MemoryInv, TasksTypeOK
<1> QED  BY <1>1, TransferInvariant, PTL
=============================================================================
