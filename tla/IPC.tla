-------------------------------- MODULE IPC ---------------------------------
(***************************************************************************)
(* Synchronous message passing between the tasks: send_msg, receive_msg,   *)
(* is_deadlock, block and unblock of lib/process/process.cc, and the part  *)
(* of the disk interrupt handler that takes part in it (hd_handler,        *)
(* lib/interrupt/interrupt.cc).                                            *)
(*                                                                         *)
(* A system call runs in the kernel with interrupts enabled (sys_call in   *)
(* kernel.asm executes sti), so a call is a few steps between which        *)
(* hd_handler may run; interrupts nest and return to the call they         *)
(* interrupted, so there is one call in progress at a time.  Which         *)
(* runnable process calls next is left open: that is the scheduler's.      *)
(* That a blocked process does not go on, and call again, is assumed here; *)
(* the scheduler does not always keep it (SwitchesToRunnable, Scheduler).  *)
(***************************************************************************)
EXTENDS Integers, Lists

CONSTANTS
    Proc,    \* pids that use messages
    HD,      \* PID_HD, the process hd_handler reports to
    Calls    \* the calls the tasks make: <<caller, "send" | "receive", peer>>

\* include/essential/const.h
RUNNING   == 0
SENDING   == 2
RECEIVING == 4
ANY       == -1
NO_TASK   == -2
INTERRUPT == -3

Source == Proc \cup {ANY, INTERRUPT}
Op     == {"send", "receive"}

ASSUME IPCAssumption ==
    /\ Proc \subseteq Nat
    /\ HD \in Proc
    /\ Calls \subseteq Proc \X Op \X Source
    /\ \A c \in Calls : c[2] = "send" => c[3] \in Proc \ {c[1]}

VARIABLES
    flags,             \* pid -> RUNNING, SENDING or RECEIVING
    message,           \* pid -> is the message pointer of the PCB set
    send_to_record,    \* pid -> whom it wants to send to
    recv_from_record,  \* pid -> whom it wants to receive from
    has_int_msg,       \* pid -> a disk interrupt it has not been told of
    receive_quene,     \* pid -> the first process waiting to send to it
    next_sending,      \* pid -> the next one waiting for the same process
    source,            \* pid -> the source field of its MESSAGE: whose
                       \* message it holds (a sender holds its own)
    call               \* the system call in progress

pcbVars == <<message, send_to_record, recv_from_record, receive_quene, next_sending>>
vars    == <<flags, message, send_to_record, recv_from_record, has_int_msg,
             receive_quene, next_sending, source, call>>

NoCall == [op |-> "none", by |-> NO_TASK, peer |-> NO_TASK, at |-> "user"]

\* init_proc; the fields it does not write are 0 at power up, and nothing
\* reads the two records before a call has written them
Init ==
    /\ flags = [p \in Proc |-> RUNNING]
    /\ message = [p \in Proc |-> FALSE]
    /\ send_to_record = [p \in Proc |-> NO_TASK]
    /\ recv_from_record = [p \in Proc |-> NO_TASK]
    /\ has_int_msg = [p \in Proc |-> FALSE]
    /\ receive_quene = [p \in Proc |-> nullptr]
    /\ next_sending = [p \in Proc |-> nullptr]
    /\ source = [p \in Proc |-> NO_TASK]
    /\ call = NoCall

-----------------------------------------------------------------------------
at(op, place) == call.op = op /\ call.at = place
goto(place)   == call' = [call EXCEPT !.at = place]
return        == call' = NoCall

\* the last process on the list that starts at h, where its next is null
lastSending(h) ==
    WalkTo(Proc, next_sending, h, {p \in Proc : next_sending[p] = nullptr})

\* memcpy of p's message into the buffer of d; a null pointer reads or writes
\* page 0 and leaves the MESSAGE of a task alone
copied(p, d) == IF message[p] THEN [source EXCEPT ![d] = source[p]] ELSE source

-----------------------------------------------------------------------------
(* send_msg                                                                *)

send_enter(src, dest) ==
    /\ call = NoCall
    /\ flags[src] = RUNNING
    /\ <<src, "send", dest>> \in Calls
    /\ source' = [source EXCEPT ![src] = src]
    /\ call' = [op |-> "send", by |-> src, peer |-> dest, at |-> "test"]
    /\ UNCHANGED <<flags, has_int_msg, pcbVars>>

\* is_deadlock: loops for as long as dest is sending to a third process.  No
\* other system call can end that, because none starts before this one ends.
is_deadlock_spins(src, dest) == flags[dest] = SENDING /\ send_to_record[dest] # src

\* the first test of dest; a dest that is not receiving ends the call
send_test ==
    /\ at("send", "test")
    /\ \/ is_deadlock_spins(call.by, call.peer) /\ goto("spin")
       \/ /\ ~is_deadlock_spins(call.by, call.peer)
          /\ IF flags[call.peer] = RECEIVING THEN goto("match") ELSE return
    /\ UNCHANGED <<flags, has_int_msg, source, pcbVars>>

\* send_msg that forgets a receiver may wait for anyone
AcceptsNamed(dest, src) == recv_from_record[dest] = src

\* send_msg that does not look at whom dest waits for
AcceptsAll(dest, src) == TRUE

\* the second test of send_msg
Accepts(dest, src) == recv_from_record[dest] \in {src, ANY}

send_accepted ==
    /\ at("send", "match")
    /\ Accepts(call.peer, call.by)
    /\ goto("copy")
    /\ UNCHANGED <<flags, has_int_msg, source, pcbVars>>

send_copy ==
    LET dest == call.peer IN
    /\ at("send", "copy")
    /\ source' = IF message[dest] THEN [source EXCEPT ![dest] = source[call.by]]
                                  ELSE source
    /\ message' = [message EXCEPT ![dest] = FALSE]
    /\ flags' = [flags EXCEPT ![dest] = RUNNING]
    /\ recv_from_record' = [recv_from_record EXCEPT ![dest] = NO_TASK]
    /\ return
    /\ UNCHANGED <<has_int_msg, send_to_record, receive_quene, next_sending>>

\* src takes the place of the whole queue
enqueue_first(src, dest) ==
    /\ receive_quene' = [receive_quene EXCEPT ![dest] = src]
    /\ next_sending' = [next_sending EXCEPT ![src] = nullptr]

\* receive_quene and next_sending once src has been put at the end of the
\* queue of dest
enqueue(src, dest) ==
    IF receive_quene[dest] = nullptr
    THEN /\ receive_quene' = [receive_quene EXCEPT ![dest] = src]
         /\ next_sending' = [next_sending EXCEPT ![src] = nullptr]
    ELSE /\ next_sending' = [next_sending EXCEPT
               ![lastSending(receive_quene[dest])] = src, ![src] = nullptr]
         /\ UNCHANGED receive_quene

send_queue ==
    LET src == call.by  dest == call.peer IN
    /\ at("send", "match")
    /\ ~Accepts(dest, src)
    /\ send_to_record' = [send_to_record EXCEPT ![src] = dest]
    /\ message' = [message EXCEPT ![src] = TRUE]
    /\ enqueue(src, dest)
    /\ flags' = [flags EXCEPT ![src] = SENDING]
    /\ return
    /\ UNCHANGED <<has_int_msg, recv_from_record, source>>

-----------------------------------------------------------------------------
(* receive_msg                                                             *)

\* receive_msg with its two processes in the order send_msg has them
receive_enter_swapped(dest, src) ==
    /\ call = NoCall
    /\ flags[dest] = RUNNING
    /\ <<dest, "receive", src>> \in Calls
    /\ call' = [op |-> "receive", by |-> src, peer |-> dest, at |-> "test"]
    /\ UNCHANGED <<flags, has_int_msg, source, pcbVars>>

receive_enter(dest, src) ==
    /\ call = NoCall
    /\ flags[dest] = RUNNING
    /\ <<dest, "receive", src>> \in Calls
    /\ call' = [op |-> "receive", by |-> dest, peer |-> src, at |-> "test"]
    /\ UNCHANGED <<flags, has_int_msg, source, pcbVars>>

InterruptPending ==
    has_int_msg[call.by] /\ call.peer \in {ANY, INTERRUPT}

\* the interrupt is reported and stays pending
receive_interrupt_kept ==
    /\ at("receive", "test")
    /\ InterruptPending
    /\ source' = IF message[call.by] THEN [source EXCEPT ![call.by] = INTERRUPT]
                                     ELSE source
    /\ return
    /\ UNCHANGED <<flags, has_int_msg, pcbVars>>

\* a pending interrupt is written through the pointer the previous call left
\* in the PCB, not through msg
receive_interrupt ==
    /\ at("receive", "test")
    /\ InterruptPending
    /\ source' = IF message[call.by] THEN [source EXCEPT ![call.by] = INTERRUPT]
                                     ELSE source
    /\ has_int_msg' = [has_int_msg EXCEPT ![call.by] = FALSE]
    /\ return
    /\ UNCHANGED <<flags, pcbVars>>

receive_no_interrupt ==
    /\ at("receive", "test")
    /\ ~InterruptPending
    /\ goto("take")
    /\ UNCHANGED <<flags, has_int_msg, source, pcbVars>>

\* the sender is answered but not unblocked
take_from_blocked(p, d) ==
    /\ source' = copied(p, d)
    /\ message' = [message EXCEPT ![p] = FALSE]
    /\ send_to_record' = [send_to_record EXCEPT ![p] = NO_TASK]
    /\ UNCHANGED flags

\* what taking the message of p does to p and to the buffer of d
take_from(p, d) ==
    /\ source' = copied(p, d)
    /\ message' = [message EXCEPT ![p] = FALSE]
    /\ send_to_record' = [send_to_record EXCEPT ![p] = NO_TASK]
    /\ flags' = [flags EXCEPT ![p] = RUNNING]

receive_any ==
    LET d == call.by  first == receive_quene[d] IN
    /\ at("receive", "take")
    /\ call.peer = ANY
    /\ first # nullptr
    /\ receive_quene' = [receive_quene EXCEPT ![d] = next_sending[first]]
    /\ next_sending' = [next_sending EXCEPT ![first] = nullptr]
    /\ take_from(first, d)
    /\ return
    /\ UNCHANGED <<has_int_msg, recv_from_record>>

\* the named source is blocked sending to the caller
SenderWaits == /\ call.peer \in Proc
               /\ flags[call.peer] = SENDING
               /\ send_to_record[call.peer] = call.by

\* the walk of receive_msg along the queue of its caller
Searched ==
    Visited(Proc, next_sending, receive_quene[call.by],
            {call.peer} \cup {p \in Proc : next_sending[p] = nullptr})

\* Found behind another sender, src is taken but stays linked: p_prev, a
\* local pointer, is assigned where p_prev->next_sending was meant, and
\* clearing the link of src cuts off those behind it.
receive_named ==
    LET d == call.by  src == call.peer IN
    /\ at("receive", "take")
    /\ SenderWaits
    /\ src \in Searched
    /\ receive_quene' = IF receive_quene[d] = src
                        THEN [receive_quene EXCEPT ![d] = next_sending[src]]
                        ELSE receive_quene
    /\ next_sending' = [next_sending EXCEPT ![src] = nullptr]
    /\ take_from(src, d)
    /\ return
    /\ UNCHANGED <<has_int_msg, recv_from_record>>

\* src claims to be sending but is not on the queue: block without a buffer;
\* with an empty queue the walk starts at the null pointer and is lost
receive_missing ==
    LET d == call.by IN
    /\ at("receive", "take")
    /\ SenderWaits
    /\ call.peer \notin Searched
    /\ IF receive_quene[d] = nullptr
       THEN /\ goto("spin")
            /\ UNCHANGED <<flags, recv_from_record>>
       ELSE /\ recv_from_record' = [recv_from_record EXCEPT ![d] = call.peer]
            /\ flags' = [flags EXCEPT ![d] = RECEIVING]
            /\ return
    /\ UNCHANGED <<has_int_msg, source, message, send_to_record,
                   receive_quene, next_sending>>

\* the receiver blocks without leaving its buffer in the PCB
receive_block_bufferless ==
    LET d == call.by IN
    /\ at("receive", "take")
    /\ call.peer = ANY => receive_quene[d] = nullptr
    /\ ~SenderWaits
    /\ recv_from_record' = [recv_from_record EXCEPT ![d] = call.peer]
    /\ flags' = [flags EXCEPT ![d] = RECEIVING]
    /\ return
    /\ UNCHANGED <<has_int_msg, source, message, send_to_record,
                   receive_quene, next_sending>>

\* no message to take: wait for one
receive_block ==
    LET d == call.by IN
    /\ at("receive", "take")
    /\ call.peer = ANY => receive_quene[d] = nullptr
    /\ ~SenderWaits
    /\ message' = [message EXCEPT ![d] = TRUE]
    /\ recv_from_record' = [recv_from_record EXCEPT ![d] = call.peer]
    /\ flags' = [flags EXCEPT ![d] = RECEIVING]
    /\ return
    /\ UNCHANGED <<has_int_msg, source, send_to_record, receive_quene, next_sending>>

-----------------------------------------------------------------------------
\* The disk interrupt; it may come at any time, inside a system call too.
hd_handler ==
    IF flags[HD] = RECEIVING /\ recv_from_record[HD] \in {INTERRUPT, ANY}
    THEN /\ source' = IF message[HD] THEN [source EXCEPT ![HD] = INTERRUPT]
                                     ELSE source
         /\ message' = [message EXCEPT ![HD] = FALSE]
         /\ has_int_msg' = [has_int_msg EXCEPT ![HD] = FALSE]
         /\ flags' = [flags EXCEPT ![HD] = RUNNING]
         /\ recv_from_record' = [recv_from_record EXCEPT ![HD] = NO_TASK]
         /\ UNCHANGED <<send_to_record, receive_quene, next_sending, call>>
    ELSE /\ has_int_msg' = [has_int_msg EXCEPT ![HD] = TRUE]
         /\ UNCHANGED <<flags, source, call, pcbVars>>

Next ==
    \/ \E p, q \in Proc : send_enter(p, q)
    \/ \E p \in Proc, s \in Source : receive_enter(p, s)
    \/ send_test \/ send_accepted \/ send_copy \/ send_queue
    \/ receive_interrupt \/ receive_no_interrupt
    \/ receive_any \/ receive_named \/ receive_missing \/ receive_block
    \/ hd_handler

Spec == Init /\ [][Next]_vars

-----------------------------------------------------------------------------
\* flags, records, links and the call in progress are always ones the code has
TypeOK ==
    /\ flags \in [Proc -> {RUNNING, SENDING, RECEIVING}]
    /\ message \in [Proc -> BOOLEAN]
    /\ send_to_record \in [Proc -> Proc \cup {NO_TASK}]
    /\ recv_from_record \in [Proc -> Source \cup {NO_TASK}]
    /\ has_int_msg \in [Proc -> BOOLEAN]
    /\ receive_quene \in [Proc -> Proc \cup {nullptr}]
    /\ next_sending \in [Proc -> Proc \cup {nullptr}]
    /\ source \in [Proc -> Source \cup {NO_TASK}]
    /\ \/ call = NoCall
       \/ /\ call \in [op : Op, by : Proc, peer : Source,
                       at : {"test", "match", "copy", "take", "spin"}]
          /\ call.op = "send" => call.peer \in Proc

(***************************************************************************)
(* The queue of every process, followed from receive_quene through         *)
(* next_sending, is exactly the set of processes blocked sending to it: no *)
(* blocked sender drops off a queue (it would never be answered), none is  *)
(* on it twice or on two queues, none is left on it after it was answered. *)
(***************************************************************************)
OnQueue(d) ==
    IF receive_quene[d] = nullptr THEN {}
    ELSE Visited(Proc, next_sending, receive_quene[d],
                 {p \in Proc : next_sending[p] = nullptr})

SendersTo(d) == {p \in Proc : flags[p] = SENDING /\ send_to_record[p] = d}

QueueIsSenders ==
    \A d \in Proc :
        /\ OnQueue(d) = SendersTo(d)
        /\ receive_quene[d] # nullptr => lastSending(receive_quene[d]) # nullptr

(***************************************************************************)
(* No rendezvous is missed: a process that waits for a message has nobody  *)
(* on its queue whose message it would accept.  The two sides test and     *)
(* block in separate system calls, and the disk interrupt may change the   *)
(* receiver between a sender's test and its decision.                      *)
(***************************************************************************)
NoMissedRendezvous ==
    \A d \in Proc : flags[d] = RECEIVING =>
        \A p \in SendersTo(d) : recv_from_record[d] \notin {p, ANY}

(***************************************************************************)
(* A blocked process has what its partner needs to end the wait: the       *)
(* pointer to its MESSAGE and the record of what it waits for; a sender's  *)
(* MESSAGE still is its own.                                               *)
(***************************************************************************)
SenderIsWakeable ==
    \A p \in Proc : flags[p] = SENDING =>
        message[p] /\ source[p] = p /\ send_to_record[p] # NO_TASK

ReceiverIsWakeable ==
    \A p \in Proc : flags[p] = RECEIVING =>
        message[p] /\ recv_from_record[p] # NO_TASK

(***************************************************************************)
(* A waiting receiver is woken only with a message it asked for, in its    *)
(* buffer, whoever wakes it: a sender or the disk interrupt.               *)
(***************************************************************************)
WokenWithAnswer ==
    [][ \A p \in Proc : flags[p] = RECEIVING /\ flags'[p] = RUNNING =>
            /\ source'[p] # p
            /\ \/ source'[p] = recv_from_record[p]
               \/ recv_from_record[p] = ANY ]_vars

-----------------------------------------------------------------------------
(* What the comments of process.cc and protect.h promise and the code does *)
(* not keep.                                                               *)

(***************************************************************************)
(* process.cc:278: if dest is not waiting for a message of this process,   *)
(* this process is blocked and joins the queue of dest.  So a send that    *)
(* returns has delivered the message, or has blocked the sender.           *)
(***************************************************************************)
DeliveredOrBlocked ==
    [][ call.op = "send" /\ call' = NoCall =>
            \/ flags'[call.by] = SENDING
            \/ source'[call.peer] = call.by ]_vars

(***************************************************************************)
(* process.cc:275: determine whether there is a deadlock, then stop the    *)
(* send or panic.  So the test itself ends.                                *)
(***************************************************************************)
DeadlockTestEnds == ~at("send", "spin")

(***************************************************************************)
(* protect.h:160: a process can only be in one receive queue.              *)
(***************************************************************************)
OneReceiveQueue ==
    \A p, d, e \in Proc : d # e => p \notin OnQueue(d) \cap OnQueue(e)

(***************************************************************************)
(* process.cc:319: receive first looks for an interrupt of the hardware    *)
(* and returns it.  So nobody sleeps waiting for an interrupt it has.      *)
(***************************************************************************)
NoSleepOnInterrupt ==
    ~ /\ flags[HD] = RECEIVING
      /\ recv_from_record[HD] \in {ANY, INTERRUPT}
      /\ has_int_msg[HD]

(***************************************************************************)
(* process.cc:320: with a pending interrupt it accepts, the process gets   *)
(* the message and returns at once.                                        *)
(***************************************************************************)
InterruptReported ==
    [][ \A p \in Proc : has_int_msg[p] /\ ~has_int_msg'[p] => source'[p] = INTERRUPT ]_vars

-----------------------------------------------------------------------------
(***************************************************************************)
(* How the tasks use receive_msg: each waits for at most one source by     *)
(* name, and the disk task names no process (TTY waits for FS, FS for HD,  *)
(* HD for its interrupt).  It is what keeps receive_msg away from its walk *)
(* along the queue.                                                        *)
(***************************************************************************)
OneNamedSource ==
    /\ \A c, d \in Calls :
          /\ c[1] = d[1]
          /\ c[2] = "receive" /\ c[3] # ANY
          /\ d[2] = "receive" /\ d[3] # ANY
          => c[3] = d[3]
    /\ \A p \in Proc : <<HD, "receive", p>> \notin Calls
=============================================================================
