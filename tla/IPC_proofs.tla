----------------------------- MODULE IPC_proofs -----------------------------
(***************************************************************************)
(* Theorems about IPC.tla, for any set of processes and any calls.         *)
(***************************************************************************)
EXTENDS IPC, Lists_proofs, TLAPS

LEMMA WalkEnds ==
    ASSUME NEW P, NEW nx, NEW h, NEW Stop
    PROVE  \/ WalkTo(P, nx, h, Stop) = nullptr
           \/ WalkTo(P, nx, h, Stop) \in Stop \cap P
  BY DEF WalkTo, Visited

LEMMA NotPids ==
    /\ ANY \notin Proc /\ NO_TASK \notin Proc /\ INTERRUPT \notin Proc
    /\ nullptr \notin Proc
    /\ ANY # INTERRUPT /\ ANY # NO_TASK /\ INTERRUPT # NO_TASK
  BY IPCAssumption DEF ANY, NO_TASK, INTERRUPT, nullptr

LEMMA FlagsDiffer ==
    RUNNING # SENDING /\ RUNNING # RECEIVING /\ SENDING # RECEIVING
  BY DEF RUNNING, SENDING, RECEIVING

InCall == [op : Op, by : Proc, peer : Source,
           at : {"test", "match", "copy", "take", "spin"}]

\* what TypeOK says of call while a call is in progress
LEMMA CallFields ==
    ASSUME TypeOK, NEW o \in Op, NEW l, at(o, l)
    PROVE  /\ call \in InCall
           /\ call.by \in Proc /\ call.peer \in Source
           /\ o = "send" => call.peer \in Proc
  BY DEF TypeOK, at, NoCall, Op, InCall

LEMMA GotoTyped ==
    ASSUME TypeOK, NEW o \in Op, NEW l, at(o, l),
           NEW m \in {"test", "match", "copy", "take", "spin"}, goto(m)
    PROVE  /\ call' \in InCall
           /\ call'.op = "send" => call'.peer \in Proc
           /\ call'.op = o /\ call'.by = call.by /\ call'.peer = call.peer
           /\ call'.at = m
<1>1. call \in InCall /\ (o = "send" => call.peer \in Proc) /\ call.op = o
  BY CallFields DEF at
<1>2. call' = [call EXCEPT !.at = m]
  BY DEF goto
<1> QED  BY <1>1, <1>2 DEF InCall

LEMMA QueueTyped ==
    ASSUME TypeOK, NEW s \in Proc, NEW d \in Proc, enqueue(s, d)
    PROVE  /\ receive_quene' \in [Proc -> Proc \cup {nullptr}]
           /\ next_sending' \in [Proc -> Proc \cup {nullptr}]
  BY DEF TypeOK, enqueue

-----------------------------------------------------------------------------
LEMMA InitTyped == Init => TypeOK
  BY DEF Init, TypeOK, Source

LEMMA NextTyped == TypeOK /\ [Next]_vars => TypeOK'
<1> SUFFICES ASSUME TypeOK, [Next]_vars PROVE TypeOK'
  OBVIOUS
<1> USE DEF InCall
<1>1. ASSUME NEW p \in Proc, NEW q \in Proc, send_enter(p, q) PROVE TypeOK'
  BY <1>1 DEF send_enter, TypeOK, pcbVars, Source, Op
<1>2. ASSUME NEW p \in Proc, NEW s \in Source, receive_enter(p, s) PROVE TypeOK'
  BY <1>2 DEF receive_enter, TypeOK, pcbVars, Op
<1>3. CASE send_test
  <2>1. at("send", "test") /\ UNCHANGED <<flags, has_int_msg, source, pcbVars>>
    BY <1>3 DEF send_test
  <2>2. CASE goto("spin")
    BY <2>1, <2>2, GotoTyped DEF TypeOK, pcbVars, Op
  <2>3. CASE goto("match")
    BY <2>1, <2>3, GotoTyped DEF TypeOK, pcbVars, Op
  <2>4. CASE return
    BY <2>1, <2>4 DEF TypeOK, pcbVars, return
  <2> QED  BY <1>3, <2>2, <2>3, <2>4 DEF send_test
<1>4. CASE send_accepted
  BY <1>4, GotoTyped DEF send_accepted, TypeOK, pcbVars, Op
<1>5. CASE send_copy
  <2>1. call.by \in Proc /\ call.peer \in Proc
    BY <1>5, CallFields DEF send_copy, Op
  <2> QED  BY <1>5, <2>1 DEF send_copy, TypeOK, return
<1>6. CASE send_queue
  <2>1. call.by \in Proc /\ call.peer \in Proc
    BY <1>6, CallFields DEF send_queue, Op
  <2>2. /\ receive_quene' \in [Proc -> Proc \cup {nullptr}]
        /\ next_sending' \in [Proc -> Proc \cup {nullptr}]
    BY <1>6, <2>1, QueueTyped DEF send_queue
  <2> QED  BY <1>6, <2>1, <2>2 DEF send_queue, TypeOK, return
<1>7. CASE receive_interrupt
  BY <1>7 DEF receive_interrupt, TypeOK, pcbVars, return, Source
<1>8. CASE receive_no_interrupt
  BY <1>8, GotoTyped DEF receive_no_interrupt, TypeOK, pcbVars, Op
<1>9. CASE receive_any
  <2>1. call.by \in Proc
    BY <1>9, CallFields DEF receive_any, Op
  <2>2. receive_quene[call.by] \in Proc
    BY <1>9, <2>1 DEF receive_any, TypeOK
  <2> QED  BY <1>9, <2>1, <2>2 DEF receive_any, take_from, copied, TypeOK, return
<1>10. CASE receive_named
  <2>1. call.by \in Proc /\ call.peer \in Proc
    BY <1>10, CallFields DEF receive_named, SenderWaits, Op
  <2> QED  BY <1>10, <2>1 DEF receive_named, take_from, copied, TypeOK, return
<1>11. CASE receive_missing
  <2>1. /\ call.by \in Proc /\ call.peer \in Source
        /\ UNCHANGED <<has_int_msg, source, message, send_to_record,
                       receive_quene, next_sending>>
    BY <1>11, CallFields DEF receive_missing, Op
  <2>2. CASE goto("spin") /\ UNCHANGED <<flags, recv_from_record>>
    BY <1>11, <2>1, <2>2, GotoTyped DEF receive_missing, TypeOK, Op
  <2>3. CASE /\ recv_from_record' = [recv_from_record EXCEPT ![call.by] = call.peer]
             /\ flags' = [flags EXCEPT ![call.by] = RECEIVING]
             /\ return
    BY <2>1, <2>3 DEF TypeOK, return
  <2> QED  BY <1>11, <2>2, <2>3 DEF receive_missing
<1>12. CASE receive_block
  <2>1. call.by \in Proc /\ call.peer \in Source
    BY <1>12, CallFields DEF receive_block, Op
  <2>2. /\ message' = [message EXCEPT ![call.by] = TRUE]
        /\ recv_from_record' = [recv_from_record EXCEPT ![call.by] = call.peer]
        /\ flags' = [flags EXCEPT ![call.by] = RECEIVING]
        /\ call' = NoCall
        /\ UNCHANGED <<has_int_msg, source, send_to_record, receive_quene, next_sending>>
    BY <1>12 DEF receive_block, return
  <2> QED  BY <2>1, <2>2 DEF TypeOK
<1>13. CASE hd_handler
  <2>1. CASE flags[HD] = RECEIVING /\ recv_from_record[HD] \in {INTERRUPT, ANY}
    <3>1. /\ source' = IF message[HD] THEN [source EXCEPT ![HD] = INTERRUPT] ELSE source
          /\ message' = [message EXCEPT ![HD] = FALSE]
          /\ has_int_msg' = [has_int_msg EXCEPT ![HD] = FALSE]
          /\ flags' = [flags EXCEPT ![HD] = RUNNING]
          /\ recv_from_record' = [recv_from_record EXCEPT ![HD] = NO_TASK]
          /\ UNCHANGED <<send_to_record, receive_quene, next_sending, call>>
      BY <1>13, <2>1 DEF hd_handler
    <3> QED  BY <3>1 DEF TypeOK, Source
  <2>2. CASE ~(flags[HD] = RECEIVING /\ recv_from_record[HD] \in {INTERRUPT, ANY})
    <3>1. /\ has_int_msg' = [has_int_msg EXCEPT ![HD] = TRUE]
          /\ UNCHANGED <<flags, source, call, message, send_to_record,
                         recv_from_record, receive_quene, next_sending>>
      BY <1>13, <2>2 DEF hd_handler, pcbVars
    <3> QED  BY <3>1 DEF TypeOK
  <2> QED  BY <2>1, <2>2
<1>14. CASE UNCHANGED vars
  BY <1>14 DEF vars, TypeOK
<1> QED  BY <1>1, <1>2, <1>3, <1>4, <1>5, <1>6, <1>7, <1>8, <1>9, <1>10,
            <1>11, <1>12, <1>13, <1>14 DEF Next

(***************************************************************************)
(* The message passing state stays well typed whatever the processes send  *)
(* and receive, and wherever the disk interrupt falls: queues hold pids,   *)
(* records hold pids or the special sources.                               *)
(***************************************************************************)
THEOREM IPCTypes == Spec => []TypeOK
  BY InitTyped, NextTyped, PTL DEF Spec

-----------------------------------------------------------------------------
(***************************************************************************)
(* Wakeability.  With one named source per process (OneNamedSource), a     *)
(* sender only ever blocks on a process that does not wait for it by name, *)
(* so the two branches of receive_msg that walk the queue are never taken. *)
(***************************************************************************)
CallInv ==
    call # NoCall =>
        /\ <<call.by, call.op, call.peer>> \in Calls
        /\ flags[call.by] = RUNNING
        /\ call.op = "send" => source[call.by] = call.by

\* only the disk interrupt can wake the receiver a sender has just tested
MatchInv ==
    at("send", "match") /\ call.peer # HD => flags[call.peer] = RECEIVING

WaitInv ==
    \A p \in Proc : flags[p] = RECEIVING =>
        message[p] /\ <<p, "receive", recv_from_record[p]>> \in Calls

SendInv ==
    \A p \in Proc : flags[p] = SENDING =>
        /\ message[p] /\ source[p] = p /\ send_to_record[p] \in Proc
        /\ <<send_to_record[p], "receive", p>> \notin Calls

WakeInv == TypeOK /\ CallInv /\ MatchInv /\ WaitInv /\ SendInv

LEMMA WakeInit == Init => WakeInv
<1> SUFFICES ASSUME Init PROVE WakeInv
  OBVIOUS
<1>1. TypeOK
  BY InitTyped
<1>2. CallInv /\ MatchInv
  BY DEF Init, CallInv, MatchInv, at, NoCall
<1>3. WaitInv /\ SendInv
  BY FlagsDiffer DEF Init, WaitInv, SendInv
<1> QED  BY <1>1, <1>2, <1>3 DEF WakeInv

\* what the invariant says of a call in progress
LEMMA InCallFacts ==
    ASSUME WakeInv, NEW o \in Op, NEW l, at(o, l)
    PROVE  /\ call # NoCall /\ call.op = o
           /\ call.by \in Proc
           /\ <<call.by, o, call.peer>> \in Calls
           /\ flags[call.by] = RUNNING
           /\ o = "send" => /\ call.peer \in Proc /\ call.peer # call.by
                            /\ source[call.by] = call.by
<1>1. call # NoCall /\ call.op = o
  BY DEF at, NoCall, Op
<1>2. call.by \in Proc /\ (o = "send" => call.peer \in Proc)
  BY CallFields DEF WakeInv
<1>3. /\ <<call.by, o, call.peer>> \in Calls
      /\ flags[call.by] = RUNNING
      /\ o = "send" => source[call.by] = call.by
  BY <1>1 DEF WakeInv, CallInv
<1>4. o = "send" => call.peer # call.by
  <2> SUFFICES ASSUME o = "send" PROVE call.peer # call.by
    OBVIOUS
  <2> DEFINE c == <<call.by, o, call.peer>>
  <2>1. c \in Calls /\ c[2] = "send"
    BY <1>3
  <2>2. c[3] \in Proc \ {c[1]}
    BY <2>1, IPCAssumption
  <2> QED  BY <2>2
<1> QED  BY <1>1, <1>2, <1>3, <1>4

\* nobody waits by name for a process that is blocked sending to it
LEMMA NoNamedWait ==
    ASSUME WakeInv, at("receive", "take")
    PROVE  ~SenderWaits
<1>1. <<call.by, "receive", call.peer>> \in Calls
  BY InCallFacts DEF Op
<1> QED  BY <1>1 DEF SenderWaits, WakeInv, SendInv

\* a sender that was not accepted is not waited for by name
LEMMA NotNamed ==
    ASSUME OneNamedSource, WakeInv, at("send", "match"),
           ~Accepts(call.peer, call.by)
    PROVE  <<call.peer, "receive", call.by>> \notin Calls
<1> DEFINE dest == call.peer
           src  == call.by
<1>1. dest \in Proc /\ src \in Proc
  BY InCallFacts DEF Op
<1>2. CASE dest = HD
  BY <1>1, <1>2 DEF OneNamedSource
<1>3. CASE dest # HD
  <2> SUFFICES ASSUME <<dest, "receive", src>> \in Calls PROVE FALSE
    OBVIOUS
  <2>1. flags[dest] = RECEIVING
    BY <1>3 DEF WakeInv, MatchInv
  <2>2. <<dest, "receive", recv_from_record[dest]>> \in Calls
    BY <1>1, <2>1 DEF WakeInv, WaitInv
  <2>3. recv_from_record[dest] # src /\ recv_from_record[dest] # ANY
    BY DEF Accepts
  <2>4. src # ANY
    BY <1>1, NotPids
  <2> DEFINE c == <<dest, "receive", src>>
             d == <<dest, "receive", recv_from_record[dest]>>
  <2>5. /\ c \in Calls /\ d \in Calls /\ c[1] = d[1]
        /\ c[2] = "receive" /\ c[3] # ANY /\ d[2] = "receive" /\ d[3] # ANY
    BY <2>2, <2>3, <2>4
  <2>6. c[3] = d[3]
    BY <2>5 DEF OneNamedSource
  <2> QED  BY <2>3, <2>6
<1> QED  BY <1>2, <1>3

\* a step that begins or ends no call and touches no PCB keeps the rest
LEMMA GotoKeeps ==
    ASSUME WakeInv, NEW o \in Op, NEW l, at(o, l),
           NEW m \in {"test", "copy", "take", "spin"}, goto(m),
           UNCHANGED <<flags, source>>
    PROVE  CallInv' /\ MatchInv'
<1>1. /\ call'.op = o /\ call'.by = call.by /\ call'.peer = call.peer
      /\ call'.at = m
  BY GotoTyped DEF WakeInv
<1>2. m # "match"
  OBVIOUS
<1> QED  BY <1>1, <1>2, InCallFacts DEF CallInv, MatchInv, at

LEMMA ReturnKeeps == return => CallInv' /\ MatchInv'
  BY DEF return, CallInv, MatchInv, at, NoCall

LEMMA WakeStep ==
    ASSUME OneNamedSource, WakeInv, [Next]_vars
    PROVE  CallInv' /\ MatchInv' /\ WaitInv' /\ SendInv'
<1> USE DEF WakeInv
<1>0. TypeOK'
  BY NextTyped
<1>1. ASSUME NEW p \in Proc, NEW q \in Proc, send_enter(p, q)
      PROVE  CallInv' /\ MatchInv' /\ WaitInv' /\ SendInv'
  <2>1. source' = [source EXCEPT ![p] = p] /\ flags[p] = RUNNING
    BY <1>1 DEF send_enter
  <2>2. CallInv' /\ MatchInv'
    BY <1>1, <2>1 DEF send_enter, CallInv, MatchInv, at, TypeOK
  <2>3. WaitInv' /\ SendInv'
    BY <1>1, <2>1, FlagsDiffer DEF send_enter, WaitInv, SendInv, pcbVars, TypeOK
  <2> QED  BY <2>2, <2>3
<1>2. ASSUME NEW p \in Proc, NEW s \in Source, receive_enter(p, s)
      PROVE  CallInv' /\ MatchInv' /\ WaitInv' /\ SendInv'
  BY <1>2 DEF receive_enter, CallInv, MatchInv, WaitInv, SendInv, at, pcbVars
<1>3. CASE send_test
  <2>1. at("send", "test") /\ UNCHANGED <<flags, has_int_msg, source, pcbVars>>
    BY <1>3 DEF send_test
  <2>2. WaitInv' /\ SendInv'
    BY <2>1 DEF WaitInv, SendInv, pcbVars
  <2>3. CASE goto("spin")
    BY <2>1, <2>2, <2>3, GotoKeeps DEF Op
  <2>4. CASE goto("match") /\ flags[call.peer] = RECEIVING
    <3>1. call'.by = call.by /\ call'.op = "send" /\ call'.peer = call.peer
      BY <2>1, <2>4, GotoTyped DEF Op
    <3> QED  BY <2>1, <2>2, <2>4, <3>1, InCallFacts DEF Op, CallInv, MatchInv
  <2>5. CASE return
    BY <2>2, <2>5, ReturnKeeps
  <2> QED  BY <1>3, <2>3, <2>4, <2>5 DEF send_test
<1>4. CASE send_accepted
  <2>1. WaitInv' /\ SendInv'
    BY <1>4 DEF send_accepted, WaitInv, SendInv, pcbVars
  <2> QED  BY <1>4, <2>1, GotoKeeps DEF send_accepted, Op
<1>5. CASE send_copy
  <2> DEFINE dest == call.peer
  <2>1. /\ dest \in Proc
        /\ message' = [message EXCEPT ![dest] = FALSE]
        /\ flags' = [flags EXCEPT ![dest] = RUNNING]
        /\ recv_from_record' = [recv_from_record EXCEPT ![dest] = NO_TASK]
        /\ \A p \in Proc \ {dest} : source'[p] = source[p]
        /\ UNCHANGED send_to_record
        /\ return
    BY <1>5, InCallFacts DEF send_copy, Op, TypeOK
  <2>2. flags'[dest] = RUNNING
    BY <2>1 DEF TypeOK
  <2>3. \A p \in Proc \ {dest} :
            /\ flags'[p] = flags[p] /\ message'[p] = message[p]
            /\ recv_from_record'[p] = recv_from_record[p]
    BY <2>1 DEF TypeOK
  <2>4. WaitInv'
    BY <2>2, <2>3, FlagsDiffer DEF WaitInv
  <2>5. SendInv'
    BY <2>1, <2>2, <2>3, FlagsDiffer DEF SendInv
  <2> QED  BY <2>1, <2>4, <2>5, ReturnKeeps
<1>6. CASE send_queue
  <2> DEFINE src  == call.by
             dest == call.peer
  <2>1. /\ src \in Proc /\ dest \in Proc /\ source[src] = src
    BY <1>6, InCallFacts DEF send_queue, Op
  <2>2. <<dest, "receive", src>> \notin Calls
    BY <1>6, NotNamed DEF send_queue
  <2>3. /\ send_to_record' = [send_to_record EXCEPT ![src] = dest]
        /\ message' = [message EXCEPT ![src] = TRUE]
        /\ flags' = [flags EXCEPT ![src] = SENDING]
        /\ return
        /\ UNCHANGED <<recv_from_record, source>>
    BY <1>6 DEF send_queue
  <2>4. WaitInv'
    BY <2>1, <2>3, FlagsDiffer DEF WaitInv, TypeOK
  <2>5. SendInv'
    BY <2>1, <2>2, <2>3 DEF SendInv, TypeOK
  <2> QED  BY <2>3, <2>4, <2>5, ReturnKeeps
<1>7. CASE receive_interrupt
  <2>1. call.by \in Proc /\ flags[call.by] = RUNNING
    BY <1>7, InCallFacts DEF receive_interrupt, Op
  <2>2. /\ \A p \in Proc \ {call.by} : source'[p] = source[p]
        /\ return
        /\ UNCHANGED <<flags, pcbVars>>
    BY <1>7, <2>1 DEF receive_interrupt, TypeOK
  <2>3. WaitInv' /\ SendInv'
    BY <2>1, <2>2, FlagsDiffer DEF WaitInv, SendInv, pcbVars
  <2> QED  BY <2>2, <2>3, ReturnKeeps
<1>8. CASE receive_no_interrupt
  <2>1. WaitInv' /\ SendInv'
    BY <1>8 DEF receive_no_interrupt, WaitInv, SendInv, pcbVars
  <2> QED  BY <1>8, <2>1, GotoKeeps DEF receive_no_interrupt, Op
<1>9. CASE receive_any
  <2> DEFINE d == call.by
             first == receive_quene[d]
  <2>1. d \in Proc /\ flags[d] = RUNNING
    BY <1>9, InCallFacts DEF receive_any, Op
  <2>2. first \in Proc
    BY <1>9, <2>1 DEF receive_any, TypeOK
  <2>3. /\ message' = [message EXCEPT ![first] = FALSE]
        /\ send_to_record' = [send_to_record EXCEPT ![first] = NO_TASK]
        /\ flags' = [flags EXCEPT ![first] = RUNNING]
        /\ \A p \in Proc \ {d} : source'[p] = source[p]
        /\ return
        /\ UNCHANGED recv_from_record
    BY <1>9, <2>1, <2>2 DEF receive_any, take_from, copied, TypeOK
  <2>4. flags'[first] = RUNNING /\ flags'[d] = RUNNING
    BY <2>1, <2>2, <2>3 DEF TypeOK
  <2>5. \A p \in Proc \ {first} :
            /\ flags'[p] = flags[p] /\ message'[p] = message[p]
            /\ send_to_record'[p] = send_to_record[p]
    BY <2>2, <2>3 DEF TypeOK
  <2>6. WaitInv'
    BY <2>3, <2>4, <2>5, FlagsDiffer DEF WaitInv
  <2>7. SendInv'
    BY <2>3, <2>4, <2>5, FlagsDiffer DEF SendInv
  <2> QED  BY <2>3, <2>6, <2>7, ReturnKeeps
<1>10. CASE receive_named \/ receive_missing
  BY <1>10, NoNamedWait DEF receive_named, receive_missing
<1>11. CASE receive_block
  <2> DEFINE d == call.by
  <2>1. d \in Proc /\ <<d, "receive", call.peer>> \in Calls
    BY <1>11, InCallFacts DEF receive_block, Op
  <2>2. /\ message' = [message EXCEPT ![d] = TRUE]
        /\ recv_from_record' = [recv_from_record EXCEPT ![d] = call.peer]
        /\ flags' = [flags EXCEPT ![d] = RECEIVING]
        /\ return
        /\ UNCHANGED <<source, send_to_record>>
    BY <1>11 DEF receive_block
  <2>3. WaitInv'
    BY <2>1, <2>2 DEF WaitInv, TypeOK
  <2>4. SendInv'
    BY <2>1, <2>2, FlagsDiffer DEF SendInv, TypeOK
  <2> QED  BY <2>2, <2>3, <2>4, ReturnKeeps
<1>12. CASE hd_handler
  <2>1. CASE UNCHANGED <<flags, source, call, pcbVars>>
    BY <2>1 DEF CallInv, MatchInv, WaitInv, SendInv, at, pcbVars
  <2>2. CASE /\ flags[HD] = RECEIVING
             /\ \/ source' = [source EXCEPT ![HD] = INTERRUPT]
                \/ source' = source
             /\ message' = [message EXCEPT ![HD] = FALSE]
             /\ flags' = [flags EXCEPT ![HD] = RUNNING]
             /\ recv_from_record' = [recv_from_record EXCEPT ![HD] = NO_TASK]
             /\ UNCHANGED <<send_to_record, call>>
    <3>1. HD \in Proc /\ flags'[HD] = RUNNING
      BY <2>2, IPCAssumption DEF TypeOK
    <3>2. \A p \in Proc \ {HD} :
              /\ flags'[p] = flags[p] /\ message'[p] = message[p]
              /\ source'[p] = source[p]
              /\ recv_from_record'[p] = recv_from_record[p]
      BY <2>2, <3>1 DEF TypeOK
    <3>3. call # NoCall => call.by \in Proc \ {HD}
      BY <2>2, FlagsDiffer DEF CallInv, TypeOK
    <3>4. CallInv'
      BY <2>2, <3>2, <3>3 DEF CallInv
    <3>5. MatchInv'
      <4>1. at("send", "match") => call.peer \in Proc
        BY CallFields DEF Op
      <4> QED  BY <2>2, <3>2, <4>1 DEF MatchInv, at
    <3>6. WaitInv' /\ SendInv'
      BY <2>2, <3>1, <3>2, FlagsDiffer DEF WaitInv, SendInv
    <3> QED  BY <3>4, <3>5, <3>6
  <2> QED  BY <1>12, <2>1, <2>2 DEF hd_handler
<1>13. CASE UNCHANGED vars
  BY <1>13 DEF vars, CallInv, MatchInv, WaitInv, SendInv, at
<1> QED  BY <1>1, <1>2, <1>3, <1>4, <1>5, <1>6, <1>7, <1>8, <1>9, <1>10,
            <1>11, <1>12, <1>13 DEF Next

(***************************************************************************)
(* When each process waits for at most one source by name and the disk     *)
(* task for none, a blocked process always has in its PCB what its partner *)
(* or the disk interrupt needs to end the wait, however many processes and *)
(* calls there are.                                                        *)
(***************************************************************************)
THEOREM BlockedIsWakeable ==
    ASSUME OneNamedSource
    PROVE  Spec => [](SenderIsWakeable /\ ReceiverIsWakeable)
<1>1. WakeInv /\ [Next]_vars => WakeInv'
  BY WakeStep, NextTyped DEF WakeInv
<1>2. WakeInv => SenderIsWakeable /\ ReceiverIsWakeable
  <2> SUFFICES ASSUME WakeInv PROVE SenderIsWakeable /\ ReceiverIsWakeable
    OBVIOUS
  <2>1. SenderIsWakeable
    BY NotPids DEF WakeInv, SendInv, SenderIsWakeable
  <2>2. ReceiverIsWakeable
    <3> SUFFICES ASSUME NEW p \in Proc, flags[p] = RECEIVING
                 PROVE  message[p] /\ recv_from_record[p] # NO_TASK
      BY DEF ReceiverIsWakeable
    <3> DEFINE c == <<p, "receive", recv_from_record[p]>>
    <3>1. message[p] /\ c \in Calls
      BY DEF WakeInv, WaitInv
    <3>2. c[3] \in Source
      BY <3>1, IPCAssumption
    <3> QED  BY <3>1, <3>2, NotPids DEF Source
  <2> QED  BY <2>1, <2>2
<1> QED  BY WakeInit, <1>1, <1>2, PTL DEF Spec
-----------------------------------------------------------------------------
(***************************************************************************)
(* The message queues.  Nothing is removed from the middle of one (the two *)
(* branches of receive_msg that walk are not taken), so each stays a chain *)
(* that ends, whose members have one predecessor and whose head has none.  *)
(***************************************************************************)
Ends(nx) == {p \in Proc : nx[p] = nullptr}

\* a queue: the processes on the chain that starts at h
Chain(nx, h) == IF h = nullptr THEN {} ELSE Visited(Proc, nx, h, Ends(nx))

SendersQueued == \A d \in Proc : Chain(next_sending, receive_quene[d]) = SendersTo(d)

ChainsEnd ==
    \A d \in Proc : receive_quene[d] # nullptr =>
        \E p \in SendersTo(d) : next_sending[p] = nullptr

LinkedAreSenders ==
    \A p \in Proc : next_sending[p] # nullptr =>
        flags[p] = SENDING /\ flags[next_sending[p]] = SENDING

HeadHasNoPredecessor ==
    \A d, p \in Proc : receive_quene[d] # nullptr => next_sending[p] # receive_quene[d]

OnePredecessor ==
    \A p, q \in Proc :
        next_sending[p] # nullptr /\ next_sending[p] = next_sending[q] => p = q

QueueInv == /\ SendersQueued /\ ChainsEnd /\ LinkedAreSenders
            /\ HeadHasNoPredecessor /\ OnePredecessor

Pointers == [Proc -> Proc \cup {nullptr}]

LEMMA ChainClosed ==
    ASSUME NEW nx \in Pointers, NEW h \in Proc
    PROVE  /\ h \in Chain(nx, h) /\ Chain(nx, h) \subseteq Proc
           /\ \A x \in Chain(nx, h) : nx[x] # nullptr => nx[x] \in Chain(nx, h)
<1>1. h # nullptr
  BY NotPids
<1>2. Chain(nx, h) = Visited(Proc, nx, h, Ends(nx))
  BY <1>1 DEF Chain
<1>3. Chain(nx, h) \subseteq Proc
  BY <1>2, VisitedDef
<1>4. \A x \in Chain(nx, h) \ Ends(nx) : nx[x] \in Proc
  BY <1>3 DEF Ends, Pointers
<1>5. Closed(Chain(nx, h), nx, h, Ends(nx))
  BY <1>2, <1>4, VisitedClosed
<1> QED  BY <1>3, <1>5 DEF Closed, Ends

LEMMA ChainLeast ==
    ASSUME NEW nx, NEW h \in Proc, NEW S \in SUBSET Proc, h \in S,
           \A x \in S : nx[x] # nullptr => nx[x] \in S
    PROVE  Chain(nx, h) \subseteq S
<1>1. h # nullptr
  BY NotPids
<1>2. Closed(S, nx, h, Ends(nx))
  BY DEF Closed, Ends
<1>3. Visited(Proc, nx, h, Ends(nx)) \subseteq S
  BY <1>2, VisitedLeast
<1> QED  BY <1>1, <1>3 DEF Chain

\* a queue none of whose links is written is left as it is
LEMMA ChainFrame ==
    ASSUME NEW nx \in Pointers, NEW ny \in Pointers, NEW h \in Proc \cup {nullptr},
           \A x \in Chain(nx, h) : ny[x] = nx[x]
    PROVE  Chain(ny, h) = Chain(nx, h)
<1>1. CASE h = nullptr
  BY <1>1 DEF Chain
<1>2. CASE h \in Proc
  <2>1. Chain(nx, h) = Visited(Proc, nx, h, Ends(nx))
        /\ Chain(ny, h) = Visited(Proc, ny, h, Ends(ny))
    BY <1>2, NotPids DEF Chain
  <2>2. \A x \in Chain(nx, h) : x \in Proc
    BY <2>1, VisitedDef
  <2>3. \A x \in Chain(nx, h) \ Ends(nx) : nx[x] \in Proc
    BY <2>2 DEF Ends, Pointers
  <2>4. \A x \in Chain(nx, h) : ny[x] = nx[x] /\ (x \in Ends(nx) <=> x \in Ends(ny))
    BY <2>2 DEF Ends
  <2> QED  BY <1>2, <2>1, <2>3, <2>4, VisitedFrame
<1> QED  BY <1>1, <1>2

\* c, which is on no queue, is chained to the end of one
LEMMA ChainAppend ==
    ASSUME NEW nx \in Pointers, NEW h \in Proc, NEW l \in Chain(nx, h),
           nx[l] = nullptr, NEW c \in Proc, c \notin Chain(nx, h), nx[c] = nullptr,
           NEW ny \in Pointers, ny[l] = c, ny[c] = nullptr,
           \A x \in Proc \ {l, c} : ny[x] = nx[x]
    PROVE  Chain(ny, h) = Chain(nx, h) \cup {c}
<1> DEFINE V == Chain(nx, h)
           W == Chain(ny, h)
<1>1. /\ h \in V /\ V \subseteq Proc
      /\ \A x \in V : nx[x] # nullptr => nx[x] \in V
  BY ChainClosed
<1>3. W \subseteq V \cup {c}
  <2> DEFINE S == V \cup {c}
  <2>1. S \in SUBSET Proc /\ h \in S
    BY <1>1
  <2>2. \A x \in S : ny[x] # nullptr => ny[x] \in S
    BY <1>1
  <2> HIDE DEF S
  <2>3. W \subseteq S
    BY <2>1, <2>2, ChainLeast
  <2> QED  BY <2>3 DEF S
<1>4. /\ h \in W /\ W \subseteq Proc
      /\ \A x \in W : ny[x] # nullptr => ny[x] \in W
  BY ChainClosed
<1>5. \A x \in W : nx[x] # nullptr => nx[x] \in W
  BY <1>4
<1>6. V \subseteq W
  BY <1>4, <1>5, ChainLeast
<1>7. c \in W
  BY <1>4, <1>6, NotPids
<1> QED  BY <1>3, <1>6, <1>7

\* the head of a queue is taken off it
LEMMA ChainPop ==
    ASSUME NEW nx \in Pointers, NEW h \in Proc,
           \A x \in Proc : nx[x] # h,
           NEW ny, ny = [nx EXCEPT ![h] = nullptr]
    PROVE  Chain(ny, nx[h]) = Chain(nx, h) \ {h}
<1> DEFINE V == Chain(nx, h)
           n == nx[h]
           W == Chain(ny, n)
<1>1. /\ h \in V /\ V \subseteq Proc
      /\ \A x \in V : nx[x] # nullptr => nx[x] \in V
  BY ChainClosed
<1>2. ny \in Pointers /\ \A x \in Proc \ {h} : ny[x] = nx[x]
  BY DEF Pointers
<1>3. CASE n = nullptr
  <2> DEFINE S == {h}
  <2>0. S \in SUBSET Proc /\ h \in S /\ \A x \in S : nx[x] # nullptr => nx[x] \in S
    BY <1>3
  <2> HIDE DEF S
  <2>1. V \subseteq S
    BY <2>0, ChainLeast
  <2> USE DEF S
  <2> QED  BY <1>1, <1>3, <2>1 DEF Chain
<1>4. CASE n # nullptr
  <2>1. n \in V \ {h} /\ n \in Proc
    BY <1>1, <1>4
  <2>2. W \subseteq V \ {h}
    <3> DEFINE S == V \ {h}
    <3>1. \A x \in S : ny[x] # nullptr => ny[x] \in S
      BY <1>1, <1>2
    <3>2. S \in SUBSET Proc /\ n \in S
      BY <1>1, <2>1
    <3>3. ny \in Pointers /\ n \in Proc
      BY <1>2, <2>1
    <3> HIDE DEF S, W, V, n
    <3>4. Chain(ny, n) \subseteq S
      BY <3>1, <3>2, <3>3, ChainLeast
    <3> QED  BY <3>4 DEF S, W
  <2>3. n \in W /\ W \subseteq Proc /\ \A x \in W : ny[x] # nullptr => ny[x] \in W
    BY <1>2, <2>1, ChainClosed
  <2>4. V \subseteq W \cup {h}
    <3> DEFINE S == W \cup {h}
    <3>1. S \in SUBSET Proc /\ h \in S
      BY <2>3
    <3>2. \A x \in S : nx[x] # nullptr => nx[x] \in S
      BY <1>2, <2>3
    <3> HIDE DEF S
    <3>3. V \subseteq S
      BY <3>1, <3>2, ChainLeast
    <3> QED  BY <3>3 DEF S
  <2> QED  BY <2>2, <2>4
<1> QED  BY <1>3, <1>4

LEMMA QueueOf ==
    ASSUME TypeOK, QueueInv, NEW d \in Proc, receive_quene[d] # nullptr
    PROVE  LET l == lastSending(receive_quene[d])
           IN  /\ receive_quene[d] \in SendersTo(d)
               /\ l \in SendersTo(d) /\ next_sending[l] = nullptr
<1> DEFINE h == receive_quene[d]
           l == lastSending(h)
<1>1. h \in Proc /\ next_sending \in Pointers
  BY DEF TypeOK, Pointers
<1>2. Chain(next_sending, h) = SendersTo(d)
  BY DEF QueueInv, SendersQueued
<1>3. h \in SendersTo(d)
  BY <1>1, <1>2, ChainClosed
<1>4. l \in Chain(next_sending, h) \cap Ends(next_sending)
  <2>1. Chain(next_sending, h) = Visited(Proc, next_sending, h, Ends(next_sending))
    BY DEF Chain
  <2>2. \E p \in SendersTo(d) : p \in Ends(next_sending)
    BY DEF QueueInv, ChainsEnd, SendersTo, Ends
  <2>3. l = WalkTo(Proc, next_sending, h, Ends(next_sending))
    BY DEF lastSending, Ends
  <2> QED  BY <1>2, <2>1, <2>2, <2>3 DEF WalkTo
<1> QED  BY <1>2, <1>3, <1>4 DEF Ends

\* a process that is not sending is on no queue and links to nobody
LEMMA NotQueued ==
    ASSUME TypeOK, QueueInv, NEW p \in Proc, flags[p] # SENDING
    PROVE  /\ next_sending[p] = nullptr
           /\ \A x \in Proc : next_sending[x] # p
           /\ \A d \in Proc : receive_quene[d] # p
<1>1. p # nullptr
  BY NotPids
<1>2. \A d \in Proc : receive_quene[d] # p
  BY <1>1, QueueOf DEF SendersTo
<1> QED  BY <1>1, <1>2 DEF QueueInv, LinkedAreSenders

LEMMA QueueInit == Init => QueueInv
  BY FlagsDiffer DEF Init, QueueInv, SendersQueued, ChainsEnd, LinkedAreSenders,
       HeadHasNoPredecessor, OnePredecessor, Chain, SendersTo

\* a step that moves nobody in or out of the senders
LEMMA QueueKept ==
    ASSUME QueueInv, UNCHANGED <<receive_quene, next_sending>>,
           \A p \in Proc : flags'[p] = SENDING <=> flags[p] = SENDING,
           \A p \in Proc : flags[p] = SENDING => send_to_record'[p] = send_to_record[p],
           TypeOK
    PROVE  QueueInv'
<1>1. \A d \in Proc : SendersTo(d)' = SendersTo(d)
  BY DEF SendersTo
<1>2. SendersQueued' /\ ChainsEnd'
  BY <1>1 DEF QueueInv, SendersQueued, ChainsEnd
<1>3. LinkedAreSenders'
  BY DEF QueueInv, LinkedAreSenders, TypeOK
<1>4. HeadHasNoPredecessor' /\ OnePredecessor'
  BY DEF QueueInv, HeadHasNoPredecessor, OnePredecessor
<1> QED  BY <1>2, <1>3, <1>4 DEF QueueInv

LEMMA QueueJoins ==
    ASSUME TypeOK, TypeOK', QueueInv, NEW src \in Proc, NEW dest \in Proc,
           flags[src] = RUNNING, enqueue(src, dest),
           send_to_record' = [send_to_record EXCEPT ![src] = dest],
           flags' = [flags EXCEPT ![src] = SENDING]
    PROVE  QueueInv'
<1> DEFINE nx == next_sending
           ny == next_sending'
<1>1. /\ nx[src] = nullptr
      /\ \A x \in Proc : nx[x] # src
      /\ \A d \in Proc : receive_quene[d] # src
  BY FlagsDiffer, NotQueued
<1>2. /\ flags'[src] = SENDING /\ send_to_record'[src] = dest
      /\ \A p \in Proc \ {src} : flags'[p] = flags[p]
                                 /\ send_to_record'[p] = send_to_record[p]
  BY DEF TypeOK
<1>3. /\ SendersTo(dest)' = SendersTo(dest) \cup {src}
      /\ \A e \in Proc \ {dest} : SendersTo(e)' = SendersTo(e)
  BY <1>2, FlagsDiffer DEF SendersTo
<1>4. nx \in Pointers /\ ny \in Pointers
  BY DEF TypeOK, Pointers
<1>5. \A d \in Proc : src \notin SendersTo(d) /\ Chain(nx, receive_quene[d]) = SendersTo(d)
  BY FlagsDiffer DEF SendersTo, QueueInv, SendersQueued
<1>6. CASE receive_quene[dest] = nullptr
  <2>1. /\ receive_quene' = [receive_quene EXCEPT ![dest] = src]
        /\ next_sending' = [next_sending EXCEPT ![src] = nullptr]
    BY <1>6 DEF enqueue
  <2>2. ny = nx
    BY <1>1, <2>1 DEF TypeOK
  <2>3. /\ receive_quene'[dest] = src
        /\ \A e \in Proc \ {dest} : receive_quene'[e] = receive_quene[e]
    BY <2>1 DEF TypeOK
  <2>4. SendersTo(dest) = {}
    BY <1>5, <1>6 DEF Chain
  <2>5. Chain(nx, src) = {src}
    <3> DEFINE S == {src}
    <3>1. S \in SUBSET Proc /\ src \in S /\ \A x \in S : nx[x] # nullptr => nx[x] \in S
      BY <1>1
    <3> HIDE DEF S
    <3>2. Chain(nx, src) \subseteq S
      BY <3>1, ChainLeast
    <3>3. src \in Chain(nx, src)
      BY <1>4, ChainClosed
    <3> QED  BY <3>2, <3>3 DEF S
  <2>6. SendersQueued'
    BY <1>3, <1>5, <2>2, <2>3, <2>4, <2>5 DEF SendersQueued
  <2>7. ChainsEnd'
    BY <1>1, <1>3, <2>2, <2>3 DEF QueueInv, ChainsEnd
  <2>8. LinkedAreSenders' /\ OnePredecessor'
    BY <1>1, <1>2, <2>2 DEF QueueInv, LinkedAreSenders, OnePredecessor, TypeOK
  <2>9. HeadHasNoPredecessor'
    BY <1>1, <2>2, <2>3 DEF QueueInv, HeadHasNoPredecessor
  <2> QED  BY <2>6, <2>7, <2>8, <2>9 DEF QueueInv
<1>7. CASE receive_quene[dest] # nullptr
  <2> DEFINE h == receive_quene[dest]
             l == lastSending(h)
  <2>1. /\ next_sending' = [next_sending EXCEPT ![l] = src, ![src] = nullptr]
        /\ UNCHANGED receive_quene
    BY <1>7 DEF enqueue
  <2>2. l \in SendersTo(dest) /\ nx[l] = nullptr /\ h \in Proc /\ l \in Proc /\ l # src
    BY <1>5, <1>7, QueueOf DEF SendersTo
  <2> HIDE DEF l
  <2>3. /\ ny[l] = src /\ ny[src] = nullptr
        /\ \A x \in Proc \ {l, src} : ny[x] = nx[x]
    BY <2>1, <2>2 DEF TypeOK
  <2>4. Chain(ny, h) = SendersTo(dest) \cup {src}
    <3>1. Chain(nx, h) = SendersTo(dest) /\ src \notin SendersTo(dest)
      BY <1>5
    <3> HIDE DEF h
    <3>2. l \in Chain(nx, h) /\ src \notin Chain(nx, h) /\ nx[src] = nullptr
      BY <1>1, <2>2, <3>1
    <3>3. Chain(ny, h) = Chain(nx, h) \cup {src}
      BY <1>4, <2>2, <2>3, <3>2, ChainAppend
    <3> QED  BY <3>1, <3>3
  <2>5. ASSUME NEW e \in Proc \ {dest}
        PROVE  Chain(ny, receive_quene[e]) = SendersTo(e)
    <3>1. l \notin SendersTo(e)
      BY <2>2 DEF SendersTo
    <3>2. \A x \in SendersTo(e) : ny[x] = nx[x]
      BY <1>5, <2>3, <3>1 DEF SendersTo
    <3>3. receive_quene[e] \in Proc \cup {nullptr}
      BY DEF TypeOK
    <3> QED  BY <1>4, <1>5, <3>2, <3>3, ChainFrame
  <2>6. SendersQueued'
    BY <1>3, <2>1, <2>4, <2>5 DEF SendersQueued
  <2>7. ChainsEnd'
    <3> SUFFICES ASSUME NEW d \in Proc, receive_quene[d] # nullptr
                 PROVE  \E p \in SendersTo(d)' : ny[p] = nullptr
      BY <2>1 DEF ChainsEnd
    <3>1. CASE d = dest
      BY <1>3, <2>3, <3>1
    <3>2. CASE d # dest
      <4>1. PICK p \in SendersTo(d) : nx[p] = nullptr
        BY DEF QueueInv, ChainsEnd
      <4>2. p \in Proc /\ p # l /\ p # src
        BY <1>5, <2>2, <3>2, <4>1 DEF SendersTo
      <4> QED  BY <1>3, <2>3, <3>2, <4>1, <4>2
    <3> QED  BY <3>1, <3>2
  <2>8. LinkedAreSenders'
    <3>1. flags'[l] = SENDING
      BY <1>2, <2>2 DEF SendersTo
    <3>2. ASSUME NEW p \in Proc, ny[p] # nullptr
          PROVE  flags'[p] = SENDING /\ flags'[ny[p]] = SENDING
      <4>1. CASE p = l
        BY <1>2, <2>3, <3>1, <4>1
      <4>2. CASE p # l
        <5>1. p # src /\ ny[p] = nx[p]
          BY <2>3, <3>2, <4>2
        <5>2. flags[p] = SENDING /\ flags[nx[p]] = SENDING /\ nx[p] \in Proc
          BY <3>2, <5>1 DEF QueueInv, LinkedAreSenders, TypeOK
        <5> QED  BY <1>1, <1>2, <5>1, <5>2
      <4> QED  BY <4>1, <4>2
    <3> QED  BY <3>2 DEF LinkedAreSenders
  <2>9. OnePredecessor'
    BY <1>1, <2>2, <2>3 DEF QueueInv, OnePredecessor
  <2>10. HeadHasNoPredecessor'
    <3> SUFFICES ASSUME NEW d \in Proc, NEW p \in Proc, receive_quene[d] # nullptr
                 PROVE  ny[p] # receive_quene[d]
      BY <2>1 DEF HeadHasNoPredecessor
    <3>1. nx[p] # receive_quene[d] /\ receive_quene[d] # src
      BY <1>1 DEF QueueInv, HeadHasNoPredecessor
    <3> HIDE DEF nx, ny
    <3>2. CASE p = l
      BY <2>3, <3>1, <3>2
    <3>3. CASE p = src
      BY <2>3, <3>3
    <3>4. CASE p # l /\ p # src
      BY <2>3, <3>1, <3>4
    <3> QED  BY <3>2, <3>3, <3>4
  <2> QED  BY <2>6, <2>7, <2>8, <2>9, <2>10 DEF QueueInv
<1> QED  BY <1>6, <1>7

LEMMA QueueLeaves ==
    ASSUME TypeOK, TypeOK', QueueInv, NEW d \in Proc, receive_quene[d] # nullptr,
           receive_quene' = [receive_quene EXCEPT ![d] = next_sending[receive_quene[d]]],
           next_sending' = [next_sending EXCEPT ![receive_quene[d]] = nullptr],
           send_to_record' = [send_to_record EXCEPT ![receive_quene[d]] = NO_TASK],
           flags' = [flags EXCEPT ![receive_quene[d]] = RUNNING]
    PROVE  QueueInv'
<1> DEFINE first == receive_quene[d]
           nx    == next_sending
           ny    == next_sending'
<1>1. first \in SendersTo(d) /\ first \in Proc /\ nx \in Pointers /\ ny \in Pointers
  BY QueueOf DEF TypeOK, Pointers
<1>2. \A x \in Proc : nx[x] # first
  BY DEF QueueInv, HeadHasNoPredecessor
<1>3. /\ receive_quene'[d] = nx[first] /\ ny[first] = nullptr
      /\ flags'[first] = RUNNING
      /\ \A e \in Proc \ {d} : receive_quene'[e] = receive_quene[e]
      /\ \A x \in Proc \ {first} : /\ ny[x] = nx[x] /\ flags'[x] = flags[x]
                                   /\ send_to_record'[x] = send_to_record[x]
  BY <1>1 DEF TypeOK
<1>4. \A e \in Proc : Chain(nx, receive_quene[e]) = SendersTo(e)
  BY DEF QueueInv, SendersQueued
<1> HIDE DEF first
<1>5. \A e \in Proc : SendersTo(e)' = SendersTo(e) \ {first}
  BY <1>3, FlagsDiffer DEF SendersTo
<1>6. \A e \in Proc \ {d} : first \notin SendersTo(e)
  BY <1>1 DEF SendersTo
<1>7. SendersQueued'
  <2>1. Chain(ny, nx[first]) = SendersTo(d) \ {first}
    <3>1. Chain(nx, first) = SendersTo(d)
      BY <1>4 DEF first
    <3>2. ny = [nx EXCEPT ![first] = nullptr]
      BY DEF first
    <3> QED  BY <1>1, <1>2, <3>1, <3>2, ChainPop
  <2>2. ASSUME NEW e \in Proc \ {d} PROVE Chain(ny, receive_quene[e]) = SendersTo(e)
    <3> DEFINE g == receive_quene[e]
    <3>1. Chain(nx, g) = SendersTo(e)
      BY <1>4
    <3>2. g \in Proc \cup {nullptr}
      BY DEF TypeOK
    <3>3. \A x \in Chain(nx, g) : ny[x] = nx[x]
      BY <1>3, <1>6, <3>1 DEF SendersTo
    <3> HIDE DEF g
    <3>4. Chain(ny, g) = Chain(nx, g)
      BY <1>1, <3>2, <3>3, ChainFrame
    <3> QED  BY <3>1, <3>4 DEF g
  <2> SUFFICES ASSUME NEW e \in Proc
               PROVE  Chain(ny, receive_quene'[e]) = SendersTo(e)'
    BY DEF SendersQueued
  <2>3. CASE e = d
    BY <1>3, <1>5, <2>1, <2>3
  <2>4. CASE e # d
    <3>1. receive_quene'[e] = receive_quene[e] /\ SendersTo(e)' = SendersTo(e)
      BY <1>3, <1>5, <1>6, <2>4
    <3>2. Chain(ny, receive_quene[e]) = SendersTo(e)
      BY <2>2, <2>4
    <3> QED  BY <3>1, <3>2
  <2> QED  BY <2>3, <2>4
<1>8. ChainsEnd'
  <2> SUFFICES ASSUME NEW e \in Proc, receive_quene'[e] # nullptr
               PROVE  \E p \in SendersTo(e)' : ny[p] = nullptr
    BY DEF ChainsEnd
  <2>1. receive_quene[e] # nullptr
    BY <1>3
  <2>2. PICK p \in SendersTo(e) : nx[p] = nullptr
    BY <2>1 DEF QueueInv, ChainsEnd
  <2>3. p # first
    BY <1>3, <1>6, <2>2
  <2> QED  BY <1>3, <1>5, <2>2, <2>3 DEF SendersTo
<1>9. LinkedAreSenders'
  BY <1>2, <1>3 DEF QueueInv, LinkedAreSenders, TypeOK
<1>10. OnePredecessor'
  BY <1>3 DEF QueueInv, OnePredecessor
<1>11. HeadHasNoPredecessor'
  <2> SUFFICES ASSUME NEW e \in Proc, NEW p \in Proc, receive_quene'[e] # nullptr,
                      ny[p] = receive_quene'[e]
               PROVE  FALSE
    BY DEF HeadHasNoPredecessor
  <2>1. p # first /\ ny[p] = nx[p]
    BY <1>3
  <2>2. CASE e = d
    BY <1>1, <1>3, <2>1, <2>2 DEF QueueInv, OnePredecessor
  <2>3. CASE e # d
    BY <1>3, <2>1, <2>3 DEF QueueInv, HeadHasNoPredecessor
  <2> QED  BY <2>2, <2>3
<1> QED  BY <1>7, <1>8, <1>9, <1>10, <1>11 DEF QueueInv

-----------------------------------------------------------------------------
(***************************************************************************)
(* The rendezvous.  Between the tests of send_msg only the disk interrupt  *)
(* comes, and it only makes a receiver run.                                *)
(***************************************************************************)
TestedInv ==
    at("send", "match") \/ at("send", "copy") => flags[call.peer] # SENDING

AcceptedInv ==
    at("send", "copy") /\ flags[call.peer] = RECEIVING =>
        Accepts(call.peer, call.by)

\* who waits for anyone has an empty queue
AnyoneInv ==
    \A d \in Proc : flags[d] = RECEIVING /\ recv_from_record[d] = ANY =>
        receive_quene[d] = nullptr

MeetInv == TestedInv /\ AcceptedInv /\ AnyoneInv

RendezvousInv == WakeInv /\ QueueInv /\ MeetInv

LEMMA MeetInit == Init => MeetInv
  BY FlagsDiffer
  DEF Init, MeetInv, TestedInv, AcceptedInv, AnyoneInv, at, NoCall

\* a step that leaves send_msg, or does not come to its last tests
LEMMA NotMeeting ==
    ASSUME ~at("send", "match")', ~at("send", "copy")'
    PROVE  TestedInv' /\ AcceptedInv'
  BY DEF TestedInv, AcceptedInv, at

LEMMA GotoAt ==
    ASSUME RendezvousInv, NEW o \in Op, NEW l, at(o, l),
           NEW m \in {"test", "match", "copy", "take", "spin"}, goto(m)
    PROVE  /\ call'.op = o /\ call'.by = call.by /\ call'.peer = call.peer
           /\ call'.at = m
  BY GotoTyped DEF RendezvousInv, WakeInv

LEMMA ReturnAt == return => ~at("send", "match")' /\ ~at("send", "copy")'
  BY DEF return, at, NoCall

LEMMA RendezvousStep ==
    ASSUME RendezvousInv, [Next]_vars
    PROVE  TypeOK' => QueueInv' /\ MeetInv'
<1> SUFFICES ASSUME TypeOK' PROVE QueueInv' /\ MeetInv'
  OBVIOUS
<1> USE DEF RendezvousInv, WakeInv
<1>1. ASSUME NEW p \in Proc, NEW q \in Proc, send_enter(p, q)
      PROVE  QueueInv' /\ MeetInv'
  <2>1. UNCHANGED <<flags, has_int_msg, pcbVars>> /\ call'.at = "test"
    BY <1>1 DEF send_enter
  <2>2. QueueInv'
    BY <2>1, QueueKept DEF pcbVars
  <2>3. AnyoneInv'
    BY <2>1 DEF MeetInv, AnyoneInv, pcbVars
  <2> QED  BY <2>1, <2>2, <2>3, NotMeeting DEF MeetInv, at
<1>2. ASSUME NEW p \in Proc, NEW s \in Source, receive_enter(p, s)
      PROVE  QueueInv' /\ MeetInv'
  <2>1. UNCHANGED <<flags, has_int_msg, pcbVars>> /\ call'.at = "test"
    BY <1>2 DEF receive_enter
  <2>2. QueueInv'
    BY <2>1, QueueKept DEF pcbVars
  <2>3. AnyoneInv'
    BY <2>1 DEF MeetInv, AnyoneInv, pcbVars
  <2> QED  BY <2>1, <2>2, <2>3, NotMeeting DEF MeetInv, at
<1>3. CASE send_test
  <2>1. at("send", "test") /\ UNCHANGED <<flags, has_int_msg, source, pcbVars>>
    BY <1>3 DEF send_test
  <2>2. QueueInv' /\ AnyoneInv'
    BY <2>1, QueueKept DEF MeetInv, AnyoneInv, pcbVars
  <2>3. CASE goto("spin")
    <3>1. call'.at = "spin"
      BY <2>1, <2>3, GotoAt DEF Op
    <3> QED  BY <2>2, <3>1, NotMeeting DEF MeetInv, at
  <2>4. CASE goto("match") /\ flags[call.peer] = RECEIVING
    <3>1. call'.at = "match" /\ call'.peer = call.peer
      BY <2>1, <2>4, GotoAt DEF Op
    <3>2. TestedInv' /\ AcceptedInv'
      BY <2>1, <2>4, <3>1, FlagsDiffer DEF TestedInv, AcceptedInv, at
    <3> QED  BY <2>2, <3>2 DEF MeetInv
  <2>5. CASE return
    BY <2>2, <2>5, NotMeeting, ReturnAt DEF MeetInv
  <2> QED  BY <1>3, <2>3, <2>4, <2>5 DEF send_test
<1>4. CASE send_accepted
  <2>1. /\ at("send", "match") /\ Accepts(call.peer, call.by) /\ goto("copy")
        /\ UNCHANGED <<flags, has_int_msg, source, pcbVars>>
    BY <1>4 DEF send_accepted
  <2>2. QueueInv' /\ AnyoneInv'
    BY <2>1, QueueKept DEF MeetInv, AnyoneInv, pcbVars
  <2>3. call'.at = "copy" /\ call'.peer = call.peer /\ call'.by = call.by
    BY <2>1, GotoAt DEF Op
  <2>4. TestedInv'
    BY <2>1, <2>3 DEF MeetInv, TestedInv, at
  <2>5. AcceptedInv'
    BY <2>1, <2>3 DEF AcceptedInv, Accepts, pcbVars
  <2> QED  BY <2>2, <2>4, <2>5 DEF MeetInv
<1>5. CASE send_copy
  <2> DEFINE dest == call.peer
  <2>1. /\ dest \in Proc /\ flags[dest] # SENDING /\ return
        /\ flags' = [flags EXCEPT ![dest] = RUNNING]
        /\ recv_from_record' = [recv_from_record EXCEPT ![dest] = NO_TASK]
        /\ UNCHANGED <<send_to_record, receive_quene, next_sending>>
    BY <1>5, InCallFacts DEF send_copy, Op, MeetInv, TestedInv
  <2>2. /\ flags'[dest] = RUNNING
        /\ \A p \in Proc \ {dest} : /\ flags'[p] = flags[p]
                                    /\ recv_from_record'[p] = recv_from_record[p]
    BY <2>1 DEF TypeOK
  <2>3. QueueInv'
    BY <2>1, <2>2, FlagsDiffer, QueueKept
  <2>4. AnyoneInv'
    BY <2>1, <2>2, FlagsDiffer DEF MeetInv, AnyoneInv
  <2> QED  BY <2>1, <2>3, <2>4, NotMeeting, ReturnAt DEF MeetInv
<1>6. CASE send_queue
  <2> DEFINE src  == call.by
             dest == call.peer
  <2>1. src \in Proc /\ dest \in Proc /\ flags[src] = RUNNING
    BY <1>6, InCallFacts DEF send_queue, Op
  <2>2. /\ send_to_record' = [send_to_record EXCEPT ![src] = dest]
        /\ enqueue(src, dest) /\ return /\ ~Accepts(dest, src)
        /\ flags' = [flags EXCEPT ![src] = SENDING]
        /\ UNCHANGED recv_from_record
    BY <1>6 DEF send_queue
  <2>3. QueueInv'
    BY <2>1, <2>2, QueueJoins
  <2>4. AnyoneInv'
    <3>1. flags'[src] = SENDING /\ \A p \in Proc \ {src} : flags'[p] = flags[p]
      BY <2>1, <2>2 DEF TypeOK
    <3>2. \A d \in Proc \ {dest} : receive_quene'[d] = receive_quene[d]
      BY <2>1, <2>2 DEF enqueue, TypeOK
    <3>3. recv_from_record[dest] # ANY
      BY <2>2 DEF Accepts
    <3> QED  BY <2>2, <3>1, <3>2, <3>3, FlagsDiffer DEF MeetInv, AnyoneInv
  <2> QED  BY <2>2, <2>3, <2>4, NotMeeting, ReturnAt DEF MeetInv
<1>7. CASE receive_interrupt
  <2>1. return /\ UNCHANGED <<flags, pcbVars>>
    BY <1>7 DEF receive_interrupt
  <2>2. QueueInv' /\ AnyoneInv'
    BY <2>1, QueueKept DEF MeetInv, AnyoneInv, pcbVars
  <2> QED  BY <2>1, <2>2, NotMeeting, ReturnAt DEF MeetInv
<1>8. CASE receive_no_interrupt
  <2>1. /\ at("receive", "test") /\ goto("take")
        /\ UNCHANGED <<flags, has_int_msg, source, pcbVars>>
    BY <1>8 DEF receive_no_interrupt
  <2>2. QueueInv' /\ AnyoneInv'
    BY <2>1, QueueKept DEF MeetInv, AnyoneInv, pcbVars
  <2>3. call'.at = "take"
    BY <2>1, GotoAt DEF Op
  <2> QED  BY <2>2, <2>3, NotMeeting DEF MeetInv, at
<1>9. CASE receive_any
  <2> DEFINE d     == call.by
             first == receive_quene[d]
  <2>1. d \in Proc /\ flags[d] = RUNNING /\ first \in Proc
    BY <1>9, InCallFacts DEF receive_any, Op, TypeOK
  <2>2. /\ receive_quene' = [receive_quene EXCEPT ![d] = next_sending[first]]
        /\ next_sending' = [next_sending EXCEPT ![first] = nullptr]
        /\ send_to_record' = [send_to_record EXCEPT ![first] = NO_TASK]
        /\ flags' = [flags EXCEPT ![first] = RUNNING]
        /\ return /\ UNCHANGED recv_from_record
    BY <1>9 DEF receive_any, take_from
  <2>3. QueueInv'
    BY <2>1, <2>2, NotPids, QueueLeaves
  <2>4. AnyoneInv'
    <3>1. flags'[d] = RUNNING /\ flags'[first] = RUNNING
          /\ \A p \in Proc \ {first} : flags'[p] = flags[p]
      BY <2>1, <2>2 DEF TypeOK
    <3>2. \A e \in Proc \ {d} : receive_quene'[e] = receive_quene[e]
      BY <2>1, <2>2 DEF TypeOK
    <3> QED  BY <2>2, <3>1, <3>2, FlagsDiffer DEF MeetInv, AnyoneInv
  <2> QED  BY <2>2, <2>3, <2>4, NotMeeting, ReturnAt DEF MeetInv
<1>10. CASE receive_named \/ receive_missing
  BY <1>10, NoNamedWait DEF receive_named, receive_missing
<1>11. CASE receive_block
  <2> DEFINE d == call.by
  <2>1. d \in Proc /\ flags[d] = RUNNING
    BY <1>11, InCallFacts DEF receive_block, Op
  <2>2. /\ recv_from_record' = [recv_from_record EXCEPT ![d] = call.peer]
        /\ flags' = [flags EXCEPT ![d] = RECEIVING]
        /\ call.peer = ANY => receive_quene[d] = nullptr
        /\ return
        /\ UNCHANGED <<send_to_record, receive_quene, next_sending>>
    BY <1>11 DEF receive_block
  <2>3. /\ flags'[d] = RECEIVING /\ recv_from_record'[d] = call.peer
        /\ \A p \in Proc \ {d} : /\ flags'[p] = flags[p]
                                 /\ recv_from_record'[p] = recv_from_record[p]
    BY <2>1, <2>2 DEF TypeOK
  <2>4. QueueInv'
    BY <2>1, <2>2, <2>3, FlagsDiffer, QueueKept
  <2>5. AnyoneInv'
    BY <2>2, <2>3 DEF MeetInv, AnyoneInv
  <2> QED  BY <2>2, <2>4, <2>5, NotMeeting, ReturnAt DEF MeetInv
<1>12. CASE hd_handler
  <2>1. CASE UNCHANGED <<flags, source, call, pcbVars>>
    <3>1. QueueInv'
      BY <2>1, QueueKept DEF pcbVars
    <3>2. MeetInv'
      BY <2>1 DEF MeetInv, TestedInv, AcceptedInv, AnyoneInv, at, Accepts, pcbVars
    <3> QED  BY <3>1, <3>2
  <2>2. CASE /\ flags[HD] = RECEIVING
             /\ flags' = [flags EXCEPT ![HD] = RUNNING]
             /\ recv_from_record' = [recv_from_record EXCEPT ![HD] = NO_TASK]
             /\ UNCHANGED <<send_to_record, receive_quene, next_sending, call>>
    <3>1. /\ flags'[HD] = RUNNING
          /\ \A p \in Proc \ {HD} : /\ flags'[p] = flags[p]
                                    /\ recv_from_record'[p] = recv_from_record[p]
      BY <2>2, IPCAssumption DEF TypeOK
    <3>2. QueueInv'
      BY <2>2, <3>1, FlagsDiffer, QueueKept
    <3>3. AnyoneInv'
      BY <2>2, <3>1, FlagsDiffer DEF MeetInv, AnyoneInv
    <3>4. TestedInv' /\ AcceptedInv'
      <4>1. at("send", "match") \/ at("send", "copy") => call.peer \in Proc
        BY CallFields DEF Op
      <4> QED  BY <2>2, <3>1, <4>1, FlagsDiffer
               DEF MeetInv, TestedInv, AcceptedInv, at, Accepts
    <3> QED  BY <3>2, <3>3, <3>4 DEF MeetInv
  <2> QED  BY <1>12, <2>1, <2>2 DEF hd_handler
<1>13. CASE UNCHANGED vars
  <2>1. QueueInv'
    BY <1>13, QueueKept DEF vars, pcbVars
  <2>2. MeetInv'
    BY <1>13 DEF vars, pcbVars, MeetInv, TestedInv, AcceptedInv, AnyoneInv, at, Accepts
  <2> QED  BY <2>1, <2>2
<1> QED  BY <1>1, <1>2, <1>3, <1>4, <1>5, <1>6, <1>7, <1>8, <1>9, <1>10,
            <1>11, <1>12, <1>13 DEF Next

LEMMA RendezvousInvariant ==
    ASSUME OneNamedSource
    PROVE  Spec => []RendezvousInv
<1>1. Init => RendezvousInv
  BY WakeInit, QueueInit, MeetInit DEF RendezvousInv
<1>2. RendezvousInv /\ [Next]_vars => RendezvousInv'
  <2> SUFFICES ASSUME RendezvousInv, [Next]_vars PROVE RendezvousInv'
    OBVIOUS
  <2>1. WakeInv'
    BY WakeStep, NextTyped DEF RendezvousInv, WakeInv
  <2> QED  BY <2>1, RendezvousStep DEF RendezvousInv, WakeInv
<1> QED  BY <1>1, <1>2, PTL DEF Spec

(***************************************************************************)
(* When each process waits for at most one source by name and the disk     *)
(* task for none, every queue holds exactly the processes blocked sending  *)
(* to its owner, and the walk to its end (send_msg) comes to an end, for   *)
(* any number of processes and any order of calls and interrupts.          *)
(***************************************************************************)
THEOREM QueuesHoldSenders ==
    ASSUME OneNamedSource
    PROVE  Spec => []QueueIsSenders
<1>1. RendezvousInv => QueueIsSenders
  <2> SUFFICES ASSUME RendezvousInv, NEW d \in Proc
               PROVE  /\ OnQueue(d) = SendersTo(d)
                      /\ receive_quene[d] # nullptr =>
                             lastSending(receive_quene[d]) # nullptr
    BY DEF QueueIsSenders
  <2>1. OnQueue(d) = Chain(next_sending, receive_quene[d])
    BY DEF OnQueue, Chain, Ends
  <2>2. OnQueue(d) = SendersTo(d)
    BY <2>1 DEF RendezvousInv, QueueInv, SendersQueued
  <2>3. receive_quene[d] # nullptr => lastSending(receive_quene[d]) # nullptr
    BY QueueOf, NotPids DEF RendezvousInv, WakeInv, SendersTo
  <2> QED  BY <2>2, <2>3
<1> QED  BY <1>1, RendezvousInvariant, PTL

(***************************************************************************)
(* Under the same condition no rendezvous is missed: nobody waits for a    *)
(* message while a process whose message it would accept is blocked        *)
(* sending to it, though the two decide in calls of their own and the disk *)
(* interrupt comes between the tests of one.                               *)
(***************************************************************************)
THEOREM RendezvousNotMissed ==
    ASSUME OneNamedSource
    PROVE  Spec => []NoMissedRendezvous
<1>1. RendezvousInv => NoMissedRendezvous
  <2> SUFFICES ASSUME RendezvousInv, NEW d \in Proc, flags[d] = RECEIVING,
                      NEW p \in SendersTo(d)
               PROVE  recv_from_record[d] # p /\ recv_from_record[d] # ANY
    BY DEF NoMissedRendezvous
  <2>1. p \in Proc /\ flags[p] = SENDING /\ send_to_record[p] = d
    BY DEF SendersTo
  <2>2. recv_from_record[d] # p
    BY <2>1 DEF RendezvousInv, WakeInv, WaitInv, SendInv
  <2>3. recv_from_record[d] # ANY
    <3>1. Chain(next_sending, receive_quene[d]) # {}
      BY DEF RendezvousInv, QueueInv, SendersQueued
    <3>2. receive_quene[d] # nullptr
      BY <3>1 DEF Chain
    <3> QED  BY <3>2 DEF RendezvousInv, MeetInv, AnyoneInv
  <2> QED  BY <2>2, <2>3
<1> QED  BY <1>1, RendezvousInvariant, PTL

\* one step of the property below
WokenStep ==
    \A p \in Proc : flags[p] = RECEIVING /\ flags'[p] = RUNNING =>
        /\ source'[p] # p
        /\ \/ source'[p] = recv_from_record[p]
           \/ recv_from_record[p] = ANY

LEMMA WokenByStep ==
    ASSUME RendezvousInv, Next
    PROVE  WokenStep
<1> SUFFICES ASSUME NEW p \in Proc, flags[p] = RECEIVING, flags'[p] = RUNNING
             PROVE  /\ source'[p] # p
                    /\ \/ source'[p] = recv_from_record[p]
                       \/ recv_from_record[p] = ANY
  BY DEF WokenStep
<1> USE DEF RendezvousInv, WakeInv
<1>0. message[p] /\ flags'[p] # flags[p]
  BY FlagsDiffer DEF WaitInv
<1>1. CASE send_copy
  <2>1. /\ call.peer \in Proc /\ call.by # call.peer /\ source[call.by] = call.by
        /\ flags' = [flags EXCEPT ![call.peer] = RUNNING]
        /\ at("send", "copy")
    BY <1>1, InCallFacts DEF send_copy, Op
  <2>2. p = call.peer
    BY <1>0, <2>1 DEF TypeOK
  <2>3. source'[p] = call.by
    BY <1>0, <1>1, <2>1, <2>2 DEF send_copy, TypeOK
  <2>4. Accepts(p, call.by)
    BY <2>1, <2>2 DEF MeetInv, AcceptedInv
  <2> QED  BY <2>1, <2>2, <2>3, <2>4 DEF Accepts
<1>2. CASE hd_handler
  <2>1. /\ flags' = [flags EXCEPT ![HD] = RUNNING]
        /\ recv_from_record[HD] \in {INTERRUPT, ANY}
        /\ source' = IF message[HD] THEN [source EXCEPT ![HD] = INTERRUPT] ELSE source
    BY <1>0, <1>2 DEF hd_handler
  <2>2. p = HD
    BY <1>0, <2>1 DEF TypeOK
  <2>3. source'[p] = INTERRUPT
    BY <1>0, <2>1, <2>2 DEF TypeOK
  <2> QED  BY <2>1, <2>2, <2>3, NotPids
<1>3. CASE receive_any
  <2>1. call.by \in Proc
    BY <1>3, InCallFacts DEF receive_any, Op
  <2>2. receive_quene[call.by] \in SendersTo(call.by)
    BY <1>3, <2>1, QueueOf DEF receive_any
  <2>3. flags' = [flags EXCEPT ![receive_quene[call.by]] = RUNNING]
    BY <1>3 DEF receive_any, take_from
  <2> QED  BY <1>0, <2>2, <2>3, FlagsDiffer DEF SendersTo, TypeOK
<1>4. CASE send_queue
  <2>1. flags' = [flags EXCEPT ![call.by] = SENDING]
    BY <1>4 DEF send_queue
  <2> QED  BY <2>1, FlagsDiffer DEF TypeOK
<1>5. CASE receive_block
  <2>1. flags' = [flags EXCEPT ![call.by] = RECEIVING]
    BY <1>5 DEF receive_block
  <2> QED  BY <2>1, FlagsDiffer DEF TypeOK
<1>6. CASE receive_named \/ receive_missing
  BY <1>6, NoNamedWait DEF receive_named, receive_missing
<1>7. CASE \/ \E r, q \in Proc : send_enter(r, q)
           \/ \E r \in Proc, s \in Source : receive_enter(r, s)
           \/ send_test \/ send_accepted \/ receive_interrupt \/ receive_no_interrupt
  <2>1. flags' = flags
    BY <1>7 DEF send_enter, receive_enter, send_test, send_accepted,
                receive_interrupt, receive_no_interrupt
  <2> QED  BY <1>0, <2>1
<1> QED  BY <1>1, <1>2, <1>3, <1>4, <1>5, <1>6, <1>7 DEF Next

(***************************************************************************)
(* Under the same condition a waiting receiver is woken only with a        *)
(* message it asked for, in its buffer, by a sender or by the interrupt.   *)
(***************************************************************************)
THEOREM ReceiversGetAnswers ==
    ASSUME OneNamedSource
    PROVE  Spec => WokenWithAnswer
<1>1. RendezvousInv /\ [Next]_vars => [WokenStep]_vars
  BY WokenByStep
<1> QED  BY <1>1, RendezvousInvariant, PTL DEF Spec, WokenWithAnswer, WokenStep

=============================================================================
