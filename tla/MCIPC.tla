------------------------------- MODULE MCIPC --------------------------------
(***************************************************************************)
(* Instances of IPC for TLC: which tasks there are and which calls they    *)
(* make.                                                                   *)
(***************************************************************************)
EXTENDS IPC

TTY    == 0
SYSTEM == 1
FS     == 3

Sends(p, D)    == {<<p, "send", d>> : d \in D}
Receives(p, S) == {<<p, "receive", s>> : s \in S}

\* the calls of task_tty (tty_command), task_hd, task_fs (fs_op_disk) and
\* task_system, in any order
TaskCalls ==
    Sends(TTY, {FS}) \cup Receives(TTY, {FS})
    \cup Sends(HD, {FS}) \cup Receives(HD, {ANY, INTERRUPT})
    \cup Sends(FS, {HD, TTY}) \cup Receives(FS, {ANY, HD})

\* TaskCalls and more: every process sends to every other and waits for
\* anyone, so that queues of several senders form
ServiceCalls ==
    UNION {Sends(p, Proc \ {p}) \cup Receives(p, {ANY}) : p \in Proc}
    \cup Receives(HD, {INTERRUPT}) \cup Receives(FS, {HD}) \cup Receives(TTY, {FS})

\* the disk task picks two of its three senders by name
PickCalls ==
    UNION {Sends(p, {HD}) : p \in Proc \ {HD}} \cup Receives(HD, {INTERRUPT, SYSTEM, FS})

\* every process calls every other in every way: the interface itself
AllCalls ==
    {c \in Proc \X Op \X Source : c[3] # c[1] /\ (c[2] = "send" => c[3] \in Proc)}
=============================================================================
