----------------------------- MODULE Interrupts ------------------------------
(***************************************************************************)
(* Entering and leaving the kernel of len-os (kernel.asm): the interrupts  *)
(* of the clock, the keyboard and the disk and the system call go through  *)
(* save, which puts the registers of a process in its PCB and switches to  *)
(* the kernel stack or, inside the kernel, pushes them where they are; the *)
(* macros hwint_master and hwint_slave mask lines of the 8259A and open    *)
(* interrupts again while the handler runs; restart and reenter go back.   *)
(*                                                                         *)
(* The registers of a process are a record of the process and how far it   *)
(* has come.  What the handlers do is in other modules; here clock_handler *)
(* and the system calls may set p_proc_ready to any process.  Entry up to  *)
(* sti, and leaving from cli, run with interrupts off: each is one step.   *)
(***************************************************************************)
EXTENDS Integers, Sequences

CONSTANTS
    Proc,      \* the processes
    first,     \* the process that p_proc_ready is at first
    hd,        \* the process that runs task_hd
    MaxWork,   \* bound: what a process does
    MaxNest    \* bound: interrupts and calls being served at once

ASSUME InterruptsAssumption ==
    {first, hd} \subseteq Proc /\ {MaxWork, MaxNest} \subseteq Nat

Master == 0..7
Slave  == 8..15
CLOCK_IRQ    == 0
KEYBOARD_IRQ == 1
CASCADE_IRQ  == 2
AT_WINI_IRQ  == 14
Handled == {CLOCK_IRQ, KEYBOARD_IRQ, AT_WINI_IRQ}
call    == 16    \* the entry of sys_call, beside the lines 0..15

VARIABLES
    int_reenter,
    p_proc_ready,
    esp0,          \* tss.esp0: the process whose PCB takes the registers
    frame,         \* process -> registers saved in its PCB
    cpu,           \* registers of the process that runs, or ran last
    kstack,        \* what is being served, the innermost last
    closed,        \* lines masked in the 8259As
    asked,         \* lines that enable_irq was called for
    halted,        \* has the kernel executed hlt?
    done           \* process -> what it has done

vars == <<int_reenter, p_proc_ready, esp0, frame, cpu, kstack, closed, asked,
          halted, done>>

Registers(p, n) == [proc |-> p, work |-> n]

\* init_8259A, kernel_main and the first restart
Init ==
    /\ int_reenter = -1
    /\ p_proc_ready = first /\ esp0 = first
    /\ frame = [p \in Proc |-> Registers(p, 0)]
    /\ cpu = Registers(first, 0)
    /\ kstack = <<>>
    /\ asked = {CLOCK_IRQ, KEYBOARD_IRQ}
    /\ closed = (Master \cup Slave) \ {CLOCK_IRQ, KEYBOARD_IRQ}
    /\ halted = FALSE
    /\ done = [p \in Proc |-> 0]

Top == kstack[Len(kstack)]
InUserMode == kstack = <<>> /\ ~halted

\* does the 8259A deliver an interrupt of this line?
IsOpen(irq) == irq \notin closed /\ (irq \in Slave => CASCADE_IRQ \notin closed)

-----------------------------------------------------------------------------
(* save, restart and reenter                                               *)

\* a test of int_reenter before it is incremented
outermost_early == int_reenter = 0

\* is int_reenter 0 once it is incremented?
outermost == int_reenter + 1 = 0

save(entry) ==
    /\ Len(kstack) < MaxNest
    /\ int_reenter' = int_reenter + 1
    /\ kstack' = Append(kstack,
           [entry |-> entry, served |-> FALSE, esi |-> esp0,
            back |-> IF outermost THEN "restart" ELSE "reenter"])
    /\ frame' = IF kstack = <<>> THEN [frame EXCEPT ![esp0] = cpu] ELSE frame

\* a restart that leaves tss.esp0 alone
leave_old_esp0(saved) ==
    /\ int_reenter' = int_reenter - 1
    /\ kstack' = SubSeq(kstack, 1, Len(kstack) - 1)
    /\ frame' = saved
    /\ cpu' = IF Top.back = "restart" THEN saved[p_proc_ready] ELSE cpu
    /\ UNCHANGED esp0

\* the innermost service ends; saved is frame with what the service did to it
leave(saved) ==
    /\ int_reenter' = int_reenter - 1
    /\ kstack' = SubSeq(kstack, 1, Len(kstack) - 1)
    /\ frame' = saved
    /\ IF Top.back = "restart"
       THEN esp0' = p_proc_ready /\ cpu' = saved[p_proc_ready]
       ELSE UNCHANGED <<esp0, cpu>>

-----------------------------------------------------------------------------
(* hwint_master and hwint_slave                                            *)

\* the lines of the bits of irq itself
lines_unshifted(irq) == {b \in Master : (irq \div 2^b) % 2 = 1}

\* the lines of the master whose bits the macros set and clear, irq << 1
lines(irq) == {b \in Master : ((irq * 2) \div 2^b) % 2 = 1}

hwint_enter(irq) ==
    /\ ~halted
    /\ irq \in Handled
    /\ IsOpen(irq)
    /\ save(irq)
    /\ closed' = closed \cup lines(irq)
    /\ UNCHANGED <<p_proc_ready, esp0, cpu, asked, halted, done>>

\* the slave macro without the code that opens the line again
reopened_master(irq) == IF irq \in Slave THEN {} ELSE lines(irq)

reopened(irq) == lines(irq)

hwint_leave ==
    /\ ~halted /\ kstack # <<>>
    /\ Top.entry \in Handled /\ Top.served
    /\ closed' = closed \ reopened(Top.entry)
    /\ leave(frame)
    /\ UNCHANGED <<p_proc_ready, asked, halted, done>>

\* the other lines have no handler: a message and hlt
hwint_unhandled(irq) ==
    /\ ~halted
    /\ irq \in (Master \cup Slave) \ (Handled \cup {CASCADE_IRQ})
    /\ IsOpen(irq)
    /\ halted' = TRUE
    /\ UNCHANGED <<int_reenter, p_proc_ready, esp0, frame, cpu, kstack, closed,
                   asked, done>>

-----------------------------------------------------------------------------
sys_call_enter ==
    /\ InUserMode
    /\ done[cpu.proc] < MaxWork
    /\ save(call)
    /\ UNCHANGED <<p_proc_ready, esp0, cpu, closed, asked, halted, done>>

\* the answer of the call goes to the process that has been chosen
sys_call_leave_ready ==
    /\ ~halted /\ kstack # <<>>
    /\ Top.entry = call /\ Top.served
    /\ leave([frame EXCEPT ![p_proc_ready] = Registers(@.proc, @.work + 1)])
    /\ done' = [done EXCEPT ![cpu.proc] = @ + 1]
    /\ UNCHANGED <<p_proc_ready, closed, asked, halted>>

\* the answer of the call goes to EAXREG of the frame that save found
sys_call_leave ==
    /\ ~halted /\ kstack # <<>>
    /\ Top.entry = call /\ Top.served
    /\ leave([frame EXCEPT ![Top.esi] = Registers(@.proc, @.work + 1)])
    /\ done' = [done EXCEPT ![cpu.proc] = @ + 1]
    /\ UNCHANGED <<p_proc_ready, closed, asked, halted>>

\* the handler runs, with interrupts on before and after this step:
\* clock_handler, send_msg and receive_msg may choose another process
serve ==
    /\ ~halted /\ kstack # <<>>
    /\ ~Top.served
    /\ kstack' = [kstack EXCEPT ![Len(kstack)] =
                      [entry |-> @.entry, served |-> TRUE, esi |-> @.esi,
                       back |-> @.back]]
    /\ IF Top.entry \in {CLOCK_IRQ, call} THEN p_proc_ready' \in Proc
                                          ELSE UNCHANGED p_proc_ready
    /\ UNCHANGED <<int_reenter, esp0, frame, cpu, closed, asked, halted, done>>

-----------------------------------------------------------------------------
\* a process goes on
work ==
    /\ InUserMode
    /\ done[cpu.proc] < MaxWork
    /\ cpu' = Registers(cpu.proc, cpu.work + 1)
    /\ done' = [done EXCEPT ![cpu.proc] = @ + 1]
    /\ UNCHANGED <<int_reenter, p_proc_ready, esp0, frame, kstack, closed,
                   asked, halted>>

\* task_hd enables the cascade line, then its own
enable_irq(irq) ==
    /\ InUserMode /\ cpu.proc = hd
    /\ irq \in {CASCADE_IRQ, AT_WINI_IRQ} \ asked
    /\ irq = AT_WINI_IRQ => CASCADE_IRQ \in asked
    /\ asked' = asked \cup {irq}
    /\ closed' = closed \ {irq}
    /\ UNCHANGED <<int_reenter, p_proc_ready, esp0, frame, cpu, kstack, halted,
                   done>>

Next ==
    \/ \E irq \in Master \cup Slave : hwint_enter(irq) \/ hwint_unhandled(irq)
    \/ hwint_leave
    \/ sys_call_enter
    \/ sys_call_leave
    \/ serve
    \/ work
    \/ \E irq \in {CASCADE_IRQ, AT_WINI_IRQ} : enable_irq(irq)

Spec == Init /\ [][Next]_vars

-----------------------------------------------------------------------------
RegisterSet == [proc : Proc, work : Nat]

Service == [entry : Handled \cup {call}, served : BOOLEAN, esi : Proc,
            back : {"restart", "reenter"}]

\* int_reenter, the frames and the stack of services hold what the macros
\* of kernel.asm put there, for nesting up to MaxNest
TypeOK ==
    /\ int_reenter \in -1..(MaxNest - 1)
    /\ p_proc_ready \in Proc /\ esp0 \in Proc
    /\ frame \in [Proc -> RegisterSet] /\ cpu \in RegisterSet
    /\ kstack \in Seq(Service)
    /\ closed \subseteq Master \cup Slave
    /\ asked \subseteq Master \cup Slave
    /\ halted \in BOOLEAN
    /\ done \in [Proc -> Nat]

(***************************************************************************)
(* int_reenter counts what is being served, however interrupts nest, and   *)
(* only the outermost service ends in restart: an interrupted service is   *)
(* always gone back to, never left for another process.                    *)
(***************************************************************************)
ReturnsInOrder ==
    /\ int_reenter = Len(kstack) - 1
    /\ \A i \in 1..Len(kstack) : kstack[i].back = "restart" <=> i = 1

(***************************************************************************)
(* No process loses or gets registers of another: whatever interrupts a    *)
(* process and whoever is chosen meanwhile, its PCB has how far it came,   *)
(* the answers of its system calls included, and it goes on from there.    *)
(***************************************************************************)
ContextKept ==
    \A p \in Proc :
        IF kstack = <<>> /\ p = cpu.proc THEN cpu.work = done[p]
                                         ELSE frame[p] = Registers(p, done[p])

(***************************************************************************)
(* A process that runs finds itself in p_proc_ready, where the ipc and     *)
(* write stubs of syscall.asm read, in user mode, who is calling; and      *)
(* tss.esp0 names its PCB.  A clock that chose somebody else during a call *)
(* of this process, or nested in another interrupt, must not be visible.   *)
(***************************************************************************)
ReadyIsRunning ==
    kstack = <<>> => p_proc_ready = cpu.proc /\ esp0 = cpu.proc

(***************************************************************************)
(* keyboard_handler and hd_handler are not entered again while they are    *)
(* being served, whatever else interrupts them: the 8259A keeps their      *)
(* lines closed until they leave.                                          *)
(***************************************************************************)
HandlersNotReentered ==
    \A irq \in {KEYBOARD_IRQ, AT_WINI_IRQ} :
        \A i, j \in 1..Len(kstack) :
            kstack[i].entry = irq /\ kstack[j].entry = irq => i = j

(***************************************************************************)
(* When the kernel is left, every line that was ever enabled is open: no   *)
(* nesting of handlers leaves the keyboard, the disk or the cascade        *)
(* masked.                                                                 *)
(***************************************************************************)
LinesReopened == kstack = <<>> => asked \cap closed = {}

(***************************************************************************)
(* kernel.asm:117 "屏蔽当前中断" (mask the current interrupt): the line    *)
(* that is being served is closed.                                         *)
(***************************************************************************)
CurrentClosed ==
    \A i \in 1..Len(kstack) :
        kstack[i].entry \in Handled => ~IsOpen(kstack[i].entry)

(***************************************************************************)
(* kernel.asm:153 "重新开启当前中断" (open the current interrupt again):   *)
(* leaving a handler opens lines that have been enabled, and no other.     *)
(***************************************************************************)
OnlyEnabledOpen == (Master \cup Slave) \ closed \subseteq asked
=============================================================================
