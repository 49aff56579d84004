-------------------------- MODULE Interrupts_proofs --------------------------
(***************************************************************************)
(* For any processes, any nesting and any masks: interrupted services are  *)
(* gone back to in order, no process loses its registers, no handler but   *)
(* the clock's is entered twice, and no line stays masked.                 *)
(***************************************************************************)
EXTENDS Interrupts, SequenceTheorems, TLAPS

(***************************************************************************)
(* The inductive invariant: the types, the order of the services, who the  *)
(* registers belong to, and the frame a system call will answer to.        *)
(***************************************************************************)
KernelTypes ==
    /\ int_reenter \in Int
    /\ p_proc_ready \in Proc /\ esp0 \in Proc
    /\ frame \in [Proc -> RegisterSet] /\ cpu \in RegisterSet
    /\ kstack \in Seq(Service)
    /\ done \in [Proc -> Nat]

Owner == cpu.proc = esp0

CallsKnowTheirFrame == \A i \in 1..Len(kstack) : kstack[i].esi = esp0

KernelInv ==
    /\ KernelTypes
    /\ ReturnsInOrder
    /\ Owner
    /\ CallsKnowTheirFrame
    /\ ContextKept
    /\ ReadyIsRunning

LEMMA KernelInvInit == Init => KernelInv
<1> SUFFICES ASSUME Init PROVE KernelInv
  OBVIOUS
<1> USE InterruptsAssumption DEF Init
<1>1. KernelTypes
  BY DEF KernelTypes, Registers, RegisterSet
<1>2. ReturnsInOrder /\ CallsKnowTheirFrame
  BY DEF ReturnsInOrder, CallsKnowTheirFrame
<1>3. Owner
  BY DEF Owner, Registers
<1>4. ContextKept
  BY DEF ContextKept, Registers
<1>5. ReadyIsRunning
  BY DEF ReadyIsRunning, Registers
<1> QED  BY <1>1, <1>2, <1>3, <1>4, <1>5 DEF KernelInv

-----------------------------------------------------------------------------
(* The three things that happen to kstack                                  *)

LEMMA Push ==
    ASSUME NEW S, NEW s \in Seq(S), NEW x \in S
    PROVE  /\ Append(s, x) \in Seq(S) /\ Len(Append(s, x)) = Len(s) + 1
           /\ \A i \in 1..Len(s) : Append(s, x)[i] = s[i]
           /\ Append(s, x)[Len(s) + 1] = x
OBVIOUS

LEMMA Pop ==
    ASSUME NEW S, NEW s \in Seq(S), s # <<>>
    PROVE  /\ SubSeq(s, 1, Len(s) - 1) \in Seq(S)
           /\ Len(SubSeq(s, 1, Len(s) - 1)) = Len(s) - 1
           /\ \A i \in 1..(Len(s) - 1) : SubSeq(s, 1, Len(s) - 1)[i] = s[i]
           /\ Len(s) \in Nat /\ Len(s) > 0
<1>1. Len(s) \in Nat /\ Len(s) > 0
  BY EmptySeq, LenProperties
<1> DEFINE n == Len(s) - 1
<1>2. n \in Int /\ n >= 0 /\ \A i \in 1..n : s[i] \in S
  BY <1>1
<1> HIDE DEF n
<1>3. /\ SubSeq(s, 1, n) \in Seq(S)
      /\ Len(SubSeq(s, 1, n)) = IF 1 <= n THEN n - 1 + 1 ELSE 0
      /\ \A i \in 1..(n - 1 + 1) : SubSeq(s, 1, n)[i] = s[1 + i - 1]
  BY <1>2, SubSeqProperties
<1>4. Len(SubSeq(s, 1, n)) = n /\ \A i \in 1..n : SubSeq(s, 1, n)[i] = s[i]
  BY <1>2, <1>3
<1> QED  BY <1>1, <1>3, <1>4 DEF n

LEMMA SaveKeeps ==
    ASSUME KernelInv, NEW entry \in Handled \cup {call}, save(entry),
           UNCHANGED <<p_proc_ready, esp0, cpu, done>>
    PROVE  KernelInv'
<1> DEFINE new == [entry |-> entry, served |-> FALSE, esi |-> esp0,
                   back |-> IF outermost THEN "restart" ELSE "reenter"]
<1> USE DEF KernelInv
<1>1. /\ int_reenter' = int_reenter + 1
      /\ kstack' = Append(kstack, new)
      /\ frame' = IF kstack = <<>> THEN [frame EXCEPT ![esp0] = cpu] ELSE frame
  BY DEF save
<1>2. new \in Service /\ kstack \in Seq(Service)
  BY DEF Service, KernelTypes
<1>3. /\ kstack' \in Seq(Service) /\ Len(kstack') = Len(kstack) + 1
      /\ \A i \in 1..Len(kstack) : kstack'[i] = kstack[i]
      /\ kstack'[Len(kstack) + 1] = new
      /\ Len(kstack) \in Nat
  BY <1>1, <1>2, Push
<1>4. new.esi = esp0 /\ new.back = IF outermost THEN "restart" ELSE "reenter"
  OBVIOUS
<1> HIDE DEF new
<1>5. KernelTypes'
  BY <1>1, <1>3 DEF KernelTypes
<1>6. ReturnsInOrder'
  <2>1. outermost <=> Len(kstack) = 0
    BY <1>3 DEF outermost, ReturnsInOrder
  <2> QED  BY <1>1, <1>3, <1>4, <2>1 DEF ReturnsInOrder
<1>7. Owner'
  BY DEF Owner
<1>8. CallsKnowTheirFrame'
  BY <1>3, <1>4 DEF CallsKnowTheirFrame
<1>9. ContextKept'
  <2>1. kstack' # <<>>
    BY <1>3
  <2>2. CASE kstack = <<>>
    <3>1. cpu = Registers(cpu.proc, done[cpu.proc]) /\ cpu.proc = esp0
      BY <2>2 DEF KernelTypes, RegisterSet, Registers, ContextKept, Owner
    <3>2. ASSUME NEW p \in Proc PROVE frame'[p] = Registers(p, done[p])
      BY <1>1, <2>2, <3>1 DEF ContextKept, KernelTypes
    <3> QED  BY <2>1, <3>2 DEF ContextKept
  <2>3. CASE kstack # <<>>
    BY <1>1, <2>1, <2>3 DEF ContextKept
  <2> QED  BY <2>2, <2>3
<1>10. ReadyIsRunning'
  BY <1>3, EmptySeq DEF ReadyIsRunning
<1> QED  BY <1>5, <1>6, <1>7, <1>8, <1>9, <1>10

(***************************************************************************)
(* Leaving: saved is what the frames are afterwards, and what every        *)
(* process has done afterwards agrees with them.                           *)
(***************************************************************************)
LEMMA LeaveKeeps ==
    ASSUME KernelInv, kstack # <<>>, NEW saved \in [Proc -> RegisterSet],
           leave(saved), UNCHANGED p_proc_ready, done' \in [Proc -> Nat],
           \A p \in Proc : saved[p] = Registers(p, done'[p])
    PROVE  KernelInv'
<1> USE DEF KernelInv
<1>1. /\ int_reenter' = int_reenter - 1
      /\ kstack' = SubSeq(kstack, 1, Len(kstack) - 1)
      /\ frame' = saved
      /\ IF Top.back = "restart"
         THEN esp0' = p_proc_ready /\ cpu' = saved[p_proc_ready]
         ELSE UNCHANGED <<esp0, cpu>>
  BY DEF leave
<1>2. /\ kstack' \in Seq(Service) /\ Len(kstack') = Len(kstack) - 1
      /\ \A i \in 1..(Len(kstack) - 1) : kstack'[i] = kstack[i]
      /\ Len(kstack) \in Nat /\ Len(kstack) > 0
  BY <1>1, Pop DEF KernelTypes
<1>3. Top.back = "restart" <=> Len(kstack) = 1
  BY <1>2 DEF ReturnsInOrder, Top
<1>4. KernelTypes'
  BY <1>1, <1>2 DEF KernelTypes
<1>5. ReturnsInOrder'
  BY <1>1, <1>2 DEF ReturnsInOrder
<1>6. CASE Top.back = "restart"
  <2>1. kstack' = <<>> /\ Len(kstack') = 0
    <3>1. Len(kstack') = 0
      <4>1. Len(kstack) = 1
        BY <1>3, <1>6
      <4> QED  BY <1>2, <4>1
    <3> QED  BY <1>2, <3>1, EmptySeq
  <2>2. cpu' = Registers(p_proc_ready, done'[p_proc_ready]) /\ esp0' = p_proc_ready
    BY <1>1, <1>6 DEF KernelTypes
  <2>3. Owner' /\ cpu'.work = done'[p_proc_ready] /\ cpu'.proc = p_proc_ready
    BY <2>2 DEF Owner, Registers
  <2>4. ContextKept'
    BY <1>1, <2>3 DEF ContextKept
  <2>5. CallsKnowTheirFrame'
    BY <2>1 DEF CallsKnowTheirFrame
  <2>6. ReadyIsRunning'
    BY <2>2, <2>3 DEF ReadyIsRunning
  <2> QED  BY <1>4, <1>5, <2>3, <2>4, <2>5, <2>6
<1>7. CASE Top.back # "restart"
  <2>1. kstack' # <<>> /\ UNCHANGED <<esp0, cpu>>
    <3>1. Len(kstack) # 1
      BY <1>3, <1>7
    <3>2. Len(kstack') # 0
      BY <1>2, <3>1
    <3>3. kstack' # <<>>
      BY <3>2, EmptySeq
    <3> QED  BY <1>1, <1>7, <3>3
  <2>2. Owner'
    BY <2>1 DEF Owner
  <2>3. CallsKnowTheirFrame'
    BY <1>2, <2>1 DEF CallsKnowTheirFrame
  <2>4. ContextKept'
    BY <1>1, <2>1 DEF ContextKept
  <2>5. ReadyIsRunning'
    BY <2>1 DEF ReadyIsRunning
  <2> QED  BY <1>4, <1>5, <2>2, <2>3, <2>4, <2>5
<1> QED  BY <1>6, <1>7

LEMMA ServeKeeps ==
    ASSUME KernelInv, serve
    PROVE  KernelInv'
<1> USE DEF KernelInv
<1> DEFINE last == [entry |-> Top.entry, served |-> TRUE, esi |-> Top.esi,
                    back |-> Top.back]
<1>1. /\ kstack # <<>> /\ kstack' = [kstack EXCEPT ![Len(kstack)] = last]
      /\ UNCHANGED <<int_reenter, esp0, frame, cpu, done>>
  BY DEF serve, Top
<1>2. p_proc_ready' \in Proc
  BY DEF serve, KernelTypes
<1>3. kstack \in Seq(Service) /\ Len(kstack) \in Nat /\ Len(kstack) > 0
  BY <1>1 DEF KernelTypes
<1>4. last \in Service /\ last.back = Top.back /\ last.esi = Top.esi
  <2>1. Top \in Service
    BY <1>3, ElementOfSeq DEF Top
  <2>2. Top.entry \in Handled \cup {call} /\ Top.esi \in Proc
        /\ Top.back \in {"restart", "reenter"}
    BY <2>1 DEF Service
  <2> QED  BY <2>2 DEF Service
<1> HIDE DEF last
<1>5. /\ kstack' \in Seq(Service) /\ Len(kstack') = Len(kstack)
      /\ \A i \in 1..Len(kstack) : /\ kstack'[i].back = kstack[i].back
                                   /\ kstack'[i].esi = kstack[i].esi
  <2>1. /\ kstack'[Len(kstack)] = last
        /\ \A i \in 1..Len(kstack) : i # Len(kstack) => kstack'[i] = kstack[i]
    BY <1>1, <1>3
  <2>2. kstack' \in Seq(Service) /\ Len(kstack') = Len(kstack)
    BY <1>1, <1>3, <1>4
  <2>3. ASSUME NEW i \in 1..Len(kstack)
        PROVE  /\ kstack'[i].back = kstack[i].back
               /\ kstack'[i].esi = kstack[i].esi
    <3>1. CASE i = Len(kstack)
      BY <1>4, <2>1, <3>1 DEF Top
    <3>2. CASE i # Len(kstack)
      BY <2>1, <3>2, Zenon
    <3> QED  BY <3>1, <3>2, Zenon
  <2> QED  BY <2>2, <2>3, Zenon
<1>6. KernelTypes'
  BY <1>1, <1>2, <1>5 DEF KernelTypes
<1>7. ReturnsInOrder' /\ CallsKnowTheirFrame'
  BY <1>1, <1>5 DEF ReturnsInOrder, CallsKnowTheirFrame
<1>8. Owner'
  BY <1>1 DEF Owner
<1>9. ContextKept' /\ ReadyIsRunning'
  <2>1. kstack' # <<>>
    BY <1>3, <1>5, EmptySeq
  <2> QED  BY <1>1, <2>1 DEF ContextKept, ReadyIsRunning
<1> QED  BY <1>6, <1>7, <1>8, <1>9

-----------------------------------------------------------------------------
LEMMA KernelInvStep ==
    ASSUME KernelInv, [Next]_vars
    PROVE  KernelInv'
<1>1. ASSUME NEW irq, hwint_enter(irq) PROVE KernelInv'
  BY <1>1, SaveKeeps DEF hwint_enter
<1>2. ASSUME NEW irq, hwint_unhandled(irq) \/ enable_irq(irq) PROVE KernelInv'
  <2>1. UNCHANGED <<int_reenter, p_proc_ready, esp0, frame, cpu, kstack, done>>
    BY <1>2 DEF hwint_unhandled, enable_irq
  <2> QED  BY <2>1 DEF KernelInv, KernelTypes, ReturnsInOrder, Owner,
                      CallsKnowTheirFrame, ContextKept, ReadyIsRunning
<1>3. CASE hwint_leave
  <2>1. kstack # <<>> /\ leave(frame) /\ UNCHANGED <<p_proc_ready, done>>
    BY <1>3 DEF hwint_leave
  <2>2. /\ frame \in [Proc -> RegisterSet] /\ done' \in [Proc -> Nat]
        /\ \A p \in Proc : frame[p] = Registers(p, done'[p])
    BY <2>1 DEF KernelInv, KernelTypes, ContextKept
  <2> QED  BY <2>1, <2>2, LeaveKeeps
<1>4. CASE sys_call_enter
  BY <1>4, SaveKeeps DEF sys_call_enter
<1>5. CASE sys_call_leave
  <2> DEFINE saved == [frame EXCEPT ![Top.esi] = Registers(@.proc, @.work + 1)]
  <2>1. /\ kstack # <<>> /\ leave(saved) /\ UNCHANGED p_proc_ready
        /\ done' = [done EXCEPT ![cpu.proc] = @ + 1]
    BY <1>5 DEF sys_call_leave
  <2>2. Top.esi = cpu.proc /\ cpu.proc \in Proc
    <3>1. Len(kstack) \in 1..Len(kstack)
      BY <2>1 DEF KernelInv, KernelTypes
    <3> QED  BY <3>1 DEF KernelInv, KernelTypes, Owner, CallsKnowTheirFrame, Top
  <2>3. \A p \in Proc : frame[p] = Registers(p, done[p])
    BY <2>1 DEF KernelInv, ContextKept
  <2>4. saved \in [Proc -> RegisterSet] /\ done' \in [Proc -> Nat]
    BY <2>1, <2>2 DEF KernelInv, KernelTypes, RegisterSet, Registers
  <2>5. ASSUME NEW p \in Proc PROVE saved[p] = Registers(p, done'[p])
    BY <2>1, <2>2, <2>3 DEF KernelInv, KernelTypes, Registers
  <2> HIDE DEF saved
  <2> QED  BY <2>1, <2>4, <2>5, LeaveKeeps
<1>6. CASE serve
  BY <1>6, ServeKeeps
<1>7. CASE work
  <2>1. /\ kstack = <<>>
        /\ cpu' = Registers(cpu.proc, cpu.work + 1)
        /\ done' = [done EXCEPT ![cpu.proc] = @ + 1]
        /\ UNCHANGED <<int_reenter, p_proc_ready, esp0, frame, kstack>>
    BY <1>7 DEF work, InUserMode
  <2>2. /\ cpu \in RegisterSet /\ cpu'.proc = cpu.proc /\ cpu'.work = cpu.work + 1
        /\ cpu' \in RegisterSet /\ cpu.proc \in Proc
    BY <2>1 DEF KernelInv, KernelTypes, RegisterSet, Registers
  <2>3. KernelTypes'
    BY <2>1, <2>2 DEF KernelInv, KernelTypes
  <2>4. ReturnsInOrder' /\ Owner' /\ CallsKnowTheirFrame'
    BY <2>1, <2>2 DEF KernelInv, ReturnsInOrder, Owner, CallsKnowTheirFrame
  <2>5. ContextKept'
    BY <2>1, <2>2 DEF KernelInv, KernelTypes, ContextKept
  <2>6. ReadyIsRunning'
    BY <2>1, <2>2 DEF KernelInv, ReadyIsRunning
  <2> QED  BY <2>3, <2>4, <2>5, <2>6 DEF KernelInv
<1>8. CASE UNCHANGED vars
  BY <1>8 DEF vars, KernelInv, KernelTypes, ReturnsInOrder, Owner,
              CallsKnowTheirFrame, ContextKept, ReadyIsRunning
<1> QED  BY <1>1, <1>2, <1>3, <1>4, <1>5, <1>6, <1>7, <1>8 DEF Next

(***************************************************************************)
(* Whatever interrupts nest and whoever is scheduled meanwhile, services   *)
(* are gone back to in order, and every process goes on from where it was  *)
(* interrupted, with the answers of its calls, as the process that the     *)
(* kernel takes it for: save, restart and reenter.                         *)
(***************************************************************************)
THEOREM InterruptsReturn ==
    Spec => [](ReturnsInOrder /\ ContextKept /\ ReadyIsRunning)
<1>1. KernelInv => ReturnsInOrder /\ ContextKept /\ ReadyIsRunning
  BY DEF KernelInv
<1> QED  BY <1>1, KernelInvInit, KernelInvStep, PTL DEF Spec

-----------------------------------------------------------------------------
(* The masks.  The bits of irq << 1 are, for the keyboard, its own line;   *)
(* for the disk, the cascade's and two that nobody enables; for the clock, *)
(* none.                                                                   *)

LEMMA LinesOfHandlers ==
    /\ 1 \in lines(KEYBOARD_IRQ) /\ 2 \notin lines(KEYBOARD_IRQ)
    /\ 2 \in lines(AT_WINI_IRQ) /\ 1 \notin lines(AT_WINI_IRQ)
    /\ 1 \notin lines(CLOCK_IRQ) /\ 2 \notin lines(CLOCK_IRQ)
<1>1. 2^1 = 2 /\ 2^2 = 4
  OBVIOUS
<1> QED  BY <1>1 DEF lines, Master, KEYBOARD_IRQ, AT_WINI_IRQ, CLOCK_IRQ

\* the keyboard is masked while it is served, the disk through the cascade
ServedIsClosed ==
    \A i \in 1..Len(kstack) :
        /\ kstack[i].entry = KEYBOARD_IRQ => KEYBOARD_IRQ \in closed
        /\ kstack[i].entry = AT_WINI_IRQ => CASCADE_IRQ \in closed

\* an enabled line is masked only by somebody who will open it again
MaskIsUndone ==
    \A irq \in asked \cap closed : \E i \in 1..Len(kstack) :
        kstack[i].entry \in Handled /\ irq \in lines(kstack[i].entry)

MaskTypes ==
    /\ Len(kstack) <= MaxNest
    /\ closed \subseteq Master \cup Slave
    /\ asked \subseteq Master \cup Slave
    /\ halted \in BOOLEAN

MaskInv ==
    /\ KernelInv
    /\ MaskTypes
    /\ HandlersNotReentered
    /\ ServedIsClosed
    /\ MaskIsUndone

LEMMA MaskInvInit == Init => MaskInv
<1> SUFFICES ASSUME Init PROVE MaskInv
  OBVIOUS
<1> USE DEF Init
<1>1. Len(kstack) = 0
  OBVIOUS
<1>2. MaskTypes
  <2>1. Len(kstack) <= MaxNest
    BY <1>1, InterruptsAssumption
  <2>2. CLOCK_IRQ \in Master /\ KEYBOARD_IRQ \in Master
    BY DEF Master, CLOCK_IRQ, KEYBOARD_IRQ
  <2>3. asked \subseteq Master \cup Slave /\ closed \subseteq Master \cup Slave
    BY <2>2
  <2>4. halted \in BOOLEAN
    OBVIOUS
  <2> QED  BY <2>1, <2>3, <2>4 DEF MaskTypes
<1>3. HandlersNotReentered /\ ServedIsClosed
  BY <1>1 DEF HandlersNotReentered, ServedIsClosed
<1>4. MaskIsUndone
  BY DEF MaskIsUndone
<1> QED  BY <1>2, <1>3, <1>4, KernelInvInit DEF MaskInv

\* an interrupt is entered when its line is open, so nobody is serving it; a
\* system call masks nothing
LEMMA EnterMasks ==
    ASSUME MaskInv, NEW irq \in Handled \cup {call}, save(irq),
           irq \in Handled => IsOpen(irq), UNCHANGED <<asked, halted>>,
           closed' = IF irq \in Handled THEN closed \cup lines(irq) ELSE closed
    PROVE  MaskTypes' /\ HandlersNotReentered' /\ ServedIsClosed' /\ MaskIsUndone'
<1> DEFINE n == Len(kstack)
<1>1. n < MaxNest /\ closed \subseteq closed'
  BY DEF save
<1>2. /\ n \in Nat /\ Len(kstack') = n + 1
      /\ \A i \in 1..n : kstack'[i] = kstack[i]
      /\ kstack'[n + 1].entry = irq
  <2> DEFINE new == [entry |-> irq, served |-> FALSE, esi |-> esp0,
                     back |-> IF outermost THEN "restart" ELSE "reenter"]
  <2>1. kstack' = Append(kstack, new)
    BY DEF save
  <2>2. new \in Service /\ new.entry = irq /\ kstack \in Seq(Service)
    BY DEF Service, MaskInv, KernelInv, KernelTypes
  <2> HIDE DEF new
  <2> QED  BY <2>1, <2>2, Push
<1> HIDE DEF n
<1>3. \A i \in 1..Len(kstack') : i \in 1..n \/ i = n + 1
  BY <1>2
<1>4. MaskTypes'
  <2>1. closed' \subseteq Master \cup Slave
    BY DEF MaskInv, MaskTypes, lines
  <2>2. Len(kstack') <= MaxNest
    BY <1>1, <1>2, InterruptsAssumption DEF n
  <2> QED  BY <2>1, <2>2 DEF MaskInv, MaskTypes
<1>5. irq \in {KEYBOARD_IRQ, AT_WINI_IRQ} => \A i \in 1..n : kstack[i].entry # irq
  BY DEF MaskInv, ServedIsClosed, IsOpen, Handled, Slave, AT_WINI_IRQ, n
<1>6. HandlersNotReentered'
  <2> SUFFICES ASSUME NEW k \in {KEYBOARD_IRQ, AT_WINI_IRQ},
                      NEW i \in 1..Len(kstack'), NEW j \in 1..Len(kstack'),
                      kstack'[i].entry = k, kstack'[j].entry = k
               PROVE  i = j
    BY DEF HandlersNotReentered
  <2>1. CASE i \in 1..n /\ j \in 1..n
    BY <1>2, <2>1 DEF MaskInv, HandlersNotReentered, n
  <2>2. CASE i = n + 1 \/ j = n + 1
    BY <1>2, <1>3, <1>5, <2>2
  <2> QED  BY <1>3, <2>1, <2>2
<1>7. ServedIsClosed'
  <2>1. ASSUME NEW i \in 1..n
        PROVE  /\ kstack'[i].entry = KEYBOARD_IRQ => KEYBOARD_IRQ \in closed'
               /\ kstack'[i].entry = AT_WINI_IRQ => CASCADE_IRQ \in closed'
    BY <1>1, <1>2 DEF MaskInv, ServedIsClosed, n
  <2>2. /\ kstack'[n + 1].entry = KEYBOARD_IRQ => KEYBOARD_IRQ \in closed'
        /\ kstack'[n + 1].entry = AT_WINI_IRQ => CASCADE_IRQ \in closed'
    BY <1>2, LinesOfHandlers DEF Handled, KEYBOARD_IRQ, CASCADE_IRQ
  <2> QED  BY <1>3, <2>1, <2>2 DEF ServedIsClosed
<1>8. MaskIsUndone'
  <2> SUFFICES ASSUME NEW x \in asked' \cap closed'
               PROVE  \E i \in 1..Len(kstack') :
                        kstack'[i].entry \in Handled /\ x \in lines(kstack'[i].entry)
    BY DEF MaskIsUndone, lines
  <2>1. CASE x \in closed
    <3>1. PICK i \in 1..n : kstack[i].entry \in Handled /\ x \in lines(kstack[i].entry)
      BY <1>1, <2>1 DEF MaskInv, MaskIsUndone, n
    <3>2. i \in 1..Len(kstack')
      BY <1>2
    <3> QED  BY <1>2, <3>1, <3>2
  <2>2. CASE irq \in Handled /\ x \in lines(irq)
    <3>1. n + 1 \in 1..Len(kstack')
      BY <1>2
    <3> QED  BY <1>2, <2>2, <3>1
  <2> QED  BY <2>1, <2>2
<1> QED  BY <1>4, <1>6, <1>7, <1>8

\* the innermost service leaves, and opens what it has closed
LEMMA LeaveOpens ==
    ASSUME MaskInv, kstack # <<>>,
           kstack' = SubSeq(kstack, 1, Len(kstack) - 1), UNCHANGED <<asked, halted>>,
           closed' = IF Top.entry \in Handled THEN closed \ lines(Top.entry) ELSE closed
    PROVE  MaskTypes' /\ HandlersNotReentered' /\ ServedIsClosed' /\ MaskIsUndone'
<1> DEFINE n == Len(kstack) - 1
<1>1. /\ n \in Nat /\ Len(kstack') = n /\ n + 1 = Len(kstack)
      /\ \A i \in 1..n : kstack'[i] = kstack[i]
  BY Pop DEF MaskInv, KernelInv, KernelTypes
<1>2. Top = kstack[n + 1]
  BY <1>1 DEF Top
<1> HIDE DEF n
<1>3. \A i \in 1..n : i \in 1..Len(kstack) /\ i # n + 1 /\ n + 1 \in 1..Len(kstack)
  BY <1>1
<1>4. MaskTypes'
  BY <1>1, InterruptsAssumption DEF MaskInv, MaskTypes
<1>5. HandlersNotReentered'
  BY <1>1, <1>3 DEF MaskInv, HandlersNotReentered
<1>6. ServedIsClosed'
  <2> SUFFICES ASSUME NEW i \in 1..n
               PROVE  /\ kstack[i].entry = KEYBOARD_IRQ => KEYBOARD_IRQ \in closed'
                      /\ kstack[i].entry = AT_WINI_IRQ => CASCADE_IRQ \in closed'
    BY <1>1 DEF ServedIsClosed
  <2>1. /\ kstack[i].entry = KEYBOARD_IRQ => KEYBOARD_IRQ \in closed
        /\ kstack[i].entry = AT_WINI_IRQ => CASCADE_IRQ \in closed
    BY <1>3 DEF MaskInv, ServedIsClosed
  <2>2. kstack[i].entry \in {KEYBOARD_IRQ, AT_WINI_IRQ} => Top.entry # kstack[i].entry
    BY <1>2, <1>3 DEF MaskInv, HandlersNotReentered
  <2>3. /\ Top.entry # KEYBOARD_IRQ /\ Top.entry \in Handled => KEYBOARD_IRQ \notin lines(Top.entry)
        /\ Top.entry # AT_WINI_IRQ /\ Top.entry \in Handled => CASCADE_IRQ \notin lines(Top.entry)
    BY LinesOfHandlers DEF Handled, KEYBOARD_IRQ, CASCADE_IRQ
  <2> QED  BY <2>1, <2>2, <2>3
<1>7. MaskIsUndone'
  <2> SUFFICES ASSUME NEW x \in asked' \cap closed'
               PROVE  \E i \in 1..Len(kstack') :
                        kstack'[i].entry \in Handled /\ x \in lines(kstack'[i].entry)
    BY DEF MaskIsUndone, lines
  <2>1. PICK i \in 1..Len(kstack) : kstack[i].entry \in Handled /\ x \in lines(kstack[i].entry)
    BY DEF MaskInv, MaskIsUndone
  <2>2. i # n + 1
    BY <1>2, <2>1
  <2>3. i \in 1..n
    BY <1>1, <2>2
  <2> QED  BY <1>1, <2>1, <2>3
<1> QED  BY <1>4, <1>5, <1>6, <1>7

\* the other steps close nothing, and keep what is being served
LEMMA OthersKeepMasks ==
    ASSUME MaskInv, Len(kstack') = Len(kstack), halted' \in BOOLEAN,
           \A i \in 1..Len(kstack) : kstack'[i].entry = kstack[i].entry,
           UNCHANGED <<asked, closed>>
    PROVE  MaskTypes' /\ HandlersNotReentered' /\ ServedIsClosed' /\ MaskIsUndone'
<1>1. MaskTypes'
  BY DEF MaskInv, MaskTypes
<1>2. HandlersNotReentered' /\ ServedIsClosed'
  BY DEF MaskInv, HandlersNotReentered, ServedIsClosed
<1>3. MaskIsUndone'
  <2> SUFFICES ASSUME NEW x \in asked' \cap closed'
               PROVE  \E i \in 1..Len(kstack') :
                        kstack'[i].entry \in Handled /\ x \in lines(kstack'[i].entry)
    BY DEF MaskIsUndone, lines
  <2>1. PICK i \in 1..Len(kstack) : kstack[i].entry \in Handled /\ x \in lines(kstack[i].entry)
    BY DEF MaskInv, MaskIsUndone
  <2> QED  BY <2>1
<1> QED  BY <1>1, <1>2, <1>3

LEMMA MaskInvStep ==
    ASSUME MaskInv, [Next]_vars
    PROVE  MaskInv'
<1> DEFINE Masks == MaskTypes /\ HandlersNotReentered /\ ServedIsClosed /\ MaskIsUndone
<1>1. SUFFICES Masks'
  BY KernelInvStep DEF MaskInv
<1>2. ASSUME NEW irq, hwint_enter(irq) PROVE Masks'
  BY <1>2, EnterMasks DEF hwint_enter
<1>3. ASSUME NEW irq, hwint_unhandled(irq) PROVE Masks'
  BY <1>3, OthersKeepMasks DEF hwint_unhandled
<1>4. CASE hwint_leave
  <2>1. /\ kstack # <<>> /\ kstack' = SubSeq(kstack, 1, Len(kstack) - 1)
        /\ UNCHANGED <<asked, halted>>
        /\ closed' = IF Top.entry \in Handled THEN closed \ lines(Top.entry) ELSE closed
    BY <1>4 DEF hwint_leave, leave, reopened
  <2> QED  BY <2>1, LeaveOpens
<1>5. CASE sys_call_enter
  <2>1. call \notin Handled
    BY DEF call, Handled, CLOCK_IRQ, KEYBOARD_IRQ, AT_WINI_IRQ
  <2> QED  BY <1>5, <2>1, EnterMasks DEF sys_call_enter
<1>6. CASE sys_call_leave
  <2>1. call \notin Handled
    BY DEF call, Handled, CLOCK_IRQ, KEYBOARD_IRQ, AT_WINI_IRQ
  <2>2. /\ kstack # <<>> /\ kstack' = SubSeq(kstack, 1, Len(kstack) - 1)
        /\ UNCHANGED <<asked, halted>>
        /\ closed' = IF Top.entry \in Handled THEN closed \ lines(Top.entry) ELSE closed
    <3>1. /\ kstack # <<>> /\ Top.entry = call
          /\ kstack' = SubSeq(kstack, 1, Len(kstack) - 1)
          /\ UNCHANGED <<closed, asked, halted>>
      BY <1>6 DEF sys_call_leave, leave
    <3> QED  BY <2>1, <3>1
  <2> QED  BY <2>2, LeaveOpens
<1>7. CASE serve
  <2> DEFINE last == [entry |-> Top.entry, served |-> TRUE, esi |-> Top.esi,
                      back |-> Top.back]
  <2>1. /\ kstack # <<>> /\ kstack' = [kstack EXCEPT ![Len(kstack)] = last]
        /\ UNCHANGED <<asked, closed, halted>>
    BY <1>7 DEF serve, Top
  <2>2. last.entry = kstack[Len(kstack)].entry
    BY DEF Top
  <2> HIDE DEF last
  <2>3. kstack \in Seq(Service) /\ halted \in BOOLEAN
    BY DEF MaskInv, MaskTypes, KernelInv, KernelTypes
  <2>4. /\ Len(kstack') = Len(kstack)
        /\ \A i \in 1..Len(kstack) : kstack'[i].entry = kstack[i].entry
    BY <2>1, <2>2, <2>3
  <2> QED  BY <2>1, <2>3, <2>4, OthersKeepMasks
<1>8. CASE work
  BY <1>8, OthersKeepMasks DEF work, MaskInv, MaskTypes
<1>9. ASSUME NEW irq \in {CASCADE_IRQ, AT_WINI_IRQ}, enable_irq(irq) PROVE Masks'
  <2>1. /\ kstack = <<>> /\ kstack' = <<>> /\ asked' = asked \cup {irq}
        /\ closed' = closed \ {irq} /\ halted' = halted
    BY <1>9 DEF enable_irq, InUserMode
  <2>2. Len(kstack') = 0 /\ Len(kstack) = 0
    BY <2>1
  <2>3. MaskTypes'
    <3>1. irq \in Master \cup Slave
      BY DEF CASCADE_IRQ, AT_WINI_IRQ, Master, Slave
    <3> QED  BY <2>1, <2>2, <3>1 DEF MaskInv, MaskTypes
  <2>4. HandlersNotReentered' /\ ServedIsClosed'
    BY <2>2 DEF HandlersNotReentered, ServedIsClosed
  <2>5. MaskIsUndone'
    BY <2>1, <2>2 DEF MaskInv, MaskIsUndone
  <2> QED  BY <2>3, <2>4, <2>5
<1>10. CASE UNCHANGED vars
  BY <1>10, OthersKeepMasks DEF vars, MaskInv, MaskTypes
<1> QED  BY <1>2, <1>3, <1>4, <1>5, <1>6, <1>7, <1>8, <1>9, <1>10 DEF Next

(***************************************************************************)
(* The state of the kernel's entries and exits stays well typed, the stack *)
(* of services and the masks included.                                     *)
(***************************************************************************)
THEOREM InterruptsTypes == Spec => []TypeOK
<1>1. MaskInv => TypeOK
  <2> SUFFICES ASSUME MaskInv PROVE TypeOK
    OBVIOUS
  <2>1. KernelTypes /\ MaskTypes /\ int_reenter = Len(kstack) - 1
    BY DEF MaskInv, KernelInv, ReturnsInOrder
  <2>2. int_reenter \in -1..(MaxNest - 1)
    BY <2>1, InterruptsAssumption, LenProperties DEF KernelTypes, MaskTypes
  <2> QED  BY <2>1, <2>2 DEF TypeOK, KernelTypes, MaskTypes
<1> QED  BY <1>1, MaskInvInit, MaskInvStep, PTL DEF Spec

(***************************************************************************)
(* The handlers of the keyboard and the disk are never entered again while *)
(* they are being served, although the macros mask the bits of irq << 1    *)
(* and not the line itself: those of the keyboard hold its own line, those *)
(* of the disk the cascade's.                                              *)
(***************************************************************************)
THEOREM HandlersRunOnce == Spec => []HandlersNotReentered
<1>1. MaskInv => HandlersNotReentered
  BY DEF MaskInv
<1> QED  BY <1>1, MaskInvInit, MaskInvStep, PTL DEF Spec

(***************************************************************************)
(* However handlers nest and whenever lines are enabled, no enabled line   *)
(* is masked once the kernel is left: each that is masked inside was       *)
(* masked by a service that opens it as it leaves.                         *)
(***************************************************************************)
THEOREM NoLineStaysMasked == Spec => []LinesReopened
<1>1. MaskInv => LinesReopened
  <2> SUFFICES ASSUME MaskInv, kstack = <<>> PROVE asked \cap closed = {}
    BY DEF LinesReopened
  <2>1. Len(kstack) = 0
    OBVIOUS
  <2> QED  BY <2>1 DEF MaskInv, MaskIsUndone
<1> QED  BY <1>1, MaskInvInit, MaskInvStep, PTL DEF Spec
=============================================================================
