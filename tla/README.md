# A verification project for len-os

len-os is a small operating system for the 32-bit PC: a boot sector and a
loader, a kernel with three interrupts and a handful of system calls, a
multilevel feedback scheduler, synchronous messages between tasks, and the
tasks themselves (terminal, system, disk, file system).  This directory holds
TLA+ modules of the parts whose correctness depends on order and interleaving,
the TLC configurations that check them, and TLAPS proofs of what can be proved
for every size.  Paths below are relative to the repository (`src/`).

    tlasany M.tla                          parse a module
    tlc -workers 2 -config X.cfg M         check a configuration
    tlapm M_proofs.tla                     check the proofs of a module

## 1. The system

### Components

| Component | State | Operations | Where |
|---|---|---|---|
| Interrupt entry and exit | `int_reenter`, `p_proc_ready`, `tss.esp0`, the register frames in the PCBs, the kernel stack, the masks of the two 8259A | `save`, `restart`, `reenter`, `hwint_master`, `hwint_slave`, `sys_call`, `enable_irq` | `kernel/kernel.asm`, `lib/interrupt/interrupt.{asm,cc}` |
| Scheduler | `flags`, `ticks`, `queen_number`, `next_pcb` of each PCB; head and tail of three lists; `p_proc_ready` | `init_proc`, `schedule`, `next_quene`, `find_first`, `clock_handler`, `block`, `unblock` | `lib/interrupt/interrupt.cc`, `lib/process/process.cc` |
| Message passing | `message`, `send_to_record`, `recv_from_record`, `has_int_msg`, `receive_quene`, `next_sending` of each PCB | `send_msg`, `receive_msg`, `is_deadlock`, `hd_handler` | `lib/process/process.cc`, `lib/interrupt/{syscall,interrupt}.cc` |
| Keyboard | ring `kb_buffer`; shift, ctrl and alt variables; where `keyboard_read` is in a sequence | `keyboard_handler`, `keyboard_read`, `get_byte_from_kbuf`, `in_process`, `put_key` | `lib/iosystem/keyboard.cc`, `lib/interrupt/interrupt.cc` |
| Terminals and consoles | ring `in_buffer`, `command`, `curr`, `prefix`, `cursor`, `current_addr` of each terminal; `current_console`; the VGA start address | `task_tty`, `tty_do_write`, `tty_command`, `print`, `select_console`, `scroll_screen` | `lib/process/tty.cc`, `lib/iosystem/console.cc` |
| Disk driver | the command being carried out, `hdbuf` | `task_hd`, `hd_read`, `hd_write`, `hd_cmd_out` | `lib/iosystem/harddrive.cc` |
| File system | super block, group descriptors, `fs_inode_table` | `task_fs`, `init_fs`, `fs_read_file`, `fs_op_disk` | `lib/filesystem/fs.cc` |
| System task | `ticks` | `task_system`, `get_ticks` | `lib/process/systask.cc` |
| Boot sector, loader | registers, the inode and the directory block in memory, the disk address packet, the memory map | `root_search`, `SearchKernel`, `GetInode`, `LoadFile` on an ext2 disk; `DispMemInfo`, `SetupPaging`, `InitKernel` | `boot/*.asm`, `boot/include/*.asm` |
| Descriptor tables | GDT, IDT, TSS | filled once | `kernel/kernel.cc`, `lib/essential/base.cc` |

### How they interact

* A hardware interrupt enters through `save`, masks lines, executes `sti` and
  calls its handler.  `clock_handler` calls `schedule`, which chooses
  `p_proc_ready`; `keyboard_handler` fills `kb_buffer`; `hd_handler` wakes
  `task_hd` or leaves a note in `has_int_msg`.
* A system call enters through `save` too and also executes `sti`.  `send_msg`
  and `receive_msg` change two PCBs, and may block the caller and call
  `schedule`.  Interrupts nest in calls and in each other; only the outermost
  service ends in `restart`, which resumes `p_proc_ready`.
* `task_tty` polls `kb_buffer` without blocking, except inside a multi-byte
  sequence, and asks `task_fs`, which asks `task_hd`, which waits for the disk
  interrupt: three rendezvous in a chain, and back.
* `print` of `task_tty` and `print` of the `write` system call, which any process
  may make, change the same cursor and the same cells.
* The boot sector loads the loader, the loader the kernel; what they leave in
  memory (the map of RAM, the page tables, the segments) the kernel starts with.

### What is hard

Nested interrupts over shared PCBs; a test and its use in a system call with an
interrupt in between; linked lists with special cases for empty, first and
last; rings between an interrupt and a task; a focus that moves while input is
on its way; a cursor that two processes move; bit masks computed from line
numbers; 16-bit offsets and 8-bit quotients in the loader.  `PROJECT.json` lists these
hazards at their lines, with the properties that would catch each of them.

### What makes each component correct

* Interrupts: nested services return in order, no process gets the registers
  of another, a line is closed while it is served and open when it is not.
* Scheduler: the three lists stay lists and hold every task once; decisions
  follow the multilevel queue discipline; slices are renewed; a runnable
  process is scheduled; what is switched to exists and is runnable.
* Messages: a queue holds exactly the blocked senders; sender and receiver find
  each other whichever comes first; who is woken has what it asked for.
* Keyboard and terminals: bytes stay in order; the modifiers follow the keys;
  a character reaches the terminal it was typed for; the screen shows the
  console with the focus; a read comes back; a command is the line that was
  edited; what is printed is on the screen, on its own console; a name is found
  in the directory that was read.
* Disk, file system, tasks: a request is answered, with what it asked for; the
  driver and the disk stay in step.
* Boot: a file in the directory is found and loaded whole, memory is mapped, and
  every segment ends up where the kernel expects it.

## 2. The modules

| Module | What it models |
|---|---|
| `Lists` | walking a linked list (`find_first`, the loops of `send_msg`) |
| `Scheduler` | the scheduler, pointer by pointer |
| `MLFQ` | what the scheduler promises: three first-come-first-served levels |
| `SchedulerRefinement` | the refinement mapping from `Scheduler` to `MLFQ` |
| `ScheduleSteps` | `schedule` and `next_quene` statement by statement, entered again by the clock; refines `Scheduler` |
| `IPC`, `MCIPC` | message passing, and sets of calls to check it with |
| `Ring` | the ring buffer that the code has twice |
| `Fifo` | what a ring promises |
| `Keyboard` | from the key to the terminal |
| `KeyboardRefinement` | the refinement mapping from `kb_buffer` to `Fifo` |
| `Interrupts` | entering and leaving the kernel |
| `Tasks`, `MCTasks` | terminal, file system and disk driver over `IPC`, with the disk |
| `Terminal`, `MCTerminal` | the command line, the commands and `print`, against the `write` call |
| `Boot`, `MCBoot` | boot sector and loader |
| `Lists_proofs` | what the proofs need to know of linked lists, for `Scheduler` and `IPC` |
| `*_proofs` | theorems about the module of that name (those about `Ring` are in `Keyboard_proofs`) |

Names are those of the code (`next_quene`, `queen_number`, `receive_quene`,
`send_msg`'s variables), so that a definition can be laid beside its function.
A definition whose comment describes something the code does not do
(`Init_IdleLinkedLikeATask`, `find_first_head`, `enqueue_first`, ...) is a
mutant: a plausible mistake in the definition that follows it.  No
specification uses one; each property is checked to fail when one takes the
place of the real definition.

### Scheduler

Processes are their pids, also their places in `proc_table`; `process_tail`,
the idle process, is the last.  `next_pcb`, `head`, `tail` are the pointers.
`schedule` is one action with one disjunct per branch: the first runnable
process of queue 1, of queue 2, or `schedule_last`, which looks at the process
that was running.  `next_quene` charges a tick and, at the end of a slice,
unlinks (`unlinked`) and appends (`linked`) with the pointer writes of the
code.  `queen_number` is the unsigned byte of the PCB, and that of process 0,
which `init_proc` never writes, starts as any value in `TtyQueen`.  A system
call is in progress between `sys_call` and one of `sys_return`,
`block_and_schedule` (which the calls do as their last two statements) and
`block_only`.  The clock may come in between, so the caller need not be
`p_proc_ready` when it blocks.  A null `p_proc_ready` is reachable (section 5)
and stops the model where it stops the machine.

Abstracted: `schedule` is atomic here, and in steps in `ScheduleSteps`.
`unblock` may come at any time; who unblocks whom is in `IPC`.

### ScheduleSteps

`acts` is the stack of activations of `schedule`, each with the statement it is
at (`pc`), the queue it works on, and who called it.  Only the innermost goes
on.  `curr` is `p_proc_ready` at every use, because `next_quene` has its
parameters by reference; the same holds for the heads and tails.  `find_first`
is one step: it changes nothing, and the next statement stores its result.  The
clock line is not masked while the clock is served, and a system call that
blocks calls `schedule` with interrupts on, so `clock` may enter `schedule` in
the middle of another one; `Interrupted` says of which.  With
`Interrupted = {}` (no `schedule` lasts longer than a tick, and none is met by a
tick) the statements must add up to the one step of `Scheduler`: `Seen` hides
the state until the outermost activation returns.  A walk along `next_pcb`
that does not come to its end is `spin`.

### IPC

`call` is the system call in progress: one at a time, because a call runs to its
end before user code runs again and interrupts return to it.  A call is
split at the points where `hd_handler` could change what it has read: before
the first test of the receiver, between its two tests, before the copy, and
around the test of `has_int_msg`.  MESSAGE is its `source` field: whose message
a process holds; a pointer in the PCB is whether it is set.  `spin` is a loop
that cannot end.  The module assumes that a blocked process does not run.
The scheduler keeps that except in its last branch (`SwitchesToRunnable`,
section 5), so what follows from such a switch is not in `IPC`.

### Keyboard

The user presses and releases `Keys`; the keyboard controller sends scan code
set 1; `keyboard_handler` takes a byte from the wire, and drops it when
`kb_buffer` is full.  `keyboard_read` is a step per byte, because
`get_byte_from_kbuf` waits for the next byte of a sequence.  `in_process`,
`put_key`, `select_console`, `scroll_screen` follow the code for the rows of
`keymap` in use.  `tty_do_write` is one action, with the loop of `task_tty`
over the terminals: the others are passed over.  `due` and `focus` are what the
user meant: not in the code, and read only by properties.

Abstracted: what `tty_command` does with a line of text is not here (only that
it may print or not); keys outside the table; the cursor.  `%` in
`tty_do_write` and the comparison in `put_key` move a pointer the same way.

`ScreenShowsFocus` is about runs without `write` calls, which `Terminal` has.

### Terminal

`task_tty` in the steps of `print` that read the cursor, test or move it, or write
a cell, with `write` of another process between any two of them.
A `write` itself is one step: it runs in a system call, and the interrupts that
come into its middle return to it.  (The clock may choose another process then,
but only `restart`, after the call, resumes it.)  `out` is what is left to
print, `p_vmem` the pointer `print` has computed; the prompt of a newline is
printed by nested calls, whose ends are the marks `"show"` in `out`.  A limit of
0 is a terminal that `TTY::init` has not reached: `0 - 1` is then the greatest
address.  `command` also has the places before its start that a Backspace too
many reaches.  `tty_command` has its branches in the order of the code; the
answer of the file system is any of `Directories`, read over what
`dictionary_buffer` had, or nothing.  A directory entry (`Entry`) is its name,
inode and type; a name that fills its entry up to a multiple of four bytes runs
into the inode number behind it, whose bytes up to the first zero are one
character, `FirstByte`, that is in no name.  `typed`, `text`, `dir`, `longest` and
`torn` are for the properties.

Characters are those of the set `Char`, of which the code tells some apart
(`TextAssumption`).  What processes write has no Backspaces: `write` is called from
`printl` (`console.cc:54`) alone, with the strings of the kernel's processes.

Abstracted: the assignments of `TTY::init` are one step; a full command line is
where a user stops (what is written behind `command` is not modelled); scrolling
is in `Keyboard` only.  The test of a newline and the move to the next row are one
step, and so is an increment of the cursor; a `write` inside these is not modelled.

### Boot

Both programs step by step: a step is one block that is read, one directory
block that is searched, one memory range or one program header.  Addresses are
in KB and memory ranges in MB, so the 16-bit offset in a segment is a number
modulo 64, and an inode is its words, so that reading on from the wrong place
finds what stands there: sizes and times are taken for block numbers
(`next_block`).  `sub ecx, 2` with `ja` is `More`; the division by 8 into
an 8-bit quotient is `Divides`.  `Block` is `int 13h`, which leaves memory alone
when it fails, unnoticed.  The two assembly files differ only in `stage` where
they share an action; `boot.asm` knows no index block.

Abstracted: inodes are those of group 0; `Mem_Check_Buff` is large enough;
memory that a segment has beyond its file is not cleared, as in the code; files
have no holes.  What is executed when the kernel was not loaded whole is
`unknown`.  `Divides` has the whole inode number where the code has its low 16 bits,
and some memory is usable.

### Interrupts

Registers are the process they belong to and how far it has come, so that a mix
of two processes, or a step back, can be seen.  `save` and the code from `cli`
to `iretd` run with interrupts off and are steps; between them `serve` is the
handler, before and after which other interrupts may come.  `lines(irq)` are
the bits of `irq << 1`, as the macros compute them.  What handlers do with their
data is in the other modules; here the clock and a call may choose any process.

### Tasks

`Tasks` extends `IPC` and gives it programs.  `pc` is where a task is; a task
step that calls `ipc` is `send_enter` or `receive_enter` of `IPC` together with
what the task does before it, and the rest of the call is `in_call`, which also
copies the content of the message.  `fs` and `hd` are the local variables of
`fs_read_file` and `hd_read`; a turn of a loop is one action.  The disk makes a
sector ready and interrupts (`disk_ready`), `hd_interrupt` is `hd_handler` of
`IPC`, which reads the status and so takes the request of the disk back, and
`hd_data` reads the data port, which is garbage when no sector is ready.

Bytes are named after their sector and place, and memory is three areas (inode
table, indirect block, `dictionary_buffer`), so that a byte in the wrong place
shows.  `cd` leaves the function of its message as it finds it on the stack:
`tty_send` takes any.  `init_fs` is represented by its largest request.  What
stands `inode_index` bytes after the start of the inode table is a constant,
`InodeAt`.  The disk makes no errors.  The wait for BSY in `hd_cmd_out` tests
`STATUS_BSY != 0`, which is 1, so it is not a wait.

## 3. The runs

| Run | Module, instance | What it shows |
|---|---|---|
| `sched` | `SchedulerRefinement`; 3 tasks and idle, slices 1, 2, 2 | lists, slices and numbers stay right; every step is a step of `MLFQ`; nobody starves |
| `sched_steps` | `ScheduleSteps`; the same tasks and slices, no `schedule` interrupted | the statements are the one step of `Scheduler`; `schedule` returns |
| `sched_nested` | `ScheduleSteps`; the clock may come into the `schedule` of a call | violated: a slice passes zero |
| `sched_blocked` | 3 tasks | violated: a blocked process is resumed |
| `ipc_services` | 4 processes, everybody sends to everybody | queues, rendezvous and wake-ups are right as the tasks use them |
| `ipc_picks` | 4 processes, the disk task takes senders by name | who is blocked sending can be woken, also along the walk of `receive_msg` |
| `ipc_lost_irq` | 3 processes, the calls of the tasks | violated: the disk task sleeps on an interrupt it has |
| `keyboard` | `KeyboardRefinement`; 11 keys, 3 terminals, 3 events, `kb_buffer` of 2 | modifiers, order, focus, screen; `kb_buffer` is a queue; without loss a read comes back |
| `interrupts` | 2 processes, 2 units of work each, nesting up to 5 | returns, registers, who is calling, and masks |
| `tasks` | `MCTasks`; 4 files, sectors of 2 bytes, commands of up to 3 sectors | answers are right, and complete up to what one command reads, driver and disk stay in step, requests are answered unless a message or an interrupt is lost |
| `terminal` | `MCTerminal`; 2 terminals, 4 lines, 1 write, 2 directories | the command is the edited line, screens show what was printed, characters stay on their console, entries are found |
| `boot` | `MCBoot`; 59 disks and machines | files are found and loaded whole, memory is mapped, segments are in place, good disks boot |

Bounds, and why they are enough.

* `sched`: three tasks give a list with a first, a middle and a last process,
  and an empty one; a slice of one tick is the boundary, of two the ordinary
  case.  No counter is unbounded: the state space is finite and complete.
  `TtyQueen = {0, 1}` are a zeroed field and the right one.  With 2 or 3 the
  first process is taken for one of a lower queue, nothing else changes;
  `sched_blocked` has it.  `BlockFlag` has one of the two flags: the scheduler
  only asks whether flags are 0.
* `sched_steps`, `sched_nested`: the instance of `sched` with
  `TtyQueen = {1}`.  One clock in the middle of one `schedule` is enough to show
  what goes wrong, and bounds the stack `acts`.
* `ipc_*`: four processes give a queue of three senders: first, middle, last.
  Nothing is bounded.  The branch of `receive_msg` that searches a queue cannot
  be reached with the calls of `ipc_services`, so `ipc_picks` adds it.
  `TaskCalls` of `MCIPC` are the calls of the four tasks in any order;
  `ServiceCalls` and `PickCalls` are more than the tasks make today.
* `keyboard`: `MaxEvents` bounds the presses and releases.  Three is a modifier,
  its key and a release; a switch with Alt and a key after it; or one key three
  times, which wraps a `kb_buffer` of two places and overflows it, so that the
  sequences of Pause and Print Screen are cut anywhere, or taken in time and not
  cut.  Eleven keys are one or two of each kind that the code treats
  differently.  Three terminals, as in `const.h`, so that every function key has
  one.  `SCREEN_*` and `V_MEM_LIMIT` are small: only their relation matters.
* `interrupts`: `MaxNest = 5` lets the three lines and a call nest with the
  clock nested in itself; `MaxWork = 2` lets a process be interrupted, go on
  and be interrupted again.
* `tasks`: blocks of two sectors of two bytes, one direct block and an indirect
  block of two numbers; files of a part of a block, one block, two blocks and a
  byte, and more than the indirect block can name.  Every loop of `fs_read_file`
  and `hd_read` ends in each of its ways, with last sectors full and not.
  Nothing is bounded otherwise.  The inode table (`TableBytes`) is five sectors,
  the last not full, where a command reads three: like the 1024 sectors of the
  disk of the repository (`boot.inc`) at 127, it takes more than one command.
* `terminal`: a screen of three columns and less than three rows, with a last row
  that is not full, so rows wrap and the screen fills within two lines
  (`MaxLines`); a prompt that grows with `cd`; Backspace with and without
  something to delete; one write (`MaxWrites`) of a character and a newline,
  which is longer than a row with its prompt.  A directory of one block and one
  of two, with names that do and do not fill their entry.  A write can come
  before any statement of `print`.
* `boot`: everything is finite and nothing bounded but the images, which vary
  around one that boots: root directories of 1, 2 and 12 blocks with the files
  first, last, in a later block or missing; loaders of 1, 12 and 13 blocks and
  kernels of 1, 2, 11 to 14 (the index block), 40, 62 to 66 (the segment); memory
  maps in and out of order, with holes, up to and above 4 GB, and none; program
  headers next to each other, of type 0, and over the loaded file; inodes 2048
  and 2049, around the 8-bit quotient.

`CHECK_DEADLOCK FALSE` stands where the system really stops or the bound does:
in `sched*` and `steps_*` with the null `p_proc_ready`, in `keyboard` and `kb_*` when the user
has no events left while `keyboard_read` waits for the rest of a cut sequence,
in `tasks` when a message or an interrupt is lost and everybody waits,
in `interrupts` when the kernel has executed `hlt` or the processes have done
their work, in `terminal` when nobody types any more (`MaxLines`, a full line),
in `boot` when the kernel is entered or the boot has failed.

### Properties and liveness

Each property is stated above its definition.  The liveness properties:

* `NoStarvation` (`FairSpec` of `Scheduler`): a runnable process is resumed
  again and again, once no process calls, blocks or is unblocked any more.
  Fairness is that of the clock: the 8253 interrupts as long as the machine
  runs.  The action is enabled exactly while a process is there to be resumed,
  and the formula says so without ENABLED.  The premise is necessary: a process of queue
  2 that always blocks with one tick left keeps queue 3 waiting for ever.
* `ScheduleReturns` (`FairSteps` of `ScheduleSteps`): a call of `schedule` comes to
  its end.  Fairness is that the CPU goes on with the code it is in.
* `Boots` (`FairSpec` of `Boot`): a disk with both files in the first block of its
  root directory, of sizes the code has room for and inodes it can divide, boots.
  Fairness is that the CPU goes on, and that disk and BIOS answer.
* `ReadReturns` (`FairSpec` of `Keyboard`): unless a byte is dropped,
  `keyboard_read` always returns.  Fairness is that the keyboard interrupt is
  delivered and that `task_tty`, which does not block while nobody gives it a
  command for the file system, is scheduled.  When a byte is dropped the read does wait until the
  next key.
* `AnsweredUnlessLost` (`FairTasks` of `Tasks`): a call goes on, tasks that can
  run are scheduled, the disk carries out its commands and its interrupt is
  delivered.  Typing commands is not fair.  The premises are the two ways in
  which the code does lose something: `send_msg` drops a message
  (`DeliveredOrBlocked`), the disk task sleeps on an interrupt it has
  (`NoSleepOnInterrupt`); so nothing else keeps an answer back.

## 4. The proofs

TLAPS proves these for all values of the constants that the named assumptions
allow; TLC evaluates those assumptions on every run.

| Theorem | States | Argument |
|---|---|---|
| `SchedulerTypes` (`Scheduler_proofs`) | `Spec => []TypeOK` | inductive together with the next |
| `SlicesBounded` (`Scheduler_proofs`) | `Spec => []SliceNeverMissed` | a tick is taken from a slice of at least one and a slice that reaches 0 is renewed in the same call: one lemma about `schedule`, used by the clock and by blocking |
| `ListsStayLists` (`Scheduler_proofs`) | `Spec => []QueuesWellFormed` | `ListsInv`, below |
| `SchedulerImplementsMLFQ` (`Scheduler_proofs`) | `Spec => ImplementsMLFQ` | the sequences of `ListsInv` are what `Contents` reads off the lists; then one step per action |
| `TasksOnOneLevel` (`Scheduler_proofs`) | `Abstract!Spec => []Abstract!OneLevelEach` | of the abstract `MLFQ`: a demotion is a removal and an append, by lemmas on `RemoveAt` and `Append` |
| `TasksOnOneList` (`Scheduler_proofs`) | `Spec => []Abstract!OneLevelEach` | of the lists of the code, from the two theorems above |
| `IPCTypes` (`IPC_proofs`) | `Spec => []TypeOK` | inductive |
| `BlockedIsWakeable` (`IPC_proofs`) | `ASSUME OneNamedSource PROVE Spec => [](SenderIsWakeable /\ ReceiverIsWakeable)` | `WakeInv`, below |
| `QueuesHoldSenders` (`IPC_proofs`) | `ASSUME OneNamedSource PROVE Spec => []QueueIsSenders` | `RendezvousInv`, below |
| `RendezvousNotMissed` (`IPC_proofs`) | `ASSUME OneNamedSource PROVE Spec => []NoMissedRendezvous` | `RendezvousInv`, below |
| `ReceiversGetAnswers` (`IPC_proofs`) | `ASSUME OneNamedSource PROVE Spec => WokenWithAnswer` | every step from `RendezvousInv` that wakes a receiver is a copy by a sender it accepts, or the interrupt |
| `TasksRunOverIPC` (`Tasks_proofs`) | `TasksSpec => Spec /\ []NoMissedRendezvous /\ WokenWithAnswer` | each step of a task is a step of `IPC`, and `TaskCalls` satisfy `OneNamedSource` |
| `ReadsWhatIsReady` (`Tasks_proofs`) | `TasksSpec => []DataIsReady` | `RunInv`, below |
| `CommandsFindDiskIdle` (`Tasks_proofs`) | `TasksSpec => []DiskIsIdle` | `RunInv`, below |
| `AnswersAreMine` (`Tasks_proofs`) | `TasksSpec => []AnswerOfMyRequest` | `RunInv`, below |
| `AnswersUpToBatch` (`Tasks_proofs`) | `TasksSpec => []AnsweredUpToBatch` | `TransferInv`, below |
| `AnswersAreFiles` (`Tasks_proofs`) | `TasksSpec => []AnswerIsTheFile` | `TransferInv`, below |
| `TasksWellTyped` (`Tasks_proofs`) | `TasksSpec => []TasksTypeOK` | `RunInv` and `TransferInv` |
| `KbBufferImplementsFifo` (`Keyboard_proofs`) | `Spec => KbBufferIsFifo` | the contents of a consistent ring after `put` and `taken`, then one step per action |
| `NothingIsLeftBehind` (`Keyboard_proofs`) | `Spec => []NothingLeftBehind` | a read puts at most one character, in the terminal that is served, and leads to the write that takes it |
| `RingsStayRings` (`Keyboard_proofs`) | `Spec => []RingsOK` | from the invariants of the two theorems above |
| `FocusIsOnView` (`Keyboard_proofs`) | `ASSUME ConsoleForEveryKey PROVE Spec => []ScreenShowsFocus` | `ScreenInv`, below |
| `ModifiersAgree` (`Keyboard_proofs`) | `Spec => []ModifiersFollowKeys` | `StreamInv`, below |
| `TypedReachesTerminal` (`Keyboard_proofs`) | `ASSUME FocusClear PROVE Spec => TypedInOrder` | `StreamInv`, below |
| `InterruptsTypes` (`Interrupts_proofs`) | `Spec => []TypeOK` | inductive together with the next |
| `InterruptsReturn` (`Interrupts_proofs`) | `Spec => [](ReturnsInOrder /\ ContextKept /\ ReadyIsRunning)` | `KernelInv`, below |
| `HandlersRunOnce` (`Interrupts_proofs`) | `Spec => []HandlersNotReentered` | `MaskInv`, below |
| `NoLineStaysMasked` (`Interrupts_proofs`) | `Spec => []LinesReopened` | `MaskInv`, below |
| `MemoryIsMapped` (`Boot_proofs`) | `Spec => []RamIsMapped` | `MapInv`, below |
| `FilesAreFound` (`Boot_proofs`) | `ASSUME DisksFormatted PROVE Spec => []FirstBlockSearched` | `SearchInv`, below |
| `FilesAreLoaded` (`Boot_proofs`) | `ASSUME DisksFormatted PROVE Spec => []LoadedIsFile` | `FileInv`, below |
| `SegmentsAreInPlace` (`Boot_proofs`) | `ASSUME DisksFormatted, KernelsLinked PROVE Spec => [](BlocksOf(found) < Segment => SegmentsInPlace)` | `SegmentInv`, below |
| `CommandHoldsLine` (`Terminal_proofs`) | `Spec => []CommandIsLine` | `CommandInv`, below |
| `EntryIsFound` (`Terminal_proofs`) | `Spec => []SearchFindsEntry` | `DirectoryInv`, below |
| `CursorStaysNear` (`Terminal_proofs`) | `Spec => []CursorNearConsole` | `CursorInv`, below |
| `CharactersStayApart` (`Terminal_proofs`) | `Spec => CharsOnOwnConsole` | every cell a step writes is at the cursor or at `p_vmem`, which `CursorInv` keeps in the console |
| `ScreenShowsText` (`Terminal_proofs`) | `Spec => []ScreenIsText` | `ScreenInv` of `Terminal_proofs`, below |

`ListsInv` says that there are three sequences of tasks, one per level, that the
pointers stand for (`Stands`): the head is the first, each `next_pcb` the next,
the last one leads to the idle process, which leads to itself; and that every
task has exactly one place in them, on the level its `queen_number` names (all
but process 0, whose number is never written).  The pointer writes of `next_quene`
take an element out of one sequence and append it to the next (`Demote`), for
each of the special cases first, last and only.  That the tasks reached along
`next_pcb` are those of a sequence needs no induction over the recursive walk:
`Visited` of `Lists` is the least closed set (`Lists_proofs`).

`WakeInv` adds to the property what makes it inductive: the caller of a call in
progress is not blocked, and a sender's message is its own (`CallInv`); between
its two tests only the disk interrupt can have woken the receiver, so the
receiver of a sender that queues is waiting for somebody else or is the disk
task (`MatchInv`); what a blocked receiver waits for is one of its calls
(`WaitInv`); and nobody is blocked sending to a process that asks for it by name
(`SendInv`).  The last is where `OneNamedSource` is needed: how the tasks use
`receive_msg`, each waiting for at most one source by name.  Without it
`receive_missing` blocks without a buffer.

`RendezvousInv` adds the queues and the meeting of sender and receiver.  Each
queue is a chain whose members are the processes blocked sending to its owner
(`SendersQueued`), which ends (`ChainsEnd`), whose head has no predecessor and
whose members have one each, so that taking the head or appending at the end
changes no other queue (`QueueInv`).  Between its tests the receiver of a sender
is not sending (`TestedInv`), one that has been accepted and still waits is
waiting for this sender (`AcceptedInv`), and who waits for anyone has an empty
queue (`AnyoneInv`).  `OneNamedSource` also keeps the disk task from naming a
process: `ipc_lost_sender.cfg` shows what its walk along the queue does.

`RunInv` carries this to the tasks.  First, what is proved of `IPC` reduces each
step of a call to one of four things (`IPCSteps`): nothing the tasks can see, a
message dropped, a message passed on, or the disk task told of its interrupt;
`doing` is what a task is doing, whether its call is in progress or blocked.
Then `StepInv` keeps the three tasks in step.  `Places`: what each is doing at
each of its places.  `Handshake`: while `task_hd` has a request, `task_fs` waits
for it, and while `task_fs` has one, `task_tty` waits for it; so nobody else
sends to a task at work.  `Signals`: a sector that the disk has ready is known in
exactly one place, in the request of the disk, in `has_int_msg` or to `task_hd`.
`Sectors`: the sectors the disk has left, and those not asked for yet, are those
`hd_read` will still wait for.  `TTYMessages` and `DiskMessages`: what the
messages hold on their way.

`TransferInv` says what has been read.  `RequestInv`: from the moment `task_fs`
makes a request until it is answered its `MESSAGE` does not change and is the one
`task_hd` works on.  `ProgressInv`: the `la` bytes that `hd_read` has stored are
the sectors the disk has been read since the command, and the start of the buffer
has those sectors in their order (`Filled`); a sector adds the next
(`SectorFills`).  A further command for the same request comes only after a whole
batch (`earlier`); it reads from the first sector to the start of the buffer again,
and each of its sectors replaces the same bytes.  `WalkInv`: at the head of the loop of `fs_read_file`, `i` blocks
are in the buffer of the terminal, and the indirect block, once it was read, is
still in its own; an answered request for block `i` makes it `i + 1`
(`PartAdds`).  `MemoryInv`, that nothing is stored outside a buffer, is part of
the induction.  The proofs need lemmas on quotients and remainders (which sector,
which block a byte is in); those of one sector and of one block do not know of
the tasks.

Assumed of the sizes is that they are positive and that one command can read the
two sectors of a block, which holds for the 127 sectors of a batch.  Then a file
is read right whatever its size, as `fs_read_file` asks for blocks.  The inode table
is one request of any size, and no theorem assumes that it fits one command.
`AnsweredUpToBatch` says of a request that does fit that all of it is read, and of
a longer one that what the first command reads is there when it is answered;
`hd_batch.cfg` shows that the rest is not.

`KernelInv` adds that the frame of `tss.esp0` belongs to the process that runs
(`Owner`) and that a call in progress has, in `esi`, the frame `save` found
(`CallsKnowTheirFrame`).  So the answer of a call goes to its caller even when
the scheduler chose another process meanwhile.

`MaskInv` relates the masks to the stack.  While the keyboard is served its line
is closed, and while the disk is served the cascade is (`ServedIsClosed`), so
neither is entered again: the bits that the services set and clear, computed on
`irq << 1`, include line 1 only for the keyboard, line 2 only for the disk, and
neither for the clock (`LinesOfHandlers`).  And every line that is closed, and
was ever asked for, is among the bits of a service in progress, which opens it
when it leaves (`MaskIsUndone`); with an empty stack there is none.  The clock's
bits are those of no line, so its own handler is not covered (section 5).

`ScreenInv` of `Keyboard_proofs` adds that `task_tty` reads the keyboard for the terminal with the
focus, and that only a read that leaves the focus where it is puts a character
for the write that follows: so a late echo does not bring another console back.
`ConsoleForEveryKey` is `NR_CONSOLE` of `const.h`, one for each of the three
function keys.

`StreamInv` looks ahead.  `After` is `keyboard_read` as a machine that reads a
byte at a time, each of its steps one of `After` (`ReadIsAfter`).  The bytes in
`kb_buffer` and on the wire are what it has still to read (`Reads`, along a
sequence of readers, so that no recursion is needed): read to their end, they
leave it between two keys, with the modifiers of the keys that are down, and give
the characters that are due.  A byte that is read goes from the front of them, a
key that is pressed adds its bytes at the end, and an interrupt moves one from
the wire to the buffer; so how they interleave does not matter.  What the bytes
of each key do is a case for each kind of key (`PressReads`, `ReleaseReads`).
`FocusClear`: there is one Alt key, or no function key that looks at it.  With
two, `alt_l` is cleared when one is released and the other still held, and the
next function key does not switch.

`MapInv` says for every place of the loader how many ranges `DispMemInfo` has
dealt with, and that none of these, if usable, ends behind `RAM_Size`
(`Counted`); a lemma on `tables` does the rest.  `BootAssumption`, that ranges
have a start, a length and a type, is all it needs of the machine.

The files are found and loaded on every disk that is `Formatted`: what
mkfs.ext2 and the copying of the files leave.  The blocks of the root directory
are directories; an entry for `loader.bin` or `kernel.bin` names an inode whose
words, and whose index block if it has one, name the blocks of that file, and
whose `i_blocks` counts the index block too.  The sizes and times in words 1 to
11 of the root inode, which `next_block` takes for block numbers, are not the
numbers of other directories.  `SearchInv` says with which word of the inode the
search goes on, and that past the first block the file was not in the first.
`FileInv` says how much of the file is in memory and how many sectors are left
at the three places of `LoadFile`: among the direct blocks (`DirectInv`), before the
index block (`IndexInv`) and among the blocks it names (`IndirectInv`).  There the
count still has the index block in it, so `12 + bx` goes one beyond the blocks of
the file: the block that is read too many falls behind them in the segment, as
long as they are at most 63.

`SegmentInv` adds that the segments already copied are in place (`Placed`), and
that the others are whole in the file (`Intact`).  `Linked` is what it needs of the
kernel: segments inside the file and inside memory, copied downwards if they
overlap their own place in the file, and never onto a segment, or a part of the
file, that is copied later.  The theorem is about kernels of up to 63 blocks, as
the file is.  `MCBoot` has TLC evaluate both assumptions on the disks of the
runs (`MCImagesAssumption`), so they can be met.

In `Terminal` the edited line, the layout of a screen and a whole `write` are folds
over text.  What a fold computes for every text is an induction over data, and the
library's induction theorems cannot be used here; but the fold over a text is the
last value of a function of the lengths of its prefixes, each value a step of the
fold from the one before.  That there is such a function (`IterationExists`), that
something every step keeps holds of all its values (`Induction`), and that two
texts with the same prefix have the same values along it (`SameRuns`) are proved
from the least number for which they would fail.  So `Edited`, `LayoutOf`, `PutAll`
and `PrintedAll` have the lemmas a proof needs: what they do with the empty text,
with one more character, and what they keep (`...Along`, `...Append`, `...Empty`).

`OrderInv`: `task_tty` initialises the terminals one after the other, and
characters are typed only afterwards.  So `TTY::init` finds a blank console
and an empty line.

`CommandInv` adds to `CommandIsLine` that `curr` is the length of the edited line.
A Backspace where there is nothing to delete takes `curr` below the start, and
from then on nothing is claimed until Enter clears `command` and `curr`.

`DirectoryInv` says of each of the two blocks of `dictionary_buffer` whose it is
(`Buffered`): the last directory's, or, behind its end, that of a longer one, or
nobody's.  When no directory was longer the entries that are searched are those
of the last directory (`EntriesOf`), and the first one that compares equal is the
first of that name and type (`SearchIsFirst`); that names are compared right when
they do not fill their entry is `NameCompared`.

`CursorInv` bounds the cursor and `p_vmem` at each place in `print`.  A `write` that
comes in between moves only the cursor, only forward, and not beyond the console
(`WriteKeeps`), so the address computed before it stays in the console; only the
`move` after it can take the cursor a cell further than the end.

`ScreenInv` of `Terminal_proofs` is about the middle of `print`.  What a terminal was
given is laid out as what is on the screen now (`Drawn`, with the cell written and
the cursor not yet moved, or the cursor moved and the cell not yet erased) followed
by what `out` still has to print of it, the rest of a prompt perhaps (`ToPrint`):
that is `ShownBy`.  Each statement of `print` takes something from the one and adds
it to the other (`DrawPrint` to `DrawShow`).  The other consoles show what they were
given (`Matches`), and those not initialised are blank.  A `write` that does not come
into the middle lays out its text in one step (`WriteOnConsole`).  That the row and
the column of the layout are the cell that the code computes needs lemmas on
quotients by `SCREEN_WIDTH` (`NextLine`, `RowOf`).

Assumed are `SizesAssumption` (a console has more cells than a row),
`TextAssumption`, and `DirectoryAssumption` (a directory has one or two blocks, and
entries in the first).  Every invariant that a passing run checks is thus proved,
and every action property but the refinement of the next paragraph.

Only model-checked: the liveness properties (fairness is out of TLAPS's reach
here), and `StepsImplementSchedule`, whose stack of activations grows.  The type
invariants of `Terminal`, `Boot` and `Keyboard` are checked along with the replays
`term_focus.cfg`, `boot_segment.cfg`, `kb_alt_r.cfg` and `kb_scroll.cfg`
(`tlc -continue` goes on after the violation), that of `Tasks`, which is proved
too, by `types_tasks.cfg`.  The proofs about `Terminal` have types of their own
(`Types`), in which the cursor and `p_vmem` are integers and not bounded by
`Cells`: while a terminal is not initialised its limit lets a `write` go on for
as long as its text is.

## 5. Where the code does not do what its comments say

The first three are counterexamples of runs, listed under `findings`.

* `sched_blocked` — the last branch of `schedule` follows `next_pcb` without
  looking at flags: a blocked process is resumed.
* `sched_nested` — a tick between `ticks--` and the renewal of the slice, in the
  `schedule` of a call that blocks, charges the same process again: its count
  passes zero, and it keeps the CPU for 2^32 ticks.
* `ipc_lost_irq` — the disk interrupt between the test of `has_int_msg` and
  the block is not seen.

Further configurations are kept to be replayed in the same way.  They are
expected to be violated:

* `boot_root_blocks.cfg` (`TwelveBlocksSearched`) — after the first block of the
  root directory the loader goes on at the wrong word of the inode, and does not
  find a file that is in the second (`loader.asm:130` says that the first 12
  blocks are searched).
* `boot_segment.cfg` (`LoadedFillsSegment`) — a kernel of 64 blocks has its first
  overwritten by the block that is read too many.
* `sched_null.cfg` (`AlwaysAProcess`) — `find_first` with `process_tail` as its end
  always returns null; when everything on queues 1 and 2 is blocked and the
  process that was running is on queue 2, that null becomes `p_proc_ready`.
* `steps_lost.cfg` (`NobodyLost`) — a tick in the middle of `next_quene` takes a
  task off every queue.
* `ipc_drop.cfg` (`DeliveredOrBlocked`) — `send_msg` does nothing, and returns 0,
  when its target is not receiving.
* `hd_batch.cfg` (`AnsweredInFull`, of `MCTasks`) — the second command of `hd_read`
  for one request starts at the first sector and the first byte again; what is
  beyond 127 sectors is not read.
* `term_backspace.cfg` (`CommandIsWhatIsLeft`) — a Backspace at the start of a line
  moves `curr` before `command` (`tty.cc:43`).
* `term_focus.cfg` (`FocusShown`) — a `write` shows terminal 0 whichever has the
  focus (`tty.cc:228` says that the console with the focus is the one for output).
* `term_stale.cfg` (`SearchIsCurrent`) — the second block of a longer directory
  stays in `dictionary_buffer` and is searched with a shorter one.
* `term_unpadded.cfg` (`SearchIsComplete`) — a name that fills its entry is not
  terminated, and is not found.
* `tasks_lost.cfg` (`EveryRequestAnswered`, of `MCTasks`) — a request typed while
  `task_fs` is not receiving is dropped, and `task_tty` waits for the answer
  that `fs.cc:34` sends to "the process that sent the message".
* `ipc_spin.cfg` (`DeadlockTestEnds`) — `is_deadlock` does not advance when its
  target is sending to a third process (`process.cc:275`).
* `ipc_lost_sender.cfg` (`NoMissedRendezvous`) — taking a sender by name from
  behind another cuts off those behind it.
* `ipc_two_queues.cfg` (`OneReceiveQueue`) — the sender so taken stays linked
  and joins a second queue; `protect.h:160` says a process is in one only.
* `ipc_stale_msg.cfg` (`InterruptReported`) — a pending interrupt is written
  through the pointer of an earlier call (`process.cc:326`).
* `kb_alt_r.cfg` (`AltFollowsKeys`) — the right Alt key assigns `alt_l`
  (`keyboard.cc:260`).
* `kb_scroll.cfg` (`ViewInRegion`) — `scroll_screen` compares bytes with cells
  (`console.cc:35`).
* `int_clock_open.cfg` (`CurrentClosed`) — the bits of `0 << 1` mask nothing:
  the clock can interrupt its own handler (`kernel.asm:119`).
* `int_opens_others.cfg` (`OnlyEnabledOpen`) — leaving the disk interrupt opens
  lines 3 and 4 (`kernel.asm:155`).


## 6. Not modelled

* Disk driver: `hd_write`, `hd_open`, `hd_close`, which no task asks for.
* File system: the layout of super block, group descriptors and inode table
  (`InodeAt` is a constant), and what is behind `dictionary_buffer` when a file
  is larger.
* System task: only its calls, in `MCIPC`; nobody asks it for ticks.
* Terminals: what a line that outgrows `command`, or a prefix that `cd` makes
  longer each time, overwrites; scrolling while something is printed.
* Boot: inodes outside group 0, more memory ranges than the loader has room for,
  files with holes, what is displayed, the switch to protected mode.
* Descriptor tables, port access, memory copies, number formatting: no
  decisions whose order matters.
* Exception entries: they print and halt.
* Memory protection and paging: set up once, not changed afterwards; how much is
  mapped is in `Boot`.

## 7. Plan

Done, in this order, so that what the system depends on most came first:
`Scheduler`, `MLFQ` and their refinement; `IPC`; `Ring`, `Fifo` and `Keyboard`;
`Interrupts`; `Tasks`; `ScheduleSteps`; `Terminal`; `Boot`; the proofs of section 4.

What remains:

1. An abstract file service that `Tasks` implements when nothing is lost.
2. `FileSystem`: groups and inode table as functions, against a reference
   definition over small tables.
3. `Terminal` and `Keyboard` together: scrolling while something is printed.
