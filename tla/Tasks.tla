------------------------------- MODULE Tasks --------------------------------
(***************************************************************************)
(* A command of the terminal and what it sets off: task_tty (tty_command,  *)
(* tty.cc) asks task_fs for a file (fs.cc), task_fs asks task_hd for its   *)
(* sectors (harddrive.cc), task_hd waits for the disk interrupt.  The      *)
(* tasks run over IPC: their calls take its steps, a message it copies     *)
(* takes its content along, and the interrupt of the disk is its           *)
(* hd_handler.                                                             *)
(*                                                                         *)
(* A task goes on between two calls when no call is in progress and it is  *)
(* not blocked.  Memory and sectors are bytes named after their place on   *)
(* the disk, so that a byte in the wrong place shows.  Of the requests     *)
(* that init_fs makes one after the other, the largest, for the inode      *)
(* table, stands for all.                                                  *)
(***************************************************************************)
EXTENDS IPC, Sequences

CONSTANTS
    TTY, FS,             \* PID_TTY, PID_FS
    SECTOR_SIZE,         \* bytes
    ENTRY_SIZE,          \* bytes of a block number: sizeof(u32)
    MaxBatch,            \* sectors of one command of the disk: 127
    NDirect,             \* direct blocks of an inode: 12
    InodeAt,             \* inode_index -> the inode that stands there
    Indirect,            \* indirect block -> the block numbers it holds
    TableSector,         \* where the inode table starts
    TableBytes,          \* its size
    SIZE_OF_TTY_DIR      \* bytes of dictionary_buffer

BLOCK_SIZE == 2 * SECTOR_SIZE

\* the calls of send_msg and receive_msg in the code of the three tasks
TaskCalls ==
    {<<TTY, "send", FS>>, <<TTY, "receive", FS>>,
     <<FS, "receive", ANY>>, <<FS, "send", TTY>>, <<FS, "send", HD>>, <<FS, "receive", HD>>,
     <<HD, "receive", ANY>>, <<HD, "receive", INTERRUPT>>, <<HD, "send", FS>>}

ASSUME TasksAssumption ==
    /\ {TTY, FS} \subseteq Proc /\ TTY # FS /\ HD \notin {TTY, FS}
    /\ Calls \subseteq TaskCalls
    /\ {SECTOR_SIZE, ENTRY_SIZE, MaxBatch, TableBytes} \subseteq Nat \ {0}
    /\ MaxBatch >= 2          \* the sectors of a block
    /\ {NDirect, TableSector, SIZE_OF_TTY_DIR} \subseteq Nat
    /\ 2 \in DOMAIN InodeAt    \* the root
    /\ \A i \in DOMAIN InodeAt :
          /\ InodeAt[i].i_size \in 0..SIZE_OF_TTY_DIR
          /\ \A k \in 1..(NDirect + 1) : InodeAt[i].i_block[k] \in Nat
          \* a file that has more blocks has an indirect block of numbers
          /\ InodeAt[i].i_size > NDirect * BLOCK_SIZE =>
                \A k \in 0..(BLOCK_SIZE \div ENTRY_SIZE - 1) :
                    Indirect[InodeAt[i].i_block[NDirect + 1]][k] \in Nat

VARIABLES
    pc,        \* task -> where it is
    content,   \* task -> the rest of its MESSAGE
    tty,       \* the request of task_tty that is under way
    fs,        \* task_fs: request, its sender, and the walk through a file
    hd,        \* task_hd: request, its sender, and what is left to read
    memory,    \* the buffers that are read into
    disk,      \* the command the disk carries out
    irq,       \* does the disk request an interrupt?
    dropped    \* has send_msg dropped a message?

tasks     == <<pc, content, tty, fs, hd, memory, disk, irq, dropped>>
tasksVars == <<vars, tasks>>

Memory == [table |-> TableBytes, index |-> BLOCK_SIZE, tty |-> SIZE_OF_TTY_DIR]

\* request to task_hd; area and offset are its buffer
DiskRequest(area, offset, sector, bytes) ==
    [area |-> area, offset |-> offset, sector_head |-> sector, bytes_count |-> bytes]

\* memory that has not been written, and a message before the first
nothing    == <<>>
no_message == [function |-> "none"]

TasksInit ==
    /\ Init
    /\ pc = [p \in {TTY, FS, HD} |-> CASE p = TTY -> "idle"
                                       [] p = FS  -> "op"
                                       [] p = HD  -> "receive"]
    \* init_fs: fs_op_disk for the inode table
    /\ content = [p \in Proc |->
           IF p = FS THEN DiskRequest("table", 0, TableSector, TableBytes)
                     ELSE no_message]
    /\ tty = no_message
    /\ fs = [stage |-> "init"]
    /\ hd = [stage |-> "init"]
    /\ memory = [m \in DOMAIN Memory |-> [b \in 0..(Memory[m] - 1) |-> nothing]]
    /\ disk = [sector |-> 0, left |-> 0, drq |-> FALSE]
    /\ irq = FALSE
    /\ dropped = FALSE

-----------------------------------------------------------------------------
\* between two calls of task p
Ready(p) == call = NoCall /\ flags[p] = RUNNING

jump(p, place) == pc' = [pc EXCEPT ![p] = place]

smaller(m, n) == IF m < n THEN m ELSE n

-----------------------------------------------------------------------------
(* task_tty: root and cd send a request to task_fs and wait for the        *)
(* answer; cd leaves the function of its message as it finds it on the     *)
(* stack.                                                                  *)

tty_send == \E f \in {"root", "read", "other"}, i \in DOMAIN InodeAt :
    /\ pc[TTY] = "idle"
    /\ send_enter(TTY, FS)
    /\ tty' = [function |-> f, inode_index |-> i]
    /\ content' = [content EXCEPT ![TTY] = tty']
    /\ jump(TTY, "sent")
    /\ UNCHANGED <<fs, hd, memory, disk, irq, dropped>>

tty_receive ==
    /\ pc[TTY] = "sent"
    /\ receive_enter(TTY, FS)
    /\ jump(TTY, "answer")
    /\ UNCHANGED <<content, tty, fs, hd, memory, disk, irq, dropped>>

tty_answer ==
    /\ Ready(TTY)
    /\ pc[TTY] = "answer"
    /\ jump(TTY, "idle")
    /\ UNCHANGED <<vars, content, tty, fs, hd, memory, disk, irq, dropped>>

-----------------------------------------------------------------------------
(* task_fs                                                                 *)

fs_receive ==
    /\ pc[FS] = "receive"
    /\ receive_enter(FS, ANY)
    /\ jump(FS, "request")
    /\ UNCHANGED <<content, tty, fs, hd, memory, disk, irq, dropped>>

\* the switch of task_fs, and the start of fs_read_file: an inode_index is
\* added to the address of the table as it is, in bytes
fs_request ==
    LET msg   == content[FS]
        root  == msg.function = "root"
        index == IF root THEN 2 ELSE msg.inode_index
    IN  /\ Ready(FS)
        /\ pc[FS] = "request"
        /\ fs' = [stage |-> "file", src |-> source[FS],
                  msg |-> [msg EXCEPT !.inode_index = index],
                  inode |-> InodeAt[index], i |-> 0, indexed |-> FALSE,
                  bytes |-> InodeAt[index].i_size]
        /\ jump(FS, IF msg.function \in {"root", "read"} THEN "walk" ELSE "reply")
        /\ UNCHANGED <<vars, content, tty, hd, memory, disk, irq, dropped>>

\* the block number in place k of inode_index, as it was read from the disk:
\* sector s holds places of block s \div 2
entry(k) ==
    LET cell  == memory["index"][k * ENTRY_SIZE]
        byte  == (cell[1] % 2) * SECTOR_SIZE + cell[2]
    IN  Indirect[cell[1] \div 2][byte \div ENTRY_SIZE]

\* the indirect block taken for one more direct block
block_one_more(i) ==
    IF i <= NDirect THEN fs.inode.i_block[i + 1] ELSE entry(i - NDirect)

\* the block that has part i of the file
block(i) == IF i < NDirect THEN fs.inode.i_block[i + 1] ELSE entry(i - NDirect)

\* fs_op_disk is called with these, and sends
op_disk(area, offset, b, bytes) ==
    /\ content' = [content EXCEPT ![FS] = DiskRequest(area, offset, 2 * b, bytes)]
    /\ jump(FS, "op")

\* one turn of the loops of fs_read_file, or their end
fs_walk ==
    LET bytes_read == smaller(fs.bytes, BLOCK_SIZE)
        more       == fs.bytes > 0 /\ fs.i < NDirect + BLOCK_SIZE \div ENTRY_SIZE
        must_index == more /\ fs.i >= NDirect /\ ~fs.indexed
    IN  /\ Ready(FS)
        /\ pc[FS] = "walk"
        /\ \/ /\ must_index
              /\ op_disk("index", 0, fs.inode.i_block[NDirect + 1], BLOCK_SIZE)
              /\ fs' = [fs EXCEPT !.indexed = TRUE]
           \/ /\ more /\ ~must_index
              /\ op_disk("tty", fs.inode.i_size - fs.bytes, block(fs.i), bytes_read)
              /\ fs' = [fs EXCEPT !.i = @ + 1, !.bytes = @ - bytes_read]
           \/ /\ ~more
              /\ jump(FS, "reply")
              /\ UNCHANGED <<content, fs>>
        /\ UNCHANGED <<vars, tty, hd, memory, disk, irq, dropped>>

fs_op_send ==
    /\ pc[FS] = "op"
    /\ send_enter(FS, HD)
    /\ jump(FS, "op_sent")
    /\ UNCHANGED <<content, tty, fs, hd, memory, disk, irq, dropped>>

fs_op_receive ==
    /\ pc[FS] = "op_sent"
    /\ receive_enter(FS, HD)
    /\ jump(FS, IF fs.stage = "init" THEN "receive" ELSE "walk")
    /\ UNCHANGED <<content, tty, fs, hd, memory, disk, irq, dropped>>

\* the answer is the MESSAGE of the last disk operation
fs_reply_op ==
    /\ pc[FS] = "reply"
    /\ send_enter(FS, fs.src)
    /\ jump(FS, "receive")
    /\ UNCHANGED <<content, tty, fs, hd, memory, disk, irq, dropped>>

fs_reply ==
    /\ pc[FS] = "reply"
    /\ send_enter(FS, fs.src)
    /\ content' = [content EXCEPT ![FS] = fs.msg]
    /\ jump(FS, "receive")
    /\ UNCHANGED <<tty, fs, hd, memory, disk, irq, dropped>>

-----------------------------------------------------------------------------
(* task_hd; every request that reaches it is to read                       *)

hd_receive ==
    /\ pc[HD] = "receive"
    /\ receive_enter(HD, ANY)
    /\ jump(HD, "request")
    /\ UNCHANGED <<content, tty, fs, hd, memory, disk, irq, dropped>>

\* one sector more when the last one is full
sectors_over(bytes) == bytes \div SECTOR_SIZE + 1

sectors(bytes) == (bytes - 1) \div SECTOR_SIZE + 1

\* sectors of the next command
batch(sum) == smaller(sum, MaxBatch)

\* the start of hd_read
hd_request ==
    /\ Ready(HD)
    /\ pc[HD] = "request"
    /\ hd' = [stage |-> "read", src |-> source[HD], msg |-> content[HD],
              sum |-> sectors(content[HD].bytes_count),
              bytes |-> content[HD].bytes_count, la |-> 0, epoch |-> 0]
    /\ jump(HD, "command")
    /\ UNCHANGED <<vars, content, tty, fs, memory, disk, irq, dropped>>

\* hd_cmd_out with at most MaxBatch of the sectors that are left; every
\* command starts at the first sector and the start of the buffer.  The wait
\* for BSY tests another bit of the status and does not wait.
hd_command ==
    LET count == batch(hd.sum) IN
    /\ Ready(HD)
    /\ pc[HD] = "command"
    /\ IF hd.sum > 0
       THEN /\ disk' = [sector |-> hd.msg.sector_head, left |-> count, drq |-> FALSE]
            /\ hd' = [hd EXCEPT !.sum = @ - count, !.la = 0, !.epoch = 0]
            /\ jump(HD, "loop")
       ELSE /\ jump(HD, "reply")
            /\ UNCHANGED <<disk, hd>>
    /\ UNCHANGED <<vars, content, tty, fs, memory, irq, dropped>>

\* one more sector is waited for than was asked for
wanted_one_more(bytes) == bytes >= 0

\* is another sector of this command to be waited for?
wanted(bytes) == bytes > 0

hd_wait ==
    /\ pc[HD] = "loop"
    /\ wanted(hd.bytes) /\ hd.epoch < MaxBatch
    /\ receive_enter(HD, INTERRUPT)
    /\ hd' = [hd EXCEPT !.epoch = @ + 1]
    /\ jump(HD, "data")
    /\ UNCHANGED <<content, tty, fs, memory, disk, irq, dropped>>

hd_next_command ==
    /\ Ready(HD)
    /\ pc[HD] = "loop"
    /\ ~(wanted(hd.bytes) /\ hd.epoch < MaxBatch)
    /\ jump(HD, "command")
    /\ UNCHANGED <<vars, content, tty, fs, hd, memory, disk, irq, dropped>>

\* bytes wanted of the next sector, if what is left is never a whole sector
wanted_bytes_rest(bytes) == bytes % SECTOR_SIZE

\* bytes wanted of the next sector
wanted_bytes(bytes) == smaller(bytes, SECTOR_SIZE)

\* port_in of a sector, and memcpy of what is wanted of it
hd_data ==
    LET start      == hd.msg.offset + hd.la
        read_bytes == wanted_bytes(hd.bytes)
    IN  /\ Ready(HD)
        /\ pc[HD] = "data"
        /\ memory' = [memory EXCEPT ![hd.msg.area] = [b \in DOMAIN @ |->
               IF b \in start..(start + read_bytes - 1)
               THEN IF disk.drq THEN <<disk.sector, b - start>> ELSE nothing
               ELSE @[b]]]
        /\ disk' = IF disk.drq THEN [sector |-> disk.sector + 1,
                                     left |-> disk.left - 1, drq |-> FALSE]
                               ELSE disk
        /\ hd' = [hd EXCEPT !.bytes = @ - SECTOR_SIZE, !.la = @ + SECTOR_SIZE]
        /\ jump(HD, "loop")
        /\ UNCHANGED <<vars, content, tty, fs, irq, dropped>>

hd_reply ==
    /\ pc[HD] = "reply"
    /\ send_enter(HD, hd.src)
    /\ content' = [content EXCEPT ![HD] = hd.msg]
    /\ jump(HD, "receive")
    /\ UNCHANGED <<tty, fs, hd, memory, disk, irq, dropped>>

-----------------------------------------------------------------------------
\* the disk has a sector ready and says so
disk_ready ==
    /\ disk.left > 0 /\ ~disk.drq
    /\ disk' = [disk EXCEPT !.drq = TRUE]
    /\ irq' = TRUE
    /\ UNCHANGED <<vars, pc, content, tty, fs, hd, memory, dropped>>

\* hd_handler reads the status, which takes the request of the disk back
hd_interrupt ==
    /\ irq
    /\ hd_handler
    /\ irq' = FALSE
    /\ UNCHANGED <<pc, content, tty, fs, hd, memory, disk, dropped>>

\* this step of a call copies the MESSAGE of p to d
Copies(p, d) ==
    \/ at("send", "copy") /\ call.by = p /\ call.peer = d /\ message[d]
    \/ /\ at("receive", "take") /\ call.by = d /\ message[p]
       /\ flags[p] = SENDING /\ flags'[p] = RUNNING

\* the rest of send_msg or receive_msg
in_call ==
    /\ \/ send_test \/ send_accepted \/ send_copy \/ send_queue
       \/ receive_interrupt \/ receive_no_interrupt
       \/ receive_any \/ receive_named \/ receive_missing \/ receive_block
    /\ content' = [d \in Proc |->
           IF \E p \in Proc : Copies(p, d)
           THEN content[CHOOSE p \in Proc : Copies(p, d)] ELSE content[d]]
    /\ dropped' = (dropped \/ (at("send", "test") /\ call' = NoCall))
    /\ UNCHANGED <<pc, tty, fs, hd, memory, disk, irq>>

task_tty == tty_receive \/ tty_answer
task_fs  == fs_receive \/ fs_request \/ fs_walk \/ fs_op_send \/ fs_op_receive \/ fs_reply
task_hd  == \/ hd_receive \/ hd_request \/ hd_command \/ hd_wait
            \/ hd_next_command \/ hd_data \/ hd_reply

TasksNext == \/ tty_send \/ task_tty \/ task_fs \/ task_hd
             \/ in_call \/ disk_ready \/ hd_interrupt

TasksSpec == TasksInit /\ [][TasksNext]_tasksVars

\* a call goes on; the tasks that are not blocked are scheduled; the disk
\* carries out its command and interrupts (nobody has to type commands)
FairTasks ==
    /\ TasksSpec
    /\ WF_tasksVars(in_call) /\ WF_tasksVars(task_tty) /\ WF_tasksVars(task_fs)
    /\ WF_tasksVars(task_hd) /\ WF_tasksVars(disk_ready) /\ WF_tasksVars(hd_interrupt)

-----------------------------------------------------------------------------
Cell == {nothing} \cup (Nat \X (0..(SECTOR_SIZE - 1)))

\* every task is at one of its places, the sectors left to read are not
\* negative (an unsigned number in hd_read), memory has bytes of the disk
TasksTypeOK ==
    /\ TypeOK
    /\ pc[TTY] \in {"idle", "sent", "answer"}
    /\ pc[FS] \in {"receive", "request", "walk", "op", "op_sent", "reply"}
    /\ pc[HD] \in {"receive", "request", "command", "loop", "data", "reply"}
    /\ \A m \in DOMAIN Memory : memory[m] \in [0..(Memory[m] - 1) -> Cell]
    /\ hd.stage = "read" => hd.sum \in Nat
    /\ disk \in [sector : Nat, left : 0..MaxBatch, drq : BOOLEAN]
    /\ irq \in BOOLEAN /\ dropped \in BOOLEAN

\* byte b of what starts at a sector
byte_at(sector, b) == <<sector + b \div SECTOR_SIZE, b % SECTOR_SIZE>>

\* the buffer of request m has its first n bytes, from the sectors asked for
Filled(m, n) == \A b \in 0..(n - 1) :
    memory[m.area][m.offset + b] = byte_at(m.sector_head, b)

\* the bytes of a request that one command reads: all, or MaxBatch sectors
FirstBytes(m) == smaller(m.bytes_count, MaxBatch * SECTOR_SIZE)

(***************************************************************************)
(* When task_hd answers, the bytes that were asked for are in the buffer,  *)
(* all of them when one command can read them; of a longer request, like   *)
(* that for the inode table, those of its first command, which the later   *)
(* ones do not spoil.  This holds whenever the interrupts came and however *)
(* the requests of the tasks interleave.                                   *)
(***************************************************************************)
AnsweredUpToBatch == pc[HD] = "reply" => Filled(hd.msg, FirstBytes(hd.msg))

\* the same of all bytes of every request
AnsweredInFull == pc[HD] = "reply" => Filled(hd.msg, hd.msg.bytes_count)

(***************************************************************************)
(* When task_fs answers a request for a file, the buffer of the terminal   *)
(* has the file, block after block, through the indirect block where there *)
(* are more than NDirect; what is beyond that block's numbers is left out. *)
(***************************************************************************)
FileBlock(i) == IF i < NDirect THEN fs.inode.i_block[i + 1]
                ELSE Indirect[fs.inode.i_block[NDirect + 1]][i - NDirect]

AnswerIsTheFile ==
    pc[FS] = "reply" /\ fs.msg.function \in {"root", "read"} =>
        \A b \in 0..(fs.inode.i_size - 1) :
            b \div BLOCK_SIZE < NDirect + BLOCK_SIZE \div ENTRY_SIZE =>
                memory["tty"][b] =
                    byte_at(2 * FileBlock(b \div BLOCK_SIZE), b % BLOCK_SIZE)

(***************************************************************************)
(* task_tty goes on only with the answer of task_fs to the request it has  *)
(* made (with the root's inode filled in): not with an older one, and not  *)
(* with a message that task_fs exchanged with the disk.                    *)
(***************************************************************************)
AnswerOfMyRequest ==
    pc[TTY] = "answer" /\ Ready(TTY) =>
        /\ source[TTY] = FS
        /\ content[TTY] = [tty EXCEPT !.inode_index =
                               IF tty.function = "root" THEN 2 ELSE @]

(***************************************************************************)
(* task_hd reads the data port only when the disk has a sector ready: no   *)
(* interrupt is counted twice and none is left over from an earlier        *)
(* sector.                                                                 *)
(***************************************************************************)
DataIsReady == pc[HD] = "data" /\ Ready(HD) => disk.drq

(***************************************************************************)
(* A command is written only when the disk has nothing left to do, though  *)
(* the loop of hd_cmd_out that should see to it does not wait.             *)
(***************************************************************************)
DiskIsIdle == pc[HD] \in {"receive", "request", "command"} => disk.left = 0

(***************************************************************************)
(* As long as send_msg drops no message and the disk task does not sleep   *)
(* on an interrupt it has, every request of the terminal is answered.      *)
(***************************************************************************)
AnsweredUnlessLost ==
    []~dropped /\ []NoSleepOnInterrupt => (pc[TTY] = "sent" ~> pc[TTY] = "idle")

(***************************************************************************)
(* fs.cc:34 "send the answer to the process that sent the message": every  *)
(* request of the terminal is answered.                                    *)
(***************************************************************************)
EveryRequestAnswered == pc[TTY] = "sent" ~> pc[TTY] = "idle"
=============================================================================
