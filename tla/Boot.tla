--------------------------------- MODULE Boot ---------------------------------
(***************************************************************************)
(* The boot sector and the loader (src/boot): they look for loader.bin and *)
(* kernel.bin in the root directory of an ext2 disk, load them, map the    *)
(* memory and copy the segments of the kernel to where they belong.        *)
(*                                                                         *)
(* Blocks, addresses and segments are counted in KB, the ranges of memory  *)
(* in MB, and an inode is its 32-bit words: i_size is word 1, i_blocks, in *)
(* sectors of half a block, word 7, and i_block words 10 to 24.            *)
(***************************************************************************)
EXTENDS Integers, Sequences

CONSTANT Images   \* the disks and machines that are started:
    \* inodes, of group 0; blocks and blocks_count, of the disk; ranges, that
    \* int 15h reports; headers, the program headers of kernel.bin

ASSUME BootAssumption == \A im \in Images :
    im.ranges \in Seq([base : Nat, length : Nat, type : Nat])

Loader_PLA == 576      \* 0x90000
Kernel_PLA == 448      \* 0x70000
Segment    == 64       \* the offset in a segment is a 16-bit word
Memory     == 0 .. 639

VARIABLES
    image,      \* never changes
    at,         \* where the program is
    stage,      \* "boot" or "loader"
    inode,      \* the words that es:bx points into, and bx in words
    bx,
    ecx,        \* how many blocks or sectors are left
    lba, buffer, offset,   \* disk_address_packet: from block lba, to this
                           \* segment and offset
    directory,  \* the block at RootDir_Base
    found,      \* the inode number of the entry that was found
    mem,        \* conventional memory
    Mem_Check_Res, RAM_Size, PDEs, PTEs,
    header      \* how many program headers are dealt with

diskVars == <<inode, bx, ecx, lba, buffer, offset, directory, found, mem>>
pmVars   == <<Mem_Check_Res, RAM_Size, PDEs, PTEs, header>>
vars     == <<image, at, stage, diskVars, pmVars>>

other == <<"other">>    \* what was never written, and data of other files

Least(a, b) == IF a < b THEN a ELSE b

Init ==
    /\ image \in Images
    /\ at = "start" /\ stage = "boot"
    /\ inode = [w \in 0 .. 24 |-> 0] /\ bx = 0 /\ ecx = 0
    /\ lba = 0 /\ buffer = 0 /\ offset = 0
    /\ directory = other /\ found = 0
    /\ mem = [a \in Memory |-> other]
    /\ Mem_Check_Res = 0 /\ RAM_Size = 0 /\ PDEs = 0 /\ PTEs = 0 /\ header = 0

goto(place) == at' = place /\ UNCHANGED <<image, stage, pmVars>>

-----------------------------------------------------------------------------
(* What both programs do with the disk                                     *)

\* int 13h, AH = 42h: an error leaves what is in memory, and is not looked at
Block(b, old) ==
    IF b \in DOMAIN image.blocks THEN image.blocks[b]
    ELSE IF b < image.blocks_count THEN other ELSE old

\* inode - 1, in 16 bits, is divided by 8, and the quotient has 8 bits
Divides(n) == n >= 1 /\ (n - 1) \div 8 < 256

\* es:bx = inode n of group 0, or a divide error
GetInode(n, next) ==
    /\ UNCHANGED <<directory, found, mem>>
    /\ \/ /\ Divides(n)
          /\ inode' = image.inodes[n] /\ bx' = 0
          /\ next
       \/ /\ ~Divides(n)
          /\ goto("divide error")
          /\ UNCHANGED <<inode, bx, ecx, lba, buffer, offset>>

\* the root directory: its first block, and how many are searched
open_root ==
    GetInode(2, /\ lba' = inode'[10]
                /\ ecx' = Least(inode'[7] \div 2, 12)
                /\ UNCHANGED <<buffer, offset>>
                /\ goto("root"))

\* one block of the directory is read, and lba set for the next: but bx goes
\* on without Inode_Block_Offset
next_block ==
    /\ at = "root"
    /\ UNCHANGED <<inode, buffer, offset, found, mem>>
    /\ \/ /\ ecx = 0
          /\ goto("not found")
          /\ UNCHANGED <<bx, ecx, lba, directory>>
       \/ /\ ecx > 0
          /\ directory' = Block(lba, directory)
          /\ ecx' = ecx - 1
          /\ bx' = bx + 1
          /\ lba' = inode[bx + 1]
          /\ goto("search")

Name == IF stage = "boot" THEN "loader.bin" ELSE "kernel.bin"

SameLength(s) == Len(s) = Len(Name)
SameName(s)   == s = Name

Entries == IF directory[1] = "directory" THEN directory[2] ELSE <<>>
Matches == {i \in DOMAIN Entries : SameName(Entries[i].name)}

\* the entries of the block, one after the other; in a block that is no
\* directory a record of length 0 is gone round for ever
search ==
    /\ at = "search"
    /\ UNCHANGED <<inode, bx, ecx, lba, buffer, offset, directory, mem>>
    /\ \/ /\ Matches # {}
          /\ found' = Entries[CHOOSE i \in Matches : \A j \in Matches : i <= j].inode
          /\ goto("found")
       \/ /\ Matches = {}
          /\ goto("root")
          /\ UNCHANGED found
       \/ /\ directory[1] # "directory"
          /\ goto("spin")
          /\ UNCHANGED found

\* the packet of a file that is loaded, with at most 24 sectors at first
open_file(pla) ==
    GetInode(found, /\ buffer' = pla /\ offset' = 0
                    /\ ecx' = Least(inode'[7], 24)
                    /\ UNCHANGED lba
                    /\ goto("direct"))

\* the offset of the next block
next_offset(o) == (o + 1) % Segment

More_jae(sectors) == sectors >= 2
More(sectors)     == sectors > 2

\* one block is read; sub ecx, 2 and ja
read(b, more, done) ==
    /\ lba' = b
    /\ mem' = [mem EXCEPT ![buffer + offset] = Block(b, @)]
    /\ offset' = next_offset(offset)
    /\ ecx' = ecx - 2
    /\ bx' = bx + 1
    /\ goto(IF More(ecx) THEN more ELSE done)
    /\ UNCHANGED <<buffer, directory, found>>

-----------------------------------------------------------------------------
(* boot.asm                                                                *)

boot         == at = "start" /\ open_root
root_loader  == stage = "boot" /\ next_block
root_search  == stage = "boot" /\ search
loader_found == stage = "boot" /\ at = "found" /\ open_file(Loader_PLA)
block_loader == stage = "boot" /\ at = "direct" /\ read(inode[10 + bx], "direct", "loaded") /\ UNCHANGED inode

\* jmp Loader_Base:Loader_Offset
jmp_loader ==
    /\ stage = "boot" /\ at = "loaded"
    /\ at' = "memory" /\ stage' = "loader"
    /\ UNCHANGED <<image, diskVars, pmVars>>

-----------------------------------------------------------------------------
(* loader.asm, in real mode                                                *)

\* int 15h tells one range after the other, or fails
MemCheckLoop ==
    /\ at = "memory"
    /\ \/ /\ image.ranges = <<>>
          /\ at' = "memory failed" /\ UNCHANGED Mem_Check_Res
       \/ /\ Mem_Check_Res < Len(image.ranges)
          /\ Mem_Check_Res' = Mem_Check_Res + 1
          /\ at' = IF Mem_Check_Res' = Len(image.ranges) THEN "kernel" ELSE at
    /\ UNCHANGED <<image, stage, diskVars, RAM_Size, PDEs, PTEs, header>>

MemCheckCompleted == stage = "loader" /\ at = "kernel" /\ open_root
RootLoad     == stage = "loader" /\ next_block
SearchKernel == stage = "loader" /\ search
KernelLoad   == stage = "loader" /\ at = "found" /\ open_file(Kernel_PLA)

\* LoadFile: the direct blocks, the index block, the blocks it names
ReadDirectBlock ==
    /\ stage = "loader" /\ at = "direct"
    /\ read(inode[10 + bx], "direct", IF inode[7] <= 24 THEN "loaded" ELSE "index")
    /\ UNCHANGED inode

\* the packet is pushed, used for the index block, and popped
popped_start(o) == 0
popped(o) == o

\* the block numbers of a block; what another than an index block has as such
\* does not matter
Words(block) == IF block[1] = "index" THEN block[2] ELSE [w \in 0 .. 255 |-> 0]

ReadIndexBlock ==
    /\ at = "index"
    /\ ecx' = inode[7] - 24
    /\ inode' = Words(Block(inode[10 + bx], other)) /\ bx' = 0
    /\ offset' = popped(offset)
    /\ goto("indirect")
    /\ UNCHANGED <<lba, buffer, directory, found, mem>>

ReadFirstBlock ==
    /\ at = "indirect"
    /\ read(inode[bx], "indirect", "loaded")
    /\ UNCHANGED inode

-----------------------------------------------------------------------------
(* loader.asm, in protected mode                                           *)

Protected(from, to) == stage = "loader" /\ at = from /\ at' = to /\ UNCHANGED <<image, stage>>

\* the end of usable memory: the highest end of a range, in 32 bits
End(r) == (r.base + r.length) % 4096

RAM_last(size, r) == End(r)
RAM_max(size, r)  == IF r.type = 1 /\ End(r) >= size THEN End(r) ELSE size

\* every range is displayed in turn
DispMemInfo ==
    /\ Protected("loaded", IF Mem_Check_Res = 1 THEN "paging" ELSE "loaded")
    /\ RAM_Size' = RAM_max(RAM_Size, image.ranges[Len(image.ranges) - Mem_Check_Res + 1])
    /\ Mem_Check_Res' = Mem_Check_Res - 1
    /\ UNCHANGED <<diskVars, PDEs, PTEs, header>>

\* a page table for every 4 MB and one for what is left
tables(size) == size \div 4 + (IF size % 4 = 0 THEN 0 ELSE 1)

SetupPaging ==
    /\ PDEs' = tables(RAM_Size)
    /\ PTEs' = tables(RAM_Size) * 1024
    /\ Protected("paging", "segments")
    /\ UNCHANGED <<diskVars, Mem_Check_Res, RAM_Size, header>>

\* MemCpy: byte after byte, upwards
MemCpy(dest, src, size) ==
    LET ahead == dest - src IN
    [a \in Memory |->
        IF a \in dest .. dest + size - 1
        THEN mem[src + (IF ahead > 0 THEN (a - dest) % ahead ELSE a - dest)]
        ELSE mem[a]]

\* every program header whose type is not 0
Loadable_any(h) == TRUE
Loadable(h) == h.type # 0

InitKernel ==
    LET h == image.headers[header + 1] IN
    /\ mem[Kernel_PLA] = <<"kernel.bin", 0>>      \* the headers are there
    /\ Protected("segments", IF header + 1 = Len(image.headers) THEN "entered" ELSE "segments")
    /\ mem' = IF Loadable(h) THEN MemCpy(h.vaddr, Kernel_PLA + h.offset, h.size) ELSE mem
    /\ header' = header + 1
    /\ UNCHANGED <<inode, bx, ecx, lba, buffer, offset, directory, found,
                   Mem_Check_Res, RAM_Size, PDEs, PTEs>>

\* what is executed when the first block is not the kernel's is not known
NoKernel ==
    /\ mem[Kernel_PLA] # <<"kernel.bin", 0>>
    /\ Protected("segments", "unknown")
    /\ UNCHANGED <<diskVars, pmVars>>

Next ==
    \/ boot \/ root_loader \/ root_search \/ loader_found \/ block_loader \/ jmp_loader
    \/ MemCheckLoop \/ MemCheckCompleted \/ RootLoad \/ SearchKernel \/ KernelLoad
    \/ ReadDirectBlock \/ ReadIndexBlock \/ ReadFirstBlock
    \/ DispMemInfo \/ SetupPaging \/ InitKernel \/ NoKernel

Spec == Init /\ [][Next]_vars

\* the CPU goes on; the disk and the BIOS answer
FairSpec == Spec /\ WF_vars(Next)

-----------------------------------------------------------------------------
Word == 0 .. 16777215

TypeOK ==
    /\ image \in Images /\ stage \in {"boot", "loader"}
    /\ at \in {"start", "root", "search", "found", "direct", "loaded", "memory",
                "kernel", "index", "indirect", "paging", "segments", "entered",
                "not found", "spin", "divide error", "memory failed", "unknown"}
    /\ bx \in 0 .. Segment * 4 /\ ecx \in -2 .. Segment * 4 /\ lba \in Word /\ found \in Word
    /\ buffer + offset \in Memory /\ offset \in 0 .. Segment - 1
    /\ Mem_Check_Res \in 0 .. Len(image.ranges) /\ RAM_Size \in 0 .. 4095
    /\ PDEs \in 0 .. 1024 /\ PTEs = PDEs * 1024
    /\ header \in 0 .. Len(image.headers)

\* the blocks of file n, and the entries of a block of the root directory
BlocksOn(im, n) == LET data == im.inodes[n][7] \div 2 IN IF data > 12 THEN data - 1 ELSE data
BlocksOf(n)     == BlocksOn(image, n)
RootEntries(k)  == LET e == image.blocks[image.inodes[2][10 + k]][2] IN {e[i] : i \in DOMAIN e}
InRoot(k)       == {e \in RootEntries(k) : e.name = Name}

(***************************************************************************)
(* Both searches end at the file that is asked for, and end without it     *)
(* only when the first block of the root directory does not have it,       *)
(* whatever they read as the blocks after it.                              *)
(***************************************************************************)
FirstBlockSearched ==
    /\ at = "found" => \E k \in 0 .. BlocksOf(2) - 1 : \E e \in InRoot(k) : e.inode = found
    /\ at = "not found" => InRoot(0) = {}
    /\ at = "spin" => InRoot(0) = {}

(***************************************************************************)
(* loader.asm:130 "if the root directory has more than 12 blocks, only the *)
(* first 12 are searched": so each of the first 12 is.                     *)
(***************************************************************************)
TwelveBlocksSearched ==
    at = "not found" => \A k \in 0 .. Least(BlocksOf(2), 12) - 1 : InRoot(k) = {}

(***************************************************************************)
(* What is jumped to, or taken for the kernel, is the whole file in its    *)
(* order, if loader.bin has at most 12 blocks and kernel.bin at most 63:   *)
(* neither the index block, which i_blocks counts too, nor the one block   *)
(* that is read too many because of it, falls on a part of the file.       *)
(***************************************************************************)
LoadedIsFile ==
    LET limit == IF stage = "boot" THEN 12 ELSE Segment - 1 IN
    at = "loaded" /\ BlocksOf(found) <= limit =>
        \A k \in 0 .. BlocksOf(found) - 1 : mem[buffer + k] = <<Name, k>>

\* the same for as much as the segment of the kernel has room for
LoadedFillsSegment ==
    at = "loaded" /\ stage = "loader" /\ BlocksOf(found) <= Segment =>
        \A k \in 0 .. BlocksOf(found) - 1 : mem[buffer + k] = <<Name, k>>

(***************************************************************************)
(* Paging maps all usable memory, in whatever order its ranges come and    *)
(* whatever holes and reserved ranges are between them, up to 4 GB.        *)
(***************************************************************************)
RamIsMapped == at = "segments" =>
    \A i \in DOMAIN image.ranges : LET r == image.ranges[i] IN
        r.type = 1 /\ r.base + r.length < 4096 => r.base + r.length <= 4 * PDEs

(***************************************************************************)
(* The kernel is entered with every segment of its file where its program  *)
(* header wants it: no copy has overwritten what a later one reads, or     *)
(* what an earlier one wrote.                                              *)
(***************************************************************************)
SegmentsInPlace == at = "entered" =>
    \A i \in DOMAIN image.headers : LET h == image.headers[i] IN
        h.type # 0 => \A k \in 0 .. h.size - 1 : mem[h.vaddr + k] = <<Name, h.offset + k>>

-----------------------------------------------------------------------------
(* What mkfs.ext2 and the copying of the files leave on a disk             *)

Holds(im, b, block) == b \in DOMAIN im.blocks /\ im.blocks[b] = block

\* inode n is that of a file with the blocks <<name, 0>>, <<name, 1>>, ...:
\* the first 12 are named by the inode, the others by an index block
File(im, n, name) ==
    LET words == im.inodes[n]
        data  == BlocksOn(im, n)
    IN /\ data \in Nat
       /\ words[7] = 2 * data + (IF data > 12 THEN 2 ELSE 0)
       /\ \A k \in 0 .. Least(data, 12) - 1 : Holds(im, words[10 + k], <<name, k>>)
       /\ data > 12 => LET index == im.blocks[words[22]] IN
             /\ words[22] \in DOMAIN im.blocks /\ index[1] = "index"
             /\ \A k \in 12 .. Least(data, 268) - 1 : Holds(im, index[2][k - 12], <<name, k>>)

\* the blocks of the root directory that its inode names, and what is in them
RootOn(im) == 0 .. Least(BlocksOn(im, 2), 12) - 1

RootBlock(im, k) == im.blocks[im.inodes[2][10 + k]]

DirectoryBlock(block) ==
    block[1] = "directory" /\ block[2] \in Seq([name : STRING, inode : Nat])

\* the words of the root inode that next_block takes for block numbers are
\* those of no other directory
Formatted(im) ==
    /\ im.inodes[2][7] \in Nat /\ 0 \in RootOn(im)
    /\ \A k \in RootOn(im) :
          im.inodes[2][10 + k] \in DOMAIN im.blocks /\ DirectoryBlock(RootBlock(im, k))
    /\ \A w \in 1 .. 11 : LET b == im.inodes[2][w] IN
          b \in DOMAIN im.blocks /\ im.blocks[b][1] = "directory" =>
             \E k \in RootOn(im) : im.blocks[b] = RootBlock(im, k)
    /\ \A k \in RootOn(im) : \A i \in DOMAIN RootBlock(im, k)[2] :
          LET e == RootBlock(im, k)[2][i] IN
          e.name \in {"loader.bin", "kernel.bin"} /\ Divides(e.inode) => File(im, e.inode, e.name)

\* where a segment is in the file that was loaded, and where it belongs
Source(h)      == Kernel_PLA + h.offset .. Kernel_PLA + h.offset + h.size - 1
Destination(h) == h.vaddr .. h.vaddr + h.size - 1

\* the kernel is linked so that its segments can be copied one after the other
Linked(im) ==
    LET headers == im.headers IN
    /\ headers \in Seq([type : Nat, offset : Nat, vaddr : Nat, size : Nat]) \ {<<>>}
    /\ \A i \in DOMAIN headers : LET h == headers[i] IN h.type # 0 =>
          /\ Destination(h) \subseteq Memory
          /\ h.vaddr <= Kernel_PLA + h.offset \/ Destination(h) \cap Source(h) = {}
          /\ \A k \in RootOn(im) : \A j \in DOMAIN RootBlock(im, k)[2] :
                LET e == RootBlock(im, k)[2][j] IN
                e.name = "kernel.bin" /\ Divides(e.inode) => h.offset + h.size <= BlocksOn(im, e.inode)
          /\ \A j \in DOMAIN headers : i < j /\ headers[j].type # 0 =>
                Destination(h) \cap (Destination(headers[j]) \cup Source(headers[j])) = {}

DisksFormatted == \A im \in Images : Formatted(im)
KernelsLinked  == \A im \in Images : Linked(im)

(***************************************************************************)
(* A disk with both files in the first block of its root directory, with   *)
(* inodes of at most 2048 and of the sizes above, boots.                   *)
(***************************************************************************)
Bootable ==
    /\ image.ranges # <<>>
    /\ \A f \in {<<"loader.bin", 12>>, <<"kernel.bin", Segment - 1>>} :
          \E e \in RootEntries(0) : e.name = f[1] /\ e.inode <= 2048 /\ BlocksOf(e.inode) <= f[2]

Boots == Bootable => <>(at = "entered")
=============================================================================
