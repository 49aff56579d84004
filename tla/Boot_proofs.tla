----------------------------- MODULE Boot_proofs -----------------------------
(***************************************************************************)
(* All usable memory is mapped, whatever the machine tells of it: the      *)
(* ranges that DispMemInfo has dealt with end below RAM_Size, and the page *)
(* tables reach as far as RAM_Size.  The files are found and loaded, and   *)
(* the segments of the kernel copied, whatever disk is started from.       *)
(***************************************************************************)
EXTENDS Boot, WellFoundedInduction, TLAPS

-----------------------------------------------------------------------------
(* The memory                                                              *)

\* the usable ranges among the first k do not end behind size
Counted(k, size) == \A i \in 1 .. k :
    image.ranges[i].type = 1 => End(image.ranges[i]) <= size

OnDisk == {"start", "root", "search", "found", "direct", "kernel", "index",
           "indirect", "loaded"}

MapTypes ==
    /\ image \in Images
    /\ RAM_Size \in Nat /\ Mem_Check_Res \in Nat
    /\ Mem_Check_Res <= Len(image.ranges)

\* how far DispMemInfo has come, by the place of the program
MapInv ==
    /\ MapTypes
    /\ stage = "boot" => at \notin {"memory", "kernel", "paging", "segments"}
    /\ stage = "loader" /\ at \in OnDisk =>
          Mem_Check_Res > 0 /\ Counted(Len(image.ranges) - Mem_Check_Res, RAM_Size)
    /\ at \in {"paging", "segments"} => Counted(Len(image.ranges), RAM_Size)
    /\ at = "segments" => PDEs = tables(RAM_Size)

\* stage, and what DispMemInfo and SetupPaging work on, stay as they are, and
\* the program stays with the disk or stops
DiskStep ==
    /\ UNCHANGED <<image, stage, pmVars>>
    /\ at \in OnDisk
    /\ at' \in (OnDisk \ {"kernel"}) \cup {"not found", "spin", "divide error"}

LEMMA DiskSteps ==
    ASSUME boot \/ root_loader \/ root_search \/ loader_found \/ block_loader
           \/ MemCheckCompleted \/ RootLoad \/ SearchKernel \/ KernelLoad
           \/ ReadDirectBlock \/ ReadIndexBlock \/ ReadFirstBlock
    PROVE  DiskStep
<1>1. CASE boot \/ MemCheckCompleted
    BY <1>1 DEF boot, MemCheckCompleted, open_root, GetInode, goto, DiskStep, OnDisk
<1>2. CASE root_loader \/ RootLoad
    BY <1>2 DEF root_loader, RootLoad, next_block, goto, DiskStep, OnDisk
<1>3. CASE root_search \/ SearchKernel
    BY <1>3 DEF root_search, SearchKernel, search, goto, DiskStep, OnDisk
<1>4. CASE loader_found \/ KernelLoad
    BY <1>4 DEF loader_found, KernelLoad, open_file, GetInode, goto, DiskStep, OnDisk
<1>5. CASE block_loader \/ ReadDirectBlock \/ ReadFirstBlock
    BY <1>5 DEF block_loader, ReadDirectBlock, ReadFirstBlock, read, goto, DiskStep, OnDisk
<1>6. CASE ReadIndexBlock
    BY <1>6 DEF ReadIndexBlock, goto, DiskStep, OnDisk
<1> QED BY <1>1, <1>2, <1>3, <1>4, <1>5, <1>6

LEMMA ElementType ==
    ASSUME NEW S, NEW s \in Seq(S), NEW i \in 1 .. Len(s)
    PROVE  s[i] \in S
OBVIOUS

LEMMA MapInvInit == ASSUME Init PROVE MapInv
<1>1. image.ranges \in Seq([base : Nat, length : Nat, type : Nat])
    BY BootAssumption DEF Init
<1>2. Len(image.ranges) \in Nat
    BY <1>1
<1> QED BY <1>2 DEF Init, MapInv, MapTypes

LEMMA MapInvStep ==
    ASSUME MapInv, [Next]_vars
    PROVE  MapInv'
<1> DEFINE n == Len(image.ranges)
<1>1. image.ranges \in Seq([base : Nat, length : Nat, type : Nat]) /\ n \in Nat
    BY BootAssumption DEF MapInv, MapTypes
<1>2. Mem_Check_Res \in Nat /\ Mem_Check_Res <= n /\ RAM_Size \in Nat
    BY DEF MapInv, MapTypes
<1>3. CASE DiskStep
    <2>1. stage = "boot" => at' \notin {"memory", "kernel", "paging", "segments"}
        BY <1>3 DEF DiskStep, OnDisk
    <2>2. stage = "loader" => Mem_Check_Res > 0 /\ Counted(n - Mem_Check_Res, RAM_Size)
        BY <1>3 DEF DiskStep, MapInv
    <2> QED BY <1>3, <2>1, <2>2 DEF DiskStep, MapInv, MapTypes, OnDisk, pmVars, Counted
<1>4. CASE jmp_loader
    BY <1>4 DEF jmp_loader, MapInv, MapTypes, OnDisk, pmVars
<1>5. CASE MemCheckLoop
    <2>1. UNCHANGED <<image, stage, RAM_Size, PDEs>> /\ at = "memory" /\ n' = n
        BY <1>5 DEF MemCheckLoop
    <2>2. \/ at' = "memory failed" /\ Mem_Check_Res' = Mem_Check_Res
          \/ /\ Mem_Check_Res < n /\ Mem_Check_Res' = Mem_Check_Res + 1
             /\ at' = IF Mem_Check_Res' = n THEN "kernel" ELSE "memory"
        BY <1>5 DEF MemCheckLoop
    <2>3. Mem_Check_Res' \in Nat /\ Mem_Check_Res' <= n
        <3>1. CASE Mem_Check_Res' = Mem_Check_Res
            BY <1>2, <3>1
        <3>2. CASE Mem_Check_Res < n /\ Mem_Check_Res' = Mem_Check_Res + 1
            BY <1>1, <1>2, <3>2
        <3> QED BY <2>2, <3>1, <3>2
    <2>4. \/ at' \in {"memory", "memory failed"}
          \/ at' = "kernel" /\ n - Mem_Check_Res' = 0 /\ Mem_Check_Res' > 0
        <3>1. CASE at' = "kernel" /\ Mem_Check_Res' = Mem_Check_Res + 1 /\ Mem_Check_Res' = n
            BY <1>1, <1>2, <3>1
        <3> QED BY <2>2, <3>1
    <2>5. Counted(0, RAM_Size)'
        BY DEF Counted
    <2>6. MapTypes'
        BY <2>1, <2>3 DEF MapInv, MapTypes, n
    <2>7. stage' # "boot"
        BY <2>1 DEF MapInv
    <2>8. at' = "kernel" => Mem_Check_Res' > 0 /\ Counted(Len(image.ranges) - Mem_Check_Res, RAM_Size)'
        BY <2>1, <2>4, <2>5 DEF n
    <2> QED BY <2>4, <2>6, <2>7, <2>8 DEF MapInv, OnDisk
<1>6. CASE DispMemInfo
    <2> DEFINE k == n - Mem_Check_Res + 1
               r == image.ranges[k]
    <2>1. /\ UNCHANGED <<image, stage, PDEs>> /\ stage = "loader" /\ at = "loaded"
          /\ at' = IF Mem_Check_Res = 1 THEN "paging" ELSE "loaded"
          /\ RAM_Size' = RAM_max(RAM_Size, r)
          /\ Mem_Check_Res' = Mem_Check_Res - 1
        BY <1>6 DEF DispMemInfo, Protected
    <2>2. Mem_Check_Res > 0 /\ Counted(n - Mem_Check_Res, RAM_Size)
        BY <2>1 DEF MapInv, OnDisk
    <2>3. k \in 1 .. n /\ r \in [base : Nat, length : Nat, type : Nat]
        <3>1. k \in 1 .. n
            <4> HIDE DEF n
            <4> QED BY <1>1, <1>2, <2>2
        <3> QED BY <1>1, <3>1, ElementType
    <2>4. /\ RAM_Size' \in Nat /\ RAM_Size <= RAM_Size'
          /\ r.type = 1 => End(r) <= RAM_Size'
        <3> DEFINE e == End(r)
        <3>1. e \in Nat /\ RAM_Size \in Nat
            BY <1>2, <2>3 DEF End
        <3>2. RAM_Size' = IF r.type = 1 /\ e >= RAM_Size THEN e ELSE RAM_Size
            BY <2>1 DEF RAM_max
        <3> HIDE DEF e
        <3> QED  BY <3>1, <3>2 DEF e
    <2>5. Counted(k, RAM_Size')
        <3> SUFFICES ASSUME NEW i \in 1 .. k, image.ranges[i].type = 1
                     PROVE  End(image.ranges[i]) <= RAM_Size'
            BY DEF Counted
        <3>1. CASE i = k
            BY <2>4, <3>1
        <3>2. CASE i # k
            <4>1. i \in 1 .. n - Mem_Check_Res /\ i \in 1 .. n
                <5> HIDE DEF n
                <5> QED BY <1>1, <1>2, <2>2, <2>3, <3>2
            <4>2. End(image.ranges[i]) <= RAM_Size
                BY <2>2, <4>1 DEF Counted
            <4>3. image.ranges[i] \in [base : Nat, length : Nat, type : Nat]
                BY <1>1, <4>1, ElementType
            <4>4. End(image.ranges[i]) \in Nat
                BY <4>3 DEF End
            <4> HIDE DEF n
            <4> QED BY <1>2, <2>4, <4>2, <4>4
        <3> QED BY <3>1, <3>2
    <2>6. \A j : Counted(j, RAM_Size') <=> Counted(j, RAM_Size)'
        BY <2>1 DEF Counted
    <2>7. /\ Mem_Check_Res' \in Nat /\ Mem_Check_Res' <= n /\ k = n - Mem_Check_Res'
          /\ Mem_Check_Res = 1 => k = n
          /\ Mem_Check_Res # 1 => Mem_Check_Res' > 0
        <3> HIDE DEF n
        <3> QED BY <1>1, <1>2, <2>1, <2>2
    <2>8. MapTypes'
        BY <2>1, <2>4, <2>7 DEF MapInv, MapTypes
    <2>9. n' = n /\ n' - Mem_Check_Res' = n - Mem_Check_Res'
        BY <2>1
    <2>10. Counted(n - Mem_Check_Res, RAM_Size)'
        BY <2>5, <2>6, <2>7, <2>9
    <2>11. CASE Mem_Check_Res = 1
        <3>1. Counted(n, RAM_Size)'
            BY <2>5, <2>6, <2>7, <2>9, <2>11
        <3> QED BY <2>1, <2>8, <2>11, <3>1 DEF MapInv, OnDisk
    <2>12. CASE Mem_Check_Res # 1
        BY <2>1, <2>7, <2>8, <2>10, <2>12 DEF MapInv, OnDisk
    <2> QED BY <2>11, <2>12
<1>7. CASE SetupPaging
    BY <1>7 DEF SetupPaging, Protected, MapInv, MapTypes, OnDisk, Counted
<1>8. CASE InitKernel
    <2>1. /\ UNCHANGED <<image, stage, Mem_Check_Res, RAM_Size, PDEs>>
          /\ at = "segments" /\ at' \in {"entered", "segments"}
        BY <1>8 DEF InitKernel, Protected
    <2> QED BY <2>1 DEF MapInv, MapTypes, OnDisk, Counted
<1>9. CASE NoKernel
    BY <1>9 DEF NoKernel, Protected, MapInv, MapTypes, OnDisk, pmVars
<1>10. CASE UNCHANGED vars
    BY <1>10 DEF vars, pmVars, MapInv, MapTypes, OnDisk, Counted
<1> QED BY <1>3, <1>4, <1>5, <1>6, <1>7, <1>8, <1>9, <1>10, DiskSteps DEF Next

\* the page tables reach as far as they were counted for
LEMMA TablesReach == ASSUME NEW size \in Nat PROVE size <= 4 * tables(size)
BY DEF tables

LEMMA MapInvMaps == ASSUME MapInv PROVE RamIsMapped
<1>1. image.ranges \in Seq([base : Nat, length : Nat, type : Nat])
    BY BootAssumption DEF MapInv, MapTypes
<1>2. DOMAIN image.ranges = 1 .. Len(image.ranges)
    BY <1>1
<1>3. \A i \in DOMAIN image.ranges :
          image.ranges[i].base \in Nat /\ image.ranges[i].length \in Nat
    <2> TAKE i \in DOMAIN image.ranges
    <2>1. i \in 1 .. Len(image.ranges)
        BY <1>2
    <2>2. image.ranges[i] \in [base : Nat, length : Nat, type : Nat]
        BY <1>1, <2>1, ElementType
    <2> QED BY <2>2
<1> SUFFICES ASSUME at = "segments", NEW i \in DOMAIN image.ranges,
                    image.ranges[i].type = 1,
                    image.ranges[i].base + image.ranges[i].length < 4096
             PROVE  image.ranges[i].base + image.ranges[i].length <= 4 * PDEs
    BY DEF RamIsMapped
<1> DEFINE end == image.ranges[i].base + image.ranges[i].length
<1>4. Counted(Len(image.ranges), RAM_Size) /\ PDEs = tables(RAM_Size) /\ RAM_Size \in Nat
    BY DEF MapInv, MapTypes
<1>5. end \in Nat /\ End(image.ranges[i]) = end
    BY <1>3 DEF End
<1>6. end <= RAM_Size
    BY <1>2, <1>4, <1>5 DEF Counted
<1>7. RAM_Size <= 4 * PDEs /\ 4 * PDEs \in Nat
    BY <1>4, TablesReach DEF tables
<1> HIDE DEF end
<1>8. end <= 4 * PDEs
    BY <1>4, <1>5, <1>6, <1>7
<1> QED BY <1>8 DEF end

(***************************************************************************)
(* RamIsMapped, for every disk and every list of ranges that a machine can *)
(* tell: DispMemInfo and SetupPaging of loader.asm map all usable memory   *)
(* below 4 GB.                                                             *)
(***************************************************************************)
THEOREM MemoryIsMapped == Spec => []RamIsMapped
<1>1. Init => MapInv
    BY MapInvInit
<1>2. MapInv /\ [Next]_vars => MapInv'
    BY MapInvStep
<1>3. MapInv => RamIsMapped
    BY MapInvMaps
<1> QED BY <1>1, <1>2, <1>3, PTL DEF Spec

-----------------------------------------------------------------------------
(* The files                                                               *)

\* what is taken for a directory is a block of the root directory
DirectoryInv == directory[1] = "directory" =>
    \E k \in RootOn(image) : directory = RootBlock(image, k)

\* found is the inode of an entry of the root directory with the name asked for
IsEntry == \E k \in RootOn(image) : \E i \in DOMAIN RootBlock(image, k)[2] :
    LET e == RootBlock(image, k)[2][i] IN e.name = Name /\ e.inode = found

\* the first block of the root directory does not have the file
NotInFirst == InRoot(0) = {}

\* b blocks have been read and at most e of the others will be
Left(b, e) == b \in Nat /\ e \in Nat /\ b + e <= 12

\* bx blocks have been read, and the first of them searched when at is "root"
SearchInv ==
    /\ image \in Images /\ DirectoryInv
    /\ at \in {"root", "search"} =>
          /\ inode = image.inodes[2]
          /\ Left(bx, ecx)
          /\ bx = 0 => lba = inode[10]
          /\ bx > 0 => lba = inode[bx]
    /\ at = "root" /\ bx = 0 => ecx > 0
    /\ at = "root" /\ bx > 0 => NotInFirst
    /\ at = "search" => bx > 0
    /\ at = "search" /\ bx = 1 => directory = RootBlock(image, 0)
    /\ at = "search" /\ bx > 1 => NotInFirst
    /\ at = "found" => IsEntry
    /\ at \in {"not found", "spin"} => NotInFirst

\* the places where the file is known
Opened == {"direct", "index", "indirect", "loaded", "paging", "segments", "entered"}

PLA  == IF stage = "boot" THEN Loader_PLA ELSE Kernel_PLA
Fits == BlocksOf(found) > 0 /\ BlocksOf(found) <= IF stage = "boot" THEN 12 ELSE Segment - 1

\* the first n blocks of the file are in memory m from p on
Reads(m, p, name, n) == \A k \in 0 .. n - 1 : m[p + k] = <<name, k>>
Read(n) == Reads(mem, PLA, Name, n)

\* the direct blocks are read with the words of the inode, then the others with
\* those of the index block: 12 + bx blocks, the last of them one too many
DirectInv ==
    /\ inode = image.inodes[found]
    /\ bx \in 0 .. 11 /\ offset = bx
    /\ ecx = Least(inode[7], 24) - 2 * bx /\ ecx > 0
    /\ Read(bx)

IndexInv ==
    /\ inode = image.inodes[found] /\ BlocksOf(found) > 12
    /\ bx = 12 /\ offset = 12
    /\ Read(12)

IndirectInv ==
    /\ BlocksOf(found) > 12
    /\ \A k \in 12 .. BlocksOf(found) - 1 : Holds(image, inode[k - 12], <<Name, k>>)
    /\ bx \in 0 .. BlocksOf(found) - 12 /\ offset = 12 + bx
    /\ ecx = 2 * (BlocksOf(found) - 11 - bx)
    /\ Read(Least(12 + bx, BlocksOf(found)))

FileInv ==
    /\ DOMAIN mem = Memory /\ stage \in {"boot", "loader"}
    /\ at \in Opened => IsEntry /\ Divides(found)
    /\ at \in {"index", "indirect", "paging", "segments", "entered"} => stage = "loader"
    /\ at \in {"direct", "index", "indirect", "loaded"} => buffer = PLA
    /\ at = "direct" /\ Fits => DirectInv
    /\ at = "index" /\ Fits => IndexInv
    /\ at = "indirect" /\ Fits => IndirectInv
    /\ at \in {"loaded", "paging"} /\ Fits => Read(BlocksOf(found))

\* the segment is where it belongs, or still whole in the file
Placed(h) == \A k \in 0 .. h.size - 1 : mem[h.vaddr + k] = <<Name, h.offset + k>>
Intact(h) == \A k \in 0 .. h.size - 1 : mem[Kernel_PLA + h.offset + k] = <<Name, h.offset + k>>

SegmentInv ==
    /\ header \in Nat
    /\ at \notin {"segments", "entered", "unknown"} => header = 0
    /\ at = "segments" => header < Len(image.headers)
    /\ at = "entered" => header = Len(image.headers)
    /\ at \in {"segments", "entered"} /\ Fits =>
          \A i \in DOMAIN image.headers : LET h == image.headers[i] IN h.type # 0 =>
              /\ i <= header => Placed(h)
              /\ i > header => Intact(h)

\* the root directory that Formatted promises
LEMMA RootBlocks ==
    ASSUME DisksFormatted, image \in Images
    PROVE  /\ 0 \in RootOn(image) /\ RootOn(image) \subseteq 0 .. BlocksOf(2) - 1
           /\ image.inodes[2][7] \in Nat
           /\ Least(image.inodes[2][7] \div 2, 12) \in 1 .. 12
           /\ \A k \in RootOn(image) : DirectoryBlock(RootBlock(image, k))
<1>1. Formatted(image)
    BY DEF DisksFormatted
<1> DEFINE q == image.inodes[2][7] \div 2
<1>2. q \in Nat /\ image.inodes[2][7] \in Nat
    BY <1>1 DEF Formatted
<1>3. BlocksOn(image, 2) = IF q > 12 THEN q - 1 ELSE q
    BY DEF BlocksOn
<1>4. 0 \in 0 .. Least(BlocksOn(image, 2), 12) - 1
    BY <1>1 DEF Formatted, RootOn
<1> HIDE DEF q
<1>5. BlocksOn(image, 2) \in Nat
    BY <1>2, <1>3
<1>6. BlocksOn(image, 2) > 0
    BY <1>4, <1>5 DEF Least
<1>7. q > 0
    BY <1>2, <1>3, <1>6
<1>8. Least(q, 12) \in 1 .. 12
    BY <1>2, <1>7 DEF Least
<1>9. RootOn(image) \subseteq 0 .. BlocksOf(2) - 1
    BY <1>5 DEF RootOn, BlocksOf, Least
<1> QED BY <1>1, <1>2, <1>4, <1>8, <1>9 DEF Formatted, RootOn, q

\* a set of indices of a sequence has a least one
LEMMA LeastIndex ==
    ASSUME NEW S, S \subseteq Nat, S # {}
    PROVE  \E i \in S : \A j \in S : i <= j
<1>1. PICK i \in S : \A j \in S : ~ <<j, i>> \in OpToRel(<, Nat)
    BY NatLessThanWellFounded, WFMin
<1>2. \A j \in S : i <= j
    <2> TAKE j \in S
    <2>1. i \in Nat /\ j \in Nat
        OBVIOUS
    <2>2. ~ (j < i)
        BY <1>1, <2>1 DEF OpToRel
    <2> QED BY <2>1, <2>2
<1> QED BY <1>2

\* what a search finds is an entry of a block of the root
LEMMA FoundInRoot ==
    ASSUME DisksFormatted, image \in Images, DirectoryInv, Matches # {}
    PROVE  LET i == CHOOSE i \in Matches : \A j \in Matches : i <= j
           IN  \E k \in RootOn(image) : \E n \in DOMAIN RootBlock(image, k)[2] :
                  LET e == RootBlock(image, k)[2][n] IN e.name = Name /\ e.inode = Entries[i].inode
<1>1. directory[1] = "directory" /\ Entries = directory[2]
    BY DEF Matches, Entries
<1>2. PICK k \in RootOn(image) : directory = RootBlock(image, k)
    BY <1>1 DEF DirectoryInv
<1>3. DirectoryBlock(RootBlock(image, k))
    BY <1>2, RootBlocks
<1>4. Matches \subseteq Nat
    BY <1>1, <1>2, <1>3 DEF DirectoryBlock, Matches
<1>5. \E i \in Matches : \A j \in Matches : i <= j
    BY <1>4, LeastIndex
<1> DEFINE i == CHOOSE i \in Matches : \A j \in Matches : i <= j
<1>6. i \in Matches
    BY <1>5
<1>7. i \in DOMAIN RootBlock(image, k)[2] /\ Entries[i] = RootBlock(image, k)[2][i] /\ Entries[i].name = Name
    BY <1>1, <1>2, <1>6 DEF Matches, SameName
<1> HIDE DEF i
<1>8. LET e == RootBlock(image, k)[2][i] IN e.name = Name /\ e.inode = Entries[i].inode
    BY <1>7
<1>9. \E kk \in RootOn(image) : \E n \in DOMAIN RootBlock(image, kk)[2] :
          LET e == RootBlock(image, kk)[2][n] IN e.name = Name /\ e.inode = Entries[i].inode
    BY <1>2, <1>7, <1>8
<1> QED BY <1>9 DEF i

\* a search of the first block that finds nothing
LEMMA FirstBlockHasNone ==
    ASSUME DisksFormatted, image \in Images, directory = RootBlock(image, 0), Matches = {}
    PROVE  InRoot(0) = {} /\ directory[1] = "directory"
<1>1. DirectoryBlock(RootBlock(image, 0))
    BY RootBlocks
<1>2. directory[1] = "directory" /\ Entries = image.blocks[image.inodes[2][10]][2]
    BY <1>1 DEF DirectoryBlock, Entries, RootBlock
<1>3. RootEntries(0) = {Entries[i] : i \in DOMAIN Entries}
    BY <1>2 DEF RootEntries
<1>4. \A i \in DOMAIN Entries : Entries[i].name # Name
    BY DEF Matches, SameName
<1> QED BY <1>2, <1>3, <1>4 DEF InRoot

\* what next_block reads is a block of the root directory, or none
LEMMA DirectoryRead ==
    ASSUME DisksFormatted, image \in Images, DirectoryInv, NEW b,
           \/ b = image.inodes[2][10]
           \/ \E w \in 1 .. 11 : b = image.inodes[2][w]
    PROVE  /\ Block(b, directory)[1] = "directory" =>
                 \E k \in RootOn(image) : Block(b, directory) = RootBlock(image, k)
           /\ b = image.inodes[2][10] => Block(b, directory) = RootBlock(image, 0)
<1>1. Formatted(image)
    BY DEF DisksFormatted
<1>2. 0 \in RootOn(image) /\ image.inodes[2][10] \in DOMAIN image.blocks
      /\ image.blocks[image.inodes[2][10]] = RootBlock(image, 0)
    <2>1. 10 + 0 = 10
        OBVIOUS
    <2>2. 0 \in RootOn(image) /\ image.inodes[2][10 + 0] \in DOMAIN image.blocks
        BY <1>1, Zenon DEF Formatted
    <2> QED BY <2>1, <2>2, Zenon DEF RootBlock
<1>3. b = image.inodes[2][10] => Block(b, directory) = RootBlock(image, 0)
    BY <1>2, Zenon DEF Block
<1>4. ASSUME Block(b, directory)[1] = "directory"
      PROVE  \E k \in RootOn(image) : Block(b, directory) = RootBlock(image, k)
    <2>1. CASE b = image.inodes[2][10]
        <3>1. 0 \in RootOn(image) /\ Block(b, directory) = RootBlock(image, 0)
            BY <1>2, <1>3, <2>1, Zenon
        <3> QED BY <3>1, Zenon
    <2>2. CASE b \in DOMAIN image.blocks /\ \E w \in 1 .. 11 : b = image.inodes[2][w]
        <3>1. Block(b, directory) = image.blocks[b]
            BY <2>2 DEF Block
        <3>2. image.blocks[b][1] = "directory"
            BY <1>4, <3>1, Zenon
        <3> QED BY <1>1, <2>2, <3>1, <3>2, Zenon DEF Formatted
    <2>3. CASE b \notin DOMAIN image.blocks /\ Block(b, directory) = other
        <3>1. other[1] = "other"
            BY DEF other
        <3> QED BY <1>4, <2>3, <3>1
    <2>4. CASE Block(b, directory) = directory
        BY <1>4, <2>4 DEF DirectoryInv
    <2> QED BY <2>1, <2>2, <2>3, <2>4 DEF Block
<1> QED BY <1>3, <1>4

LEMMA LeftCounts ==
    /\ \A e \in 1 .. 12 : Left(0, e)
    /\ \A b, e : Left(b, e) => b \in Nat /\ e \in Nat
BY DEF Left

LEMMA LeftCountsDown ==
    ASSUME NEW b, NEW e, Left(b, e), e > 0
    PROVE  /\ Left(b + 1, e - 1) /\ b + 1 > 0
           /\ b = 0 \/ b > 0
           /\ b > 0 => b \in 1 .. 11
           /\ b + 1 = 1 => b = 0
           /\ b + 1 > 1 => b > 0
BY DEF Left

LEMMA SearchInvInit == ASSUME Init PROVE SearchInv
<1>1. other[1] = "other"
    BY DEF other
<1> QED BY <1>1 DEF Init, SearchInv, DirectoryInv

\* a program opens the root directory
LEMMA RootOpened ==
    ASSUME DisksFormatted, SearchInv, open_root
    PROVE  SearchInv'
<1>1. Divides(2)
    BY DEF Divides
<1>2. /\ UNCHANGED <<directory, image>> /\ at' = "root"
      /\ inode' = image.inodes[2] /\ bx' = 0 /\ lba' = inode'[10]
    BY <1>1 DEF open_root, GetInode, goto
<1>3. ecx' \in 1 .. 12
    <2>1. ecx' = Least(inode'[7] \div 2, 12)
        BY <1>1 DEF open_root, GetInode, goto
    <2> QED BY <1>2, <2>1, RootBlocks DEF SearchInv
<1>4. image' \in Images /\ DirectoryInv'
    BY <1>2 DEF SearchInv, DirectoryInv
<1>5. Left(bx', ecx') /\ ecx' > 0 /\ ~(bx' > 0)
    <2>1. bx' = 0
        BY <1>2, Zenon
    <2>2. Left(0, ecx')
        BY <1>3, LeftCounts
    <2>3. ecx' > 0 /\ ~(0 > 0)
        BY <1>3
    <2> QED BY <2>1, <2>2, <2>3, Zenon
<1>6. UNCHANGED image /\ image \in Images
    BY <1>2 DEF SearchInv
<1>7. SearchInv'
    BY <1>2, <1>4, <1>5, <1>6, Zenon DEF SearchInv
<1> QED BY <1>7

LEMMA BlockRead ==
    ASSUME DisksFormatted, SearchInv, next_block
    PROVE  SearchInv'
<1>1. /\ UNCHANGED <<image, stage, inode>> /\ at = "root"
      /\ image \in Images /\ DirectoryInv
    BY DEF next_block, goto, SearchInv
<1>2. NotInFirst' <=> NotInFirst
    BY <1>1 DEF NotInFirst, InRoot, RootEntries, Name
<1>3. /\ inode = image.inodes[2] /\ Left(bx, ecx)
      /\ (bx = 0 => lba = inode[10]) /\ (bx > 0 => lba = inode[bx])
      /\ bx = 0 => ecx > 0
      /\ bx > 0 => NotInFirst
    BY <1>1 DEF SearchInv
<1>4. \/ ecx = 0 /\ at' = "not found" /\ directory' = directory
      \/ /\ ecx > 0 /\ at' = "search" /\ bx' = bx + 1 /\ ecx' = ecx - 1
         /\ lba' = inode[bx + 1] /\ directory' = Block(lba, directory)
    BY Zenon DEF next_block, goto
<1>5. CASE ecx = 0 /\ at' = "not found" /\ directory' = directory
    <2>1. bx > 0
        <3>1. bx \in Nat
            BY <1>3, LeftCounts, Zenon
        <3>2. bx # 0
            <4>1. ~(0 > 0)
                OBVIOUS
            <4> QED BY <1>3, <1>5, <4>1, Zenon
        <3> QED BY <3>1, <3>2
    <2>2. NotInFirst'
        BY <1>2, <1>3, <2>1, Zenon
    <2>3. DirectoryInv'
        BY <1>1, <1>5 DEF DirectoryInv
    <2> QED BY <1>1, <1>5, <2>2, <2>3 DEF SearchInv
<1>6. CASE /\ ecx > 0 /\ at' = "search" /\ bx' = bx + 1 /\ ecx' = ecx - 1
           /\ lba' = inode[bx + 1] /\ directory' = Block(lba, directory)
    <2>1. /\ Left(bx', ecx') /\ bx' > 0
          /\ bx = 0 \/ bx > 0
          /\ bx > 0 => bx \in 1 .. 11
          /\ bx' = 1 => bx = 0
          /\ bx' > 1 => bx > 0
        <3>1. Left(bx, ecx) /\ ecx > 0 /\ bx' = bx + 1 /\ ecx' = ecx - 1
            BY <1>3, <1>6, Zenon
        <3> QED BY <3>1, LeftCountsDown, Zenon
    <2>2. inode' = image.inodes[2] /\ lba' = inode'[bx']
        BY <1>1, <1>3, <1>6, Zenon
    <2>3. \/ lba = image.inodes[2][10]
          \/ \E w \in 1 .. 11 : lba = image.inodes[2][w]
        BY <1>3, <2>1, Zenon
    <2>4. DirectoryInv'
        BY <1>1, <1>6, <2>3, DirectoryRead DEF DirectoryInv
    <2>5. bx' = 1 => directory' = RootBlock(image, 0)
        <3>1. bx' = 1 => lba = image.inodes[2][10]
            BY <1>3, <2>1, Zenon
        <3> QED BY <1>1, <1>6, <2>3, <3>1, DirectoryRead, Zenon
    <2>6. bx' > 1 => NotInFirst'
        BY <1>2, <1>3, <2>1, Zenon
    <2>7. directory' = RootBlock(image, 0) => directory' = RootBlock(image', 0)
        BY <1>1, Zenon
    <2>8. ~(bx' = 0)
        BY <2>1, LeftCounts
    <2> QED BY <1>1, <1>6, <2>1, <2>2, <2>4, <2>5, <2>6, <2>7, <2>8, Zenon DEF SearchInv
<1> QED BY <1>4, <1>5, <1>6

LEMMA BlockSearched ==
    ASSUME DisksFormatted, SearchInv, search
    PROVE  SearchInv'
<1>1. /\ UNCHANGED <<image, stage, inode, bx, ecx, lba, directory>> /\ at = "search"
      /\ image \in Images /\ DirectoryInv
    BY DEF search, goto, SearchInv
<1>2. (NotInFirst' <=> NotInFirst) /\ Name' = Name
    BY <1>1 DEF NotInFirst, InRoot, RootEntries, Name
<1>3. DirectoryInv'
    BY <1>1 DEF DirectoryInv
<1>4. Left(bx, ecx) /\ bx > 0 /\ inode = image.inodes[2]
      /\ (bx = 0 => lba = inode[10]) /\ (bx > 0 => lba = inode[bx])
    BY <1>1 DEF SearchInv
<1>5. CASE Matches = {}
    <2>1. NotInFirst
        <3>1. CASE bx = 1
            <4>1. directory = RootBlock(image, 0)
                BY <1>1, <3>1 DEF SearchInv
            <4> QED BY <1>1, <1>5, <4>1, FirstBlockHasNone DEF NotInFirst
        <3>2. CASE bx > 1
            BY <1>1, <3>2 DEF SearchInv
        <3>3. bx \in Nat /\ bx > 0
            BY <1>4, LeftCounts, Zenon
        <3> QED BY <3>1, <3>2, <3>3
    <2>2. at' \in {"root", "spin"}
        BY <1>5 DEF search, goto
    <2> QED BY <1>1, <1>2, <1>3, <1>4, <2>1, <2>2 DEF SearchInv
<1>6. CASE Matches # {} /\ at' = "found"
    <2> DEFINE i == CHOOSE i \in Matches : \A j \in Matches : i <= j
    <2>1. found' = Entries[i].inode
        BY <1>6 DEF search, goto
    <2>2. IsEntry'
        BY <1>1, <1>2, <1>6, <2>1, FoundInRoot DEF IsEntry
    <2> QED BY <1>1, <1>3, <1>6, <2>2 DEF SearchInv
<1>7. CASE Matches # {} /\ at' # "found"
    <2>1. at' = "spin" /\ directory[1] # "directory"
        BY <1>7 DEF search, goto
    <2>2. Matches = {}
        BY <2>1 DEF Matches, Entries
    <2> QED BY <1>7, <2>2
<1> QED BY <1>5, <1>6, <1>7

\* the other steps do not go to where a directory is dealt with
Elsewhere ==
    /\ UNCHANGED <<image, directory>>
    /\ at' \notin {"root", "search", "found", "not found", "spin"}

LEMMA ElsewhereSteps ==
    ASSUME loader_found \/ block_loader \/ jmp_loader \/ MemCheckLoop \/ KernelLoad
           \/ ReadDirectBlock \/ ReadIndexBlock \/ ReadFirstBlock
           \/ DispMemInfo \/ SetupPaging \/ InitKernel \/ NoKernel
    PROVE  Elsewhere
<1>1. CASE loader_found \/ KernelLoad
    BY <1>1 DEF loader_found, KernelLoad, open_file, GetInode, goto, Elsewhere
<1>2. CASE block_loader \/ ReadDirectBlock \/ ReadFirstBlock
    BY <1>2 DEF block_loader, ReadDirectBlock, ReadFirstBlock, read, goto, Elsewhere
<1>3. CASE ReadIndexBlock
    BY <1>3 DEF ReadIndexBlock, goto, Elsewhere
<1>4. CASE jmp_loader \/ MemCheckLoop
    BY <1>4 DEF jmp_loader, MemCheckLoop, diskVars, Elsewhere
<1>5. CASE DispMemInfo \/ SetupPaging \/ InitKernel \/ NoKernel
    BY <1>5 DEF DispMemInfo, SetupPaging, InitKernel, NoKernel, Protected, diskVars, Elsewhere
<1> QED BY <1>1, <1>2, <1>3, <1>4, <1>5

LEMMA SearchInvStep ==
    ASSUME DisksFormatted, SearchInv, [Next]_vars
    PROVE  SearchInv'
<1>1. CASE boot \/ MemCheckCompleted
    BY <1>1, RootOpened DEF boot, MemCheckCompleted
<1>2. CASE root_loader \/ RootLoad
    BY <1>2, BlockRead DEF root_loader, RootLoad
<1>3. CASE root_search \/ SearchKernel
    BY <1>3, BlockSearched DEF root_search, SearchKernel
<1>4. CASE Elsewhere
    BY <1>4 DEF Elsewhere, SearchInv, DirectoryInv
<1>5. CASE UNCHANGED vars
    <2>1. /\ image' = image /\ at' = at /\ stage' = stage /\ directory' = directory /\ found' = found
          /\ inode' = inode /\ bx' = bx /\ ecx' = ecx /\ lba' = lba
        BY <1>5, Zenon DEF vars, diskVars
    <2>2. Name' = Name
        BY <2>1 DEF Name
    <2>3. NotInFirst' <=> NotInFirst
        BY <2>1, <2>2 DEF NotInFirst, InRoot, RootEntries
    <2>4. IsEntry' <=> IsEntry
        BY <2>1, <2>2 DEF IsEntry
    <2>5. DirectoryInv' <=> DirectoryInv
        BY <2>1 DEF DirectoryInv
    <2> QED BY <2>1, <2>3, <2>4, <2>5, Zenon DEF SearchInv
<1> QED BY <1>1, <1>2, <1>3, <1>4, <1>5, ElsewhereSteps DEF Next

LEMMA SearchInvSearches ==
    ASSUME DisksFormatted, SearchInv
    PROVE  FirstBlockSearched
<1>1. image \in Images
    BY DEF SearchInv
<1>2. ASSUME at = "found"
      PROVE  \E k \in 0 .. BlocksOf(2) - 1 : \E e \in InRoot(k) : e.inode = found
    <2> PICK k \in RootOn(image) : \E i \in DOMAIN RootBlock(image, k)[2] :
            LET e == RootBlock(image, k)[2][i] IN e.name = Name /\ e.inode = found
        BY <1>2 DEF SearchInv, IsEntry
    <2>1. PICK i \in DOMAIN RootBlock(image, k)[2] :
              RootBlock(image, k)[2][i].name = Name /\ RootBlock(image, k)[2][i].inode = found
        BY Zenon
    <2>2. RootBlock(image, k)[2][i] \in InRoot(k)
        BY <2>1 DEF InRoot, RootEntries, RootBlock
    <2>3. k \in 0 .. BlocksOf(2) - 1
        BY <1>1, RootBlocks
    <2> QED BY <2>1, <2>2, <2>3
<1> QED BY <1>2 DEF SearchInv, NotInFirst, FirstBlockSearched

(***************************************************************************)
(* FirstBlockSearched, for every disk with a root directory: what the      *)
(* searches of boot.asm and loader.asm find is an entry of the root, and   *)
(* they do not end without one that is in its first block, though the      *)
(* words they take for the numbers of its other blocks are not those.      *)
(***************************************************************************)
THEOREM FilesAreFound == ASSUME DisksFormatted PROVE Spec => []FirstBlockSearched
<1>1. Init => SearchInv
    BY SearchInvInit
<1>2. SearchInv /\ [Next]_vars => SearchInv'
    BY SearchInvStep
<1>3. SearchInv => FirstBlockSearched
    BY SearchInvSearches
<1> QED BY <1>1, <1>2, <1>3, PTL DEF Spec

-----------------------------------------------------------------------------
(* What is loaded                                                          *)

LEMMA EntryIsFile ==
    ASSUME DisksFormatted, image \in Images, IsEntry, Divides(found)
    PROVE  File(image, found, Name)
<1>1. Formatted(image)
    BY DEF DisksFormatted
<1>2. Name \in {"loader.bin", "kernel.bin"}
    BY DEF Name
<1> QED BY <1>1, <1>2 DEF Formatted, IsEntry

\* one more block is read, or one that is none of the first n
LEMMA OneMore ==
    ASSUME NEW m, DOMAIN m = Memory, NEW p \in {Loader_PLA, Kernel_PLA}, NEW name,
           NEW n \in 0 .. Segment - 1, Reads(m, p, name, n)
    PROVE  Reads([m EXCEPT ![p + n] = <<name, n>>], p, name, n + 1)
<1> SUFFICES ASSUME NEW k \in 0 .. n
             PROVE  [m EXCEPT ![p + n] = <<name, n>>][p + k] = <<name, k>>
    BY DEF Reads, Segment
<1>1. p + k \in Memory /\ p + n \in Memory
    BY DEF Loader_PLA, Kernel_PLA, Segment, Memory
<1>2. CASE k = n
    BY <1>1, <1>2
<1>3. CASE k # n
    <2>1. k \in 0 .. n - 1 /\ p + k # p + n
        BY <1>3 DEF Loader_PLA, Kernel_PLA, Segment
    <2> QED BY <1>1, <2>1 DEF Reads
<1> QED BY <1>2, <1>3

LEMMA OneBeyond ==
    ASSUME NEW m, DOMAIN m = Memory, NEW p \in {Loader_PLA, Kernel_PLA}, NEW name, NEW v,
           NEW n \in 0 .. Segment - 1, Reads(m, p, name, n)
    PROVE  Reads([m EXCEPT ![p + n] = v], p, name, n)
<1> SUFFICES ASSUME NEW k \in 0 .. n - 1
             PROVE  [m EXCEPT ![p + n] = v][p + k] = <<name, k>>
    BY DEF Reads
<1>1. p + k \in Memory /\ p + k # p + n
    BY DEF Loader_PLA, Kernel_PLA, Segment, Memory
<1> QED BY <1>1 DEF Reads

\* n blocks are counted as w sectors, b of them have been read and e sectors of
\* the direct blocks are left
LEMMA DirectCounts ==
    ASSUME NEW n \in 1 .. Segment - 1, NEW w \in Nat, NEW b \in 0 .. 11, NEW e,
           n <= 12 => w = 2 * n, n > 12 => w = 2 * n + 2,
           e = Least(w, 24) - 2 * b, e > 0
    PROVE  /\ b \in 0 .. Least(n, 12) - 1 /\ next_offset(b) = b + 1
           /\ e > 2 => b + 1 \in 0 .. 11 /\ e - 2 = Least(w, 24) - 2 * (b + 1) /\ e - 2 > 0
           /\ ~(e > 2) /\ w <= 24 => b + 1 = n
           /\ ~(e > 2) /\ ~(w <= 24) => n > 12 /\ b + 1 = 12
<1>1. next_offset(b) = b + 1
    BY DEF next_offset, Segment
<1>2. CASE n <= 12
    <2>1. Least(w, 24) = 2 * n /\ Least(n, 12) = n /\ w = 2 * n
        BY <1>2 DEF Least
    <2> QED BY <1>1, <1>2, <2>1
<1>3. CASE n > 12
    <2>1. Least(w, 24) = 24 /\ Least(n, 12) = 12 /\ w > 24
        BY <1>3 DEF Least
    <2> QED BY <1>1, <1>3, <2>1
<1> QED BY <1>2, <1>3

\* the same for the blocks that the index block names, and the one too many
LEMMA IndirectCounts ==
    ASSUME NEW n \in 13 .. Segment - 1, NEW b \in 0 .. n - 12, NEW e, e = 2 * (n - 11 - b)
    PROVE  /\ b # n - 12 => /\ e > 2 /\ 12 + b \in 12 .. n - 1 /\ Least(12 + b, n) = 12 + b
                            /\ next_offset(12 + b) = 12 + (b + 1) /\ b + 1 \in 0 .. n - 12
                            /\ Least(12 + (b + 1), n) = 12 + b + 1
                            /\ e - 2 = 2 * (n - 11 - (b + 1))
           /\ b = n - 12 => ~(e > 2) /\ 12 + b = n /\ Least(12 + b, n) = n
BY DEF Least, next_offset, Segment

\* while the same file is dealt with
SameFile == image' = image /\ found' = found /\ stage' = stage

LEMMA SameFileSame ==
    ASSUME SameFile
    PROVE  /\ Name' = Name /\ PLA' = PLA /\ BlocksOf(found)' = BlocksOf(found)
           /\ (IsEntry' <=> IsEntry) /\ (Divides(found)' <=> Divides(found)) /\ (Fits' <=> Fits)
<1>1. Name' = Name
    BY DEF SameFile, Name
<1>2. PLA' = PLA
    BY DEF SameFile, PLA
<1>3. BlocksOf(found)' = BlocksOf(found)
    BY DEF SameFile, BlocksOf, BlocksOn
<1>4. IsEntry' <=> IsEntry
    BY <1>1 DEF SameFile, IsEntry, RootOn, RootBlock, BlocksOn
<1>5. Divides(found)' <=> Divides(found)
    BY DEF SameFile, Divides
<1>6. Fits' <=> Fits
    BY <1>3 DEF SameFile, Fits
<1> QED BY <1>1, <1>2, <1>3, <1>4, <1>5, <1>6

\* one block
LEMMA ReadStep ==
    ASSUME NEW b, NEW more, NEW done, read(b, more, done)
    PROVE  /\ mem' = [mem EXCEPT ![buffer + offset] = Block(b, mem[buffer + offset])]
           /\ offset' = next_offset(offset) /\ ecx' = ecx - 2 /\ bx' = bx + 1
           /\ SameFile /\ buffer' = buffer
           /\ ecx > 2 => at' = more
           /\ ~(ecx > 2) => at' = done
<1>1. /\ mem' = [mem EXCEPT ![buffer + offset] = Block(b, mem[buffer + offset])]
      /\ offset' = next_offset(offset)
    BY Zenon DEF read
<1>2. ecx' = ecx - 2 /\ bx' = bx + 1
    BY Zenon DEF read
<1>3. SameFile /\ buffer' = buffer
    BY Zenon DEF read, goto, SameFile
<1>4. at' = IF ecx > 2 THEN more ELSE done
    BY Zenon DEF read, goto, More
<1> QED BY <1>1, <1>2, <1>3, <1>4, Zenon

LEMMA FitsCounts ==
    ASSUME Fits, File(image, found, Name), stage \in {"boot", "loader"}
    PROVE  /\ BlocksOf(found) \in 1 .. Segment - 1
           /\ stage = "boot" => BlocksOf(found) <= 12
           /\ image.inodes[found][7] \in Nat
           /\ BlocksOf(found) <= 12 => image.inodes[found][7] = 2 * BlocksOf(found)
           /\ BlocksOf(found) > 12 => image.inodes[found][7] = 2 * BlocksOf(found) + 2
<1> DEFINE n == BlocksOf(found)
           w == image.inodes[found][7]
<1>1. n \in Nat /\ w = 2 * n + (IF n > 12 THEN 2 ELSE 0)
    BY DEF File, BlocksOf
<1>2. n > 0 /\ n <= IF stage = "boot" THEN 12 ELSE Segment - 1
    BY DEF Fits
<1> HIDE DEF n, w
<1>3. n \in 1 .. Segment - 1 /\ (stage = "boot" => n <= 12)
    BY <1>1, <1>2 DEF Segment
<1>4. w \in Nat /\ (n <= 12 => w = 2 * n) /\ (n > 12 => w = 2 * n + 2)
    BY <1>1
<1> QED BY <1>3, <1>4 DEF n, w

LEMMA PLAs == PLA \in {Loader_PLA, Kernel_PLA}
BY DEF PLA

\* a file is opened
LEMMA FileOpened ==
    ASSUME DisksFormatted, SearchInv, FileInv, at = "found",
           open_file(PLA)
    PROVE  FileInv'
<1>1. SameFile /\ mem' = mem
    BY DEF open_file, GetInode, goto, SameFile
<1>2. IsEntry /\ image \in Images
    BY DEF SearchInv
<1>3. DOMAIN mem' = Memory /\ stage' \in {"boot", "loader"}
    BY <1>1 DEF FileInv, SameFile
<1>4. CASE Divides(found)
    <2>1. at' = "direct" /\ inode' = image.inodes[found] /\ bx' = 0 /\ offset' = 0 /\ buffer' = PLA
        BY <1>4 DEF open_file, GetInode, goto
    <2>2. ecx' = Least(inode'[7], 24)
        BY <1>4 DEF open_file, GetInode, goto
    <2>3. File(image, found, Name)
        BY <1>2, <1>4, EntryIsFile
    <2>4. ASSUME Fits'
          PROVE  DirectInv'
        <3>1. Fits
            BY <1>1, <2>4, SameFileSame
        <3>2. stage \in {"boot", "loader"}
            BY DEF FileInv
        <3> DEFINE n == BlocksOf(found)
                   w == image.inodes[found][7]
        <3>3. n \in 1 .. Segment - 1 /\ w \in Nat
              /\ (n <= 12 => w = 2 * n) /\ (n > 12 => w = 2 * n + 2)
            BY <2>3, <3>1, <3>2, FitsCounts
        <3> HIDE DEF n, w
        <3>4. Least(w, 24) > 0 /\ Least(w, 24) = Least(w, 24) - 2 * 0
            BY <3>3 DEF Least, Segment
        <3>5. ecx' = Least(inode'[7], 24) - 2 * bx' /\ ecx' > 0
            BY <2>1, <2>2, <3>4, Zenon DEF w
        <3>6. Read(0)'
            BY DEF Read, Reads
        <3>7. inode' = image'.inodes[found']
            BY <1>1, <2>1 DEF SameFile
        <3>8. bx' \in 0 .. 11 /\ offset' = bx'
            BY <2>1
        <3>9. Read(bx)'
            BY <2>1, <3>6 DEF Read
        <3> QED BY <3>5, <3>7, <3>8, <3>9, Zenon DEF DirectInv
    <2>5. buffer' = PLA' /\ IsEntry' /\ Divides(found)'
        BY <1>1, <1>2, <1>4, <2>1, SameFileSame
    <2> QED BY <1>3, <2>1, <2>4, <2>5 DEF FileInv
<1>5. CASE ~Divides(found)
    <2>1. at' = "divide error"
        BY <1>5 DEF open_file, GetInode, goto
    <2> QED BY <1>3, <2>1 DEF FileInv, Opened
<1> QED BY <1>4, <1>5

\* what every block of a file that is read leaves as it is
LEMMA StillOpened ==
    ASSUME SearchInv, FileInv, at \in Opened, NEW b, NEW more, NEW done, read(b, more, done)
    PROVE  /\ DOMAIN mem' = Memory /\ stage' \in {"boot", "loader"}
           /\ IsEntry' /\ Divides(found)'
           /\ at' \in {more, done}
<1>1. SameFile /\ mem' = [mem EXCEPT ![buffer + offset] = Block(b, mem[buffer + offset])]
      /\ at' \in {more, done}
    BY ReadStep
<1>2. IsEntry /\ Divides(found) /\ DOMAIN mem = Memory /\ stage \in {"boot", "loader"}
    BY DEF FileInv
<1>3. stage' \in {"boot", "loader"}
    BY <1>1, <1>2 DEF SameFile
<1>4. DOMAIN mem' = Memory
    BY <1>1, <1>2
<1> QED BY <1>1, <1>2, <1>3, <1>4, SameFileSame

\* a direct block is read
LEMMA DirectRead ==
    ASSUME DisksFormatted, SearchInv, FileInv, at = "direct", inode' = inode, NEW done,
           read(inode[10 + bx], "direct", done),
           done \in {"loaded", "index"},
           done = "index" => stage = "loader",
           stage = "loader" => (done = "loaded" <=> inode[7] <= 24)
    PROVE  FileInv'
<1>1. /\ SameFile /\ buffer' = buffer /\ buffer = PLA
      /\ mem' = [mem EXCEPT ![buffer + offset] = Block(inode[10 + bx], mem[buffer + offset])]
      /\ offset' = next_offset(offset) /\ ecx' = ecx - 2 /\ bx' = bx + 1
      /\ ecx > 2 => at' = "direct"
      /\ ~(ecx > 2) => at' = done
    BY ReadStep DEF FileInv
<1>2. /\ DOMAIN mem' = Memory /\ stage' \in {"boot", "loader"} /\ IsEntry' /\ Divides(found)'
      /\ at' \in {"direct", done}
    BY StillOpened DEF Opened
<1>3. PLA' = PLA /\ Name' = Name /\ BlocksOf(found)' = BlocksOf(found) /\ (Fits' <=> Fits)
    BY <1>1, SameFileSame
<1> DEFINE n == BlocksOf(found)
           w == image.inodes[found][7]
<1>4. ASSUME Fits
      PROVE  /\ at' = "direct" => DirectInv'
             /\ at' = "index" => IndexInv'
             /\ at' = "loaded" => Read(BlocksOf(found))'
    <2>1. File(image, found, Name) /\ stage \in {"boot", "loader"} /\ DOMAIN mem = Memory
        BY EntryIsFile DEF SearchInv, FileInv, Opened
    <2>2. /\ n \in 1 .. Segment - 1 /\ w \in Nat
          /\ n <= 12 => w = 2 * n
          /\ n > 12 => w = 2 * n + 2
          /\ stage = "boot" => n <= 12
        BY <1>4, <2>1, FitsCounts
    <2>3. /\ inode = image.inodes[found] /\ bx \in 0 .. 11 /\ offset = bx
          /\ ecx = Least(w, 24) - 2 * bx /\ ecx > 0 /\ Read(bx)
        BY <1>4 DEF FileInv, DirectInv
    <2>4. \A k \in 0 .. Least(n, 12) - 1 : Holds(image, inode[10 + k], <<Name, k>>)
        BY <2>1, <2>3 DEF File, BlocksOf
    <2> HIDE DEF n, w
    <2>5. /\ bx \in 0 .. Least(n, 12) - 1 /\ next_offset(bx) = bx + 1
          /\ ecx > 2 => bx + 1 \in 0 .. 11 /\ ecx - 2 = Least(w, 24) - 2 * (bx + 1) /\ ecx - 2 > 0
          /\ ~(ecx > 2) /\ w <= 24 => bx + 1 = n
          /\ ~(ecx > 2) /\ ~(w <= 24) => n > 12 /\ bx + 1 = 12
        BY <2>2, <2>3, DirectCounts
    <2>6. mem' = [mem EXCEPT ![PLA + bx] = <<Name, bx>>]
        <3>1. Holds(image, inode[10 + bx], <<Name, bx>>)
            BY <2>4, <2>5
        <3>2. Block(inode[10 + bx], mem[buffer + offset]) = <<Name, bx>>
            BY <3>1 DEF Holds, Block
        <3> QED BY <1>1, <2>3, <3>2, Zenon
    <2>7. Reads(mem', PLA', Name', bx + 1)
        <3>1. Reads(mem, PLA, Name, bx) /\ bx \in 0 .. Segment - 1
            BY <2>3 DEF Read, Segment
        <3>2. Reads(mem', PLA, Name, bx + 1)
            BY <2>1, <2>6, <3>1, PLAs, OneMore
        <3> QED BY <1>3, <3>2, Zenon
    <2>8. inode' = image'.inodes[found']
        BY <1>1, <2>3 DEF SameFile
    <2>9. CASE ecx > 2
        <3>1. bx' \in 0 .. 11 /\ offset' = bx' /\ ecx' > 0 /\ at' = "direct"
            BY <1>1, <2>3, <2>5, <2>9, Zenon
        <3>2. ecx' = Least(inode'[7], 24) - 2 * bx'
            BY <1>1, <2>3, <2>5, <2>9, Zenon DEF w
        <3>3. Read(bx)'
            BY <1>1, <2>7, Zenon DEF Read
        <3> QED BY <2>8, <3>1, <3>2, <3>3 DEF DirectInv
    <2>10. CASE ~(ecx > 2) /\ w <= 24
        <3>1. at' = done /\ done = "loaded"
            BY <1>1, <2>1, <2>3, <2>10 DEF w
        <3>2. Read(BlocksOf(found))'
            BY <1>3, <2>5, <2>7, <2>10, Zenon DEF Read, n
        <3> QED BY <3>1, <3>2
    <2>11. CASE ~(ecx > 2) /\ ~(w <= 24)
        <3>1. n > 12 /\ bx + 1 = 12
            BY <2>5, <2>11, Zenon
        <3>2. stage = "loader" /\ ~(inode[7] <= 24)
            <4>1. stage # "boot"
                BY <2>2, <3>1
            <4> QED BY <2>1, <2>3, <2>11, <4>1 DEF w
        <3>3. at' = "index"
            BY <1>1, <2>11, <3>2
        <3>4. BlocksOf(found)' > 12
            BY <1>3, <3>1, Zenon DEF n
        <3>5. bx' = 12 /\ offset' = 12
            BY <1>1, <2>3, <2>5, <3>1, Zenon
        <3>6. Read(12)'
            BY <2>7, <3>1, Zenon DEF Read
        <3> QED BY <2>8, <3>3, <3>4, <3>5, <3>6 DEF IndexInv
    <2> QED BY <2>9, <2>10, <2>11
<1>5. at' = "index" => stage' = "loader"
    BY <1>1, <1>2 DEF SameFile
<1>6. at' \in {"direct", "loaded", "index"} /\ buffer' = PLA'
    BY <1>1, <1>2, <1>3
<1> QED BY <1>2, <1>3, <1>4, <1>5, <1>6 DEF FileInv

\* the index block is read
LEMMA IndexRead ==
    ASSUME DisksFormatted, SearchInv, FileInv, ReadIndexBlock
    PROVE  FileInv'
<1>1. /\ at = "index" /\ at' = "indirect" /\ SameFile
      /\ buffer' = buffer /\ mem' = mem /\ offset' = offset /\ bx' = 0
    BY Zenon DEF ReadIndexBlock, goto, SameFile, popped
<1>2. inode' = Words(Block(inode[10 + bx], other)) /\ ecx' = inode[7] - 24
    BY Zenon DEF ReadIndexBlock
<1>3. /\ PLA' = PLA /\ Name' = Name /\ BlocksOf(found)' = BlocksOf(found) /\ (Fits' <=> Fits)
      /\ (IsEntry' <=> IsEntry) /\ (Divides(found)' <=> Divides(found))
    BY <1>1, SameFileSame
<1>4. /\ DOMAIN mem = Memory /\ stage = "loader" /\ buffer = PLA /\ IsEntry /\ Divides(found)
    BY <1>1 DEF FileInv, Opened
<1> DEFINE n == BlocksOf(found)
           w == image.inodes[found][7]
<1>5. ASSUME Fits
      PROVE  IndirectInv'
    <2>1. File(image, found, Name)
        BY <1>4, EntryIsFile DEF SearchInv
    <2>2. n \in 1 .. Segment - 1 /\ (n > 12 => w = 2 * n + 2)
        BY <1>4, <1>5, <2>1, FitsCounts
    <2>3. /\ inode = image.inodes[found] /\ n > 12 /\ bx = 12 /\ offset = 12 /\ Read(12)
        BY <1>1, <1>5 DEF FileInv, IndexInv
    <2> DEFINE index == image.blocks[inode[22]]
    <2>4. /\ inode[22] \in DOMAIN image.blocks /\ index[1] = "index"
          /\ \A k \in 12 .. Least(n, 268) - 1 : Holds(image, index[2][k - 12], <<Name, k>>)
        BY <2>1, <2>3 DEF File, BlocksOf
    <2>5. inode' = index[2]
        <3>1. inode' = Words(Block(inode[22], other))
            <4>1. 10 + 12 = 22
                OBVIOUS
            <4> QED BY <1>2, <2>3, <4>1, Zenon
        <3>2. Block(inode[22], other) = index
            BY <2>4 DEF Block
        <3> QED BY <2>4, <3>1, <3>2 DEF Words
    <2> HIDE DEF n, w, index
    <2>6. /\ Least(n, 268) = n /\ Least(12, n) = 12
          /\ w - 24 = 2 * (n - 11 - 0) /\ 0 \in 0 .. n - 12 /\ 12 + 0 = 12
        BY <2>2, <2>3 DEF Least, Segment
    <2>7. \A k \in 12 .. n - 1 : Holds(image, inode'[k - 12], <<Name, k>>)
        BY <2>4, <2>5, <2>6
    <2>8. \A k \in 12 .. BlocksOf(found)' - 1 : Holds(image, inode[k - 12], <<Name, k>>)'
        BY <1>1, <1>3, <2>7 DEF SameFile, Holds, n
    <2>9. ecx' = 2 * (BlocksOf(found)' - 11 - bx')
        BY <1>1, <1>2, <1>3, <2>3, <2>6, Zenon DEF n, w
    <2>10. bx' \in 0 .. BlocksOf(found)' - 12 /\ offset' = 12 + bx' /\ BlocksOf(found)' > 12
        BY <1>1, <1>3, <2>3, <2>6, Zenon DEF n
    <2>11. Reads(mem', PLA', Name', Least(12 + bx', BlocksOf(found)'))
        BY <1>1, <1>3, <2>3, <2>6, Zenon DEF Read, n
    <2> QED BY <2>8, <2>9, <2>10, <2>11, Zenon DEF IndirectInv, Read
<1>6. DOMAIN mem' = Memory /\ stage' = "loader" /\ buffer' = PLA'
    BY <1>1, <1>3, <1>4 DEF SameFile
<1> QED BY <1>1, <1>3, <1>4, <1>5, <1>6 DEF FileInv

\* a block that the index block names is read, or what it names after them
LEMMA IndirectRead ==
    ASSUME DisksFormatted, SearchInv, FileInv, at = "indirect", inode' = inode,
           read(inode[bx], "indirect", "loaded")
    PROVE  FileInv'
<1>1. /\ SameFile /\ buffer' = buffer /\ buffer = PLA
      /\ mem' = [mem EXCEPT ![buffer + offset] = Block(inode[bx], mem[buffer + offset])]
      /\ offset' = next_offset(offset) /\ ecx' = ecx - 2 /\ bx' = bx + 1
      /\ ecx > 2 => at' = "indirect"
      /\ ~(ecx > 2) => at' = "loaded"
    BY ReadStep DEF FileInv
<1>2. /\ DOMAIN mem' = Memory /\ IsEntry' /\ Divides(found)' /\ at' \in {"indirect", "loaded"}
    BY StillOpened DEF Opened
<1>3. PLA' = PLA /\ Name' = Name /\ BlocksOf(found)' = BlocksOf(found) /\ (Fits' <=> Fits)
    BY <1>1, SameFileSame
<1>4. stage = "loader" /\ stage' = "loader" /\ DOMAIN mem = Memory
    BY <1>1 DEF FileInv, SameFile
<1> DEFINE n == BlocksOf(found)
<1>5. ASSUME Fits
      PROVE  /\ at' = "indirect" => IndirectInv'
             /\ at' = "loaded" => Read(BlocksOf(found))'
    <2>1. File(image, found, Name)
        BY EntryIsFile DEF SearchInv, FileInv, Opened
    <2>2. n \in 1 .. Segment - 1
        BY <1>4, <1>5, <2>1, FitsCounts
    <2>3. /\ n > 12 /\ bx \in 0 .. n - 12 /\ offset = 12 + bx /\ ecx = 2 * (n - 11 - bx)
          /\ \A k \in 12 .. n - 1 : Holds(image, inode[k - 12], <<Name, k>>)
          /\ Reads(mem, PLA, Name, Least(12 + bx, n))
        BY <1>5 DEF FileInv, IndirectInv, Read
    <2> HIDE DEF n
    <2>4. n \in 13 .. Segment - 1
        BY <2>2, <2>3 DEF Segment
    <2>5. /\ bx # n - 12 => /\ ecx > 2 /\ 12 + bx \in 12 .. n - 1 /\ Least(12 + bx, n) = 12 + bx
                            /\ next_offset(12 + bx) = 12 + (bx + 1) /\ bx + 1 \in 0 .. n - 12
                            /\ Least(12 + (bx + 1), n) = 12 + bx + 1
                            /\ ecx - 2 = 2 * (n - 11 - (bx + 1))
          /\ bx = n - 12 => ~(ecx > 2) /\ 12 + bx = n /\ Least(12 + bx, n) = n
        BY <2>3, <2>4, IndirectCounts
    <2>6. CASE bx # n - 12
        <3>1. mem' = [mem EXCEPT ![PLA + (12 + bx)] = <<Name, 12 + bx>>]
            <4>1. Holds(image, inode[12 + bx - 12], <<Name, 12 + bx>>)
                BY <2>3, <2>5, <2>6
            <4>2. 12 + bx - 12 = bx
                BY <2>3
            <4>3. Holds(image, inode[bx], <<Name, 12 + bx>>)
                BY <4>1, <4>2
            <4>4. Block(inode[bx], mem[buffer + offset]) = <<Name, 12 + bx>>
                BY <4>3 DEF Holds, Block
            <4> QED BY <1>1, <2>3, <4>4, Zenon
        <3>2. Reads(mem', PLA', Name', 12 + bx + 1)
            <4>1. Reads(mem, PLA, Name, 12 + bx) /\ 12 + bx \in 0 .. Segment - 1
                <5>1. 12 + bx \in 0 .. Segment - 1
                    BY <2>4, <2>5, <2>6 DEF Segment
                <5> QED BY <2>3, <2>5, <2>6, <5>1, Zenon
            <4>2. Reads(mem', PLA, Name, 12 + bx + 1)
                BY <1>4, <3>1, <4>1, PLAs, OneMore
            <4> QED BY <1>3, <4>2, Zenon
        <3>3. at' = "indirect"
            BY <1>1, <2>5, <2>6, Zenon
        <3>4. \A k \in 12 .. BlocksOf(found)' - 1 : Holds(image, inode[k - 12], <<Name, k>>)'
            BY <1>1, <1>3, <2>3 DEF SameFile, Holds, n
        <3>5. ecx' = 2 * (BlocksOf(found)' - 11 - bx')
            BY <1>1, <1>3, <2>5, <2>6, Zenon DEF n
        <3>6. bx' \in 0 .. BlocksOf(found)' - 12 /\ offset' = 12 + bx' /\ BlocksOf(found)' > 12
            BY <1>1, <1>3, <2>3, <2>5, <2>6, Zenon DEF n
        <3>7. Reads(mem', PLA', Name', Least(12 + bx', BlocksOf(found)'))
            BY <1>1, <1>3, <2>5, <2>6, <3>2, Zenon DEF n
        <3>8. IndirectInv'
            BY <3>4, <3>5, <3>6, <3>7, Zenon DEF IndirectInv, Read
        <3> QED BY <3>3, <3>8
    <2>7. CASE bx = n - 12
        <3>1. mem' = [mem EXCEPT ![PLA + n] = Block(inode[bx], mem[buffer + offset])]
            BY <1>1, <2>3, <2>5, <2>7, Zenon
        <3>2. Reads(mem, PLA, Name, n) /\ n \in 0 .. Segment - 1
            <4>1. n \in 0 .. Segment - 1
                BY <2>4 DEF Segment
            <4> QED BY <2>3, <2>5, <2>7, <4>1, Zenon
        <3>3. Reads(mem', PLA, Name, n)
            BY <1>4, <3>1, <3>2, PLAs, OneBeyond
        <3>4. Read(BlocksOf(found))'
            BY <1>3, <3>3, Zenon DEF Read, n
        <3>5. at' = "loaded"
            BY <1>1, <2>5, <2>7, Zenon
        <3> QED BY <3>4, <3>5
    <2> QED BY <2>6, <2>7
<1>6. buffer' = PLA'
    BY <1>1, <1>3
<1> QED BY <1>2, <1>3, <1>4, <1>5, <1>6 DEF FileInv

\* the program is not with a file
LEMMA ClosedSteps ==
    ASSUME FileInv,
           boot \/ root_loader \/ root_search \/ jmp_loader \/ MemCheckLoop \/ MemCheckCompleted
           \/ RootLoad \/ SearchKernel \/ NoKernel
    PROVE  mem' = mem /\ stage' \in {"boot", "loader"} /\ at' \notin Opened
<1>1. stage \in {"boot", "loader"}
    BY DEF FileInv
<1>2. CASE boot \/ MemCheckCompleted
    BY <1>1, <1>2 DEF boot, MemCheckCompleted, open_root, GetInode, goto, Opened
<1>3. CASE root_loader \/ RootLoad
    BY <1>1, <1>3, Zenon DEF root_loader, RootLoad, next_block, goto, Opened
<1>4. CASE root_search \/ SearchKernel
    BY <1>1, <1>4 DEF root_search, SearchKernel, search, goto, Opened
<1>5. CASE jmp_loader
    BY <1>5 DEF jmp_loader, diskVars, Opened
<1>6. CASE MemCheckLoop
    BY <1>1, <1>6 DEF MemCheckLoop, diskVars, Opened
<1>7. CASE NoKernel
    BY <1>7 DEF NoKernel, Protected, diskVars, Opened
<1> QED BY <1>2, <1>3, <1>4, <1>5, <1>6, <1>7

\* r is memory after a copy from s to d, which may overlap if it goes downwards
CopyOf(r, d, s, z) ==
    /\ \A a \in Memory : a \notin d .. d + z - 1 => r[a] = mem[a]
    /\ \A k \in 0 .. z - 1 : r[d + k] = mem[s + k]

CanCopy(d, s, z) ==
    d .. d + z - 1 \subseteq Memory /\ (d <= s \/ (d .. d + z - 1) \cap (s .. s + z - 1) = {})

LEMMA Copied ==
    ASSUME NEW d \in Nat, NEW s \in Nat, NEW z \in Nat, CanCopy(d, s, z)
    PROVE  CopyOf(MemCpy(d, s, z), d, s, z)
<1>1. \A a \in Memory : a \notin d .. d + z - 1 => MemCpy(d, s, z)[a] = mem[a]
    BY DEF MemCpy
<1>2. ASSUME NEW k \in 0 .. z - 1
      PROVE  MemCpy(d, s, z)[d + k] = mem[s + k]
    <2>1. d + k \in Memory /\ d + k \in d .. d + z - 1 /\ d + k - d = k
        BY DEF CanCopy
    <2>2. MemCpy(d, s, z)[d + k] = mem[s + (IF d - s > 0 THEN k % (d - s) ELSE k)]
        BY <2>1 DEF MemCpy
    <2>3. d - s > 0 => k < d - s
        <3> SUFFICES ASSUME d - s > 0, k >= d - s PROVE FALSE
            OBVIOUS
        <3>1. d \in d .. d + z - 1 /\ d \in s .. s + z - 1
            OBVIOUS
        <3> QED BY <3>1 DEF CanCopy
    <2>4. d - s > 0 => k % (d - s) = k
        <3> SUFFICES ASSUME d - s > 0 PROVE k % (d - s) = k
            OBVIOUS
        <3>1. k \in Nat /\ d - s \in Nat /\ k < d - s
            BY <2>3
        <3> QED BY <3>1
    <2> QED BY <2>2, <2>4
<1> QED BY <1>1, <1>2 DEF CopyOf

\* a segment is copied, or a header passed over
LEMMA SegmentStep ==
    ASSUME InitKernel
    PROVE  /\ at = "segments" /\ stage = "loader" /\ SameFile /\ header' = header + 1
           /\ header + 1 = Len(image.headers) => at' = "entered"
           /\ header + 1 # Len(image.headers) => at' = "segments"
           /\ LET h == image.headers[header + 1] IN
              mem' = IF h.type # 0 THEN MemCpy(h.vaddr, Kernel_PLA + h.offset, h.size) ELSE mem
BY DEF InitKernel, Protected, SameFile, Loadable

LEMMA FileInvInit == ASSUME Init PROVE FileInv
BY DEF Init, FileInv, Opened

LEMMA FileInvStep ==
    ASSUME DisksFormatted, SearchInv, FileInv, [Next]_vars
    PROVE  FileInv'
<1>1. CASE boot \/ root_loader \/ root_search \/ jmp_loader \/ MemCheckLoop \/ MemCheckCompleted
           \/ RootLoad \/ SearchKernel \/ NoKernel
    <2>1. mem' = mem /\ stage' \in {"boot", "loader"} /\ at' \notin Opened
        BY <1>1, ClosedSteps
    <2> QED BY <2>1 DEF FileInv, Opened
<1>2. CASE loader_found \/ KernelLoad
    BY <1>2, FileOpened DEF loader_found, KernelLoad, PLA
<1>3. CASE block_loader
    BY <1>3, DirectRead DEF block_loader
<1>4. CASE ReadDirectBlock
    <2> DEFINE done == IF inode[7] <= 24 THEN "loaded" ELSE "index"
    <2>1. at = "direct" /\ stage = "loader" /\ read(inode[10 + bx], "direct", done) /\ inode' = inode
        BY <1>4 DEF ReadDirectBlock
    <2>2. done \in {"loaded", "index"} /\ (done = "loaded" <=> inode[7] <= 24)
        OBVIOUS
    <2> HIDE DEF done
    <2> QED BY <2>1, <2>2, DirectRead
<1>5. CASE ReadIndexBlock
    BY <1>5, IndexRead
<1>6. CASE ReadFirstBlock
    BY <1>6, IndirectRead DEF ReadFirstBlock
<1>7. CASE DispMemInfo \/ SetupPaging
    <2>1. /\ SameFile /\ stage = "loader" /\ mem' = mem /\ buffer' = buffer
          /\ \/ at = "loaded" /\ at' \in {"loaded", "paging"}
             \/ at = "paging" /\ at' = "segments"
        BY <1>7 DEF DispMemInfo, SetupPaging, Protected, SameFile, diskVars
    <2>2. PLA' = PLA /\ (Fits' <=> Fits) /\ (IsEntry' <=> IsEntry) /\ (Divides(found)' <=> Divides(found))
          /\ Name' = Name /\ BlocksOf(found)' = BlocksOf(found)
        BY <2>1, SameFileSame
    <2>3. Read(BlocksOf(found))' <=> Read(BlocksOf(found))
        BY <2>1, <2>2 DEF Read
    <2> QED BY <2>1, <2>2, <2>3 DEF FileInv, SameFile, Opened
<1>8. CASE InitKernel
    <2>1. at = "segments" /\ at' \in {"segments", "entered"} /\ stage = "loader" /\ SameFile
        BY <1>8, SegmentStep
    <2>2. DOMAIN mem' = Memory
        BY <1>8, SegmentStep DEF MemCpy, FileInv
    <2>3. IsEntry' /\ Divides(found)'
        BY <2>1, SameFileSame DEF FileInv, Opened
    <2> QED BY <2>1, <2>2, <2>3 DEF FileInv, SameFile
<1>9. CASE UNCHANGED vars
    <2>1. /\ SameFile /\ at' = at /\ mem' = mem /\ buffer' = buffer /\ inode' = inode /\ bx' = bx
          /\ offset' = offset /\ ecx' = ecx
        BY <1>9 DEF vars, diskVars, SameFile
    <2>2. PLA' = PLA /\ (Fits' <=> Fits) /\ (IsEntry' <=> IsEntry) /\ (Divides(found)' <=> Divides(found))
          /\ Name' = Name /\ BlocksOf(found)' = BlocksOf(found) /\ stage' = stage
        BY <2>1, SameFileSame DEF SameFile
    <2>3. Read(BlocksOf(found))' <=> Read(BlocksOf(found))
        BY <2>1, <2>2 DEF Read
    <2>4. DirectInv' <=> DirectInv
        BY <2>1, <2>2, Zenon DEF SameFile, DirectInv, Read
    <2>5. IndexInv' <=> IndexInv
        BY <2>1, <2>2, Zenon DEF SameFile, IndexInv, Read
    <2>6. IndirectInv' <=> IndirectInv
        <3>1. image' = image
            BY <2>1 DEF SameFile
        <3> QED BY <2>1, <2>2, <3>1, Zenon DEF IndirectInv, Read, Holds
    <2> QED BY <2>1, <2>2, <2>3, <2>4, <2>5, <2>6, Zenon DEF FileInv
<1> QED BY <1>1, <1>2, <1>3, <1>4, <1>5, <1>6, <1>7, <1>8, <1>9 DEF Next

LEMMA FileInvLoads ==
    ASSUME DisksFormatted, SearchInv, FileInv
    PROVE  LoadedIsFile
<1> SUFFICES ASSUME at = "loaded", BlocksOf(found) <= IF stage = "boot" THEN 12 ELSE Segment - 1,
                    NEW k \in 0 .. BlocksOf(found) - 1
             PROVE  mem[buffer + k] = <<Name, k>>
    BY DEF LoadedIsFile
<1>1. File(image, found, Name)
    BY EntryIsFile DEF SearchInv, FileInv, Opened
<1>2. BlocksOf(found) \in Nat
    BY <1>1 DEF File, BlocksOf
<1>3. Fits
    BY <1>2 DEF Fits
<1>4. buffer = PLA /\ Read(BlocksOf(found))
    BY <1>3 DEF FileInv
<1> QED BY <1>4 DEF Read, Reads

(***************************************************************************)
(* LoadedIsFile, for every disk and files of every size that it is about:  *)
(* LoadFile of loader.asm has the whole file in its order when it ends,    *)
(* wherever the blocks of the file are on the disk and whatever the index  *)
(* block names behind them.                                                *)
(***************************************************************************)
THEOREM FilesAreLoaded == ASSUME DisksFormatted PROVE Spec => []LoadedIsFile
<1>1. Init => SearchInv /\ FileInv
    BY SearchInvInit, FileInvInit
<1>2. SearchInv /\ FileInv /\ [Next]_vars => (SearchInv /\ FileInv)'
    BY SearchInvStep, FileInvStep
<1>3. SearchInv /\ FileInv => LoadedIsFile
    BY FileInvLoads
<1> QED BY <1>1, <1>2, <1>3, PTL DEF Spec

-----------------------------------------------------------------------------
(* The segments of the kernel                                              *)

\* what Linked says of the file that was found
LEMMA LinkedFile ==
    ASSUME DisksFormatted, KernelsLinked, image \in Images, stage = "loader", IsEntry, Divides(found)
    PROVE  /\ image.headers \in Seq([type : Nat, offset : Nat, vaddr : Nat, size : Nat])
           /\ image.headers # <<>>
           /\ BlocksOf(found) \in Nat
           /\ \A i \in DOMAIN image.headers : LET h == image.headers[i] IN h.type # 0 =>
                 /\ Destination(h) \subseteq Memory
                 /\ h.vaddr <= Kernel_PLA + h.offset \/ Destination(h) \cap Source(h) = {}
                 /\ h.offset + h.size <= BlocksOf(found)
                 /\ \A j \in DOMAIN image.headers : i < j /\ image.headers[j].type # 0 =>
                       Destination(h) \cap (Destination(image.headers[j]) \cup Source(image.headers[j])) = {}
<1>1. Linked(image)
    BY DEF KernelsLinked
<1>2. BlocksOf(found) \in Nat
    BY EntryIsFile DEF File, BlocksOf
<1>3. Name = "kernel.bin"
    BY DEF Name
<1>4. PICK k \in RootOn(image) : \E n \in DOMAIN RootBlock(image, k)[2] :
          LET e == RootBlock(image, k)[2][n] IN e.name = Name /\ e.inode = found
    BY DEF IsEntry
<1>5. PICK n \in DOMAIN RootBlock(image, k)[2] :
          RootBlock(image, k)[2][n].name = Name /\ RootBlock(image, k)[2][n].inode = found
    BY <1>4
<1>6. ASSUME NEW i \in DOMAIN image.headers, image.headers[i].type # 0
      PROVE  image.headers[i].offset + image.headers[i].size <= BlocksOf(found)
    BY <1>1, <1>3, <1>4, <1>5, <1>6 DEF Linked, BlocksOf
<1> QED BY <1>1, <1>2, <1>6 DEF Linked

\* a header of the list, in numbers
LEMMA HeaderTypes ==
    ASSUME NEW hs \in Seq([type : Nat, offset : Nat, vaddr : Nat, size : Nat]), NEW i \in DOMAIN hs
    PROVE  /\ hs[i] \in [type : Nat, offset : Nat, vaddr : Nat, size : Nat]
           /\ hs[i].offset \in Nat /\ hs[i].vaddr \in Nat /\ hs[i].size \in Nat
<1>1. i \in 1 .. Len(hs)
    OBVIOUS
<1>2. hs[i] \in [type : Nat, offset : Nat, vaddr : Nat, size : Nat]
    BY <1>1, ElementType
<1> QED BY <1>2

\* a block of a segment, in the file and in memory
LEMMA InFile ==
    ASSUME NEW o \in Nat, NEW z \in Nat, NEW n \in Nat, o + z <= n, NEW k \in 0 .. z - 1
    PROVE  o + k \in 0 .. n - 1 /\ Kernel_PLA + (o + k) = Kernel_PLA + o + k
BY DEF Kernel_PLA

LEMMA SegmentInvInit == ASSUME Init PROVE SegmentInv
BY DEF Init, SegmentInv

\* the segments are still in the file when the first is copied
LEMMA FirstSegment ==
    ASSUME DisksFormatted, KernelsLinked, SearchInv, FileInv, SegmentInv, SetupPaging
    PROVE  SegmentInv'
<1>1. /\ SameFile /\ mem' = mem /\ header' = header /\ stage = "loader"
      /\ at = "paging" /\ at' = "segments"
    BY DEF SetupPaging, Protected, SameFile, diskVars
<1>2. header = 0
    BY <1>1 DEF SegmentInv
<1>3. /\ image.headers \in Seq([type : Nat, offset : Nat, vaddr : Nat, size : Nat])
      /\ image.headers # <<>> /\ image' = image
      /\ \A i \in DOMAIN image.headers : image.headers[i].type # 0 =>
            image.headers[i].offset + image.headers[i].size <= BlocksOf(found)
      /\ BlocksOf(found) \in Nat
    BY <1>1, LinkedFile DEF SearchInv, FileInv, Opened, SameFile
<1>4. header' < Len(image'.headers)
    BY <1>1, <1>2, <1>3
<1>5. Name' = Name /\ (Fits' <=> Fits)
    BY <1>1, SameFileSame
<1>6. ASSUME Fits, NEW i \in DOMAIN image.headers, image.headers[i].type # 0
      PROVE  i > 0 /\ Intact(image.headers[i])'
    <2> DEFINE h == image.headers[i]
    <2>1. Reads(mem, Kernel_PLA, Name, BlocksOf(found))
        BY <1>1, <1>6 DEF FileInv, Read, PLA
    <2>2. h.offset \in Nat /\ h.size \in Nat
        BY <1>3, HeaderTypes
    <2>3. h.offset + h.size <= BlocksOf(found)
        BY <1>3, <1>6
    <2>4. BlocksOf(found) \in Nat
        BY <1>3
    <2> HIDE DEF h
    <2>5. \A k \in 0 .. h.size - 1 : mem[Kernel_PLA + h.offset + k] = <<Name, h.offset + k>>
        <3> TAKE k \in 0 .. h.size - 1
        <3>1. h.offset + k \in 0 .. BlocksOf(found) - 1
              /\ Kernel_PLA + (h.offset + k) = Kernel_PLA + h.offset + k
            BY <2>2, <2>3, <2>4, InFile
        <3>3. mem[Kernel_PLA + (h.offset + k)] = <<Name, h.offset + k>>
            BY <2>1, <3>1 DEF Reads
        <3> QED BY <3>1, <3>3
    <2>6. i > 0
        BY <1>3
    <2> QED BY <1>1, <1>3, <1>5, <2>5, <2>6 DEF Intact, h
<1>7. Fits' => \A i \in DOMAIN image'.headers : image'.headers[i].type # 0 =>
          /\ i <= header' => Placed(image.headers[i])'
          /\ i > header' => Intact(image.headers[i])'
    <2> SUFFICES ASSUME Fits, NEW i \in DOMAIN image.headers, image.headers[i].type # 0
                 PROVE  ~(i <= header') /\ Intact(image.headers[i])'
        BY <1>3, <1>5
    <2>1. i \in Nat /\ i > 0 /\ header' = 0
        BY <1>1, <1>2, <1>3, <1>6
    <2> QED BY <1>6, <2>1
<1> QED BY <1>1, <1>2, <1>4, <1>7 DEF SegmentInv

LEMMA SegmentCopied ==
    ASSUME NEW h, h.vaddr \in Nat, h.size \in Nat, Kernel_PLA + h.offset \in Nat,
           Destination(h) \subseteq Memory,
           h.vaddr <= Kernel_PLA + h.offset \/ Destination(h) \cap Source(h) = {}
    PROVE  LET r == MemCpy(h.vaddr, Kernel_PLA + h.offset, h.size) IN
           /\ \A a \in Memory : a \notin Destination(h) => r[a] = mem[a]
           /\ \A k \in 0 .. h.size - 1 : r[h.vaddr + k] = mem[Kernel_PLA + h.offset + k]
<1> DEFINE d == h.vaddr
           s == Kernel_PLA + h.offset
           z == h.size
<1>1. d \in Nat /\ s \in Nat /\ z \in Nat
    OBVIOUS
<1>2. CanCopy(d, s, z)
    BY DEF Destination, Source, CanCopy
<1> HIDE DEF d, s, z
<1>3. CopyOf(MemCpy(d, s, z), d, s, z)
    BY <1>1, <1>2, Copied
<1> QED BY <1>3, Zenon DEF CopyOf, d, s, z, Destination

\* a copy to d does not disturb what is at p
LEMMA Undisturbed ==
    ASSUME NEW m, NEW r, NEW d \in Nat, NEW z \in Nat, NEW p \in Nat, NEW y \in Nat,
           \A a \in Memory : a \notin d .. d + z - 1 => r[a] = m[a],
           p .. p + y - 1 \subseteq Memory,
           (p .. p + y - 1) \cap (d .. d + z - 1) = {}
    PROVE  \A k \in 0 .. y - 1 : r[p + k] = m[p + k]
<1> TAKE k \in 0 .. y - 1
<1>1. p + k \in p .. p + y - 1
    OBVIOUS
<1> QED BY <1>1

\* a segment of a file that fits
LEMMA InSegment ==
    ASSUME NEW o \in Nat, NEW z \in Nat, NEW n \in Nat, o + z <= n, n <= Segment - 1
    PROVE  /\ Kernel_PLA + o \in Nat
           /\ Kernel_PLA + o .. Kernel_PLA + o + z - 1 \subseteq Memory
BY DEF Kernel_PLA, Segment, Memory

LEMMA SegmentFits ==
    ASSUME NEW o \in Nat, NEW z \in Nat, NEW n \in Nat, o + z <= n, n < Segment, NEW k \in 0 .. z - 1
    PROVE  n > 0 /\ n <= Segment - 1
BY DEF Segment

\* a segment is copied: those before it stay in place, it is in place then, and
\* those after it are still whole in the file
LEMMA NextSegment ==
    ASSUME DisksFormatted, KernelsLinked, SearchInv, FileInv, SegmentInv, InitKernel
    PROVE  SegmentInv'
<1> DEFINE hs == image.headers
           n  == Len(hs)
<1>1. /\ at = "segments" /\ stage = "loader" /\ SameFile /\ header' = header + 1
      /\ header + 1 = n => at' = "entered"
      /\ header + 1 # n => at' = "segments"
    BY SegmentStep
<1>2. image' = image /\ Name' = Name /\ (Fits' <=> Fits)
    BY <1>1, SameFileSame DEF SameFile
<1>3. header \in Nat /\ header < n
    BY <1>1 DEF SegmentInv
<1>4. /\ hs \in Seq([type : Nat, offset : Nat, vaddr : Nat, size : Nat])
      /\ BlocksOf(found) \in Nat
      /\ \A i \in DOMAIN hs : hs[i].type # 0 =>
            /\ Destination(hs[i]) \subseteq Memory
            /\ hs[i].vaddr <= Kernel_PLA + hs[i].offset \/ Destination(hs[i]) \cap Source(hs[i]) = {}
            /\ hs[i].offset + hs[i].size <= BlocksOf(found)
            /\ \A j \in DOMAIN hs : i < j /\ hs[j].type # 0 =>
                  Destination(hs[i]) \cap (Destination(hs[j]) \cup Source(hs[j])) = {}
    BY <1>1, LinkedFile DEF SearchInv, FileInv, Opened
<1>5. DOMAIN hs = 1 .. n /\ n \in Nat
    BY <1>4
<1>6. header + 1 \in DOMAIN hs
    <2> HIDE DEF n, hs
    <2> QED BY <1>3, <1>5
<1> DEFINE c == hs[header + 1]
<1>7. c.offset \in Nat /\ c.vaddr \in Nat /\ c.size \in Nat
    BY <1>4, <1>6, HeaderTypes
<1>8. mem' = IF c.type # 0 THEN MemCpy(c.vaddr, Kernel_PLA + c.offset, c.size) ELSE mem
    BY SegmentStep
<1> HIDE DEF n
<1>9. header' \in Nat /\ (at' = "segments" => header' < n) /\ (at' = "entered" => header' = n)
      /\ at' \in {"segments", "entered"}
    BY <1>1, <1>3, <1>5
<1>10. ASSUME Fits, NEW i \in DOMAIN hs, hs[i].type # 0
       PROVE  /\ i <= header + 1 => \A k \in 0 .. hs[i].size - 1 :
                    mem'[hs[i].vaddr + k] = <<Name, hs[i].offset + k>>
              /\ i > header + 1 => \A k \in 0 .. hs[i].size - 1 :
                    mem'[Kernel_PLA + hs[i].offset + k] = <<Name, hs[i].offset + k>>
    <2> DEFINE h == hs[i]
    <2>1. h.offset \in Nat /\ h.vaddr \in Nat /\ h.size \in Nat /\ i \in Nat
        <3>1. hs \in Seq([type : Nat, offset : Nat, vaddr : Nat, size : Nat])
            BY <1>4, Zenon
        <3>2. h.offset \in Nat /\ h.vaddr \in Nat /\ h.size \in Nat
            BY <3>1, HeaderTypes
        <3> HIDE DEF h, hs
        <3>3. i \in Nat
            BY <1>5
        <3> QED BY <3>2, <3>3
    <2>2. (i <= header => Placed(h)) /\ (i > header => Intact(h))
        BY <1>1, <1>10 DEF SegmentInv
    <2>3. h.offset + h.size <= BlocksOf(found) /\ Destination(h) \subseteq Memory
        BY <1>4, <1>10
    <2>4. BlocksOf(found) <= Segment - 1
        BY <1>1, <1>10 DEF Fits
    <2>5. Kernel_PLA + h.offset \in Nat /\ Source(h) \subseteq Memory
        <3>1. BlocksOf(found) \in Nat
            BY <1>4
        <3> HIDE DEF h
        <3> QED BY <2>1, <2>3, <2>4, <3>1, InSegment DEF Source
    <2>6. CASE c.type = 0
        <3>1. mem' = mem /\ i # header + 1
            BY <1>8, <1>10, <2>6
        <3>2. (i <= header + 1 => i <= header) /\ (i > header + 1 => i > header)
            BY <1>3, <2>1, <3>1
        <3> QED BY <2>2, <3>1, <3>2 DEF Placed, Intact
    <2>7. CASE c.type # 0
        <3> DEFINE r == MemCpy(c.vaddr, Kernel_PLA + c.offset, c.size)
        <3>1. mem' = r
            BY <1>8, <2>7
        <3>2. Destination(c) \subseteq Memory
            BY <1>4, <1>6, <2>7
        <3>3. c.vaddr <= Kernel_PLA + c.offset \/ Destination(c) \cap Source(c) = {}
            BY <1>4, <1>6, <2>7
        <3>4. Kernel_PLA + c.offset \in Nat
            BY <1>7 DEF Kernel_PLA
        <3> HIDE DEF c
        <3>5. /\ \A a \in Memory : a \notin Destination(c) => r[a] = mem[a]
              /\ \A k \in 0 .. c.size - 1 : r[c.vaddr + k] = mem[Kernel_PLA + c.offset + k]
            BY <1>7, <3>2, <3>3, <3>4, SegmentCopied
        <3> HIDE DEF r
        <3>6. CASE i = header + 1
            <4>1. h = c /\ i > header /\ ~(i > header + 1)
                BY <1>3, <3>6 DEF c
            <4> QED BY <2>2, <3>1, <3>5, <4>1 DEF Intact
        <3>7. CASE i < header + 1
            <4>1. i <= header /\ ~(i > header + 1)
                BY <1>3, <2>1, <3>7
            <4>2. Destination(h) \cap Destination(c) = {}
                BY <1>4, <1>6, <1>10, <2>7, <3>7 DEF c
            <4> HIDE DEF h, hs
            <4>3. \A k \in 0 .. h.size - 1 : r[h.vaddr + k] = mem[h.vaddr + k]
                BY <1>7, <2>1, <2>3, <3>5, <4>2, Undisturbed DEF Destination
            <4>4. \A k \in 0 .. h.size - 1 : mem'[h.vaddr + k] = <<Name, h.offset + k>>
                BY <2>2, <3>1, <4>1, <4>3 DEF Placed
            <4> QED BY <4>1, <4>4 DEF h
        <3>8. CASE i > header + 1
            <4>1. i > header /\ ~(i <= header + 1)
                BY <1>3, <2>1, <3>8
            <4>2. Source(h) \cap Destination(c) = {}
                BY <1>4, <1>6, <1>10, <2>7, <3>8 DEF c
            <4> HIDE DEF h, hs
            <4>3. \A k \in 0 .. h.size - 1 : r[Kernel_PLA + h.offset + k] = mem[Kernel_PLA + h.offset + k]
                BY <1>7, <2>1, <2>5, <3>5, <4>2, Undisturbed DEF Destination, Source
            <4>4. \A k \in 0 .. h.size - 1 : mem'[Kernel_PLA + h.offset + k] = <<Name, h.offset + k>>
                BY <2>2, <3>1, <4>1, <4>3 DEF Intact
            <4> QED BY <4>1, <4>4 DEF h
        <3>9. i = header + 1 \/ i < header + 1 \/ i > header + 1
            BY <1>3, <2>1
        <3> QED BY <3>6, <3>7, <3>8, <3>9
    <2> QED BY <2>6, <2>7
<1>11. Fits' => \A i \in DOMAIN image'.headers : image'.headers[i].type # 0 =>
          /\ i <= header' => Placed(image.headers[i])'
          /\ i > header' => Intact(image.headers[i])'
    <2> SUFFICES ASSUME Fits, NEW i \in DOMAIN hs, hs[i].type # 0
                 PROVE  /\ i <= header + 1 => Placed(image.headers[i])'
                        /\ i > header + 1 => Intact(image.headers[i])'
        BY <1>1, <1>2
    <2> QED BY <1>2, <1>10 DEF Placed, Intact
<1> QED BY <1>2, <1>9, <1>11 DEF SegmentInv, n

LEMMA SegmentInvStep ==
    ASSUME DisksFormatted, KernelsLinked, SearchInv, FileInv, SegmentInv, [Next]_vars
    PROVE  SegmentInv'
<1>1. CASE SetupPaging
    BY <1>1, FirstSegment
<1>2. CASE InitKernel
    BY <1>2, NextSegment
<1>3. CASE UNCHANGED vars
    <2>1. SameFile /\ at' = at /\ mem' = mem /\ header' = header /\ image' = image
        BY <1>3 DEF vars, diskVars, pmVars, SameFile
    <2>2. Name' = Name /\ (Fits' <=> Fits)
        BY <2>1, SameFileSame
    <2> QED BY <2>1, <2>2 DEF SegmentInv, Placed, Intact
<1>4. CASE NoKernel
    BY <1>4 DEF NoKernel, Protected, pmVars, SegmentInv
<1>5. CASE /\ header' = header
           /\ at \notin {"segments", "entered", "unknown"}
           /\ at' \notin {"segments", "entered"}
    BY <1>5 DEF SegmentInv
<1>6. ASSUME boot \/ root_loader \/ root_search \/ loader_found \/ block_loader \/ jmp_loader
             \/ MemCheckLoop \/ MemCheckCompleted \/ RootLoad \/ SearchKernel \/ KernelLoad
             \/ ReadDirectBlock \/ ReadIndexBlock \/ ReadFirstBlock \/ DispMemInfo
      PROVE  /\ header' = header
             /\ at \notin {"segments", "entered", "unknown"}
             /\ at' \notin {"segments", "entered"}
    <2>1. CASE jmp_loader \/ MemCheckLoop \/ DispMemInfo
        BY <2>1 DEF jmp_loader, MemCheckLoop, DispMemInfo, Protected, pmVars
    <2>2. CASE DiskStep
        BY <2>2 DEF DiskStep, OnDisk, pmVars
    <2> QED BY <1>6, <2>1, <2>2, DiskSteps
<1> QED BY <1>1, <1>2, <1>3, <1>4, <1>5, <1>6 DEF Next

LEMMA SegmentInvPlaces ==
    ASSUME DisksFormatted, KernelsLinked, SearchInv, FileInv, SegmentInv
    PROVE  BlocksOf(found) < Segment => SegmentsInPlace
<1> SUFFICES ASSUME BlocksOf(found) < Segment, at = "entered",
                    NEW i \in DOMAIN image.headers, image.headers[i].type # 0,
                    NEW k \in 0 .. image.headers[i].size - 1
             PROVE  mem[image.headers[i].vaddr + k] = <<Name, image.headers[i].offset + k>>
    BY DEF SegmentsInPlace
<1>1. stage = "loader" /\ header = Len(image.headers)
    BY DEF FileInv, SegmentInv
<1>2. /\ image.headers \in Seq([type : Nat, offset : Nat, vaddr : Nat, size : Nat])
      /\ BlocksOf(found) \in Nat
      /\ image.headers[i].offset + image.headers[i].size <= BlocksOf(found)
    BY <1>1, LinkedFile DEF SearchInv, FileInv, Opened
<1>3. image.headers[i].offset \in Nat /\ image.headers[i].size \in Nat
    BY <1>2, HeaderTypes
<1>4. BlocksOf(found) > 0 /\ BlocksOf(found) <= Segment - 1
    BY <1>2, <1>3, SegmentFits
<1>5. Fits
    BY <1>1, <1>4 DEF Fits
<1>6. i <= header
    BY <1>1, <1>2
<1> QED BY <1>5, <1>6 DEF SegmentInv, Placed

(***************************************************************************)
(* SegmentsInPlace, for every kernel of at most 63 blocks and every list   *)
(* of program headers whose segments can be copied one after the other:    *)
(* InitKernel of loader.asm enters the kernel with each of them in place,  *)
(* also when a segment is copied over the file itself.                     *)
(***************************************************************************)
THEOREM SegmentsAreInPlace ==
    ASSUME DisksFormatted, KernelsLinked
    PROVE  Spec => [](BlocksOf(found) < Segment => SegmentsInPlace)
<1> DEFINE Inv == SearchInv /\ FileInv /\ SegmentInv
<1>1. Init => Inv
    BY SearchInvInit, FileInvInit, SegmentInvInit
<1>2. Inv /\ [Next]_vars => Inv'
    BY SearchInvStep, FileInvStep, SegmentInvStep
<1>3. Inv => (BlocksOf(found) < Segment => SegmentsInPlace)
    BY SegmentInvPlaces
<1> QED BY <1>1, <1>2, <1>3, PTL DEF Spec
=============================================================================
