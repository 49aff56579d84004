-------------------------------- MODULE MCBoot --------------------------------
(***************************************************************************)
(* Disks and machines for TLC, around one that boots: one thing of it is   *)
(* changed at a time, two for the sizes.                                   *)
(***************************************************************************)
EXTENDS Boot, FiniteSets

\* an inode of n blocks from b on, with its index block before them
Inode(b, n) == [w \in 0 .. 24 |->
    CASE w = 1  -> n * 1024
      [] w = 7  -> 2 * n + (IF n > 12 THEN 2 ELSE 0)
      [] w \in 10 .. 21 /\ w - 10 < n -> b + w - 10
      [] w = 22 /\ n > 12 -> b - 1
      [] w \in 2 .. 4 -> 1600000            \* times
      [] OTHER -> 0]

Index(b, n) == [w \in 0 .. 255 |-> IF w < n - 12 THEN b + 12 + w ELSE 0]

Entry(name, i) == [name |-> name, inode |-> i]

\* root: its blocks; l, k: the sizes of the files; ki: the inode of the kernel
Image(root, l, k, ki, ranges, headers) ==
    [inodes |-> [n \in {2, 12, ki} |->
        CASE n = 2 -> Inode(100, Len(root)) [] n = 12 -> Inode(200, l) [] n = ki -> Inode(300, k)],
     blocks |-> [b \in (100 .. 99 + Len(root)) \cup (199 .. 199 + l) \cup (299 .. 299 + k) |->
        CASE b < 199 -> <<"directory", root[b - 99]>>
          [] b = 199 -> <<"index", Index(200, l)>>
          [] b \in 200 .. 298 -> <<"loader.bin", b - 200>>
          [] b = 299 -> <<"index", Index(300, k)>>
          [] b > 299 -> <<"kernel.bin", b - 300>>],
     blocks_count |-> 60000, ranges |-> ranges, headers |-> headers]

Ram(b, n)      == [base |-> b, length |-> n, type |-> 1]
Reserved(b, n) == [base |-> b, length |-> n, type |-> 2]
Header(t, o, v, n) == [type |-> t, offset |-> o, vaddr |-> v, size |-> n]

Dots == <<Entry(".", 2), Entry("..", 2), Entry("lost+found", 11)>>
L    == Entry("loader.bin", 12)
K    == Entry("kernel.bin", 13)
X(n) == Entry("unrelated", n)

Roots == {<<Dots \o <<X(20), L, K>>>>, <<Dots \o <<K, X(20), L>>>>, <<Dots \o <<K>>>>, <<Dots \o <<L>>>>,
          <<Dots \o <<L>>, <<X(20), K>>>>, <<Dots \o <<L, K>>, <<X(20)>>>>,
          [i \in 1 .. 12 |-> IF i = 1 THEN Dots \o <<L>> ELSE IF i = 2 THEN <<K>> ELSE <<X(20)>>]}

Sizes == {1, 12, 13} \X {1, 2, 11, 12, 13, 14, 40, 62, 63, 64, 65, 66}

Maps == {<<Ram(0, 1), Ram(1, 31)>>, <<Ram(1, 29), Ram(0, 1), Reserved(4092, 4)>>,
         <<Ram(0, 1), Reserved(15, 1), Ram(16, 48), Ram(1, 14)>>,
         <<Ram(0, 1), Ram(1, 3583), Reserved(3584, 512), Ram(4096, 512)>>, <<>>}

Programs == {<<Header(1, 0, 64, 8), Header(1, 8, 73, 2), Header(0, 3, 64, 4)>>,
             <<Header(1, 1, 65, 1), Header(1685382481, 0, 0, 0)>>,
             <<Header(1, 4, 450, 6)>>}

Root1 == <<Dots \o <<X(20), L, K>>>>
Map1  == <<Ram(0, 1), Ram(1, 31)>>
Prog1 == <<Header(1, 0, 64, 8), Header(1, 8, 73, 2), Header(0, 3, 64, 4)>>

MCImages ==
    {Image(r, 2, 10, 13, Map1, Prog1) : r \in Roots}
    \cup {Image(Root1, s[1], s[2], 13, Map1, <<Header(1, 0, 64, s[2])>>) : s \in Sizes}
    \cup {Image(Root1, 2, 10, 13, m, p) : m \in Maps, p \in Programs}
    \cup {Image(<<Dots \o <<L, Entry("kernel.bin", n)>>>>, 2, 10, n, Map1, Prog1) : n \in {2048, 2049}}

ASSUME MCImagesAssumption == DisksFormatted /\ KernelsLinked
=============================================================================
