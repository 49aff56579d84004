------------------------------ MODULE MCTasks -------------------------------
(***************************************************************************)
(* An instance of Tasks for TLC: blocks of two sectors of two bytes, one   *)
(* direct block, two numbers in an indirect block.                         *)
(***************************************************************************)
EXTENDS Tasks, TLC

inode(size, direct, indirect) == [i_size |-> size, i_block |-> <<direct, indirect>>]

\* a file of a part of a block, one of two blocks and a byte, the root of
\* one block, and one with a block more than its indirect block can name
Files == (0 :> inode(3, 10, 0)) @@ (1 :> inode(9, 11, 20))
         @@ (2 :> inode(4, 12, 0)) @@ (3 :> inode(13, 13, 21))

IndirectBlocks == (20 :> (0 :> 14 @@ 1 :> 15)) @@ (21 :> (0 :> 16 @@ 1 :> 17))
=============================================================================
