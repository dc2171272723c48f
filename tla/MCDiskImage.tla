------------------------------ MODULE MCDiskImage ------------------------------
(***************************************************************************)
(* An instance of DiskImage for TLC: blocks of 2 bytes with 2 pointers,    *)
(* inodes with one direct and one indirect pointer, which reach 15 blocks. *)
(***************************************************************************)
EXTENDS DiskImage, TLC

CONSTANTS f1, f2, f3

\* A file that ends within the indirect block, one that fills it exactly, one
\* larger than an inode can hold.
Sizes == f1 :> 3 @@ f2 :> 6 @@ f3 :> 33

\* Two files, the second of which reaches into the doubly indirect block.
TwoSizes == f1 :> 1 @@ f2 :> 7

\* The second file belongs to another user.
TwoUsers == {<<f1, 1>>, <<f2, 2>>, <<f3, 1>>}
OneUser == {<<f1, 1>>, <<f2, 1>>}

\* Nothing, every other block, everything.
SomeMarks == {{}, {b \in 0 .. nblocks - 1 : b % 2 = 0}, 0 .. nblocks - 1}
=============================================================================
